------------------------------ MODULE Lifecycle -------------------------------
(***************************************************************************)
(* The life of one run (trsync/src/run2.rs): the loop of run(), the Runner *)
(* it builds at each turn with its two watcher threads, the stop and the   *)
(* restart signals, the startup synchronization with its confirmation,     *)
(* live work, errors and the user's decision about them, the list of       *)
(* ignored contents. What an operation does to the space and the folder is *)
(* the subject of Operator and Startup; here a change is done or it is not.*)
(***************************************************************************)
EXTENDS Naturals, Sequences

CONSTANTS Contents,     \* what changes and errors are about
          None,
          StartedAs,    \* how runs are started, within Modes
          MaxEdits,     \* changes by users, before the run or during it
          MaxTroubles   \* losses of the network and errors of other kinds

ASSUME LifecycleAssumption ==
    /\ MaxEdits \in Nat /\ MaxTroubles \in Nat
    /\ StartedAs \subseteq {"asked", "plain", "cli", "once"}
    /\ Contents \cap {"none", "asked", "other", "connection", "restart"} = {}
    /\ None \notin {"remote", "local"} \X Contents \X Nat

VARIABLES
    mode,       \* how the run was started
    pc,         \* where the thread of run() is
    stop,       \* the stop signal: "unset", "set", "cleared"
    runners,    \* the current Runner and the one before it
    stale,      \* changes the other side does not have
    found,      \* those the startup synchronization has in hand
    hand,       \* the one the operator has in hand, or None
    error,      \* why the Runner failed
    cell,       \* the error shown to the user, or "none"
    locked,     \* the monitor window holds the lock of the cell
    decisions,  \* channel of the decisions about errors
    changes,    \* changes wait for the user's confirmation
    confirms,   \* channel of the confirmations
    ignoring,   \* Ignore: what this turn of the loop leaves aside
    ignoreFile, \* the contents .trsyncignore reads as
    noted,      \* history: .trsyncignore held lines of the user when written to
    chosen,     \* history: what the user chose to ignore, and was written
    activity,   \* the activity the run has told last
    declined,   \* history: changes the user refused
    online, edits, troubles

dialog  == <<cell, locked, decisions, changes, confirms>>
work    == <<stale, found, hand>>
lists   == <<ignoring, ignoreFile, noted, chosen>>
bounds  == <<edits, troubles>>
vars == <<mode, pc, stop, runners, work, error, dialog, lists, activity, declined,
          online, bounds>>

-------------------------------------------------------------------------------
Sides   == {"remote", "local"}
Changes == Sides \X Contents \X (1..MaxEdits)

(* The daemon's runs have dialogs ("asked" when the startup wants a        *)
(* confirmation, "plain" otherwise); the command line has none ("cli"),    *)
(* and may leave after the startup ("once").                               *)
Modes == {"asked", "plain", "cli", "once"}
Dialogs == mode \in {"asked", "plain"}

Points == {"begin", "sync", "confirm", "apply", "live", "working", "sleep",
           "failing", "decide", "check", "over"}

Ears == {"off", "connecting", "listening", "cut"}
Eyes == {"off", "starting", "watching"}
Runner == [ear : Ears, eye : Eyes, restart : BOOLEAN, queue : SUBSET Changes]

Fresh == [ear |-> "connecting", eye |-> "starting", restart |-> FALSE, queue |-> {}]
NoRunner == [ear |-> "off", eye |-> "off", restart |-> FALSE, queue |-> {}]

now == runners.now

Tell(a) == activity' = IF Dialogs THEN a ELSE activity

Decisions == {"restart"} \cup Contents

(* A change may have been made while no run was there. *)
Init ==
    /\ mode \in StartedAs
    /\ pc = "begin" /\ stop = "unset"
    /\ runners = [now |-> NoRunner, former |-> NoRunner]
    /\ found = {} /\ hand = None
    /\ \/ stale = {} /\ edits = 0
       \/ /\ MaxEdits > 0 /\ edits = 1
          /\ \E side \in Sides, content \in Contents : stale = {<<side, content, 1>>}
    /\ error = "none" /\ cell = "none" /\ locked = FALSE /\ decisions = <<>>
    /\ changes = FALSE /\ confirms = <<>>
    /\ ignoring = {} /\ ignoreFile = {} /\ noted = FALSE /\ chosen = {}
    /\ activity = "none" /\ declined = {}
    /\ online = TRUE /\ troubles = 0

-------------------------------------------------------------------------------
(* The thread of run(). One turn of its loop: the list of ignored contents *)
(* is read, a Runner is built, its watchers are started and it runs.       *)

(* Nobody reads the channels of a Runner left behind, nor whether its local *)
(* watcher has begun.                                                      *)
Left(runner) == [runner EXCEPT !.queue = {},
                               !.eye = IF @ = "off" THEN "off" ELSE "watching"]

Turn(list, runner) ==
    /\ ignoring' = list /\ UNCHANGED <<ignoreFile, noted, chosen>>
    /\ runners' = [now |-> runner, former |-> Left(now)]

MayFail == troubles < MaxTroubles
Trouble == MayFail /\ troubles' = troubles + 1

(* What an error of this kind leads to: "connection" stands for any error  *)
(* whose text holds that word, which is what run() looks at.               *)
EventSkipped == "live"  \* mutant
TurnGivenUp == "sleep"

Raise(kind) ==
    /\ error' = IF Dialogs /\ kind # "connection" THEN kind ELSE "none"
    /\ stale' = stale \cup found /\ found' = {} /\ hand' = None
    /\ pc' = IF kind = "connection" THEN TurnGivenUp
             ELSE IF Dialogs THEN "failing" ELSE "over"

(* Without the network every call fails; other errors may come at any time,*)
(* with the network too, or be about a content that a change adds to the   *)
(* State, ignored or not: an upload may adopt one that is.                 *)
Errors(changing) == {"connection", "other"} \cup {change[2] : change \in changing}

Fails(kind) ==
    /\ Raise(kind)
    /\ \/ Trouble
       \/ kind = "connection" /\ ~online /\ UNCHANGED troubles

ReadFails ==
    /\ pc = "begin" /\ Trouble
    /\ pc' = "over"
    /\ UNCHANGED <<mode, stop, runners, work, error, dialog, lists, activity, declined,
                   online, edits>>

(* The folder and the database are opened before the watchers start; the   *)
(* errors of the latter tell of a "database connection".                   *)
Begin ==
    /\ pc = "begin"
    /\ \/ Turn(ignoreFile, Fresh) /\ pc' = "sync" /\ Tell("sync")
          /\ UNCHANGED <<work, error, troubles>>
       \/ /\ \E kind \in {"connection", "other"} : Raise(kind)
          /\ Trouble /\ Turn(ignoreFile, NoRunner) /\ UNCHANGED activity
    /\ UNCHANGED <<mode, stop, dialog, declined, online, edits>>

(* Runner::sync: both sides are compared with the State. What the server   *)
(* tells of an ignored content is left aside, unless it disappeared; so is *)
(* every event of it (Heard below).                                        *)
OfIgnored(change) == change[1] = "remote" /\ change[2] \in ignoring

Compare ==
    /\ pc = "sync" /\ online
    /\ \E aside \in SUBSET {change \in stale : OfIgnored(change)} :
          found' = stale \ aside /\ stale' = aside
    /\ IF found' = {} THEN pc' = "live" /\ Tell("idle") /\ UNCHANGED changes
       ELSE IF mode = "asked" THEN pc' = "confirm" /\ Tell("waiting") /\ changes' = TRUE
       ELSE pc' = "apply" /\ UNCHANGED <<activity, changes>>
    /\ UNCHANGED <<mode, stop, runners, hand, error, cell, locked, decisions, confirms,
                   lists, declined, online, bounds>>

SyncFails ==
    /\ pc \in {"sync", "apply"}
    /\ \E kind \in Errors(found) : Fails(kind)
    /\ Tell("idle")
    /\ UNCHANGED <<mode, stop, runners, dialog, lists, declined, online, edits>>

RefusalUntold == activity  \* mutant
RefusalTold == "idle"

TakeConfirm ==
    /\ pc = "confirm" /\ confirms # <<>>
    /\ confirms' = Tail(confirms)
    /\ IF Head(confirms) = "accept"
       THEN pc' = "apply" /\ Tell("sync") /\ UNCHANGED <<stale, found, declined>>
       ELSE /\ pc' = "live" /\ Tell(RefusalTold)
            /\ stale' = stale \cup found /\ found' = {}
            /\ declined' = declined \cup found
    /\ UNCHANGED <<mode, stop, runners, hand, error, cell, locked, decisions, changes,
                   lists, online, bounds>>

(* OperateChanges, over both lists; with exit_after_sync the run is over.  *)
Apply ==
    /\ pc = "apply" /\ online
    /\ found' = {}
    /\ pc' = "live" /\ Tell("idle")
    /\ UNCHANGED <<mode, stop, runners, stale, hand, error, dialog, lists, declined,
                   online, bounds>>

(* Runner::operate. Between two events, and on taking one, the signals are *)
(* read; the stop signal comes first.                                      *)
RestartUnread == FALSE  \* mutant
RestartRequested == now.restart

TakenBack == IF stop = "set" THEN "cleared" ELSE stop  \* mutant
OnlyRead == stop

LeaveLive ==
    /\ pc = "live"
    /\ stop = "set" \/ RestartRequested \/ mode = "once"
    /\ pc' = "check" /\ stop' = OnlyRead
    /\ UNCHANGED <<mode, runners, work, error, dialog, lists, activity, declined,
                   online, bounds>>

TakeEvent ==
    /\ pc = "live" /\ stop # "set" /\ ~RestartRequested /\ mode # "once"
    /\ \E change \in now.queue :
        /\ hand' = change
        /\ runners' = [runners EXCEPT !.now.queue = @ \ {change}]
    /\ pc' = "working" /\ Tell("job")
    /\ UNCHANGED <<mode, stop, stale, found, error, dialog, lists, declined, online, bounds>>

Operate ==
    /\ pc = "working" /\ online
    /\ stale' = stale \ {hand} /\ hand' = None
    /\ pc' = "live" /\ Tell("idle")
    /\ UNCHANGED <<mode, stop, runners, found, error, dialog, lists, declined, online, bounds>>

OperateFails ==
    /\ pc = "working"
    /\ \E kind \in Errors({hand}) : Fails(kind)
    /\ UNCHANGED <<mode, stop, runners, dialog, lists, activity, declined, online, edits>>

(* A connection error: thirty seconds, then the next turn, without a look  *)
(* at the signals.                                                         *)
Wake ==
    /\ pc = "sleep"
    /\ pc' = "begin"
    /\ UNCHANGED <<mode, stop, runners, work, error, dialog, lists, activity, declined,
                   online, bounds>>

(* Any other error is put in the cell, whose lock the window may hold.     *)
LockIgnored == TRUE  \* mutant
LockFree == ~locked

ShowError ==
    /\ pc = "failing" /\ LockFree
    /\ cell' = error /\ error' = "none" /\ pc' = "decide" /\ Tell("error")
    /\ UNCHANGED <<mode, stop, runners, work, locked, decisions, changes, confirms,
                   lists, declined, online, bounds>>

(* The decision: start again, or ignore the content first. The list is     *)
(* written over the file, which is not truncated: whole when trsync alone  *)
(* wrote it. The last id may be glued to what the user wrote there, or be  *)
(* cut when writing fails (which is only logged), and then reads as        *)
(* another one or as nothing.                                              *)
Pushed(list) == list \cup {Head(decisions)}
Glued(list) == {list} \cup {list \cup {content} : content \in Contents}

WrittenTooEarly == ignoring  \* mutant
Written == Pushed(ignoring)

IgnoreContent ==
    /\ ignoring' = Pushed(ignoring)
    /\ noted' \in {noted, TRUE}
    /\ \/ /\ ignoreFile' \in IF noted' THEN Glued(ignoring) ELSE {Written}
          /\ chosen' = Pushed(chosen) /\ UNCHANGED troubles
       \/ Trouble /\ (ignoreFile' \in Glued(ignoring)) /\ UNCHANGED chosen

TakeDecision ==
    /\ pc = "decide" /\ decisions # <<>>
    /\ decisions' = Tail(decisions)
    /\ IF Head(decisions) = "restart" THEN UNCHANGED <<lists, troubles>> ELSE IgnoreContent
    /\ pc' = "check" /\ Tell("idle")
    /\ UNCHANGED <<mode, stop, runners, work, error, cell, locked, changes, confirms,
                   declined, online, edits>>

(* The end of a turn. *)
StopUnread == FALSE  \* mutant
StopRequested == stop = "set"

Check ==
    /\ pc = "check"
    /\ IF StopRequested \/ mode = "once"
       THEN pc' = "over" /\ stop' = IF stop = "set" THEN "cleared" ELSE stop
       ELSE pc' = "begin" /\ UNCHANGED stop
    /\ UNCHANGED <<mode, runners, work, error, dialog, lists, activity, declined, online,
                   bounds>>

RunStep ==
    \/ ReadFails \/ Begin \/ Compare \/ SyncFails \/ TakeConfirm \/ Apply \/ LeaveLive
    \/ TakeEvent \/ Operate \/ OperateFails \/ Wake \/ ShowError \/ TakeDecision \/ Check

-------------------------------------------------------------------------------
(* The watcher threads, of the current Runner and of the one before it,    *)
(* which nobody joins: `kept` is one or the other.                         *)

(* Both watchers may fail at their start: the thread ends, which is only   *)
(* logged. RemoteWatcher::listen asks for the stream once; sixty seconds   *)
(* without a byte raise the restart signal of its own Runner.              *)
Begins(kept, thread, atWork) ==
    /\ runners' = [runners EXCEPT ![kept][thread] = atWork]
    /\ UNCHANGED troubles

BeginFails(kept, thread) == Trouble /\ runners' = [runners EXCEPT ![kept][thread] = "off"]

EarConnects(kept) ==
    /\ runners[kept].ear = "connecting"
    /\ \/ Begins(kept, "ear", IF online THEN "listening" ELSE "off")
       \/ online /\ BeginFails(kept, "ear")

EarFallsSilent(kept) ==
    /\ runners[kept].ear = "cut"
    /\ runners' = [runners EXCEPT ![kept].ear = "off", ![kept].restart = TRUE]
    /\ UNCHANGED troubles

EarStops(kept) ==
    /\ runners[kept].ear \in {"listening", "cut"} /\ stop = "set"
    /\ runners' = [runners EXCEPT ![kept].ear = "off"]
    /\ UNCHANGED troubles

EyeOpens(kept) ==
    /\ runners[kept].eye = "starting"
    /\ (Begins(kept, "eye", "watching") \/ BeginFails(kept, "eye"))

EyeStopOnly(kept) == stop = "set"  \* mutant
EyeToldToEnd(kept) == stop = "set" \/ runners[kept].restart

EyeCloses(kept) ==
    /\ runners[kept].eye = "watching" /\ EyeToldToEnd(kept)
    /\ runners' = [runners EXCEPT ![kept].eye = "off"]
    /\ UNCHANGED troubles

ThreadOnly == UNCHANGED <<mode, pc, stop, work, error, dialog, lists, activity, declined,
                          online, edits>>

EarStep(kept) == (EarConnects(kept) \/ EarFallsSilent(kept) \/ EarStops(kept)) /\ ThreadOnly
EyeStep(kept) == (EyeOpens(kept) \/ EyeCloses(kept)) /\ ThreadOnly
ThreadStep(kept) == EarStep(kept) \/ EyeStep(kept)

-------------------------------------------------------------------------------
(* The monitor window. The buttons of an error: the decision is sent, then *)
(* the cell is emptied, under one lock; ignoring is offered for an error   *)
(* about a content. Those of a confirmation do both within one lock that   *)
(* the run does not want before it has the answer.                         *)

Offered == {"restart"} \cup (Contents \cap {cell})

Decide ==
    /\ cell # "none" /\ ~locked
    /\ \E decision \in Offered : decisions' = Append(decisions, decision)
    /\ locked' = TRUE
    /\ UNCHANGED <<mode, pc, stop, runners, work, error, cell, changes, confirms, lists,
                   activity, declined, online, bounds>>

EmptyCell ==
    /\ locked
    /\ locked' = FALSE /\ cell' = "none"
    /\ UNCHANGED <<mode, pc, stop, runners, work, error, decisions, changes, confirms,
                   lists, activity, declined, online, bounds>>

KeepsAsking == changes  \* mutant
AskedNoMore == FALSE

Confirm ==
    /\ changes /\ ~locked
    /\ changes' = AskedNoMore
    /\ \E answer \in {"accept", "refuse"} : confirms' = Append(confirms, answer)
    /\ UNCHANGED <<mode, pc, stop, runners, work, error, cell, locked, decisions, lists,
                   activity, declined, online, bounds>>

Window == Decide \/ EmptyCell \/ Confirm

-------------------------------------------------------------------------------
(* The rest of the world: the daemon, the users and the network.           *)

Signal ==
    /\ Dialogs /\ stop = "unset" /\ pc # "over"
    /\ stop' = "set"
    /\ UNCHANGED <<mode, pc, runners, work, error, dialog, lists, activity, declined,
                   online, bounds>>

(* A change is heard when the watcher of its side is at work.              *)
Heard(change) ==
    IF change[1] = "remote" THEN now.ear = "listening" /\ ~OfIgnored(change)
    ELSE now.eye = "watching"

Edit ==
    /\ edits < MaxEdits /\ pc # "over"
    /\ edits' = edits + 1
    /\ \E change \in Sides \X Contents \X {edits'} :
        /\ stale' = stale \cup {change}
        /\ runners' = [runners EXCEPT !.now.queue =
                          IF Heard(change) THEN @ \cup {change} ELSE @]
    /\ UNCHANGED <<mode, pc, stop, found, hand, error, dialog, lists, activity, declined,
                   online, troubles>>

(* Streams may outlive a loss of the network or not. *)
Outage ==
    /\ online /\ Trouble /\ pc # "over"
    /\ online' = FALSE
    /\ \E cut \in SUBSET DOMAIN runners :
        runners' = [k \in DOMAIN runners |->
                      IF k \in cut /\ runners[k].ear = "listening"
                      THEN [runners[k] EXCEPT !.ear = "cut"] ELSE runners[k]]
    /\ UNCHANGED <<mode, pc, stop, work, error, dialog, lists, activity, declined, edits>>

Recovery ==
    /\ ~online /\ online' = TRUE
    /\ UNCHANGED <<mode, pc, stop, runners, work, error, dialog, lists, activity, declined,
                   bounds>>

Next ==
    \/ RunStep \/ Window \/ Signal \/ Edit \/ Outage \/ Recovery
    \/ \E kept \in {"now", "former"} : ThreadStep(kept)

(* Threads are scheduled, the network comes back (MaxTroubles times at     *)
(* most), and the user answers what a window shows. Nothing is assumed of  *)
(* the daemon, of users' changes and of errors.                            *)
Fairness ==
    /\ WF_vars(RunStep) /\ WF_vars(Window) /\ WF_vars(Recovery)
    /\ \A kept \in {"now", "former"} : WF_vars(ThreadStep(kept))

Spec     == Init /\ [][Next]_vars
FairSpec == Spec /\ Fairness

-------------------------------------------------------------------------------
(* Every variable keeps its type; a channel never holds two answers.       *)
TypeOK ==
    /\ mode \in Modes /\ pc \in Points /\ stop \in {"unset", "set", "cleared"}
    /\ runners \in [{"now", "former"} -> Runner]
    /\ stale \subseteq Changes /\ found \subseteq Changes /\ declined \subseteq Changes
    /\ hand \in Changes \cup {None}
    /\ error \in {"none", "other"} \cup Contents
    /\ cell \in {"none", "other"} \cup Contents
    /\ locked \in BOOLEAN /\ changes \in BOOLEAN /\ online \in BOOLEAN
    /\ decisions \in Seq(Decisions) /\ Len(decisions) <= 1
    /\ confirms \in Seq({"accept", "refuse"}) /\ Len(confirms) <= 1
    /\ ignoring \subseteq Contents /\ ignoreFile \subseteq Contents
    /\ chosen \subseteq Contents /\ noted \in BOOLEAN
    /\ activity \in {"none", "idle", "sync", "waiting", "job", "error"}
    /\ edits \in 0..MaxEdits /\ troubles \in 0..MaxTroubles

(* What the systray and the monitor tell of a run that rests or waits is   *)
(* true, by whichever of its paths it came there: activities are sent one  *)
(* by one along Runner::sync, sync_, operate and run, early returns        *)
(* included.                                                               *)
Told ==
    Dialogs =>
        /\ pc = "live" => activity = "idle"
        /\ pc = "confirm" => activity = "waiting"
        /\ pc = "decide" => activity = "error"
        /\ pc = "check" => activity = "idle"

(* "Ignorer a l'avenir" (monitor/src/app.rs:402): what the user chose to    *)
(* ignore, and whose list could be written, every later turn of the loop   *)
(* ignores. Each turn knows the file only (run2.rs:463).                   *)
IgnoredInFuture == chosen \subseteq ignoring

(* It is so as long as trsync alone writes the file (ignore.rs:79).        *)
IgnoredForGood == ~noted => IgnoredInFuture

(* A change the watchers of the current Runner have reported is done on    *)
(* the other side, whatever signals, errors and losses of the network come *)
(* between: the event may be dropped with the Runner, but then the next    *)
(* startup finds the change. Unless the user refuses it, or chose to       *)
(* ignore its content, or the run ends.                                    *)
HeardIsDone ==
    \A change \in Changes :
        change \in now.queue
            ~> \/ change \notin stale \cup found
               \/ change \in declined \/ OfIgnored(change) \/ pc = "over"

(* A silent server is noticed: a Runner whose remote watcher gave up is    *)
(* replaced (or the run ends), though the signal is read between events    *)
(* only and the run may be waiting for the user (remote/watcher.rs:138).   *)
Resumes == now.restart ~> ~now.restart \/ pc = "over"

(* The local watcher left behind by such a Runner ends too.                *)
SilencedEnd ==
    runners.former.restart ~> runners.former.eye = "off" \/ ~runners.former.restart

(* A run asked to stop is over in the end, from wherever it is: asleep     *)
(* after a connection error, waiting for an answer, failing.               *)
StopHonoured == stop = "set" ~> pc = "over"

(* The decision about an error is an exchange of Question: one answer per  *)
(* question, none lost, no question hidden from the user. The cell and the *)
(* channel are separate (error.rs:87-91): only the lock orders them.       *)
ErrorExchange ==
    IF decisions # <<>> THEN Head(decisions) ELSE IF pc = "decide" THEN "asked" ELSE "none"
AboutError == INSTANCE Question WITH Answers <- Decisions, exchange <- ErrorExchange
ErrorsAnswered == AboutError!Spec

(* So is the confirmation of a startup synchronization (core/src/sync.rs). *)
ConfirmExchange ==
    IF confirms # <<>> THEN Head(confirms) ELSE IF pc = "confirm" THEN "asked" ELSE "none"
AboutStartup == INSTANCE Question WITH Answers <- {"accept", "refuse"},
                                       exchange <- ConfirmExchange
StartupsAnswered == AboutStartup!Spec

(* Seen from the daemon the whole is a SpaceRun: it is over once for all,  *)
(* it ends only between questions, it takes its stop signal back only as   *)
(* it ends, and it ends when asked to unless the user lets it wait.        *)
Outside ==
    IF pc = "over" THEN "over"
    ELSE IF \/ pc = "decide" /\ decisions = <<>>
            \/ pc = "confirm" /\ confirms = <<>> THEN "asking" ELSE "busy"
Contract == INSTANCE SpaceRun WITH at <- Outside
IsSpaceRun == Contract!Spec
===============================================================================
