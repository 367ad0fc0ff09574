------------------------------- MODULE Manager -------------------------------
(***************************************************************************)
(* The desktop application: the main loop and the tray (systray/src), the  *)
(* daemon with the runs it starts (module Daemon), the configuration       *)
(* window (module Configure) and the monitor window, through which the     *)
(* user answers the runs.                                                  *)
(***************************************************************************)
EXTENDS Daemon, Configure

CONSTANTS FirstConfigs  \* what trsync.conf may hold when the program is started

ASSUME ManagerAssumption == FirstConfigs \subseteq Config

vars == <<shared, daemon, configure>>

Init ==
    /\ messages = <<>> /\ requests = <<>> /\ screen = "none" /\ troubles = 0
    /\ \E first \in FirstConfigs : InitFrom(first) /\ InitWith(first)

-------------------------------------------------------------------------------
(* The menu of the tray. Quitting tells the daemon too. *)
Click ==
    /\ acts < MaxActs /\ acts' = acts + 1
    /\ \E item \in Requests :
        /\ requests' = Append(requests, item)
        /\ messages' = IF item = "quit" THEN Append(messages, Stop) ELSE messages
    /\ UNCHANGED <<screen, troubles, daemon, listed, jobs, file, saved, keyring>>

(* The main loop runs one window at a time, in its own thread. The         *)
(* configuration window opens on the file, or not at all.                  *)
TakeRequest ==
    /\ screen = "none" /\ requests # <<>>
    /\ requests' = Tail(requests)
    /\ CASE Head(requests) = "quit" ->
               screen' = "gone" /\ messages' = Append(messages, Stop) /\ UNCHANGED <<listed, jobs>>
         [] Head(requests) = "monitor" ->
               screen' = "monitor" /\ UNCHANGED <<messages, listed, jobs>>
         [] Head(requests) = "configure" /\ file # Unreadable ->
               screen' = "configure" /\ OpenConfigure /\ UNCHANGED messages
         [] OTHER -> UNCHANGED <<screen, messages, listed, jobs>>
    /\ UNCHANGED <<troubles, daemon, file, saved, keyring, acts>>

(* A window is closed by its user, and by itself when it is painted while  *)
(* a request waits. The monitor asks to be painted every 250 ms (MakeRoom);*)
(* the configuration window is painted when its user does something.       *)
NeverAsked == FALSE  \* mutant
Requested == requests # <<>>

CloseWindow ==
    /\ screen \in {"monitor", "configure"}
    /\ screen' = "none" /\ CloseConfigure
    /\ UNCHANGED <<messages, requests, troubles, daemon, file, saved, keyring, acts>>

MakeRoom == screen = "monitor" /\ Requested /\ CloseWindow

(* A server, or the disk, comes and goes. *)
Weather ==
    /\ Failed /\ \E space \in Spaces :
        readable' = (readable \cup {space}) \ (readable \cap {space})
    /\ UNCHANGED <<messages, requests, screen, config, phase, todo, processes, runs,
                   channels, doubled, configure>>

RunStep(r) == (Ask(r) \/ Answered(r) \/ End(r)) /\ UNCHANGED configure

Next ==
    /\ screen # "gone"
    /\ \/ DaemonStep /\ UNCHANGED configure
       \/ ConfigureStep /\ UNCHANGED daemon
       \/ \E r \in RunIds : RunStep(r)
       \/ Click \/ TakeRequest \/ CloseWindow \/ Weather

Spec == Init /\ [][Next]_vars

(* The threads of the daemon and of the main loop are scheduled, and with  *)
(* the latter the monitor window. Nothing is assumed of the configuration  *)
(* window, of the runs, of the user and of the network.                    *)
Fairness ==
    /\ WF_vars(screen # "gone" /\ DaemonStep /\ UNCHANGED configure)
    /\ WF_vars(TakeRequest) /\ WF_vars(MakeRoom)

FairSpec == Spec /\ Fairness

-------------------------------------------------------------------------------
(* Every variable keeps its type. *)
TypeOK ==
    /\ messages \in Seq(Messages) /\ requests \in Seq(Requests)
    /\ screen \in {"none", "monitor", "configure", "gone"} /\ troubles \in 0..MaxTroubles
    /\ config \in Config /\ listed \in Config
    /\ phase \in {"initial", "reloading", "started", "ended"}
    /\ todo \in [Spaces -> SUBSET (DOMAIN config)]
    /\ runs \in Seq(Run) /\ Len(runs) <= MaxRuns
    /\ processes \in [Spaces -> RunIds \cup {None}]
    /\ channels \in [Spaces -> RunIds \cup {None}]
    /\ readable \subseteq Spaces /\ doubled \subseteq Spaces
    /\ jobs \in Seq(Job) /\ keyring \subseteq Addresses /\ saved \in BOOLEAN
    /\ acts \in 0..MaxActs

(* A space has one run at a time that is not told to stop, unless a        *)
(* configuration has listed the space twice: processes_to_start is made    *)
(* before any is started (daemon.rs:119), and a run is forgotten when it   *)
(* is signalled, not when it ends (daemon.rs:269).                         *)
Obeys(r) == runs[r].at # "over" /\ runs[r].stop = "unset"

OneMaster ==
    \A r, s \in RunIds :
        Obeys(r) /\ Obeys(s) /\ runs[r].space = runs[s].space /\ runs[r].space \notin doubled
            => r = s

(* When the daemon has done what a configuration asks for, no run goes on  *)
(* unsignalled for a space that is not of this configuration.              *)
NoStranger ==
    Waiting => \A r \in RunIds :
                  Obeys(r) => runs[r].space \in Listed(config) \cup doubled

(* The question of a run that is not told to stop can be answered: the     *)
(* windows reach runs by the name of their space only, and a newer run     *)
(* takes the place of an older one (error.rs:120, sync.rs:144).            *)
CanBeAnswered ==
    \A r \in RunIds :
        Obeys(r) /\ runs[r].at = "asking" /\ runs[r].space \notin doubled
            => channels[runs[r].space] = r

(* Once a save is written whole, and until one is not, the file says what  *)
(* the daemon was told last, as a later start would read it, whatever      *)
(* failed before: the file and the message are made from one list, but the *)
(* file is by names, the keyring by addresses and names, and each step of  *)
(* saving may fail. Two kinds of lists are outside: those with two         *)
(* instances of one name, and those with an address no password is under.  *)
LastTold ==
    LET told == {i \in DOMAIN messages : messages[i].what = "reload"}
    IN  IF told = {} THEN config ELSE messages[Max(told)].config

Storable(list) ==
    /\ \A i, j \in DOMAIN list : list[i].name = list[j].name => i = j
    /\ \A i \in DOMAIN list : list[i].address \in keyring

FileAgrees == saved /\ Storable(LastTold) => Read = LastTold

(* For the daemon's part of the contract: to each run it is as SpaceRun    *)
(* says, signalled once and left alone when it is over, though runs of the *)
(* same space come and go and share the place of their dialogs.            *)
TheRun(r) == INSTANCE SpaceRun WITH
                at   <- IF r \in RunIds THEN runs[r].at ELSE "busy",
                stop <- IF r \in RunIds THEN runs[r].stop ELSE "unset"
RunsAreSpaceRuns ==
    /\ \A r \in 1..MaxRuns : TheRun(r)!Init
    /\ [][\A r \in 1..MaxRuns : [TheRun(r)!Next]_(TheRun(r)!vars)]_vars

(* With a network that stays, what is saved is taken up by the daemon in   *)
(* the end.                                                                *)
Heard == messages = <<>> \/ phase = "ended" \/ screen = "gone"
ReloadsTaken == <>[](Listed(config) \subseteq readable) => []<>Heard

(* A user who quits is obeyed, whatever the monitor shows and whatever     *)
(* popups the runs have asked for in the meantime, provided that the       *)
(* configuration window is not left open for ever: it sees a request when  *)
(* it is painted only (configure/src/app.rs:65).                           *)
QuitEnds ==
    []<>(screen # "configure") => ("quit" \in Range(requests) ~> screen = "gone")

(* When a configuration cannot be ensured and another is sent, the first   *)
(* is given up: "main message received, skip" (daemon.rs:63).              *)
SkipsToMessage ==
    phase = "reloading" /\ messages # <<>> ~> phase # "reloading" \/ screen = "gone"

===============================================================================
