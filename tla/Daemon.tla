------------------------------- MODULE Daemon --------------------------------
(***************************************************************************)
(* The daemon (manager/src/daemon.rs): it starts and signals the runs of   *)
(* spaces so that they are those of its configuration, and puts their      *)
(* dialogs at the disposal of the windows. Of a run it knows the stop      *)
(* signal only; what a run does is that of module SpaceRun.                *)
(***************************************************************************)
EXTENDS Wiring

CONSTANTS None,
          MaxRequests, \* requests of popups waiting for the main loop
          MaxRuns      \* runs ever started: no further folder can be made

ASSUME DaemonAssumption == MaxRuns \in Nat /\ None \notin 1..MaxRuns

VARIABLES
    config,      \* Daemon.config
    phase,       \* where Daemon::run is
    todo,        \* the listings of each space for which it is still to be started
    processes,   \* the run of each space the daemon knows
    runs,        \* every run ever started, in order
    channels,    \* the exchangers: the run whose dialogs the windows reach
    readable,    \* spaces whose server answers, with a folder to hold them
    doubled      \* history: spaces a configuration has listed twice

daemon == <<config, phase, todo, processes, runs, channels, readable, doubled>>

-------------------------------------------------------------------------------
Run == [space : Spaces, at : {"busy", "asking", "over"}, stop : {"unset", "set", "cleared"}]
RunIds == 1..Len(runs)

InitWith(first) ==
    /\ config = first /\ doubled = ListedTwice(first)
    /\ phase = "initial"
    /\ todo = [space \in Spaces |-> {}]
    /\ processes = [space \in Spaces |-> None]
    /\ runs = <<>>
    /\ channels = [space \in Spaces |-> None]
    /\ readable \in SUBSET Spaces

(* ensure_processes first asks for every workspace of the configuration:   *)
(* until all can be read nothing is started, nothing is stopped, and       *)
(* Daemon::run tries again and again without a look at its channel.        *)
WholeServers == Spaces \subseteq readable  \* mutant
AllReadable == Listed(config) \subseteq readable

EverySpace(space) == TRUE  \* mutant
Unknown(space) == processes[space] = None

Unwanted == {space \in Spaces : processes[space] # None} \ Listed(config)
Forgotten == [space \in Spaces |-> IF space \in Unwanted THEN None ELSE processes[space]]

(* The stop signal of a run that is over is read by nobody. *)
ToSignal(r) == r \in {processes[space] : space \in Unwanted} /\ runs[r].at # "over"

NotSignalled == runs  \* mutant
Withdrawn ==          \* mutant
    [r \in RunIds |->
        IF ToSignal(r) THEN [runs[r] EXCEPT !.stop = "set"]
        ELSE IF runs[r].space \in Listed(config) /\ runs[r].stop = "set"
        THEN [runs[r] EXCEPT !.stop = "unset"] ELSE runs[r]]
Signalled ==
    [r \in RunIds |-> IF ToSignal(r) THEN [runs[r] EXCEPT !.stop = "set"] ELSE runs[r]]

Survey ==
    /\ phase \in {"initial", "reloading"} /\ AllReadable
    /\ todo' = [space \in Spaces |->
                  IF Unknown(space) THEN Listings(config, space) ELSE {}]
    /\ processes' = Forgotten
    /\ runs' = Signalled
    /\ phase' = "started"
    /\ UNCHANGED <<shared, config, channels, readable, doubled>>

(* start_process: the dialogs of the new run take the place of those of a  *)
(* former run of the space; a failure is only logged.                      *)
FormerKept(space, r) == IF channels[space] = None THEN r ELSE channels[space]  \* mutant
Inserted(space, r) == r

Taken(space) ==
    /\ phase = "started"
    /\ \E i \in todo[space] : todo' = [todo EXCEPT ![space] = @ \ {i}]

StartProcess(space) ==
    /\ Taken(space) /\ space \in readable /\ Len(runs) < MaxRuns
    /\ runs' = Append(runs, [space |-> space, at |-> "busy", stop |-> "unset"])
    /\ channels' = [channels EXCEPT ![space] = Inserted(space, Len(runs) + 1)]
    /\ processes' = [processes EXCEPT ![space] = Len(runs) + 1]
    /\ UNCHANGED <<shared, config, phase, readable, doubled>>

StartFails(space) ==
    /\ Taken(space) /\ (space \notin readable \/ Len(runs) = MaxRuns)
    /\ UNCHANGED <<shared, config, phase, processes, runs, channels, readable, doubled>>

Waiting == phase = "started" /\ \A space \in Spaces : todo[space] = {}

TakeMessage ==
    /\ Waiting /\ messages # <<>>
    /\ messages' = Tail(messages)
    /\ IF Head(messages).what = "reload"
       THEN /\ config' = Head(messages).config /\ phase' = "reloading"
            /\ doubled' = doubled \cup ListedTwice(config')
       ELSE phase' = "ended" /\ UNCHANGED <<config, doubled>>
    /\ UNCHANGED <<requests, screen, troubles, todo, processes, runs, channels, readable>>

DaemonStep ==
    \/ Survey \/ TakeMessage
    \/ \E space \in Spaces : StartProcess(space) \/ StartFails(space)

-------------------------------------------------------------------------------
(* What runs do, by themselves and with the answer of a window: see        *)
(* SpaceRun. A window reaches a run through the exchangers only.           *)
Becomes(r, at) == runs' = [runs EXCEPT ![r].at = at]
OthersThanRuns == UNCHANGED <<messages, screen, troubles, config, phase, todo, processes,
                              channels, readable, doubled>>

(* A startup that waits for a confirmation may pop the monitor up.         *)
Ask(r) ==
    /\ runs[r].at = "busy" /\ Becomes(r, "asking")
    /\ \/ UNCHANGED requests
       \/ Len(requests) < MaxRequests /\ requests' = Append(requests, "monitor")
    /\ OthersThanRuns

Answered(r) ==
    /\ screen = "monitor" /\ runs[r].at = "asking" /\ channels[runs[r].space] = r
    /\ Becomes(r, "busy") /\ OthersThanRuns /\ UNCHANGED requests

End(r) ==
    /\ runs[r].at = "busy"
    /\ runs' = [runs EXCEPT ![r].at = "over",
                            ![r].stop = IF @ = "set" THEN "cleared" ELSE @]
    /\ OthersThanRuns /\ UNCHANGED requests

===============================================================================
