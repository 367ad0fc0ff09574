------------------------------- MODULE Wiring --------------------------------
(***************************************************************************)
(* What the parts of the desktop application share: the configuration      *)
(* (core/src/config.rs), the channels between the windows, the daemon and  *)
(* the main loop, and what the main loop shows.                            *)
(***************************************************************************)
EXTENDS Naturals, Sequences

CONSTANTS Addresses,    \* addresses of Tracim servers, also names of instances
          Workspaces,   \* ids of workspaces, on every server
          MaxTroubles   \* failures of the disk, of the keyring, of the network

ASSUME WiringAssumption == MaxTroubles \in Nat

VARIABLES messages,     \* the channel to the daemon
          requests,     \* the channel of requests to the main loop
          screen,       \* "none", the window the main loop runs, or "gone"
          troubles

shared == <<messages, requests, screen, troubles>>

MayFail == troubles < MaxTroubles
Failed  == MayFail /\ troubles' = troubles + 1

(* A space is named by the address of its server and its id (TrsyncUid).   *)
Spaces == Addresses \X Workspaces

Instance == [name : Addresses, address : Addresses, selected : SUBSET Workspaces]
Config == Seq(Instance)

SpacesOf(instance) == {instance.address} \X instance.selected

(* The instances of a configuration that list a space.                     *)
Listings(config, space) == {i \in DOMAIN config : space \in SpacesOf(config[i])}
Listed(config) == {space \in Spaces : Listings(config, space) # {}}
ListedTwice(config) ==
    {space \in Spaces : \E i, j \in Listings(config, space) : i # j}

Messages == [what : {"reload"}, config : Config] \cup [what : {"stop"}]
Requests == {"monitor", "configure", "quit"}

Reload(config) == [what |-> "reload", config |-> config]
Stop == [what |-> "stop"]

===============================================================================
