------------------------------ MODULE Configure ------------------------------
(***************************************************************************)
(* The configuration window (configure/src/app.rs), the file and the       *)
(* keyring it writes (core/src/config.rs, core/src/security.rs) and the    *)
(* threads that try credentials. Of an instance are kept its name, its     *)
(* address and the workspaces selected; the lists of workspaces, the form  *)
(* under the fingers and the messages to the user are left out.            *)
(***************************************************************************)
EXTENDS Wiring, SequencesExt

CONSTANTS New,        \* the name of an instance not added yet: the empty one
          MaxActs     \* what users do with the windows

ASSUME ConfigureAssumption == New \notin Addresses /\ MaxActs \in Nat

VARIABLES
    listed,     \* State.instances of the open window, <<>> without one
    jobs,       \* credentials being tried
    file,       \* trsync.conf
    saved,      \* history: the last save was written whole
    keyring,    \* the addresses, or names, a password is stored under
    acts

configure == <<listed, jobs, file, saved, keyring, acts>>

-------------------------------------------------------------------------------
(* The file: the names in order, and one section for each name: the last   *)
(* instance of a name is the one that stays.                               *)
Named(list, name) == {i \in DOMAIN list : list[i].name = name}
FirstNamed(list, name) == CHOOSE i \in Named(list, name) : \A j \in Named(list, name) : i <= j
LastNamed(list, name)  == CHOOSE i \in Named(list, name) : \A j \in Named(list, name) : j <= i

Names(list) == {list[i].name : i \in DOMAIN list}

Written(list) ==
    [names |-> [i \in DOMAIN list |-> list[i].name],
     sections |-> [name \in Names(list) |-> list[LastNamed(list, name)]]]

(* The file is truncated, then written bit by bit: a save that fails       *)
(* leaves it as it was, or such that it cannot be read (a section is       *)
(* missing), or without an instance, or with other workspaces in the last  *)
(* section, whose name is the last one to come in.                         *)
Unreadable == [names |-> <<New>>, sections |-> <<>>]

LastSection(list) ==
    CHOOSE name \in Names(list) :
        \A other \in Names(list) : FirstNamed(list, other) <= FirstNamed(list, name)
Reselected(list, name, selected) == [list EXCEPT ![LastNamed(list, name)].selected = selected]

Cut(list) ==
    {file, Unreadable, Written(<<>>)}
    \cup {Written(Reselected(list, LastSection(list), selected)) :
            selected \in IF list = <<>> THEN {} ELSE SUBSET Workspaces}

(* What a filter keeps of a list of instances, in order. *)
Only(kept, list) ==
    FoldLeft(LAMBDA acc, instance : IF instance \in kept THEN Append(acc, instance) ELSE acc,
             <<>>, list)

(* from_ini leaves out the instances whose address has no password.        *)
HasPassword(instance) == instance.address \in keyring

(* The instances as the file lists them. *)
Sections == [i \in DOMAIN file.names |-> file.sections[file.names[i]]]
Read == Only({instance \in Range(Sections) : HasPassword(instance)}, Sections)

InitFrom(config) ==
    /\ listed = <<>> /\ jobs = <<>> /\ acts = 0
    /\ file = Written(config) /\ saved = TRUE
    /\ keyring = {config[i].address : i \in DOMAIN config}

-------------------------------------------------------------------------------
Job == [name : Addresses \cup {New}, address : Addresses]

Act == screen = "configure" /\ acts < MaxActs /\ acts' = acts + 1

OpenConfigure  == listed' = Read /\ jobs' = <<>>
(* The threads that try credentials have nobody to answer any more. *)
CloseConfigure == listed' = <<>> /\ jobs' = <<>>

(* save_config: the file, then the daemon, which is not told when the file *)
(* cannot be written.                                                      *)
SavedTooEarly ==  \* mutant
    /\ file' = Written(listed) /\ messages' = Append(messages, Reload(listed'))
    /\ saved' = TRUE /\ UNCHANGED troubles

SaveConfig ==
    \/ /\ file' = Written(listed') /\ messages' = Append(messages, Reload(listed'))
       /\ saved' = TRUE /\ UNCHANGED troubles
    \/ Failed /\ file' \in Cut(listed') /\ saved' = FALSE /\ UNCHANGED messages

(* check_instance_credentials, for an instance of the list or for a new    *)
(* one: nothing keeps the user from pressing the button again.             *)
Validate ==
    /\ Act
    /\ \E name \in {New} \cup Names(listed), address \in Addresses :
        jobs' = Append(jobs, [name |-> name, address |-> address])
    /\ UNCHANGED <<shared, listed, file, saved, keyring>>

Unnamed(address) ==  \* mutant
    Append(listed, [name |-> New, address |-> address, selected |-> {}])
Added(address) ==
    Append(listed, [name |-> address, address |-> address, selected |-> {}])
Updated(name, address) ==
    IF name \in Names(listed) THEN [listed EXCEPT ![FirstNamed(listed, name)].address = address]
    ELSE listed

(* InstanceCredentialsAccepted: the list, then the keyring, then the file: *)
(* each may fail, and what was done before stays.                          *)
Accepted(job) ==
    LET name == IF job.name = New THEN job.address ELSE job.name
    IN  /\ listed' = IF job.name = New THEN Added(job.address)
                     ELSE Updated(name, job.address)
        /\ \/ keyring' = keyring \cup {name} /\ SaveConfig
           \/ Failed /\ UNCHANGED <<keyring, file, saved, messages>>

(* The answers come in any order: each is from a thread of its own. *)
JobEnds ==
    /\ screen = "configure"
    /\ \E i \in DOMAIN jobs :
        /\ jobs' = RemoveAt(jobs, i)
        /\ \/ Accepted(jobs[i])
           \/ UNCHANGED <<listed, file, saved, keyring, messages, troubles>>
    /\ UNCHANGED <<requests, screen, acts>>

Select ==
    /\ Act
    /\ \E name \in Names(listed), selected \in SUBSET Workspaces :
        listed' = [listed EXCEPT ![FirstNamed(listed, name)].selected = selected]
    /\ SaveConfig
    /\ UNCHANGED <<requests, screen, jobs, keyring>>

Delete ==
    /\ Act
    /\ \E name \in Names(listed) :
        listed' = Only({other \in Range(listed) : other.name # name}, listed)
    /\ SaveConfig
    /\ UNCHANGED <<requests, screen, jobs, keyring>>

(* GlobalConfigurationUpdated: the folder, or a flag, changed. *)
Resave ==
    /\ Act
    /\ UNCHANGED listed /\ SaveConfig
    /\ UNCHANGED <<requests, screen, jobs, keyring>>

ConfigureStep == Validate \/ JobEnds \/ Select \/ Delete \/ Resave

===============================================================================
