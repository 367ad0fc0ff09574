---------------------------- MODULE DaemonProofs ----------------------------
(***************************************************************************)
(* One run per space, none left behind, questions that can be answered,    *)
(* and a file that says what the daemon was told: for any number of        *)
(* servers, workspaces, runs and failures, whatever the windows save and   *)
(* whatever the channel holds.                                             *)
(***************************************************************************)
EXTENDS Manager, FoldProofs, SequenceTheorems

RunsOK ==
    /\ runs \in Seq(Run) /\ Len(runs) <= MaxRuns
    /\ processes \in [Spaces -> RunIds \cup {None}]
    /\ channels \in [Spaces -> RunIds \cup {None}]
    /\ doubled \subseteq Spaces

(* The daemon knows the run of a space that obeys nobody else.             *)
Masters ==
    \A r \in RunIds :
        Obeys(r) /\ runs[r].space \notin doubled => processes[runs[r].space] = r

(* What it knows is a run of this space, and not signalled.                *)
Known ==
    \A space \in Spaces :
        processes[space] # None =>
            /\ runs[processes[space]].space = space
            /\ runs[processes[space]].stop = "unset"

(* The windows reach the run the daemon knows.                             *)
Reached ==
    \A space \in Spaces \ doubled :
        processes[space] # None => channels[space] = processes[space]

(* A space is still to be started once at most, and only when it has no    *)
(* run.                                                                    *)
TodoOK ==
    /\ DOMAIN todo = Spaces /\ todo = [space \in Spaces |-> todo[space]]
    /\ ListedTwice(config) \subseteq doubled
    /\ \A space \in Spaces \ doubled :
        /\ \A i, j \in todo[space] : i = j
        /\ todo[space] # {} => processes[space] = None

(* Once the daemon has surveyed a configuration, what it knows and what it *)
(* is still to start is of this configuration.                             *)
Wanted ==
    phase = "started" =>
        \A space \in Spaces :
            processes[space] # None \/ todo[space] # {} => space \in Listed(config)

DaemonInv == RunsOK /\ Masters /\ Known /\ Reached /\ TodoOK /\ Wanted

-------------------------------------------------------------------------------
LEMMA DaemonInvInit == Init => DaemonInv
<1> SUFFICES ASSUME Init PROVE DaemonInv
    OBVIOUS
<1>1. PICK first \in FirstConfigs : InitWith(first)
    BY DEF Init
<1>2. RunsOK /\ Masters /\ Known /\ Reached
    BY <1>1, DaemonAssumption
    DEF InitWith, RunsOK, Masters, Known, Reached, RunIds, ListedTwice
<1> QED
    BY <1>1, <1>2 DEF InitWith, DaemonInv, TodoOK, Wanted

(* No run is named None. *)
LEMMA RunsNamed ==
    ASSUME RunsOK
    PROVE  /\ None \notin RunIds /\ RunIds = DOMAIN runs
           /\ \A r \in RunIds : runs[r] \in Run
BY DaemonAssumption DEF RunsOK, RunIds

LEMMA SurveyKeeps ==
    ASSUME DaemonInv, Survey
    PROVE  DaemonInv'
<1> USE DEF DaemonInv
<1>1. /\ runs' = Signalled /\ processes' = Forgotten
      /\ UNCHANGED <<config, channels, doubled>>
    BY DEF Survey
<1>2. /\ RunIds' = RunIds /\ Len(runs') = Len(runs) /\ runs' \in Seq(Run)
      /\ \A r \in RunIds : runs'[r].space = runs[r].space /\ runs'[r].at = runs[r].at
    <2>1. \A r \in RunIds : runs[r] \in Run
        BY RunsNamed
    <2>2. \A r \in RunIds : [runs[r] EXCEPT !.stop = "set"] \in Run
        BY <2>1 DEF Run
    <2>3. Signalled \in [1..Len(runs) -> Run]
        BY <2>1, <2>2 DEF Signalled, RunIds
    <2>4. Signalled \in Seq(Run) /\ Len(Signalled) = Len(runs)
        BY <2>3 DEF RunsOK
    <2>5. \A r \in RunIds : /\ Signalled[r].space = runs[r].space
                            /\ Signalled[r].at = runs[r].at
        BY <2>1 DEF Signalled, Run
    <2> QED
        BY <1>1, <2>4, <2>5 DEF RunIds
<1>3. RunsOK'
    BY <1>1, <1>2 DEF RunsOK, Forgotten, RunIds
<1>4. Masters'
    <2> SUFFICES ASSUME NEW r \in RunIds, Obeys(r)', runs[r].space \notin doubled
                 PROVE  processes'[runs[r].space] = r
        BY <1>1, <1>2 DEF Masters
    <2> DEFINE space == runs[r].space
    <2>1. space \in Spaces
        BY RunsNamed DEF Run
    <2>2. runs'[r] = (IF ToSignal(r) THEN [runs[r] EXCEPT !.stop = "set"] ELSE runs[r])
        BY <1>1 DEF Signalled
    <2>3. ~ToSignal(r) /\ Obeys(r)
        BY <2>2, <1>2, RunsNamed DEF Obeys, Run
    <2>4. processes[space] = r
        BY <2>3 DEF Masters
    <2>5. space \notin Unwanted
        BY <2>3, <2>4 DEF ToSignal, Obeys
    <2> QED
        BY <1>1, <2>1, <2>4, <2>5 DEF Forgotten
<1>5. Reached' /\ TodoOK'
    BY <1>1 DEF Reached, TodoOK, Forgotten, Survey, Unknown, ListedTwice
<1>6. Wanted'
    BY <1>1 DEF Wanted, Survey, Forgotten, Unwanted, Listed
<1>7. Known'
    <2> SUFFICES ASSUME NEW space \in Spaces, processes'[space] # None
                 PROVE  /\ runs'[processes'[space]].space = space
                        /\ runs'[processes'[space]].stop = "unset"
        BY DEF Known
    <2>1. processes'[space] = processes[space] /\ space \notin Unwanted
        BY <1>1 DEF Forgotten
    <2>2. PICK r \in RunIds : r = processes[space]
        BY <2>1 DEF RunsOK
    <2>3. ~ToSignal(r)
        BY <2>1, <2>2 DEF ToSignal, Known, Unwanted
    <2> QED
        BY <1>1, <2>1, <2>2, <2>3 DEF Signalled, Known
<1> QED
    BY <1>3, <1>4, <1>5, <1>6, <1>7

LEMMA StartKeeps ==
    ASSUME DaemonInv, NEW space \in Spaces, StartProcess(space)
    PROVE  DaemonInv'
<1> USE DEF DaemonInv
<1> DEFINE id == Len(runs) + 1
           run == [space |-> space, at |-> "busy", stop |-> "unset"]
<1>1. /\ runs' = Append(runs, run) /\ UNCHANGED <<config, phase, doubled>>
      /\ processes' = [processes EXCEPT ![space] = id]
      /\ channels' = [channels EXCEPT ![space] = id]
      /\ Len(runs) < MaxRuns
    BY DEF StartProcess, Inserted
<1>2. PICK i \in todo[space] : todo' = [todo EXCEPT ![space] = @ \ {i}]
    BY DEF StartProcess, Taken
<1>3. run \in Run
    BY DEF Run
<1>4. /\ runs' \in Seq(Run) /\ Len(runs') = id /\ RunIds' = RunIds \cup {id}
      /\ runs'[id] = run /\ \A r \in RunIds : runs'[r] = runs[r] /\ r # id
    BY <1>1, <1>3 DEF RunsOK, RunIds
<1>5. RunsOK'
    BY <1>1, <1>4, DaemonAssumption DEF RunsOK
<1>6. Masters'
    <2> SUFFICES ASSUME NEW r \in RunIds', Obeys(r)', runs'[r].space \notin doubled
                 PROVE  processes'[runs'[r].space] = r
        BY <1>1 DEF Masters
    <2>1. CASE r = id
        BY <1>1, <1>4, <2>1 DEF RunsOK
    <2>2. CASE r \in RunIds
        <3>1. runs'[r] = runs[r] /\ Obeys(r) /\ runs[r].space \in Spaces
            BY <1>4, <2>2, RunsNamed DEF Obeys, Run
        <3>2. processes[runs[r].space] = r
            BY <2>2, <3>1 DEF Masters
        <3>3. runs[r].space # space
            BY <1>2, <2>2, <3>1, <3>2, RunsNamed DEF TodoOK
        <3> QED
            BY <1>1, <3>1, <3>2, <3>3 DEF RunsOK
    <2> QED
        BY <1>4, <2>1, <2>2
<1>7. Reached'
    BY <1>1 DEF Reached, RunsOK
<1>8. TodoOK'
    <2>1. DOMAIN todo' = Spaces /\ todo' = [s \in Spaces |-> todo'[s]]
        BY <1>2 DEF TodoOK
    <2>2. ASSUME NEW s \in Spaces \ doubled
          PROVE  /\ \A j, k \in todo'[s] : j = k
                 /\ todo'[s] # {} => processes'[s] = None
        <3>1. CASE s = space
            BY <1>2, <2>2, <3>1 DEF TodoOK
        <3>2. CASE s # space
            BY <1>1, <1>2, <2>2, <3>2 DEF TodoOK, RunsOK
        <3> QED
            BY <3>1, <3>2
    <2> QED
        BY <1>1, <2>1, <2>2 DEF TodoOK, ListedTwice
<1>9. Wanted'
    BY <1>1, <1>2 DEF Wanted, TodoOK, RunsOK, Listed
<1>10. Known'
    <2> SUFFICES ASSUME NEW s \in Spaces, processes'[s] # None
                 PROVE  /\ runs'[processes'[s]].space = s
                        /\ runs'[processes'[s]].stop = "unset"
        BY DEF Known
    <2>1. CASE s = space
        BY <1>1, <1>4, <2>1 DEF RunsOK
    <2>2. CASE s # space
        <3>1. processes'[s] = processes[s] /\ processes[s] \in RunIds
            BY <1>1, <2>2 DEF RunsOK
        <3> QED
            BY <1>4, <3>1 DEF Known
    <2> QED
        BY <2>1, <2>2
<1> QED
    BY <1>5, <1>6, <1>7, <1>8, <1>9, <1>10

LEMMA StartFailsKeeps ==
    ASSUME DaemonInv, NEW space \in Spaces, StartFails(space)
    PROVE  DaemonInv'
<1> USE DEF DaemonInv
<1>1. UNCHANGED <<config, phase, processes, runs, channels, doubled>>
    BY DEF StartFails
<1>2. PICK i \in todo[space] : todo' = [todo EXCEPT ![space] = @ \ {i}]
    BY DEF StartFails, Taken
<1>3. RunsOK' /\ Masters' /\ Known' /\ Reached'
    BY <1>1 DEF RunsOK, Masters, Known, Reached, RunIds, Obeys
<1>4. TodoOK'
    BY <1>1, <1>2 DEF TodoOK, ListedTwice
<1>5. Wanted'
    BY <1>1, <1>2 DEF Wanted, TodoOK, Listed
<1> QED
    BY <1>3, <1>4, <1>5

LEMMA TakeMessageKeeps ==
    ASSUME DaemonInv, TakeMessage
    PROVE  DaemonInv'
<1> USE DEF DaemonInv
<1>1. /\ UNCHANGED <<todo, processes, runs, channels>>
      /\ doubled \subseteq doubled' /\ doubled' \subseteq Spaces
      /\ ListedTwice(config') \subseteq doubled' /\ phase' # "started"
    BY DEF TakeMessage, RunsOK, TodoOK, ListedTwice
<1>2. RunsOK' /\ Masters' /\ Known' /\ Reached'
    BY <1>1 DEF RunsOK, Masters, Known, Reached, RunIds, Obeys
<1>3. TodoOK' /\ Wanted'
    BY <1>1 DEF TodoOK, Wanted, ListedTwice
<1> QED
    BY <1>2, <1>3

(* A step of a run changes where it is, and may take its stop signal back. *)
LEMMA RunStepKeeps ==
    ASSUME DaemonInv, NEW r \in RunIds, RunStep(r)
    PROVE  DaemonInv'
<1> USE DEF DaemonInv
<1>1. UNCHANGED <<config, phase, todo, processes, channels, doubled>>
    BY DEF RunStep, Ask, Answered, End, OthersThanRuns
<1>3. /\ runs' \in Seq(Run) /\ Len(runs') = Len(runs)
      /\ \A s \in RunIds : runs'[s].space = runs[s].space
      /\ \A s \in RunIds : Obeys(s)' => Obeys(s)
      /\ \A s \in RunIds : runs[s].stop = "unset" => runs'[s].stop = "unset"
    <2>1. runs[r] \in Run /\ r \in DOMAIN runs
        BY RunsNamed
    <2>2. PICK new \in Run : /\ runs' = [runs EXCEPT ![r] = new]
                             /\ new.space = runs[r].space
                             /\ new.at # "over" => runs[r].at # "over"
                             /\ new.stop = "unset" <=> runs[r].stop = "unset"
        <3>1. CASE Ask(r) \/ Answered(r)
            <4>1. PICK p \in {"busy", "asking"} : Becomes(r, p) /\ runs[r].at # "over"
                BY <3>1 DEF Ask, Answered
            <4>2. [runs[r] EXCEPT !.at = p] \in Run
                BY <2>1, <4>1 DEF Run
            <4> QED
                BY <2>1, <4>1, <4>2 DEF Becomes, Run
        <3>2. CASE End(r)
            <4> DEFINE new == [runs[r] EXCEPT !.at = "over",
                                 !.stop = IF @ = "set" THEN "cleared" ELSE @]
            <4>1. new \in Run /\ runs' = [runs EXCEPT ![r] = new]
                BY <2>1, <3>2 DEF Run, End
            <4>2. /\ new.space = runs[r].space /\ new.at = "over"
                  /\ new.stop = "unset" <=> runs[r].stop = "unset"
                BY <2>1 DEF Run
            <4> QED
                BY <4>1, <4>2
        <3> QED
            BY <3>1, <3>2 DEF RunStep
    <2>3. runs' \in Seq(Run) /\ Len(runs') = Len(runs)
        BY <2>1, <2>2 DEF RunsOK
    <2> QED
        BY <2>1, <2>2, <2>3 DEF Obeys, RunIds
<1>4. RunIds' = RunIds
    BY <1>3 DEF RunIds
<1>5. RunsOK' /\ Masters' /\ Known' /\ Reached'
    BY <1>1, <1>3, <1>4 DEF RunsOK, Masters, Known, Reached
<1>6. TodoOK' /\ Wanted'
    BY <1>1 DEF TodoOK, Wanted, ListedTwice, Listed
<1> QED
    BY <1>5, <1>6

(* Windows, menu, requests and weather are none of the daemon's state.     *)
LEMMA OthersKeep ==
    ASSUME DaemonInv, UNCHANGED <<config, phase, todo, processes, runs, channels, doubled>>
    PROVE  DaemonInv'
BY DEF DaemonInv, RunsOK, Masters, Known, Reached, TodoOK, Wanted, RunIds, Obeys, ListedTwice, Listed

LEMMA DaemonInvNext == DaemonInv /\ [Next]_vars => DaemonInv'
<1> SUFFICES ASSUME DaemonInv, [Next]_vars PROVE DaemonInv'
    OBVIOUS
<1>1. CASE DaemonStep
    BY <1>1, SurveyKeeps, StartKeeps, StartFailsKeeps, TakeMessageKeeps DEF DaemonStep
<1>2. CASE \E r \in RunIds : RunStep(r)
    BY <1>2, RunStepKeeps
<1>3. CASE Click \/ TakeRequest \/ CloseWindow \/ Weather
    BY <1>3, OthersKeep DEF Click, TakeRequest, CloseWindow, Weather, daemon
<1>4. CASE UNCHANGED daemon
    BY <1>4, OthersKeep DEF daemon
<1> QED
    BY <1>1, <1>2, <1>3, <1>4 DEF Next, vars

(* The strengthening: what the map of processes, the exchangers and the    *)
(* list of what is still to be started say of the runs that obey           *)
(* (daemon.rs:119-270).                                                    *)
THEOREM DaemonInvariance == Spec => []DaemonInv
<1> QED
    BY DaemonInvInit, DaemonInvNext, PTL DEF Spec

-------------------------------------------------------------------------------
(* A space has one run at a time that is not told to stop, unless a        *)
(* configuration has listed it twice (daemon.rs:87-152, 260-271).          *)
THEOREM OneRunPerSpace == Spec => []OneMaster
<1>1. DaemonInv => OneMaster
    BY DEF DaemonInv, Masters, OneMaster
<1> QED
    BY <1>1, DaemonInvariance, PTL

(* When the daemon waits for a message, every run it has not signalled is  *)
(* of a space of its configuration (daemon.rs:134-152).                    *)
THEOREM NobodyLeftBehind == Spec => []NoStranger
<1>1. DaemonInv => NoStranger
    BY RunsNamed DEF DaemonInv, Masters, Wanted, NoStranger, Waiting, Run
<1> QED
    BY <1>1, DaemonInvariance, PTL

(* The question of a run that is not told to stop reaches the windows      *)
(* (start_process puts its dialogs in place of those of a former run).     *)
THEOREM QuestionsReached == Spec => []CanBeAnswered
<1>1. DaemonInv => CanBeAnswered
    BY RunsNamed DEF DaemonInv, Masters, Reached, CanBeAnswered, Run
<1> QED
    BY <1>1, DaemonInvariance, PTL

(* To each run the daemon is as SpaceRun says: it signals it once, before  *)
(* its end, and never takes a signal back (daemon.rs:260-271).             *)
ContractStep(r) == [TheRun(r)!Next]_(TheRun(r)!vars)

LEMMA SameRunSameContract ==
    ASSUME NEW r, r \in RunIds <=> r \in RunIds', r \in RunIds => runs'[r] = runs[r]
    PROVE  ContractStep(r)
BY DEF ContractStep, TheRun!Next, TheRun!vars

LEMMA SurveySignals ==
    ASSUME DaemonInv, Survey, NEW r \in 1..MaxRuns
    PROVE  ContractStep(r)
<1>1. RunIds' = RunIds /\ runs' = Signalled
    BY DEF Survey, Signalled, RunIds, DaemonInv, RunsOK
<1>2. CASE r \in RunIds /\ ToSignal(r)
    <2>1. runs[r].stop = "unset" /\ runs[r].at # "over" /\ runs[r] \in Run
        BY <1>2, RunsNamed DEF ToSignal, DaemonInv, Known, Unwanted
    <2>2. runs'[r] = [runs[r] EXCEPT !.stop = "set"]
        BY <1>1, <1>2 DEF Signalled
    <2>3. TheRun(r)!Signal
        BY <1>1, <1>2, <2>1, <2>2 DEF TheRun!Signal, Run
    <2> QED
        BY <2>3 DEF ContractStep, TheRun!Next
<1>3. CASE ~(r \in RunIds /\ ToSignal(r))
    BY <1>1, <1>3, SameRunSameContract DEF Signalled
<1> QED
    BY <1>2, <1>3

(* The run that is started comes to be what every run is at first.         *)
LEMMA StartIsNoStep ==
    ASSUME DaemonInv, NEW space \in Spaces, StartProcess(space), NEW r \in 1..MaxRuns
    PROVE  ContractStep(r)
<1> DEFINE run == [space |-> space, at |-> "busy", stop |-> "unset"]
<1>1. runs' = Append(runs, run) /\ runs \in Seq(Run) /\ run \in Run
    BY DEF StartProcess, DaemonInv, RunsOK, Run
<1>2. /\ RunIds' = RunIds \cup {Len(runs) + 1} /\ Len(runs) + 1 \notin RunIds
      /\ runs'[Len(runs) + 1] = run /\ \A s \in RunIds : runs'[s] = runs[s]
    BY <1>1 DEF RunIds
<1>3. CASE r = Len(runs) + 1
    BY <1>2, <1>3 DEF ContractStep, TheRun!Next, TheRun!vars
<1>4. CASE r # Len(runs) + 1
    BY <1>2, <1>4, SameRunSameContract
<1> QED
    BY <1>3, <1>4

LEMMA RunStepIsContract ==
    ASSUME DaemonInv, NEW s \in RunIds, RunStep(s), NEW r \in 1..MaxRuns
    PROVE  ContractStep(r)
<1>1. s \in DOMAIN runs /\ runs[s] \in Run /\ runs \in Seq(Run)
    BY RunsNamed DEF DaemonInv, RunsOK
<1>2. RunIds' = RunIds /\ \A t \in RunIds \ {s} : runs'[t] = runs[t]
    BY <1>1 DEF RunStep, Ask, Answered, End, Becomes, RunIds
<1>3. CASE r # s
    BY <1>2, <1>3, SameRunSameContract
<1>4. CASE r = s /\ Ask(s)
    <2>1. runs[r].at = "busy" /\ runs'[r] = [runs[r] EXCEPT !.at = "asking"]
        BY <1>1, <1>4 DEF Ask, Becomes
    <2>2. r \in RunIds /\ r \in RunIds' /\ runs[r] \in Run
        BY <1>1, <1>2, <1>4
    <2>3. runs'[r].at = "asking" /\ runs'[r].stop = runs[r].stop
        BY <2>1, <2>2 DEF Run
    <2>4. TheRun(r)!Ask
        BY <2>1, <2>2, <2>3 DEF TheRun!Ask
    <2> QED
        BY <2>4 DEF ContractStep, TheRun!Next
<1>5. CASE r = s /\ Answered(s)
    <2>1. runs[r].at = "asking" /\ runs'[r] = [runs[r] EXCEPT !.at = "busy"]
        BY <1>1, <1>5 DEF Answered, Becomes
    <2>2. r \in RunIds /\ r \in RunIds' /\ runs[r] \in Run
        BY <1>1, <1>2, <1>5
    <2>3. runs'[r].at = "busy" /\ runs'[r].stop = runs[r].stop
        BY <2>1, <2>2 DEF Run
    <2>4. TheRun(r)!Resume
        BY <2>1, <2>2, <2>3 DEF TheRun!Resume
    <2> QED
        BY <2>4 DEF ContractStep, TheRun!Next
<1>6. CASE r = s /\ End(s)
    <2>1. /\ runs[r].at = "busy"
          /\ runs'[r] = [runs[r] EXCEPT !.at = "over",
                               !.stop = IF @ = "set" THEN "cleared" ELSE @]
        BY <1>1, <1>6 DEF End
    <2>2. r \in RunIds /\ r \in RunIds' /\ runs[r] \in Run
        BY <1>1, <1>2, <1>6
    <2>3. /\ runs'[r].at = "over"
          /\ runs'[r].stop = IF runs[r].stop = "set" THEN "cleared" ELSE runs[r].stop
        BY <2>1, <2>2 DEF Run
    <2>4. TheRun(r)!End
        BY <2>1, <2>2, <2>3 DEF TheRun!End
    <2> QED
        BY <2>4 DEF ContractStep, TheRun!Next
<1> QED
    BY <1>3, <1>4, <1>5, <1>6 DEF RunStep

LEMMA StepIsContract ==
    ASSUME DaemonInv, [Next]_vars, NEW r \in 1..MaxRuns
    PROVE  ContractStep(r)
<1>1. CASE \E space \in Spaces : StartFails(space)
    BY <1>1, SameRunSameContract DEF StartFails, RunIds
<1>2. CASE DaemonStep
    BY <1>1, <1>2, SurveySignals, StartIsNoStep, SameRunSameContract
    DEF DaemonStep, TakeMessage, RunIds
<1>3. CASE \E s \in RunIds : RunStep(s)
    BY <1>3, RunStepIsContract
<1>4. CASE UNCHANGED runs
    BY <1>4, SameRunSameContract DEF RunIds
<1>5. CASE Click \/ TakeRequest \/ CloseWindow \/ Weather \/ UNCHANGED daemon
    BY <1>4, <1>5 DEF Click, TakeRequest, CloseWindow, Weather, daemon
<1> QED
    BY <1>2, <1>3, <1>5 DEF Next, vars

(* Whatever the daemon and the windows do to a run is a step of SpaceRun:  *)
(* signalled once, answered when it asks, left alone when it is over       *)
(* (daemon.rs:260-270, monitor/app.rs:281-432).                            *)
THEOREM RunsKeepTheContract == Spec => RunsAreSpaceRuns
<1>1. Init => \A r \in 1..MaxRuns : TheRun(r)!Init
    BY DEF Init, InitWith, TheRun!Init, RunIds
<1>2. DaemonInv /\ [Next]_vars =>
        [\A r \in 1..MaxRuns : [TheRun(r)!Next]_(TheRun(r)!vars)]_vars
    BY StepIsContract DEF ContractStep
<1> QED
    BY <1>1, <1>2, DaemonInvariance, PTL DEF Spec, RunsAreSpaceRuns

-------------------------------------------------------------------------------
(***************************************************************************)
(* What the filters keep: the fold of Only taken one instance at a time.   *)
(***************************************************************************)
Keep(kept, acc, instance) == IF instance \in kept THEN Append(acc, instance) ELSE acc

LEMMA OnlyUnfolded ==
    ASSUME NEW E, NEW kept, NEW q \in Seq(E)
    PROVE  \E acc : /\ acc[0] = <<>>
                    /\ \A n \in 1..Len(q) : acc[n] = Keep(kept, acc[n - 1], q[n])
                    /\ Only(kept, q) = acc[Len(q)]
<1> DEFINE Step(f, s) == IF s = {} THEN <<>> ELSE Keep(kept, f[s \ {Max(s)}], q[Max(s)])
           Found == {n \in Nat : \E f : f = [s \in SUBSET (1..n) |-> Step(f, s)]}
           iter == CHOOSE f : f = [s \in SUBSET (1..Len(q)) |-> Step(f, s)]
<1>1. 0 \in Found
    <2>1. 1..0 = {}
        OBVIOUS
    <2>2. [s \in SUBSET {} |-> <<>>] = [s \in SUBSET (1..0) |-> Step([t \in SUBSET {} |-> <<>>], s)]
        BY <2>1
    <2> HIDE DEF Step
    <2> QED
        BY <2>2
<1>2. ASSUME NEW n \in Nat, n \in Found
      PROVE  n + 1 \in Found
    <2>1. PICK f : f = [s \in SUBSET (1..n) |-> Step(f, s)]
        BY <1>2
    <2> DEFINE g == [s \in SUBSET (1..(n + 1)) |->
                        IF n + 1 \in s THEN Keep(kept, f[s \ {n + 1}], q[n + 1]) ELSE f[s]]
    <2>2. ASSUME NEW s \in SUBSET (1..(n + 1))
          PROVE  g[s] = Step(g, s)
        <3>1. CASE n + 1 \in s
            <4>1. Max(s) = n + 1 /\ s # {}
                <5> n + 1 \in Nat
                    OBVIOUS
                <5> QED
                    BY <3>1, MaxIs
            <4>2. s \ {n + 1} \in SUBSET (1..n) /\ s \ {n + 1} \in SUBSET (1..(n + 1))
                  /\ n + 1 \notin s \ {n + 1}
                OBVIOUS
            <4>3. g[s \ {n + 1}] = f[s \ {n + 1}]
                BY <4>2
            <4>4. g[s] = Keep(kept, f[s \ {n + 1}], q[n + 1])
                BY <3>1
            <4> HIDE DEF g
            <4> QED
                BY <4>1, <4>3, <4>4
        <3>2. CASE n + 1 \notin s
            <4>1. s \in SUBSET (1..n) 
                BY <3>2
            <4>2. g[s] = f[s]
                BY <3>2
            <4>3. f[s] = Step(f, s)
                <5> HIDE DEF Step
                <5> QED
                    BY <2>1, <4>1
            <4>4. s # {} => Max(s) \in s
                BY <4>1, MaxIn
            <4>5. g[s \ {Max(s)}] = f[s \ {Max(s)}]
                <5>1. s \ {Max(s)} \in SUBSET (1..(n + 1)) /\ n + 1 \notin s \ {Max(s)}
                    BY <3>2
                <5> QED
                    BY <5>1
            <4> HIDE DEF g
            <4> QED
                BY <4>2, <4>3, <4>5
        <3> QED
            BY <3>1, <3>2
    <2>3. g = [s \in SUBSET (1..(n + 1)) |-> Step(g, s)]
        <3> HIDE DEF Step
        <3>1. g = [s \in SUBSET (1..(n + 1)) |-> g[s]]
            OBVIOUS
        <3> HIDE DEF g
        <3> QED
            BY <2>2, <3>1
    <2> HIDE DEF g, Step
    <2> QED
        BY <2>3
<1>3. Len(q) \in Found
    <2> HIDE DEF Found
    <2> QED
        BY <1>1, <1>2, ByInduction
<1>4. iter = [s \in SUBSET (1..Len(q)) |-> Step(iter, s)]
    <2> HIDE DEF Step
    <2> QED
        BY <1>3
<1>5. Only(kept, q) = iter[1..Len(q)]
    <2>1. DOMAIN q = 1..Len(q)
        OBVIOUS
    <2> QED
        BY <2>1, Zenon DEF Only, FoldLeft, MapThenFoldSet, Keep
<1> DEFINE acc == [n \in 0..Len(q) |-> iter[1..n]]
<1>6. ASSUME NEW n \in 0..Len(q)
      PROVE  iter[1..n] = Step(iter, 1..n)
    <2> HIDE DEF Step, iter
    <2>1. 1..n \in SUBSET (1..Len(q))
        OBVIOUS
    <2> QED
        BY <1>4, <2>1
<1>7. ASSUME NEW n \in 1..Len(q)
      PROVE  iter[1..n] = Keep(kept, iter[1..(n - 1)], q[n])
    <2>1. Max(1..n) = n
        <3>1. n \in Nat /\ 1..n \in SUBSET (1..n) /\ n \in 1..n
            OBVIOUS
        <3> QED
            BY <3>1, MaxIs
    <2>4. (1..n) \ {n} = 1..(n - 1) /\ 1..n # {}
        OBVIOUS
    <2>2. n \in 0..Len(q)
        OBVIOUS
    <2>3. iter[1..n] = Step(iter, 1..n)
        BY <1>6, <2>2
    <2> HIDE DEF iter
    <2> QED
        BY <2>1, <2>3, <2>4
<1>8. iter[1..0] = <<>>
    <2>1. 1..0 = {}
        OBVIOUS
    <2>2. iter[1..0] = Step(iter, 1..0)
        <3>1. 0 \in 0..Len(q)
            OBVIOUS
        <3> HIDE DEF iter, Step
        <3> QED
            BY <1>6, <3>1
    <2> HIDE DEF iter
    <2> QED
        BY <2>1, <2>2
<1> HIDE DEF iter
<1>9. /\ acc[0] = <<>>
      /\ \A n \in 1..Len(q) : acc[n] = Keep(kept, acc[n - 1], q[n])
      /\ Only(kept, q) = acc[Len(q)]
    BY <1>5, <1>7, <1>8
<1> QED
    BY <1>9

(* A filter that drops nothing changes nothing (remove_instance).          *)
LEMMA OnlySome ==
    ASSUME NEW E, NEW kept, NEW q \in Seq(E)
    PROVE  /\ Only(kept, q) \in Seq(E)
           /\ (\A i \in 1..Len(q) : q[i] \in kept) => Only(kept, q) = q
<1>1. PICK acc : /\ acc[0] = <<>>
                 /\ \A n \in 1..Len(q) : acc[n] = Keep(kept, acc[n - 1], q[n])
                 /\ Only(kept, q) = acc[Len(q)]
    BY OnlyUnfolded
<1> DEFINE Good(n) == /\ acc[n] \in Seq(E)
                      /\ (\A i \in 1..Len(q) : q[i] \in kept) =>
                            Len(acc[n]) = n /\ \A i \in 1..n : acc[n][i] = q[i]
           Found == {n \in Nat : n <= Len(q) => Good(n)}
<1>2. 0 \in Found
    <2>1. Good(0)
        BY <1>1
    <2> HIDE DEF Good
    <2> QED
        BY <2>1
<1>3. ASSUME NEW n \in Nat, n \in Found
      PROVE  n + 1 \in Found
    <2> SUFFICES ASSUME n + 1 <= Len(q)
                 PROVE  Good(n + 1)
        OBVIOUS
    <2>1. Good(n) /\ acc[n + 1] = Keep(kept, acc[n], q[n + 1]) /\ q[n + 1] \in E /\ n + 1 \in 1..Len(q)
        BY <1>1, <1>3
    <2>2. CASE q[n + 1] \in kept
        <3>1. acc[n + 1] = Append(acc[n], q[n + 1])
            BY <2>1, <2>2 DEF Keep
        <3> QED
            BY <2>1, <3>1
    <2>3. CASE q[n + 1] \notin kept
        BY <2>1, <2>3 DEF Keep
    <2> QED
        BY <2>2, <2>3
<1>4. Len(q) \in Found
    <2> HIDE DEF Found
    <2> QED
        BY <1>2, <1>3, ByInduction
<1> QED
    BY <1>1, <1>4

-------------------------------------------------------------------------------
(***************************************************************************)
(* What the daemon was told last.                                          *)
(***************************************************************************)
ToldBy(sent, before) ==
    LET told == {i \in DOMAIN sent : sent[i].what = "reload"}
    IN  IF told = {} THEN before ELSE sent[Max(told)].config

LEMMA LastReload ==
    ASSUME NEW sent \in Seq(Messages), NEW before
    PROVE  LET told == {i \in DOMAIN sent : sent[i].what = "reload"} IN
           \/ told = {} /\ ToldBy(sent, before) = before
           \/ \E i \in told : (\A j \in told : j <= i) /\ ToldBy(sent, before) = sent[i].config
<1> DEFINE told == {i \in DOMAIN sent : sent[i].what = "reload"}
<1>1. told \in SUBSET (1..Len(sent)) /\ Len(sent) \in Nat
    OBVIOUS
<1>2. CASE told = {}
    BY <1>2 DEF ToldBy
<1>3. CASE told # {}
    <2>1. Max(told) \in told /\ \A j \in told : j <= Max(told)
        <3> HIDE DEF told
        <3> QED
            BY <1>1, <1>3, MaxIn
    <2>2. ToldBy(sent, before) = sent[Max(told)].config
        BY <1>3 DEF ToldBy
    <2> QED
        BY <2>1, <2>2
<1> QED
    BY <1>2, <1>3

LEMMA ToldType ==
    ASSUME NEW sent \in Seq(Messages), NEW before \in Config
    PROVE  ToldBy(sent, before) \in Config
<1>1. \A i \in DOMAIN sent : sent[i].what = "reload" => sent[i].config \in Config
    BY DEF Messages
<1> QED
    BY <1>1, LastReload

(* A message is added at the end. *)
LEMMA ToldAppended ==
    ASSUME NEW sent \in Seq(Messages), NEW before, NEW message \in Messages
    PROVE  ToldBy(Append(sent, message), before) =
              IF message.what = "reload" THEN message.config ELSE ToldBy(sent, before)
<1> DEFINE more == Append(sent, message)
           told == {i \in DOMAIN sent : sent[i].what = "reload"}
           now == {i \in DOMAIN more : more[i].what = "reload"}
           last == Len(sent) + 1
<1>1. /\ more \in Seq(Messages) /\ DOMAIN more = 1..last /\ more[last] = message
      /\ DOMAIN sent = 1..Len(sent) /\ \A i \in 1..Len(sent) : more[i] = sent[i]
      /\ Len(sent) \in Nat
    OBVIOUS
<1>2. now = IF message.what = "reload" THEN told \cup {last} ELSE told
    BY <1>1
<1>3. \A i \in told : i < last /\ more[i] = sent[i] /\ i \in Nat
    BY <1>1
<1>4. \/ now = {} /\ ToldBy(more, before) = before
      \/ \E i \in now : (\A j \in now : j <= i) /\ ToldBy(more, before) = more[i].config
    BY <1>1, LastReload
<1>5. \/ told = {} /\ ToldBy(sent, before) = before
      \/ \E i \in told : (\A j \in told : j <= i) /\ ToldBy(sent, before) = sent[i].config
    BY LastReload
<1>6. last \in Nat /\ more[last] = message
    BY <1>1
<1> HIDE DEF more, now, told, last
<1>7. CASE message.what = "reload"
    <2>1. PICK i \in now : (\A j \in now : j <= i) /\ ToldBy(more, before) = more[i].config
        BY <1>2, <1>4, <1>7
    <2>2. i = last
        BY <2>1, <1>2, <1>3, <1>6, <1>7
    <2> QED
        BY <2>1, <2>2, <1>6, <1>7 DEF more
<1>8. CASE message.what # "reload"
    <2>1. now = told
        BY <1>2, <1>8
    <2>2. CASE told = {}
        BY <2>1, <2>2, <1>4, <1>5, <1>8 DEF more
    <2>3. CASE told # {}
        <3>1. PICK i \in told : (\A j \in told : j <= i) /\ ToldBy(sent, before) = sent[i].config
            BY <2>3, <1>5
        <3>2. PICK k \in told : (\A j \in told : j <= k) /\ ToldBy(more, before) = more[k].config
            BY <2>1, <2>3, <1>4
        <3>3. i = k
            BY <3>1, <3>2, <1>3
        <3> QED
            BY <3>1, <3>2, <3>3, <1>3, <1>8 DEF more
    <2> QED
        BY <2>2, <2>3
<1> QED
    BY <1>7, <1>8

(* The oldest message is taken. *)
LEMMA ToldTaken ==
    ASSUME NEW sent \in Seq(Messages), NEW before, sent # <<>>
    PROVE  ToldBy(Tail(sent), IF Head(sent).what = "reload" THEN Head(sent).config ELSE before)
              = ToldBy(sent, before)
<1> DEFINE rest == Tail(sent)
           base == IF Head(sent).what = "reload" THEN Head(sent).config ELSE before
           told == {i \in DOMAIN sent : sent[i].what = "reload"}
           now == {i \in DOMAIN rest : rest[i].what = "reload"}
<1>1. /\ rest \in Seq(Messages) /\ DOMAIN rest = 1..(Len(sent) - 1) /\ DOMAIN sent = 1..Len(sent)
      /\ \A i \in 1..(Len(sent) - 1) : rest[i] = sent[i + 1]
      /\ Head(sent) = sent[1] /\ Len(sent) \in Nat /\ Len(sent) >= 1
    OBVIOUS
<1>2. /\ \A i \in now : i + 1 \in told /\ i \in Nat /\ i >= 1 /\ rest[i] = sent[i + 1]
      /\ \A i \in told : i # 1 => i - 1 \in now
      /\ \A i \in told : i \in Nat /\ i >= 1
      /\ 1 \in told <=> Head(sent).what = "reload"
    BY <1>1
<1>3. \/ now = {} /\ ToldBy(rest, base) = base
      \/ \E i \in now : (\A j \in now : j <= i) /\ ToldBy(rest, base) = rest[i].config
    <2> HIDE DEF base
    <2> QED
        BY <1>1, LastReload
<1>4. \/ told = {} /\ ToldBy(sent, before) = before
      \/ \E i \in told : (\A j \in told : j <= i) /\ ToldBy(sent, before) = sent[i].config
    BY LastReload
<1> HIDE DEF rest, now, told
<1>5. CASE now = {}
    <2>1. told \subseteq {1}
        BY <1>2, <1>5
    <2>2. CASE Head(sent).what = "reload"
        <3>1. told = {1}
            BY <2>1, <2>2, <1>2
        <3> QED
            BY <3>1, <2>2, <1>1, <1>3, <1>4, <1>5 DEF rest
    <2>3. CASE Head(sent).what # "reload"
        <3>1. told = {}
            BY <2>1, <2>3, <1>2
        <3> QED
            BY <3>1, <2>3, <1>3, <1>4, <1>5 DEF rest
    <2> QED
        BY <2>2, <2>3
<1>6. CASE now # {}
    <2>1. PICK i \in now : (\A j \in now : j <= i) /\ ToldBy(rest, base) = rest[i].config
        BY <1>3, <1>6
    <2>2. i + 1 \in told
        BY <1>2
    <2>3. PICK k \in told : (\A j \in told : j <= k) /\ ToldBy(sent, before) = sent[k].config
        BY <1>4, <2>2
    <2>4. k = i + 1
        <3>1. i + 1 <= k /\ k # 1 /\ k - 1 \in now
            BY <1>2, <2>2, <2>3
        <3>2. k - 1 <= i
            BY <3>1, <2>1
        <3> QED
            BY <3>1, <3>2, <1>2
    <2>5. ToldBy(rest, base) = ToldBy(sent, before)
        BY <2>1, <2>3, <2>4, <1>2
    <2> QED
        BY <2>5 DEF rest
<1> QED
    BY <1>5, <1>6

-------------------------------------------------------------------------------
(***************************************************************************)
(* The file.                                                               *)
(***************************************************************************)
SectionsOf(written) == [i \in DOMAIN written.names |-> written.sections[written.names[i]]]

LEMMA WrittenSections ==
    ASSUME NEW list \in Config
    PROVE  /\ SectionsOf(Written(list)) \in Config
           /\ (\A i, j \in DOMAIN list : list[i].name = list[j].name => i = j)
                 => SectionsOf(Written(list)) = list
<1> DEFINE read == SectionsOf(Written(list))
<1>1. read = [i \in DOMAIN list |-> list[LastNamed(list, list[i].name)]]
    BY DEF SectionsOf, Written, Names
<1>2. list \in Seq(Instance) /\ DOMAIN list = 1..Len(list) /\ Len(list) \in Nat
    BY DEF Config
<1>3. ASSUME NEW i \in DOMAIN list
      PROVE  \E k \in DOMAIN list : list[k].name = list[i].name /\ read[i] = list[k]
    <2> DEFINE n == list[i].name
    <2>1. Named(list, n) \in SUBSET (1..Len(list)) /\ Named(list, n) # {}
        BY <1>2 DEF Named
    <2>2. Max(Named(list, n)) \in Named(list, n) /\ \A j \in Named(list, n) : j <= Max(Named(list, n))
        <3> HIDE DEF n
        <3> QED
            BY <1>2, <2>1, MaxIn
    <2>3. LastNamed(list, n) \in Named(list, n)
        <3> HIDE DEF n
        <3> QED
            BY <2>2 DEF LastNamed
    <2> QED
        BY <1>1, <2>3 DEF Named
<1>4. \A i \in DOMAIN list : read[i] \in Instance
    BY <1>1, <1>2, <1>3
<1>5. read \in Config
    BY <1>1, <1>2, <1>4 DEF Config
<1>6. ASSUME \A i, j \in DOMAIN list : list[i].name = list[j].name => i = j
      PROVE  read = list
    <2>1. \A i \in DOMAIN list : read[i] = list[i]
        BY <1>1, <1>3, <1>6
    <2> QED
        BY <1>1, <1>2, <2>1
<1> QED
    BY <1>5, <1>6

LEMMA ReadType ==
    ASSUME NEW list \in Config, file = Written(list)
    PROVE  Read \in Config
<1>1. Sections = SectionsOf(Written(list))
    BY DEF Sections, SectionsOf
<1>2. Sections \in Seq(Instance)
    BY <1>1, WrittenSections DEF Config
<1> QED
    BY <1>2, OnlySome DEF Read, Config

LEMMA ReadBack ==
    ASSUME NEW list \in Config, file = Written(list), Storable(list)
    PROVE  Read = list
<1>1. Sections = list
    BY WrittenSections DEF Sections, SectionsOf, Storable
<1>2. list \in Seq(Instance)
    BY DEF Config
<1>3. \A i \in 1..Len(list) : list[i] \in {instance \in Range(list) : HasPassword(instance)}
    <2>1. DOMAIN list = 1..Len(list)
        BY <1>2
    <2> QED
        BY <2>1 DEF Range, HasPassword, Storable
<1> QED
    BY <1>1, <1>2, <1>3, OnlySome DEF Read

-------------------------------------------------------------------------------
(***************************************************************************)
(* The inductive invariant: the types, and a file that was made from the   *)
(* list the daemon was told last, or is what a failed save left.           *)
(***************************************************************************)
SharedOK ==
    /\ messages \in Seq(Messages) /\ requests \in Seq(Requests)
    /\ screen \in {"none", "monitor", "configure", "gone"} /\ troubles \in 0..MaxTroubles

WindowOK ==
    /\ listed \in Config /\ jobs \in Seq(Job) /\ keyring \subseteq Addresses
    /\ acts \in 0..MaxActs

SurveyedOK ==
    /\ config \in Config /\ phase \in {"initial", "reloading", "started", "ended"}
    /\ todo \in [Spaces -> SUBSET (DOMAIN config)] /\ readable \subseteq Spaces

FileOK ==
    /\ saved \in BOOLEAN
    /\ saved => file = Written(LastTold)
    /\ file = Unreadable \/ \E list \in Config : file = Written(list)

ManagerInv == SharedOK /\ WindowOK /\ SurveyedOK /\ FileOK

LEMMA Kept ==
    ASSUME ManagerInv
    PROVE  /\ UNCHANGED shared => SharedOK'
           /\ UNCHANGED configure => WindowOK'
           /\ UNCHANGED <<config, phase, todo, readable>> => SurveyedOK'
           /\ UNCHANGED <<file, saved, messages, config>> => FileOK'
           /\ LastTold = ToldBy(messages, config) /\ LastTold' = ToldBy(messages', config')
           /\ LastTold \in Config
<1>1. LastTold = ToldBy(messages, config) /\ LastTold' = ToldBy(messages', config')
    BY DEF LastTold, ToldBy
<1> QED
    BY <1>1, ToldType DEF ManagerInv, SharedOK, WindowOK, SurveyedOK, FileOK, shared, configure

LEMMA ManagerInvInit == Init => ManagerInv
<1> SUFFICES ASSUME Init
             PROVE  ManagerInv
    OBVIOUS
<1>1. PICK first \in FirstConfigs : InitFrom(first) /\ InitWith(first)
    BY DEF Init
<1>2. first \in Config /\ first \in Seq(Instance)
    BY ManagerAssumption DEF Config
<1>3. SharedOK
    BY WiringAssumption DEF Init, SharedOK
<1>4. WindowOK
    <2>1. \A i \in DOMAIN first : first[i] \in Instance
        BY <1>2
    <2>2. keyring \subseteq Addresses
        BY <1>1, <2>1 DEF InitFrom, Instance
    <2>3. listed = <<>> /\ jobs = <<>> /\ acts = 0
        BY <1>1 DEF InitFrom
    <2> QED
        BY <2>2, <2>3, ConfigureAssumption DEF WindowOK, Config
<1>5. SurveyedOK
    BY <1>1, <1>2 DEF InitWith, SurveyedOK
<1>6. FileOK
    <2>1. LastTold = config
        BY DEF LastTold, Init
    <2> QED
        BY <1>1, <1>2, <2>1 DEF InitFrom, InitWith, FileOK
<1> QED
    BY <1>3, <1>4, <1>5, <1>6 DEF ManagerInv

LEMMA FailedTypes ==
    ASSUME SharedOK, Failed
    PROVE  troubles' \in 0..MaxTroubles
BY WiringAssumption DEF SharedOK, Failed, MayFail

LEMMA DaemonStepTypes ==
    ASSUME ManagerInv, DaemonStep, UNCHANGED configure
    PROVE  ManagerInv'
<1>1. CASE Survey
    <2>1. UNCHANGED <<shared, config, readable, file, saved, messages>> /\ phase' = "started"
        BY <1>1 DEF Survey, configure, shared
    <2>2. todo' \in [Spaces -> SUBSET (DOMAIN config)]
        BY <1>1 DEF Survey, Listings
    <2> QED
        BY <2>1, <2>2, Kept DEF ManagerInv, SurveyedOK
<1>2. ASSUME NEW space \in Spaces, StartProcess(space) \/ StartFails(space)
      PROVE  ManagerInv'
    <2>1. UNCHANGED <<shared, config, phase, readable, file, saved, messages>>
        BY <1>2 DEF StartProcess, StartFails, configure, shared
    <2>2. PICK i \in todo[space] : todo' = [todo EXCEPT ![space] = @ \ {i}]
        BY <1>2 DEF StartProcess, StartFails, Taken
    <2>3. todo' \in [Spaces -> SUBSET (DOMAIN config)]
        BY <2>2 DEF ManagerInv, SurveyedOK
    <2> QED
        BY <2>1, <2>3, Kept DEF ManagerInv, SurveyedOK
<1>3. CASE TakeMessage
    <2> DEFINE m == Head(messages)
    <2>1. /\ messages \in Seq(Messages) /\ messages # <<>> /\ messages' = Tail(messages)
          /\ m \in Messages
          /\ IF m.what = "reload" THEN config' = m.config /\ phase' = "reloading"
             ELSE phase' = "ended" /\ config' = config
          /\ UNCHANGED <<requests, screen, troubles, todo, readable, file, saved>>
        BY <1>3 DEF TakeMessage, ManagerInv, SharedOK, configure
    <2>2. config' \in Config /\ config' = IF m.what = "reload" THEN m.config ELSE config
        BY <2>1 DEF Messages, ManagerInv, SurveyedOK
    <2>3. todo' \in [Spaces -> SUBSET (DOMAIN config')]
        BY <1>3, <2>1 DEF TakeMessage, Waiting, ManagerInv, SurveyedOK
    <2>4. SharedOK'
        BY <2>1 DEF ManagerInv, SharedOK
    <2>5. FileOK'
        <3>1. ToldBy(messages', config') = ToldBy(messages, config)
            <4> HIDE DEF m
            <4>1. ToldBy(Tail(messages), IF m.what = "reload" THEN m.config ELSE config) = ToldBy(messages, config)
                BY <2>1, ToldTaken DEF m
            <4> QED
                BY <2>1, <2>2, <4>1
        <3> QED
            BY <2>1, <3>1, Kept DEF ManagerInv, FileOK
    <2> QED
        BY <2>1, <2>2, <2>3, <2>4, <2>5, Kept DEF ManagerInv, SurveyedOK
<1> QED
    BY <1>1, <1>2, <1>3 DEF DaemonStep

LEMMA Amended ==
    ASSUME NEW list \in Seq(Instance), NEW k
    PROVE  /\ \A address \in Addresses : [list EXCEPT ![k].address = address] \in Config
           /\ \A selected \in SUBSET Workspaces : [list EXCEPT ![k].selected = selected] \in Config
<1>1. DOMAIN list = 1..Len(list) /\ Len(list) \in Nat /\ \A i \in 1..Len(list) : list[i] \in Instance
    OBVIOUS
<1>2. ASSUME NEW address \in Addresses
      PROVE  [list EXCEPT ![k].address = address] \in Config
    <2> DEFINE new == [list EXCEPT ![k].address = address]
    <2>1. \A i \in 1..Len(list) : [list[i] EXCEPT !.address = address] \in Instance
        BY <1>1 DEF Instance
    <2>2. DOMAIN new = 1..Len(list) /\ \A i \in 1..Len(list) : new[i] \in Instance
        BY <1>1, <2>1
    <2>3. new = [i \in 1..Len(list) |-> new[i]]
        BY <1>1
    <2> HIDE DEF new
    <2>4. new \in Seq(Instance)
        BY <1>1, <2>2, <2>3
    <2> QED
        BY <2>4 DEF new, Config
<1>3. ASSUME NEW selected \in SUBSET Workspaces
      PROVE  [list EXCEPT ![k].selected = selected] \in Config
    <2> DEFINE new == [list EXCEPT ![k].selected = selected]
    <2>1. \A i \in 1..Len(list) : [list[i] EXCEPT !.selected = selected] \in Instance
        BY <1>1 DEF Instance
    <2>2. DOMAIN new = 1..Len(list) /\ \A i \in 1..Len(list) : new[i] \in Instance
        BY <1>1, <2>1
    <2>3. new = [i \in 1..Len(list) |-> new[i]]
        BY <1>1
    <2> HIDE DEF new
    <2>4. new \in Seq(Instance)
        BY <1>1, <2>2, <2>3
    <2> QED
        BY <2>4 DEF new, Config
<1> QED
    BY <1>2, <1>3

(* A failed save leaves nothing another list could not have left. *)
LEMMA CutTypes ==
    ASSUME ManagerInv, NEW list \in Config, NEW left \in Cut(list)
    PROVE  left = Unreadable \/ \E other \in Config : left = Written(other)
<1>1. CASE left = file
    BY <1>1 DEF ManagerInv, FileOK
<1>2. CASE left = Written(<<>>)
    <2>1. <<>> \in Config
        BY DEF Config
    <2> QED
        BY <1>2, <2>1, Zenon
<1>3. CASE \E selected \in SUBSET Workspaces :
              left = Written(Reselected(list, LastSection(list), selected))
    <2>1. PICK selected \in SUBSET Workspaces :
             left = Written(Reselected(list, LastSection(list), selected))
        BY <1>3
    <2>2. Reselected(list, LastSection(list), selected) \in Config
        BY Amended DEF Reselected, Config
    <2> QED
        BY <2>1, <2>2
<1> QED
    BY <1>1, <1>2, <1>3 DEF Cut

(* The file and the message are made from one list. *)
LEMMA SaveKeeps ==
    ASSUME ManagerInv, SaveConfig, listed' \in Config, UNCHANGED <<requests, screen, daemon>>
    PROVE  SharedOK' /\ SurveyedOK' /\ FileOK'
<1>1. SurveyedOK' /\ config' = config
    BY Kept DEF daemon
<1>2. CASE Failed /\ file' \in Cut(listed') /\ saved' = FALSE /\ UNCHANGED messages
    <2>1. file' = Unreadable \/ \E other \in Config : file' = Written(other)
        BY <1>2, CutTypes
    <2>2. FileOK'
        BY <1>2, <2>1 DEF FileOK, Unreadable, Written, Named, LastNamed, Names
    <2> QED
        BY <1>1, <1>2, <2>2, FailedTypes DEF ManagerInv, SharedOK
<1>3. CASE /\ file' = Written(listed') /\ messages' = Append(messages, Reload(listed'))
           /\ saved' = TRUE /\ troubles' = troubles
    <2>1. Reload(listed') \in Messages /\ Reload(listed').what = "reload" /\ Reload(listed').config = listed'
        BY DEF Reload, Messages
    <2>2. messages \in Seq(Messages)
        BY DEF ManagerInv, SharedOK
    <2>3. ToldBy(messages', config') = listed'
        BY <1>3, <2>1, <2>2, ToldAppended
    <2>4. SharedOK'
        BY <1>3, <2>1, <2>2 DEF ManagerInv, SharedOK
    <2>5. LastTold' = listed'
        BY <2>3, Kept
    <2> QED
        BY <1>1, <1>3, <2>4, <2>5 DEF FileOK
<1> QED
    BY <1>2, <1>3 DEF SaveConfig

LEMMA ConfigureStepTypes ==
    ASSUME ManagerInv, ConfigureStep, UNCHANGED daemon
    PROVE  ManagerInv'
<1>1. /\ listed \in Seq(Instance) /\ listed \in Config /\ jobs \in Seq(Job) /\ keyring \subseteq Addresses
      /\ acts \in 0..MaxActs /\ MaxActs \in Nat
      /\ \A i \in DOMAIN listed : listed[i] \in Instance
    BY ConfigureAssumption DEF ManagerInv, WindowOK, Config
<1>2. Act => acts' \in 0..MaxActs
    BY <1>1 DEF Act
<1>3. CASE Validate
    <2>1. PICK name \in {New} \cup Names(listed), address \in Addresses :
             jobs' = Append(jobs, [name |-> name, address |-> address])
        BY <1>3 DEF Validate
    <2>2. [name |-> name, address |-> address] \in Job
        BY <1>1 DEF Job, Instance, Names
    <2>3. jobs' \in Seq(Job)
        BY <1>1, <2>1, <2>2
    <2> QED
        BY <1>1, <1>2, <1>3, <2>3, Kept DEF Validate, ManagerInv, WindowOK, daemon, shared
<1>4. CASE JobEnds
    <2>1. PICK i \in DOMAIN jobs :
             /\ jobs' = RemoveAt(jobs, i)
             /\ \/ Accepted(jobs[i])
                \/ UNCHANGED <<listed, file, saved, keyring, messages, troubles>>
        BY <1>4 DEF JobEnds
    <2>2. requests' = requests /\ screen' = screen /\ acts' = acts
        BY <1>4 DEF JobEnds
    <2>3. jobs' \in Seq(Job) /\ jobs[i] \in Job
        BY <1>1, <2>1 DEF RemoveAt
    <2>4. CASE UNCHANGED <<listed, file, saved, keyring, messages, troubles>>
        BY <1>1, <2>2, <2>3, <2>4, Kept DEF ManagerInv, WindowOK, SharedOK, daemon
    <2>5. CASE Accepted(jobs[i])
        <3> DEFINE job == jobs[i]
                   name == IF job.name = New THEN job.address ELSE job.name
        <3>1. name \in Addresses /\ job.address \in Addresses
            BY <2>3 DEF Job
        <3>2. /\ listed' = IF job.name = New THEN Added(job.address) ELSE Updated(name, job.address)
              /\ \/ keyring' = keyring \cup {name} /\ SaveConfig
                 \/ Failed /\ UNCHANGED <<keyring, file, saved, messages>>
            BY <2>5 DEF Accepted
        <3>3. Added(job.address) \in Config
            <4>1. [name |-> job.address, address |-> job.address, selected |-> {}] \in Instance
                BY <3>1 DEF Instance
            <4> QED
                BY <1>1, <4>1 DEF Added, Config
        <3>4. Updated(name, job.address) \in Config
            <4> HIDE DEF job, name
            <4>1. [listed EXCEPT ![FirstNamed(listed, name)].address = job.address] \in Config
                BY <1>1, <3>1, Amended
            <4> QED
                BY <1>1, <4>1 DEF Updated
        <3>5. listed' \in Config /\ keyring' \subseteq Addresses
            BY <1>1, <3>1, <3>2, <3>3, <3>4
        <3>6. WindowOK'
            BY <1>1, <2>2, <2>3, <3>5 DEF WindowOK
        <3>7. SharedOK' /\ SurveyedOK' /\ FileOK'
            <4>1. CASE SaveConfig
                BY <2>2, <3>5, <4>1, SaveKeeps
            <4>2. CASE Failed /\ UNCHANGED <<keyring, file, saved, messages>>
                BY <2>2, <4>2, FailedTypes, Kept DEF ManagerInv, SharedOK, daemon
            <4> QED
                BY <3>2, <4>1, <4>2
        <3> QED
            BY <3>6, <3>7 DEF ManagerInv
    <2> QED
        BY <2>1, <2>4, <2>5
<1>5. ASSUME SaveConfig, Act, UNCHANGED <<requests, screen, jobs, keyring>>, listed' \in Config
      PROVE  ManagerInv'
    BY <1>1, <1>2, <1>5, SaveKeeps DEF ManagerInv, WindowOK
<1>6. CASE Select
    <2>1. PICK name \in Names(listed), selected \in SUBSET Workspaces :
             listed' = [listed EXCEPT ![FirstNamed(listed, name)].selected = selected]
        BY <1>6 DEF Select
    <2>2. listed' \in Config
        BY <1>1, <2>1, Amended
    <2> QED
        BY <1>5, <1>6, <2>2 DEF Select
<1>7. CASE Delete
    <2>1. PICK name \in Names(listed) :
             listed' = Only({other \in Range(listed) : other.name # name}, listed)
        BY <1>7 DEF Delete
    <2>2. listed' \in Config
        BY <1>1, <2>1, OnlySome DEF Config
    <2> QED
        BY <1>5, <1>7, <2>2 DEF Delete
<1>8. CASE Resave
    BY <1>1, <1>5, <1>8 DEF Resave
<1> QED
    BY <1>3, <1>4, <1>6, <1>7, <1>8 DEF ConfigureStep

LEMMA MenuTypes ==
    ASSUME ManagerInv, Click \/ TakeRequest \/ CloseWindow \/ Weather
    PROVE  ManagerInv'
<1>1. /\ requests \in Seq(Requests) /\ messages \in Seq(Messages) /\ Stop \in Messages /\ Stop.what # "reload"
    BY DEF ManagerInv, SharedOK, Stop, Messages
<1>2. ToldBy(Append(messages, Stop), config) = ToldBy(messages, config)
    BY <1>1, ToldAppended
<1>3. ASSUME config' = config, file' = file, saved' = saved, messages' \in {messages, Append(messages, Stop)}
      PROVE  FileOK' /\ messages' \in Seq(Messages)
    <2>1. messages' \in Seq(Messages)
        BY <1>1, <1>3
    <2>2. ToldBy(messages', config') = ToldBy(messages, config)
        BY <1>2, <1>3
    <2>3. LastTold' = LastTold
        BY <2>2, Kept
    <2> QED
        BY <1>3, <2>1, <2>3 DEF ManagerInv, FileOK
<1>4. CASE Click
    <2>1. PICK item \in Requests :
             /\ requests' = Append(requests, item)
             /\ messages' = IF item = "quit" THEN Append(messages, Stop) ELSE messages
        BY <1>4 DEF Click
    <2>2. requests' \in Seq(Requests) /\ acts' \in 0..MaxActs
        BY <1>1, <1>4, <2>1, ConfigureAssumption DEF Click, ManagerInv, WindowOK
    <2> QED
        BY <1>3, <1>4, <2>1, <2>2, Kept DEF Click, ManagerInv, SharedOK, WindowOK, daemon
<1>5. CASE TakeRequest
    <2>1. requests' \in Seq(Requests) /\ Head(requests) \in Requests
        BY <1>1, <1>5 DEF TakeRequest
    <2>2. screen' \in {"none", "monitor", "configure", "gone"}
        BY <1>5, <2>1 DEF TakeRequest, Requests
    <2>3. listed' \in Config /\ jobs' \in Seq(Job)
        <3>1. file # Unreadable => Read \in Config
            BY ReadType DEF ManagerInv, FileOK
        <3>2. \/ file # Unreadable /\ listed' = Read /\ jobs' = <<>>
              \/ listed' = listed /\ jobs' = jobs
            BY <1>5 DEF TakeRequest, OpenConfigure
        <3>3. listed \in Config /\ jobs \in Seq(Job) /\ <<>> \in Seq(Job)
            BY DEF ManagerInv, WindowOK
        <3> QED
            BY <3>1, <3>2, <3>3, Zenon
    <2> QED
        BY <1>3, <1>5, <2>1, <2>2, <2>3, Kept DEF TakeRequest, ManagerInv, SharedOK, WindowOK, daemon
<1>6. CASE CloseWindow
    <2>1. listed' \in Config /\ jobs' \in Seq(Job)
        BY <1>6 DEF CloseWindow, CloseConfigure, Config
    <2> QED
        BY <1>6, <2>1, Kept DEF CloseWindow, ManagerInv, SharedOK, WindowOK, daemon
<1>7. CASE Weather
    <2>1. readable' \subseteq Spaces
        BY <1>7 DEF Weather, ManagerInv, SurveyedOK
    <2> QED
        BY <1>7, <2>1, FailedTypes, Kept DEF Weather, ManagerInv, SharedOK, SurveyedOK, configure
<1> QED
    BY <1>4, <1>5, <1>6, <1>7

LEMMA RunStepTypes ==
    ASSUME ManagerInv, NEW r, RunStep(r)
    PROVE  ManagerInv'
<1>1. /\ UNCHANGED <<messages, screen, troubles, config, phase, todo, readable>> /\ UNCHANGED configure
      /\ requests' = requests \/ requests' = Append(requests, "monitor")
    BY DEF RunStep, Ask, Answered, End, OthersThanRuns
<1>2. requests' \in Seq(Requests)
    BY <1>1 DEF ManagerInv, SharedOK, Requests
<1> QED
    BY <1>1, <1>2, Kept DEF ManagerInv, SharedOK, configure

LEMMA ManagerInvNext == ManagerInv /\ [Next]_vars => ManagerInv'
<1> SUFFICES ASSUME ManagerInv, [Next]_vars
             PROVE  ManagerInv'
    OBVIOUS
<1>1. CASE UNCHANGED vars
    BY <1>1, Kept DEF vars, shared, daemon, configure, ManagerInv
<1> QED
    BY <1>1, DaemonStepTypes, ConfigureStepTypes, MenuTypes, RunStepTypes DEF Next

(* The file is the one the last message to the daemon was written with, or *)
(* what a failed save left, whatever the windows, the daemon and the runs  *)
(* do next.                                                                *)
THEOREM ManagerInvariance == Spec => []ManagerInv
<1> QED
    BY ManagerInvInit, ManagerInvNext, PTL DEF Spec

(* Every part of the manager keeps its type: the channels hold messages    *)
(* the daemon knows, the windows edit instances, no click or failure is    *)
(* counted twice.                                                          *)
THEOREM ManagerTypes == Spec => []TypeOK
<1>1. ManagerInv /\ DaemonInv => TypeOK
    BY DEF ManagerInv, SharedOK, WindowOK, SurveyedOK, FileOK, DaemonInv, RunsOK, TypeOK
<1> QED
    BY <1>1, ManagerInvariance, DaemonInvariance, PTL

(* What was saved last, if it was saved whole, is what the daemon was told *)
(* last, and a later start reads it back (save_config,                     *)
(* ManagerConfig::write and from_ini).                                     *)
THEOREM SavedIsTold == Spec => []FileAgrees
<1>1. ManagerInv => FileAgrees
    BY Kept, ReadBack DEF ManagerInv, FileOK, FileAgrees
<1> QED
    BY <1>1, ManagerInvariance, PTL

===============================================================================
