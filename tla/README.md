# Verification of trsync

trsync keeps a local folder and a shared space of a [Tracim](https://tracim.fr)
server the same. This directory holds TLA+ models of its core, the TLC
configurations that check them on small instances and proofs checked by TLAPS.
Paths below are relative to `src/`; `T` stands for `trsync/src`.

## 1. The system

### Components

| Component | State | Operations | Model |
|---|---|---|---|
| Operational core: `Operator` and seven executors (`T/operation`) | `ignore_events`, the event in hand, deferred `StateModification`s | `operate(event)`: drop an expected echo, run the executors with retries, apply the state changes | `Operator` |
| State of a space (`T/state/disk.rs`, `mod.rs`, `modification.rs`) | the SQLite table `file`: content id, path, revision, parent, modification time | `path`, `content_id_for_path`, `add`, `update`, `forgot_with_children` | `StateStore` |
| Local watcher (`T/local/watcher.rs`) | inotify stream, a channel | debounced system events to `DiskEvent`s | `Space` (which events) |
| Local event reducer (`T/local/reducer.rs`) | events piled up, a channel | `recv`, `next_event`: merge what piled up | `Reduction`, `Reducer` |
| Remote watcher (`T/remote/watcher.rs`) | live message stream, a channel, read access to the table | live messages to `RemoteEvent`s, the "left the space" lookup, restart after silence | `Space`, `WatchLeft` of `Operator`, threads of `Lifecycle` (partly) |
| Tracim client (`core/src/client.rs`) | none | one HTTP call per method, status codes to errors | `Space`, guards of `Operator` |
| Runner (`T/run2.rs`) | threads, channels, stop and restart signals | watchers, startup synchronization, live work, restart after an error | `Lifecycle`; its work in `Startup` and `Operator` |
| Startup synchronization (`T/sync`, `T/state/memory.rs`, `core/src/sync.rs`) | what changed since the State was written | `RemoteSync`, `LocalSync`, `StartupSyncResolver`, `OperateChanges` | `Startup` |
| Ignored contents (`T/ignore.rs`) | `.trsyncignore`, a file of content ids | read at every turn of `run()`, extended on a decision of the user | `Lifecycle` |
| Control and dialogs (`core/src/control.rs`, `error.rs`, `sync.rs`, `activity.rs`) | stop signal, cell of the error shown, channels of decisions and confirmations, last activity | ask, show, answer, take | `Lifecycle`, abstractly `Question` |
| Manager daemon (`manager/src`) | configuration, running processes by space | reload, ensure, start, stop | `Daemon` (runs as in `SpaceRun`) |
| Configuration (`core/src/config.rs`, `security.rs`) | `trsync.conf`, the keyring | write, read back | `Wiring`, `Configure` (partly) |
| Windows (`configure`, `monitor`, `systray`) | instances being edited, credentials being tried, requests | edit, save, answer a run, open and close windows, quit | `Configure`, `Manager`, `Window` of `Lifecycle` (partly) |
| `T/run.rs`, `T/conflict.rs`, `T/local/content.rs`, `T/local/path.rs`, `T/remote/path.rs` | | | every line is commented out |

### How they interact

A user of the folder and users of the space work at any time. Their changes
reach the run as inotify events (through the reducer) and as live messages;
two listener threads put them in one operational channel and one thread, the
operator, takes them one by one. An executor mixes HTTP calls, file system
calls and reads of the table; what it changes in the table is applied after
the last executor of the event. Each of its writes is itself observed by a
watcher, so the executor *plans to ignore* that echo. Nothing links the three
copies (space, folder, table) but this protocol: there is no lock and no
transaction across them, and users act between any two calls.

Before live events a run compares the space and the folder with the table,
drops remote changes in conflict with local ones, asks for a confirmation, and
works on the differences in passes until none misses its parent. A run that
is killed or fails is followed by another one that starts from the table: after
an error about the connection `run()` waits and builds a new `Runner`, after
another error it shows the error and waits for a decision (start again, or
ignore the content for good). The threads of the former `Runner` are never
joined; they see the stop signal, shared by all, or the restart signal of their
own `Runner`.

In the desktop application a daemon has one such run per space of the
configuration. The configuration window saves the configuration and sends it to
the daemon, which starts and signals runs; runs that ask something are reached
by the monitor window through *exchangers*, tables by space name; the tray and
the runs send requests to a main loop that has one window open at a time.

### What is hard, and what makes each part correct

* Echo recognition: every own write is recognised once, and no change of a
  user is taken for one (`Settles`, `Converged`, `LocalEditsSurvive`).
* Calls interleaved with users and failures: what is read before a call is
  written to the table after it (`RevisionNotAhead`, `RevisionsGrow`,
  `DownloadsKeepParents`, `NoAncestryLoop`, `DownstreamConverged`,
  `ColumnsFresh`).
* Merging events that piled up, in order, across renames (`SameFiles`,
  `SameBytesUnlessRenamed`), and handing all of them over (`HandedOver`, which
  does not hold).
* Crash between two steps and recovery from the table (`StartupConverged`,
  `FolderKept`, `SpaceKept`), passes that must end (`PassesEnd`, `NoOrphans`)
  and leave nothing undone (`SpaceFetched`).
* Signals read at a few points only, threads nobody joins, errors and losses of
  the network at any time: nothing heard may be forgotten (`HeardIsDone`), a
  silent server is noticed (`Resumes`, `SilencedEnd`), a run asked to stop stops
  (`StopHonoured`, `IsSpaceRun`).
* A question and its answer go through separate objects, a cell and a channel,
  and windows come and go (`ErrorsAnswered`, `StartupsAnswered`,
  `CanBeAnswered`, `Told`, `IgnoredForGood`).
* Configuration against running processes, which are forgotten before they end,
  with servers that do not answer (`OneMaster`, `NoStranger`,
  `RunsAreSpaceRuns`, `ReloadsTaken`, `SkipsToMessage`), files that are saved
  step by step (`FileAgrees`), quitting (`QuitEnds`).

`PROJECT.json` lists the hazards line by line with the properties that cover
them.

## 2. The modules

`StateStore` <- `Reduction` <- `Space` <- `Operator` <- `Startup` (each extends
the former); `Reducer` extends `Reduction`. `Wiring` <- `Daemon`, `Configure` <-
`Manager`, beside them `Lifecycle`; `Question` and `SpaceRun` are abstract
specifications that `Lifecycle` implements, and `Manager` uses `SpaceRun`.
`MC...` modules choose how users behave; `...Proofs` modules hold theorems only:
`FoldProofs` <- `ReducerProofs`, `DaemonProofs` (the daemon and the manager) and
`OperatorProofs` <- `StartupProofs` <- `RecoveryProofs` <- `CalmProofs`, beside them
`LifecycleProofs`.

* **StateStore**: operators on a table (a function from known content ids to
  rows). `PathOf` follows `parent_id`, `ContentIdForPath` searches the
  `relative_path` column, as the code does; they disagree below a renamed
  folder because `update` rewrites one row only. `AddAccepted` and
  `UpdateAccepted` are the unique indexes. The type of a row is read from the
  disk, as `DiskState::content_from_raw` does.
* **Reduction**: `next_event` as a fold over the pending events.
* **Space**: the folder, the server and what each announces. Folder paths are
  sequences of names; file contents are version numbers, 0 for an empty or
  meaningless file, and stand also for the modification time (`Stamp`). Live
  messages and disk events carry an `own` mark (was it caused by trsync?) that
  no modelled code reads: only the history variable `missed` does. The server
  is external: it is modelled as the client's code uses it.
* **Operator**: `job` is the event in hand, a program counter with the
  executors left. One action per remote call and per group of file system
  calls (`FetchCreated`, `WriteCreated`, `FillCreated`, `StatCreated` are
  `PresentOnDiskExecutor::execute`, `FindHomonym` and `TrashHomonym` the two
  calls that make room for a name, and so on). `Faults` says how calls fail: by a
  timeout (`"timeout"`, served or not, tried again up to `RETRY_COUNT_MAX`), by
  an error before the server served them (`"broken"`), or by the loss of the
  reply once they were served (`"lost"`), as a `context`-wrapped error. `ApplyChange` is
  `State::change`, `ReceiveRemote`/`ReceiveLocal` the start of `operate`,
  with the echo test, `WatchLeft` the remote watcher's lookup. A rename on disk
  (`CanRename`) is that of rename(2): a folder replaces an empty folder, a file a file.
  `missed` records that an event of a user was taken for an echo or dropped.
* **Reducer**: the listener thread with the local channel, judged by an ideal
  operator (`mirror`) that does what each delivered event tells. Users do
  anything to their files at any time; the history variable `hasty` records
  whether one of them took a path the operator had still to give up, or deleted a
  file before the operator was told of it.
* **Startup**: a run from start to live work, over the executors of
  `Operator`; `phase` is the point of `Runner::run`, `todo`, `left`, `size` the
  loop of `OperateChanges`. `Start` spawns the watchers and `List` reads the
  space; a watcher hears from the moment it has opened its stream
  (`StreamOpens`) or its watch of the folder (`WatchOpens`), at any time of the
  run or never. `Crash` kills the run between any two steps, and
  the next `Start` finds the table, both sides and nothing else.
* **Lifecycle**: the thread of `run()` is `pc`: `Begin` is a turn of its loop
  (the ignore list read, a `Runner` built, its watchers started; the errors of the
  latter are about a "database connection", hence retried), `Compare`,
  `TakeConfirm` and `Apply` are `Runner::sync`, `LeaveLive`, `TakeEvent` and
  `Operate` are `Runner::operate`, `Raise` is what the `match` on the result of
  `Runner::run` does with an error, `Check` the end of a turn. `runners` holds the
  current `Runner` and the one before it, each with its remote watcher (`ear`),
  its local watcher (`eye`), its restart signal and its operational channel;
  either watcher may end as it starts, which is only logged.
  `ignoring` is the list of the turn, `ignoreFile` what `.trsyncignore` reads as,
  `noted` says that its user had written there too, `chosen` what was decided.
  `Window` is the part of the monitor window that answers runs: it takes the
  lock of the cell, sends the decision, empties the cell. Which changes there
  are, and what doing one means, is left to `Operator` and `Startup`: `stale` is
  the set of changes the other side does not have.
* **Question**: asked, answered once, taken before the next. **SpaceRun**: a
  run works, waits for its user, or is over; the stop signal is raised once and
  taken back only at the end.
* **Wiring**: what the parts of the application share. **Daemon**:
  `Daemon::run` is `phase`; `Survey` is `ensure_processes` up to the first start
  (every workspace of the configuration asked for, what is not wanted signalled
  and forgotten), `StartProcess` and `StartFails` are `start_process`, one per
  listing. **Configure**: the window edits `listed`, tries credentials in threads
  (`jobs`), saves to `keyring` and `file`, tells the daemon; each step may fail,
  what was done before it stays. The file is truncated before it is written, so
  that a save that fails leaves it as it was, empty, cut or unreadable (`Cut`);
  `saved` tells the last save was whole. **Manager** composes them with the tray and the
  main loop, whose configuration window does not open on an unreadable file.
* **MCManager** gives servers and first configurations. **MCOperator**,
  **MCRemote** (which extends it) and **MCStartup**: the same next-state relations with users
  restricted (calm, one side only, renames and moves only, before the first
  run only).

### Abstractions to know

* Names, contents and bytes are small sets; HTML notes are files; `mtime` is
  the version of the bytes. `raw_content`, labels against file names and
  encodings are left out.
* The debounce of the local watcher is left out: a rename is typed when it
  happens. Ignored file names (`ignore_file`) and the attachments of files are
  left out; `Operator` and `Startup` know no ignored content, `Lifecycle` does.
* Orders the code leaves to SQLite or to a hash map are free. The comparator
  of `MemoryState::contents` orders two files inconsistently; any order with
  folders first is allowed.
* `get_contents` does not fail and is read in one step with the start of a
  run; the scan of the folder is one step too.
* In `Operator` events do not pile up in the reducer; piling up is the
  question of `Reducer`.
* In `Lifecycle` "connection" stands for any error whose text holds that word,
  which is what `run()` looks at. An error about one content can only come as
  the content is added to the State (`T/state/disk.rs:237`). It may be an ignored one:
  what the server tells of those is left aside at startup and live
  (`T/sync/remote.rs:60`, `T/remote/watcher.rs:194`; what disappeared is not, at
  startup), but an upload that finds a name taken adopts
  its content whatever the list says (`T/operation/executor/remote/created.rs:92-107`).
  So ignored contents are outside of what is done in the end (`HeardIsDone`). The text
  of `.trsyncignore` is a set of ids; written over a longer text it reads as
  any set with the last id missing or another in its place (`Glued`).
  Activities of the single executors are merged into one, "job".
* In `Daemon` a run is a `SpaceRun`. A change of the local folder, of
  credentials or of a workspace's name does not concern the daemon, in the code
  either: a running space is not restarted for it. Of an instance are kept
  name, address and the workspaces selected; the window's lists of workspaces, its
  spinner, form and messages are left out. The menu is that of Linux.

### Bounds

`Ids` (contents the server may ever hold), `Names`, `MaxDepth` (length of a
path), `MaxEdits` (changes by users), `RETRY_COUNT_MAX` (2 instead of 5 in the
code: one retry succeeds or the second fails), `MaxRuns` (starts), `Seeds`
(nothing, or a folder with one entry already synchronized), `Renaming` (the
types users rename or move), `Faults`. Three contents with two names and depth 2
give homonyms, a child in a folder, and a third content to take a freed name;
two edits suffice for a user to act between two calls made for the other edit,
four for a content to come, change, move and go, or for two folders to be swapped.
`MCStartup` also bounds local creations by the ids left (`IdsSuffice`), and has two runs: one
that is stopped anywhere and one that recovers (and may be stopped too).
`reducer_files`: three paths and five edits, so that a file can be renamed twice
with another file's events in between, and be written to before and after.

`lifecycle`: one content, one change by a user, two troubles (a trouble is a
loss of the network or an error of another kind): an error during the recovery
from another, or a loss of the network after an error, at every point. Runs
start with a confirmation, or on the command line for one synchronization
(`StartedAs`); the other two modes take the same paths, without the
confirmation or without dialogs. Only two `Runner`s are kept: an older one has no
signal or channel that the run reads, and its threads do what those of the former
do. `manager`: two servers with one workspace each, first configurations with
one instance or with two of which one was renamed to the other's address, three
runs (a space stopped, started again and stopped), three acts of the user, one
trouble, one request of a popup waiting at a time.

## 3. The runs

| Run | Who acts | Holds / violated | States, time (2 workers) |
|---|---|---|---|
| `operator_concurrent` | both sides, any time, all faults, 2 edits | `TypeOK`, `RevisionNotAhead`, `RevisionsGrow`, `DownloadsKeepParents`, `Settles` | 151 k, 20 s |
| `operator_calm` | both sides, each waits for trsync, 4 edits, files renamed | `Converged`, `PathsFound` | 699 k, 75 s |
| `operator_remote` | remote users, any time, all faults, 4 edits: on contents and names of files, or swapping folders | `DownstreamConverged` (the former), `NoAncestryLoop` (both) | 800 k, 40 s |
| `startup_recovery` | users of one side before the first run, 3 edits, 2 runs stopped anywhere | `StartupTypeOK`, `StartupConverged`, `NoOrphans`, `SpaceFetched`, `ColumnsFresh`, `FolderKept`, `PassesEnd` | 887 k, 190 s |
| `reducer_files` | a user of three paths, 5 edits, events pile up | `TypeOK`, `SameFiles`, `SameBytesUnlessRenamed` | 2.8 M, 43 s |
| `lifecycle` | one run with its user, network lost, errors, stop | `TypeOK`, `Told`, `IgnoredForGood`, `HeardIsDone`, `Resumes`, `SilencedEnd`, `StopHonoured`, `ErrorsAnswered`, `StartupsAnswered`, `IsSpaceRun` | 261 k, 127 s |
| `manager` | the user of the windows, the runs, one failure | `TypeOK`, `OneMaster`, `NoStranger`, `CanBeAnswered`, `FileAgrees`, `RunsAreSpaceRuns`, `ReloadsTaken`, `QuitEnds` | 519 k, 72 s |
| `operator_lost_save` | local user only | violates `LocalEditsSurvive` | |
| `operator_unasked_trash` | remote renames and moves | violates `NothingTrashedUnasked` | |
| `startup_lost_bytes` | remote users, one crash | violates `SpaceKept` | |
| `reducer_kept_event` | a user of two paths, 3 edits | violates `HandedOver` | |
| `daemon_reload_skipped` | as `manager` | violates `SkipsToMessage` | |

What the passing runs show, and where their limits are:

* **Convergence holds under conditions.** `Converged` excludes histories in
  which a user's event was taken for an echo (`missed`), and the calm and
  remote runs let users rename files but not folders where the two sides are compared: renaming a folder
  leaves the paths of its contents stale in the table (`ColumnsFresh` fails
  there, and also once a local folder was missed: what is then created in it
  goes to the top of the space, under a row that keeps its path, which takes four
  contents to meet; hence `PathsFound`), and with local users at any time an upload may repeat an old event.
  `missed` happens even with calm users (met while exploring), and a remote
  watcher that looks a content up just before its row is written drops the
  message that it left the space.
* **The table stays truthful without conditions**: in `operator_concurrent`,
  both sides act between any two calls, with timeouts, broken calls and lost replies, and no
  row is ahead of the server or goes back; what a download records has a known
  parent. (Uploads adopt the parent the server answers, and may adopt an
  unknown one: it is not claimed of them.)
* **The parent column never loops**, although moves are recorded in an order
  of their own: it is `rename(2)` that stops them. With the refusal merely
  logged (the mutant) it would, and `DiskState::path` would not return.
* **Startup recovers** from a crash between any two steps when users of one
  side worked before it: both sides end equal, and the folder of a local user
  is untouched. It is not claimed when both sides changed, nor with faults:
  exploring showed that a local and a remote new folder of the same path make
  every start fail (the resolver drops the remote folder, its contents then
  miss their parent), that a new content at a path the State holds for a
  removed one meets the unique index (`Created` is worked on before
  `Deleted`; `NoReuse` keeps users from it), and that a crash between a folder
  on disk and its row has the first effect too (`NoOrphans` is stated of the
  first run). These are listed as hazards.
* **Merging** keeps every file, in histories where no change of a user came too
  early (`hasty`, a condition of the properties and not of the users): a path that is
  taken again before the operator heard that it was freed is confused with what it
  was, and a creation cancelled by its deletion is replaced by an event that
  others came before; in both cases `SameFiles` fails, as met while exploring.
  Bytes written after a rename are lost to it; `SameBytesUnlessRenamed` leaves
  them out.
* **Events may stay in the reducer.** `HandedOver` is violated
  (`reducer_kept_event`): a creation cancelled by its deletion ends `next_event` with
  what it had put aside still there, and the thread waits for one more event.
* **A rename of a folder is a deletion and a creation** for the local watcher, also
  when trsync made it. One remote rename ends in an error only, for the row has
  the new path by the time `Deleted` is worked on. `operator_unasked_trash` shows
  what a second one does: a content is stored under the old path again, and it is
  trashed on the server.
* **A run keeps its promises** through errors and losses of the network: a change
  its watchers heard is done, refused by the user or found by the next startup
  (`HeardIsDone`), and the questions it asks are answered once. This rests on
  the next turn of `run()` comparing both sides again, since the channel of a
  dropped `Runner` is lost. Changes of ignored contents are not meant: they are
  skipped for good. What the user chose to ignore every later turn ignores as
  long as trsync alone writes `.trsyncignore` (`IgnoredForGood`); with a line of the
  user there the id may be glued to what is left of a longer text
  (`T/ignore.rs:79`) and the decision be lost. Nor is an ignored content never
  shown again: an upload may adopt it. Not claimed, and not true: that the threads of a
  dropped `Runner` end before the stop signal, that a remote watcher which could
  not open its stream is noticed (it ends, `T/remote/watcher.rs:101`, and the run
  goes on deaf).
* **The daemon never lets two runs obey at once**, although it forgets a run when
  it signals it: the former run may still work, but it is told to stop, and the
  windows reach the new one. Spaces that a configuration lists twice
  are outside (`doubled`): both listings are started, and the first run can no
  longer be signalled. It is not claimed that what is configured runs: a run
  that ended by itself stays in the map of processes, and a start that failed
  waits for the next reload.
* **What is saved is what is told** (`FileAgrees`), from a save that was written
  whole to one that is not, if names are distinct and every address has its
  password: renaming an instance to the address of another leaves neither. A save
  that fails truncates the file all the same, and the daemon keeps its configuration:
  the next start then finds another one, or none.
* **Quitting ends** (`QuitEnds`) if the configuration window is not left open for
  ever. The monitor asks to be painted every 250 ms (`monitor/src/app.rs:91`) and so sees a
  request; the configuration window sees it (`configure/src/app.rs:66`) only when
  it is painted for another reason, and left alone it keeps every request waiting.
* A configuration with a space that cannot be read is never given up, whatever is
  sent after it (`daemon_reload_skipped`); with a network that stays it is taken
  up (`ReloadsTaken`).

The violated properties are sentences of the documentation or of comments;
`PROJECT.json` quotes them with what the code does instead.

Every property of a passing run has a mutant: one mapped definition changed as
a plausible bug would (a parent id not looked up, a retry not counted, a
subtree not forgotten, a pass that ignores progress...), under which TLC finds
the property violated. The mutated forms stand next to the originals.

### Fairness

`Settles`, `PassesEnd` and the violated `HandedOver` assume weak fairness of the
operator, of the run and of the listener, each as a whole: a thread that has something
to do is scheduled, and the user answers the confirmation. Nothing is assumed
of users, of faults (they may always strike), of when a watcher opens or of a restart
after an error, which needs a decision of the user.

`lifecycle` has weak fairness of the run's thread, of each watcher thread, of the
window (the user answers what is shown) and of the return of the network. Nothing
is assumed of the daemon, of changes by users or of errors. `IsSpaceRun` then has
the strong fairness of `SpaceRun` as a result: a run asked to stop ends,
however often it is asked. `manager` has weak fairness of the daemon's thread, of the
main loop (`TakeRequest`) and of the monitor window, which looks for requests by itself
(`MakeRoom`). Nothing is assumed there of the configuration window, of runs, of the user
and of the network; `QuitEnds` and `ReloadsTaken` say what they need in their own premises.

### Refinement

`Lifecycle` implements `Question` twice (`ErrorsAnswered`, `StartupsAnswered`) and
`SpaceRun` once (`IsSpaceRun`), with their fairness: TLC checks all of it, and
the safety parts are proved. In `Manager` each run is a `SpaceRun` step by step
(`RunsAreSpaceRuns`, proved too), so that what the daemon's model assumes of runs
is what `Lifecycle` does, and what `Lifecycle` assumes of the daemon (it signals
once, before the end) is what the daemon does.

## 4. The proofs

TLAPS proves for every value of the constants (any number of contents, names,
edits, retries; `SpaceAssumption`, `OperatorAssumption`):

* `Invariance`: `Spec => []Inv`, and from it `TypeCorrectness` (`TypeOK`) and
  `RevisionsIssued` (`RevisionNotAhead`), in `OperatorProofs`;
* `ParentsStayKnown` (`DownloadsKeepParents`), `RevisionsOnlyGrow` (`RevisionsGrow`),
  `MovesMakeNoLoop` (`DownloadsMakeNoLoop`, an action property no run lists: where
  `NoAncestryLoop` holds it adds nothing, but it holds of every behaviour) and, for behaviours that record only what comes
  from the server, `LoopsComeFromUploads` (`NoAncestryLoop`), in `OperatorProofs` too;
* `StartupInvariance`: `StartupSpec => []StartupInv`, and from it
  `StartupTypeCorrectness` (`StartupTypeOK`) and `RevisionsIssuedAcrossRuns`
  (`RevisionNotAhead` wherever runs are stopped), and with `RecordsInvariance` also
  `RevisionsOnlyGrowAcrossRuns` (`RevisionsGrow`), `ParentsStayKnownAcrossRuns`
  (`DownloadsKeepParents`) and `MovesMakeNoLoopAcrossRuns` (`DownloadsMakeNoLoop`), in `StartupProofs`
  (`StartupAssumption`: any number of runs, finitely many contents);
* `RecoveryInvariance`: `RecoverySpec => [](StartupInv /\ FirstRun)` when users rename and
  move files only (`Renaming \subseteq {"file"}`), and from it, of the first run of
  `MCStartup`: `NoOrphansInFirstRun` (`NoOrphans`), `SpaceFetchedInFirstRun`
  (`SpaceFetched`) and `ColumnsFreshInFirstRun` (`ColumnsFresh`); without that
  hypothesis `FolderKeptInFirstRun`, which is `FolderKept` for the first run up to its
  live events, with any faults (all in `StartupProofs`);
* `FollowsInvariance`: `RecoverySpec => []FolderFollows` (with `StartupInv`) when calls
  fail only unserved (`Faults \subseteq {"broken"}`), and from it, for users of the folder and
  over all the runs that follow, whatever stops them: `FolderKeptAcrossRuns` (`FolderKept`),
  `ColumnsFreshForFolder` (`ColumnsFresh`) and, with `Faults = {}`, `StartupConvergedForFolder`
  (`StartupConverged`), in `RecoveryProofs`;
* `CalmInvariance`: `CalmSpec => []CalmAlways` when no call fails (`Faults = {}`) and users
  rename files only (`Renaming \subseteq {"file"}`), and from it, for users of both sides who wait for
  trsync and for each other, `CalmConverges` (`Converged`) and `CalmPathsFound`
  (`PathsFound`), in `CalmProofs`;
* `LifeInvariance`: `Spec => []LifeInv`, and from it `LifecycleTypeCorrectness`
  (`TypeOK`), `ToldTruly` (`Told`), `IgnoredStays` (`IgnoredForGood`), and the
  refinements `ErrorsAnsweredOnce`, `StartupsAnsweredOnce` (`Question`) and
  `RunIsSpaceRun` (`SpaceRun`), safety parts, in `LifecycleProofs`
  (`LifecycleAssumption`: any contents, changes, troubles, modes);
* `DaemonInvariance`: `Spec => []DaemonInv`, and from it `OneRunPerSpace`
  (`OneMaster`), `NobodyLeftBehind` (`NoStranger`), `QuestionsReached`
  (`CanBeAnswered`) and `RunsKeepTheContract` (`RunsAreSpaceRuns`), in
  `DaemonProofs` (`DaemonAssumption`: any number of servers, workspaces, runs);
* `ManagerInvariance`: `Spec => []ManagerInv` of the whole application, and from it
  `ManagerTypes` (`TypeOK`) and `SavedIsTold` (`FileAgrees`), in `DaemonProofs` too
  (any configurations, of any length);
* `ReducerTypes` (`TypeOK`), `ReducerInvariant`, `MergingLosesNoFile` (`SameFiles`) and
  `MergingLosesNoBytes` (`SameBytesUnlessRenamed`), whatever users do, in `ReducerProofs` (any paths, any number of edits and
  of events piled up).

`RevisionNotAhead` is not inductive: the revision written by `ApplyChange` was
read calls before, and is carried by `job`. `Inv` therefore says, point by point
of each executor, what `job` holds (`HoldsDownload`, `HoldsUpload`, `HoldsName`,
`HoldsTrash`): a content read from the server at a revision it still has or had,
ids the server knows, and modifications whose revisions were issued. Users only
increase revisions, so their steps keep it. `UsersOK` types both sides and the
queues, `JobOK` bounds the retries. The step lemmas are one per action; what
they share (failing, timing out, finishing an executor, notifying) are lemmas
of their own. `ParentsStayKnown` adds `RemoteJobOK`: the job
of a remote event has one executor and records at most one modification, whose
parent is known; one event is worked on at a time, so nothing is forgotten
between the lookup and the record.

`RevisionsOnlyGrow` adds `RevisionOK` to `Inv`: an event has one executor, which
has recorded nothing before it ends (`OneExecutor`); the revision it holds is not
older than that of the row it will update (`HoldsNewer`), which stays so because only
`ApplyChange` writes the table; and what is applied has at most one modification
that is not a `Forgot`, the last. That an event has one executor rests on
`NotifiedPlain`: a change of bytes is notified under the path its content is stored
under. This is so for the events of `Space`, where they do not pile up; events
the reducer has merged may carry two paths (a `Modified`, then a rename of its file), and then two executors
share one event.

`MovesMakeNoLoop` relates the table to the disk. `Rooted` is the invariant of the folder: whatever is above
an entry is a folder, which every primitive and every user keeps. If an updated content were on the
way to its new parent, its path would lead to the new one (`AboveInTable`, since what leads
to a content in the table is unique, `PartsUnique`); rename(2) refuses that for a folder, and
a file with something below it contradicts `Rooted`. So once the move is made the content is
`Apart` from its parent, and stays so until the update is recorded (`LoopOK`), whatever is
moved on disk meanwhile, for the table does not change. Nothing of the kind protects an upload, which records
the parent the server answers, whatever rows already name as theirs: `LoopsComeFromUploads`
therefore leaves out behaviours that record one.

`StartupInv` is `Inv` with `PlanOK` (the changes of a run name contents of the
server and paths) and `PhaseOK` (what is postponed, in hand and still to come is
at most the pass; nothing is in hand before the first pass). A stop keeps
`Inv`, since it clears the job and touches neither the table nor the server,
and nothing else is needed of where it strikes. `RecordsOK` joins `RemoteJobOK`,
`RevisionOK`, `Rooted` and `LoopOK`: a change of a startup is an event with one
executor, it never carries two paths, and starts and stops clear the job and touch no
row; so the two action properties hold over runs, for the changes found by a
startup as for live events.

`FirstRun` is about what a first run finds when one side alone was worked on. For the
space (`SpaceOnly`) it says, between two changes, that the folder holds what the
State says (`Matching`), each row below its parent's (`Tidy`), and point by point of a
download how far the folder is ahead of it (`HandOK`). So a new content is never
taken for an attachment (`NoAttachment`), and nothing fails but the network (`Broke`).
`PlanWell` is the account of the passes: what the space lists and the State does not
know is in the plan, or postponed (`Covered`); removals come last, so that what they forget with a
folder holds nothing that is listed (`ForgetsUnlisted`); and in a pass that has recorded nothing
so far what is postponed has an unknown parent (`Fruitless`). Since the parent of a
listed content is listed, a pass that gave up would hold a content, its parent, the parent of
that, and so on without end (`PassFruitful`). `Complete` is the other half: each
listed content is awaited, or recorded as it is now with its bytes on disk. With an empty plan
that is `DiskTree = RemoteTree` (`FolderIsSpace`). For the folder (`FolderOnly`) nothing
comes from the space, and the local pass has uploads only, which neither miss a
parent nor touch the disk (`LocalPassOK`).

The hypothesis on `Renaming` is needed. With folders renamed TLC finds `NoOrphans`
violated (four contents, three levels, three edits): a top folder is renamed in the space, and a folder
is created in one below it, whose `relative_path` column is stale; the operator, which looks for the
parent's type at that stored path, takes the new folder for an attachment and drops it
(`is_attachment` of `T/operation/operator.rs`), and the contents of that one miss their parent for good.

`FolderFollows` is about the runs that follow a stopped one, when users worked in the folder
only, before the first run (as in the run `startup_recovery`). Its two halves say what a
stop can leave, and what the next run makes of it.

* `Follows` is about what lasts: the State, the space and the folder. Each row is where its
  content is in the space (`InPlace`), where two contents never share a place (`Alone`); a row
  whose path is still on disk has a content that still stands, at its last revision unless
  the file is to be uploaded again (`RowsThere`); a content without a row is one that an upload
  made of a path of the folder (`OrphansFit`). So what a comparison finds in the space
  differs from the folder too (`FoundInFolder`), is dropped as a conflict, and never comes
  down. `Faithful` is about the bytes, and needs that no call fails: `ModifiedOnRemoteExecutor`
  goes on after an upload that failed, and records the new time of the file.
* `PhaseFollows` is about the run under way. What is left to upload, with the path in hand, is all
  that differs (`Pending`), and shrinks by that path when its row is written or removed
  (`RowsApplied`, `PendingApplied`). The executor in hand is at a point where it holds a content
  that belongs at its path (`Creating`, `Filling`, `Trashing`): a content of that name
  which an earlier run made is found by name, compared and filled. What is awaited from the space is
  what the uploads told, each event once (`Echoing`, `EchoesRight`), so that the live phase
  works on nothing of it.

With nothing left to upload `Changing` is empty, and the two trees are the same (`SidesAgree`).
Calls that fail once served are left out because `FolderKept` is false with them. TLC finds this:
the creation of a content times out once served, the operator tries again, finds the
content by its name and records it; but the echo of the first try is not awaited, so the live
phase takes it for a change of another user and writes the bytes of the space over the file.
TLC checked `FolderFollows` as an invariant before it was proved, with `Faults = {}` and
with calls that fail unserved (`"broken"`).

`CalmInv` says how far the operator has come with the last change of a user. What differs between
the folder, the State and the space is that change, and what the operator did of it: `Only` names the
rows and the paths that may disagree, and every other row says where its content is in the
space (`InSpace`) and where it is on disk (`InFolder`).

* Between two events (`AtRest`) nothing differs and only echoes are under way, each awaited once
  (`Echoes`); or one event of a user is (`Asked`), with what it `Meets`; or a folder was deleted,
  on disk and from the bottom up (`Sweeping`), where each path still to come has its row and its
  content; or the operator removed one, and its own notifications find no row
  (`Sinking`).
* Within one (`OnHand`) there is a predicate for each executor, which follows it point by point:
  `Bringing`, `Refreshing` and `Clearing` for the downloads, `Sharing`, `Saving`, `Relocating` and `Discarding`
  for the uploads.
* With a modification to apply (`Recording`) the row it writes is all that differs.

An echo is awaited as a set (`ignored`) and heard as a sequence: two equal events, of which one is
awaited, are why `Echoes` lets the last find the content as it is (`Again`): a file written to
twice, or a label and a parent changed by one rename, whose second echo is worked on and changes
nothing. A change that was `missed` and a job that failed end the account; rows stay nested and
distinct in the latter case (`TableOK`), which is what `PathsFound` needs. With nothing
left to do `Only({}, {})` is all that is left (`QuietAgrees`), and that is `DiskTree = RemoteTree`
(`CalmSidesAgree`).

Each hypothesis is needed: TLC finds `Converged` violated in the run `operator_calm` as soon as
calls fail, served (`"timeout"`, `"lost"`) or not (`"broken"`), and both properties once folders are renamed.

`LifeInv` is `TypeOK` and `Told` with two more facts. `DialogOK`: a question is in
one place, shown in the cell or answered in the channel, and the lock covers
what is in between; without it an answer could be taken for the next question.
`ErrorOK`: an error is in hand only between its call and the cell, and what is worked on is a
change. `IgnoredStays` needs `IgnoredInv` beside them: as long as its user wrote nothing
to the file, what was chosen is in the file and in the list of the turn, for the list that is
written is that of the turn, which holds what the file held. The step lemmas group the actions by
what they touch, and the three refinements follow step by step from `LifeInv`.

`DaemonInv`: the runs are typed (`RunsOK`), a run that obeys is the one of the map of
processes (`Masters`), what is in the map is a run of that space (`Known`), the
exchangers hold the process of a space (`Reached`), what is still to be started is of the
configuration and has no process yet unless it is listed twice (`TodoOK`), and once
surveyed every process is of the configuration (`Wanted`). `OneMaster` alone is
not inductive: that `todo` has only spaces without a process is what keeps a second
start away. Nothing is assumed of what the windows save: any configuration may
be sent at any time.

`ManagerInv` types the window, the tray and the main loop (`SharedOK`, `WindowOK`,
`SurveyedOK`), and says that the file is what saving the list of the last message
writes, or of the configuration in force when no message waits, if the last save was
written whole (`FileOK`); otherwise it is unreadable, or what saving some list writes, and the
window that opens on it shows that list. That it reads back as that list
(`SavedIsTold`) is then about the two conversions: a section per name, the last of a name wins,
an instance without password is left out. The lemmas on `Only` say what such a filter keeps.

`ReducerInv` reads the events that are pending as an account (`Account`) that leads
from the names of `mirror` to those of the folder: each needs names that are there when its turn comes,
and a name that was freed does not come back. A change that came too early ends the account
(`hasty`), as it ends what the properties say. `BytesComing` adds that bytes the mirror does not have are announced by an event
still to come, except for renamed files. `Visiting` is the account in the middle of `next_event`,
with an event in hand and some put aside; it holds at each visit, kept or
merged, and the number of visits has no bound, so that this is an induction.

`FoldProofs` is how that is done without the induction theorems of the library, which take an
operator as a parameter: a fold of the community modules is a recursive function,
unfolded step by step, and a claim about every number is one about the set of the
numbers where it holds (`ByInduction`). `OperatorProofs` begins with the types of the two
sides and of the table, and the lemmas on what a removal, a rename and each modification
preserve: no orphan, nothing below a file, no loop.

Only model-checked: liveness (`Settles`, `PassesEnd`,
`HeardIsDone`, `Resumes`, `SilencedEnd`, `StopHonoured`, `ReloadsTaken`,
`QuitEnds`, and the fairness of the three refinements), which the prover does not
reach; what has no inductive invariant written yet: the convergence of a downstream operator,
whose users do not wait (`DownstreamConverged` in the run `operator_remote`), where any number of events is
under way, and what the startup promises after a crash when users worked in the space
(`StartupConverged`); and `NoAncestryLoop` where uploads are recorded, which
the same run checks of remote users who rename and move.

## 5. Plan

Done: the core (`StateStore`, `Reduction`, `Space`, `Operator`, `Reducer`,
`Startup`), the runs and the application (`Lifecycle`, `Question`, `SpaceRun`,
`Wiring`, `Daemon`, `Configure`, `Manager`), the proofs above. Left, in order:

1. `RevisionsGrow` with events that piled up; whether a recorded upload can close a loop
   (`NoAncestryLoop` of any behaviour).
2. **Pipeline**: the reducer and the operator composed, with ignored file
   names; `Modified` whose stored path differs from its path; a crash inside
   `NamedOnRemote`.
3. What `Follows` says, for users of the space: the downloads that a stopped run leaves half
   done (`StartupConverged` for both sides).
4. What `Calm` says, for remote users who do not wait (`DownstreamConverged`).

## 6. Not modelled

* `T/run.rs`, `T/conflict.rs`, `T/local/content.rs`, `T/local/path.rs`,
  `T/remote/path.rs`: every line is commented out. The end to end tests
  (`tests`): read as a statement of what is expected.
* Encodings: HTTP requests and answers, the text of the live stream, of the
  configuration and of `.trsyncignore`, the SQL text; command lines and paths of
  files. Connections to the database and the keyring are plain calls.
* Display: what the windows draw, the workspaces they list, the names of jobs
  and the icon of the tray; the Windows tray.
* The one second debounce of the local watcher, ignored file names and
  attachments of files. `ForceRemote` and `RemoteEvent::Renamed` are built by
  tests only.
* The standalone manager (`manager/src/bin.rs`), which never sends its daemon a
  message, and `MemoryState` beyond what the startup uses (the rest is used by
  tests).
