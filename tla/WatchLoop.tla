------------------------------ MODULE WatchLoop ------------------------------
(***************************************************************************)
(* sonarium-worker --watch: passes of the scanner, driven by inotify, by   *)
(* FSEvents or by polling, over a media tree that changes at any moment.   *)
(* inotify watches are per directory, so the watcher walks the tree to add *)
(* them, at start and for each directory that appears later, while the     *)
(* tree goes on changing under the walk.  FSEvents covers the tree; its    *)
(* callback runs on a thread of its own and only sets a flag.              *)
(*                                                                         *)
(* A directory's files are one version number, a pass imports a directory  *)
(* at a time, and the catalog is the version of each it imported last.     *)
(* Rows of files and directories that are gone stay in the catalog: no     *)
(* code deletes them, so only what exists can be out of date here.         *)
(***************************************************************************)
EXTENDS Integers, FiniteSets

CONSTANTS
  Root,
  Dirs,     \* directories that may exist, Root among them
  Parent,   \* of each directory but Root
  Trees,    \* what may exist when the worker starts
  MaxEdits, \* bound: changes to the tree
  MaxFaults, \* bound: directories that cannot be imported or watched
  Backends  \* watchers that can be had: "inotify", "fsevents", "polling"

ASSUME TreeAssumption ==
  /\ Root \in Dirs /\ Parent \in [Dirs \ {Root} -> Dirs]
  /\ \A S \in (SUBSET (Dirs \ {Root})) \ {{}} : \E d \in S : Parent[d] \notin S \* no cycles
  /\ \A S \in Trees : S \subseteq Dirs /\ Root \in S /\ \A d \in S \ {Root} : Parent[d] \in S
ASSUME EditsAssumption == MaxEdits \in Nat /\ MaxFaults \in Nat
ASSUME BackendsAssumption == Backends \subseteq {"inotify", "fsevents", "polling"}

VARIABLES
  present,  \* directories that exist
  content,  \* version of the files directly in each directory
  edits,
  catalog,  \* version each directory had when it was last imported
  watching, \* directories with an inotify watch
  queue,    \* events not yet delivered: <<"change", d>>, <<"newdir", d>>
  changed,  \* changed_, set by the callback of FSEvents
  backend,  \* the watcher in use, "none" until the first pass is over
  debounce, \* whether SONARIUM_WORKER_DEBOUNCE_SECONDS is positive
  stop,     \* g_stop
  pc,       \* where main is
  toScan,   \* directories the scanner's iterator has yet to open
  toWatch,  \* directories found by the watcher's walk, without a watch yet
  toList,   \* directories it has just watched and has yet to list
  faults,   \* directories that could not be imported or watched so far
  missed,   \* history: directories out of date when the watcher was ready, or
            \* whose last import failed, and not imported since
  blind     \* history: directories left out by a walk that broke off, or
            \* below one that the kernel would not watch

tree == <<present, content, edits>>
walk == <<toWatch, toList>>
conf == <<backend, debounce>>
hist == <<faults, missed, blind>>
vars == <<tree, catalog, watching, queue, changed, conf, stop, pc, toScan, walk, hist>>

ChildrenOf(d) == {c \in Dirs \ {Root} : Parent[c] = d}

\* The subtree of d: the least set with d in it and the children of its members.
BelowOf ==
  [d \in Dirs |->
    {c \in Dirs : \A T \in SUBSET Dirs :
       d \in T /\ (\A x \in Dirs \ {Root} : Parent[x] \in T => x \in T) => c \in T}]

Below(S) == UNION {BelowOf[d] : d \in S}

Init ==
  /\ present \in Trees
  /\ content = [d \in Dirs |-> 1]
  /\ edits = 0
  /\ catalog = [d \in Dirs |-> 0]
  /\ watching = {}
  /\ queue = {} /\ changed = FALSE
  /\ backend = "none" /\ debounce \in BOOLEAN
  /\ stop = FALSE
  /\ pc = "scan" /\ toScan = {Root}
  /\ toWatch = {} /\ toList = {}
  /\ faults = 0 /\ missed = {} /\ blind = {}

OutOfDate == {d \in present : catalog[d] # content[d]}

-----------------------------------------------------------------------------
(* The tree.                                                               *)

Edit ==
  /\ edits < MaxEdits
  /\ edits' = edits + 1
  /\ UNCHANGED <<catalog, changed, conf, stop, pc, toScan, walk, hist>>

\* inotify queues an event if the directory it happens in is watched; a stream
\* of FSEvents reports whatever happens below the root, and what it reports is
\* not looked at.
Notify(d, event) ==
  queue' = queue \cup IF backend = "fsevents" THEN {<<"change", Root>>}
                     ELSE IF d \in watching THEN {event} ELSE {}

\* A file in d is added, rewritten or removed.
TouchFile(d) ==
  /\ d \in present
  /\ Edit
  /\ content' = [content EXCEPT ![d] = @ + 1]
  /\ Notify(d, <<"change", d>>)
  /\ UNCHANGED <<present, watching>>

\* mkdir, or a rename that moves d in together with a whole tree.
AddTree(d, S) ==
  /\ d \notin present /\ Parent[d] \in present
  /\ S \subseteq Below({d}) /\ d \in S /\ \A c \in S \ {d} : Parent[c] \in S
  /\ Edit
  /\ present' = present \cup S
  /\ content' = [c \in Dirs |-> IF c \in S THEN content[c] + 1 ELSE content[c]]
  /\ Notify(Parent[d], <<"newdir", d>>)
  /\ UNCHANGED watching

\* rmdir; the kernel drops the watch with the directory.
RemoveDir(d) ==
  /\ d \in present \ {Root} /\ ChildrenOf(d) \cap present = {}
  /\ Edit
  /\ present' = present \ {d}
  /\ watching' = watching \ {d}
  /\ Notify(Parent[d], <<"change", Parent[d]>>)
  /\ UNCHANGED content

ChangeTree ==
  \/ \E d \in Dirs : TouchFile(d)
  \/ \E d \in Dirs \ {Root} : \E S \in SUBSET Below({d}) : AddTree(d, S)
  \/ \E d \in Dirs \ {Root} : RemoveDir(d)

-----------------------------------------------------------------------------
(* A pass: scanner::scan.                                                  *)

\* The iterator opens d, the pass imports its files and finds its children.
ScanDir(d) ==
  /\ pc = "scan" /\ d \in toScan /\ d \in present
  /\ catalog' = [catalog EXCEPT ![d] = content[d]]
  /\ toScan' = (toScan \ {d}) \cup (ChildrenOf(d) \cap present)
  /\ missed' = missed \ {d}
  /\ UNCHANGED <<tree, watching, queue, changed, conf, stop, pc, walk, faults, blind>>

Fault == faults < MaxFaults /\ faults' = faults + 1

\* Upserts of d's files are refused, or a file cannot be read: the pass goes on,
\* run_pass prints its report, and main waits as after any other pass.  (Of a
\* directory that is up to date this step is ScanDir.)
ImportFails(d) ==
  /\ pc = "scan" /\ d \in toScan /\ d \in OutOfDate
  /\ Fault
  /\ toScan' = (toScan \ {d}) \cup (ChildrenOf(d) \cap present)
  /\ missed' = missed \cup {d}
  /\ UNCHANGED <<tree, catalog, watching, queue, changed, conf, stop, pc, walk, blind>>

\* d went away before it could be opened: the iterator becomes the end one.
ScanBreaksOff(d) ==
  /\ pc = "scan" /\ d \in toScan /\ d \notin present
  /\ toScan' = {}
  /\ UNCHANGED <<tree, catalog, watching, queue, changed, conf, stop, pc, walk, hist>>

\* After the first pass main picks a watcher, after the others it waits.
EndScan ==
  /\ pc = "scan" /\ toScan = {}
  /\ IF backend # "none"
     THEN pc' = "wait" /\ UNCHANGED <<backend, toWatch, missed>>
     ELSE \/ /\ "inotify" \in Backends
             /\ backend' = "inotify" /\ pc' = "build" /\ toWatch' = {Root}
             /\ UNCHANGED missed
          \/ /\ "fsevents" \in Backends \* a stream of what happens from now on
             /\ backend' = "fsevents" /\ pc' = "wait" /\ UNCHANGED toWatch
             /\ missed' = OutOfDate
          \/ /\ "polling" \in Backends
             /\ backend' = "polling" /\ pc' = "wait" /\ UNCHANGED <<toWatch, missed>>
  /\ UNCHANGED <<tree, catalog, watching, queue, changed, debounce, stop, toScan, toList,
                 faults, blind>>

-----------------------------------------------------------------------------
(* The inotify watcher's walks: make_native_fs_watcher and watch_tree.     *)

AddWatchUnchecked(d) == \* mutant: without "if (wd >= 0)"
  /\ pc \in {"build", "drain"} /\ d \in toWatch
  /\ toWatch' = toWatch \ {d}
  /\ watching' = watching \cup {d}
  /\ toList' = toList \cup {d}
  /\ UNCHANGED <<tree, catalog, queue, changed, conf, stop, pc, toScan, hist>>

\* add_watch; it does nothing if the directory is gone.
AddWatch(d) ==
  /\ pc \in {"build", "drain"} /\ d \in toWatch
  /\ toWatch' = toWatch \ {d}
  /\ watching' = watching \cup ({d} \cap present)
  /\ toList' = toList \cup {d}
  /\ UNCHANGED <<tree, catalog, queue, changed, conf, stop, pc, toScan, hist>>

\* The kernel grants no more watches, or none on d: that is not reported, and the
\* walk goes on below d.  (d is not Root: without any watch main would poll.)
AddWatchFails(d) ==
  /\ pc \in {"build", "drain"} /\ d \in toWatch \ {Root} /\ d \in present
  /\ Fault
  /\ toWatch' = toWatch \ {d}
  /\ toList' = toList \cup {d}
  /\ blind' = blind \cup Below({d})
  /\ UNCHANGED <<tree, catalog, watching, queue, changed, conf, stop, pc, toScan, missed>>

ListAtStartOnly(d) == \* mutant: drain_events calls add_watch, not watch_tree
  /\ pc \in {"build", "drain"} /\ d \in toList /\ d \in present
  /\ toList' = toList \ {d}
  /\ toWatch' = IF pc = "build" THEN toWatch \cup (ChildrenOf(d) \cap present) ELSE toWatch
  /\ UNCHANGED <<tree, catalog, watching, queue, changed, conf, stop, pc, toScan, hist>>

\* The iterator descends into d.
ListDir(d) ==
  /\ pc \in {"build", "drain"} /\ d \in toList /\ d \in present
  /\ toList' = toList \ {d}
  /\ toWatch' = toWatch \cup (ChildrenOf(d) \cap present)
  /\ UNCHANGED <<tree, catalog, watching, queue, changed, conf, stop, pc, toScan, hist>>

\* d went away: the walk ends with an error, and what it had left to watch
\* stays unwatched.
WalkBreaksOff(d) ==
  /\ pc \in {"build", "drain"} /\ d \in toList /\ d \notin present
  /\ toWatch' = {} /\ toList' = {}
  /\ blind' = blind \cup Below((toWatch \cup toList) \ {d})
  /\ UNCHANGED <<tree, catalog, watching, queue, changed, conf, stop, pc, toScan, faults, missed>>

WatcherReady ==
  /\ pc = "build" /\ toWatch = {} /\ toList = {}
  /\ pc' = "wait"
  /\ missed' = OutOfDate
  /\ UNCHANGED <<tree, catalog, watching, queue, changed, conf, stop, toScan, walk,
                 faults, blind>>

-----------------------------------------------------------------------------
(* The loop of main.                                                       *)

\* poll reports events.  A wait that times out returns to the wait.
WaitForChange ==
  /\ pc \in {"wait", "debounce"} /\ backend = "inotify" /\ ~ stop
  /\ queue # {}
  /\ pc' = "drain"
  /\ UNCHANGED <<tree, catalog, watching, queue, changed, conf, stop, toScan, walk, hist>>

ReadEventOnly(e) == \* mutant: new directories are not watched
  /\ pc = "drain" /\ toWatch = {} /\ toList = {}
  /\ e \in queue
  /\ queue' = queue \ {e}
  /\ UNCHANGED <<tree, catalog, watching, changed, conf, stop, pc, toScan, walk, hist>>

\* drain_events reads an event and walks the directory that appeared.
ReadEvent(e) ==
  /\ pc = "drain" /\ toWatch = {} /\ toList = {}
  /\ e \in queue
  /\ queue' = queue \ {e}
  /\ toWatch' = IF e[1] = "newdir" THEN {e[2]} ELSE {}
  /\ UNCHANGED <<tree, catalog, watching, changed, conf, stop, pc, toScan, toList, hist>>

\* read finds no more events: with a debounce window, wait for quiet.
EndDrain ==
  /\ pc = "drain" /\ toWatch = {} /\ toList = {} /\ queue = {}
  /\ IF debounce THEN pc' = "debounce" /\ UNCHANGED toScan
                 ELSE pc' = "scan" /\ toScan' = {Root}
  /\ UNCHANGED <<tree, catalog, watching, queue, changed, conf, stop, walk, hist>>

CallbackWakesWaiter == \* mutant: it notifies, and sets no flag
  /\ backend = "fsevents" /\ queue # {}
  /\ queue' = {}
  /\ changed' = (pc \in {"wait", "debounce"})
  /\ UNCHANGED <<tree, catalog, watching, conf, stop, pc, toScan, walk, hist>>

\* The dispatch queue of FSEvents runs the callback with all that is pending.
Callback ==
  /\ backend = "fsevents" /\ queue # {}
  /\ queue' = {}
  /\ changed' = TRUE
  /\ UNCHANGED <<tree, catalog, watching, conf, stop, pc, toScan, walk, hist>>

\* FSEvents' wait_for_change takes the flag: it starts a pass or, with a
\* debounce window, the wait for quiet, and that one again.
TakeChange ==
  /\ backend = "fsevents" /\ ~ stop
  /\ pc \in {"wait", "debounce"} /\ changed
  /\ changed' = FALSE
  /\ IF debounce THEN pc' = "debounce" /\ UNCHANGED toScan
                 ELSE pc' = "scan" /\ toScan' = {Root}
  /\ UNCHANGED <<tree, catalog, watching, queue, conf, stop, walk, hist>>

\* The window passed without an event, or with one that is yet to be delivered.
Quiet ==
  /\ pc = "debounce" /\ ~ changed /\ ~ stop
  /\ backend = "inotify" => queue = {}
  /\ pc' = "scan" /\ toScan' = {Root}
  /\ UNCHANGED <<tree, catalog, watching, queue, changed, conf, stop, walk, hist>>

PollOnEvent == \* mutant: the polling watcher reports no change
  /\ pc = "wait" /\ backend = "polling" /\ ~ stop /\ queue # {}
  /\ pc' = "scan" /\ toScan' = {Root}
  /\ UNCHANGED <<tree, catalog, watching, queue, changed, conf, stop, walk, hist>>

\* The polling watcher always reports a change; it is never debounced.
PollInterval ==
  /\ pc = "wait" /\ backend = "polling" /\ ~ stop
  /\ pc' = "scan" /\ toScan' = {Root}
  /\ UNCHANGED <<tree, catalog, watching, queue, changed, conf, stop, walk, hist>>

\* SIGINT or SIGTERM.
Signal ==
  /\ ~ stop
  /\ stop' = TRUE
  /\ UNCHANGED <<tree, catalog, watching, queue, changed, conf, pc, toScan, walk, hist>>

StopOutsideDebounce == \* mutant: the debounce wait does not look at g_stop
  /\ pc = "wait" /\ stop
  /\ pc' = "stopped"
  /\ UNCHANGED <<tree, catalog, watching, queue, changed, conf, stop, toScan, walk, hist>>

Stop ==
  /\ pc \in {"wait", "debounce"} /\ stop
  /\ pc' = "stopped"
  /\ UNCHANGED <<tree, catalog, watching, queue, changed, conf, stop, toScan, walk, hist>>

Worker ==
  \/ \E d \in Dirs : ScanDir(d) \/ ImportFails(d) \/ ScanBreaksOff(d)
  \/ EndScan
  \/ \E d \in Dirs : AddWatch(d) \/ AddWatchFails(d) \/ ListDir(d) \/ WalkBreaksOff(d)
  \/ WatcherReady
  \/ WaitForChange
  \/ \E e \in queue : ReadEvent(e)
  \/ EndDrain \/ TakeChange \/ Quiet \/ PollInterval \/ Stop

Next == ChangeTree \/ Worker \/ Callback \/ Signal

Spec == Init /\ [][Next]_vars

\* The worker's thread is scheduled, and events are delivered.
FairSpec == Spec /\ WF_vars(Worker) /\ WF_vars(Callback)

-----------------------------------------------------------------------------
(* Properties.                                                             *)

TypeOK ==
  /\ Root \in present /\ present \subseteq Dirs
  /\ \A d \in Dirs : catalog[d] <= content[d] /\ content[d] <= edits + 1
  /\ watching \subseteq present
  /\ queue \subseteq ({"change"} \X Dirs) \cup ({"newdir"} \X (Dirs \ {Root}))
  /\ toScan \subseteq Dirs /\ toWatch \subseteq Dirs /\ toList \subseteq Dirs
  /\ faults \in 0..MaxFaults
  /\ changed \in BOOLEAN /\ backend \in {"none"} \cup Backends
  /\ pc \in {"scan", "build", "wait", "drain", "debounce", "stopped"}

Idle ==
  /\ pc = "wait" /\ backend \in {"inotify", "fsevents"}
  /\ queue = {} /\ ~ changed

\* When the inotify worker waits and no event is pending, every directory is
\* watched, however directories were created, moved in and removed while the
\* watches were being added, except what a walk that broke off had left to do and
\* what lies below a directory the kernel would not watch.
EveryDirWatched ==
  Idle /\ backend = "inotify" => present \subseteq watching \cup blind

\* When the worker waits, no event is pending and no directory is unwatched, the
\* catalog has every directory as it is on disk, except those that were out of
\* date when the watcher was ready and those whose last import failed: neither is
\* tried again.  A change during a pass, behind it, is in the queue or the flag
\* when it ends.  (A directory that vanishes unwatched can end a pass early.)
NothingMissed ==
  Idle /\ blind = {} => OutOfDate \subseteq missed

\* Once the tree is left alone and imports succeed again, the polling worker
\* imports all of it.  The others import what has an event: they never return to
\* a directory that changed before the watcher was ready, or whose last import
\* failed, until something else changes.
CatchesUp ==
  <>[] \/ stop
       \/ backend = "polling" /\ OutOfDate = {}
       \/ /\ backend \in {"inotify", "fsevents"}
          /\ blind = {} => OutOfDate \subseteq missed

\* A signal ends the worker, whatever it waits for.
StopsOnSignal == stop ~> pc = "stopped"
=============================================================================
