--------------------------- MODULE WatchLoopProofs ---------------------------
(***************************************************************************)
(* Proofs about WatchLoop, for any tree of directories, any number of      *)
(* changes to it and any choice of watchers: the type invariant, that      *)
(* every directory is watched when the inotify worker is idle, and that an *)
(* idle worker has missed nothing it could know of.                        *)
(***************************************************************************)
EXTENDS WatchLoop, TLAPS

-----------------------------------------------------------------------------
(* Subtrees.                                                               *)

\* A subtree has its root in it and lies within Dirs.
LEMMA BelowSelf ==
  ASSUME NEW d \in Dirs
  PROVE  d \in BelowOf[d] /\ BelowOf[d] \subseteq Dirs
BY DEF BelowOf

\* A subtree has the children of its members.
LEMMA BelowClosed ==
  ASSUME NEW d \in Dirs, NEW c \in Dirs \ {Root}, Parent[c] \in BelowOf[d]
  PROVE  c \in BelowOf[d]
BY DEF BelowOf

\* What is below a directory and is not that directory is below a child of it.
LEMMA BelowUnfolds ==
  ASSUME NEW x \in Dirs, NEW c \in BelowOf[x], c # x
  PROVE  \E k \in ChildrenOf(x) : c \in BelowOf[k]
<1> DEFINE T == {x} \cup UNION {BelowOf[k] : k \in ChildrenOf(x)}
<1>1. T \in SUBSET Dirs
  BY BelowSelf DEF ChildrenOf
<1>2. \A y \in Dirs \ {Root} : Parent[y] \in T => y \in T
  <2> SUFFICES ASSUME NEW y \in Dirs \ {Root}, Parent[y] \in T PROVE y \in T
    OBVIOUS
  <2>1. CASE Parent[y] = x
    BY <2>1, BelowSelf DEF ChildrenOf
  <2>2. CASE Parent[y] # x
    <3>1. PICK k \in ChildrenOf(x) : Parent[y] \in BelowOf[k]
      BY <2>2
    <3>2. y \in BelowOf[k]
      BY <3>1, BelowClosed DEF ChildrenOf
    <3> QED BY <3>2
  <2> QED BY <2>1, <2>2
<1>3. c \in T
  <2> HIDE DEF T
  <2>1. x \in T
    BY DEF T
  <2> QED BY <1>1, <1>2, <2>1 DEF BelowOf
<1> QED BY <1>3

\* Every directory is below the root, for there is no cycle.
LEMMA BelowTheRoot ==
  BelowOf[Root] = Dirs
<1>1. Root \in Dirs
  BY TreeAssumption
<1>2. ASSUME NEW T \in SUBSET Dirs, Root \in T,
             \A x \in Dirs \ {Root} : Parent[x] \in T => x \in T
      PROVE  T = Dirs
  <2> SUFFICES ASSUME Dirs \ T # {} PROVE FALSE
    OBVIOUS
  <2>1. Dirs \ T \in (SUBSET (Dirs \ {Root})) \ {{}}
    BY <1>2
  <2>2. PICK d \in Dirs \ T : Parent[d] \notin Dirs \ T
    BY <2>1, TreeAssumption
  <2>3. d \in Dirs \ {Root} /\ Parent[d] \in T
    BY <2>2, <1>2, TreeAssumption
  <2> QED BY <2>3, <2>2, <1>2
<1> QED BY <1>1, <1>2 DEF BelowOf

\* A set of directories that has the parent of each of its members.
Rooted(S) == \A d \in S \ {Root} : Parent[d] \in S

\* Nothing exists below a directory that does not.
LEMMA BelowAbsent ==
  ASSUME NEW S \in SUBSET Dirs, Rooted(S), NEW x \in Dirs \ S, NEW c \in BelowOf[x]
  PROVE  c \notin S
<1> DEFINE T == Dirs \ S
<1>1. T \in SUBSET Dirs /\ x \in T
  OBVIOUS
<1>2. \A y \in Dirs \ {Root} : Parent[y] \in T => y \in T
  BY DEF Rooted
<1>3. c \in T
  <2> HIDE DEF T
  <2> QED BY <1>1, <1>2 DEF BelowOf
<1> QED BY <1>3

-----------------------------------------------------------------------------
(* Types.                                                                  *)

Types ==
  /\ edits \in Nat /\ content \in [Dirs -> Nat] /\ catalog \in [Dirs -> Nat]
  /\ stop \in BOOLEAN /\ debounce \in BOOLEAN
  /\ faults \in Nat /\ missed \subseteq Dirs /\ blind \subseteq Dirs
  /\ Rooted(present)
  /\ TypeOK

LEMMA TypesInit == Init => Types
<1> SUFFICES ASSUME Init PROVE Types
  OBVIOUS
<1>1. Root \in present /\ present \subseteq Dirs /\ Rooted(present)
  BY TreeAssumption DEF Init, Rooted
<1>2. /\ edits \in Nat /\ content \in [Dirs -> Nat] /\ catalog \in [Dirs -> Nat]
      /\ \A d \in Dirs : catalog[d] <= content[d] /\ content[d] <= edits + 1
  BY DEF Init
<1>3. faults \in Nat /\ faults \in 0..MaxFaults
  BY EditsAssumption DEF Init
<1> QED BY <1>1, <1>2, <1>3, TreeAssumption DEF Init, Types, TypeOK

\* Notify adds at most one event, of a kind the queue may hold.
LEMMA NotifyTypes ==
  ASSUME Types, NEW d \in Dirs, NEW event, Notify(d, event),
         event \in ({"change"} \X Dirs) \cup ({"newdir"} \X (Dirs \ {Root}))
  PROVE  queue' \subseteq ({"change"} \X Dirs) \cup ({"newdir"} \X (Dirs \ {Root}))
BY TreeAssumption DEF Notify, Types, TypeOK

LEMMA TypesNext == Types /\ [Next]_vars => Types'
<1> SUFFICES ASSUME Types, [Next]_vars PROVE Types'
  OBVIOUS
<1> USE TreeAssumption, BackendsAssumption, EditsAssumption
<1> USE DEF tree, walk, conf, hist
<1>1. ASSUME NEW d \in Dirs, TouchFile(d) PROVE Types'
  <2>1. queue' \subseteq ({"change"} \X Dirs) \cup ({"newdir"} \X (Dirs \ {Root}))
    BY <1>1, NotifyTypes DEF TouchFile
  <2>2. /\ edits' \in Nat /\ content' \in [Dirs -> Nat]
        /\ \A x \in Dirs : catalog[x] <= content'[x] /\ content'[x] <= edits' + 1
    BY <1>1 DEF TouchFile, Edit, Types, TypeOK
  <2> QED BY <1>1, <2>1, <2>2 DEF TouchFile, Edit, Types, TypeOK
<1>2. ASSUME NEW d \in Dirs \ {Root}, NEW S \in SUBSET Below({d}), AddTree(d, S)
      PROVE  Types'
  <2>0. Parent[d] \in Dirs
    OBVIOUS
  <2>1. queue' \subseteq ({"change"} \X Dirs) \cup ({"newdir"} \X (Dirs \ {Root}))
    BY <1>2, <2>0, NotifyTypes DEF AddTree
  <2>2. /\ edits' \in Nat /\ content' \in [Dirs -> Nat]
        /\ \A x \in Dirs : catalog[x] <= content'[x] /\ content'[x] <= edits' + 1
    BY <1>2 DEF AddTree, Edit, Types, TypeOK
  <2>3. S \subseteq Dirs
    BY BelowSelf DEF Below
  <2>4. Rooted(present)' /\ present' \subseteq Dirs /\ Root \in present'
    BY <1>2, <2>3 DEF AddTree, Rooted, Types, TypeOK
  <2>5. watching' \subseteq present'
    BY <1>2 DEF AddTree, Types, TypeOK
  <2> QED BY <1>2, <2>1, <2>2, <2>4, <2>5 DEF AddTree, Edit, Types, TypeOK
<1>3. ASSUME NEW d \in Dirs \ {Root}, RemoveDir(d) PROVE Types'
  <2>0. Parent[d] \in Dirs
    OBVIOUS
  <2>1. queue' \subseteq ({"change"} \X Dirs) \cup ({"newdir"} \X (Dirs \ {Root}))
    BY <1>3, <2>0, NotifyTypes DEF RemoveDir
  <2>2. /\ edits' \in Nat
        /\ \A x \in Dirs : catalog[x] <= content'[x] /\ content'[x] <= edits' + 1
    BY <1>3 DEF RemoveDir, Edit, Types, TypeOK
  <2>3. \A x \in present : Parent[x] = d => x \notin Dirs \ {Root}
    BY <1>3 DEF RemoveDir, ChildrenOf
  <2>4. Rooted(present)' /\ present' \subseteq Dirs /\ Root \in present'
    BY <1>3, <2>3 DEF RemoveDir, Rooted, Types, TypeOK
  <2>5. watching' \subseteq present'
    BY <1>3 DEF RemoveDir, Types, TypeOK
  <2> QED BY <1>3, <2>1, <2>2, <2>4, <2>5 DEF RemoveDir, Edit, Types, TypeOK
<1>4. ASSUME NEW d \in Dirs, ScanDir(d) PROVE Types'
  <2>1. /\ catalog' \in [Dirs -> Nat]
        /\ \A x \in Dirs : catalog'[x] <= content[x]
    BY <1>4 DEF ScanDir, Types, TypeOK
  <2> QED BY <1>4, <2>1 DEF ScanDir, ChildrenOf, Types, TypeOK, Rooted
<1>5. ASSUME NEW d \in Dirs, ScanBreaksOff(d) PROVE Types'
  BY <1>5 DEF ScanBreaksOff, Types, TypeOK, Rooted
<1>4f. ASSUME NEW d \in Dirs, ImportFails(d) PROVE Types'
  BY <1>4f DEF ImportFails, Fault, ChildrenOf, Types, TypeOK, Rooted
<1>6. CASE EndScan
  <2>1. /\ UNCHANGED <<present, content, edits, catalog, watching, queue, changed, debounce,
                       stop, toScan, toList, faults, blind>>
        /\ pc' \in {"wait", "build"} /\ backend' \in {backend} \cup Backends
        /\ toWatch' \subseteq toWatch \cup {Root}
        /\ missed' \subseteq missed \cup present
    BY <1>6 DEF EndScan, OutOfDate
  <2> QED BY <2>1 DEF Types, TypeOK, Rooted
<1>7. ASSUME NEW d \in Dirs, AddWatch(d) PROVE Types'
  BY <1>7 DEF AddWatch, Types, TypeOK, Rooted
<1>7f. ASSUME NEW d \in Dirs, AddWatchFails(d) PROVE Types'
  <2>1. blind' \subseteq Dirs
    BY <1>7f, BelowSelf DEF AddWatchFails, Below, Types
  <2>2. faults' \in Nat /\ faults' \in 0..MaxFaults
    BY <1>7f DEF AddWatchFails, Fault, Types, TypeOK
  <2>3. /\ UNCHANGED <<present, content, edits, catalog, watching, queue, changed, backend,
                       debounce, stop, pc, toScan, missed>>
        /\ toWatch' \subseteq toWatch /\ toList' = toList \cup {d}
    BY <1>7f DEF AddWatchFails
  <2> QED BY <2>1, <2>2, <2>3 DEF Types, TypeOK, Rooted
<1>8. ASSUME NEW d \in Dirs, ListDir(d) PROVE Types'
  BY <1>8 DEF ListDir, ChildrenOf, Types, TypeOK, Rooted
<1>9. ASSUME NEW d \in Dirs, WalkBreaksOff(d) PROVE Types'
  <2>1. blind' \subseteq Dirs
    BY <1>9, BelowSelf DEF WalkBreaksOff, Below, Types, TypeOK
  <2> QED BY <1>9, <2>1 DEF WalkBreaksOff, Types, TypeOK, Rooted
<1>10. CASE WatcherReady
  BY <1>10 DEF WatcherReady, OutOfDate, Types, TypeOK, Rooted
<1>11. CASE WaitForChange
  BY <1>11 DEF WaitForChange, Types, TypeOK, Rooted
<1>12. ASSUME NEW e \in queue, ReadEvent(e) PROVE Types'
  <2>1. toWatch' \subseteq Dirs
    BY <1>12 DEF ReadEvent, Types, TypeOK
  <2> QED BY <1>12, <2>1 DEF ReadEvent, Types, TypeOK, Rooted
<1>13. CASE EndDrain
  BY <1>13 DEF EndDrain, Types, TypeOK, Rooted
<1>14. CASE TakeChange
  <2>1. /\ UNCHANGED <<present, content, edits, catalog, watching, queue, backend, debounce,
                       stop, toWatch, toList, faults, missed, blind>>
        /\ changed' \in BOOLEAN
    BY <1>14, Zenon DEF TakeChange
  <2>2. pc' \in {"debounce", "scan"} /\ toScan' \subseteq toScan \cup {Root}
    BY <1>14 DEF TakeChange
  <2> QED BY <2>1, <2>2 DEF Types, TypeOK, Rooted
<1>15. CASE Quiet
  BY <1>15 DEF Quiet, Types, TypeOK, Rooted
<1>16. CASE PollInterval
  BY <1>16 DEF PollInterval, Types, TypeOK, Rooted
<1>17. CASE Stop
  BY <1>17 DEF Stop, Types, TypeOK, Rooted
<1>18. CASE Callback
  BY <1>18 DEF Callback, Types, TypeOK, Rooted
<1>19. CASE Signal
  BY <1>19 DEF Signal, Types, TypeOK, Rooted
<1>20. CASE UNCHANGED vars
  BY <1>20 DEF vars, Types, TypeOK, Rooted
<1>21. ChangeTree => Types'
  BY <1>1, <1>2, <1>3, Zenon DEF ChangeTree
<1>22. Worker => Types'
  BY <1>4, <1>4f, <1>5, <1>6, <1>7, <1>7f, <1>8, <1>9, <1>10, <1>11, <1>12, <1>13,
     <1>14, <1>15, <1>16, <1>17, Zenon DEF Worker
<1> QED BY <1>18, <1>19, <1>20, <1>21, <1>22 DEF Next

\* The variables of the watch loop have their types, watches are held only on
\* directories that exist, and the catalog is never ahead of the disk.
THEOREM WatchLoopTypes == Spec => []TypeOK
<1>1. Types => TypeOK
  BY DEF Types
<1> QED BY TypesInit, TypesNext, <1>1, PTL DEF Spec

-----------------------------------------------------------------------------
(* Watches.                                                                *)

\* A walk has something left only where main is in it, and only inotify has
\* watches.
WalkOver ==
  /\ pc \notin {"build", "drain"} => toWatch = {} /\ toList = {}
  /\ pc \in {"build", "drain"} => backend = "inotify"
  /\ backend # "inotify" => watching = {}

\* Of the directory d that exists, or of the root: why it is watched, will be
\* watched, or cannot be.
Covered(d) ==
  \/ d \in watching \cup toWatch \cup blind
  \/ d # Root /\ Parent[d] \notin watching
  \/ d # Root /\ Parent[d] \in toList
  \/ <<"newdir", d>> \in queue

\* The watches: what exists is watched, unless the watcher still has it, its
\* parent or the event of its creation to look at, its parent is not watched
\* either, or a walk that broke off left it out.
Watches ==
  /\ WalkOver
  /\ \A c \in Dirs \ {Root} : Parent[c] \in blind => c \in blind
  /\ backend = "inotify" => \A d \in present : Covered(d)

LEMMA WatchesInit == Init => Watches
BY DEF Init, Watches, WalkOver

\* What the tree's changes leave as it is.
LEMMA ChangeTreeKeeps ==
  ASSUME ChangeTree
  PROVE  /\ UNCHANGED <<catalog, changed, backend, debounce, stop, pc, toScan, toWatch, toList,
                        faults, missed, blind>>
         /\ watching' \subseteq watching /\ queue \subseteq queue'
BY DEF ChangeTree, TouchFile, AddTree, RemoveDir, Edit, Notify, conf, walk, hist

LEMMA WalkOverNext == Types /\ WalkOver /\ [Next]_vars => WalkOver'
<1> SUFFICES ASSUME Types, WalkOver, [Next]_vars PROVE WalkOver'
  OBVIOUS
<1> USE DEF WalkOver, tree, walk, conf, hist
<1>1. CASE ChangeTree
  BY <1>1, ChangeTreeKeeps
<1>2. ASSUME NEW d \in Dirs, ScanDir(d) \/ ImportFails(d) \/ ScanBreaksOff(d)
      PROVE  WalkOver'
  BY <1>2 DEF ScanDir, ImportFails, ScanBreaksOff
<1>3. CASE EndScan
  BY <1>3 DEF EndScan, Types, TypeOK
<1>4. ASSUME NEW d \in Dirs,
             AddWatch(d) \/ AddWatchFails(d) \/ ListDir(d) \/ WalkBreaksOff(d)
      PROVE  WalkOver'
  BY <1>4 DEF AddWatch, AddWatchFails, ListDir, WalkBreaksOff
<1>5. CASE WatcherReady \/ WaitForChange
  BY <1>5 DEF WatcherReady, WaitForChange
<1>6. ASSUME NEW e \in queue, ReadEvent(e) PROVE WalkOver'
  BY <1>6 DEF ReadEvent
<1>7. CASE EndDrain
  BY <1>7 DEF EndDrain
<1>8. CASE TakeChange
  <2>1. UNCHANGED <<backend, watching, toWatch, toList>>
    BY <1>8, Zenon DEF TakeChange
  <2>2. pc \notin {"build", "drain"} /\ pc' \notin {"build", "drain"}
    BY <1>8 DEF TakeChange
  <2> QED BY <2>1, <2>2
<1>9. CASE Quiet
  BY <1>9 DEF Quiet
<1>10. CASE PollInterval \/ Stop
  BY <1>10 DEF PollInterval, Stop
<1>11. CASE Callback \/ Signal
  BY <1>11 DEF Callback, Signal
<1>12. CASE UNCHANGED vars
  BY <1>12 DEF vars
<1>13. Worker => WalkOver'
  BY <1>2, <1>3, <1>4, <1>5, <1>6, <1>7, <1>8, <1>9, <1>10, Zenon DEF Worker
<1> QED BY <1>1, <1>11, <1>12, <1>13 DEF Next

\* Covered can only get lost with the directory's watch, with the directory
\* given up by the walk, or with the event.
LEMMA CoveredKeeps ==
  ASSUME NEW d, Covered(d), watching' = watching, toWatch \subseteq toWatch',
         toList \subseteq toList', blind \subseteq blind', queue \subseteq queue'
  PROVE  Covered(d)'
BY DEF Covered

LEMMA WatchesNext == Types /\ Watches /\ [Next]_vars => Watches'
<1> SUFFICES ASSUME Types, Watches, [Next]_vars PROVE Watches'
  OBVIOUS
<1> USE DEF tree, walk, conf, hist
<1>w. WalkOver /\ WalkOver'
  BY WalkOverNext DEF Watches
\* Blindness is inherited.
<1>b. \A c \in Dirs \ {Root} : Parent[c] \in blind' => c \in blind'
  <2>1. CASE \E d \in Dirs : WalkBreaksOff(d)
    <3>1. PICK d \in Dirs : WalkBreaksOff(d)
      BY <2>1
    <3> DEFINE S == (toWatch \cup toList) \ {d}
    <3>2. S \subseteq Dirs /\ blind' = blind \cup Below(S)
      BY <3>1 DEF WalkBreaksOff, Types, TypeOK
    <3>3. ASSUME NEW c \in Dirs \ {Root}, Parent[c] \in Below(S) PROVE c \in Below(S)
      <4> HIDE DEF S
      <4>1. PICK x \in S : Parent[c] \in BelowOf[x]
        BY <3>3 DEF Below
      <4>2. c \in BelowOf[x]
        BY <4>1, <3>2, BelowClosed
      <4> QED BY <4>2 DEF Below
    <3> QED BY <3>2, <3>3 DEF Watches
  <2>f. CASE \E d \in Dirs : AddWatchFails(d)
    <3>1. PICK d \in Dirs : AddWatchFails(d)
      BY <2>f
    <3>2. blind' = blind \cup BelowOf[d]
      BY <3>1 DEF AddWatchFails, Below
    <3> QED BY <3>2, BelowClosed DEF Watches
  <2>2. CASE ~ \E d \in Dirs : WalkBreaksOff(d) \/ AddWatchFails(d)
    <3>1. blind' = blind
      <4>1. ChangeTree => blind' = blind
        BY ChangeTreeKeeps
      <4>2. ASSUME NEW d \in Dirs,
                   \/ ScanDir(d) \/ ImportFails(d) \/ ScanBreaksOff(d)
                   \/ AddWatch(d) \/ ListDir(d)
            PROVE  blind' = blind
        BY <4>2 DEF ScanDir, ImportFails, ScanBreaksOff, AddWatch, ListDir
      <4>3. ASSUME NEW e \in queue, ReadEvent(e) PROVE blind' = blind
        BY <4>3 DEF ReadEvent
      <4>4. EndScan \/ WatcherReady \/ WaitForChange \/ EndDrain => blind' = blind
        BY DEF EndScan, WatcherReady, WaitForChange, EndDrain
      <4>5. TakeChange \/ Quiet \/ PollInterval \/ Stop => blind' = blind
        BY Zenon DEF TakeChange, Quiet, PollInterval, Stop
      <4>6. Callback \/ Signal \/ UNCHANGED vars => blind' = blind
        BY DEF Callback, Signal, vars
      <4>7. Worker => blind' = blind
        BY <2>2, <4>2, <4>3, <4>4, <4>5, Zenon DEF Worker
      <4> QED BY <4>1, <4>6, <4>7 DEF Next
    <3> QED BY <3>1 DEF Watches
  <2> QED BY <2>1, <2>f, <2>2
\* Everything that exists stays covered.
<1>c. ASSUME backend' = "inotify" PROVE \A x \in present' : Covered(x)'
  <2> SUFFICES ASSUME NEW x \in present' PROVE Covered(x)'
    OBVIOUS
  <2> USE <1>c
  <2>0. x \in Dirs /\ Types'
    BY TypesNext DEF Types, TypeOK
  <2>1. ASSUME NEW d \in Dirs, TouchFile(d) PROVE Covered(x)'
    <3>1. backend = "inotify" /\ x \in present /\ watching' = watching
      BY <2>1 DEF TouchFile, Edit
    <3>2. UNCHANGED <<toWatch, toList, blind>> /\ queue \subseteq queue'
      BY <2>1 DEF TouchFile, Edit, Notify
    <3> QED BY <3>1, <3>2, CoveredKeeps DEF Watches
  <2>2. ASSUME NEW d \in Dirs \ {Root}, NEW S \in SUBSET Below({d}), AddTree(d, S)
        PROVE  Covered(x)'
    <3>1. /\ backend = "inotify" /\ watching' = watching
          /\ UNCHANGED <<toWatch, toList, blind>> /\ queue \subseteq queue'
          /\ present' = present \cup S /\ d \notin present
      BY <2>2 DEF AddTree, Edit, Notify
    <3>2. CASE x \in present
      BY <3>1, <3>2, CoveredKeeps DEF Watches
    <3>3. CASE x = d
      <4>1. Parent[d] \in watching => <<"newdir", d>> \in queue'
        BY <2>2, <3>1 DEF AddTree, Notify
      <4> QED BY <4>1, <3>1, <3>3 DEF Covered
    <3>4. CASE x \in S \ {d}
      <4>1. Parent[x] \in S
        BY <2>2, <3>4 DEF AddTree
      <4>2. Parent[x] \notin present
        <5>1. Rooted(present) /\ present \in SUBSET Dirs /\ d \in Dirs \ present
          BY <3>1 DEF Types, TypeOK
        <5>2. Parent[x] \in BelowOf[d]
          BY <4>1 DEF Below
        <5> QED BY <5>1, <5>2, BelowAbsent
      <4>3. Parent[x] \notin watching'
        BY <4>2, <3>1 DEF Types, TypeOK
      <4>4. x \notin present
        <5>1. Rooted(present) /\ present \in SUBSET Dirs /\ d \in Dirs \ present
          BY <3>1 DEF Types, TypeOK
        <5>2. x \in BelowOf[d]
          BY <3>4 DEF Below
        <5> QED BY <5>1, <5>2, BelowAbsent
      <4>5. x # Root
        BY <4>4 DEF Types, TypeOK
      <4> QED BY <4>3, <4>5 DEF Covered
    <3> QED BY <3>1, <3>2, <3>3, <3>4
  <2>3. ASSUME NEW d \in Dirs \ {Root}, RemoveDir(d) PROVE Covered(x)'
    <3>1. /\ backend = "inotify" /\ watching' = watching \ {d}
          /\ UNCHANGED <<toWatch, toList, blind>> /\ queue \subseteq queue'
          /\ x \in present /\ x # d
      BY <2>3 DEF RemoveDir, Edit, Notify
    <3>2. Covered(x)
      BY <3>1 DEF Watches
    <3> QED BY <3>1, <3>2 DEF Covered
  <2>4. ASSUME NEW d \in Dirs, ScanDir(d) \/ ImportFails(d) \/ ScanBreaksOff(d)
        PROVE  Covered(x)'
    <3>1. UNCHANGED <<backend, present, watching, toWatch, toList, blind, queue>>
      BY <2>4 DEF ScanDir, ImportFails, ScanBreaksOff
    <3> QED BY <3>1, CoveredKeeps DEF Watches
  <2>5. CASE EndScan
    <3>1. UNCHANGED <<present, watching, toList, blind, queue>>
      BY <2>5 DEF EndScan
    <3>2. CASE backend = "none"
      <4>1. watching = {} /\ Root \in toWatch'
        BY <2>5, <3>2, <1>w DEF EndScan, WalkOver
      <4> QED BY <4>1, <3>1 DEF Covered
    <3>3. CASE backend # "none"
      <4>1. backend = "inotify" /\ toWatch' = toWatch
        BY <2>5, <3>3 DEF EndScan
      <4> QED BY <4>1, <3>1, CoveredKeeps DEF Watches
    <3> QED BY <3>2, <3>3
  <2>6. ASSUME NEW d \in Dirs, AddWatch(d) PROVE Covered(x)'
    <3>1. /\ UNCHANGED <<backend, present, blind, queue>>
          /\ watching' = watching \cup ({d} \cap present)
          /\ toWatch' = toWatch \ {d} /\ toList' = toList \cup {d}
      BY <2>6 DEF AddWatch
    <3>2. Covered(x)
      BY <3>1 DEF Watches
    <3> QED BY <3>1, <3>2 DEF Covered
  <2>6f. ASSUME NEW d \in Dirs, AddWatchFails(d) PROVE Covered(x)'
    <3>1. /\ UNCHANGED <<backend, present, watching, queue>>
          /\ toWatch' = toWatch \ {d} /\ toList' = toList \cup {d}
          /\ blind' = blind \cup BelowOf[d]
      BY <2>6f DEF AddWatchFails, Below
    <3>2. Covered(x) /\ d \in blind'
      BY <3>1, BelowSelf DEF Watches
    <3> QED BY <3>1, <3>2 DEF Covered
  <2>7. ASSUME NEW d \in Dirs, ListDir(d) PROVE Covered(x)'
    <3>1. /\ UNCHANGED <<backend, present, blind, queue, watching>>
          /\ toWatch' = toWatch \cup (ChildrenOf(d) \cap present)
          /\ toList' = toList \ {d}
      BY <2>7 DEF ListDir
    <3>2. Covered(x)
      BY <3>1 DEF Watches
    <3>3. x # Root /\ Parent[x] = d => x \in toWatch'
      BY <3>1, <2>0 DEF ChildrenOf
    <3> QED BY <3>1, <3>2, <3>3 DEF Covered
  <2>8. ASSUME NEW d \in Dirs, WalkBreaksOff(d) PROVE Covered(x)'
    <3> DEFINE S == (toWatch \cup toList) \ {d}
    <3>1. /\ UNCHANGED <<backend, present, queue, watching>>
          /\ toWatch' = {} /\ toList' = {} /\ blind' = blind \cup Below(S) /\ d \notin present
      BY <2>8 DEF WalkBreaksOff
    <3>2. Covered(x)
      BY <3>1 DEF Watches
    <3>3. x \in present /\ (x # Root => Parent[x] \in present)
      BY <3>1 DEF Types, Rooted
    <3>4. S \subseteq Dirs
      BY DEF Types, TypeOK
    <3>5. CASE x \in toWatch
      <4>1. x \in S
        BY <3>1, <3>3, <3>5
      <4>2. x \in Below(S)
        BY <4>1, <3>4, BelowSelf DEF Below
      <4> QED BY <4>2, <3>1 DEF Covered
    <3>6. CASE x # Root /\ Parent[x] \in toList
      <4>1. Parent[x] \in S
        BY <3>1, <3>3, <3>6
      <4>2. x \in BelowOf[Parent[x]]
        BY <4>1, <3>4, <2>0, <3>6, BelowSelf, BelowClosed
      <4> QED BY <4>1, <4>2, <3>1 DEF Covered, Below
    <3> QED BY <3>1, <3>2, <3>5, <3>6 DEF Covered
  <2>9. ASSUME NEW e \in queue, ReadEvent(e) PROVE Covered(x)'
    <3>1. /\ UNCHANGED <<backend, present, watching, toList, blind>>
          /\ queue' = queue \ {e} /\ toWatch = {}
          /\ e = <<"newdir", x>> => x \in toWatch'
      BY <2>9 DEF ReadEvent
    <3>2. Covered(x)
      BY <3>1 DEF Watches
    <3> QED BY <3>1, <3>2 DEF Covered
  <2>10. CASE \/ WatcherReady \/ WaitForChange \/ EndDrain \/ TakeChange \/ Quiet
              \/ PollInterval \/ Stop \/ Signal \/ UNCHANGED vars
    <3>1. UNCHANGED <<backend, present, watching, toWatch, toList, blind, queue>>
      BY <2>10, Zenon DEF WatcherReady, WaitForChange, EndDrain, TakeChange, Quiet,
                          PollInterval, Stop, Signal, vars
    <3> QED BY <3>1, CoveredKeeps DEF Watches
  <2>11. CASE Callback
    BY <2>11 DEF Callback
  <2>12. ChangeTree => Covered(x)'
    BY <2>1, <2>2, <2>3, Zenon DEF ChangeTree
  <2>13. Worker => Covered(x)'
    BY <2>4, <2>5, <2>6, <2>6f, <2>7, <2>8, <2>9, <2>10, Zenon DEF Worker
  <2> QED BY <2>10, <2>11, <2>12, <2>13 DEF Next
<1> QED BY <1>w, <1>b, <1>c DEF Watches

\* What the watches come to once no walk is going on and no event is pending.
LEMMA AllWatched ==
  ASSUME Types, Watches, backend = "inotify", queue = {}, pc \notin {"build", "drain"}
  PROVE  present \subseteq watching \cup blind
<1> DEFINE Bad == present \ (watching \cup blind)
<1> SUFFICES ASSUME Bad # {} PROVE FALSE
  OBVIOUS
<1>0. toWatch = {} /\ toList = {} /\ present \subseteq Dirs /\ Rooted(present)
  BY DEF Watches, WalkOver, Types, TypeOK
<1>1. Root \notin Bad
  BY <1>0 DEF Covered, Watches
<1>2. Bad \in (SUBSET (Dirs \ {Root})) \ {{}}
  BY <1>0, <1>1
<1>3. PICK d \in Bad : Parent[d] \notin Bad
  <2> HIDE DEF Bad
  <2> QED BY <1>2, TreeAssumption
<1>4. d \in Dirs \ {Root} /\ Parent[d] \in present
  BY <1>0, <1>1 DEF Rooted
<1>5. Parent[d] \in watching \cup blind
  BY <1>3, <1>4
<1>6. Parent[d] \notin watching
  BY <1>0, <1>3 DEF Covered, Watches
<1>7. d \in blind
  BY <1>4, <1>5, <1>6 DEF Watches
<1> QED BY <1>7

\* When the inotify worker is idle, whatever exists is watched, was left out by a
\* walk that broke off, or lies below a directory the kernel would not watch.
THEOREM EveryDirIsWatched == Spec => []EveryDirWatched
<1>1. Types /\ Watches => EveryDirWatched
  BY AllWatched DEF EveryDirWatched, Idle
<1> QED BY TypesInit, TypesNext, WatchesInit, WatchesNext, <1>1, PTL DEF Spec

-----------------------------------------------------------------------------
(* Changes.                                                                *)

\* Nothing is pending that would start a pass.
Settled ==
  \/ backend = "inotify" /\ blind = {} /\ queue = {}
  \/ backend = "fsevents" /\ queue = {} /\ ~ changed

\* What is out of date was so when the watcher was ready or when its import
\* failed, or lies where the pass under way has yet to go.
Ahead ==
  /\ pc = "wait" => OutOfDate \subseteq missed
  /\ pc = "scan" => toScan \subseteq present /\ OutOfDate \subseteq missed \cup Below(toScan)

Caught == Settled => Ahead

Inv == Types /\ Watches /\ Caught

LEMMA CaughtInit == Init => Caught
BY DEF Init, Caught, Settled

\* With nothing pending and no walk under way, a change to the tree is noticed.
LEMMA ChangesAreNoticed ==
  ASSUME Types, Watches, ChangeTree, pc \in {"wait", "scan"}
  PROVE  ~ Settled'
<1> SUFFICES ASSUME Settled' PROVE FALSE
  OBVIOUS
<1> USE TreeAssumption
<1>1. queue = {} /\ queue' = {} /\ UNCHANGED <<backend, blind, pc>>
  BY ChangeTreeKeeps DEF Settled
<1>2. backend \in {"inotify", "fsevents"}
  BY <1>1 DEF Settled
<1>3. backend = "inotify" => present \subseteq watching
  BY <1>1, AllWatched DEF Settled
<1>4. ASSUME NEW d \in present, NEW event, Notify(d, event) PROVE FALSE
  BY <1>1, <1>2, <1>3, <1>4 DEF Notify
<1>5. ASSUME NEW d \in Dirs, TouchFile(d) PROVE FALSE
  BY <1>5, <1>4 DEF TouchFile
<1>6. ASSUME NEW d \in Dirs \ {Root}, NEW S \in SUBSET Below({d}), AddTree(d, S) PROVE FALSE
  BY <1>6, <1>4 DEF AddTree
<1>7. ASSUME NEW d \in Dirs \ {Root}, RemoveDir(d) PROVE FALSE
  <2>1. Parent[d] \in present
    BY <1>7 DEF RemoveDir, Types, Rooted
  <2> QED BY <1>7, <2>1, <1>4 DEF RemoveDir
<1> QED BY <1>5, <1>6, <1>7, Zenon DEF ChangeTree

LEMMA CaughtNext == Inv /\ [Next]_vars => Caught'
<1> SUFFICES ASSUME Types, Watches, Caught, [Next]_vars, Settled'
             PROVE  Ahead'
  BY DEF Inv, Caught
<1> USE DEF tree, walk, conf, hist
<1>t. Types'
  BY TypesNext
\* The passes that start, start from the root.
<1>r. pc' = "scan" /\ toScan' = {Root} => Ahead'
  <2> SUFFICES ASSUME pc' = "scan", toScan' = {Root} PROVE Ahead'
    OBVIOUS
  <2>1. toScan' \subseteq present'
    BY <1>t DEF Types, TypeOK
  <2>2. Below(toScan)' = Dirs
    BY BelowTheRoot DEF Below
  <2>3. OutOfDate' \subseteq Dirs
    BY <1>t DEF Types, TypeOK, OutOfDate
  <2> QED BY <2>1, <2>2, <2>3 DEF Ahead
<1>1. CASE ChangeTree
  <2>1. pc' = pc
    BY <1>1, ChangeTreeKeeps
  <2>2. pc \notin {"wait", "scan"}
    BY <1>1, ChangesAreNoticed
  <2> QED BY <2>1, <2>2 DEF Ahead
\* A visit leaves d up to date or missed.
<1>2. ASSUME NEW d \in Dirs, ScanDir(d) \/ ImportFails(d) PROVE Ahead'
  <2>1. /\ UNCHANGED <<present, content, backend, blind, queue, changed>>
        /\ pc = "scan" /\ pc' = "scan" /\ d \in toScan /\ d \in present
        /\ toScan' = (toScan \ {d}) \cup (ChildrenOf(d) \cap present)
    BY <1>2 DEF ScanDir, ImportFails, OutOfDate
  <2>2. Settled
    BY <2>1 DEF Settled
  <2>3. toScan \subseteq present /\ OutOfDate \subseteq missed \cup Below(toScan)
    BY <2>1, <2>2 DEF Caught, Ahead
  <2>4. OutOfDate' \subseteq OutOfDate
    <3>1. CASE ScanDir(d)
      BY <3>1, <2>1 DEF ScanDir, OutOfDate, Types, TypeOK
    <3>2. CASE ImportFails(d)
      BY <3>2, <2>1 DEF ImportFails, OutOfDate
    <3> QED BY <1>2, <3>1, <3>2
  <2>4d. (d \in OutOfDate' => d \in missed') /\ missed \ {d} \subseteq missed'
    <3>1. CASE ScanDir(d)
      BY <3>1, <2>1 DEF ScanDir, OutOfDate, Types, TypeOK
    <3>2. CASE ImportFails(d)
      BY <3>2 DEF ImportFails
    <3> QED BY <1>2, <3>1, <3>2
  <2>5. ASSUME NEW c \in OutOfDate', c \notin missed' PROVE c \in Below(toScan)'
    <3>0. c # d /\ c \in OutOfDate /\ c \notin missed
      BY <2>4, <2>4d, <2>5
    <3>1. PICK x \in toScan : c \in BelowOf[x]
      BY <2>3, <3>0 DEF Below
    <3>2. CASE x # d
      BY <3>1, <3>2, <2>1 DEF Below
    <3>3. CASE x = d
      <4>1. c # x /\ c \in present
        BY <3>0, <3>3 DEF OutOfDate
      <4>2. PICK k \in ChildrenOf(d) : c \in BelowOf[k]
        BY <3>1, <3>3, <4>1, BelowUnfolds
      <4>3. present \in SUBSET Dirs /\ Rooted(present) /\ k \in Dirs
        BY DEF Types, TypeOK, ChildrenOf
      <4>4. k \in present
        BY <4>1, <4>2, <4>3, BelowAbsent
      <4> QED BY <4>2, <4>4, <2>1 DEF Below
    <3> QED BY <3>2, <3>3
  <2>6. toScan' \subseteq present'
    BY <2>1, <2>3
  <2> QED BY <2>1, <2>5, <2>6 DEF Ahead
<1>3. ASSUME NEW d \in Dirs, ScanBreaksOff(d) PROVE Ahead'
  <2>1. /\ UNCHANGED <<backend, blind, queue, changed>>
        /\ pc = "scan" /\ d \in toScan /\ d \notin present
    BY <1>3 DEF ScanBreaksOff
  <2> QED BY <2>1 DEF Settled, Caught, Ahead
<1>4. CASE EndScan
  <2>1. /\ UNCHANGED <<present, content, catalog, queue, changed, blind>>
        /\ pc = "scan" /\ toScan = {} /\ pc' # "scan"
    BY <1>4 DEF EndScan
  <2>2. OutOfDate' = OutOfDate
    BY <2>1 DEF OutOfDate
  <2>3. CASE backend # "none"
    <3>1. UNCHANGED <<backend, missed>>
      BY <1>4, <2>3 DEF EndScan
    <3>2. Settled
      BY <2>1, <3>1 DEF Settled
    <3>3. OutOfDate \subseteq missed
      BY <2>1, <3>2 DEF Caught, Ahead, Below
    <3> QED BY <2>1, <2>2, <3>1, <3>3 DEF Ahead
  <2>4. CASE backend = "none"
    BY <1>4, <2>1, <2>2, <2>4 DEF EndScan, Settled, Ahead
  <2> QED BY <2>3, <2>4
<1>5. ASSUME NEW d \in Dirs,
             AddWatch(d) \/ AddWatchFails(d) \/ ListDir(d) \/ WalkBreaksOff(d)
      PROVE  Ahead'
  BY <1>5 DEF AddWatch, AddWatchFails, ListDir, WalkBreaksOff, Ahead
<1>6. CASE WatcherReady
  BY <1>6 DEF WatcherReady, OutOfDate, Ahead
<1>7. CASE WaitForChange
  BY <1>7 DEF WaitForChange, Ahead
<1>8. ASSUME NEW e \in queue, ReadEvent(e) PROVE Ahead'
  BY <1>8 DEF ReadEvent, Ahead
<1>9. CASE EndDrain \/ Quiet \/ PollInterval \/ TakeChange
  <2>1. EndDrain => pc' = "debounce" \/ (pc' = "scan" /\ toScan' = {Root})
    BY DEF EndDrain
  <2>2. Quiet \/ PollInterval => pc' = "scan" /\ toScan' = {Root}
    BY DEF Quiet, PollInterval
  <2>3. TakeChange => pc' = "debounce" \/ (pc' = "scan" /\ toScan' = {Root})
    BY DEF TakeChange
  <2> QED BY <2>1, <2>2, <2>3, <1>9, <1>r DEF Ahead
<1>10. CASE Stop
  BY <1>10 DEF Stop, Ahead
<1>11. CASE Callback
  BY <1>11 DEF Callback, Settled, Watches, WalkOver, Ahead
<1>12. CASE Signal \/ UNCHANGED vars
  <2>1. UNCHANGED <<present, content, catalog, backend, blind, queue, changed, missed, pc, toScan>>
    BY <1>12, Zenon DEF Signal, vars
  <2>2. Settled /\ OutOfDate' = OutOfDate /\ Below(toScan)' = Below(toScan)
    BY <2>1 DEF Settled, OutOfDate, Below
  <2> QED BY <2>1, <2>2 DEF Caught, Ahead
<1>13. Worker => Ahead'
  BY <1>2, <1>3, <1>4, <1>5, <1>6, <1>7, <1>8, <1>9, <1>10, Zenon DEF Worker
<1> QED BY <1>1, <1>11, <1>12, <1>13 DEF Next

LEMMA Invariance == Spec => []Inv
<1>1. Init => Inv
  BY TypesInit, WatchesInit, CaughtInit DEF Inv
<1>2. Inv /\ [Next]_vars => Inv'
  BY TypesNext, WatchesNext, CaughtNext DEF Inv
<1> QED BY <1>1, <1>2, PTL DEF Spec

\* When an inotify or FSEvents worker waits, nothing is pending and no directory is
\* unwatched, the catalog has everything as it is on disk, except what was out of
\* date when the watcher was ready, or when its import failed, and has not been
\* imported since.
THEOREM NothingIsMissed == Spec => []NothingMissed
<1>1. Inv => NothingMissed
  BY DEF Inv, Caught, Ahead, Settled, NothingMissed, Idle
<1> QED BY Invariance, <1>1, PTL
=============================================================================
