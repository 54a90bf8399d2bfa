--------------------------- MODULE SegmenterProofs ---------------------------
(***************************************************************************)
(* Proofs about Segmenter, for any number of threads, renditions, segments *)
(* and slots.                                                              *)
(***************************************************************************)
EXTENDS Segmenter, FiniteSetTheorems, TLAPS

\* Where a thread is in ensure_segments, it has a request and a handle.
Shape ==
  \A t \in Threads :
    /\ pc[t] \in {"fast", "touch", "lookup", "trylock", "recheck", "source"}
                   \cup SegmentingPcs => req[t] \in Renditions
    /\ pc[t] \in {"trylock", "recheck", "source"} \cup SegmentingPcs
         => handle[t] \in Mutexes
    /\ handle[t] # None
         => req[t] \in Renditions /\ pc[t] \in {"trylock"} \cup LockedPcs
    /\ pc[t] \in {"grab", "remove", "removing"} <=> grab[t] # None
    /\ pc[t] \in {"remove", "removing"} => handle[t] # grab[t]

LEMMA NoneIsNothing == None \notin Threads \cup Renditions \cup Mutexes
  BY NoneAssumption DEF Mutexes


\* TypeOK but for the upper bound of slots, which needs SlotsConserved, and the
\* lower bound of total, which needs TotalsCover.
Types ==
  /\ cache \in [Renditions -> SUBSET Files]
  /\ part \in [Renditions -> SUBSET Files]
  /\ used \in [Renditions -> Nat]
  /\ registry \in [Renditions -> Mutexes \cup {None}]
  /\ owner \in [Mutexes -> Threads \cup {None}]
  /\ slots \in Nat
  /\ pc \in [Threads -> Pcs]
  /\ req \in [Threads -> Renditions \cup {None}]
  /\ handle \in [Threads -> Mutexes \cup {None}]
  /\ wrote \in [Threads -> SUBSET Segs]
  /\ entries \in [Threads -> SUBSET Entry]
  /\ total \in [Threads -> Int]
  /\ grab \in [Threads -> Mutexes \cup {None}]
  /\ answer \in [Threads -> {"none", "ok", "busy", "failed"}]

LEMMA CountIsNat == Count \in Nat /\ Count > 0
  BY FiniteAssumption, FS_CardinalityType, FS_EmptySet DEF Count

LEMMA BytesAreNat ==
  ASSUME TypeOK
  PROVE  /\ CacheBytes \in Nat
         /\ \A r \in Renditions : Bytes(cache[r]) \in Nat
<1>1. IsFiniteSet(Renditions \X Segs)
  BY FiniteAssumption, FS_Product
<1>2. CacheBytes \in Nat
  BY <1>1, FS_Subset, FS_CardinalityType DEF CacheBytes
<1>3. ASSUME NEW r \in Renditions PROVE Bytes(cache[r]) \in Nat
  BY FiniteAssumption, FS_Subset, FS_CardinalityType, cache[r] \cap Segs \subseteq Segs
     DEF Bytes
<1> QED
  BY <1>2, <1>3

\* A touched rank is still a rank.
LEMMA TouchedIsRank ==
  ASSUME TypeOK, NEW r \in Renditions
  PROVE  TouchedRank(r) \in [Renditions -> Nat]
  BY CountIsNat DEF TypeOK, TouchedRank

LEMMA ShapeStep ==
  ASSUME TypeOK, Shape, LocksOwned, Next
  PROVE  Shape'
<1> USE NoneIsNothing DEF TypeOK, Shape, LocksOwned, Locked, LockedPcs, SegmentingPcs,
      disk, locks, local, sweep
<1>1. ASSUME NEW t \in Threads, FastPath(t) PROVE Shape'
  BY <1>1 DEF FastPath, Goto
<1>2. ASSUME NEW t \in Threads, Touch(t) PROVE Shape'
  BY <1>2 DEF Touch, Return, Goto
<1>3. ASSUME NEW t \in Threads, Lookup(t) PROVE Shape'
  BY <1>3 DEF Lookup, Goto, MutexFor
<1>4. ASSUME NEW t \in Threads, TryLock(t) PROVE Shape'
  BY <1>4 DEF TryLock, Goto
<1>5. ASSUME NEW t \in Threads, TryLockBusy(t) PROVE Shape'
  BY <1>5 DEF TryLockBusy, Return, Goto
<1>6. ASSUME NEW t \in Threads, RecheckComplete(t) PROVE Shape'
  BY <1>6 DEF RecheckComplete, Return, Goto, Unlock
<1>7. ASSUME NEW t \in Threads, RecheckIncomplete(t) PROVE Shape'
  BY <1>7 DEF RecheckIncomplete, Goto
<1>8. ASSUME NEW t \in Threads, SourceMissing(t) PROVE Shape'
  BY <1>8 DEF SourceMissing, Return, Goto, Unlock
<1>9. ASSUME NEW t \in Threads, NoSlot(t) PROVE Shape'
  BY <1>9 DEF NoSlot, Return, Goto, Unlock
<1>10. ASSUME NEW t \in Threads, TakeSlot(t) PROVE Shape'
  BY <1>10 DEF TakeSlot, Goto
<1>11. ASSUME NEW t \in Threads, StartFfmpeg(t) PROVE Shape'
  BY <1>11 DEF StartFfmpeg, Goto
<1>12. ASSUME NEW t \in Threads, CannotCreatePart(t) PROVE Shape'
  BY <1>12 DEF CannotCreatePart, Return, Goto, ReleaseAll, Unlock
<1>13. ASSUME NEW t \in Threads, WriteSegment(t) PROVE Shape'
  BY <1>13 DEF WriteSegment
<1>14. ASSUME NEW t \in Threads, FinishFfmpeg(t) PROVE Shape'
  BY <1>14 DEF FinishFfmpeg, Goto
<1>15. ASSUME NEW t \in Threads, FfmpegFails(t) PROVE Shape'
  BY <1>15 DEF FfmpegFails, Goto
<1>16. ASSUME NEW t \in Threads, CheckPart(t) PROVE Shape'
  BY <1>16 DEF CheckPart, Goto
<1>17. ASSUME NEW t \in Threads, RemoveOld(t) PROVE Shape'
  BY <1>17 DEF RemoveOld, Goto
<1>18. ASSUME NEW t \in Threads, Publish(t) PROVE Shape'
  BY <1>18 DEF Publish, Goto
<1>19. ASSUME NEW t \in Threads, RenameFails(t) PROVE Shape'
  BY <1>19 DEF RenameFails, Goto
<1>20. ASSUME NEW t \in Threads, Fail(t) PROVE Shape'
  BY <1>20 DEF Fail, Return, Goto, ReleaseAll, Unlock
<1>21. ASSUME NEW t \in Threads, NoSweep(t) PROVE Shape'
  BY <1>21 DEF NoSweep, EndSweep, Return, Goto, ReleaseAll, Unlock
<1>22. ASSUME NEW t \in Threads, Scan(t) PROVE Shape'
  BY <1>22 DEF Scan, Goto
<1>23. ASSUME NEW t \in Threads, EvictDone(t) PROVE Shape'
  BY <1>23 DEF EvictDone, EndSweep, Return, Goto, ReleaseAll, Unlock
<1>24. ASSUME NEW t \in Threads, EvictKeep(t) PROVE Shape'
  BY <1>24 DEF EvictKeep, Skip
<1>25. ASSUME NEW t \in Threads, EvictLookup(t) PROVE Shape'
  BY <1>25 DEF EvictLookup, Goto, MutexFor
<1>26. ASSUME NEW t \in Threads, EvictTryLock(t) PROVE Shape'
  BY <1>26 DEF EvictTryLock, Goto
<1>27. ASSUME NEW t \in Threads, EvictBusy(t) PROVE Shape'
  BY <1>27 DEF EvictBusy, Goto, Skip
<1>28. ASSUME NEW t \in Threads, EvictBegin(t) PROVE Shape'
  BY <1>28 DEF EvictBegin, Goto
<1>29. ASSUME NEW t \in Threads, EvictEnd(t) PROVE Shape'
  BY <1>29 DEF EvictEnd, Goto, Skip, EvictUnlock, ForgetMutex
<1>30. ASSUME NEW t \in Threads, EvictFails(t) PROVE Shape'
  BY <1>30 DEF EvictFails, Goto, Skip, EvictUnlock
<1>31. ASSUME NEW t \in Threads, Reply(t) PROVE Shape'
  BY <1>31 DEF Reply, Goto
<1>32. ASSUME NEW t \in Threads, NEW r \in Renditions, Request(t, r) PROVE Shape'
  BY <1>32 DEF Request, Goto
<1>33. ASSUME NEW t \in Threads, ForceSweep(t) PROVE Shape'
  BY <1>33 DEF ForceSweep, Goto
<1>34. CASE Crash
  BY <1>34 DEF Crash
<1> QED
  BY <1>1, <1>2, <1>3, <1>4, <1>5, <1>6, <1>7, <1>8, <1>9, <1>10, <1>11, <1>12, <1>13, <1>14, <1>15, <1>16, <1>17, <1>18, <1>19, <1>20, <1>21, <1>22, <1>23, <1>24, <1>25, <1>26, <1>27, <1>28, <1>29, <1>30, <1>31, <1>32, <1>33, <1>34 DEF Next, Step, Find, Segment, Evict

LEMMA TypesStep ==
  ASSUME TypeOK, Shape, Next
  PROVE  Types'
<1> USE NoneIsNothing DEF TypeOK, Types, Shape, Pcs, LockedPcs, SegmentingPcs, Files,
      disk, locks, local, sweep
<1>1. ASSUME NEW t \in Threads, FastPath(t) PROVE Types'
  BY <1>1 DEF FastPath, Goto
<1>2. ASSUME NEW t \in Threads, Touch(t) PROVE Types'
  BY <1>2, TouchedIsRank DEF Touch, Return, Goto
<1>3. ASSUME NEW t \in Threads, Lookup(t) PROVE Types'
  BY <1>3 DEF Lookup, Goto, MutexFor
<1>4. ASSUME NEW t \in Threads, TryLock(t) PROVE Types'
  BY <1>4 DEF TryLock, Goto
<1>5. ASSUME NEW t \in Threads, TryLockBusy(t) PROVE Types'
  BY <1>5 DEF TryLockBusy, Return, Goto
<1>6. ASSUME NEW t \in Threads, RecheckComplete(t) PROVE Types'
  BY <1>6 DEF RecheckComplete, Return, Goto, Unlock
<1>7. ASSUME NEW t \in Threads, RecheckIncomplete(t) PROVE Types'
  BY <1>7 DEF RecheckIncomplete, Goto
<1>8. ASSUME NEW t \in Threads, SourceMissing(t) PROVE Types'
  BY <1>8 DEF SourceMissing, Return, Goto, Unlock
<1>9. ASSUME NEW t \in Threads, NoSlot(t) PROVE Types'
  BY <1>9 DEF NoSlot, Return, Goto, Unlock
<1>10. ASSUME NEW t \in Threads, TakeSlot(t) PROVE Types'
  BY <1>10 DEF TakeSlot, Goto
<1>11. ASSUME NEW t \in Threads, StartFfmpeg(t) PROVE Types'
  BY <1>11 DEF StartFfmpeg, Goto
<1>12. ASSUME NEW t \in Threads, CannotCreatePart(t) PROVE Types'
  BY <1>12 DEF CannotCreatePart, Return, Goto, ReleaseAll, Unlock
<1>13. ASSUME NEW t \in Threads, WriteSegment(t) PROVE Types'
  BY <1>13 DEF WriteSegment
<1>14. ASSUME NEW t \in Threads, FinishFfmpeg(t) PROVE Types'
  BY <1>14, TouchedIsRank DEF FinishFfmpeg, Goto
<1>15. ASSUME NEW t \in Threads, FfmpegFails(t) PROVE Types'
  BY <1>15 DEF FfmpegFails, Goto
<1>16. ASSUME NEW t \in Threads, CheckPart(t) PROVE Types'
  BY <1>16 DEF CheckPart, Goto
<1>17. ASSUME NEW t \in Threads, RemoveOld(t) PROVE Types'
  BY <1>17 DEF RemoveOld, Goto
<1>18. ASSUME NEW t \in Threads, Publish(t) PROVE Types'
  BY <1>18 DEF Publish, Goto
<1>19. ASSUME NEW t \in Threads, RenameFails(t) PROVE Types'
  BY <1>19 DEF RenameFails, Goto
<1>20. ASSUME NEW t \in Threads, Fail(t) PROVE Types'
  BY <1>20 DEF Fail, Return, Goto, ReleaseAll, Unlock
<1>21. ASSUME NEW t \in Threads, NoSweep(t) PROVE Types'
  BY <1>21 DEF NoSweep, EndSweep, Return, Goto, ReleaseAll, Unlock
<1>22. ASSUME NEW t \in Threads, Scan(t) PROVE Types'
  BY <1>22, BytesAreNat DEF Scan, Goto, Entry
<1>23. ASSUME NEW t \in Threads, EvictDone(t) PROVE Types'
  BY <1>23 DEF EvictDone, EndSweep, Return, Goto, ReleaseAll, Unlock
<1>24. ASSUME NEW t \in Threads, EvictKeep(t) PROVE Types'
  BY <1>24 DEF EvictKeep, Skip
<1>25. ASSUME NEW t \in Threads, EvictLookup(t) PROVE Types'
  BY <1>25 DEF EvictLookup, Goto, MutexFor
<1>26. ASSUME NEW t \in Threads, EvictTryLock(t) PROVE Types'
  BY <1>26 DEF EvictTryLock, Goto
<1>27. ASSUME NEW t \in Threads, EvictBusy(t) PROVE Types'
  BY <1>27 DEF EvictBusy, Goto, Skip
<1>28. ASSUME NEW t \in Threads, EvictBegin(t) PROVE Types'
  BY <1>28 DEF EvictBegin, Goto, Entry
<1>29. ASSUME NEW t \in Threads, EvictEnd(t) PROVE Types'
  BY <1>29 DEF EvictEnd, Goto, Skip, EvictUnlock, ForgetMutex, Entry
<1>30. ASSUME NEW t \in Threads, EvictFails(t) PROVE Types'
  BY <1>30 DEF EvictFails, Goto, Skip, EvictUnlock
<1>31. ASSUME NEW t \in Threads, Reply(t) PROVE Types'
  BY <1>31 DEF Reply, Goto
<1>32. ASSUME NEW t \in Threads, NEW r \in Renditions, Request(t, r) PROVE Types'
  BY <1>32 DEF Request, Goto
<1>33. ASSUME NEW t \in Threads, ForceSweep(t) PROVE Types'
  BY <1>33 DEF ForceSweep, Goto
<1>34. CASE Crash
  BY <1>34, SlotsAssumption DEF Crash
<1> QED
  BY <1>1, <1>2, <1>3, <1>4, <1>5, <1>6, <1>7, <1>8, <1>9, <1>10, <1>11, <1>12, <1>13, <1>14, <1>15, <1>16, <1>17, <1>18, <1>19, <1>20, <1>21, <1>22, <1>23, <1>24, <1>25, <1>26, <1>27, <1>28, <1>29, <1>30, <1>31, <1>32, <1>33, <1>34 DEF Next, Step, Find, Segment, Evict

LEMMA LocksStep ==
  ASSUME TypeOK, Shape, LocksOwned, Next
  PROVE  LocksOwned'
<1> USE NoneIsNothing DEF TypeOK, Shape, LocksOwned, Locked, LockedPcs, SegmentingPcs,
      disk, locks, local, sweep
<1>1. ASSUME NEW t \in Threads, FastPath(t) PROVE LocksOwned'
  BY <1>1 DEF FastPath, Goto
<1>2. ASSUME NEW t \in Threads, Touch(t) PROVE LocksOwned'
  BY <1>2 DEF Touch, Return, Goto
<1>3. ASSUME NEW t \in Threads, Lookup(t) PROVE LocksOwned'
  BY <1>3 DEF Lookup, Goto, MutexFor
<1>4. ASSUME NEW t \in Threads, TryLock(t) PROVE LocksOwned'
  BY <1>4 DEF TryLock, Goto
<1>5. ASSUME NEW t \in Threads, TryLockBusy(t) PROVE LocksOwned'
  BY <1>5 DEF TryLockBusy, Return, Goto
<1>6. ASSUME NEW t \in Threads, RecheckComplete(t) PROVE LocksOwned'
  BY <1>6 DEF RecheckComplete, Return, Goto, Unlock
<1>7. ASSUME NEW t \in Threads, RecheckIncomplete(t) PROVE LocksOwned'
  BY <1>7 DEF RecheckIncomplete, Goto
<1>8. ASSUME NEW t \in Threads, SourceMissing(t) PROVE LocksOwned'
  BY <1>8 DEF SourceMissing, Return, Goto, Unlock
<1>9. ASSUME NEW t \in Threads, NoSlot(t) PROVE LocksOwned'
  BY <1>9 DEF NoSlot, Return, Goto, Unlock
<1>10. ASSUME NEW t \in Threads, TakeSlot(t) PROVE LocksOwned'
  BY <1>10 DEF TakeSlot, Goto
<1>11. ASSUME NEW t \in Threads, StartFfmpeg(t) PROVE LocksOwned'
  BY <1>11 DEF StartFfmpeg, Goto
<1>12. ASSUME NEW t \in Threads, CannotCreatePart(t) PROVE LocksOwned'
  BY <1>12 DEF CannotCreatePart, Return, Goto, ReleaseAll, Unlock
<1>13. ASSUME NEW t \in Threads, WriteSegment(t) PROVE LocksOwned'
  BY <1>13 DEF WriteSegment
<1>14. ASSUME NEW t \in Threads, FinishFfmpeg(t) PROVE LocksOwned'
  BY <1>14 DEF FinishFfmpeg, Goto
<1>15. ASSUME NEW t \in Threads, FfmpegFails(t) PROVE LocksOwned'
  BY <1>15 DEF FfmpegFails, Goto
<1>16. ASSUME NEW t \in Threads, CheckPart(t) PROVE LocksOwned'
  BY <1>16 DEF CheckPart, Goto
<1>17. ASSUME NEW t \in Threads, RemoveOld(t) PROVE LocksOwned'
  BY <1>17 DEF RemoveOld, Goto
<1>18. ASSUME NEW t \in Threads, Publish(t) PROVE LocksOwned'
  BY <1>18 DEF Publish, Goto
<1>19. ASSUME NEW t \in Threads, RenameFails(t) PROVE LocksOwned'
  BY <1>19 DEF RenameFails, Goto
<1>20. ASSUME NEW t \in Threads, Fail(t) PROVE LocksOwned'
  BY <1>20 DEF Fail, Return, Goto, ReleaseAll, Unlock
<1>21. ASSUME NEW t \in Threads, NoSweep(t) PROVE LocksOwned'
  BY <1>21 DEF NoSweep, EndSweep, Return, Goto, ReleaseAll, Unlock
<1>22. ASSUME NEW t \in Threads, Scan(t) PROVE LocksOwned'
  BY <1>22 DEF Scan, Goto
<1>23. ASSUME NEW t \in Threads, EvictDone(t) PROVE LocksOwned'
  BY <1>23 DEF EvictDone, EndSweep, Return, Goto, ReleaseAll, Unlock
<1>24. ASSUME NEW t \in Threads, EvictKeep(t) PROVE LocksOwned'
  BY <1>24 DEF EvictKeep, Skip
<1>25. ASSUME NEW t \in Threads, EvictLookup(t) PROVE LocksOwned'
  BY <1>25 DEF EvictLookup, Goto, MutexFor
<1>26. ASSUME NEW t \in Threads, EvictTryLock(t) PROVE LocksOwned'
  BY <1>26 DEF EvictTryLock, Goto
<1>27. ASSUME NEW t \in Threads, EvictBusy(t) PROVE LocksOwned'
  BY <1>27 DEF EvictBusy, Goto, Skip
<1>28. ASSUME NEW t \in Threads, EvictBegin(t) PROVE LocksOwned'
  BY <1>28 DEF EvictBegin, Goto
<1>29. ASSUME NEW t \in Threads, EvictEnd(t) PROVE LocksOwned'
  BY <1>29 DEF EvictEnd, Goto, Skip, EvictUnlock, ForgetMutex
<1>30. ASSUME NEW t \in Threads, EvictFails(t) PROVE LocksOwned'
  BY <1>30 DEF EvictFails, Goto, Skip, EvictUnlock
<1>31. ASSUME NEW t \in Threads, Reply(t) PROVE LocksOwned'
  BY <1>31 DEF Reply, Goto
<1>32. ASSUME NEW t \in Threads, NEW r \in Renditions, Request(t, r) PROVE LocksOwned'
  BY <1>32 DEF Request, Goto
<1>33. ASSUME NEW t \in Threads, ForceSweep(t) PROVE LocksOwned'
  BY <1>33 DEF ForceSweep, Goto
<1>34. CASE Crash
  BY <1>34 DEF Crash
<1> QED
  BY <1>1, <1>2, <1>3, <1>4, <1>5, <1>6, <1>7, <1>8, <1>9, <1>10, <1>11, <1>12, <1>13, <1>14, <1>15, <1>16, <1>17, <1>18, <1>19, <1>20, <1>21, <1>22, <1>23, <1>24, <1>25, <1>26, <1>27, <1>28, <1>29, <1>30, <1>31, <1>32, <1>33, <1>34 DEF Next, Step, Find, Segment, Evict

SlottedThreads == {t \in Threads : Slotted(t)}

\* How a step moves permits: not at all, to a thread, back from it, or a restart.
PermitsMove ==
  \/ slots' = slots /\ SlottedThreads' = SlottedThreads
  \/ \E t \in Threads \ SlottedThreads :
       slots' = slots - 1 /\ SlottedThreads' = SlottedThreads \cup {t}
  \/ \E t \in SlottedThreads :
       slots' = slots + 1 /\ SlottedThreads' = SlottedThreads \ {t}
  \/ slots' = MaxTranscodes /\ SlottedThreads' = {}

LEMMA PermitsStep ==
  ASSUME TypeOK, Shape, Next
  PROVE  PermitsMove
<1> USE NoneIsNothing DEF TypeOK, Shape, PermitsMove, SlottedThreads, Slotted,
      SlottedPcs, LockedPcs, SegmentingPcs, disk, locks, local, sweep
<1>1. ASSUME NEW t \in Threads, FastPath(t) PROVE PermitsMove
  BY <1>1 DEF FastPath, Goto
<1>2. ASSUME NEW t \in Threads, Touch(t) PROVE PermitsMove
  BY <1>2 DEF Touch, Return, Goto
<1>3. ASSUME NEW t \in Threads, Lookup(t) PROVE PermitsMove
  BY <1>3 DEF Lookup, Goto, MutexFor
<1>4. ASSUME NEW t \in Threads, TryLock(t) PROVE PermitsMove
  BY <1>4 DEF TryLock, Goto
<1>5. ASSUME NEW t \in Threads, TryLockBusy(t) PROVE PermitsMove
  BY <1>5 DEF TryLockBusy, Return, Goto
<1>6. ASSUME NEW t \in Threads, RecheckComplete(t) PROVE PermitsMove
  BY <1>6 DEF RecheckComplete, Return, Goto, Unlock
<1>7. ASSUME NEW t \in Threads, RecheckIncomplete(t) PROVE PermitsMove
  BY <1>7 DEF RecheckIncomplete, Goto
<1>8. ASSUME NEW t \in Threads, SourceMissing(t) PROVE PermitsMove
  BY <1>8 DEF SourceMissing, Return, Goto, Unlock
<1>9. ASSUME NEW t \in Threads, NoSlot(t) PROVE PermitsMove
  BY <1>9 DEF NoSlot, Return, Goto, Unlock
<1>10. ASSUME NEW t \in Threads, TakeSlot(t) PROVE PermitsMove
  BY <1>10 DEF TakeSlot, Goto
<1>11. ASSUME NEW t \in Threads, StartFfmpeg(t) PROVE PermitsMove
  BY <1>11 DEF StartFfmpeg, Goto
<1>12. ASSUME NEW t \in Threads, CannotCreatePart(t) PROVE PermitsMove
  BY <1>12 DEF CannotCreatePart, Return, Goto, ReleaseAll, Unlock
<1>13. ASSUME NEW t \in Threads, WriteSegment(t) PROVE PermitsMove
  BY <1>13 DEF WriteSegment
<1>14. ASSUME NEW t \in Threads, FinishFfmpeg(t) PROVE PermitsMove
  BY <1>14 DEF FinishFfmpeg, Goto
<1>15. ASSUME NEW t \in Threads, FfmpegFails(t) PROVE PermitsMove
  BY <1>15 DEF FfmpegFails, Goto
<1>16. ASSUME NEW t \in Threads, CheckPart(t) PROVE PermitsMove
  BY <1>16 DEF CheckPart, Goto
<1>17. ASSUME NEW t \in Threads, RemoveOld(t) PROVE PermitsMove
  BY <1>17 DEF RemoveOld, Goto
<1>18. ASSUME NEW t \in Threads, Publish(t) PROVE PermitsMove
  BY <1>18 DEF Publish, Goto
<1>19. ASSUME NEW t \in Threads, RenameFails(t) PROVE PermitsMove
  BY <1>19 DEF RenameFails, Goto
<1>20. ASSUME NEW t \in Threads, Fail(t) PROVE PermitsMove
  BY <1>20 DEF Fail, Return, Goto, ReleaseAll, Unlock
<1>21. ASSUME NEW t \in Threads, NoSweep(t) PROVE PermitsMove
  BY <1>21 DEF NoSweep, EndSweep, Return, Goto, ReleaseAll, Unlock
<1>22. ASSUME NEW t \in Threads, Scan(t) PROVE PermitsMove
  BY <1>22 DEF Scan, Goto
<1>23. ASSUME NEW t \in Threads, EvictDone(t) PROVE PermitsMove
  BY <1>23 DEF EvictDone, EndSweep, Return, Goto, ReleaseAll, Unlock
<1>24. ASSUME NEW t \in Threads, EvictKeep(t) PROVE PermitsMove
  BY <1>24 DEF EvictKeep, Skip
<1>25. ASSUME NEW t \in Threads, EvictLookup(t) PROVE PermitsMove
  BY <1>25 DEF EvictLookup, Goto, MutexFor
<1>26. ASSUME NEW t \in Threads, EvictTryLock(t) PROVE PermitsMove
  BY <1>26 DEF EvictTryLock, Goto
<1>27. ASSUME NEW t \in Threads, EvictBusy(t) PROVE PermitsMove
  BY <1>27 DEF EvictBusy, Goto, Skip
<1>28. ASSUME NEW t \in Threads, EvictBegin(t) PROVE PermitsMove
  BY <1>28 DEF EvictBegin, Goto
<1>29. ASSUME NEW t \in Threads, EvictEnd(t) PROVE PermitsMove
  BY <1>29 DEF EvictEnd, Goto, Skip, EvictUnlock, ForgetMutex
<1>30. ASSUME NEW t \in Threads, EvictFails(t) PROVE PermitsMove
  BY <1>30 DEF EvictFails, Goto, Skip, EvictUnlock
<1>31. ASSUME NEW t \in Threads, Reply(t) PROVE PermitsMove
  BY <1>31 DEF Reply, Goto
<1>32. ASSUME NEW t \in Threads, NEW r \in Renditions, Request(t, r) PROVE PermitsMove
  BY <1>32 DEF Request, Goto
<1>33. ASSUME NEW t \in Threads, ForceSweep(t) PROVE PermitsMove
  BY <1>33 DEF ForceSweep, Goto
<1>34. CASE Crash
  BY <1>34 DEF Crash
<1> QED
  BY <1>1, <1>2, <1>3, <1>4, <1>5, <1>6, <1>7, <1>8, <1>9, <1>10, <1>11, <1>12, <1>13, <1>14, <1>15, <1>16, <1>17, <1>18, <1>19, <1>20, <1>21, <1>22, <1>23, <1>24, <1>25, <1>26, <1>27, <1>28, <1>29, <1>30, <1>31, <1>32, <1>33, <1>34 DEF Next, Step, Find, Segment, Evict

LEMMA SlottedIsFinite ==
  IsFiniteSet(SlottedThreads) /\ Cardinality(SlottedThreads) \in Nat
  BY FiniteAssumption, FS_Subset, FS_CardinalityType DEF SlottedThreads

LEMMA SlotsStep ==
  ASSUME Types, SlotsConserved, PermitsMove
  PROVE  SlotsConserved'
<1> DEFINE S == SlottedThreads
<1>1. slots + Cardinality(S) = MaxTranscodes /\ slots \in Nat
  BY DEF SlotsConserved, SlottedThreads, Types
<1>2. IsFiniteSet(S) /\ Cardinality(S) \in Nat
  BY SlottedIsFinite
<1>3. SUFFICES slots' + Cardinality(S') = MaxTranscodes
  BY DEF SlotsConserved, SlottedThreads
<1>4. CASE slots' = slots /\ S' = S
  BY <1>1, <1>4
<1>5. ASSUME NEW t \in Threads \ S, slots' = slots - 1, S' = S \cup {t}
      PROVE  slots' + Cardinality(S') = MaxTranscodes
  <2>1. Cardinality(S \cup {t}) = Cardinality(S) + 1
    BY <1>2, <1>5, FS_AddElement
  <2> QED
    BY <1>1, <1>2, <1>5, <2>1
<1>6. ASSUME NEW t \in S, slots' = slots + 1, S' = S \ {t}
      PROVE  slots' + Cardinality(S') = MaxTranscodes
  <2>1. Cardinality(S \ {t}) = Cardinality(S) - 1
    BY <1>2, <1>6, FS_RemoveElement
  <2> QED
    BY <1>1, <1>2, <1>6, <2>1
<1>7. CASE slots' = MaxTranscodes /\ S' = {}
  BY <1>7, FS_EmptySet, SlotsAssumption
<1> QED
  BY <1>4, <1>5, <1>6, <1>7 DEF PermitsMove

-----------------------------------------------------------------------------
(* total_bytes never goes below zero.                                      *)

\* One token for every byte of the entries a sweep has yet to look at.
Tokens(E) == {x \in E \X Nat : x[2] \in 1..x[1].bytes}

\* total_bytes counts at least the entries that are left in the snapshot.
TotalsCover ==
  \A t \in Threads :
    /\ IsFiniteSet(Tokens(entries[t]))
    /\ Cardinality(Tokens(entries[t])) <= total[t]

LEMMA NoTokens == IsFiniteSet(Tokens({})) /\ Cardinality(Tokens({})) = 0
<1>1. Tokens({}) = {}
  BY DEF Tokens
<1> QED
  BY <1>1, FS_EmptySet

LEMMA FewerTokens ==
  ASSUME NEW E, NEW F \in SUBSET E, IsFiniteSet(Tokens(E))
  PROVE  IsFiniteSet(Tokens(F)) /\ Cardinality(Tokens(F)) <= Cardinality(Tokens(E))
<1>1. Tokens(F) \subseteq Tokens(E)
  BY DEF Tokens
<1> QED
  BY <1>1, FS_Subset

\* The tokens of one entry are as many as its bytes.
LEMMA LastTokens ==
  ASSUME NEW E \in SUBSET Entry, NEW e \in E, IsFiniteSet(Tokens(E))
  PROVE  /\ IsFiniteSet(Tokens(E \ {e}))
         /\ Cardinality(Tokens(E)) = Cardinality(Tokens(E \ {e})) + e.bytes
<1> DEFINE A == {e} \X (1..e.bytes)
           B == Tokens(E \ {e})
<1>1. e.bytes \in Nat
  BY DEF Entry
<1>2. IsFiniteSet({e}) /\ Cardinality({e}) = 1
  BY FS_Singleton
<1>3. IsFiniteSet(1..e.bytes) /\ Cardinality(1..e.bytes) = e.bytes
  BY <1>1, FS_Interval
<1>4. IsFiniteSet(A) /\ Cardinality(A) = e.bytes
  <2>1. IsFiniteSet(A) /\ Cardinality(A) = Cardinality({e}) * Cardinality(1..e.bytes)
    BY <1>2, <1>3, FS_Product
  <2> QED
    BY <1>1, <1>2, <1>3, <2>1
<1>5. IsFiniteSet(B)
  BY FewerTokens
<1>6. Tokens(E) = A \cup B /\ A \cap B = {}
  <2>1. A \cup B \subseteq Tokens(E)
    BY DEF Tokens
  <2>2. Tokens(E) \subseteq A \cup B
    BY DEF Tokens
  <2>3. A \cap B = {}
    BY DEF Tokens
  <2> QED
    BY <2>1, <2>2, <2>3
<1> HIDE DEF A, B
<1>7. Cardinality(A \cup B) = Cardinality(A) + Cardinality(B) - Cardinality(A \cap B)
  BY <1>4, <1>5, FS_Union
<1>8. Cardinality(A \cap B) = 0 /\ Cardinality(B) \in Nat
  BY <1>5, <1>6, FS_EmptySet, FS_CardinalityType
<1>9. Cardinality(Tokens(E)) = Cardinality(B) + e.bytes
  BY <1>1, <1>4, <1>6, <1>7, <1>8
<1> QED
  BY <1>5, <1>9 DEF B

\* What the walk adds up covers the entries it collects: a byte of an entry is a
\* segment of its directory.
LEMMA WalkCovers ==
  ASSUME TypeOK, NEW E,
         E = {[id |-> r, bytes |-> Bytes(cache[r]), used |-> used[r]] :
                r \in {x \in Renditions : "dir" \in cache[x]}}
  PROVE  IsFiniteSet(Tokens(E)) /\ Cardinality(Tokens(E)) <= CacheBytes
<1> DEFINE C == {f \in Renditions \X Segs : f[2] \in cache[f[1]]}
           Nth(r) == CHOOSE g : g \in Bijection(1..Bytes(cache[r]), cache[r] \cap Segs)
           Seg == [x \in Tokens(E) |-> <<x[1].id, Nth(x[1].id)[x[2]]>>]
<1>1. ASSUME NEW r \in Renditions
      PROVE  Nth(r) \in Bijection(1..Bytes(cache[r]), cache[r] \cap Segs)
  <2>1. IsFiniteSet(cache[r] \cap Segs)
    BY FiniteAssumption, FS_Subset, cache[r] \cap Segs \subseteq Segs
  <2>2. ExistsBijection(1..Bytes(cache[r]), cache[r] \cap Segs)
    BY <2>1, FS_CardinalityType DEF Bytes
  <2> QED
    BY <2>2 DEF ExistsBijection
<1>2. IsFiniteSet(C)
  BY FiniteAssumption, FS_Product, FS_Subset, C \subseteq Renditions \X Segs
<1>3. ASSUME NEW x \in Tokens(E)
      PROVE  /\ x = <<x[1], x[2]>> /\ x[1] \in E
             /\ x[1].id \in Renditions
             /\ x[1] = [id |-> x[1].id, bytes |-> Bytes(cache[x[1].id]), used |-> used[x[1].id]]
             /\ x[2] \in 1..Bytes(cache[x[1].id])
  BY <1>3 DEF Tokens
<1> HIDE DEF Nth
<1>4. ASSUME NEW x \in Tokens(E) PROVE Seg[x] \in C
  <2>1. Nth(x[1].id)[x[2]] \in cache[x[1].id] \cap Segs
    BY <1>1, <1>3 DEF Bijection, Injection
  <2> QED
    BY <1>3, <2>1
<1>5. ASSUME NEW x \in Tokens(E), NEW y \in Tokens(E), Seg[x] = Seg[y] PROVE x = y
  <2>1. x[1].id = y[1].id /\ Nth(x[1].id)[x[2]] = Nth(y[1].id)[y[2]]
    BY <1>5
  <2>2. PICK r \in Renditions : r = x[1].id /\ r = y[1].id
    BY <1>3, <2>1
  <2> HIDE DEF Seg
  <2>3. x[1] = y[1]
    <3>1. x[1] = [id |-> r, bytes |-> Bytes(cache[r]), used |-> used[r]]
      BY <1>3, <2>2, Zenon
    <3>2. y[1] = [id |-> r, bytes |-> Bytes(cache[r]), used |-> used[r]]
      BY <1>3, <2>2, Zenon
    <3> QED
      BY <3>1, <3>2, Zenon
  <2>4. x[2] = y[2]
    <3>1. x[2] \in 1..Bytes(cache[r]) /\ y[2] \in 1..Bytes(cache[r])
      BY <1>3, <2>2, Zenon
    <3>2. Nth(r)[x[2]] = Nth(r)[y[2]]
      BY <2>1, <2>2, Zenon
    <3>3. \A i, j \in 1..Bytes(cache[r]) : Nth(r)[i] = Nth(r)[j] => i = j
      BY <1>1 DEF Bijection, Injection, IsInjective
    <3> QED
      BY <3>1, <3>2, <3>3, Zenon
  <2> QED
    BY <1>3, <2>3, <2>4, Zenon
<1>6. Seg \in Injection(Tokens(E), C)
  <2>1. Seg \in [Tokens(E) -> C]
    BY <1>4
  <2> HIDE DEF Seg, C
  <2> QED
    BY <2>1, <1>5 DEF Injection, IsInjective
<1> QED
  BY <1>2, <1>6, FS_Injection DEF CacheBytes

\* What a step does to the snapshot of a sweep: it passes over entries, forgets
\* them all, collects them or removes one.
LEMMA TotalsMove ==
  ASSUME TypeOK, Next, NEW u \in Threads
  PROVE  \/ entries'[u] \subseteq entries[u] /\ total'[u] = total[u]
         \/ entries'[u] = {} /\ total'[u] = 0
         \/ Scan(u) \/ EvictEnd(u)
<1> USE DEF TypeOK, local, sweep
<1> DEFINE Passes == entries'[u] \subseteq entries[u] /\ total'[u] = total[u]
           Clears == entries'[u] = {} /\ total'[u] = 0
<1>1. ASSUME NEW t \in Threads, Find(t) \/ Segment(t) \/ Reply(t) \/ ForceSweep(t)
      PROVE  Passes
  BY <1>1 DEF Find, FastPath, Touch, Lookup, TryLock, TryLockBusy, RecheckComplete,
              RecheckIncomplete, SourceMissing, NoSlot, TakeSlot, Segment, StartFfmpeg,
              CannotCreatePart, WriteSegment, FinishFfmpeg, FfmpegFails, CheckPart,
              RemoveOld, Publish, RenameFails, Fail, Reply, ForceSweep
<1>2. ASSUME NEW t \in Threads, NEW r \in Renditions, Request(t, r) PROVE Passes
  BY <1>2 DEF Request
<1>3. CASE Crash
  BY <1>3 DEF Crash
<1>4. ASSUME NEW t \in Threads, NoSweep(t) \/ EvictDone(t) PROVE Passes \/ Clears
  BY <1>4 DEF NoSweep, EvictDone, EndSweep
<1>5. ASSUME NEW t \in Threads,
             EvictKeep(t) \/ EvictLookup(t) \/ EvictTryLock(t) \/ EvictBusy(t)
             \/ EvictBegin(t) \/ EvictFails(t)
      PROVE  Passes
  BY <1>5 DEF EvictKeep, EvictLookup, EvictTryLock, EvictBusy, EvictBegin, EvictFails, Skip
<1>6. ASSUME NEW t \in Threads, Scan(t) \/ EvictEnd(t)
      PROVE  Passes \/ Scan(u) \/ EvictEnd(u)
  BY <1>6 DEF Scan, EvictEnd, Skip
<1> QED
  BY <1>1, <1>2, <1>3, <1>4, <1>5, <1>6 DEF Next, Step, Evict

LEMMA TotalsStep ==
  ASSUME TypeOK, TotalsCover, Next
  PROVE  TotalsCover'
<1> SUFFICES ASSUME NEW u \in Threads
             PROVE  /\ IsFiniteSet(Tokens(entries'[u]))
                    /\ Cardinality(Tokens(entries'[u])) <= total'[u]
  BY DEF TotalsCover
<1>1. /\ IsFiniteSet(Tokens(entries[u])) /\ Cardinality(Tokens(entries[u])) <= total[u]
      /\ entries[u] \in SUBSET Entry /\ total[u] \in Int
  BY DEF TotalsCover, TypeOK
<1>2. CASE entries'[u] \subseteq entries[u] /\ total'[u] = total[u]
  <2>1. /\ IsFiniteSet(Tokens(entries'[u]))
        /\ Cardinality(Tokens(entries'[u])) <= Cardinality(Tokens(entries[u]))
    BY <1>1, <1>2, FewerTokens
  <2> QED
    BY <1>1, <1>2, <2>1, FS_CardinalityType
<1>3. CASE entries'[u] = {} /\ total'[u] = 0
  BY <1>3, NoTokens
<1>4. CASE Scan(u)
  <2>1. /\ total'[u] = CacheBytes
        /\ entries'[u] = {[id |-> r, bytes |-> Bytes(cache[r]), used |-> used[r]] :
                            r \in {x \in Renditions : "dir" \in cache[x]}}
    BY <1>4 DEF Scan, TypeOK
  <2> QED
    BY <2>1, WalkCovers
<1>5. CASE EvictEnd(u)
  <2>1. PICK e \in entries[u] : total' = [total EXCEPT ![u] = @ - e.bytes] /\ Skip(u, e)
    BY <1>5 DEF EvictEnd
  <2>2. /\ entries'[u] = entries[u] \ {e} /\ total'[u] = total[u] - e.bytes
        /\ e.bytes \in Nat
    BY <2>1, <1>1 DEF Skip, TypeOK, Entry
  <2>3. /\ IsFiniteSet(Tokens(entries[u] \ {e}))
        /\ Cardinality(Tokens(entries[u])) = Cardinality(Tokens(entries[u] \ {e})) + e.bytes
    BY <1>1, LastTokens
  <2> QED
    BY <1>1, <2>2, <2>3, FS_CardinalityType
<1> QED
  BY <1>2, <1>3, <1>4, <1>5, TotalsMove

-----------------------------------------------------------------------------
(* The invariant of every configuration.                                   *)

IInv == TypeOK /\ Shape /\ LocksOwned /\ SlotsConserved /\ TotalsCover

LEMMA InitIInv == Init => IInv
<1> SUFFICES ASSUME Init PROVE IInv
  OBVIOUS
<1> USE NoneIsNothing DEF Init
<1>1. TypeOK
  <2>1. cache \in [Renditions -> SUBSET Files]
    BY DEF Leftovers, Files
  <2>2. used \in [Renditions -> Nat]
    BY CountIsNat DEF Ranks
  <2> QED
    BY <2>1, <2>2, SlotsAssumption DEF TypeOK, Pcs
<1>2. Shape
  BY DEF Shape, SegmentingPcs
<1>3. LocksOwned
  BY DEF LocksOwned, Locked
<1>4. SlotsConserved
  <2>1. {t \in Threads : Slotted(t)} = {}
    BY DEF Slotted
  <2> QED
    BY <2>1, FS_EmptySet, SlotsAssumption DEF SlotsConserved
<1>5. TotalsCover
  BY NoTokens DEF TotalsCover
<1> QED
  BY <1>1, <1>2, <1>3, <1>4, <1>5 DEF IInv

LEMMA StepIInv == IInv /\ [Next]_vars => IInv'
<1> SUFFICES ASSUME IInv, [Next]_vars PROVE IInv'
  OBVIOUS
<1> USE DEF IInv
<1>1. CASE Next
  <2>1. Shape' /\ LocksOwned' /\ Types'
    BY <1>1, ShapeStep, LocksStep, TypesStep
  <2>2. SlotsConserved'
    <3>1. Types
      BY DEF TypeOK, Types
    <3> QED
      BY <1>1, <3>1, PermitsStep, SlotsStep
  <2>3. slots' \in 0..MaxTranscodes
    <3>1. IsFiniteSet({t \in Threads : Slotted(t)'})
      BY FiniteAssumption, FS_Subset
    <3>2. Cardinality({t \in Threads : Slotted(t)'}) \in Nat
      BY <3>1, FS_CardinalityType
    <3> QED
      BY <2>1, <2>2, <3>2, SlotsAssumption DEF Types, SlotsConserved
  <2>4. TotalsCover'
    BY <1>1, TotalsStep
  <2>5. total' \in [Threads -> Nat]
    <3>1. ASSUME NEW t \in Threads PROVE total'[t] \in Nat
      <4>1. IsFiniteSet(Tokens(entries'[t])) /\ Cardinality(Tokens(entries'[t])) <= total'[t]
        BY <2>4 DEF TotalsCover
      <4>2. Cardinality(Tokens(entries'[t])) \in Nat /\ total'[t] \in Int
        BY <2>1, <4>1, FS_CardinalityType DEF Types
      <4> QED
        BY <4>1, <4>2
    <3> QED
      BY <2>1, <3>1 DEF Types
  <2>6. TypeOK'
    BY <2>1, <2>3, <2>5 DEF Types, TypeOK
  <2> QED
    BY <2>1, <2>2, <2>4, <2>6
<1>2. CASE UNCHANGED vars
  <2> USE <1>2 DEF vars, disk, locks, local
  <2>1. TypeOK' /\ Shape'
    BY DEF TypeOK, Shape
  <2>2. LocksOwned'
    BY DEF LocksOwned, Locked
  <2>3. SlotsConserved'
    BY DEF SlotsConserved, Slotted
  <2>4. TotalsCover'
    BY DEF TotalsCover
  <2> QED
    BY <2>1, <2>2, <2>3, <2>4
<1> QED
  BY <1>1, <1>2

LEMMA InvariantHolds == Spec => []IInv
  BY InitIInv, StepIInv, PTL DEF Spec

\* Every variable keeps to its type, for any threads, renditions and slots: so the
\* unsigned total_bytes never wraps around, although sweeps of several threads
\* delete each other's entries between the walk and the subtraction.
THEOREM TypeCorrect == Spec => []TypeOK
  BY InvariantHolds, PTL DEF IInv

\* ensure_segments never loses or invents a transcode slot: the scope guards
\* give it back on every path, sweeps and restarts included.
THEOREM SlotsSafe == Spec => []SlotsConserved
  BY InvariantHolds, PTL DEF IInv

\* A rendition's mutex is locked exactly while a thread is inside its scope.
THEOREM LocksSafe == Spec => []LocksOwned
  BY InvariantHolds, PTL DEF IInv

-----------------------------------------------------------------------------
(* Without a cap no mutex is ever forgotten, so the registry's mutexes     *)
(* exclude each other; and the directories are what the steps expect.      *)

\* No sweep gets beyond its first test, and handles are the registered ones.
Registered ==
  \A t \in Threads :
    /\ pc[t] \notin {"evict", "grab", "remove", "removing"}
    /\ handle[t] # None => registry[req[t]] = handle[t]

\* What a thread at each point of ensure_segments finds in .part and the cache.
PartOK(t) ==
  /\ pc[t] = "ffmpeg"
       => wrote[t] \subseteq part[req[t]] /\ "playlist" \notin part[req[t]]
  /\ pc[t] = "check" /\ "playlist" \in part[req[t]]
       => Full \subseteq part[req[t]]
  /\ pc[t] \in {"rmdir", "rename"} => Full \subseteq part[req[t]]

CacheOK(t) ==
  /\ pc[t] \in {"source"} \cup SegmentingPcs => "playlist" \notin cache[req[t]]
  /\ pc[t] = "touch" => "playlist" \in cache[req[t]]
  /\ pc[t] = "sweep" /\ handle[t] # None => "playlist" \in cache[req[t]]
  /\ pc[t] = "reply" /\ answer[t] = "ok"
       => req[t] \in Renditions /\ "playlist" \in cache[req[t]]

FullyPopulated ==
  \A r \in Renditions : "playlist" \in cache[r] => Full \subseteq cache[r]

NoCapInv ==
  /\ Registered
  /\ \A t \in Threads : PartOK(t)
  /\ \A t \in Threads : CacheOK(t)
  /\ FullyPopulated

LEMMA RegisteredStep ==
  ASSUME MaxBytes = 0, TypeOK, Shape, Registered, Next
  PROVE  Registered'
<1> USE NoneIsNothing DEF TypeOK, Shape, Registered, LockedPcs, SegmentingPcs,
      disk, locks, local, sweep
<1>1. ASSUME NEW t \in Threads, FastPath(t) PROVE Registered'
  BY <1>1 DEF FastPath, Goto
<1>2. ASSUME NEW t \in Threads, Touch(t) PROVE Registered'
  BY <1>2 DEF Touch, Return, Goto
<1>3. ASSUME NEW t \in Threads, Lookup(t) PROVE Registered'
  BY <1>3 DEF Lookup, Goto, MutexFor
<1>4. ASSUME NEW t \in Threads, TryLock(t) PROVE Registered'
  BY <1>4 DEF TryLock, Goto
<1>5. ASSUME NEW t \in Threads, TryLockBusy(t) PROVE Registered'
  BY <1>5 DEF TryLockBusy, Return, Goto
<1>6. ASSUME NEW t \in Threads, RecheckComplete(t) PROVE Registered'
  BY <1>6 DEF RecheckComplete, Return, Goto, Unlock
<1>7. ASSUME NEW t \in Threads, RecheckIncomplete(t) PROVE Registered'
  BY <1>7 DEF RecheckIncomplete, Goto
<1>8. ASSUME NEW t \in Threads, SourceMissing(t) PROVE Registered'
  BY <1>8 DEF SourceMissing, Return, Goto, Unlock
<1>9. ASSUME NEW t \in Threads, NoSlot(t) PROVE Registered'
  BY <1>9 DEF NoSlot, Return, Goto, Unlock
<1>10. ASSUME NEW t \in Threads, TakeSlot(t) PROVE Registered'
  BY <1>10 DEF TakeSlot, Goto
<1>11. ASSUME NEW t \in Threads, StartFfmpeg(t) PROVE Registered'
  BY <1>11 DEF StartFfmpeg, Goto
<1>12. ASSUME NEW t \in Threads, CannotCreatePart(t) PROVE Registered'
  BY <1>12 DEF CannotCreatePart, Return, Goto, ReleaseAll, Unlock
<1>13. ASSUME NEW t \in Threads, WriteSegment(t) PROVE Registered'
  BY <1>13 DEF WriteSegment
<1>14. ASSUME NEW t \in Threads, FinishFfmpeg(t) PROVE Registered'
  BY <1>14 DEF FinishFfmpeg, Goto
<1>15. ASSUME NEW t \in Threads, FfmpegFails(t) PROVE Registered'
  BY <1>15 DEF FfmpegFails, Goto
<1>16. ASSUME NEW t \in Threads, CheckPart(t) PROVE Registered'
  BY <1>16 DEF CheckPart, Goto
<1>17. ASSUME NEW t \in Threads, RemoveOld(t) PROVE Registered'
  BY <1>17 DEF RemoveOld, Goto
<1>18. ASSUME NEW t \in Threads, Publish(t) PROVE Registered'
  BY <1>18 DEF Publish, Goto
<1>19. ASSUME NEW t \in Threads, RenameFails(t) PROVE Registered'
  BY <1>19 DEF RenameFails, Goto
<1>20. ASSUME NEW t \in Threads, Fail(t) PROVE Registered'
  BY <1>20 DEF Fail, Return, Goto, ReleaseAll, Unlock
<1>21. ASSUME NEW t \in Threads, NoSweep(t) PROVE Registered'
  BY <1>21 DEF NoSweep, EndSweep, Return, Goto, ReleaseAll, Unlock
<1>22. ASSUME NEW t \in Threads, Scan(t) PROVE Registered'
  BY <1>22 DEF Scan, Goto
<1>23. ASSUME NEW t \in Threads, EvictDone(t) PROVE Registered'
  BY <1>23 DEF EvictDone, EndSweep, Return, Goto, ReleaseAll, Unlock
<1>24. ASSUME NEW t \in Threads, EvictKeep(t) PROVE Registered'
  BY <1>24 DEF EvictKeep, Skip
<1>25. ASSUME NEW t \in Threads, EvictLookup(t) PROVE Registered'
  BY <1>25 DEF EvictLookup, Goto, MutexFor
<1>26. ASSUME NEW t \in Threads, EvictTryLock(t) PROVE Registered'
  BY <1>26 DEF EvictTryLock, Goto
<1>27. ASSUME NEW t \in Threads, EvictBusy(t) PROVE Registered'
  BY <1>27 DEF EvictBusy, Goto, Skip
<1>28. ASSUME NEW t \in Threads, EvictBegin(t) PROVE Registered'
  BY <1>28 DEF EvictBegin, Goto
<1>29. ASSUME NEW t \in Threads, EvictEnd(t) PROVE Registered'
  BY <1>29 DEF EvictEnd, Goto, Skip, EvictUnlock, ForgetMutex
<1>30. ASSUME NEW t \in Threads, EvictFails(t) PROVE Registered'
  BY <1>30 DEF EvictFails, Goto, Skip, EvictUnlock
<1>31. ASSUME NEW t \in Threads, Reply(t) PROVE Registered'
  BY <1>31 DEF Reply, Goto
<1>32. ASSUME NEW t \in Threads, NEW r \in Renditions, Request(t, r) PROVE Registered'
  BY <1>32 DEF Request, Goto
<1>33. ASSUME NEW t \in Threads, ForceSweep(t) PROVE Registered'
  BY <1>33 DEF ForceSweep, Goto
<1>34. CASE Crash
  BY <1>34 DEF Crash
<1> QED
  BY <1>1, <1>2, <1>3, <1>4, <1>5, <1>6, <1>7, <1>8, <1>9, <1>10, <1>11, <1>12, <1>13, <1>14, <1>15, <1>16, <1>17, <1>18, <1>19, <1>20, <1>21, <1>22, <1>23, <1>24, <1>25, <1>26, <1>27, <1>28, <1>29, <1>30, <1>31, <1>32, <1>33, <1>34 DEF Next, Step, Find, Segment, Evict

\* A rendition has one registered mutex, and a mutex one owner.
LEMMA OneLocked ==
  ASSUME TypeOK, Shape, LocksOwned, Registered, NEW t \in Threads, NEW u \in Threads,
         t # u, Locked(t), Locked(u)
  PROVE  req[t] # req[u]
<1> SUFFICES ASSUME req[t] = req[u] PROVE FALSE
  OBVIOUS
<1>1. handle[t] \in Mutexes /\ handle[u] = handle[t]
  BY DEF TypeOK, Registered, Locked, LockedPcs, Shape, SegmentingPcs
<1>2. owner[handle[t]] = t /\ owner[handle[u]] = u
  BY <1>1 DEF LocksOwned
<1> QED
  BY <1>1, <1>2

Apart ==
  \A t, u \in Threads : t # u /\ Locked(t) /\ Locked(u) => req[t] # req[u]

LEMMA PartStep ==
  ASSUME TypeOK, Shape, Exclusive, Next,
         \A t \in Threads : PartOK(t)
  PROVE  \A t \in Threads : PartOK(t)'
<1> SUFFICES ASSUME NEW u \in Threads PROVE PartOK(u)'
  OBVIOUS
<1> USE NoneIsNothing, SegsAssumption DEF TypeOK, Shape, Exclusive, Segmenting, LockedPcs,
      SegmentingPcs, PartOK, Full, disk, locks, local, sweep
<1>1. ASSUME NEW t \in Threads, FastPath(t) PROVE PartOK(u)'
  BY <1>1 DEF FastPath, Goto
<1>2. ASSUME NEW t \in Threads, Touch(t) PROVE PartOK(u)'
  BY <1>2 DEF Touch, Return, Goto
<1>3. ASSUME NEW t \in Threads, Lookup(t) PROVE PartOK(u)'
  BY <1>3 DEF Lookup, Goto, MutexFor
<1>4. ASSUME NEW t \in Threads, TryLock(t) PROVE PartOK(u)'
  BY <1>4 DEF TryLock, Goto
<1>5. ASSUME NEW t \in Threads, TryLockBusy(t) PROVE PartOK(u)'
  BY <1>5 DEF TryLockBusy, Return, Goto
<1>6. ASSUME NEW t \in Threads, RecheckComplete(t) PROVE PartOK(u)'
  BY <1>6 DEF RecheckComplete, Return, Goto, Unlock
<1>7. ASSUME NEW t \in Threads, RecheckIncomplete(t) PROVE PartOK(u)'
  BY <1>7 DEF RecheckIncomplete, Goto
<1>8. ASSUME NEW t \in Threads, SourceMissing(t) PROVE PartOK(u)'
  BY <1>8 DEF SourceMissing, Return, Goto, Unlock
<1>9. ASSUME NEW t \in Threads, NoSlot(t) PROVE PartOK(u)'
  BY <1>9 DEF NoSlot, Return, Goto, Unlock
<1>10. ASSUME NEW t \in Threads, TakeSlot(t) PROVE PartOK(u)'
  BY <1>10 DEF TakeSlot, Goto
<1>11. ASSUME NEW t \in Threads, StartFfmpeg(t) PROVE PartOK(u)'
  BY <1>11 DEF StartFfmpeg, Goto
<1>12. ASSUME NEW t \in Threads, CannotCreatePart(t) PROVE PartOK(u)'
  BY <1>12 DEF CannotCreatePart, Return, Goto, ReleaseAll, Unlock
<1>13. ASSUME NEW t \in Threads, WriteSegment(t) PROVE PartOK(u)'
  BY <1>13 DEF WriteSegment
<1>14. ASSUME NEW t \in Threads, FinishFfmpeg(t) PROVE PartOK(u)'
  BY <1>14 DEF FinishFfmpeg, Goto
<1>15. ASSUME NEW t \in Threads, FfmpegFails(t) PROVE PartOK(u)'
  BY <1>15 DEF FfmpegFails, Goto
<1>16. ASSUME NEW t \in Threads, CheckPart(t) PROVE PartOK(u)'
  BY <1>16 DEF CheckPart, Goto
<1>17. ASSUME NEW t \in Threads, RemoveOld(t) PROVE PartOK(u)'
  BY <1>17 DEF RemoveOld, Goto
<1>18. ASSUME NEW t \in Threads, Publish(t) PROVE PartOK(u)'
  BY <1>18 DEF Publish, Goto
<1>19. ASSUME NEW t \in Threads, RenameFails(t) PROVE PartOK(u)'
  BY <1>19 DEF RenameFails, Goto
<1>20. ASSUME NEW t \in Threads, Fail(t) PROVE PartOK(u)'
  BY <1>20 DEF Fail, Return, Goto, ReleaseAll, Unlock
<1>21. ASSUME NEW t \in Threads, NoSweep(t) PROVE PartOK(u)'
  BY <1>21 DEF NoSweep, EndSweep, Return, Goto, ReleaseAll, Unlock
<1>22. ASSUME NEW t \in Threads, Scan(t) PROVE PartOK(u)'
  BY <1>22 DEF Scan, Goto
<1>23. ASSUME NEW t \in Threads, EvictDone(t) PROVE PartOK(u)'
  BY <1>23 DEF EvictDone, EndSweep, Return, Goto, ReleaseAll, Unlock
<1>24. ASSUME NEW t \in Threads, EvictKeep(t) PROVE PartOK(u)'
  BY <1>24 DEF EvictKeep, Skip
<1>25. ASSUME NEW t \in Threads, EvictLookup(t) PROVE PartOK(u)'
  BY <1>25 DEF EvictLookup, Goto, MutexFor
<1>26. ASSUME NEW t \in Threads, EvictTryLock(t) PROVE PartOK(u)'
  BY <1>26 DEF EvictTryLock, Goto
<1>27. ASSUME NEW t \in Threads, EvictBusy(t) PROVE PartOK(u)'
  BY <1>27 DEF EvictBusy, Goto, Skip
<1>28. ASSUME NEW t \in Threads, EvictBegin(t) PROVE PartOK(u)'
  BY <1>28 DEF EvictBegin, Goto
<1>29. ASSUME NEW t \in Threads, EvictEnd(t) PROVE PartOK(u)'
  BY <1>29 DEF EvictEnd, Goto, Skip, EvictUnlock, ForgetMutex
<1>30. ASSUME NEW t \in Threads, EvictFails(t) PROVE PartOK(u)'
  BY <1>30 DEF EvictFails, Goto, Skip, EvictUnlock
<1>31. ASSUME NEW t \in Threads, Reply(t) PROVE PartOK(u)'
  BY <1>31 DEF Reply, Goto
<1>32. ASSUME NEW t \in Threads, NEW r \in Renditions, Request(t, r) PROVE PartOK(u)'
  BY <1>32 DEF Request, Goto
<1>33. ASSUME NEW t \in Threads, ForceSweep(t) PROVE PartOK(u)'
  BY <1>33 DEF ForceSweep, Goto
<1>34. CASE Crash
  BY <1>34 DEF Crash
<1> QED
  BY <1>1, <1>2, <1>3, <1>4, <1>5, <1>6, <1>7, <1>8, <1>9, <1>10, <1>11, <1>12, <1>13, <1>14, <1>15, <1>16, <1>17, <1>18, <1>19, <1>20, <1>21, <1>22, <1>23, <1>24, <1>25, <1>26, <1>27, <1>28, <1>29, <1>30, <1>31, <1>32, <1>33, <1>34 DEF Next, Step, Find, Segment, Evict

LEMMA CacheStep ==
  ASSUME MaxBytes = 0, TypeOK, Shape, Registered, Apart, Next,
         \A t \in Threads : PartOK(t) /\ CacheOK(t)
  PROVE  \A t \in Threads : CacheOK(t)'
<1> SUFFICES ASSUME NEW u \in Threads PROVE CacheOK(u)'
  OBVIOUS
<1> USE NoneIsNothing, SegsAssumption DEF TypeOK, Shape, Registered, Apart, Locked, LockedPcs,
      SegmentingPcs, PartOK, CacheOK, Full, disk, locks, local, sweep
<1>1. ASSUME NEW t \in Threads, FastPath(t) PROVE CacheOK(u)'
  BY <1>1 DEF FastPath, Goto
<1>2. ASSUME NEW t \in Threads, Touch(t) PROVE CacheOK(u)'
  BY <1>2 DEF Touch, Return, Goto
<1>3. ASSUME NEW t \in Threads, Lookup(t) PROVE CacheOK(u)'
  BY <1>3 DEF Lookup, Goto, MutexFor
<1>4. ASSUME NEW t \in Threads, TryLock(t) PROVE CacheOK(u)'
  BY <1>4 DEF TryLock, Goto
<1>5. ASSUME NEW t \in Threads, TryLockBusy(t) PROVE CacheOK(u)'
  BY <1>5 DEF TryLockBusy, Return, Goto
<1>6. ASSUME NEW t \in Threads, RecheckComplete(t) PROVE CacheOK(u)'
  BY <1>6 DEF RecheckComplete, Return, Goto, Unlock
<1>7. ASSUME NEW t \in Threads, RecheckIncomplete(t) PROVE CacheOK(u)'
  BY <1>7 DEF RecheckIncomplete, Goto
<1>8. ASSUME NEW t \in Threads, SourceMissing(t) PROVE CacheOK(u)'
  BY <1>8 DEF SourceMissing, Return, Goto, Unlock
<1>9. ASSUME NEW t \in Threads, NoSlot(t) PROVE CacheOK(u)'
  BY <1>9 DEF NoSlot, Return, Goto, Unlock
<1>10. ASSUME NEW t \in Threads, TakeSlot(t) PROVE CacheOK(u)'
  BY <1>10 DEF TakeSlot, Goto
<1>11. ASSUME NEW t \in Threads, StartFfmpeg(t) PROVE CacheOK(u)'
  BY <1>11 DEF StartFfmpeg, Goto
<1>12. ASSUME NEW t \in Threads, CannotCreatePart(t) PROVE CacheOK(u)'
  BY <1>12 DEF CannotCreatePart, Return, Goto, ReleaseAll, Unlock
<1>13. ASSUME NEW t \in Threads, WriteSegment(t) PROVE CacheOK(u)'
  BY <1>13 DEF WriteSegment
<1>14. ASSUME NEW t \in Threads, FinishFfmpeg(t) PROVE CacheOK(u)'
  BY <1>14 DEF FinishFfmpeg, Goto
<1>15. ASSUME NEW t \in Threads, FfmpegFails(t) PROVE CacheOK(u)'
  BY <1>15 DEF FfmpegFails, Goto
<1>16. ASSUME NEW t \in Threads, CheckPart(t) PROVE CacheOK(u)'
  BY <1>16 DEF CheckPart, Goto
<1>17. ASSUME NEW t \in Threads, RemoveOld(t) PROVE CacheOK(u)'
  BY <1>17 DEF RemoveOld, Goto
<1>18. ASSUME NEW t \in Threads, Publish(t) PROVE CacheOK(u)'
  BY <1>18 DEF Publish, Goto
<1>19. ASSUME NEW t \in Threads, RenameFails(t) PROVE CacheOK(u)'
  BY <1>19 DEF RenameFails, Goto
<1>20. ASSUME NEW t \in Threads, Fail(t) PROVE CacheOK(u)'
  BY <1>20 DEF Fail, Return, Goto, ReleaseAll, Unlock
<1>21. ASSUME NEW t \in Threads, NoSweep(t) PROVE CacheOK(u)'
  BY <1>21 DEF NoSweep, EndSweep, Return, Goto, ReleaseAll, Unlock
<1>22. ASSUME NEW t \in Threads, Scan(t) PROVE CacheOK(u)'
  BY <1>22 DEF Scan, Goto
<1>23. ASSUME NEW t \in Threads, EvictDone(t) PROVE CacheOK(u)'
  BY <1>23 DEF EvictDone, EndSweep, Return, Goto, ReleaseAll, Unlock
<1>24. ASSUME NEW t \in Threads, EvictKeep(t) PROVE CacheOK(u)'
  BY <1>24 DEF EvictKeep, Skip
<1>25. ASSUME NEW t \in Threads, EvictLookup(t) PROVE CacheOK(u)'
  BY <1>25 DEF EvictLookup, Goto, MutexFor
<1>26. ASSUME NEW t \in Threads, EvictTryLock(t) PROVE CacheOK(u)'
  BY <1>26 DEF EvictTryLock, Goto
<1>27. ASSUME NEW t \in Threads, EvictBusy(t) PROVE CacheOK(u)'
  BY <1>27 DEF EvictBusy, Goto, Skip
<1>28. ASSUME NEW t \in Threads, EvictBegin(t) PROVE CacheOK(u)'
  BY <1>28 DEF EvictBegin, Goto
<1>29. ASSUME NEW t \in Threads, EvictEnd(t) PROVE CacheOK(u)'
  BY <1>29 DEF EvictEnd, Goto, Skip, EvictUnlock, ForgetMutex
<1>30. ASSUME NEW t \in Threads, EvictFails(t) PROVE CacheOK(u)'
  BY <1>30 DEF EvictFails, Goto, Skip, EvictUnlock
<1>31. ASSUME NEW t \in Threads, Reply(t) PROVE CacheOK(u)'
  BY <1>31 DEF Reply, Goto
<1>32. ASSUME NEW t \in Threads, NEW r \in Renditions, Request(t, r) PROVE CacheOK(u)'
  BY <1>32 DEF Request, Goto
<1>33. ASSUME NEW t \in Threads, ForceSweep(t) PROVE CacheOK(u)'
  BY <1>33 DEF ForceSweep, Goto
<1>34. CASE Crash
  BY <1>34 DEF Crash
<1> QED
  BY <1>1, <1>2, <1>3, <1>4, <1>5, <1>6, <1>7, <1>8, <1>9, <1>10, <1>11, <1>12, <1>13, <1>14, <1>15, <1>16, <1>17, <1>18, <1>19, <1>20, <1>21, <1>22, <1>23, <1>24, <1>25, <1>26, <1>27, <1>28, <1>29, <1>30, <1>31, <1>32, <1>33, <1>34 DEF Next, Step, Find, Segment, Evict

LEMMA PopulatedStep ==
  ASSUME MaxBytes = 0, TypeOK, Shape, Registered, Next, FullyPopulated,
         \A t \in Threads : PartOK(t)
  PROVE  FullyPopulated'
<1> USE NoneIsNothing, SegsAssumption DEF TypeOK, Shape, Registered, LockedPcs,
      SegmentingPcs, PartOK, FullyPopulated, Full, disk, locks, local, sweep
<1>1. ASSUME NEW t \in Threads, FastPath(t) PROVE FullyPopulated'
  BY <1>1 DEF FastPath, Goto
<1>2. ASSUME NEW t \in Threads, Touch(t) PROVE FullyPopulated'
  BY <1>2 DEF Touch, Return, Goto
<1>3. ASSUME NEW t \in Threads, Lookup(t) PROVE FullyPopulated'
  BY <1>3 DEF Lookup, Goto, MutexFor
<1>4. ASSUME NEW t \in Threads, TryLock(t) PROVE FullyPopulated'
  BY <1>4 DEF TryLock, Goto
<1>5. ASSUME NEW t \in Threads, TryLockBusy(t) PROVE FullyPopulated'
  BY <1>5 DEF TryLockBusy, Return, Goto
<1>6. ASSUME NEW t \in Threads, RecheckComplete(t) PROVE FullyPopulated'
  BY <1>6 DEF RecheckComplete, Return, Goto, Unlock
<1>7. ASSUME NEW t \in Threads, RecheckIncomplete(t) PROVE FullyPopulated'
  BY <1>7 DEF RecheckIncomplete, Goto
<1>8. ASSUME NEW t \in Threads, SourceMissing(t) PROVE FullyPopulated'
  BY <1>8 DEF SourceMissing, Return, Goto, Unlock
<1>9. ASSUME NEW t \in Threads, NoSlot(t) PROVE FullyPopulated'
  BY <1>9 DEF NoSlot, Return, Goto, Unlock
<1>10. ASSUME NEW t \in Threads, TakeSlot(t) PROVE FullyPopulated'
  BY <1>10 DEF TakeSlot, Goto
<1>11. ASSUME NEW t \in Threads, StartFfmpeg(t) PROVE FullyPopulated'
  BY <1>11 DEF StartFfmpeg, Goto
<1>12. ASSUME NEW t \in Threads, CannotCreatePart(t) PROVE FullyPopulated'
  BY <1>12 DEF CannotCreatePart, Return, Goto, ReleaseAll, Unlock
<1>13. ASSUME NEW t \in Threads, WriteSegment(t) PROVE FullyPopulated'
  BY <1>13 DEF WriteSegment
<1>14. ASSUME NEW t \in Threads, FinishFfmpeg(t) PROVE FullyPopulated'
  BY <1>14 DEF FinishFfmpeg, Goto
<1>15. ASSUME NEW t \in Threads, FfmpegFails(t) PROVE FullyPopulated'
  BY <1>15 DEF FfmpegFails, Goto
<1>16. ASSUME NEW t \in Threads, CheckPart(t) PROVE FullyPopulated'
  BY <1>16 DEF CheckPart, Goto
<1>17. ASSUME NEW t \in Threads, RemoveOld(t) PROVE FullyPopulated'
  BY <1>17 DEF RemoveOld, Goto
<1>18. ASSUME NEW t \in Threads, Publish(t) PROVE FullyPopulated'
  BY <1>18 DEF Publish, Goto
<1>19. ASSUME NEW t \in Threads, RenameFails(t) PROVE FullyPopulated'
  BY <1>19 DEF RenameFails, Goto
<1>20. ASSUME NEW t \in Threads, Fail(t) PROVE FullyPopulated'
  BY <1>20 DEF Fail, Return, Goto, ReleaseAll, Unlock
<1>21. ASSUME NEW t \in Threads, NoSweep(t) PROVE FullyPopulated'
  BY <1>21 DEF NoSweep, EndSweep, Return, Goto, ReleaseAll, Unlock
<1>22. ASSUME NEW t \in Threads, Scan(t) PROVE FullyPopulated'
  BY <1>22 DEF Scan, Goto
<1>23. ASSUME NEW t \in Threads, EvictDone(t) PROVE FullyPopulated'
  BY <1>23 DEF EvictDone, EndSweep, Return, Goto, ReleaseAll, Unlock
<1>24. ASSUME NEW t \in Threads, EvictKeep(t) PROVE FullyPopulated'
  BY <1>24 DEF EvictKeep, Skip
<1>25. ASSUME NEW t \in Threads, EvictLookup(t) PROVE FullyPopulated'
  BY <1>25 DEF EvictLookup, Goto, MutexFor
<1>26. ASSUME NEW t \in Threads, EvictTryLock(t) PROVE FullyPopulated'
  BY <1>26 DEF EvictTryLock, Goto
<1>27. ASSUME NEW t \in Threads, EvictBusy(t) PROVE FullyPopulated'
  BY <1>27 DEF EvictBusy, Goto, Skip
<1>28. ASSUME NEW t \in Threads, EvictBegin(t) PROVE FullyPopulated'
  BY <1>28 DEF EvictBegin, Goto
<1>29. ASSUME NEW t \in Threads, EvictEnd(t) PROVE FullyPopulated'
  BY <1>29 DEF EvictEnd, Goto, Skip, EvictUnlock, ForgetMutex
<1>30. ASSUME NEW t \in Threads, EvictFails(t) PROVE FullyPopulated'
  BY <1>30 DEF EvictFails, Goto, Skip, EvictUnlock
<1>31. ASSUME NEW t \in Threads, Reply(t) PROVE FullyPopulated'
  BY <1>31 DEF Reply, Goto
<1>32. ASSUME NEW t \in Threads, NEW r \in Renditions, Request(t, r) PROVE FullyPopulated'
  BY <1>32 DEF Request, Goto
<1>33. ASSUME NEW t \in Threads, ForceSweep(t) PROVE FullyPopulated'
  BY <1>33 DEF ForceSweep, Goto
<1>34. CASE Crash
  BY <1>34 DEF Crash
<1> QED
  BY <1>1, <1>2, <1>3, <1>4, <1>5, <1>6, <1>7, <1>8, <1>9, <1>10, <1>11, <1>12, <1>13, <1>14, <1>15, <1>16, <1>17, <1>18, <1>19, <1>20, <1>21, <1>22, <1>23, <1>24, <1>25, <1>26, <1>27, <1>28, <1>29, <1>30, <1>31, <1>32, <1>33, <1>34 DEF Next, Step, Find, Segment, Evict

LEMMA LeftoversUnfinished == \A d \in Leftovers : "playlist" \notin d
<1> SUFFICES ASSUME NEW d \in Leftovers PROVE "playlist" \notin d
  OBVIOUS
<1>1. d = {} \/ \E s \in SUBSET Segs : d = {"dir", "truncated"} \cup s
  BY DEF Leftovers
<1> QED
  BY <1>1, SegsAssumption

LEMMA InitNoCap ==
  ASSUME Init
  PROVE  NoCapInv
<1> USE NoneIsNothing, SegsAssumption DEF Init
<1>1. Registered
  BY DEF Registered
<1>2. \A t \in Threads : PartOK(t) /\ CacheOK(t)
  BY DEF PartOK, CacheOK, SegmentingPcs
<1>3. FullyPopulated
  BY LeftoversUnfinished DEF FullyPopulated
<1> QED
  BY <1>1, <1>2, <1>3 DEF NoCapInv

LEMMA ApartInNoCap ==
  ASSUME IInv, NoCapInv
  PROVE  Apart
  BY OneLocked DEF Apart, IInv, NoCapInv

LEMMA ExclusiveInNoCap ==
  ASSUME IInv, NoCapInv
  PROVE  Exclusive
<1> SUFFICES ASSUME NEW t \in Threads, NEW u \in Threads,
                    t # u, Segmenting(t), Segmenting(u)
             PROVE  req[t] # req[u]
  BY DEF Exclusive
<1>1. Locked(t) /\ Locked(u)
  BY NoneIsNothing DEF Locked, LockedPcs, Segmenting, SegmentingPcs, IInv, Shape
<1> QED
  BY <1>1, ApartInNoCap DEF Apart

LEMMA StepNoCap ==
  ASSUME MaxBytes = 0, IInv, NoCapInv, [Next]_vars
  PROVE  NoCapInv'
<1>1. CASE Next
  <2>1. Registered'
    BY <1>1, RegisteredStep DEF IInv, NoCapInv
  <2>2. \A t \in Threads : PartOK(t)'
    BY <1>1, ExclusiveInNoCap, PartStep DEF IInv, NoCapInv
  <2>3. \A t \in Threads : CacheOK(t)'
    BY <1>1, ApartInNoCap, CacheStep DEF IInv, NoCapInv
  <2>4. FullyPopulated'
    BY <1>1, PopulatedStep DEF IInv, NoCapInv
  <2> QED
    BY <2>1, <2>2, <2>3, <2>4 DEF NoCapInv
<1>2. CASE UNCHANGED vars
  <2> USE <1>2 DEF vars, disk, locks, local
  <2>1. Registered' /\ FullyPopulated'
    BY DEF NoCapInv, Registered, FullyPopulated
  <2>2. \A t \in Threads : PartOK(t)' /\ CacheOK(t)'
    BY DEF NoCapInv, PartOK, CacheOK
  <2> QED
    BY <2>1, <2>2 DEF NoCapInv
<1> QED
  BY <1>1, <1>2

LEMMA NoCapHolds ==
  ASSUME MaxBytes = 0
  PROVE  Spec => []NoCapInv
<1>1. IInv /\ NoCapInv /\ [Next]_vars => NoCapInv'
  BY StepNoCap
<1>2. Init => NoCapInv
  BY InitNoCap
<1> QED
  BY <1>1, <1>2, InvariantHolds, PTL DEF Spec

\* Without a cap, at most one thread segments a rendition at a time: the races
\* around mutex_for and try_lock are harmless as long as no mutex is forgotten.
THEOREM SingleWriter ==
  ASSUME MaxBytes = 0
  PROVE  Spec => []Exclusive
<1>1. IInv /\ NoCapInv => Exclusive
  BY ExclusiveInNoCap
<1> QED
  BY <1>1, InvariantHolds, NoCapHolds, PTL

\* Without a cap, a complete playlist in the cache has all its segments, whatever
\* ffmpeg did and wherever the server crashed.
THEOREM NeverHalfWritten ==
  ASSUME MaxBytes = 0
  PROVE  Spec => []Populated
<1>1. NoCapInv => Populated
  BY DEF NoCapInv, FullyPopulated, Populated, Full
<1> QED
  BY <1>1, NoCapHolds, PTL

Kept ==
  \A r \in Renditions : "playlist" \in cache[r] => "playlist" \in cache'[r]

LEMMA KeptStep ==
  ASSUME MaxBytes = 0, IInv, NoCapInv, Next
  PROVE  Kept
<1> USE NoneIsNothing, SegsAssumption DEF IInv, TypeOK, Shape, NoCapInv, Registered,
      SegmentingPcs, PartOK, CacheOK, Full, Kept, disk, locks, local, sweep
<1>1. ASSUME NEW t \in Threads, FastPath(t) PROVE Kept
  BY <1>1 DEF FastPath, Goto
<1>2. ASSUME NEW t \in Threads, Touch(t) PROVE Kept
  BY <1>2 DEF Touch, Return, Goto
<1>3. ASSUME NEW t \in Threads, Lookup(t) PROVE Kept
  BY <1>3 DEF Lookup, Goto, MutexFor
<1>4. ASSUME NEW t \in Threads, TryLock(t) PROVE Kept
  BY <1>4 DEF TryLock, Goto
<1>5. ASSUME NEW t \in Threads, TryLockBusy(t) PROVE Kept
  BY <1>5 DEF TryLockBusy, Return, Goto
<1>6. ASSUME NEW t \in Threads, RecheckComplete(t) PROVE Kept
  BY <1>6 DEF RecheckComplete, Return, Goto, Unlock
<1>7. ASSUME NEW t \in Threads, RecheckIncomplete(t) PROVE Kept
  BY <1>7 DEF RecheckIncomplete, Goto
<1>8. ASSUME NEW t \in Threads, SourceMissing(t) PROVE Kept
  BY <1>8 DEF SourceMissing, Return, Goto, Unlock
<1>9. ASSUME NEW t \in Threads, NoSlot(t) PROVE Kept
  BY <1>9 DEF NoSlot, Return, Goto, Unlock
<1>10. ASSUME NEW t \in Threads, TakeSlot(t) PROVE Kept
  BY <1>10 DEF TakeSlot, Goto
<1>11. ASSUME NEW t \in Threads, StartFfmpeg(t) PROVE Kept
  BY <1>11 DEF StartFfmpeg, Goto
<1>12. ASSUME NEW t \in Threads, CannotCreatePart(t) PROVE Kept
  BY <1>12 DEF CannotCreatePart, Return, Goto, ReleaseAll, Unlock
<1>13. ASSUME NEW t \in Threads, WriteSegment(t) PROVE Kept
  BY <1>13 DEF WriteSegment
<1>14. ASSUME NEW t \in Threads, FinishFfmpeg(t) PROVE Kept
  BY <1>14 DEF FinishFfmpeg, Goto
<1>15. ASSUME NEW t \in Threads, FfmpegFails(t) PROVE Kept
  BY <1>15 DEF FfmpegFails, Goto
<1>16. ASSUME NEW t \in Threads, CheckPart(t) PROVE Kept
  BY <1>16 DEF CheckPart, Goto
<1>17. ASSUME NEW t \in Threads, RemoveOld(t) PROVE Kept
  BY <1>17 DEF RemoveOld, Goto
<1>18. ASSUME NEW t \in Threads, Publish(t) PROVE Kept
  BY <1>18 DEF Publish, Goto
<1>19. ASSUME NEW t \in Threads, RenameFails(t) PROVE Kept
  BY <1>19 DEF RenameFails, Goto
<1>20. ASSUME NEW t \in Threads, Fail(t) PROVE Kept
  BY <1>20 DEF Fail, Return, Goto, ReleaseAll, Unlock
<1>21. ASSUME NEW t \in Threads, NoSweep(t) PROVE Kept
  BY <1>21 DEF NoSweep, EndSweep, Return, Goto, ReleaseAll, Unlock
<1>22. ASSUME NEW t \in Threads, Scan(t) PROVE Kept
  BY <1>22 DEF Scan, Goto
<1>23. ASSUME NEW t \in Threads, EvictDone(t) PROVE Kept
  BY <1>23 DEF EvictDone, EndSweep, Return, Goto, ReleaseAll, Unlock
<1>24. ASSUME NEW t \in Threads, EvictKeep(t) PROVE Kept
  BY <1>24 DEF EvictKeep, Skip
<1>25. ASSUME NEW t \in Threads, EvictLookup(t) PROVE Kept
  BY <1>25 DEF EvictLookup, Goto, MutexFor
<1>26. ASSUME NEW t \in Threads, EvictTryLock(t) PROVE Kept
  BY <1>26 DEF EvictTryLock, Goto
<1>27. ASSUME NEW t \in Threads, EvictBusy(t) PROVE Kept
  BY <1>27 DEF EvictBusy, Goto, Skip
<1>28. ASSUME NEW t \in Threads, EvictBegin(t) PROVE Kept
  BY <1>28 DEF EvictBegin, Goto
<1>29. ASSUME NEW t \in Threads, EvictEnd(t) PROVE Kept
  BY <1>29 DEF EvictEnd, Goto, Skip, EvictUnlock, ForgetMutex
<1>30. ASSUME NEW t \in Threads, EvictFails(t) PROVE Kept
  BY <1>30 DEF EvictFails, Goto, Skip, EvictUnlock
<1>31. ASSUME NEW t \in Threads, Reply(t) PROVE Kept
  BY <1>31 DEF Reply, Goto
<1>32. ASSUME NEW t \in Threads, NEW r \in Renditions, Request(t, r) PROVE Kept
  BY <1>32 DEF Request, Goto
<1>33. ASSUME NEW t \in Threads, ForceSweep(t) PROVE Kept
  BY <1>33 DEF ForceSweep, Goto
<1>34. CASE Crash
  BY <1>34 DEF Crash
<1> QED
  BY <1>1, <1>2, <1>3, <1>4, <1>5, <1>6, <1>7, <1>8, <1>9, <1>10, <1>11, <1>12, <1>13, <1>14, <1>15, <1>16, <1>17, <1>18, <1>19, <1>20, <1>21, <1>22, <1>23, <1>24, <1>25, <1>26, <1>27, <1>28, <1>29, <1>30, <1>31, <1>32, <1>33, <1>34 DEF Next, Step, Find, Segment, Evict

\* Without a cap, no step of any thread takes a published playlist away: the two
\* calls of remove_all in ensure_segments only ever see incomplete directories.
THEOREM Monotonic ==
  ASSUME MaxBytes = 0
  PROVE  Spec => NeverUnpublished
<1>1. IInv /\ NoCapInv /\ [Next]_vars => [Kept]_vars
  BY KeptStep
<1> QED
  BY <1>1, InvariantHolds, NoCapHolds, PTL DEF Spec, NeverUnpublished, Kept

-----------------------------------------------------------------------------
(* Segmenter implements SegmentCache.                                      *)

LEMMA RefinesInit ==
  ASSUME Init
  PROVE  Abstract!Init
<1> USE NoneIsNothing, SegsAssumption DEF Init
<1>1. publishedBar = {}
  <2>1. \A r \in Renditions : "playlist" \notin cache[r]
    BY LeftoversUnfinished
  <2> QED
    BY <2>1 DEF publishedBar, Full
<1>2. workingBar = [t \in Threads |-> None]
  BY DEF workingBar, Segmenting, SegmentingPcs
<1>3. servedBar = [t \in Threads |-> None]
  BY DEF servedBar
<1> QED
  BY <1>1, <1>2, <1>3 DEF Abstract!Init

Stutter == UNCHANGED <<publishedBar, workingBar, servedBar>>

\* SegmentCache brings its own copy of FiniteSets.
LEMMA SameCardinality ==
  ASSUME NEW S
  PROVE  Abstract!Cardinality(S) = Cardinality(S)
  BY DEF Abstract!Cardinality, Cardinality

\* A free slot means fewer threads at work than slots.
LEMMA RoomForOne ==
  ASSUME IInv, slots > 0
  PROVE  Abstract!Cardinality(Abstract!Working) < MaxTranscodes
<1>1. Abstract!Working \subseteq SlottedThreads
  BY NoneIsNothing DEF Abstract!Working, workingBar, SlottedThreads, Slotted, SlottedPcs,
     LockedPcs, Segmenting, SegmentingPcs, IInv, Shape
<1>2. Cardinality(Abstract!Working) <= Cardinality(SlottedThreads)
  BY <1>1, SlottedIsFinite, FS_Subset
<1>3. Cardinality(Abstract!Working) \in Nat
  BY <1>1, SlottedIsFinite, FS_Subset, FS_CardinalityType
<1>4. Cardinality(SlottedThreads) < MaxTranscodes
  BY SlottedIsFinite, SlotsAssumption DEF IInv, TypeOK, SlotsConserved, SlottedThreads
<1> QED
  BY <1>2, <1>3, <1>4, SlottedIsFinite, SlotsAssumption, SameCardinality

LEMMA BeginOrServe ==
  ASSUME NEW t \in Threads, NEW r \in Renditions,
         Abstract!Begin(t, r) \/ Abstract!Serve(t, r)
  PROVE  Abstract!Next
  BY DEF Abstract!Next

LEMMA RefinesStep ==
  ASSUME MaxBytes = 0, IInv, NoCapInv, Next
  PROVE  Abstract!Next \/ Stutter
<1> USE NoneIsNothing, SegsAssumption, ApartInNoCap DEF IInv, TypeOK, Shape, NoCapInv, Registered,
      Apart, Locked, LockedPcs, Segmenting, SegmentingPcs, PartOK, CacheOK, FullyPopulated, Full, publishedBar,
      workingBar, servedBar, Stutter, disk, locks, local, sweep
<1>1. ASSUME NEW t \in Threads, FastPath(t) PROVE Abstract!Next \/ Stutter
  BY <1>1 DEF FastPath, Goto
<1>2. ASSUME NEW t \in Threads, Touch(t) PROVE Abstract!Next \/ Stutter
  <2> USE <1>2 DEF Touch, Return, Goto
  <2>1. PICK r \in Renditions : r = req[t] /\ r \in publishedBar
    OBVIOUS
  <2>2. servedBar' = [servedBar EXCEPT ![t] = r]
    BY <2>1
  <2>3. UNCHANGED <<publishedBar, workingBar>>
    OBVIOUS
  <2>4. Abstract!Serve(t, r)
    BY <2>1, <2>2, <2>3 DEF Abstract!Serve
  <2> QED
    BY <2>4, BeginOrServe
<1>3. ASSUME NEW t \in Threads, Lookup(t) PROVE Abstract!Next \/ Stutter
  BY <1>3 DEF Lookup, Goto, MutexFor
<1>4. ASSUME NEW t \in Threads, TryLock(t) PROVE Abstract!Next \/ Stutter
  BY <1>4 DEF TryLock, Goto
<1>5. ASSUME NEW t \in Threads, TryLockBusy(t) PROVE Abstract!Next \/ Stutter
  BY <1>5 DEF TryLockBusy, Return, Goto
<1>6. ASSUME NEW t \in Threads, RecheckComplete(t) PROVE Abstract!Next \/ Stutter
  <2> USE <1>6 DEF RecheckComplete, Return, Goto, Unlock
  <2>1. PICK r \in Renditions : r = req[t] /\ r \in publishedBar
    OBVIOUS
  <2>2. servedBar' = [servedBar EXCEPT ![t] = r]
    BY <2>1
  <2>3. UNCHANGED <<publishedBar, workingBar>>
    OBVIOUS
  <2>4. Abstract!Serve(t, r)
    BY <2>1, <2>2, <2>3 DEF Abstract!Serve
  <2> QED
    BY <2>4, BeginOrServe
<1>7. ASSUME NEW t \in Threads, RecheckIncomplete(t) PROVE Abstract!Next \/ Stutter
  BY <1>7 DEF RecheckIncomplete, Goto
<1>8. ASSUME NEW t \in Threads, SourceMissing(t) PROVE Abstract!Next \/ Stutter
  BY <1>8 DEF SourceMissing, Return, Goto, Unlock
<1>9. ASSUME NEW t \in Threads, NoSlot(t) PROVE Abstract!Next \/ Stutter
  BY <1>9 DEF NoSlot, Return, Goto, Unlock
<1>10. ASSUME NEW t \in Threads, TakeSlot(t) PROVE Abstract!Next \/ Stutter
  <2> USE <1>10 DEF TakeSlot, Goto
  <2>1. PICK r \in Renditions : r = req[t] /\ r \notin publishedBar
    OBVIOUS
  <2>2. workingBar[t] = None
    OBVIOUS
  <2>3. \A u \in Threads : workingBar[u] # r
    BY <2>1
  <2>4. workingBar' = [workingBar EXCEPT ![t] = r]
    BY <2>1
  <2>5. UNCHANGED <<publishedBar, servedBar>>
    OBVIOUS
  <2>6. Abstract!Cardinality(Abstract!Working) < MaxTranscodes
    BY RoomForOne
  <2>7. Abstract!Begin(t, r)
    <3> HIDE DEF publishedBar, workingBar, servedBar, TypeOK, Shape, NoCapInv, IInv, TakeSlot
    <3> QED
      BY <2>1, <2>2, <2>3, <2>4, <2>5, <2>6 DEF Abstract!Begin
  <2> QED
    BY <2>7, BeginOrServe
<1>11. ASSUME NEW t \in Threads, StartFfmpeg(t) PROVE Abstract!Next \/ Stutter
  BY <1>11 DEF StartFfmpeg, Goto
<1>12. ASSUME NEW t \in Threads, CannotCreatePart(t) PROVE Abstract!Next \/ Stutter
  <2> USE <1>12 DEF CannotCreatePart, Return, Goto, ReleaseAll, Unlock
  <2>1. workingBar[t] # None
    OBVIOUS
  <2>2. workingBar' = [workingBar EXCEPT ![t] = None]
    OBVIOUS
  <2>3. UNCHANGED <<publishedBar, servedBar>>
    OBVIOUS
  <2>4. Abstract!GiveUp(t)
    BY <2>1, <2>2, <2>3 DEF Abstract!GiveUp
  <2> QED
    BY <2>4 DEF Abstract!Next
<1>13. ASSUME NEW t \in Threads, WriteSegment(t) PROVE Abstract!Next \/ Stutter
  BY <1>13 DEF WriteSegment
<1>14. ASSUME NEW t \in Threads, FinishFfmpeg(t) PROVE Abstract!Next \/ Stutter
  BY <1>14 DEF FinishFfmpeg, Goto
<1>15. ASSUME NEW t \in Threads, FfmpegFails(t) PROVE Abstract!Next \/ Stutter
  BY <1>15 DEF FfmpegFails, Goto
<1>16. ASSUME NEW t \in Threads, CheckPart(t) PROVE Abstract!Next \/ Stutter
  BY <1>16 DEF CheckPart, Goto
<1>17. ASSUME NEW t \in Threads, RemoveOld(t) PROVE Abstract!Next \/ Stutter
  BY <1>17 DEF RemoveOld, Goto
<1>18. ASSUME NEW t \in Threads, Publish(t) PROVE Abstract!Next \/ Stutter
  <2> USE <1>18 DEF Publish, Goto
  <2>1. workingBar[t] = req[t] /\ req[t] \in Renditions
    OBVIOUS
  <2>2. publishedBar' = publishedBar \cup {req[t]}
    OBVIOUS
  <2>3. workingBar' = [workingBar EXCEPT ![t] = None]
    OBVIOUS
  <2>4. UNCHANGED servedBar
    OBVIOUS
  <2>5. Abstract!Publish(t)
    BY <2>1, <2>2, <2>3, <2>4 DEF Abstract!Publish
  <2> QED
    BY <2>5 DEF Abstract!Next
<1>19. ASSUME NEW t \in Threads, RenameFails(t) PROVE Abstract!Next \/ Stutter
  BY <1>19 DEF RenameFails, Goto
<1>20. ASSUME NEW t \in Threads, Fail(t) PROVE Abstract!Next \/ Stutter
  <2> USE <1>20 DEF Fail, Return, Goto, ReleaseAll, Unlock
  <2>1. workingBar[t] # None
    OBVIOUS
  <2>2. workingBar' = [workingBar EXCEPT ![t] = None]
    OBVIOUS
  <2>3. UNCHANGED <<publishedBar, servedBar>>
    OBVIOUS
  <2>4. Abstract!GiveUp(t)
    BY <2>1, <2>2, <2>3 DEF Abstract!GiveUp
  <2> QED
    BY <2>4 DEF Abstract!Next
<1>21. ASSUME NEW t \in Threads, NoSweep(t) PROVE Abstract!Next \/ Stutter
  <2> USE <1>21 DEF NoSweep, EndSweep, Return, Goto, ReleaseAll, Unlock
  <2>1. CASE handle[t] = None
    BY <2>1
  <2>2. CASE handle[t] # None
    <3> USE <2>2
    <3>1. PICK r \in Renditions : r = req[t] /\ r \in publishedBar
      OBVIOUS
    <3>2. pc' = [pc EXCEPT ![t] = "reply"] /\ answer' = [answer EXCEPT ![t] = "ok"]
          /\ UNCHANGED req
      OBVIOUS
    <3>5. pc[t] = "sweep"
      OBVIOUS
    <3>6. servedBar' = [servedBar EXCEPT ![t] = r]
      <4> HIDE DEF NoSweep, EndSweep
      <4> QED
        BY <3>1, <3>2, <3>5
    <3>3. UNCHANGED <<publishedBar, workingBar>>
      OBVIOUS
    <3>4. Abstract!Serve(t, r)
      BY <3>1, <3>6, <3>3 DEF Abstract!Serve
    <3> QED
      BY <3>4, BeginOrServe
  <2> QED
    BY <2>1, <2>2
<1>22. ASSUME NEW t \in Threads, Scan(t) PROVE Abstract!Next \/ Stutter
  BY <1>22 DEF Scan, Goto
<1>23. ASSUME NEW t \in Threads, EvictDone(t) PROVE Abstract!Next \/ Stutter
  BY <1>23 DEF EvictDone, EndSweep, Return, Goto, ReleaseAll, Unlock
<1>24. ASSUME NEW t \in Threads, EvictKeep(t) PROVE Abstract!Next \/ Stutter
  BY <1>24 DEF EvictKeep, Skip
<1>25. ASSUME NEW t \in Threads, EvictLookup(t) PROVE Abstract!Next \/ Stutter
  BY <1>25 DEF EvictLookup, Goto, MutexFor
<1>26. ASSUME NEW t \in Threads, EvictTryLock(t) PROVE Abstract!Next \/ Stutter
  BY <1>26 DEF EvictTryLock, Goto
<1>27. ASSUME NEW t \in Threads, EvictBusy(t) PROVE Abstract!Next \/ Stutter
  BY <1>27 DEF EvictBusy, Goto, Skip
<1>28. ASSUME NEW t \in Threads, EvictBegin(t) PROVE Abstract!Next \/ Stutter
  BY <1>28 DEF EvictBegin, Goto
<1>29. ASSUME NEW t \in Threads, EvictEnd(t) PROVE Abstract!Next \/ Stutter
  BY <1>29 DEF EvictEnd, Goto, Skip, EvictUnlock, ForgetMutex
<1>30. ASSUME NEW t \in Threads, EvictFails(t) PROVE Abstract!Next \/ Stutter
  BY <1>30 DEF EvictFails, Goto, Skip, EvictUnlock
<1>31. ASSUME NEW t \in Threads, Reply(t) PROVE Abstract!Next \/ Stutter
  <2> USE <1>31 DEF Reply, Goto
  <2>1. servedBar' = [servedBar EXCEPT ![t] = None]
    OBVIOUS
  <2>2. UNCHANGED <<publishedBar, workingBar>>
    OBVIOUS
  <2>3. Abstract!Done(t)
    BY <2>1, <2>2 DEF Abstract!Done
  <2> QED
    BY <2>3 DEF Abstract!Next
<1>32. ASSUME NEW t \in Threads, NEW r \in Renditions, Request(t, r) PROVE Abstract!Next \/ Stutter
  BY <1>32 DEF Request, Goto
<1>33. ASSUME NEW t \in Threads, ForceSweep(t) PROVE Abstract!Next \/ Stutter
  BY <1>33 DEF ForceSweep, Goto
<1>34. CASE Crash
  <2> USE <1>34 DEF Crash
  <2>1. workingBar' = [t \in Threads |-> None] /\ servedBar' = [t \in Threads |-> None]
    OBVIOUS
  <2>2. UNCHANGED publishedBar
    OBVIOUS
  <2>3. Abstract!Crash
    BY <2>1, <2>2 DEF Abstract!Crash
  <2> QED
    BY <2>3 DEF Abstract!Next
<1> QED
  BY <1>1, <1>2, <1>3, <1>4, <1>5, <1>6, <1>7, <1>8, <1>9, <1>10, <1>11, <1>12, <1>13, <1>14, <1>15, <1>16, <1>17, <1>18, <1>19, <1>20, <1>21, <1>22, <1>23, <1>24, <1>25, <1>26, <1>27, <1>28, <1>29, <1>30, <1>31, <1>32, <1>33, <1>34 DEF Next, Step, Find, Segment, Evict

\* Without a cap, Segmenter implements SegmentCache: callers see an atomic,
\* single-writer, monotonic cache with at most MaxTranscodes transcodes.
THEOREM Refinement ==
  ASSUME MaxBytes = 0
  PROVE  Spec => ImplementsSegmentCache
<1>1. Init => Abstract!Init
  BY RefinesInit
<1>2. IInv /\ NoCapInv /\ [Next]_vars => [Abstract!Next]_(Abstract!vars)
  <2>1. ASSUME IInv, NoCapInv, Next PROVE [Abstract!Next]_(Abstract!vars)
    BY <2>1, RefinesStep DEF Stutter, Abstract!vars
  <2>2. ASSUME UNCHANGED vars PROVE UNCHANGED Abstract!vars
    BY <2>2 DEF vars, disk, locks, local, Abstract!vars, publishedBar, workingBar,
         servedBar, Segmenting
  <2> QED
    BY <2>1, <2>2
<1> QED
  BY <1>1, <1>2, InvariantHolds, NoCapHolds, PTL
     DEF Spec, ImplementsSegmentCache, Abstract!Spec
-----------------------------------------------------------------------------
(* A sweep that nothing disturbs: no other thread, no crash, and remove_all *)
(* deletes what it is asked to.                                             *)

Undisturbed ==
  /\ \A t, u \in Threads : t = u
  /\ "crash" \notin Events /\ "remove" \notin Events

SweepPcs == {"evict", "grab", "remove", "removing"}

\* A mutex belongs to the rendition it was registered for.
Named ==
  /\ \A r \in Renditions : registry[r] # None => registry[r][1] = r
  /\ \A t \in Threads : handle[t] # None => handle[t][1] = req[t]

\* No two renditions were used at the same time, and only a directory has files.
Ranked == used \in Ranks
Rooted == \A r \in Renditions : cache[r] # {} => "dir" \in cache[r]

\* What the cache takes without r.
FilesBut(r) == {f \in (Renditions \ {r}) \X Segs : f[2] \in cache[f[1]]}
BytesBut(r) == Cardinality(FilesBut(r))

\* total_bytes is what the directory walk would add up to now.
Counted(t) ==
  /\ pc[t] # "removing" => total[t] = CacheBytes
  /\ pc[t] = "removing" =>
       \A e \in entries[t] : Oldest(t, e) => total[t] = e.bytes + BytesBut(e.id)

\* The entries left describe every directory left, but the one to keep.
Listed(t) ==
  /\ \A e \in entries[t] :
       /\ e.used = used[e.id]
       /\ e.bytes = Bytes(cache[e.id]) \/ (pc[t] = "removing" /\ Oldest(t, e))
  /\ \A e, f \in entries[t] : e.id = f.id => e = f
  /\ \A r \in Present : r = req[t] \/ \E e \in entries[t] : e.id = r

\* The mutex the sweep tries to lock is that of its current entry.
Aimed(t) ==
  \E e \in entries[t] : AtEntry(t, e) /\ e.id # req[t] /\ grab[t][1] = e.id

SweepOK(t) ==
  /\ pc[t] \in SweepPcs => Listed(t) /\ Counted(t)
  /\ pc[t] \in SweepPcs \ {"evict"} => Aimed(t)

SweepInv ==
  /\ Named /\ Ranked /\ Rooted
  /\ \A t \in Threads : SweepOK(t)

\* The cache's bytes are those of one directory and those of the others.
LEMMA BytesSplit ==
  ASSUME NEW r \in Renditions
  PROVE  /\ CacheBytes = Bytes(cache[r]) + BytesBut(r)
         /\ Bytes(cache[r]) \in Nat /\ BytesBut(r) \in Nat
<1> DEFINE A == {r} \X (cache[r] \cap Segs)
           C == {f \in Renditions \X Segs : f[2] \in cache[f[1]]}
<1>1. IsFiniteSet(cache[r] \cap Segs) /\ Cardinality(cache[r] \cap Segs) \in Nat
  BY FiniteAssumption, FS_Subset, FS_CardinalityType, cache[r] \cap Segs \subseteq Segs
<1>2. IsFiniteSet({r}) /\ Cardinality({r}) = 1
  BY FS_Singleton
<1>3. IsFiniteSet(A) /\ Cardinality(A) = Cardinality(cache[r] \cap Segs)
  <2>1. Cardinality(A) = Cardinality({r}) * Cardinality(cache[r] \cap Segs)
    BY <1>1, <1>2, FS_Product
  <2> QED
    BY <1>1, <1>2, <2>1, FS_Product
<1>4. IsFiniteSet(FilesBut(r)) /\ Cardinality(FilesBut(r)) \in Nat
  <2>1. IsFiniteSet(Renditions \X Segs)
    BY FiniteAssumption, FS_Product
  <2> QED
    BY <2>1, FS_Subset, FS_CardinalityType, FilesBut(r) \subseteq Renditions \X Segs
       DEF FilesBut
<1>5. C = A \cup FilesBut(r)
  BY DEF FilesBut
<1>6. A \cap FilesBut(r) = {}
  BY DEF FilesBut
<1>7. Cardinality(A \cup FilesBut(r)) =
        Cardinality(A) + Cardinality(FilesBut(r)) - Cardinality(A \cap FilesBut(r))
  BY <1>3, <1>4, FS_Union
<1>8. Cardinality(A \cap FilesBut(r)) = 0
  BY <1>6, FS_EmptySet
<1> HIDE DEF A
<1>9. Cardinality(A \cup FilesBut(r)) = Cardinality(A) + Cardinality(FilesBut(r))
  BY <1>1, <1>3, <1>4, <1>7, <1>8
<1>10. CacheBytes = Cardinality(A \cup FilesBut(r))
  BY <1>5 DEF CacheBytes
<1> QED
  BY <1>1, <1>3, <1>4, <1>9, <1>10 DEF Bytes, BytesBut

\* The steps that change the cache or the times of last use; the others do not.
LEMMA DiskSteps ==
  ASSUME Next
  PROVE  \/ UNCHANGED <<cache, used>>
         \/ \E t \in Threads :
              \/ Touch(t) \/ FinishFfmpeg(t) \/ RecheckIncomplete(t) \/ RemoveOld(t)
              \/ Publish(t) \/ EvictBegin(t) \/ EvictEnd(t)
<1> USE DEF disk
<1>1. ASSUME NEW t \in Threads, Find(t), ~ Touch(t), ~ RecheckIncomplete(t)
      PROVE  UNCHANGED <<cache, used>>
  BY <1>1 DEF Find, FastPath, Lookup, TryLock, TryLockBusy, RecheckComplete,
              SourceMissing, NoSlot, TakeSlot
<1>2. ASSUME NEW t \in Threads, Segment(t), ~ FinishFfmpeg(t), ~ RemoveOld(t), ~ Publish(t)
      PROVE  UNCHANGED <<cache, used>>
  BY <1>2 DEF Segment, StartFfmpeg, CannotCreatePart, WriteSegment, FfmpegFails,
              CheckPart, RenameFails, Fail
<1>3. ASSUME NEW t \in Threads, Evict(t), ~ EvictBegin(t), ~ EvictEnd(t)
      PROVE  UNCHANGED <<cache, used>>
  BY <1>3 DEF Evict, NoSweep, EndSweep, Scan, EvictDone, EvictKeep, EvictLookup,
              EvictTryLock, EvictBusy, EvictFails
<1>4. ASSUME NEW t \in Threads, Reply(t) \/ ForceSweep(t)
      PROVE  UNCHANGED <<cache, used>>
  BY <1>4 DEF Reply, ForceSweep
<1>5. ASSUME NEW t \in Threads, NEW r \in Renditions, Request(t, r)
      PROVE  UNCHANGED <<cache, used>>
  BY <1>5 DEF Request
<1>6. CASE Crash
  BY <1>6 DEF Crash
<1> QED
  BY <1>1, <1>2, <1>3, <1>4, <1>5, <1>6 DEF Next, Step

\* Touching a playlist keeps the ranks distinct and within bounds.
LEMMA TouchedRanked ==
  ASSUME Ranked, NEW r \in Renditions
  PROVE  TouchedRank(r) \in Ranks
<1> DEFINE f == TouchedRank(r)
<1>1. used \in [Renditions -> 1..Count]
      /\ \A a, b \in Renditions : used[a] = used[b] => a = b
  BY DEF Ranked, Ranks
<1>2. Count \in Nat /\ Count > 0
  BY CountIsNat
<1>3. ASSUME NEW x \in Renditions PROVE f[x] \in 1..Count /\ (x # r => f[x] < Count)
  <2>1. used[x] \in 1..Count /\ used[r] \in 1..Count
    BY <1>1
  <2>2. CASE x = r
    BY <2>2, <1>2 DEF TouchedRank
  <2>3. CASE x # r /\ used[x] > used[r]
    BY <2>1, <2>3, <1>2 DEF TouchedRank
  <2>4. CASE x # r /\ ~ (used[x] > used[r])
    <3>1. used[x] # used[r]
      BY <1>1, <2>4
    <3> QED
      BY <2>1, <2>4, <3>1, <1>2 DEF TouchedRank
  <2> QED
    BY <2>2, <2>3, <2>4
<1>4. ASSUME NEW a \in Renditions, NEW b \in Renditions, f[a] = f[b] PROVE a = b
  <2>1. used[a] \in 1..Count /\ used[b] \in 1..Count /\ used[r] \in 1..Count
    BY <1>1
  <2>2. CASE a = r \/ b = r
    <3>1. f[r] = Count
      BY DEF TouchedRank
    <3> QED
      BY <2>2, <3>1, <1>3, <1>4, <1>2
  <2>3. CASE a # r /\ b # r
    <3>1. used[a] # used[r] /\ used[b] # used[r]
      BY <1>1, <2>3
    <3>2. f[a] = IF used[a] > used[r] THEN used[a] - 1 ELSE used[a]
      BY <2>3 DEF TouchedRank
    <3>3. f[b] = IF used[b] > used[r] THEN used[b] - 1 ELSE used[b]
      BY <2>3 DEF TouchedRank
    <3>4. used[a] = used[b]
      BY <2>1, <3>1, <3>2, <3>3, <1>4
    <3> QED
      BY <1>1, <3>4
  <2> QED
    BY <2>2, <2>3
<1>5. f \in [Renditions -> 1..Count]
  <2>1. f = [x \in Renditions |-> f[x]]
    BY DEF TouchedRank
  <2> QED
    BY <2>1, <1>3
<1> QED
  BY <1>4, <1>5 DEF Ranks

LEMMA RankedStep ==
  ASSUME TypeOK, Shape, Ranked, Next
  PROVE  Ranked'
<1>1. CASE UNCHANGED <<cache, used>>
  BY <1>1 DEF Ranked, Ranks, Count
<1>2. ASSUME NEW t \in Threads, Touch(t) \/ FinishFfmpeg(t) PROVE Ranked'
  <2>1. req[t] \in Renditions
    BY <1>2 DEF Touch, FinishFfmpeg, Return, Goto, Shape, SegmentingPcs
  <2>2. used' = used \/ used' = TouchedRank(req[t])
    BY <1>2 DEF Touch, FinishFfmpeg
  <2> QED
    BY <2>1, <2>2, TouchedRanked DEF Ranked, Ranks, Count
<1>3. ASSUME NEW t \in Threads, RecheckIncomplete(t) \/ RemoveOld(t) \/ Publish(t)
                                \/ EvictBegin(t) \/ EvictEnd(t)
      PROVE  Ranked'
  BY <1>3 DEF RecheckIncomplete, RemoveOld, Publish, EvictBegin, EvictEnd,
              Ranked, Ranks, Count
<1> QED
  BY <1>1, <1>2, <1>3, DiskSteps

LEMMA RootedStep ==
  ASSUME TypeOK, Shape, Rooted, Next
  PROVE  Rooted'
<1> USE DEF TypeOK, Rooted
<1>1. CASE UNCHANGED <<cache, used>>
  BY <1>1
<1>2. ASSUME NEW t \in Threads, Touch(t) \/ FinishFfmpeg(t) PROVE Rooted'
  BY <1>2 DEF Touch, FinishFfmpeg
<1>3. ASSUME NEW t \in Threads, RecheckIncomplete(t) PROVE Rooted'
  BY <1>3 DEF RecheckIncomplete
<1>4. ASSUME NEW t \in Threads, RemoveOld(t) PROVE Rooted'
  BY <1>4 DEF RemoveOld
<1>5. ASSUME NEW t \in Threads, Publish(t) PROVE Rooted'
  BY <1>5 DEF Publish
<1>6. ASSUME NEW t \in Threads, EvictBegin(t) PROVE Rooted'
  BY <1>6 DEF EvictBegin, Entry
<1>7. ASSUME NEW t \in Threads, EvictEnd(t) PROVE Rooted'
  BY <1>7 DEF EvictEnd, Entry
<1> QED
  BY <1>1, <1>2, <1>3, <1>4, <1>5, <1>6, <1>7, DiskSteps

\* A mutex that mutex_for returns belongs to the rendition it was asked for.
LEMMA MutexNamed ==
  ASSUME Named, NEW r \in Renditions, NEW m, MutexFor(r, m)
  PROVE  /\ m[1] = r
         /\ \A x \in Renditions : registry'[x] # None => registry'[x][1] = x
<1> USE DEF Named
<1>1. CASE registry[r] # None
  BY <1>1 DEF MutexFor
<1>2. CASE registry[r] = None
  <2>1. /\ FreshMutexes(r) # {}
        /\ m = CHOOSE f \in FreshMutexes(r) : TRUE
        /\ registry' = [registry EXCEPT ![r] = m]
    BY <1>2 DEF MutexFor
  <2>2. m \in {r} \X (1..MaxMutexes)
    BY <2>1 DEF FreshMutexes
  <2>3. m[1] = r
    BY <2>2
  <2>4. \A x \in Renditions : registry'[x] = IF x = r /\ r \in DOMAIN registry
                                             THEN m ELSE registry[x]
    BY <2>1
  <2> QED
    BY <2>3, <2>4
<1> QED
  BY <1>1, <1>2

LEMMA NamedStep ==
  ASSUME TypeOK, Shape, Named, Next
  PROVE  Named'
<1> USE NoneIsNothing DEF TypeOK, Shape, Named, LockedPcs, SegmentingPcs,
      disk, locks, local, sweep
<1>1. ASSUME NEW t \in Threads,
             \/ FastPath(t) \/ Touch(t) \/ TryLock(t) \/ RecheckIncomplete(t)
             \/ TakeSlot(t) \/ StartFfmpeg(t) \/ WriteSegment(t) \/ FinishFfmpeg(t)
             \/ FfmpegFails(t) \/ CheckPart(t) \/ RemoveOld(t) \/ Publish(t)
             \/ RenameFails(t) \/ Scan(t) \/ EvictKeep(t) \/ EvictTryLock(t)
             \/ EvictBusy(t) \/ EvictBegin(t) \/ EvictFails(t) \/ ForceSweep(t)
      PROVE  UNCHANGED <<registry, handle, req>>
  BY <1>1 DEF FastPath, Touch, TryLock, RecheckIncomplete, TakeSlot, StartFfmpeg,
              WriteSegment, FinishFfmpeg, FfmpegFails, CheckPart, RemoveOld, Publish,
              RenameFails, Scan, EvictKeep, EvictTryLock, EvictBusy, EvictBegin,
              EvictFails, ForceSweep
<1>2. ASSUME NEW t \in Threads,
             \/ TryLockBusy(t) \/ RecheckComplete(t) \/ SourceMissing(t) \/ NoSlot(t)
             \/ CannotCreatePart(t) \/ Fail(t) \/ NoSweep(t) \/ EvictDone(t)
      PROVE  /\ UNCHANGED <<registry, req>>
             /\ handle' = handle \/ handle' = [handle EXCEPT ![t] = None]
  BY <1>2 DEF TryLockBusy, RecheckComplete, SourceMissing, NoSlot, CannotCreatePart,
              Fail, NoSweep, EvictDone, EndSweep, ReleaseAll, Unlock
<1>3. ASSUME NEW t \in Threads, Lookup(t) PROVE Named'
  <2>1. PICK m \in Mutexes : /\ MutexFor(req[t], m)
                             /\ handle' = [handle EXCEPT ![t] = m]
    BY <1>3 DEF Lookup
  <2>2. req[t] \in Renditions /\ req' = req
    BY <1>3 DEF Lookup, Goto
  <2> QED
    BY <2>1, <2>2, MutexNamed
<1>4. ASSUME NEW t \in Threads, EvictLookup(t) PROVE Named'
  <2>1. PICK e \in entries[t], m \in Mutexes : MutexFor(e.id, m)
    BY <1>4 DEF EvictLookup
  <2>2. e.id \in Renditions
    BY DEF Entry
  <2>3. UNCHANGED <<handle, req>>
    BY <1>4 DEF EvictLookup
  <2> QED
    BY <2>1, <2>2, <2>3, MutexNamed
<1>5. ASSUME NEW t \in Threads, EvictEnd(t) PROVE Named'
  BY <1>5 DEF EvictEnd, ForgetMutex
<1>6. ASSUME NEW t \in Threads, Reply(t) PROVE Named'
  BY <1>6 DEF Reply, Goto
<1>7. ASSUME NEW t \in Threads, NEW r \in Renditions, Request(t, r) PROVE Named'
  BY <1>7 DEF Request, Goto
<1>8. CASE Crash
  BY <1>8 DEF Crash
<1>9. ASSUME UNCHANGED <<registry, handle, req>> PROVE Named'
  BY <1>9
<1>10. ASSUME NEW t \in Threads, UNCHANGED <<registry, req>>,
              handle' = handle \/ handle' = [handle EXCEPT ![t] = None]
       PROVE  Named'
  BY <1>10
<1> HIDE DEF TypeOK, Shape, Named
<1> QED
  BY <1>1, <1>2, <1>3, <1>4, <1>5, <1>6, <1>7, <1>8, <1>9, <1>10
     DEF Next, Step, Find, Segment, Evict

\* Undisturbed, a step of a sweep is one of these, and any other step is taken
\* outside of the sweep and leaves the thread outside of it.
LEMMA SweepSteps ==
  ASSUME Undisturbed, TypeOK, Next, NEW t \in Threads
  PROVE  \/ pc'[t] \notin SweepPcs /\ pc[t] \notin SweepPcs
         \/ Scan(t) \/ EvictDone(t) \/ EvictKeep(t) \/ EvictLookup(t)
         \/ EvictTryLock(t) \/ EvictBusy(t) \/ EvictBegin(t) \/ EvictEnd(t)
<1> USE DEF TypeOK, SweepPcs, Goto, Return
<1>1. \A u \in Threads : u = t
  BY DEF Undisturbed
<1>2. CASE Find(t)
  BY <1>2 DEF Find, FastPath, Touch, Lookup, TryLock, TryLockBusy, RecheckComplete,
              RecheckIncomplete, SourceMissing, NoSlot, TakeSlot
<1>3. CASE Segment(t)
  BY <1>3 DEF Segment, StartFfmpeg, CannotCreatePart, WriteSegment, FinishFfmpeg,
              FfmpegFails, CheckPart, RemoveOld, Publish, RenameFails, Fail
<1>4. CASE NoSweep(t)
  BY <1>4 DEF NoSweep, EndSweep
<1>5. CASE Reply(t) \/ ForceSweep(t) \/ \E r \in Renditions : Request(t, r)
  BY <1>5 DEF Reply, ForceSweep, Request
<1>6. ~ Crash /\ ~ EvictFails(t)
  BY DEF Undisturbed, Crash, EvictFails
<1> QED
  BY <1>1, <1>2, <1>3, <1>4, <1>5, <1>6 DEF Next, Step, Evict

\* The oldest entry is the only one that is as old.
LEMMA OneOldest ==
  ASSUME TypeOK, Ranked, NEW t \in Threads, Listed(t),
         NEW e \in entries[t], NEW f \in entries[t], Oldest(t, e), Oldest(t, f)
  PROVE  e = f
<1>1. e \in Entry /\ f \in Entry
  BY DEF TypeOK
<1>2. e.used = f.used
  BY <1>1 DEF Oldest, Entry
<1>3. e.used = used[e.id] /\ f.used = used[f.id]
  BY DEF Listed
<1>4. e.id = f.id
  BY <1>1, <1>2, <1>3 DEF Ranked, Ranks, Entry
<1> QED
  BY <1>4 DEF Listed

\* The walk counts and lists what is there.
LEMMA ScanSweeps ==
  ASSUME TypeOK, Ranked, Rooted, NEW t \in Threads, Scan(t)
  PROVE  SweepOK(t)'
<1> USE DEF TypeOK
<1>1. /\ pc'[t] = "evict" /\ UNCHANGED <<cache, used, req>>
      /\ total'[t] = CacheBytes
      /\ entries'[t] = {[id |-> r, bytes |-> Bytes(cache[r]), used |-> used[r]] :
                          r \in {x \in Renditions : "dir" \in cache[x]}}
  BY DEF Scan, Goto
<1>2. Counted(t)'
  BY <1>1 DEF Counted, CacheBytes
<1>3. \A e \in entries'[t] : \E r \in Renditions :
        e = [id |-> r, bytes |-> Bytes(cache[r]), used |-> used[r]]
  BY <1>1
<1>4. \A e \in entries'[t] : e.used = used'[e.id] /\ e.bytes = Bytes(cache'[e.id])
  BY <1>1, <1>3
<1>5. \A e, f \in entries'[t] : e.id = f.id => e = f
  BY <1>3
<1>6. \A r \in Present' : \E e \in entries'[t] : e.id = r
  <2>1. SUFFICES ASSUME NEW r \in Renditions, cache[r] # {}
                 PROVE  \E e \in entries'[t] : e.id = r
    BY <1>1 DEF Present
  <2>2. "dir" \in cache[r]
    BY <2>1 DEF Rooted
  <2>3. [id |-> r, bytes |-> Bytes(cache[r]), used |-> used[r]] \in entries'[t]
    BY <1>1, <2>2
  <2> QED
    BY <2>3
<1>7. Listed(t)'
  BY <1>4, <1>5, <1>6 DEF Listed
<1> QED
  BY <1>1, <1>2, <1>7 DEF SweepOK, SweepPcs

\* The loop passes over the rendition to keep.
LEMMA KeepSweeps ==
  ASSUME TypeOK, NEW t \in Threads, SweepOK(t), EvictKeep(t)
  PROVE  SweepOK(t)'
<1> USE DEF TypeOK
<1>1. /\ pc[t] = "evict" /\ pc'[t] = "evict"
      /\ UNCHANGED <<cache, used, req>> /\ total'[t] = total[t]
  BY DEF EvictKeep, disk
<1>2. PICK e \in entries[t] : e.id = req[t] /\ entries'[t] = entries[t] \ {e}
  BY DEF EvictKeep, Skip
<1>3. Listed(t) /\ Counted(t)
  BY <1>1 DEF SweepOK, SweepPcs
<1>4. Counted(t)'
  BY <1>1, <1>3 DEF Counted, CacheBytes
<1>5. \A f \in entries'[t] : f.used = used'[f.id] /\ f.bytes = Bytes(cache'[f.id])
  BY <1>1, <1>2, <1>3 DEF Listed
<1>6. \A f, g \in entries'[t] : f.id = g.id => f = g
  BY <1>2, <1>3 DEF Listed
<1>7. \A r \in Present' : r = req'[t] \/ \E f \in entries'[t] : f.id = r
  BY <1>1, <1>2, <1>3 DEF Listed, Present
<1>8. Listed(t)'
  BY <1>5, <1>6, <1>7 DEF Listed
<1> QED
  BY <1>1, <1>4, <1>8 DEF SweepOK, SweepPcs

\* The steps of the sweep that neither change the cache nor the entries.
LEMMA SameSweep ==
  ASSUME NEW t \in Threads, Listed(t), Counted(t), pc[t] # "removing", pc'[t] # "removing",
         UNCHANGED <<cache, used, req>>, entries'[t] = entries[t], total'[t] = total[t]
  PROVE  Listed(t)' /\ Counted(t)'
  BY DEF Listed, Counted, CacheBytes, Present, Bytes

LEMMA LookupSweeps ==
  ASSUME TypeOK, Named, NEW t \in Threads, SweepOK(t), EvictLookup(t)
  PROVE  SweepOK(t)'
<1> USE DEF TypeOK
<1>1. /\ pc[t] = "evict" /\ pc'[t] = "grab"
      /\ UNCHANGED <<cache, used, req, entries, total>>
  BY DEF EvictLookup, Goto, disk
<1>2. Listed(t)' /\ Counted(t)'
  BY <1>1, SameSweep DEF SweepOK, SweepPcs
<1>3. PICK e \in entries[t], m \in Mutexes :
        /\ AtEntry(t, e) /\ e.id # req[t] /\ MutexFor(e.id, m)
        /\ grab' = [grab EXCEPT ![t] = m]
  BY DEF EvictLookup
<1>4. e.id \in Renditions /\ grab'[t] = m
  BY <1>3 DEF Entry
<1>5. grab'[t][1] = e.id
  BY <1>3, <1>4, MutexNamed
<1>6. AtEntry(t, e)'
  BY <1>1, <1>3 DEF AtEntry, Oldest
<1>7. Aimed(t)'
  BY <1>1, <1>3, <1>5, <1>6 DEF Aimed
<1> QED
  BY <1>2, <1>7 DEF SweepOK

LEMMA TryLockSweeps ==
  ASSUME TypeOK, NEW t \in Threads, SweepOK(t), EvictTryLock(t)
  PROVE  SweepOK(t)'
<1> USE DEF TypeOK
<1>1. /\ pc[t] = "grab" /\ pc'[t] = "remove"
      /\ UNCHANGED <<cache, used, req, entries, total, grab>>
  BY DEF EvictTryLock, Goto, disk, local
<1>2. Listed(t)' /\ Counted(t)'
  BY <1>1, SameSweep DEF SweepOK, SweepPcs
<1>3. Aimed(t)'
  BY <1>1 DEF SweepOK, SweepPcs, Aimed, AtEntry, Oldest
<1> QED
  BY <1>2, <1>3 DEF SweepOK

\* Nobody else holds the mutex of another rendition than the one kept.
LEMMA NeverBusy ==
  ASSUME Undisturbed, TypeOK, Shape, LocksOwned, Named, NEW t \in Threads, SweepOK(t)
  PROVE  ~ EvictBusy(t)
<1> SUFFICES ASSUME EvictBusy(t) PROVE FALSE
  OBVIOUS
<1> USE DEF TypeOK
<1>1. pc[t] = "grab" /\ owner[grab[t]] # None
  BY DEF EvictBusy, Goto
<1>2. grab[t] \in Mutexes
  BY <1>1, NoneIsNothing DEF Shape
<1>3. owner[grab[t]] = t
  BY <1>1, <1>2 DEF Undisturbed
<1>4. handle[t] = grab[t] /\ handle[t] # None
  BY <1>1, <1>2, <1>3 DEF LocksOwned, Locked
<1>5. handle[t][1] = req[t]
  BY <1>4 DEF Named
<1>6. grab[t][1] # req[t]
  BY <1>1 DEF SweepOK, SweepPcs, Aimed
<1> QED
  BY <1>4, <1>5, <1>6

\* remove_all deletes files of the current entry, and its directory last.
LEMMA BeginSweeps ==
  ASSUME TypeOK, Ranked, NEW t \in Threads, SweepOK(t), EvictBegin(t)
  PROVE  SweepOK(t)'
<1> USE DEF TypeOK
<1>1. /\ pc[t] = "remove" /\ pc'[t] = "removing"
      /\ UNCHANGED <<used, req, entries, total, grab>>
  BY DEF EvictBegin, Goto, local
<1>2. PICK e \in entries[t] : Oldest(t, e)
                              /\ \E kept \in SUBSET cache[e.id] :
                                   cache' = [cache EXCEPT ![e.id] = kept]
  BY DEF EvictBegin
<1>3. PICK kept \in SUBSET cache[e.id] : cache' = [cache EXCEPT ![e.id] = kept]
  BY <1>2
<1>4. Listed(t) /\ Counted(t) /\ Aimed(t) /\ e.id \in Renditions
  BY <1>1 DEF SweepOK, SweepPcs, Entry
<1>5. \A f \in entries[t] : (Oldest(t, f) <=> Oldest(t, f)') /\ (Oldest(t, f) => f = e)
  <2>1. ASSUME NEW f \in entries[t] PROVE Oldest(t, f) <=> Oldest(t, f)'
    BY <1>1 DEF Oldest
  <2> QED
    BY <1>2, <1>4, <2>1, OneOldest
<1>6. \A r \in Renditions \ {e.id} : cache'[r] = cache[r]
  BY <1>3
<1>7. Counted(t)'
  <2>1. e.bytes = Bytes(cache[e.id]) /\ total[t] = CacheBytes
    BY <1>1, <1>4 DEF Listed, Counted
  <2>2. BytesBut(e.id)' = BytesBut(e.id)
    <3>1. FilesBut(e.id)' = FilesBut(e.id)
      BY <1>6 DEF FilesBut
    <3> QED
      BY <3>1 DEF BytesBut
  <2>3. CacheBytes = e.bytes + BytesBut(e.id)
    BY <2>1, <1>4, BytesSplit
  <2>4. total'[t] = e.bytes + BytesBut(e.id)'
    BY <1>1, <2>1, <2>2, <2>3
  <2> QED
    BY <1>1, <1>5, <2>4 DEF Counted
<1>8. Listed(t)'
  <2>1. \A f \in entries'[t] : f.used = used'[f.id]
    BY <1>1, <1>4 DEF Listed
  <2>2. \A f \in entries'[t] : f.bytes = Bytes(cache'[f.id]) \/ Oldest(t, f)'
    <3>1. SUFFICES ASSUME NEW f \in entries[t], f # e
                   PROVE  f.bytes = Bytes(cache'[f.id])
      BY <1>1, <1>2, <1>5
    <3>2. f.id # e.id /\ f.id \in Renditions
      BY <1>4, <3>1 DEF Listed, Entry
    <3> QED
      BY <1>1, <1>4, <1>6, <3>2 DEF Listed
  <2>3. \A f, g \in entries'[t] : f.id = g.id => f = g
    BY <1>1, <1>4 DEF Listed
  <2>4. Present' \subseteq Present
    BY <1>3, <1>6 DEF Present
  <2>5. \A r \in Present' : r = req'[t] \/ \E f \in entries'[t] : f.id = r
    BY <1>1, <1>4, <2>4 DEF Listed
  <2> QED
    BY <1>1, <2>1, <2>2, <2>3, <2>5 DEF Listed
<1>9. Aimed(t)'
  BY <1>1, <1>4 DEF Aimed, AtEntry, Oldest
<1> QED
  BY <1>7, <1>8, <1>9 DEF SweepOK

\* The directory is gone, and its bytes with it.
LEMMA EndSweeps ==
  ASSUME TypeOK, Ranked, NEW t \in Threads, SweepOK(t), EvictEnd(t)
  PROVE  SweepOK(t)'
<1> USE DEF TypeOK
<1>1. /\ pc[t] = "removing" /\ pc'[t] = "evict"
      /\ UNCHANGED <<used, req>>
  BY DEF EvictEnd, Goto
<1>2. PICK e \in entries[t] : /\ Oldest(t, e)
                              /\ cache' = [cache EXCEPT ![e.id] = {}]
                              /\ total' = [total EXCEPT ![t] = @ - e.bytes]
                              /\ Skip(t, e)
  BY DEF EvictEnd
<1>3. Listed(t) /\ Counted(t) /\ e.id \in Renditions /\ e.bytes \in Nat
  BY <1>1 DEF SweepOK, SweepPcs, Entry
<1>4. \A r \in Renditions \ {e.id} : cache'[r] = cache[r]
  BY <1>2
<1>5. cache'[e.id] = {} /\ entries'[t] = entries[t] \ {e} /\ total'[t] = total[t] - e.bytes
  BY <1>2, <1>3 DEF Skip
<1>6. \A f \in entries[t] \ {e} : f.id # e.id /\ f.id \in Renditions /\ ~ Oldest(t, f)
  BY <1>2, <1>3, OneOldest DEF Listed, Entry
<1>7. Counted(t)'
  <2>1. total[t] = e.bytes + BytesBut(e.id)
    BY <1>1, <1>2, <1>3 DEF Counted
  <2>2. BytesBut(e.id) \in Nat
    BY <1>3, BytesSplit
  <2>3. total'[t] = BytesBut(e.id)
    BY <1>3, <1>5, <2>1, <2>2
  <2>4. CacheBytes' = BytesBut(e.id)
    <3>1. FilesBut(e.id) = {f \in Renditions \X Segs : f[2] \in cache'[f[1]]}
      BY <1>4, <1>5 DEF FilesBut
    <3> QED
      BY <3>1 DEF CacheBytes, BytesBut
  <2> QED
    BY <1>1, <2>3, <2>4 DEF Counted
<1>8. Listed(t)'
  <2>1. \A f \in entries'[t] : f.used = used'[f.id] /\ f.bytes = Bytes(cache'[f.id])
    BY <1>1, <1>3, <1>4, <1>5, <1>6 DEF Listed
  <2>2. \A f, g \in entries'[t] : f.id = g.id => f = g
    BY <1>3, <1>5 DEF Listed
  <2>3. ASSUME NEW r \in Present' PROVE r = req'[t] \/ \E f \in entries'[t] : f.id = r
    <3>1. r # e.id /\ r \in Present
      BY <1>4, <1>5, <2>3 DEF Present
    <3>2. r = req[t] \/ \E f \in entries[t] : f.id = r
      BY <1>3, <3>1 DEF Listed
    <3> QED
      BY <1>1, <1>5, <3>1, <3>2
  <2> QED
    BY <2>1, <2>2, <2>3 DEF Listed
<1> QED
  BY <1>1, <1>7, <1>8 DEF SweepOK, SweepPcs

LEMMA SweepStep ==
  ASSUME Undisturbed, IInv, SweepInv, Next, NEW t \in Threads
  PROVE  SweepOK(t)'
<1> USE DEF IInv, SweepInv
<1>1. CASE pc'[t] \notin SweepPcs
  BY <1>1 DEF SweepOK
<1>2. CASE EvictDone(t)
  <2>1. pc'[t] \in {"reply", "idle"}
    BY <1>2 DEF EvictDone, EndSweep, Return, Goto, TypeOK
  <2> QED
    BY <1>1, <2>1 DEF SweepPcs
<1> QED
  BY <1>1, <1>2, SweepSteps, ScanSweeps, KeepSweeps, LookupSweeps, TryLockSweeps,
     NeverBusy, BeginSweeps, EndSweeps

LEMMA StepSweepInv ==
  ASSUME Undisturbed, IInv, SweepInv, [Next]_vars
  PROVE  SweepInv'
<1>1. CASE Next
  <2>1. Named' /\ Ranked' /\ Rooted'
    BY <1>1, NamedStep, RankedStep, RootedStep DEF IInv, SweepInv
  <2>2. \A t \in Threads : SweepOK(t)'
    BY <1>1, SweepStep
  <2> QED
    BY <2>1, <2>2 DEF SweepInv
<1>2. CASE UNCHANGED vars
  <2> USE <1>2 DEF vars, disk, locks, local
  <2>1. Named' /\ Ranked' /\ Rooted'
    BY DEF SweepInv, Named, Ranked, Ranks, Count, Rooted
  <2>2. ASSUME NEW t \in Threads PROVE SweepOK(t)'
    <3>1. Listed(t)' <=> Listed(t)
      BY DEF Listed, Bytes, Oldest, Present
    <3>2. Counted(t)' <=> Counted(t)
      BY DEF Counted, CacheBytes, BytesBut, FilesBut, Oldest
    <3>3. Aimed(t)' <=> Aimed(t)
      BY DEF Aimed, AtEntry, Oldest
    <3> QED
      BY <3>1, <3>2, <3>3 DEF SweepInv, SweepOK
  <2> QED
    BY <2>1, <2>2 DEF SweepInv
<1> QED
  BY <1>1, <1>2

LEMMA InitSweepInv ==
  ASSUME Init
  PROVE  SweepInv
<1> USE DEF Init
<1>1. Named
  BY DEF Named
<1>2. Ranked
  BY DEF Ranked
<1>3. Rooted
  <2>1. \A d \in Leftovers : d # {} => "dir" \in d
    BY DEF Leftovers
  <2> QED
    BY <2>1 DEF Rooted
<1>4. \A t \in Threads : SweepOK(t)
  BY DEF SweepOK, SweepPcs
<1> QED
  BY <1>1, <1>2, <1>3, <1>4 DEF SweepInv

LEMMA SweepHolds ==
  ASSUME Undisturbed
  PROVE  Spec => []SweepInv
<1>1. IInv /\ SweepInv /\ [Next]_vars => SweepInv'
  BY StepSweepInv
<1>2. Init => SweepInv
  BY InitSweepInv
<1> QED
  BY <1>1, <1>2, InvariantHolds, PTL DEF Spec

\* An undisturbed sweep ends with the cache under its cap, or with nothing in it
\* but the rendition just published: total_bytes is exact all along, and no entry
\* is passed over but that one.
THEOREM SweepReachesCap ==
  ASSUME Undisturbed
  PROVE  Spec => CapAfterSweep
<1>1. ASSUME IInv, SweepInv, [Next]_vars, NEW t \in Threads,
             pc[t] = "evict", pc'[t] \in {"reply", "idle"}
      PROVE  CacheBytes' <= MaxBytes \/ Present' \subseteq {req[t]}
  <2>1. Next
    BY <1>1 DEF vars
  <2>2. EvictDone(t)
    <3>1. TypeOK
      BY <1>1 DEF IInv
    <3>2. ~ Scan(t) /\ ~ EvictKeep(t) /\ ~ EvictLookup(t) /\ ~ EvictTryLock(t)
          /\ ~ EvictBusy(t) /\ ~ EvictBegin(t) /\ ~ EvictEnd(t)
      BY <1>1, <3>1 DEF Scan, EvictKeep, EvictLookup, EvictTryLock, EvictBusy,
                        EvictBegin, EvictEnd, Goto, TypeOK
    <3> QED
      BY <1>1, <2>1, <3>1, <3>2, SweepSteps DEF SweepPcs
  <2>3. Listed(t) /\ total[t] = CacheBytes
    BY <1>1 DEF SweepInv, SweepOK, SweepPcs, Counted
  <2>4. cache' = cache
    BY <2>2 DEF EvictDone, EndSweep, disk
  <2>5. CASE total[t] <= MaxBytes
    BY <2>3, <2>4, <2>5 DEF CacheBytes
  <2>6. CASE entries[t] = {}
    BY <2>3, <2>4, <2>6 DEF Listed, Present
  <2> QED
    BY <2>2, <2>5, <2>6 DEF EvictDone
<1>2. IInv /\ SweepInv /\ [Next]_vars =>
        [\A t \in Threads :
           pc[t] = "evict" /\ pc'[t] \in {"reply", "idle"} =>
             CacheBytes' <= MaxBytes \/ Present' \subseteq {req[t]}]_vars
  BY <1>1
<1> QED
  BY <1>2, InvariantHolds, SweepHolds, PTL DEF Spec, CapAfterSweep

\* An undisturbed sweep deletes a rendition only while the cache is over its cap,
\* and only when every rendition less recently used is gone or the one to keep.
THEOREM OldestGoFirst ==
  ASSUME Undisturbed
  PROVE  Spec => EvictsOldestOverCap
<1>1. ASSUME IInv, SweepInv, [Next]_vars, NEW t \in Threads, NEW r \in Renditions,
             pc[t] = "remove", Removing(t, r)'
      PROVE  /\ CacheBytes > MaxBytes
             /\ \A x \in Present : used[x] < used[r] => x = req[t]
  <2>1. Next /\ TypeOK
    BY <1>1 DEF vars, local, Removing, IInv
  <2>2. EvictBegin(t)
    <3>1. ~ Scan(t) /\ ~ EvictDone(t) /\ ~ EvictKeep(t) /\ ~ EvictLookup(t)
          /\ ~ EvictTryLock(t) /\ ~ EvictBusy(t) /\ ~ EvictEnd(t)
      BY <1>1 DEF Scan, EvictDone, EndSweep, Return, EvictKeep, EvictLookup, EvictTryLock,
                  EvictBusy, EvictEnd, Goto
    <3> QED
      BY <1>1, <2>1, <3>1, SweepSteps DEF SweepPcs
  <2>3. Listed(t) /\ total[t] = CacheBytes /\ Aimed(t)
    BY <1>1 DEF SweepInv, SweepOK, SweepPcs, Counted
  <2>4. CacheBytes > MaxBytes
    BY <2>3 DEF Aimed, AtEntry
  <2>5. PICK e \in entries[t] : Oldest(t, e) /\ e.id = r
    BY <1>1, <2>2 DEF EvictBegin, Removing, Oldest, local
  <2>6. ASSUME NEW x \in Present, used[x] < used[r], x # req[t] PROVE FALSE
    <3>1. PICK f \in entries[t] : f.id = x
      BY <2>3, <2>6 DEF Listed
    <3>2. e.used <= f.used /\ e.used = used[r] /\ f.used = used[x]
      BY <2>3, <2>5, <3>1 DEF Oldest, Listed
    <3>3. used[x] \in Nat /\ used[r] \in Nat
      BY <2>1, <2>6 DEF TypeOK, Present
    <3> QED
      BY <2>6, <3>2, <3>3
  <2> QED
    BY <2>4, <2>6
<1>2. IInv /\ SweepInv /\ [Next]_vars =>
        [\A t \in Threads, r \in Renditions :
           pc[t] = "remove" /\ Removing(t, r)' =>
             /\ CacheBytes > MaxBytes
             /\ \A x \in Present : used[x] < used[r] => x = req[t]]_vars
  BY <1>1
<1> QED
  BY <1>2, InvariantHolds, SweepHolds, PTL DEF Spec, EvictsOldestOverCap

-----------------------------------------------------------------------------
(* What tears a published directory, with any cap, number of threads,      *)
(* crashes and failing removals: as long as a .part directory has one      *)
(* writer, only remove_all.                                                *)

LEMMA PartsHold == Spec /\ []Exclusive => [](\A t \in Threads : PartOK(t))
<1> DEFINE P == \A t \in Threads : PartOK(t)
<1>1. Init => P
  BY DEF Init, PartOK
<1>2. IInv /\ Exclusive /\ P /\ [Next]_vars => P'
  <2>1. ASSUME IInv, Exclusive, P, Next PROVE P'
    BY <2>1, PartStep DEF IInv
  <2>2. ASSUME P, UNCHANGED vars PROVE P'
    BY <2>2 DEF PartOK, vars, disk, local
  <2> QED
    BY <2>1, <2>2
<1> QED
  BY <1>1, <1>2, InvariantHolds, PTL DEF Spec

LEMMA TornStep ==
  ASSUME TypeOK, \A t \in Threads : PartOK(t), Next,
         NEW r \in Renditions, Torn(r)', ~ Torn(r)
  PROVE  \E t \in Threads : pc[t] = "remove" /\ Removing(t, r)'
<1> USE DEF TypeOK, Torn
<1>1. cache'[r] # cache[r] /\ "playlist" \in cache'[r] /\ ~ (Segs \subseteq cache'[r])
  OBVIOUS
<1>2. ~ UNCHANGED <<cache, used>>
  BY <1>1
<1>3. PICK t \in Threads :
        \/ Touch(t) \/ FinishFfmpeg(t) \/ RecheckIncomplete(t) \/ RemoveOld(t)
        \/ Publish(t) \/ EvictBegin(t) \/ EvictEnd(t)
  BY <1>2, DiskSteps
<1>4. CASE Touch(t) \/ FinishFfmpeg(t)
  BY <1>1, <1>4 DEF Touch, FinishFfmpeg
<1>5. CASE RecheckIncomplete(t) \/ RemoveOld(t) \/ EvictEnd(t)
  BY <1>1, <1>5 DEF RecheckIncomplete, RemoveOld, EvictEnd
<1>6. CASE Publish(t)
  <2>1. Segs \subseteq part[req[t]] /\ cache' = [cache EXCEPT ![req[t]] = part[req[t]]]
    BY <1>6 DEF Publish, Goto, PartOK, Full
  <2> QED
    BY <1>1, <2>1
<1>7. CASE EvictBegin(t)
  <2>1. PICK e \in entries[t] : /\ Oldest(t, e)
                                /\ \E kept \in SUBSET cache[e.id] :
                                     cache' = [cache EXCEPT ![e.id] = kept]
    BY <1>7 DEF EvictBegin
  <2>2. pc[t] = "remove" /\ pc'[t] = "removing" /\ entries' = entries
    BY <1>7 DEF EvictBegin, Goto, local
  <2>3. e.id = r
    BY <1>1, <2>1
  <2> QED
    BY <2>1, <2>2, <2>3 DEF Removing, Oldest
<1> QED
  BY <1>3, <1>4, <1>5, <1>6, <1>7

\* Two threads that segment hold two slots.
LEMMA OneSlotOneWriter ==
  ASSUME MaxTranscodes = 1, IInv
  PROVE  Exclusive
<1> SUFFICES ASSUME NEW t \in Threads, NEW u \in Threads,
                    t # u, Segmenting(t), Segmenting(u)
             PROVE  FALSE
  BY DEF Exclusive
<1>1. {t, u} \subseteq SlottedThreads
  BY NoneIsNothing DEF SlottedThreads, Slotted, SlottedPcs, LockedPcs, Segmenting,
     SegmentingPcs, IInv, Shape
<1>2. Cardinality({t, u}) = 2
  <2>1. IsFiniteSet({t}) /\ Cardinality({t}) = 1
    BY FS_Singleton
  <2>2. {t, u} = {t} \cup {u} /\ u \notin {t}
    OBVIOUS
  <2> QED
    BY <2>1, <2>2, FS_AddElement
<1>3. 2 <= Cardinality(SlottedThreads)
  BY <1>1, <1>2, SlottedIsFinite, FS_Subset
<1>4. slots + Cardinality(SlottedThreads) = 1 /\ slots \in Nat
  BY DEF IInv, TypeOK, SlotsConserved, SlottedThreads
<1> QED
  BY <1>3, <1>4, SlottedIsFinite

\* As long as no two threads write one .part directory, whatever the cap, the other
\* threads, crashes and failing removals: the recheck, ffmpeg, the rename and a
\* restart never leave a complete playlist without its segments in the cache.
\* Only a sweep's remove_all does.
THEOREM OneWriterOnlyRemovalsTear == Spec /\ []Exclusive => OnlyRemovalsTear
<1>1. IInv /\ (\A t \in Threads : PartOK(t)) /\ [Next]_vars =>
        [\A r \in Renditions :
           Torn(r)' => Torn(r) \/ \E t \in Threads : pc[t] = "remove" /\ Removing(t, r)']_vars
  BY TornStep DEF IInv
<1> QED
  BY <1>1, PartsHold, InvariantHolds, PTL DEF Spec, OnlyRemovalsTear

\* With one transcode slot a .part directory has one writer, although sweeps forget
\* mutexes: so only remove_all tears a published directory.
THEOREM OneSlotOnlyRemovalsTear ==
  ASSUME MaxTranscodes = 1
  PROVE  Spec => OnlyRemovalsTear
<1>1. IInv => Exclusive
  BY OneSlotOneWriter
<1> QED
  BY <1>1, InvariantHolds, OneWriterOnlyRemovalsTear, PTL

=============================================================================
