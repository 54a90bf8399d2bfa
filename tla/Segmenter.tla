------------------------------ MODULE Segmenter ------------------------------
(***************************************************************************)
(* The HLS segment cache of sonarium-server: hls::Segmenter and the route  *)
(* that calls it.  Every HTTP worker thread that asks for a playlist runs  *)
(* ensure_segments to completion on its own stack; the threads share the   *)
(* cache directory on disk, a registry that maps a rendition to its mutex, *)
(* and a counting semaphore of transcode slots.  Successful segmentations  *)
(* end in a sweep that evicts least recently used renditions.              *)
(*                                                                         *)
(* A directory is the set of its entries: "dir" (it exists), its segments, *)
(* and "playlist" (index.m3u8 with #EXT-X-ENDLIST) or "truncated" (without *)
(* it).  Its size is the number of its segments.                           *)
(***************************************************************************)
EXTENDS Integers, FiniteSets

CONSTANTS
  Threads,       \* HTTP worker threads of sonarium-server
  Renditions,    \* rendition ids that pass is_safe_rendition_id
  MaxMutexes,    \* bound: mutexes of one rendition referenced at one time
  Segs,          \* segment file names ffmpeg writes for one rendition
  MaxTranscodes, \* SegmenterConfig.max_concurrent_transcodes, clamped
  MaxBytes,      \* SegmenterConfig.max_cache_bytes, in segments; 0: no cap
  Events,        \* what the environment does: "crash", "ffmpeg" and "remove"
                 \* failures, "forced" sweeps, "leftover" directories
  None

ASSUME SlotsAssumption == MaxTranscodes \in Nat \ {0}
ASSUME CapAssumption   == MaxBytes \in Nat
ASSUME FiniteAssumption ==
  /\ IsFiniteSet(Threads) /\ IsFiniteSet(Segs)
  /\ IsFiniteSet(Renditions) /\ Renditions # {}
ASSUME SegsAssumption  == Segs \cap {"dir", "playlist", "truncated"} = {}
ASSUME MutexAssumption == MaxMutexes \in Nat \ {0}
ASSUME NoneAssumption  ==
  None \notin Threads \cup Renditions \cup (Renditions \X (1..MaxMutexes))

VARIABLES
  cache,    \* cache_root/<rendition>: the published directory
  part,     \* cache_root/<rendition>.part: where ffmpeg writes
  used,     \* rank of the rendition's last_used time among all of them
  registry, \* per_rendition_mutexes_
  owner,    \* thread holding each mutex
  slots,    \* free permits of transcode_slots_
  pc,       \* where each thread is in ensure_segments or evict_over_cap
  req,      \* its rendition_id, or None during a sweep an operator forced
  handle,   \* its lock_handle on its own rendition
  wrote,    \* segments its ffmpeg child has written
  entries,  \* its snapshot of the cache, as evict_over_cap collected it
  total,    \* its total_bytes
  grab,     \* its lock_handle on the entry it tries to evict
  answer    \* what ensure_segments returned to it

disk   == <<cache, part, used>>
locks  == <<registry, owner, slots>>
local  == <<req, handle, wrote, entries, total, grab, answer>>
sweep  == <<entries, total, grab>>
vars   == <<disk, locks, pc, local>>

Count == Cardinality(Renditions)
Files == Segs \cup {"dir", "playlist", "truncated"}
Full  == Segs \cup {"dir", "playlist"}

\* make_shared<std::mutex> never returns the mutex of another rendition.
Mutexes == Renditions \X (1..MaxMutexes)

Entry == [id : Renditions, bytes : Nat, used : Nat]

\* Between try_lock and the return of ensure_segments.
LockedPcs == {"recheck", "source", "prep", "ffmpeg", "check", "rmdir",
              "rename", "fail", "sweep", "evict", "grab", "remove", "removing"}

\* Between try_acquire on the semaphore and the same return.
SlottedPcs == LockedPcs \ {"recheck", "source"}

\* Between try_acquire and the rename: the thread owns the .part directory.
SegmentingPcs == {"prep", "ffmpeg", "check", "rmdir", "rename", "fail"}

Pcs == LockedPcs \cup {"idle", "fast", "touch", "lookup", "trylock", "reply"}

Locked(t)     == handle[t] # None /\ pc[t] \in LockedPcs
Slotted(t)    == handle[t] # None /\ pc[t] \in SlottedPcs
Segmenting(t) == pc[t] \in SegmentingPcs

Bytes(d) == Cardinality(d \cap Segs)

CacheBytes == Cardinality({f \in Renditions \X Segs : f[2] \in cache[f[1]]})

\* last_write_time(playlist, now): r becomes the most recently used.
TouchedRank(r) ==
  [x \in Renditions |-> IF x = r THEN Count
                        ELSE IF used[x] > used[r] THEN used[x] - 1
                        ELSE used[x]]

\* A directory ffmpeg's predecessor may have left: no ENDLIST, some segments.
Leftovers ==
  {{}} \cup IF "leftover" \in Events
            THEN {{"dir", "truncated"} \cup s : s \in SUBSET Segs} ELSE {}

Ranks == {f \in [Renditions -> 1..Count] :
            \A a, b \in Renditions : f[a] = f[b] => a = b}

Init ==
  /\ cache \in [Renditions -> Leftovers]
  /\ part = [r \in Renditions |-> {}]
  /\ used \in Ranks
  /\ registry = [r \in Renditions |-> None]
  /\ owner = [m \in Mutexes |-> None]
  /\ slots = MaxTranscodes
  /\ pc = [t \in Threads |-> "idle"]
  /\ req = [t \in Threads |-> None]
  /\ handle = [t \in Threads |-> None]
  /\ wrote = [t \in Threads |-> {}]
  /\ entries = [t \in Threads |-> {}]
  /\ total = [t \in Threads |-> 0]
  /\ grab = [t \in Threads |-> None]
  /\ answer = [t \in Threads |-> "none"]

Goto(t, from, to) ==
  /\ pc[t] = from
  /\ pc' = [pc EXCEPT ![t] = to]

-----------------------------------------------------------------------------
(* The mutex registry.                                                     *)

\* A shared_ptr keeps its mutex alive: a new one is none that the registry or
\* a handle still refers to.
Unreferenced(m) ==
  /\ \A r \in Renditions : registry[r] # m
  /\ \A t \in Threads : handle[t] # m /\ grab[t] # m

FreshMutexes(r) == {m \in {r} \X (1..MaxMutexes) : Unreferenced(m)}

\* mutex_for(r) = m, registering a new mutex if r has none.
MutexFor(r, m) ==
  IF registry[r] # None
  THEN m = registry[r] /\ UNCHANGED registry
  ELSE /\ FreshMutexes(r) # {}
       /\ m = CHOOSE f \in FreshMutexes(r) : TRUE
       /\ registry' = [registry EXCEPT ![r] = m]

\* forget_mutex(r).
ForgetMutex(r) == registry' = [registry EXCEPT ![r] = None]

-----------------------------------------------------------------------------
(* ensure_segments.                                                        *)

\* The index route calls ensure_segments for a rendition in the catalog.  Ids
\* that fail is_safe_rendition_id are answered "failed" before any state is read.
Request(t, r) ==
  /\ Goto(t, "idle", "fast")
  /\ req' = [req EXCEPT ![t] = r]
  /\ UNCHANGED <<disk, locks, handle, wrote, sweep, answer>>

Return(t, from, a) ==
  /\ Goto(t, from, "reply")
  /\ answer' = [answer EXCEPT ![t] = a]

\* The end of the scope of `lock` (and of lock_handle).
Unlock(t) ==
  /\ owner' = [owner EXCEPT ![handle[t]] = None]
  /\ handle' = [handle EXCEPT ![t] = None]

\* The ends of the scopes of slot_release and of lock, in that order.
ReleaseAll(t) ==
  /\ slots' = slots + 1
  /\ Unlock(t)

\* The lock-free fast path: index.m3u8 exists and is complete.
FastPath(t) ==
  /\ Goto(t, "fast", IF "playlist" \in cache[req[t]] THEN "touch" ELSE "lookup")
  /\ UNCHANGED <<disk, locks, local>>

\* It touches the playlist, which may have been evicted since: no error then.
Touch(t) ==
  /\ Return(t, "touch", "ok")
  /\ used' = IF "playlist" \in cache[req[t]] THEN TouchedRank(req[t]) ELSE used
  /\ UNCHANGED <<cache, part, locks, req, handle, wrote, sweep>>

Lookup(t) ==
  /\ Goto(t, "lookup", "trylock")
  /\ \E m \in Mutexes : /\ MutexFor(req[t], m)
                        /\ handle' = [handle EXCEPT ![t] = m]
  /\ UNCHANGED <<disk, owner, slots, req, wrote, sweep, answer>>

TryLock(t) ==
  /\ Goto(t, "trylock", "recheck")
  /\ owner[handle[t]] = None
  /\ owner' = [owner EXCEPT ![handle[t]] = t]
  /\ UNCHANGED <<disk, registry, slots, local>>

TryLockBusy(t) ==
  /\ Return(t, "trylock", "busy")
  /\ owner[handle[t]] # None
  /\ handle' = [handle EXCEPT ![t] = None]
  /\ UNCHANGED <<disk, locks, req, wrote, sweep>>

\* Mutant: the recheck's early return also releases a slot.
RecheckCompleteFreesSlot(t) ==
  /\ Return(t, "recheck", "ok")
  /\ "playlist" \in cache[req[t]]
  /\ Unlock(t)
  /\ slots' = slots + 1
  /\ UNCHANGED <<disk, registry, req, wrote, sweep>>

\* Another thread may have published between the fast path and the lock.
RecheckComplete(t) ==
  /\ Return(t, "recheck", "ok")
  /\ "playlist" \in cache[req[t]]
  /\ Unlock(t)
  /\ UNCHANGED <<disk, registry, slots, req, wrote, sweep>>

\* Mutant: the lock's scope ends with the recheck.
RecheckIncompleteUnlocks(t) ==
  /\ Goto(t, "recheck", "source")
  /\ "playlist" \notin cache[req[t]]
  /\ cache' = IF "truncated" \in cache[req[t]]
              THEN [cache EXCEPT ![req[t]] = {}] ELSE cache
  /\ owner' = [owner EXCEPT ![handle[t]] = None]
  /\ UNCHANGED <<part, used, registry, slots, local>>

\* Mutant: no second look at the playlist under the lock.
RecheckSkipped(t) ==
  /\ Goto(t, "recheck", "source")
  /\ UNCHANGED <<disk, locks, local>>

\* A truncated leftover is removed.  A directory without a complete playlist is
\* invisible to every reader, so its removal is one step.
RecheckIncomplete(t) ==
  /\ Goto(t, "recheck", "source")
  /\ "playlist" \notin cache[req[t]]
  /\ cache' = IF "truncated" \in cache[req[t]]
              THEN [cache EXCEPT ![req[t]] = {}] ELSE cache
  /\ UNCHANGED <<part, used, locks, local>>

\* Mutant: this early return forgets the lock.
SourceMissingKeepsLock(t) ==
  /\ Return(t, "source", "failed")
  /\ handle' = [handle EXCEPT ![t] = None]
  /\ UNCHANGED <<disk, locks, req, wrote, sweep>>

\* The source file is a part of the library that may vanish at any time.
SourceMissing(t) ==
  /\ Return(t, "source", "failed")
  /\ Unlock(t)
  /\ UNCHANGED <<disk, registry, slots, req, wrote, sweep>>

NoSlot(t) ==
  /\ slots = 0
  /\ Return(t, "source", "busy")
  /\ Unlock(t)
  /\ UNCHANGED <<disk, registry, slots, req, wrote, sweep>>

\* Mutant: the result of try_acquire is dropped.
TakeSlotUnchecked(t) ==
  /\ Goto(t, "source", "prep")
  /\ slots' = IF slots > 0 THEN slots - 1 ELSE 0
  /\ UNCHANGED <<disk, registry, owner, local>>

TakeSlot(t) ==
  /\ slots > 0
  /\ Goto(t, "source", "prep")
  /\ slots' = slots - 1
  /\ UNCHANGED <<disk, registry, owner, local>>

\* remove_all(part_dir), create_directories(part_dir), fork and exec of ffmpeg.
StartFfmpeg(t) ==
  /\ Goto(t, "prep", "ffmpeg")
  /\ part' = [part EXCEPT ![req[t]] = {"dir"}]
  /\ wrote' = [wrote EXCEPT ![t] = {}]
  /\ UNCHANGED <<cache, used, locks, req, handle, sweep, answer>>

\* Mutant: this early return leaks its slot.
CannotCreatePartLeaksSlot(t) ==
  /\ "ffmpeg" \in Events
  /\ Return(t, "prep", "failed")
  /\ part' = [part EXCEPT ![req[t]] = {}]
  /\ Unlock(t)
  /\ UNCHANGED <<cache, used, registry, slots, req, wrote, sweep>>

\* create_directories fails (disk full): both guards are released.
CannotCreatePart(t) ==
  /\ "ffmpeg" \in Events
  /\ Return(t, "prep", "failed")
  /\ part' = [part EXCEPT ![req[t]] = {}]
  /\ ReleaseAll(t)
  /\ UNCHANGED <<cache, used, registry, req, wrote, sweep>>

\* ffmpeg opens the next segment by path, in whatever directory is there now.
WriteSegment(t) ==
  /\ pc[t] = "ffmpeg"
  /\ "dir" \in part[req[t]]
  /\ \E s \in Segs \ wrote[t] :
       /\ part' = [part EXCEPT ![req[t]] = @ \cup {s}]
       /\ wrote' = [wrote EXCEPT ![t] = @ \cup {s}]
  /\ UNCHANGED <<cache, used, locks, pc, req, handle, sweep, answer>>

\* With all segments written, ffmpeg writes the VOD playlist and exits with 0.
FinishFfmpeg(t) ==
  /\ Goto(t, "ffmpeg", "check")
  /\ wrote[t] = Segs
  /\ "dir" \in part[req[t]]
  /\ part' = [part EXCEPT ![req[t]] = (@ \ {"truncated"}) \cup {"playlist"}]
  /\ used' = TouchedRank(req[t])
  /\ UNCHANGED <<cache, locks, local>>

\* ffmpeg exits with 0 but the playlist was cut short (disk full), or exits
\* with an error, is killed or cannot start.
FfmpegFails(t) ==
  /\ pc[t] = "ffmpeg"
  /\ "ffmpeg" \in Events \/ "dir" \notin part[req[t]]
  /\ \/ /\ "dir" \in part[req[t]]
        /\ Goto(t, "ffmpeg", "check")
        /\ part' = [part EXCEPT ![req[t]] = (@ \ {"playlist"}) \cup {"truncated"}]
     \/ /\ Goto(t, "ffmpeg", "fail")
        /\ UNCHANGED part
  /\ UNCHANGED <<cache, used, locks, local>>

\* Mutant: exit status 0 is enough to publish.
CheckPartSkipped(t) ==
  /\ Goto(t, "check", "rmdir")
  /\ UNCHANGED <<disk, locks, local>>

CheckPart(t) ==
  /\ Goto(t, "check", IF "playlist" \in part[req[t]] THEN "rmdir" ELSE "fail")
  /\ UNCHANGED <<disk, locks, local>>

RemoveOld(t) ==
  /\ Goto(t, "rmdir", "rename")
  /\ cache' = [cache EXCEPT ![req[t]] = {}]
  /\ UNCHANGED <<part, used, locks, local>>

\* rename(part_dir, dir) replaces an absent or an empty directory.
Publish(t) ==
  /\ Goto(t, "rename", "sweep")
  /\ "dir" \in part[req[t]]
  /\ cache[req[t]] \subseteq {"dir"}
  /\ cache' = [cache EXCEPT ![req[t]] = part[req[t]]]
  /\ part' = [part EXCEPT ![req[t]] = {}]
  /\ UNCHANGED <<used, locks, local>>

RenameFails(t) ==
  /\ Goto(t, "rename", "fail")
  /\ \/ "dir" \notin part[req[t]]
     \/ ~ (cache[req[t]] \subseteq {"dir"})
     \/ "ffmpeg" \in Events
  /\ UNCHANGED <<disk, locks, local>>

\* The `fail` lambda, and the two scope guards.
Fail(t) ==
  /\ Return(t, "fail", "failed")
  /\ part' = [part EXCEPT ![req[t]] = {}]
  /\ ReleaseAll(t)
  /\ UNCHANGED <<cache, used, registry, req, wrote, sweep>>

\* The route sends 200 (or 404 if the playlist is gone), 503 or 500.
Reply(t) ==
  /\ Goto(t, "reply", "idle")
  /\ answer' = [answer EXCEPT ![t] = "none"]
  /\ req' = [req EXCEPT ![t] = None]
  /\ wrote' = [wrote EXCEPT ![t] = {}]
  /\ UNCHANGED <<disk, locks, handle, sweep>>

-----------------------------------------------------------------------------
(* evict_over_cap.                                                         *)

\* evict_over_cap is public: an operator's sweep keeps nothing, holds nothing.
ForceSweep(t) ==
  /\ "forced" \in Events
  /\ Goto(t, "idle", "sweep")
  /\ UNCHANGED <<disk, locks, local>>

\* The sweep returns, and with it the ensure_segments that called it, if any.
EndSweep(t, from) ==
  /\ entries' = [entries EXCEPT ![t] = {}]
  /\ total' = [total EXCEPT ![t] = 0]
  /\ IF handle[t] # None
     THEN Return(t, from, "ok") /\ ReleaseAll(t)
     ELSE Goto(t, from, "idle") /\ UNCHANGED <<answer, slots, owner, handle>>
  /\ UNCHANGED <<disk, registry, req, wrote, grab>>

NoSweep(t) ==
  /\ MaxBytes = 0
  /\ EndSweep(t, "sweep")

\* Mutant: the kept rendition does not count.
ScanWithoutKeep(t) ==
  /\ MaxBytes # 0
  /\ Goto(t, "sweep", "evict")
  /\ entries' = [entries EXCEPT ![t] =
       {[id |-> r, bytes |-> Bytes(cache[r]), used |-> used[r]] :
          r \in {x \in Renditions : "dir" \in cache[x]}}]
  /\ total' = [total EXCEPT ![t] =
       Cardinality({f \in (Renditions \ {req[t]}) \X Segs : f[2] \in cache[f[1]]})]
  /\ UNCHANGED <<disk, locks, req, handle, wrote, grab, answer>>

\* The walk of cache_root.  .part directories older than an hour are removed:
\* those no thread is segmenting into (a live ffmpeg creates files more often).
Scan(t) ==
  /\ MaxBytes # 0
  /\ Goto(t, "sweep", "evict")
  /\ entries' = [entries EXCEPT ![t] =
       {[id |-> r, bytes |-> Bytes(cache[r]), used |-> used[r]] :
          r \in {x \in Renditions : "dir" \in cache[x]}}]
  /\ total' = [total EXCEPT ![t] = CacheBytes]
  /\ \E stale \in SUBSET {r \in Renditions :
                            \A u \in Threads : Segmenting(u) => req[u] # r} :
       part' = [r \in Renditions |-> IF r \in stale THEN {} ELSE part[r]]
  /\ UNCHANGED <<cache, used, locks, req, handle, wrote, grab, answer>>

\* Mutant: sorted with the comparison the other way round.
Newest(t, e) ==
  /\ e \in entries[t]
  /\ \A f \in entries[t] : e.used >= f.used

\* The loop's current entry: entries are sorted by last_used.
Oldest(t, e) ==
  /\ e \in entries[t]
  /\ \A f \in entries[t] : e.used <= f.used

\* The loop is at an entry it has to look at.
AtEntry(t, e) == total[t] > MaxBytes /\ Oldest(t, e)

EvictDone(t) ==
  /\ total[t] <= MaxBytes \/ entries[t] = {}
  /\ EndSweep(t, "evict")

Skip(t, e) == entries' = [entries EXCEPT ![t] = @ \ {e}]

EvictKeep(t) ==
  /\ pc[t] = "evict"
  /\ \E e \in entries[t] : AtEntry(t, e) /\ e.id = req[t] /\ Skip(t, e)
  /\ UNCHANGED <<disk, locks, pc, req, handle, wrote, total, grab, answer>>

EvictLookup(t) ==
  /\ Goto(t, "evict", "grab")
  /\ \E e \in entries[t], m \in Mutexes :
       /\ AtEntry(t, e)
       /\ e.id # req[t]
       /\ MutexFor(e.id, m)
       /\ grab' = [grab EXCEPT ![t] = m]
  /\ UNCHANGED <<disk, owner, slots, req, handle, wrote, entries, total, answer>>

EvictTryLock(t) ==
  /\ Goto(t, "grab", "remove")
  /\ owner[grab[t]] = None
  /\ owner' = [owner EXCEPT ![grab[t]] = t]
  /\ UNCHANGED <<disk, registry, slots, local>>

\* Mutant: an entry whose mutex is taken is tried again.
EvictBusyRetries(t) ==
  /\ Goto(t, "grab", "evict")
  /\ owner[grab[t]] # None
  /\ grab' = [grab EXCEPT ![t] = None]
  /\ UNCHANGED <<disk, locks, req, handle, wrote, entries, total, answer>>

EvictBusy(t) ==
  /\ Goto(t, "grab", "evict")
  /\ owner[grab[t]] # None
  /\ \E e \in entries[t] : Oldest(t, e) /\ Skip(t, e)
  /\ grab' = [grab EXCEPT ![t] = None]
  /\ UNCHANGED <<disk, locks, req, handle, wrote, total, answer>>

\* remove_all(entry.dir) deletes the entries one after the other, in any order.
EvictBegin(t) ==
  /\ Goto(t, "remove", "removing")
  /\ \E e \in entries[t] :
       /\ Oldest(t, e)
       /\ \E kept \in SUBSET cache[e.id] :
            /\ cache[e.id] # {} => "dir" \in kept
            /\ cache' = [cache EXCEPT ![e.id] = kept]
  /\ UNCHANGED <<part, used, locks, local>>

EvictUnlock(t) ==
  /\ owner' = [owner EXCEPT ![grab[t]] = None]
  /\ grab' = [grab EXCEPT ![t] = None]

\* The directory is gone: its bytes are subtracted and its mutex forgotten
\* while this thread still holds it.
EvictEnd(t) ==
  /\ Goto(t, "removing", "evict")
  /\ \E e \in entries[t] :
       /\ Oldest(t, e)
       /\ cache' = [cache EXCEPT ![e.id] = {}]
       /\ total' = [total EXCEPT ![t] = @ - e.bytes]
       /\ ForgetMutex(e.id)
       /\ Skip(t, e)
  /\ EvictUnlock(t)
  /\ UNCHANGED <<part, used, slots, req, handle, wrote, answer>>

\* remove_all stops at an error, with part of the directory deleted.
EvictFails(t) ==
  /\ "remove" \in Events
  /\ Goto(t, "removing", "evict")
  /\ \E e \in entries[t] : Oldest(t, e) /\ Skip(t, e)
  /\ EvictUnlock(t)
  /\ UNCHANGED <<disk, registry, slots, req, handle, wrote, total, answer>>

-----------------------------------------------------------------------------

\* sonarium-server is killed, its ffmpeg children with it, and started again.
Crash ==
  /\ "crash" \in Events
  /\ registry' = [r \in Renditions |-> None]
  /\ owner' = [m \in Mutexes |-> None]
  /\ slots' = MaxTranscodes
  /\ pc' = [t \in Threads |-> "idle"]
  /\ req' = [t \in Threads |-> None]
  /\ handle' = [t \in Threads |-> None]
  /\ wrote' = [t \in Threads |-> {}]
  /\ entries' = [t \in Threads |-> {}]
  /\ total' = [t \in Threads |-> 0]
  /\ grab' = [t \in Threads |-> None]
  /\ answer' = [t \in Threads |-> "none"]
  /\ UNCHANGED disk

Find(t) ==
  \/ FastPath(t) \/ Touch(t) \/ Lookup(t) \/ TryLock(t) \/ TryLockBusy(t)
  \/ RecheckComplete(t) \/ RecheckIncomplete(t)
  \/ SourceMissing(t) \/ NoSlot(t) \/ TakeSlot(t)

Segment(t) ==
  \/ StartFfmpeg(t) \/ CannotCreatePart(t) \/ WriteSegment(t)
  \/ FinishFfmpeg(t) \/ FfmpegFails(t) \/ CheckPart(t)
  \/ RemoveOld(t) \/ Publish(t) \/ RenameFails(t) \/ Fail(t)

Evict(t) ==
  \/ NoSweep(t) \/ Scan(t) \/ EvictDone(t) \/ EvictKeep(t) \/ EvictLookup(t)
  \/ EvictTryLock(t) \/ EvictBusy(t) \/ EvictBegin(t) \/ EvictEnd(t)
  \/ EvictFails(t)

\* What a thread does on its own once it has a request or a sweep to run.
Step(t) == Find(t) \/ Segment(t) \/ Evict(t) \/ Reply(t)

Next ==
  \/ \E t \in Threads : Step(t)
  \/ \E t \in Threads, r \in Renditions : Request(t, r)
  \/ \E t \in Threads : ForceSweep(t)
  \/ Crash

Spec == Init /\ [][Next]_vars

\* The scheduler runs every thread, and every ffmpeg child ends: spawn_and_wait
\* waits for it without a timeout.
Fairness == \A t \in Threads : WF_vars(Step(t))

FairSpec == Spec /\ Fairness

-----------------------------------------------------------------------------

\* The values the code's state can take.  total_bytes is unsigned: what a sweep
\* subtracts, it has counted, whatever other threads deleted meanwhile.
TypeOK ==
  /\ cache \in [Renditions -> SUBSET Files]
  /\ part \in [Renditions -> SUBSET Files]
  /\ used \in [Renditions -> Nat]
  /\ registry \in [Renditions -> Mutexes \cup {None}]
  /\ owner \in [Mutexes -> Threads \cup {None}]
  /\ slots \in 0..MaxTranscodes
  /\ pc \in [Threads -> Pcs]
  /\ req \in [Threads -> Renditions \cup {None}]
  /\ handle \in [Threads -> Mutexes \cup {None}]
  /\ wrote \in [Threads -> SUBSET Segs]
  /\ entries \in [Threads -> SUBSET Entry]
  /\ total \in [Threads -> Nat]
  /\ grab \in [Threads -> Mutexes \cup {None}]
  /\ answer \in [Threads -> {"none", "ok", "busy", "failed"}]
-----------------------------------------------------------------------------
(* What the cache promises.                                                *)

\* Safety: the registry's mutexes let at most one thread at a time segment a
\* rendition, so a .part directory has one writer.  (segmenter.hpp: a second
\* request for the same rendition is busy.)
Exclusive ==
  \A t, u \in Threads :
    t # u /\ Segmenting(t) /\ Segmenting(u) => req[t] # req[u]

\* Safety: every permit is free or held by a thread inside ensure_segments, on
\* every error path; so at most MaxTranscodes children run, and none is lost.
SlotsConserved ==
  slots + Cardinality({t \in Threads : Slotted(t)}) = MaxTranscodes

\* Safety: a mutex is locked exactly while a thread is between its try_lock and
\* the end of its scope, so no rendition stays busy after its requests returned.
LocksOwned ==
  \A m \in Mutexes, t \in Threads :
    owner[m] = t <=> \/ Locked(t) /\ handle[t] = m
                     \/ pc[t] \in {"remove", "removing"} /\ grab[t] = m

\* Safety, without a cap: what the fast path serves has all its segments.
Populated ==
  \A r \in Renditions : "playlist" \in cache[r] => Segs \subseteq cache[r]

\* Action property, without a cap: no step, of any thread and no crash, takes a
\* complete playlist away (ensure_segments calls remove_all on it twice).
NeverUnpublished ==
  [][\A r \in Renditions : "playlist" \in cache[r] => "playlist" \in cache'[r]]_vars

\* Liveness: every call returns (nothing in it waits for another thread).
CallsReturn == \A t \in Threads : pc[t] # "idle" ~> pc[t] = "idle"

\* The entry a sweep is deleting.
Removing(t, r) ==
  pc[t] = "removing" /\ \E e \in entries[t] : Oldest(t, e) /\ e.id = r

Torn(r) == "playlist" \in cache[r] /\ ~ (Segs \subseteq cache[r])

\* Action property, with one transcode slot: whatever other threads, crashes and
\* failing removals do, only a sweep's remove_all leaves a complete playlist
\* without its segments.  What it leaves when it is interrupted, though, the
\* fast path serves from then on.
OnlyRemovalsTear ==
  [][\A r \in Renditions :
       Torn(r)' => Torn(r) \/ \E t \in Threads : pc[t] = "remove" /\ Removing(t, r)']_vars

Present == {r \in Renditions : cache[r] # {}}

\* Action property: a sweep that nothing disturbs ends with the cache under the
\* cap, or with nothing left but the rendition it keeps.
CapAfterSweep ==
  [][\A t \in Threads :
       pc[t] = "evict" /\ pc'[t] \in {"reply", "idle"} =>
         CacheBytes' <= MaxBytes \/ Present' \subseteq {req[t]}]_vars

\* Action property: an undisturbed sweep evicts only while the cache is over the
\* cap, and never a rendition when one less recently used could go.
EvictsOldestOverCap ==
  [][\A t \in Threads, r \in Renditions :
       pc[t] = "remove" /\ Removing(t, r)' =>
         /\ CacheBytes > MaxBytes
         /\ \A x \in Present : used[x] < used[r] => x = req[t]]_vars

-----------------------------------------------------------------------------
(* Without a cap, Segmenter implements SegmentCache.                       *)

publishedBar == {r \in Renditions : Full \subseteq cache[r]}
workingBar   == [t \in Threads |-> IF Segmenting(t) THEN req[t] ELSE None]
servedBar    == [t \in Threads |-> IF pc[t] = "reply" /\ answer[t] = "ok"
                                   THEN req[t] ELSE None]

Abstract == INSTANCE SegmentCache
              WITH published <- publishedBar, working <- workingBar,
                   served <- servedBar

\* Refinement, without a cap: the locks, the .part directory and the rename give
\* callers an atomic, single-writer, monotonic cache.
ImplementsSegmentCache == Abstract!Spec
=============================================================================
