----------------------------- MODULE SegmentCache -----------------------------
(***************************************************************************)
(* What hls::Segmenter promises without a cache cap (segmenter.hpp): a     *)
(* rendition is segmented by one thread at a time, on at most              *)
(* MaxTranscodes threads at once, only while it is not published; it is    *)
(* published in one step, never taken back, and served once published.     *)
(***************************************************************************)
EXTENDS Naturals, FiniteSets

CONSTANTS Threads, Renditions, MaxTranscodes, None

VARIABLES
  published, \* renditions whose playlist and segments are all in the cache
  working,   \* the rendition each thread is segmenting, or None
  served     \* the rendition whose playlist path each thread was given

vars == <<published, working, served>>

Working == {t \in Threads : working[t] # None}

Init ==
  /\ published = {}
  /\ working = [t \in Threads |-> None]
  /\ served = [t \in Threads |-> None]

Begin(t, r) ==
  /\ working[t] = None
  /\ r \notin published
  /\ \A u \in Threads : working[u] # r
  /\ Cardinality(Working) < MaxTranscodes
  /\ working' = [working EXCEPT ![t] = r]
  /\ UNCHANGED <<published, served>>

Publish(t) ==
  /\ working[t] # None
  /\ published' = published \cup {working[t]}
  /\ working' = [working EXCEPT ![t] = None]
  /\ UNCHANGED served

GiveUp(t) ==
  /\ working[t] # None
  /\ working' = [working EXCEPT ![t] = None]
  /\ UNCHANGED <<published, served>>

Serve(t, r) ==
  /\ r \in published
  /\ served' = [served EXCEPT ![t] = r]
  /\ UNCHANGED <<published, working>>

Done(t) ==
  /\ served' = [served EXCEPT ![t] = None]
  /\ UNCHANGED <<published, working>>

\* A crash forgets what threads were doing, never what is published.
Crash ==
  /\ working' = [t \in Threads |-> None]
  /\ served' = [t \in Threads |-> None]
  /\ UNCHANGED published

Next ==
  \/ \E t \in Threads, r \in Renditions : Begin(t, r) \/ Serve(t, r)
  \/ \E t \in Threads : Publish(t) \/ GiveUp(t) \/ Done(t)
  \/ Crash

Spec == Init /\ [][Next]_vars
=============================================================================
