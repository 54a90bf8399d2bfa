-------------------------- MODULE SsdpServiceProofs --------------------------
(***************************************************************************)
(* What SsdpService promises about its announcements, its socket and its   *)
(* response rate, for every number of packets and every interleaving.      *)
(***************************************************************************)
EXTENDS SsdpService, TLAPS

-----------------------------------------------------------------------------

\* The token bucket respects its rate, for every rate, burst and sequence of
\* requests.

BudgetTypes ==
  /\ tokens \in 0..Burst
  /\ now \in Nat
  /\ since \in 0..now
  /\ last \in {Never} \cup 0..now
  /\ sent \in Nat

\* What has been counted is what the bucket has lost since counting began: as
\* long as allow has not run since, nothing; afterwards, the packets sent and
\* the tokens left are covered by a burst and the refill up to the last call.
Accounted ==
  Rate > 0 =>
    /\ last = Never => sent = 0
    /\ last \in 0..now /\ last < since => sent = 0
    /\ last \in 0..now /\ since <= last =>
         sent + tokens <= Burst + Rate * (last - since)

BudgetInv == BudgetTypes /\ Accounted

-----------------------------------------------------------------------------

\* A refill of two successive stretches of time is the refill of both.
LEMMA RefillAdds ==
  ASSUME NEW a \in Nat, NEW b \in Nat, NEW c \in Nat, a <= b, b <= c
  PROVE  /\ Rate * (b - a) + (c - b) * Rate = Rate * (c - a)
         /\ Rate * (b - a) \in Nat /\ (c - b) * Rate \in Nat
BY RateAssumption

\* A refill never exceeds the burst, nor what was there and the time passed.
LEMMA RefilledBounds ==
  ASSUME BudgetTypes
  PROVE  /\ Refilled \in 0..Burst
         /\ last = Never => Refilled = tokens
         /\ last \in 0..now => Refilled <= tokens + (now - last) * Rate
<1>1. CASE last = Never
  BY <1>1, NeverAssumption DEF Refilled, BudgetTypes
<1>2. CASE last # Never
  <2>1. last \in Nat /\ last <= now /\ now \in Nat
    BY <1>2 DEF BudgetTypes
  <2>2. (now - last) * Rate \in Nat
    BY <2>1, RefillAdds
  <2> QED BY <1>2, <2>1, <2>2, BurstAssumption DEF Refilled, Capped, BudgetTypes
<1> QED BY <1>1, <1>2

\* Whatever allow decides, once it has stamped the time the books balance.
LEMMA StampedBalance ==
  ASSUME BudgetInv, Rate > 0
  PROVE  sent + Refilled <= Burst + Rate * (now - since)
<1> DEFINE elapsed == Rate * (now - since)
<1>1. /\ since \in Nat /\ now \in Nat /\ since <= now /\ sent \in Nat
      /\ tokens \in 0..Burst /\ Burst \in Nat
  BY BurstAssumption DEF BudgetInv, BudgetTypes
<1>2. elapsed \in Nat
  BY <1>1, RefillAdds
<1>3. Refilled \in 0..Burst
  BY RefilledBounds DEF BudgetInv
<1>4. CASE sent = 0
  <2> HIDE DEF elapsed
  <2>1. sent + Refilled <= Burst + elapsed
    BY <1>1, <1>2, <1>3, <1>4
  <2> QED BY <2>1 DEF elapsed
<1>5. CASE last \in 0..now /\ since <= last
  <2> DEFINE before == Rate * (last - since)
  <2> DEFINE after == (now - last) * Rate
  <2>1. last \in Nat /\ last <= now
    BY <1>1, <1>5
  <2>2. before + after = elapsed /\ before \in Nat /\ after \in Nat
    BY <1>1, <1>5, <2>1, RefillAdds
  <2>3. sent + tokens <= Burst + before
    BY <1>5 DEF BudgetInv, Accounted
  <2>4. Refilled <= tokens + after
    BY <1>5, RefilledBounds DEF BudgetInv
  <2> HIDE DEF elapsed, before, after
  <2>5. sent + Refilled <= Burst + elapsed
    BY <1>1, <1>2, <1>3, <2>2, <2>3, <2>4
  <2> QED BY <2>5 DEF elapsed
<1> QED BY <1>1, <1>4, <1>5 DEF BudgetInv, BudgetTypes, Accounted

-----------------------------------------------------------------------------

LEMMA BudgetInitially == BudgetInit => BudgetInv
BY BurstAssumption, NeverAssumption DEF BudgetInit, BudgetInv, BudgetTypes, Accounted

\* The bucket's invariant survives every step of it.
LEMMA BudgetStep == BudgetInv /\ [BudgetNext]_budgetVars => BudgetInv'
<1> SUFFICES ASSUME BudgetInv, [BudgetNext]_budgetVars PROVE BudgetInv'
  OBVIOUS
<1> USE RateAssumption, BurstAssumption, NeverAssumption
<1>0. Refilled \in 0..Burst
  BY RefilledBounds DEF BudgetInv
<1>1. ASSUME NEW count \in Nat, Allow(count) PROVE BudgetInv'
  <2>1. CASE Rate = 0
    BY <1>1, <2>1 DEF Allow, BudgetInv, BudgetTypes, Accounted
  <2>2. CASE Rate > 0
    <3>1. /\ Refilled >= count /\ tokens' = Refilled - count /\ last' = now
          /\ sent' = sent + count /\ now' = now /\ since' = since
      BY <1>1, <2>2 DEF Allow
    <3>2. sent + Refilled <= Burst + Rate * (now - since)
      BY <2>2, StampedBalance
    <3>3. BudgetTypes'
      BY <1>0, <1>1, <3>1 DEF BudgetInv, BudgetTypes
    <3>4. sent' + tokens' = sent + Refilled
      BY <1>0, <1>1, <3>1 DEF BudgetInv, BudgetTypes
    <3>5. Accounted'
      BY <3>1, <3>2, <3>4 DEF BudgetInv, BudgetTypes, Accounted
    <3> QED BY <3>3, <3>5 DEF BudgetInv
  <2> QED BY <2>1, <2>2
<1>2. ASSUME NEW count \in Nat, Refuse(count) PROVE BudgetInv'
  <2>1. /\ Rate > 0 /\ tokens' = Refilled /\ last' = now
        /\ sent' = sent /\ now' = now /\ since' = since
    BY <1>2 DEF Refuse
  <2>2. sent + Refilled <= Burst + Rate * (now - since)
    BY <2>1, StampedBalance
  <2>3. BudgetTypes'
    BY <1>0, <2>1 DEF BudgetInv, BudgetTypes
  <2>4. Accounted'
    BY <2>1, <2>2 DEF BudgetInv, BudgetTypes, Accounted
  <2> QED BY <2>3, <2>4 DEF BudgetInv
<1>3. CASE Tick
  BY <1>3 DEF Tick, BudgetInv, BudgetTypes, Accounted
<1>4. CASE StartCounting
  <2>1. /\ since' = now /\ sent' = 0 /\ tokens' = tokens /\ last' = last
        /\ now' = now
    BY <1>4 DEF StartCounting
  <2>2. BudgetTypes'
    BY <2>1 DEF BudgetInv, BudgetTypes
  <2>3. Accounted'
    <3>1. ASSUME last \in 0..now, now <= last
          PROVE  tokens <= Burst + Rate * (last - now)
      <4>1. last = now /\ now \in Nat
        BY <3>1 DEF BudgetInv, BudgetTypes
      <4>2. Rate * (last - now) = 0
        BY <4>1
      <4> QED BY <4>2 DEF BudgetInv, BudgetTypes
    <3> QED BY <2>1, <3>1 DEF BudgetInv, BudgetTypes, Accounted
  <2> QED BY <2>2, <2>3 DEF BudgetInv
<1>5. CASE UNCHANGED budgetVars
  BY <1>5 DEF budgetVars, BudgetInv, BudgetTypes, Accounted
<1> QED BY <1>1, <1>2, <1>3, <1>4, <1>5 DEF BudgetNext

LEMMA BalancedIsBounded == BudgetInv => RateBound
<1> SUFFICES ASSUME BudgetInv, Rate > 0
             PROVE  sent <= Burst + Rate * (now - since)
  BY DEF RateBound
<1>1. sent + Refilled <= Burst + Rate * (now - since)
  BY StampedBalance
<1>2. Refilled \in 0..Burst
  BY RefilledBounds DEF BudgetInv
<1>3. Rate * (now - since) \in Nat
  BY RefillAdds DEF BudgetInv, BudgetTypes
<1> QED BY <1>1, <1>2, <1>3, BurstAssumption DEF BudgetInv, BudgetTypes

\* SsdpResponseBudget: from any moment on, no more packets are allowed than a
\* burst and the refill of the time passed.
THEOREM BudgetRespectsRate == BudgetSpec => []RateBound
<1>1. BudgetInit => BudgetInv
  BY BudgetInitially
<1>2. BudgetInv /\ [BudgetNext]_budgetVars => BudgetInv'
  BY BudgetStep
<1>3. BudgetInv => RateBound
  BY BalancedIsBounded
<1> QED BY <1>1, <1>2, <1>3, PTL DEF BudgetSpec

-----------------------------------------------------------------------------

MainPcs == {"new", "off", "alive", "start timer", "serving", "stop timer",
            "byebye", "close", "join", "stopped"}
ReceivePcs == {"none", "loop", "wait", "respond", "done"}
TimerPcs   == {"none", "armed", "tick"}

Typing ==
  /\ running \in BOOLEAN
  /\ socket \in {"none", "open", "closed"}
  /\ owner \in Threads \cup {None}
  /\ pc \in [Threads -> MainPcs \cup ReceivePcs \cup TimerPcs]
  /\ pc["main"] \in MainPcs
  /\ pc["receive"] \in ReceivePcs
  /\ pc["timer"] \in TimerPcs
  /\ left \in [Threads -> Nat]
  /\ byes \in Nat

\* Only a thread inside send_each holds the mutex.
LockHeld == owner # None => pc[owner] \in SendPcs

\* Main starts and stops the other two threads: where it is says whether they
\* exist.
ThreadsFollowMain ==
  /\ pc["timer"] # "none" <=> pc["main"] \in {"serving", "stop timer"}
  /\ pc["main"] \in {"new", "off"} => pc["receive"] = "none"
  /\ pc["main"] = "stopped" => pc["receive"] = "done"

\* ... and in which state the socket is.
SocketFollowsMain ==
  /\ socket = "none" => pc["main"] \in {"new", "off", "stopped"}
  /\ pc["main"] = "byebye" => socket = "open"
  /\ pc["main"] = "stop timer" => socket = "open"
  /\ pc["main"] = "serving" => socket = "open"
  /\ pc["main"] = "start timer" => socket = "open"
  /\ pc["main"] = "alive" => socket = "open"

\* The byebye burst, packet by packet: once main is in it nobody else
\* announces anything, so what main has sent is the last word.
Goodbyes ==
  /\ pc["main"] \notin {"byebye", "close", "join", "stopped"} => byes = 0
  /\ pc["main"] = "byebye" =>
       /\ byes + left["main"] = Adverts
       /\ byes > 0 => lastWord = "byebye"
  /\ pc["main"] \in {"close", "join", "stopped"} =>
       byes = Adverts /\ lastWord = "byebye"

IInv ==
  /\ Typing
  /\ LockHeld
  /\ ThreadsFollowMain
  /\ SocketFollowsMain
  /\ Goodbyes

-----------------------------------------------------------------------------

LEMMA Initially == Init => IInv
<1> SUFFICES ASSUME Init PROVE IInv
  OBVIOUS
<1>1. pc["main"] = "new" /\ pc["receive"] = "none" /\ pc["timer"] = "none"
  BY DEF Init, Threads
<1>2. Typing
  <2>1. pc \in [Threads -> MainPcs \cup ReceivePcs \cup TimerPcs]
    BY DEF Init, MainPcs, ReceivePcs, TimerPcs
  <2>2. left \in [Threads -> Nat]
    BY DEF Init
  <2> QED BY <1>1, <2>1, <2>2 DEF Init, Typing, MainPcs, ReceivePcs, TimerPcs
<1>3. LockHeld /\ ThreadsFollowMain /\ SocketFollowsMain /\ Goodbyes
  BY <1>1 DEF Init, LockHeld, ThreadsFollowMain, SocketFollowsMain, Goodbyes
<1> QED BY <1>2, <1>3 DEF IInv

\* The steps of main outside send_each.
LEMMA MainStep ==
  ASSUME IInv, Start \/ StartFails \/ StartTimer \/ Stop \/ StopTimer
               \/ CloseSocket \/ JoinAndReset
  PROVE  IInv'
<1> USE NoneAssumption, AdvertsAssumption
<1> USE DEF Goto, wire, Threads, MainPcs, ReceivePcs, TimerPcs, SendPcs
<1>1. CASE Start
  <2>1. Typing'
    BY <1>1 DEF IInv, Start, Typing
  <2>2. LockHeld'
    <3>1. owner' = owner /\ (owner # None => pc[owner] \in SendPcs)
      BY <1>1 DEF IInv, LockHeld, Start
    <3>2. ASSUME owner # None PROVE pc'[owner] = pc[owner]
      BY <1>1, <3>1, <3>2 DEF IInv, Typing, ThreadsFollowMain, Start
    <3> QED BY <3>1, <3>2 DEF LockHeld
  <2>3. ThreadsFollowMain'
    BY <1>1 DEF IInv, Start, ThreadsFollowMain, Typing
  <2>4. SocketFollowsMain'
    BY <1>1 DEF IInv, Start, SocketFollowsMain, Typing
  <2>5. Goodbyes'
    BY <1>1 DEF IInv, Start, Goodbyes, Typing
  <2> QED BY <2>1, <2>2, <2>3, <2>4, <2>5 DEF IInv
<1>2. CASE StartFails
  <2>1. Typing'
    BY <1>2 DEF IInv, StartFails, Typing
  <2>2. LockHeld'
    BY <1>2 DEF IInv, StartFails, LockHeld, Typing
  <2>3. ThreadsFollowMain'
    BY <1>2 DEF IInv, StartFails, ThreadsFollowMain, Typing
  <2>4. SocketFollowsMain'
    BY <1>2 DEF IInv, StartFails, SocketFollowsMain, Typing
  <2>5. Goodbyes'
    BY <1>2 DEF IInv, StartFails, Goodbyes, Typing
  <2> QED BY <2>1, <2>2, <2>3, <2>4, <2>5 DEF IInv
<1>3. CASE StartTimer
  <2>1. Typing'
    BY <1>3 DEF IInv, StartTimer, Typing
  <2>2. LockHeld'
    <3>1. owner' = owner /\ (owner # None => pc[owner] \in SendPcs)
      BY <1>3 DEF IInv, LockHeld, StartTimer
    <3>2. ASSUME owner # None PROVE pc'[owner] = pc[owner]
      BY <1>3, <3>1, <3>2 DEF IInv, Typing, ThreadsFollowMain, StartTimer
    <3> QED BY <3>1, <3>2 DEF LockHeld
  <2>3. ThreadsFollowMain'
    BY <1>3 DEF IInv, StartTimer, ThreadsFollowMain, Typing
  <2>4. SocketFollowsMain'
    BY <1>3 DEF IInv, StartTimer, SocketFollowsMain, Typing
  <2>5. Goodbyes'
    BY <1>3 DEF IInv, StartTimer, Goodbyes, Typing
  <2> QED BY <2>1, <2>2, <2>3, <2>4, <2>5 DEF IInv
<1>4. CASE Stop
  <2>1. Typing'
    BY <1>4 DEF IInv, Stop, Typing
  <2>2. LockHeld'
    BY <1>4 DEF IInv, Stop, LockHeld, Typing
  <2>3. ThreadsFollowMain'
    <3>1. pc["main"] = "serving" /\ pc'["main"] = "stop timer"
      BY <1>4 DEF IInv, Typing, Stop
    <3>2. pc'["timer"] = pc["timer"] /\ pc'["receive"] = pc["receive"]
      BY <1>4 DEF IInv, Typing, Stop
    <3> QED BY <3>1, <3>2 DEF IInv, ThreadsFollowMain
  <2>4. SocketFollowsMain'
    BY <1>4 DEF IInv, Stop, SocketFollowsMain, Typing
  <2>5. Goodbyes'
    BY <1>4 DEF IInv, Stop, Goodbyes, Typing
  <2> QED BY <2>1, <2>2, <2>3, <2>4, <2>5 DEF IInv
<1>5. CASE StopTimer
  <2>1. Typing'
    BY <1>5 DEF IInv, StopTimer, Typing
  <2>2. LockHeld'
    BY <1>5 DEF IInv, StopTimer, LockHeld, Typing
  <2>3. ThreadsFollowMain'
    BY <1>5 DEF IInv, StopTimer, ThreadsFollowMain, Typing
  <2>4. SocketFollowsMain'
    BY <1>5 DEF IInv, StopTimer, SocketFollowsMain, Typing
  <2>5. Goodbyes'
    <3>1. /\ pc["main"] = "stop timer" /\ pc'["main"] = "byebye"
          /\ byes' = byes
      BY <1>5 DEF IInv, Typing, StopTimer
    <3>2. left'["main"] = Adverts
      BY <1>5 DEF IInv, Typing, StopTimer
    <3>3. byes' = 0
      BY <3>1 DEF IInv, Goodbyes
    <3>4. byes' + left'["main"] = Adverts
      BY <3>2, <3>3
    <3>5. ~(byes' > 0)
      BY <3>3
    <3> QED BY ONLY <3>1, <3>4, <3>5 DEF Goodbyes
  <2> QED BY <2>1, <2>2, <2>3, <2>4, <2>5 DEF IInv
<1>6. CASE CloseSocket
  <2>1. Typing'
    BY <1>6 DEF IInv, CloseSocket, Typing
  <2>2. LockHeld'
    BY <1>6 DEF IInv, CloseSocket, LockHeld, Typing
  <2>3. ThreadsFollowMain'
    BY <1>6 DEF IInv, CloseSocket, ThreadsFollowMain, Typing
  <2>4. SocketFollowsMain'
    BY <1>6 DEF IInv, CloseSocket, SocketFollowsMain, Typing
  <2>5. Goodbyes'
    BY <1>6 DEF IInv, CloseSocket, Goodbyes, Typing
  <2> QED BY <2>1, <2>2, <2>3, <2>4, <2>5 DEF IInv
<1>7. CASE JoinAndReset
  <2>1. Typing'
    BY <1>7 DEF IInv, JoinAndReset, Typing
  <2>2. LockHeld'
    BY <1>7 DEF IInv, JoinAndReset, LockHeld, Typing
  <2>3. ThreadsFollowMain'
    BY <1>7 DEF IInv, JoinAndReset, ThreadsFollowMain, Typing
  <2>4. SocketFollowsMain'
    BY <1>7 DEF IInv, JoinAndReset, SocketFollowsMain, Typing
  <2>5. Goodbyes'
    BY <1>7 DEF IInv, JoinAndReset, Goodbyes, Typing
  <2> QED BY <2>1, <2>2, <2>3, <2>4, <2>5 DEF IInv
<1> QED BY <1>1, <1>2, <1>3, <1>4, <1>5, <1>6, <1>7

\* The steps of receive_loop and of the timer's callback outside send_each.
LEMMA ReceiveAndTickStep ==
  ASSUME IInv,
         \/ LoopHead \/ ReceiveFails \/ IgnoreDatagram \/ AliveTick
         \/ \E count \in {1, Adverts} : Answer(count) \/ Throttle(count)
  PROVE  IInv'
<1> USE NoneAssumption, AdvertsAssumption
<1> USE DEF Goto, wire, Threads, MainPcs, ReceivePcs, TimerPcs, SendPcs
<1>1. CASE LoopHead
  <2>1. Typing'
    BY <1>1 DEF IInv, LoopHead, Typing
  <2>2. LockHeld'
    BY <1>1 DEF IInv, LoopHead, LockHeld, Typing
  <2>3. ThreadsFollowMain'
    BY <1>1 DEF IInv, LoopHead, ThreadsFollowMain, Typing
  <2>4. SocketFollowsMain'
    BY <1>1 DEF IInv, LoopHead, SocketFollowsMain, Typing
  <2>5. Goodbyes'
    BY <1>1 DEF IInv, LoopHead, Goodbyes, Typing
  <2> QED BY <2>1, <2>2, <2>3, <2>4, <2>5 DEF IInv
<1>2. CASE ReceiveFails
  <2>1. Typing'
    BY <1>2 DEF IInv, ReceiveFails, Typing
  <2>2. LockHeld'
    BY <1>2 DEF IInv, ReceiveFails, LockHeld, Typing
  <2>3. ThreadsFollowMain'
    BY <1>2 DEF IInv, ReceiveFails, ThreadsFollowMain, Typing
  <2>4. SocketFollowsMain'
    BY <1>2 DEF IInv, ReceiveFails, SocketFollowsMain, Typing
  <2>5. Goodbyes'
    BY <1>2 DEF IInv, ReceiveFails, Goodbyes, Typing
  <2> QED BY <2>1, <2>2, <2>3, <2>4, <2>5 DEF IInv
<1>3. CASE IgnoreDatagram
  <2>1. Typing'
    BY <1>3 DEF IInv, IgnoreDatagram, Typing
  <2>2. LockHeld'
    BY <1>3 DEF IInv, IgnoreDatagram, LockHeld, Typing
  <2>3. ThreadsFollowMain'
    BY <1>3 DEF IInv, IgnoreDatagram, ThreadsFollowMain, Typing
  <2>4. SocketFollowsMain'
    BY <1>3 DEF IInv, IgnoreDatagram, SocketFollowsMain, Typing
  <2>5. Goodbyes'
    BY <1>3 DEF IInv, IgnoreDatagram, Goodbyes, Typing
  <2> QED BY <2>1, <2>2, <2>3, <2>4, <2>5 DEF IInv
<1>4. CASE AliveTick
  <2>1. Typing'
    BY <1>4 DEF IInv, AliveTick, Typing
  <2>2. LockHeld'
    BY <1>4 DEF IInv, AliveTick, LockHeld, Typing
  <2>3. ThreadsFollowMain'
    BY <1>4 DEF IInv, AliveTick, ThreadsFollowMain, Typing
  <2>4. SocketFollowsMain'
    BY <1>4 DEF IInv, AliveTick, SocketFollowsMain, Typing
  <2>5. Goodbyes'
    BY <1>4 DEF IInv, AliveTick, Goodbyes, Typing
  <2> QED BY <2>1, <2>2, <2>3, <2>4, <2>5 DEF IInv
<1>5. ASSUME NEW count \in {1, Adverts}, Answer(count) PROVE IInv'
  <2>1. Typing'
    <3>1. left' \in [Threads -> Nat]
      <4>1. count \in Nat
        BY <1>5
      <4>2. left' = [left EXCEPT !["receive"] = count]
        BY <1>5 DEF Answer
      <4>3. left \in [Threads -> Nat]
        BY DEF IInv, Typing
      <4> QED BY ONLY <4>1, <4>2, <4>3
    <3>2. /\ pc' \in [Threads -> MainPcs \cup ReceivePcs \cup TimerPcs]
          /\ pc'["main"] = pc["main"] /\ pc'["receive"] = "respond"
          /\ pc'["timer"] = pc["timer"]
      BY <1>5 DEF IInv, Typing, Answer
    <3>3. UNCHANGED <<running, socket, owner, byes>>
      BY <1>5 DEF Answer
    <3> QED BY <3>1, <3>2, <3>3 DEF IInv, Typing
  <2>2. LockHeld'
    BY <1>5 DEF IInv, Answer, LockHeld, Typing
  <2>3. ThreadsFollowMain'
    BY <1>5 DEF IInv, Answer, ThreadsFollowMain, Typing
  <2>4. SocketFollowsMain'
    BY <1>5 DEF IInv, Answer, SocketFollowsMain, Typing
  <2>5. Goodbyes'
    BY <1>5 DEF IInv, Answer, Goodbyes, Typing
  <2> QED BY <2>1, <2>2, <2>3, <2>4, <2>5 DEF IInv
<1>6. ASSUME NEW count \in {1, Adverts}, Throttle(count) PROVE IInv'
  <2>1. Typing'
    BY <1>6 DEF IInv, Throttle, Typing
  <2>2. LockHeld'
    BY <1>6 DEF IInv, Throttle, LockHeld, Typing
  <2>3. ThreadsFollowMain'
    BY <1>6 DEF IInv, Throttle, ThreadsFollowMain, Typing
  <2>4. SocketFollowsMain'
    BY <1>6 DEF IInv, Throttle, SocketFollowsMain, Typing
  <2>5. Goodbyes'
    BY <1>6 DEF IInv, Throttle, Goodbyes, Typing
  <2> QED BY <2>1, <2>2, <2>3, <2>4, <2>5 DEF IInv
<1> QED BY <1>1, <1>2, <1>3, <1>4, <1>5, <1>6

\* The steps of send_each, on any thread.
LEMMA SendStep ==
  ASSUME IInv, NEW t \in Threads, Send(t)
  PROVE  IInv'
<1> USE NoneAssumption, AdvertsAssumption
<1> USE DEF wire, Threads, MainPcs, ReceivePcs, TimerPcs, SendPcs
<1>1. CASE LockSend(t)
  <2>1. Typing'
    <3>1. owner' \in Threads \cup {None}
      BY <1>1 DEF LockSend
    <3>2. UNCHANGED <<running, socket, pc, left, byes>>
      BY <1>1 DEF LockSend
    <3>3. Typing
      BY DEF IInv
    <3> QED BY ONLY <3>1, <3>2, <3>3 DEF Typing
  <2>2. LockHeld'
    BY <1>1 DEF IInv, LockSend, LockHeld, Typing
  <2>3. ThreadsFollowMain'
    BY <1>1 DEF IInv, LockSend, ThreadsFollowMain, Typing
  <2>4. SocketFollowsMain'
    BY <1>1 DEF IInv, LockSend, SocketFollowsMain, Typing
  <2>5. Goodbyes'
    BY <1>1 DEF IInv, LockSend, Goodbyes, Typing
  <2> QED BY <2>1, <2>2, <2>3, <2>4, <2>5 DEF IInv
<1>2. CASE SendPacket(t)
  <2>0. /\ left[t] \in Nat \ {0} /\ left'[t] = left[t] - 1
        /\ left' \in [Threads -> Nat]
        /\ \A u \in Threads \ {t} : left'[u] = left[u]
    <3>1. left' = [left EXCEPT ![t] = @ - 1] /\ left[t] > 0
      BY <1>2 DEF SendPacket
    <3>2. left \in [Threads -> Nat]
      BY DEF IInv, Typing
    <3> QED BY ONLY t \in Threads, <3>1, <3>2
  <2>1. Typing'
    <3>1. left' \in [Threads -> Nat]
      BY <2>0 DEF IInv, Typing
    <3>2. byes' \in Nat
      <4>1. byes \in Nat
        BY DEF IInv, Typing
      <4>2. byes' = byes + 1 \/ byes' = byes
        BY <1>2 DEF SendPacket
      <4> QED BY <4>1, <4>2
    <3>3. /\ running' = running /\ socket' = socket
          /\ owner' = owner /\ pc' = pc
      BY <1>2 DEF SendPacket
    <3>4. Typing
      BY DEF IInv
    <3> HIDE DEF Threads, MainPcs, ReceivePcs, TimerPcs
    <3> QED BY <3>1, <3>2, <3>3, <3>4 DEF Typing
  <2>2. LockHeld'
    BY <1>2 DEF IInv, SendPacket, LockHeld, Typing, ThreadsFollowMain, SocketFollowsMain
  <2>3. ThreadsFollowMain'
    BY <1>2 DEF IInv, SendPacket, ThreadsFollowMain, Typing, LockHeld, SocketFollowsMain
  <2>4. SocketFollowsMain'
    BY <1>2 DEF IInv, SendPacket, SocketFollowsMain, Typing, LockHeld, ThreadsFollowMain
  <2>5. Goodbyes'
    <3>1. /\ owner = t /\ pc[t] \in SendPcs /\ pc' = pc
      BY <1>2 DEF IInv, LockHeld, SendPacket
    <3>2. CASE pc["main"] = "byebye" /\ t = "main"
      <4>1. socket = "open" /\ byes + left["main"] = Adverts /\ byes \in Nat
        BY <3>2 DEF IInv, Typing, SocketFollowsMain, Goodbyes
      <4>2. byes' = byes + 1 /\ lastWord' = "byebye"
        BY <1>2, <3>2, <4>1 DEF SendPacket
      <4>3. byes' + left'["main"] = Adverts
        BY <2>0, <3>2, <4>1, <4>2
      <4> QED BY <3>1, <3>2, <4>2, <4>3 DEF Goodbyes
    <3>3. CASE pc["main"] \in {"byebye", "close", "join", "stopped"} /\ t # "main"
      <4>1. pc[t] = "respond"
        BY <3>1, <3>3 DEF IInv, Typing, ThreadsFollowMain
      <4>2. UNCHANGED wire
        BY <1>2, <4>1 DEF SendPacket
      <4>3. left'["main"] = left["main"]
        BY <2>0, <3>3
      <4> QED BY <3>1, <4>2, <4>3 DEF IInv, Goodbyes
    <3>4. CASE pc["main"] \notin {"byebye", "close", "join", "stopped"}
      <4>1. pc[t] # "byebye"
        BY <3>4 DEF IInv, Typing
      <4>2. byes' = byes
        BY <1>2, <4>1 DEF SendPacket
      <4> QED BY <3>1, <3>4, <4>2 DEF IInv, Goodbyes
    <3>5. ~(pc["main"] \in {"close", "join", "stopped"} /\ t = "main")
      BY <3>1
    <3> QED BY <3>2, <3>3, <3>4, <3>5
  <2> QED BY <2>1, <2>2, <2>3, <2>4, <2>5 DEF IInv
<1>3. CASE UnlockSend(t)
  <2>1. Typing'
    BY <1>3 DEF IInv, UnlockSend, AfterSend, Typing, LockHeld, ThreadsFollowMain, SocketFollowsMain
  <2>2. LockHeld'
    BY <1>3 DEF IInv, UnlockSend, AfterSend, LockHeld, Typing, ThreadsFollowMain, SocketFollowsMain
  <2>3. ThreadsFollowMain'
    BY <1>3 DEF IInv, UnlockSend, AfterSend, ThreadsFollowMain, Typing, LockHeld, SocketFollowsMain
  <2>4. SocketFollowsMain'
    BY <1>3 DEF IInv, UnlockSend, AfterSend, SocketFollowsMain, Typing, LockHeld, ThreadsFollowMain
  <2>5. Goodbyes'
    <3>1. /\ owner = t /\ pc[t] \in SendPcs /\ left[t] = 0
          /\ UNCHANGED <<left, byes, lastWord>>
      BY <1>3 DEF IInv, LockHeld, UnlockSend
    <3>2. CASE t = "main" /\ pc["main"] = "byebye"
      <4>1. pc'["main"] = "close"
        BY <1>3, <3>2 DEF IInv, Typing, UnlockSend, AfterSend, AfterSend
      <4>2. byes = Adverts /\ lastWord = "byebye"
        <5>1. /\ byes + left["main"] = Adverts /\ left["main"] = 0
              /\ byes > 0 => lastWord = "byebye"
          BY <3>1, <3>2 DEF IInv, Goodbyes
        <5>2. byes \in Nat
          BY DEF IInv, Typing
        <5> QED BY <5>1, <5>2
      <4> QED BY <3>1, <4>1, <4>2 DEF Goodbyes
    <3>3. CASE t = "main" /\ pc["main"] = "alive"
      <4>1. pc'["main"] = "start timer"
        BY <1>3, <3>3 DEF IInv, Typing, UnlockSend, AfterSend, AfterSend
      <4> QED BY <3>1, <3>3, <4>1 DEF IInv, Goodbyes
    <3>4. CASE t # "main"
      <4>1. pc'["main"] = pc["main"]
        BY <1>3, <3>4 DEF IInv, Typing, UnlockSend
      <4> QED BY <3>1, <4>1 DEF IInv, Goodbyes
    <3> QED BY <3>1, <3>2, <3>3, <3>4 DEF IInv, Typing
  <2> QED BY <2>1, <2>2, <2>3, <2>4, <2>5 DEF IInv
<1> QED BY <1>1, <1>2, <1>3 DEF Send

LEMMA Inductive == IInv /\ [Next]_vars => IInv'
<1> SUFFICES ASSUME IInv, [Next]_vars PROVE IInv'
  OBVIOUS
<1>1. CASE Main
  BY <1>1, MainStep, SendStep DEF Main, Threads
<1>2. CASE Stop
  BY <1>2, MainStep
<1>3. CASE Receive
  BY <1>3, ReceiveAndTickStep, SendStep DEF Receive, Threads
<1>4. CASE Timer
  BY <1>4, ReceiveAndTickStep, SendStep DEF Timer, Threads
<1>5. CASE Clock
  BY <1>5 DEF Clock, IInv, Typing, LockHeld, ThreadsFollowMain,
     SocketFollowsMain, Goodbyes, wire
<1>6. CASE UNCHANGED vars
  BY <1>6 DEF vars, IInv, Typing, LockHeld, ThreadsFollowMain,
     SocketFollowsMain, Goodbyes, wire
<1> QED BY <1>1, <1>2, <1>3, <1>4, <1>5, <1>6 DEF Next

LEMMA AlwaysIInv == Spec => []IInv
BY Initially, Inductive, PTL DEF Spec

-----------------------------------------------------------------------------

\* SsdpService::stop: when it has returned, the whole byebye burst has left and
\* was the last announcement.
THEOREM GoodbyeIsComplete == Spec => []SaysGoodbye
<1>1. IInv => SaysGoodbye
  BY DEF IInv, Goodbyes, SaysGoodbye
<1> QED BY <1>1, AlwaysIInv, PTL

\* SsdpService::stop: the socket is destroyed only when no thread can use it.
THEOREM SocketIsSafe == Spec => []SocketOutlivesUsers
<1>1. IInv => SocketOutlivesUsers
  BY DEF IInv, Typing, ThreadsFollowMain, SocketFollowsMain,
     SocketOutlivesUsers, ReceivePcs, TimerPcs
<1> QED BY <1>1, AlwaysIInv, PTL

\* Every step of the service is a step of its token bucket or leaves it alone.
LEMMA ServiceUsesBudget == [Next]_vars => [BudgetNext]_budgetVars
<1> SUFFICES ASSUME [Next]_vars PROVE [BudgetNext]_budgetVars
  OBVIOUS
<1>1. CASE Main
  BY <1>1 DEF Main, Start, StartFails, StartTimer, StopTimer, CloseSocket,
     JoinAndReset, Send, LockSend, SendPacket, UnlockSend
<1>2. CASE Stop
  BY <1>2 DEF Stop
<1>3. CASE Receive
  <2>1. ASSUME NEW count \in {1, Adverts}, Answer(count) \/ Throttle(count)
        PROVE  BudgetNext
    BY <2>1, AdvertsAssumption DEF Answer, Throttle, BudgetNext
  <2> QED BY <1>3, <2>1 DEF Receive, LoopHead, ReceiveFails, IgnoreDatagram,
             Send, LockSend, SendPacket, UnlockSend
<1>4. CASE Timer
  BY <1>4 DEF Timer, AliveTick, Send, LockSend, SendPacket, UnlockSend
<1>5. CASE Clock
  BY <1>5 DEF Clock, BudgetNext
<1>6. CASE UNCHANGED vars
  BY <1>6 DEF vars
<1> QED BY <1>1, <1>2, <1>3, <1>4, <1>5, <1>6 DEF Next

\* SsdpService: the answers to M-SEARCH stay within the rate of the bucket.
THEOREM ServiceRespectsRate == Spec => []RateBound
<1>1. Init => BudgetInit
  BY DEF Init
<1>2. Spec => BudgetSpec
  BY <1>1, ServiceUsesBudget, PTL DEF Spec, BudgetSpec
<1> QED BY <1>2, BudgetRespectsRate, PTL

-----------------------------------------------------------------------------

\* The longest burst.
Longest == IF Adverts > 1 THEN Adverts ELSE 1

LEMMA LongestIsLongest == Longest \in Nat /\ Adverts <= Longest /\ 1 <= Longest
BY AdvertsAssumption DEF Longest

\* What a thread has left to send is a burst at most, and nothing outside
\* send_each.
Bursts ==
  \A t \in Threads :
    /\ left[t] <= Longest
    /\ pc[t] \notin SendPcs => left[t] = 0

LEMMA BurstsStep == IInv /\ Bursts /\ [Next]_vars => Bursts'
<1> SUFFICES ASSUME Typing, LockHeld, ThreadsFollowMain, Bursts, [Next]_vars PROVE Bursts'
  BY DEF IInv
<1> USE AdvertsAssumption, NoneAssumption, LongestIsLongest
<1> USE DEF Goto, wire, Threads, Bursts, SendPcs
<1>1. CASE Start \/ StartFails \/ StartTimer \/ Stop \/ StopTimer \/ CloseSocket \/ JoinAndReset
  <2>1. CASE Start
    <3>1. /\ pc' = [pc EXCEPT !["main"] = "alive", !["receive"] = "loop"]
          /\ left' = [left EXCEPT !["main"] = Adverts] /\ pc["receive"] = "none"
      BY <2>1 DEF Start, ThreadsFollowMain
    <3>2. pc["receive"] \notin SendPcs
      BY <3>1
    <3> QED BY <3>1, <3>2 DEF Typing
  <2>2. CASE StartFails \/ Stop \/ CloseSocket \/ JoinAndReset
    <3>1. /\ left' = left /\ \E to \in {"off", "stop timer", "join", "stopped"} :
                               pc' = [pc EXCEPT !["main"] = to]
          /\ pc["main"] \notin SendPcs
      BY <2>2 DEF StartFails, Stop, CloseSocket, JoinAndReset
    <3> QED BY <3>1 DEF Typing
  <2>3. CASE StartTimer
    <3>1. /\ pc' = [pc EXCEPT !["main"] = "serving", !["timer"] = "armed"]
          /\ left' = left /\ pc["main"] = "start timer" /\ pc["timer"] = "none"
      BY <2>3 DEF StartTimer, ThreadsFollowMain
    <3>2. pc["main"] \notin SendPcs /\ pc["timer"] \notin SendPcs
      BY <3>1
    <3> QED BY <3>1, <3>2 DEF Typing
  <2>4. CASE StopTimer
    <3>1. /\ pc' = [pc EXCEPT !["main"] = "byebye", !["timer"] = "none"]
          /\ left' = [left EXCEPT !["main"] = Adverts] /\ pc["timer"] = "armed"
      BY <2>4 DEF StopTimer
    <3>2. pc["timer"] \notin SendPcs
      BY <3>1
    <3> QED BY <3>1, <3>2 DEF Typing
  <2> QED BY <1>1, <2>1, <2>2, <2>3, <2>4
<1>2. CASE LoopHead \/ ReceiveFails \/ IgnoreDatagram \/ AliveTick
  BY <1>2 DEF LoopHead, ReceiveFails, IgnoreDatagram, AliveTick, Typing
<1>3. ASSUME NEW count \in {1, Adverts}, Answer(count) \/ Throttle(count) PROVE Bursts'
  BY <1>3 DEF Answer, Throttle, Typing
<1>4. ASSUME NEW t \in Threads, Send(t) PROVE Bursts'
  <2>1. CASE LockSend(t)
    BY <2>1 DEF LockSend
  <2>2. CASE SendPacket(t)
    <3>1. /\ owner = t /\ left[t] > 0 /\ left' = [left EXCEPT ![t] = @ - 1] /\ pc' = pc
          /\ left \in [Threads -> Nat]
      BY <2>2 DEF SendPacket, Typing
    <3>2. pc[t] \in SendPcs
      BY <3>1 DEF LockHeld
    <3> QED BY <3>1, <3>2
  <2>3. CASE UnlockSend(t)
    BY <2>3 DEF UnlockSend, Typing
  <2> QED BY <1>4, <2>1, <2>2, <2>3 DEF Send
<1>5. CASE Clock \/ UNCHANGED vars
  BY <1>5 DEF Clock, vars
<1>6. CASE Main
  BY <1>6, <1>1, <1>4 DEF Main
<1>7. CASE Receive
  BY <1>7, <1>2, <1>3, <1>4 DEF Receive
<1>8. CASE Timer
  BY <1>8, <1>2, <1>4 DEF Timer
<1> QED BY <1>1, <1>5, <1>6, <1>7, <1>8 DEF Next

\* SsdpService: the variables have their types, only a thread inside send_each
\* holds send_mutex_, and no burst outlives its send_each.
THEOREM ServiceTypes == Spec => []TypeOK
<1>1. Init => Bursts /\ BudgetInv
  BY LongestIsLongest, BudgetInitially DEF Init, Bursts, Threads
<1>2. BudgetInv /\ [Next]_vars => BudgetInv'
  BY ServiceUsesBudget, BudgetStep
<1>3. IInv /\ Bursts /\ BudgetInv => TypeOK
  <2> SUFFICES ASSUME IInv, Bursts, BudgetInv PROVE TypeOK
    OBVIOUS
  <2>1. \A t \in Threads : left[t] \in 0..Longest /\ (pc[t] \notin SendPcs => left[t] = 0)
    BY LongestIsLongest DEF IInv, Typing, Bursts
  <2> QED BY <2>1 DEF IInv, Typing, LockHeld, BudgetInv, BudgetTypes, TypeOK, Longest
<1> QED BY <1>1, <1>2, <1>3, AlwaysIInv, BurstsStep, PTL DEF Spec
=============================================================================
