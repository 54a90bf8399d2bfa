----------------------------- MODULE SsdpService -----------------------------
(***************************************************************************)
(* The life of composition::SsdpService: main starts and stops it, its     *)
(* receive thread answers M-SEARCH, the periodic timer's thread announces  *)
(* ssdp:alive.  They share running_, the socket and send_mutex_.           *)
(*                                                                         *)
(* The socket and the timer belong to the atria library and are modelled   *)
(* from how this code relies on them: close makes sends fail, and stopping *)
(* the timer waits for a callback that is running.                         *)
(***************************************************************************)
EXTENDS ResponseBudget

CONSTANTS
  Adverts,  \* packets of an announcement and of an answer to ssdp:all
  MaxTime,  \* bound: ticks
  None

ASSUME AdvertsAssumption == Adverts \in Nat \ {0}
ASSUME TimeAssumption    == MaxTime \in Nat

VARIABLES
  running,  \* running_
  socket,   \* socket_: "none", "open" or "closed"
  timeout,  \* whether set_receive_timeout took effect
  owner,    \* thread holding send_mutex_
  pc,
  left,     \* packets each thread has yet to send
  lastWord, \* history: last multicast announcement on the wire
  byes      \* history: byebye packets on the wire

wire == <<lastWord, byes>>
vars == <<budgetVars, running, socket, timeout, owner, pc, left, wire>>

Threads == {"main", "receive", "timer"}

ASSUME NoneAssumption == None \notin Threads

\* Where a thread is in send_each.
SendPcs == {"alive", "byebye", "respond", "tick"}

Init ==
  /\ BudgetInit
  /\ running = FALSE
  /\ socket = "none"
  /\ timeout = TRUE
  /\ owner = None
  /\ pc = [t \in Threads |-> IF t = "main" THEN "new" ELSE "none"]
  /\ left = [t \in Threads |-> 0]
  /\ lastWord = "none" /\ byes = 0

Goto(t, from, to) ==
  /\ pc[t] = from
  /\ pc' = [pc EXCEPT ![t] = to]

-----------------------------------------------------------------------------
(* start and stop, on the main thread.                                     *)

\* Socket bound and joined, receive thread created; the alive burst is next.
Start ==
  /\ pc["main"] = "new"
  /\ socket' = "open"
  /\ timeout' \in BOOLEAN
  /\ running' = TRUE
  /\ pc' = [pc EXCEPT !["main"] = "alive", !["receive"] = "loop"]
  /\ left' = [left EXCEPT !["main"] = Adverts]
  /\ UNCHANGED <<budgetVars, owner, wire>>

\* bind or join fails: the server goes on with HTTP only.
StartFails ==
  /\ Goto("main", "new", "off")
  /\ UNCHANGED <<budgetVars, running, socket, timeout, owner, left, wire>>

StartTimer ==
  /\ pc["main"] = "start timer"
  /\ pc' = [pc EXCEPT !["main"] = "serving", !["timer"] = "armed"]
  /\ UNCHANGED <<budgetVars, running, socket, timeout, owner, left, wire>>

\* stop: running_ goes from true to false.
Stop ==
  /\ Goto("main", "serving", "stop timer")
  /\ running' = FALSE
  /\ UNCHANGED <<budgetVars, socket, timeout, owner, left, wire>>

StopTimerUnjoined == \* mutant: the timer is told to stop, not waited for
  /\ pc["main"] = "stop timer"
  /\ pc' = [pc EXCEPT !["main"] = "byebye",
                      !["timer"] = IF @ = "armed" THEN "none" ELSE @]
  /\ left' = [left EXCEPT !["main"] = Adverts]
  /\ UNCHANGED <<budgetVars, running, socket, timeout, owner, wire>>

\* alive_timer_.stop(): no callback is running, none will be.
StopTimer ==
  /\ pc["main"] = "stop timer" /\ pc["timer"] = "armed"
  /\ pc' = [pc EXCEPT !["main"] = "byebye", !["timer"] = "none"]
  /\ left' = [left EXCEPT !["main"] = Adverts]
  /\ UNCHANGED <<budgetVars, running, socket, timeout, owner, wire>>

CloseSocket ==
  /\ Goto("main", "close", "join")
  /\ socket' = "closed"
  /\ UNCHANGED <<budgetVars, running, timeout, owner, left, wire>>

ResetUnjoined == \* mutant: the socket is destroyed before the thread has ended
  /\ Goto("main", "join", "stopped")
  /\ socket' = "none"
  /\ UNCHANGED <<budgetVars, running, timeout, owner, left, wire>>

\* The receive thread is joined and the socket destroyed.  A second stop, from
\* the destructor, returns at its compare_exchange.
JoinAndReset ==
  /\ pc["receive"] = "done"
  /\ Goto("main", "join", "stopped")
  /\ socket' = "none"
  /\ UNCHANGED <<budgetVars, running, timeout, owner, left, wire>>

-----------------------------------------------------------------------------
(* receive_loop.                                                           *)

LoopForever == \* mutant: the loop does not look at running_
  /\ pc["receive"] = "loop"
  /\ pc' = [pc EXCEPT !["receive"] = "wait"]
  /\ UNCHANGED <<budgetVars, running, socket, timeout, owner, left, wire>>

\* while (running_): and the socket is there.
LoopHead ==
  /\ pc["receive"] = "loop"
  /\ pc' = [pc EXCEPT !["receive"] = IF running /\ socket # "none" THEN "wait" ELSE "done"]
  /\ UNCHANGED <<budgetVars, running, socket, timeout, owner, left, wire>>

\* The receive timeout expires, or the closed socket reports an error.
ReceiveFails ==
  /\ timeout
  /\ Goto("receive", "wait", "loop")
  /\ UNCHANGED <<budgetVars, running, socket, timeout, owner, left, wire>>

\* Not an M-SEARCH, not from the LAN, or for a target nobody here offers.
IgnoreDatagram ==
  /\ socket = "open"
  /\ Goto("receive", "wait", "loop")
  /\ UNCHANGED <<budgetVars, running, socket, timeout, owner, left, wire>>

\* An M-SEARCH that deserves count responses, within the budget.
Answer(count) ==
  /\ socket = "open"
  /\ Goto("receive", "wait", "respond")
  /\ Allow(count)
  /\ left' = [left EXCEPT !["receive"] = count]
  /\ UNCHANGED <<running, socket, timeout, owner, wire>>

Throttle(count) ==
  /\ socket = "open"
  /\ Goto("receive", "wait", "loop")
  /\ Refuse(count)
  /\ UNCHANGED <<running, socket, timeout, owner, left, wire>>

-----------------------------------------------------------------------------
(* The timer's callback.                                                   *)

AliveTick ==
  /\ running
  /\ Goto("timer", "armed", "tick")
  /\ left' = [left EXCEPT !["timer"] = Adverts]
  /\ UNCHANGED <<budgetVars, running, socket, timeout, owner, wire>>

-----------------------------------------------------------------------------
(* send_each, on any thread.                                               *)

LockSend(t) ==
  /\ pc[t] \in SendPcs /\ owner = None
  /\ owner' = t
  /\ UNCHANGED <<budgetVars, running, socket, timeout, pc, left, wire>>

\* A send on a closed socket fails and is only logged.
SendPacket(t) ==
  /\ owner = t /\ left[t] > 0
  /\ left' = [left EXCEPT ![t] = @ - 1]
  /\ IF socket = "open" /\ pc[t] # "respond"
     THEN /\ lastWord' = IF pc[t] = "byebye" THEN "byebye" ELSE "alive"
          /\ byes' = IF pc[t] = "byebye" THEN byes + 1 ELSE byes
     ELSE UNCHANGED wire
  /\ UNCHANGED <<budgetVars, running, socket, timeout, owner, pc>>

\* What each thread does after its burst.
AfterSend(burst) ==
  CASE burst = "alive"   -> "start timer"
    [] burst = "byebye"  -> "close"
    [] burst = "respond" -> "loop"
    [] burst = "tick"    -> "armed"

UnlockSend(t) ==
  /\ owner = t /\ left[t] = 0
  /\ owner' = None
  /\ pc' = [pc EXCEPT ![t] = AfterSend(@)]
  /\ UNCHANGED <<budgetVars, running, socket, timeout, left, wire>>

Send(t) == LockSend(t) \/ SendPacket(t) \/ UnlockSend(t)

Main    == \/ Start \/ StartFails \/ StartTimer \/ StopTimer
           \/ CloseSocket \/ JoinAndReset \/ Send("main")
Receive == \/ LoopHead \/ ReceiveFails \/ IgnoreDatagram \/ Send("receive")
           \/ \E count \in {1, Adverts} : Answer(count) \/ Throttle(count)
Timer   == AliveTick \/ Send("timer")

Clock ==
  /\ \/ now < MaxTime /\ Tick
     \/ StartCounting
  /\ UNCHANGED <<running, socket, timeout, owner, pc, left, wire>>

Next == Main \/ Stop \/ Receive \/ Timer \/ Clock

Spec == Init /\ [][Next]_vars

\* The three threads are scheduled, a receive timeout expires, and the timer's
\* callback, once called, goes on; nothing makes anybody call stop.
Fairness ==
  /\ WF_vars(Main)
  /\ WF_vars(LoopHead) /\ WF_vars(ReceiveFails) /\ WF_vars(Send("receive"))
  /\ WF_vars(Send("timer"))

FairSpec == Spec /\ Fairness

-----------------------------------------------------------------------------
(* Properties.                                                             *)

TypeOK ==
  /\ tokens \in 0..Burst /\ last \in {Never} \cup 0..now
  /\ running \in BOOLEAN
  /\ socket \in {"none", "open", "closed"}
  /\ owner \in Threads \cup {None}
  /\ owner # None => pc[owner] \in SendPcs
  /\ \A t \in Threads : /\ left[t] \in 0..(IF Adverts > 1 THEN Adverts ELSE 1)
                        /\ pc[t] \notin SendPcs => left[t] = 0

\* No thread is inside the socket once stop has destroyed it.
SocketOutlivesUsers ==
  socket = "none" =>
    /\ pc["receive"] \in {"none", "done"}
    /\ pc["timer"] = "none"

\* When stop has returned, the whole byebye burst has left through the open
\* socket and no announcement of ours came after it, so renderers drop the
\* server at once rather than after cache_max_age.
SaysGoodbye ==
  pc["main"] = "stopped" => byes = Adverts /\ lastWord = "byebye"

\* stop returns: no thread waits on another in a circle over send_mutex_, the
\* timer and the joins.
StopReturns ==
  pc["main"] = "stop timer" /\ timeout ~> pc["main"] = "stopped"
=============================================================================
