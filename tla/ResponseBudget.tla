--------------------------- MODULE ResponseBudget ---------------------------
(***************************************************************************)
(* SsdpResponseBudget: the token bucket that limits how many M-SEARCH      *)
(* response packets leave the server.  Time is counted in ticks of any     *)
(* length and tokens in whole packets; Rate is the refill of one tick.     *)
(***************************************************************************)
EXTENDS Integers

CONSTANTS
  Rate,   \* rate_; 0 means no limit
  Burst,  \* burst_
  Never   \* last_ has no value

ASSUME RateAssumption  == Rate \in Nat
ASSUME BurstAssumption == Burst \in Nat
ASSUME NeverAssumption == Never \notin Nat

VARIABLES
  tokens, \* tokens_
  last,   \* last_: time of the last call
  now,    \* steady_clock
  since,  \* history: a moment from which packets are counted
  sent    \* history: packets allowed since then

budgetVars == <<tokens, last, now, since, sent>>

BudgetInit ==
  /\ tokens = Burst
  /\ last = Never
  /\ now = 0
  /\ since = 0
  /\ sent = 0

Uncapped(n) == n \* mutant: std::min(burst_, ...) is dropped

Capped(n) == IF n < Burst THEN n ELSE Burst

Refilled == IF last = Never THEN tokens ELSE Capped(tokens + (now - last) * Rate)

\* allow(count) returns true.
Allow(count) ==
  IF Rate = 0
  THEN /\ sent' = sent + count
       /\ UNCHANGED <<tokens, last, now, since>>
  ELSE /\ Refilled >= count
       /\ tokens' = Refilled - count
       /\ last' = now
       /\ sent' = sent + count
       /\ UNCHANGED <<now, since>>

RefuseWithoutStamp(count) == \* mutant: last_ is set only when tokens are spent
  /\ Rate # 0 /\ Refilled < count
  /\ tokens' = Refilled
  /\ UNCHANGED <<last, now, since, sent>>

\* allow(count) returns false.
Refuse(count) ==
  /\ Rate # 0 /\ Refilled < count
  /\ tokens' = Refilled
  /\ last' = now
  /\ UNCHANGED <<now, since, sent>>

Tick ==
  /\ now' = now + 1
  /\ UNCHANGED <<tokens, last, since, sent>>

\* Counting starts afresh at any moment.
StartCounting ==
  /\ since' = now
  /\ sent' = 0
  /\ UNCHANGED <<tokens, last, now>>

BudgetNext ==
  \/ \E count \in Nat : Allow(count) \/ Refuse(count)
  \/ Tick \/ StartCounting

BudgetSpec == BudgetInit /\ [][BudgetNext]_budgetVars

\* From any moment on, whatever requests arrive and whichever are refused, no
\* more packets are allowed than one burst and the refill of the time passed:
\* the responder cannot be made to amplify beyond that.
RateBound == Rate > 0 => sent <= Burst + Rate * (now - since)
=============================================================================
