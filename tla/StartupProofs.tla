---------------------------- MODULE StartupProofs ----------------------------
(***************************************************************************)
(* Proofs about Startup: the schema that is recorded is there, and what a  *)
(* call of the catalog answered is true, for any number of processes,      *)
(* versions, faults and calls.                                             *)
(***************************************************************************)
EXTENDS Startup, TLAPS

(* The script takes effect in order: what is done is done from its start. *)
InOrder == \A i \in done : 1..i \subseteq done

(* A process is never past a statement that has not taken effect. *)
Behind(p) == /\ pc[p] \in {"ddl", "sent"} => /\ 1..(next[p] - 1) \subseteq done
                                             /\ next[p] <= RecordAt(Understands[p])
                                             /\ next[p] # 0 => 0 \in done
             /\ pc[p] = "version" => 0 \in done

SchemaInv == /\ TypeOK /\ InOrder /\ ServesCompleteSchema
             /\ \A p \in Procs : Behind(p)

-----------------------------------------------------------------------------
(* Types *)

LEMMA Positions ==
    ASSUME NEW v \in 0..Newest
    PROVE  /\ RecordAt(v) \in Int
           /\ v >= 1 => RecordAt(v) \in Script
           /\ v < Newest => RecordAt(v) + 1 \in Script
           /\ \A w \in 0..Newest : v < w => RecordAt(v) + 1 <= RecordAt(w)
BY SchemaAssumption DEF RecordAt, Script

(* How the actions of a process move its program counter, call and          *)
(* connection: what Becomes leaves is well typed.                           *)
LEMMA BecomesType ==
    ASSUME TypeOK, NEW p \in Procs,
           NEW state \in {"off", "refused", "stopped", "open", "serving", "demo"},
           Becomes(p, state)
    PROVE  /\ pc' \in [Procs -> {"off", "refused", "stopped", "open", "ddl", "sent", "version",
                                 "serving", "demo"}]
           /\ next' \in [Procs -> Script] /\ absent' \in [Procs -> BOOLEAN]
           /\ conn' \in [Procs -> {"closed", "open", "stale"}]
           /\ call' \in [Procs -> Calls]
           /\ calls' \in [Procs -> Nat]
<1>1. NoCall \in Calls
  BY DEF NoCall, Calls
<1>. QED BY <1>1 DEF TypeOK, Becomes

LEMMA TypeStep == TypeOK /\ [Next]_vars => TypeOK'
<1> SUFFICES ASSUME TypeOK, [Next]_vars PROVE TypeOK'
  OBVIOUS
<1>1. ASSUME NEW p \in Procs, Refuse(p) \/ StartWithoutCatalog(p) \/ OpenCatalog(p) \/ Stop(p)
      PROVE TypeOK'
  BY <1>1, BecomesType DEF TypeOK, Refuse, StartWithoutCatalog, OpenCatalog, Stop, dbVars
<1>2. ASSUME NEW p \in Procs, OpenFails(p) PROVE TypeOK'
  BY <1>2, BecomesType DEF TypeOK, OpenFails, dbVars
<1>3. ASSUME NEW p \in Procs, Serve(p) PROVE TypeOK'
  BY <1>3, BecomesType DEF TypeOK, Serve, SchemaComplete, Execute, dbVars
<1>4. ASSUME NEW p \in Procs, Crash(p) PROVE TypeOK'
  <2>1. done' \subseteq Script
    BY <1>4 DEF Crash, Execute, TypeOK
  <2>2. faults' \in Nat
    BY <1>4 DEF Crash, Fault, TypeOK
  <2>. QED BY <1>4, <2>1, <2>2, BecomesType DEF TypeOK, Crash
<1>5. ASSUME NEW p \in Procs, Connect(p) PROVE TypeOK'
  <2>1. 0 \in Script
    BY SchemaAssumption DEF Script, RecordAt
  <2>. QED BY <1>5, <2>1 DEF TypeOK, Connect, dbVars, callVars
<1>6. ASSUME NEW p \in Procs, Send(p) PROVE TypeOK'
  BY <1>6 DEF TypeOK, Send, dbVars, callVars
<1>7. ASSUME NEW p \in Procs, VersionTableReady(p) PROVE TypeOK'
  BY <1>7 DEF TypeOK, VersionTableReady, Execute, callVars
<1>8. ASSUME NEW p \in Procs, ReadVersion(p) PROVE TypeOK'
  <2>1. PICK v \in 0..Newest : v < Understands[p] /\ next' = [next EXCEPT ![p] = FirstOf(v)]
    BY <1>8 DEF ReadVersion
  <2>2. FirstOf(v) \in Script
    BY <2>1, Positions, SchemaAssumption DEF FirstOf, Script, RecordAt
  <2>. QED BY <1>8, <2>1, <2>2 DEF TypeOK, ReadVersion, dbVars, callVars
<1>9. ASSUME NEW p \in Procs, Advance(p) PROVE TypeOK'
  <2>1. next[p] + 1 \in Script
    BY <1>9, SchemaAssumption DEF Advance, Script, RecordAt
  <2>. QED BY <1>9, <2>1 DEF TypeOK, Advance, Execute, callVars
<1>10. ASSUME NEW p \in Procs, NEW op \in {"upsert", "bump", "read"}, Invoke(p, op), UNCHANGED config
       PROVE TypeOK'
  <2>1. [NoCall EXCEPT !.op = op, !.stage = "call", !.from = counter]
           \in Calls
    BY DEF NoCall, TypeOK, Calls
  <2>. QED BY <1>10, <2>1 DEF TypeOK, Invoke, dbVars, schemaVars
<1>11. ASSUME NEW p \in Procs, Reconnect(p) PROVE TypeOK'
  BY <1>11 DEF TypeOK, Reconnect, dbVars, schemaVars, callVars
<1>12. ASSUME NEW p \in Procs, ReconnectFails(p) \/ StatementFails(p) PROVE TypeOK'
  <2>1. call' = [call EXCEPT ![p].stage = "error"] /\ faults' \in Nat
    BY <1>12 DEF TypeOK, ReconnectFails, StatementFails, Fault
  <2>2. call' \in [Procs -> Calls]
    BY <2>1 DEF TypeOK, Calls
  <2>. QED BY <1>12, <2>1, <2>2 DEF TypeOK, ReconnectFails, StatementFails, dbVars, schemaVars, Calls
<1>13. ASSUME NEW p \in Procs, NEW stage \in {"again", "ok", "error"}, NEW n \in {0, 1}
       PROVE  TypeOK => Ended(p, stage, n) \in [Procs -> Calls]
  <2>1. ASSUME TypeOK, NEW q \in Procs PROVE Ended(p, stage, n)[q] \in Calls
    <3>1. CASE q = p
      <4>1. call[p].applied + n \in Nat
        BY <2>1 DEF TypeOK, Calls
      <4>2. Ended(p, stage, n)[p] = [call[p] EXCEPT !.stage = stage, !.seen = counter,
                                                    !.applied = call[p].applied + n]
        BY <2>1 DEF TypeOK, Ended, Calls
      <4>. QED BY <2>1, <3>1, <4>1, <4>2 DEF TypeOK, Calls
    <3>2. CASE q # p
      BY <2>1, <3>2 DEF TypeOK, Ended, Calls
    <3>. QED BY <3>1, <3>2
  <2>2. ASSUME TypeOK PROVE DOMAIN Ended(p, stage, n) = Procs
    BY <2>2 DEF TypeOK, Ended
  <2>. QED BY <2>1, <2>2 DEF Ended, TypeOK
<1>14. ASSUME NEW p \in Procs PROVE AfterLoss(p) \in {"again", "error"}
  BY DEF AfterLoss
<1>15. ASSUME NEW p \in Procs, Effect(p) PROVE rows' \subseteq Procs /\ counter' \in Nat
  BY <1>15 DEF Effect, TypeOK
<1>16. ASSUME NEW p \in Procs, Answer(p) PROVE TypeOK'
  <2>1. rows' \subseteq Procs /\ counter' \in Nat
    BY <1>15, <1>16 DEF Answer
  <2>. QED BY <1>13, <1>16, <2>1 DEF TypeOK, Answer, schemaVars
<1>17. ASSUME NEW p \in Procs, LoseAnswer(p) PROVE TypeOK'
  <2>1. rows' \subseteq Procs /\ counter' \in Nat
    BY <1>15, <1>17 DEF LoseAnswer, TypeOK
  <2>2. PICK n \in {0, 1} : call' = Ended(p, AfterLoss(p), n)
    BY <1>17 DEF LoseAnswer
  <2>3. faults' \in Nat
    BY <1>17 DEF LoseAnswer, Fault, TypeOK
  <2>4. call' \in [Procs -> Calls]
    BY <1>13, <1>14, <2>2
  <2>. QED BY <1>17, <2>1, <2>3, <2>4 DEF TypeOK, LoseAnswer, schemaVars
<1>18. ASSUME NEW p \in Procs, FindStale(p) PROVE TypeOK'
  <2>1. call' = Ended(p, AfterLoss(p), 0)
    BY <1>18 DEF FindStale
  <2>2. call' \in [Procs -> Calls]
    BY <1>13, <1>14, <2>1
  <2>. QED BY <1>18, <2>2 DEF TypeOK, FindStale, dbVars, schemaVars
<1>19. ASSUME Outage PROVE TypeOK'
  <2>1. done' \subseteq Script
    BY <1>19 DEF TypeOK, Outage
  <2>2. conn' \in [Procs -> {"closed", "open", "stale"}]
    <3>1. conn' = [p \in Procs |-> IF conn[p] = "open" THEN "stale" ELSE conn[p]]
      BY <1>19 DEF Outage
    <3>2. \A p \in Procs : conn[p] \in {"closed", "open", "stale"}
      BY DEF TypeOK
    <3>. QED BY <3>1, <3>2
  <2>3. faults' \in Nat /\ up' \in BOOLEAN
    <3>1. up' = FALSE /\ Fault
      BY <1>19 DEF Outage
    <3>2. faults' \in Nat
      BY <3>1 DEF Fault, TypeOK
    <3>3. up' \in BOOLEAN
      BY <3>1, Zenon
    <3>. QED BY <3>2, <3>3
  <2>4. UNCHANGED <<backend, rows, counter, pc, next, absent, call, calls>>
    BY <1>19 DEF Outage, schemaVars, callVars
  <2>5. /\ rows' \subseteq Procs /\ counter' \in Nat /\ backend' \in {"postgres", "sqlite"}
    BY <2>4 DEF TypeOK
  <2>. QED BY ONLY TypeOK, <2>1, <2>2, <2>3, <2>4, <2>5 DEF TypeOK
<1>20. ASSUME Recover PROVE TypeOK'
  BY <1>20 DEF TypeOK, Recover, schemaVars, callVars
<1>21. ASSUME UNCHANGED vars PROVE TypeOK'
  BY <1>21 DEF TypeOK, vars, dbVars, schemaVars, callVars
<1>. QED
  BY <1>1, <1>2, <1>3, <1>4, <1>5, <1>6, <1>7, <1>8, <1>9, <1>10, <1>11, <1>12, <1>16, <1>17,
     <1>18, <1>19, <1>20, <1>21 DEF Next, Open, Call

LEMMA TypeInit == Init => TypeOK
<1> SUFFICES ASSUME Init PROVE TypeOK
  OBVIOUS
<1>1. done \subseteq Script
  BY Positions, SchemaAssumption DEF Init, CatalogInit, Script, RecordAt
<1>2. 0 \in Script
  BY SchemaAssumption DEF Script, RecordAt
<1>3. NoCall \in Calls
  BY DEF NoCall, Calls
<1>. QED BY <1>1, <1>2, <1>3 DEF Init, CatalogInit, TypeOK

(* Every variable has its type in every reachable state. *)
THEOREM StartupTypeCorrect == Spec => []TypeOK
BY TypeInit, TypeStep, PTL DEF Spec

-----------------------------------------------------------------------------
(* The schema *)

(* What every step leaves of the schema's progress. *)
LEMMA BecomesBehind ==
    ASSUME TypeOK, NEW p \in Procs, NEW state \in {"off", "refused", "stopped", "open", "demo"},
           Becomes(p, state), done \subseteq done',
           \A q \in Procs : Behind(q), ServesCompleteSchema
    PROVE  (\A q \in Procs : Behind(q))' /\ ServesCompleteSchema'
BY DEF Becomes, Behind, ServesCompleteSchema, TypeOK

LEMMA SchemaStep == SchemaInv /\ [Next]_vars => SchemaInv'
<1> SUFFICES ASSUME SchemaInv, [Next]_vars PROVE SchemaInv'
  OBVIOUS
<1>. USE DEF SchemaInv
<1>0. TypeOK'
  BY TypeStep
<1>1. ASSUME UNCHANGED done, UNCHANGED pc, UNCHANGED next PROVE SchemaInv'
  BY <1>0, <1>1 DEF InOrder, ServesCompleteSchema, Behind
<1>2. ASSUME NEW p \in Procs, NEW state \in {"off", "refused", "stopped", "open", "demo"},
             Becomes(p, state), UNCHANGED done
      PROVE SchemaInv'
  BY <1>0, <1>2, BecomesBehind DEF InOrder
<1>3. ASSUME NEW p \in Procs, Refuse(p) \/ StartWithoutCatalog(p) \/ OpenCatalog(p) \/ Stop(p)
      PROVE SchemaInv'
  BY <1>2, <1>3 DEF Refuse, StartWithoutCatalog, OpenCatalog, Stop, dbVars
<1>4. ASSUME NEW p \in Procs, OpenFails(p) PROVE SchemaInv'
  BY <1>2, <1>4 DEF OpenFails, dbVars
<1>5. ASSUME NEW p \in Procs, Execute(p)
      PROVE  /\ InOrder' /\ 1..next[p] \subseteq done'
             /\ done \subseteq done' /\ next[p] \in done'
  BY <1>5 DEF Execute, InOrder, Behind, TypeOK, Script
<1>6. ASSUME NEW p \in Procs, Crash(p) PROVE SchemaInv'
  <2>1. Becomes(p, "off") /\ done \subseteq done' /\ InOrder'
    BY <1>5, <1>6 DEF Crash, Execute, InOrder
  <2>. QED BY <1>0, <2>1, BecomesBehind
<1>7. ASSUME NEW p \in Procs, Connect(p) PROVE SchemaInv'
  <2>1. \A q \in Procs : q # p => pc'[q] = pc[q] /\ next'[q] = next[q]
    BY <1>7 DEF Connect, TypeOK
  <2>2. done' = done /\ pc'[p] = "ddl" /\ next'[p] = 0
    BY <1>7 DEF Connect, TypeOK, dbVars
  <2>3. 0 <= RecordAt(Understands[p])
    BY SchemaAssumption DEF RecordAt
  <2>. QED BY <1>0, <2>1, <2>2, <2>3 DEF InOrder, ServesCompleteSchema, Behind
<1>8. ASSUME NEW p \in Procs, Send(p) PROVE SchemaInv'
  BY <1>0, <1>8 DEF Send, TypeOK, dbVars, InOrder, ServesCompleteSchema, Behind
<1>9. ASSUME NEW p \in Procs, VersionTableReady(p) PROVE SchemaInv'
  <2>1. /\ pc'[p] = "version" /\ 0 \in done' /\ done \subseteq done' /\ InOrder'
        /\ \A q \in Procs : next'[q] = next[q] /\ (q # p => pc'[q] = pc[q])
    BY <1>5, <1>9 DEF VersionTableReady, TypeOK
  <2>. QED BY <1>0, <2>1 DEF ServesCompleteSchema, Behind
<1>10. ASSUME NEW p \in Procs, ReadVersion(p) PROVE SchemaInv'
  <2>1. PICK v \in 0..Newest : /\ Stored(v) /\ v < Understands[p]
                               /\ next' = [next EXCEPT ![p] = FirstOf(v)]
    BY <1>10 DEF ReadVersion
  <2>2. /\ pc'[p] = "ddl" /\ next'[p] = FirstOf(v) /\ done' = done /\ 0 \in done
        /\ \A q \in Procs : q # p => next'[q] = next[q] /\ pc'[q] = pc[q]
    BY <1>10, <2>1 DEF ReadVersion, TypeOK, Behind, dbVars
  <2>3. FirstOf(v) <= RecordAt(Understands[p])
    BY <2>1, SchemaAssumption DEF FirstOf, RecordAt
  <2>4. 1..(FirstOf(v) - 1) \subseteq done
    <3>1. CASE v = 0
      BY <3>1 DEF FirstOf
    <3>2. CASE v # 0
      BY <2>1, <3>2, Positions DEF FirstOf, Stored, Recorded, InOrder
    <3>. QED BY <3>1, <3>2
  <2>. QED BY <1>0, <2>2, <2>3, <2>4 DEF InOrder, ServesCompleteSchema, Behind
<1>11. ASSUME NEW p \in Procs, Advance(p) PROVE SchemaInv'
  <2>0. next[p] \in Int /\ next[p] >= 1 /\ next[p] + 1 <= RecordAt(Understands[p])
    <3>1. RecordAt(Understands[p]) \in Int /\ next[p] \in 1..(RecordAt(Understands[p]) - 1)
      BY <1>11, SchemaAssumption DEF Advance, RecordAt
    <3>. QED BY <3>1
  <2>1. /\ pc'[p] = "ddl" /\ next'[p] = next[p] + 1 /\ next[p] + 1 <= RecordAt(Understands[p])
        /\ \A q \in Procs : q # p => next'[q] = next[q] /\ pc'[q] = pc[q]
    BY <1>11, <2>0 DEF Advance, TypeOK
  <2>2. 0 \in done /\ next[p] + 1 - 1 = next[p]
    BY <1>11, <2>0 DEF Advance, Execute, Behind
  <2>3. Execute(p)
    BY <1>11 DEF Advance
  <2>4. /\ InOrder' /\ done \subseteq done' /\ 0 \in done'
        /\ 1..(next'[p] - 1) \subseteq done'
    <3>1. /\ InOrder' /\ 1..next[p] \subseteq done' /\ done \subseteq done'
      BY <1>5, <2>3
    <3>2. next'[p] - 1 = next[p]
      BY <2>0, <2>1
    <3>. QED BY <2>2, <3>1, <3>2
  <2>5. next'[p] <= RecordAt(Understands[p])
    BY <2>0, <2>1
  <2>6. Behind(p)'
    BY <2>1, <2>4, <2>5 DEF Behind
  <2>7. ServesCompleteSchema'
    BY <2>1, <2>4 DEF ServesCompleteSchema
  <2>8. \A q \in Procs : q # p => Behind(q)'
    BY <2>1, <2>4 DEF Behind
  <2>. QED BY <1>0, <2>4, <2>6, <2>7, <2>8
<1>12. ASSUME NEW p \in Procs, Serve(p) PROVE SchemaInv'
  <2>1. /\ pc'[p] = "serving"
        /\ \A q \in Procs : next'[q] = next[q] /\ (q # p => pc'[q] = pc[q])
    BY <1>12 DEF Serve, Becomes, TypeOK
  <2>2. InOrder' /\ done \subseteq done' /\ 0..RecordAt(Understands[p]) \subseteq done'
    <3>1. Understands[p] \in 1..Newest /\ RecordAt(Understands[p]) >= 1
      BY SchemaAssumption DEF RecordAt
    <3>2. CASE Execute(p) /\ next[p] = RecordAt(Understands[p])
      <4>1. 0 \in done
        BY <3>1, <3>2 DEF Execute, Behind
      <4>2. 1..RecordAt(Understands[p]) \subseteq done'
        BY <1>5, <3>2
      <4>. QED BY <1>5, <3>1, <3>2, <4>1, <4>2 DEF RecordAt
    <3>3. CASE /\ pc[p] = "version" /\ Stored(Understands[p]) /\ UNCHANGED done
      <4>1. 0 \in done /\ RecordAt(Understands[p]) \in done
        BY <3>1, <3>3 DEF Behind, Stored, Recorded
      <4>2. 1..RecordAt(Understands[p]) \subseteq done
        BY <4>1 DEF InOrder
      <4>. QED BY <3>1, <3>3, <4>1, <4>2 DEF InOrder, RecordAt
    <3>. QED BY <1>12, <3>2, <3>3 DEF Serve, SchemaComplete
  <2>. QED BY <1>0, <2>1, <2>2 DEF ServesCompleteSchema, Behind
<1>13. ASSUME NEW p \in Procs, Call(p) PROVE SchemaInv'
  BY <1>1, <1>13 DEF Call, Invoke, Reconnect, ReconnectFails, Answer, LoseAnswer, FindStale,
                     StatementFails, dbVars, schemaVars
<1>14. ASSUME Outage PROVE SchemaInv'
  <2>1. PICK S \in SUBSET {p \in Procs : pc[p] = "sent" /\ conn[p] = "open"} :
           done' = done \cup {next[p] : p \in S}
    BY <1>14 DEF Outage
  <2>2. \A p \in S : 1..next[p] \subseteq done'
    BY <2>1 DEF Behind, TypeOK, Script
  <2>3. InOrder'
    BY <2>1, <2>2 DEF InOrder
  <2>4. done \subseteq done' /\ UNCHANGED <<pc, next>>
    BY <1>14, <2>1 DEF Outage, schemaVars
  <2>. QED BY <1>0, <2>3, <2>4 DEF ServesCompleteSchema, Behind
<1>15. ASSUME Recover \/ UNCHANGED vars PROVE SchemaInv'
  BY <1>1, <1>15 DEF Recover, vars, schemaVars, dbVars
<1>. QED
  BY <1>3, <1>4, <1>6, <1>7, <1>8, <1>9, <1>10, <1>11, <1>12, <1>13, <1>14, <1>15
     DEF Next, Open

LEMMA SchemaInit == Init => SchemaInv
<1> SUFFICES ASSUME Init PROVE SchemaInv
  OBVIOUS
<1>1. InOrder
  BY SchemaAssumption DEF Init, CatalogInit, InOrder, RecordAt
<1>. QED BY <1>1, TypeInit DEF Init, CatalogInit, SchemaInv, Behind, ServesCompleteSchema

LEMMA SchemaHolds == Spec => []SchemaInv
BY SchemaInit, SchemaStep, PTL DEF Spec

(* A recorded version is complete, whoever creates or migrates the schema    *)
(* at the same time: ensure_schema may skip what it finds recorded.          *)
THEOREM RecordedVersionsAreComplete == Spec => []RecordedIsApplied
<1>1. SchemaInv => RecordedIsApplied
  BY Positions DEF SchemaInv, InOrder, RecordedIsApplied, Recorded
<1>. QED BY <1>1, SchemaHolds, PTL

(* No process serves the database before its schema is complete. *)
THEOREM ServiceHasItsSchema == Spec => []ServesCompleteSchema
<1>1. SchemaInv => ServesCompleteSchema
  BY DEF SchemaInv
<1>. QED BY <1>1, SchemaHolds, PTL

-----------------------------------------------------------------------------
(* Calls *)

(* What is known of a call at each stage: how often it can have taken       *)
(* effect, and what that did to the database.                               *)
CallHolds(p) ==
    /\ call[p].stage = "call" => call[p].applied = 0
    /\ call[p].stage = "again" => call[p].applied <= 1
    /\ call[p].applied <= 2
    /\ call[p].from <= counter /\ call[p].seen <= counter
    /\ call[p].stage = "ok" /\ call[p].op # "none" =>
          call[p].applied >= 1 /\ call[p].seen >= call[p].from
    /\ call[p].applied >= 1 /\ call[p].op = "upsert" => p \in rows
    /\ call[p].applied >= 1 /\ call[p].op = "bump" => counter > call[p].from

CallInv == TypeOK /\ \A p \in Procs : CallHolds(p)

Grows == rows \subseteq rows' /\ counter' \in Nat /\ counter <= counter'

LEMMA OthersHold ==
    ASSUME CallInv, Grows, NEW q \in Procs, call'[q] = call[q]
    PROVE  CallHolds(q)'
<1>1. call[q] \in Calls
  BY DEF CallInv, TypeOK
<1>2. counter \in Nat /\ CallHolds(q)
  BY DEF CallInv, TypeOK
<1>. QED BY <1>1, <1>2 DEF CallHolds, Calls, Grows

LEMMA NoCallHolds ==
    ASSUME NEW p \in Procs, counter' \in Nat, call'[p] = NoCall PROVE CallHolds(p)'
BY DEF CallHolds, NoCall

LEMMA EndedHolds ==
    ASSUME CallInv, NEW p \in Procs, Busy(p), NEW stage \in {"again", "ok", "error"}, NEW n \in {0, 1},
           call' = Ended(p, stage, n),
           n = 1 => Effect(p), n = 0 => UNCHANGED <<rows, counter>>,
           stage = "ok" => n = 1, stage = "again" => call[p].stage = "call"
    PROVE  Grows /\ \A q \in Procs : CallHolds(q)'
<1>1. call[p] \in Calls /\ counter \in Nat /\ CallHolds(p) /\ call[p].stage \in {"call", "again"}
  BY DEF CallInv, TypeOK, Busy
<1>2. Grows
  BY <1>1 DEF Effect, Grows
<1>3. /\ call'[p].op = call[p].op /\ call'[p].stage = stage /\ call'[p].from = call[p].from
      /\ call'[p].seen = counter /\ call'[p].applied = call[p].applied + n
      /\ \A q \in Procs : q # p => call'[q] = call[q]
  BY DEF Ended, CallInv, TypeOK, Calls
<1>4. CallHolds(p)'
  <2>1. n = 1 => /\ call[p].op = "upsert" => p \in rows'
                 /\ call[p].op = "bump" => counter' = counter + 1
    BY <1>1 DEF Effect
  <2>2. /\ call[p].applied \in Nat /\ call[p].applied <= 1 /\ call[p].from \in Nat
        /\ stage = "again" => call[p].applied = 0
    BY <1>1 DEF CallHolds, Calls
  <2>. QED BY <1>1, <1>2, <1>3, <2>1, <2>2 DEF CallHolds, Grows
<1>. QED BY <1>2, <1>3, <1>4, OthersHold

LEMMA CallStep == CallInv /\ [Next]_vars => CallInv'
<1> SUFFICES ASSUME CallInv, [Next]_vars PROVE \A q \in Procs : CallHolds(q)'
  BY TypeStep DEF CallInv
<1>0. TypeOK /\ TypeOK'
  BY TypeStep DEF CallInv
<1>1. ASSUME UNCHANGED <<rows, counter, call>> PROVE \A q \in Procs : CallHolds(q)'
  BY <1>0, <1>1, OthersHold DEF Grows, TypeOK
<1>2. ASSUME NEW p \in Procs, UNCHANGED <<rows, counter>>, NEW state, Becomes(p, state)
      PROVE  \A q \in Procs : CallHolds(q)'
  <2>1. call'[p] = NoCall /\ \A q \in Procs : q # p => call'[q] = call[q]
    BY <1>0, <1>2 DEF Becomes, TypeOK
  <2>2. Grows
    BY <1>0, <1>2 DEF Grows, TypeOK
  <2>. QED BY <1>0, <2>1, <2>2, OthersHold, NoCallHolds DEF TypeOK
<1>3. ASSUME NEW p \in Procs, Open(p) \/ Stop(p) \/ Crash(p) PROVE \A q \in Procs : CallHolds(q)'
  BY <1>1, <1>2, <1>3 DEF Open, Refuse, StartWithoutCatalog, OpenCatalog, OpenFails, Serve, Stop,
       Crash, Connect, Send, VersionTableReady, ReadVersion, Advance, dbVars, callVars
<1>4. ASSUME NEW p \in Procs, NEW op \in {"upsert", "bump", "read"}, Invoke(p, op)
      PROVE  \A q \in Procs : CallHolds(q)'
  <2>1. /\ call'[p] = [op |-> op, stage |-> "call", from |-> counter, seen |-> 0, applied |-> 0]
        /\ \A q \in Procs : q # p => call'[q] = call[q]
    BY <1>0, <1>4 DEF Invoke, TypeOK, NoCall
  <2>2. Grows /\ counter' = counter
    BY <1>0, <1>4 DEF Invoke, Grows, TypeOK, dbVars
  <2>3. CallHolds(p)'
    BY <1>0, <2>1, <2>2 DEF CallHolds, TypeOK
  <2>. QED BY <2>1, <2>2, <2>3, OthersHold
<1>5. ASSUME NEW p \in Procs, ReconnectFails(p) \/ StatementFails(p)
      PROVE  \A q \in Procs : CallHolds(q)'
  <2>1. /\ call' = [call EXCEPT ![p].stage = "error"] /\ UNCHANGED <<rows, counter>>
        /\ Busy(p)
    BY <1>5 DEF ReconnectFails, StatementFails, dbVars
  <2>2. /\ call'[p] = [call[p] EXCEPT !.stage = "error"] /\ call[p] \in Calls
        /\ \A q \in Procs : q # p => call'[q] = call[q]
    BY <1>0, <2>1 DEF TypeOK
  <2>3. Grows
    BY <1>0, <2>1 DEF Grows, TypeOK
  <2>4. CallHolds(p)'
    BY <2>1, <2>2 DEF CallHolds, Calls, CallInv
  <2>. QED BY <2>2, <2>3, <2>4, OthersHold
<1>6. ASSUME NEW p \in Procs, Reconnect(p) PROVE \A q \in Procs : CallHolds(q)'
  BY <1>1, <1>6 DEF Reconnect, dbVars, callVars
<1>7. ASSUME NEW p \in Procs, Answer(p) PROVE \A q \in Procs : CallHolds(q)'
  BY <1>7, EndedHolds DEF Answer
<1>8. ASSUME NEW p \in Procs PROVE /\ AfterLoss(p) \in {"again", "error"}
                                   /\ AfterLoss(p) = "again" => call[p].stage = "call"
  BY DEF AfterLoss
<1>9. ASSUME NEW p \in Procs, LoseAnswer(p) PROVE \A q \in Procs : CallHolds(q)'
  <2>1. Busy(p) /\ AfterLoss(p) # "ok"
    BY <1>8, <1>9 DEF LoseAnswer
  <2>2. CASE UNCHANGED <<rows, counter>> /\ call' = Ended(p, AfterLoss(p), 0)
    BY <1>8, <2>1, <2>2, EndedHolds
  <2>3. CASE Effect(p) /\ call' = Ended(p, AfterLoss(p), 1)
    BY <1>8, <2>1, <2>3, EndedHolds
  <2>. QED BY <1>9, <2>2, <2>3 DEF LoseAnswer
<1>10. ASSUME NEW p \in Procs, FindStale(p) PROVE \A q \in Procs : CallHolds(q)'
  <2>1. Busy(p) /\ AfterLoss(p) # "ok" /\ UNCHANGED <<rows, counter>>
    BY <1>8, <1>10 DEF FindStale, dbVars
  <2>2. call' = Ended(p, AfterLoss(p), 0)
    BY <1>10 DEF FindStale
  <2>. QED BY <1>8, <2>1, <2>2, EndedHolds
<1>11. ASSUME Outage \/ Recover \/ UNCHANGED vars PROVE \A q \in Procs : CallHolds(q)'
  BY <1>1, <1>11 DEF Outage, Recover, vars, dbVars, callVars
<1>. QED
  BY <1>3, <1>4, <1>5, <1>6, <1>7, <1>9, <1>10, <1>11 DEF Next, Call

LEMMA CallInit == Init => CallInv
BY TypeInit DEF Init, CatalogInit, CallInv, CallHolds, NoCall

(* What a call answered is true of the database, through a lost answer and  *)
(* the one retry, with any number of processes writing.                     *)
THEOREM AnswersAreTrue == Spec => []AnswersHold
<1>1. CallInv => AnswersHold
  <2> SUFFICES ASSUME CallInv, NEW p \in Procs PROVE
        LET c == call[p] IN
        /\ c.applied <= 2
        /\ c.stage = "ok" => /\ c.op # "none" => c.applied \in 1..2
                             /\ c.op = "upsert" => p \in rows
                             /\ c.op = "bump" => counter > c.from
                             /\ c.op = "read" => c.seen \in c.from..counter
    BY DEF AnswersHold
  <2>1. call[p] \in Calls /\ counter \in Nat /\ CallHolds(p)
    BY DEF CallInv, TypeOK
  <2>. QED BY <2>1 DEF CallHolds, Calls
<1>. QED BY <1>1, CallInit, CallStep, PTL DEF Spec

=============================================================================
