--------------------------- MODULE PostgresCatalog ---------------------------
(***************************************************************************)
(* The catalog database as its clients drive it: ensure_schema, statement  *)
(* by statement and by several processes at once, and the calls of         *)
(* PostgresRepository, each with its reconnect and its one retry.          *)
(* SqliteRepository runs the same script over a file: no connection to     *)
(* lose, and file locks that put its statements one after another.         *)
(*                                                                         *)
(* The schema is one script.  Statement 0 creates schema_version, 1 to     *)
(* Baseline are all_statements, and from there each version has the        *)
(* statement that records it, preceded (from version 2 on) by its          *)
(* migration.  A call is in progress in at most one thread of a process:   *)
(* the others wait for mutex_.                                             *)
(***************************************************************************)
EXTENDS Integers, FiniteSets

CONSTANTS Procs,        \* the processes that open the catalog
          Baseline,     \* the length of all_statements
          Understands,  \* the schema version each process was built for
          Newest,       \* the newest version any database was brought to
          MaxFaults,    \* bound on outages, lost connections, crashes and failing statements
          MaxCalls      \* bound on the calls of a process

ASSUME SchemaAssumption == /\ Baseline \in Nat \ {0} /\ Newest \in Nat \ {0}
                           /\ Understands \in [Procs -> 1..Newest]

ASSUME BoundsAssumption == MaxFaults \in Nat /\ MaxCalls \in Nat

VARIABLES backend,  \* what SONARIUM_PG_CONNINFO and SONARIUM_SQLITE_PATH lead to
          up,       \* the database answers
          done,     \* the statements of the script that took effect
          rows,     \* the processes whose upserted row is stored
          counter,  \* system_state.update_counter
          pc,       \* where each process is
          next,     \* the statement of the script it is at
          absent,   \* what that statement creates was missing when it began
          conn,     \* its connection: "stale" is broken and not yet noticed
          call,     \* its last or current call
          calls,    \* how many it has made
          faults

dbVars == <<backend, up, done, rows, counter>>
schemaVars == <<pc, next, absent>>
callVars == <<call, calls>>

RecordAt(v) == Baseline + 2 * v - 1
Script == 0..RecordAt(Newest)
IsCreate(i) == i <= Baseline

Recorded(v) == RecordAt(v) \in done

(* SELECT COALESCE(MAX(version), 0) FROM schema_version *)
Stored(v) == (v = 0 \/ Recorded(v)) /\ \A w \in 1..Newest : w > v => ~Recorded(w)

(* Mutants: the statement after the recorded version is skipped *)
FirstOfSkipsOne(v) == IF v = 0 THEN 1 ELSE RecordAt(v) + 2
FirstOfSkipsThree(v) == IF v = 0 THEN 1 ELSE RecordAt(v) + 3

FirstOf(v) == IF v = 0 THEN 1 ELSE RecordAt(v) + 1

Fault == faults < MaxFaults /\ faults' = faults + 1

NoCall == [op |-> "none", stage |-> "ok", from |-> 0, seen |-> 0, applied |-> 0]

(* A database that is new, was made before versions were recorded, or is at *)
(* any version.                                                             *)
CatalogInit == /\ backend \in {"postgres", "sqlite"} /\ up \in BOOLEAN
               /\ (backend = "sqlite" => up)
               /\ \E n \in {-1, Baseline} \cup {RecordAt(v) : v \in 1..Newest} :
                     done = (IF n = Baseline THEN 1..n ELSE 0..n)
               /\ rows = {} /\ counter = 0
               /\ next = [p \in Procs |-> 0] /\ absent = [p \in Procs |-> FALSE]
               /\ conn = [p \in Procs |-> "closed"]
               /\ call = [p \in Procs |-> NoCall] /\ calls = [p \in Procs |-> 0]
               /\ faults = 0

-----------------------------------------------------------------------------
(* open and ensure_schema.  Leave(p) is what the process does on an error   *)
(* and Enter(p) what it does when the schema is complete: both belong to    *)
(* the process.                                                             *)

Connect(p) == /\ pc[p] = "open" /\ up
              /\ pc' = [pc EXCEPT ![p] = "ddl"] /\ next' = [next EXCEPT ![p] = 0]
              /\ conn' = [conn EXCEPT ![p] = "open"]
              /\ UNCHANGED <<dbVars, absent, callVars, faults>>

Working(q) == pc[q] \in {"ddl", "sent", "version"}

(* SQLite changes the journal mode before it sets a busy timeout *)
ConnectFails(p) == pc[p] = "open" /\ (~up \/ (backend = "sqlite" /\ \E q \in Procs : Working(q)))

Send(p) == /\ pc[p] = "ddl" /\ conn[p] = "open"
           /\ pc' = [pc EXCEPT ![p] = "sent"]
           /\ absent' = [absent EXCEPT ![p] = next[p] \notin done]
           /\ UNCHANGED <<dbVars, next, conn, callVars, faults>>

(* CREATE ... IF NOT EXISTS of two sessions: the second to commit finds a  *)
(* name that was free when it looked.                                      *)
Collides(p) == backend = "postgres" /\ IsCreate(next[p]) /\ absent[p] /\ next[p] \in done

Execute(p) == pc[p] = "sent" /\ conn[p] = "open" /\ done' = done \cup {next[p]}

VersionTableReady(p) == /\ Execute(p) /\ next[p] = 0
                        /\ pc' = [pc EXCEPT ![p] = "version"]
                        /\ UNCHANGED <<backend, up, rows, counter, next, absent, conn, callVars, faults>>

ReadVersion(p) == /\ pc[p] = "version" /\ conn[p] = "open"
                  /\ \E v \in 0..Newest : /\ Stored(v) /\ v < Understands[p]
                                          /\ next' = [next EXCEPT ![p] = FirstOf(v)]
                  /\ pc' = [pc EXCEPT ![p] = "ddl"]
                  /\ UNCHANGED <<dbVars, absent, conn, callVars, faults>>

Advance(p) == /\ Execute(p) /\ next[p] \in 1..(RecordAt(Understands[p]) - 1)
              /\ pc' = [pc EXCEPT ![p] = "ddl"] /\ next' = [next EXCEPT ![p] = next[p] + 1]
              /\ UNCHANGED <<backend, up, rows, counter, absent, conn, callVars, faults>>

(* Mutant: any recorded version will do *)
SchemaCompleteAtAny(p) == \/ Execute(p) /\ next[p] = RecordAt(Understands[p])
                          \/ /\ pc[p] = "version" /\ conn[p] = "open" /\ ~Stored(0)
                             /\ UNCHANGED done

SchemaComplete(p) == \/ Execute(p) /\ next[p] = RecordAt(Understands[p])
                     \/ /\ pc[p] = "version" /\ conn[p] = "open" /\ Stored(Understands[p])
                        /\ UNCHANGED done

(* A statement of ensure_schema is never repeated on a new connection. *)
SchemaFails(p) == \/ Working(p) /\ conn[p] # "open"
                  \/ pc[p] = "sent" /\ Collides(p)
                  \/ /\ pc[p] = "version" /\ conn[p] = "open"
                     /\ \E v \in 1..Newest : Stored(v) /\ v > Understands[p]

-----------------------------------------------------------------------------
(* exec and exec_params under mutex_ *)

Busy(p) == pc[p] = "serving" /\ call[p].stage \in {"call", "again"}

Invoke(p, op) == /\ calls[p] < MaxCalls /\ ~Busy(p)
                 /\ call' = [call EXCEPT ![p] = [NoCall EXCEPT !.op = op, !.stage = "call",
                                                               !.from = counter]]
                 /\ calls' = [calls EXCEPT ![p] = @ + 1]
                 /\ UNCHANGED <<dbVars, schemaVars, conn, faults>>

Reconnect(p) == /\ Busy(p) /\ conn[p] = "closed" /\ up
                /\ conn' = [conn EXCEPT ![p] = "open"]
                /\ UNCHANGED <<dbVars, schemaVars, callVars, faults>>

ReconnectFails(p) == /\ Busy(p) /\ conn[p] = "closed" /\ ~up
                     /\ call' = [call EXCEPT ![p].stage = "error"]
                     /\ UNCHANGED <<dbVars, schemaVars, conn, calls, faults>>

(* INSERT ... ON CONFLICT DO UPDATE, UPDATE ... SET update_counter =        *)
(* update_counter + 1, or a SELECT                                          *)
Effect(p) == /\ rows' = (IF call[p].op = "upsert" THEN rows \cup {p} ELSE rows)
             /\ counter' = (IF call[p].op = "bump" THEN counter + 1 ELSE counter)

Ended(p, stage, effects) == [call EXCEPT ![p].stage = stage, ![p].seen = counter,
                                         ![p].applied = @ + effects]

Answer(p) == /\ Busy(p) /\ conn[p] = "open" /\ Effect(p)
             /\ call' = Ended(p, "ok", 1)
             /\ UNCHANGED <<backend, up, done, schemaVars, conn, calls, faults>>

(* Mutant: a lost answer counts as one *)
AfterLossOk(p) == IF call[p].stage = "call" THEN "again" ELSE "ok"

AfterLoss(p) == IF call[p].stage = "call" THEN "again" ELSE "error"

(* The connection breaks before the statement took effect, or after *)
LoseAnswer(p) == /\ Fault /\ backend = "postgres" /\ Busy(p) /\ conn[p] = "open"
                 /\ \/ UNCHANGED <<rows, counter>> /\ call' = Ended(p, AfterLoss(p), 0)
                    \/ Effect(p) /\ call' = Ended(p, AfterLoss(p), 1)
                 /\ conn' = [conn EXCEPT ![p] = "closed"]
                 /\ UNCHANGED <<backend, up, done, schemaVars, calls>>

(* Mutant: the loss of the connection goes unnoticed *)
FindStaleAgain(p) == /\ Busy(p) /\ conn[p] = "stale"
                     /\ call' = Ended(p, "again", 0)
                     /\ UNCHANGED <<dbVars, schemaVars, conn, calls, faults>>

(* is_open was still true of a connection the server had dropped *)
FindStale(p) == /\ Busy(p) /\ conn[p] = "stale"
                /\ conn' = [conn EXCEPT ![p] = "closed"]
                /\ call' = Ended(p, AfterLoss(p), 0)
                /\ UNCHANGED <<dbVars, schemaVars, calls, faults>>

StatementFails(p) == /\ Fault /\ Busy(p) /\ conn[p] = "open"
                     /\ call' = [call EXCEPT ![p].stage = "error"]
                     /\ UNCHANGED <<dbVars, schemaVars, conn, calls>>

Call(p) == \/ \E op \in {"upsert", "bump", "read"} : pc[p] = "serving" /\ Invoke(p, op)
           \/ Reconnect(p) \/ ReconnectFails(p) \/ Answer(p)
           \/ LoseAnswer(p) \/ FindStale(p) \/ StatementFails(p)

-----------------------------------------------------------------------------
(* The server *)

(* A statement in flight when the server goes may have been committed *)
Outage == /\ Fault /\ backend = "postgres" /\ up /\ up' = FALSE
          /\ \E S \in SUBSET {p \in Procs : pc[p] = "sent" /\ conn[p] = "open"} :
                done' = done \cup {next[p] : p \in S}
          /\ conn' = [p \in Procs |-> IF conn[p] = "open" THEN "stale" ELSE conn[p]]
          /\ UNCHANGED <<backend, rows, counter, schemaVars, callVars>>

Recover == /\ ~up /\ up' = TRUE
           /\ UNCHANGED <<backend, done, rows, counter, schemaVars, conn, callVars, faults>>

=============================================================================
