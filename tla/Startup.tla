------------------------------- MODULE Startup -------------------------------
(***************************************************************************)
(* The life of sonarium-dlna, sonarium-server and sonarium-worker around a *)
(* catalog database: configuration, operator mode, opening the catalog,    *)
(* serving, signals, crashes, and systemd, which restarts a process that   *)
(* failed unless it exited with 2.                                         *)
(***************************************************************************)
EXTENDS PostgresCatalog

CONSTANTS Workers,   \* the processes that are sonarium-worker
          Configs    \* the environments each process may be given

ASSUME WorkersAssumption == Workers \subseteq Procs

VARIABLE config

vars == <<dbVars, schemaVars, conn, callVars, faults, config>>

-----------------------------------------------------------------------------
(* Configuration: [mode, bind, allow, secret, catalog, root, number].  A    *)
(* text is "" when empty or unset.                                          *)

Wildcards == {"", "0.0.0.0", "::", "*"}

Production(c) == c.mode \in {"production", "prod"}

(* Which invariants of a safe deployment c breaks *)
Violations(c) == {i \in {"bind", "media_tokens", "catalog", "media_root"} :
                     \/ i = "bind" /\ c.bind \in Wildcards /\ ~c.allow
                     \/ i = "media_tokens" /\ c.secret = ""
                     \/ i = "catalog" /\ c.catalog = ""
                     \/ i = "media_root" /\ c.root = ""}

(* checked_env_int: a variable that is unset, or is no integer *)
Unset == -1
NotAnInteger == -2

IntIssue(n, min, max) == n # Unset /\ n \notin min..max

Refuses(p) == LET c == config[p] IN
              IF p \in Workers THEN c.root = "" \/ c.catalog = ""
              ELSE Production(c) /\ (Violations(c) # {} \/ IntIssue(c.number, 1, 65535))

-----------------------------------------------------------------------------
Running(p) == pc[p] \notin {"off", "refused", "stopped"}

Init == /\ config \in {c \in [Procs -> UNION {Configs[p] : p \in Procs}] :
                          \A p \in Procs : c[p] \in Configs[p]}
        /\ CatalogInit
        /\ pc = [p \in Procs |-> "off"]

Becomes(p, state) == /\ pc' = [pc EXCEPT ![p] = state]
                     /\ conn' = [conn EXCEPT ![p] = IF state = "serving" THEN @ ELSE "closed"]
                     /\ call' = [call EXCEPT ![p] = NoCall]
                     /\ UNCHANGED <<next, absent, calls, config>>

Refuse(p) == /\ pc[p] = "off" /\ Refuses(p) /\ Becomes(p, "refused")
             /\ UNCHANGED <<dbVars, faults>>

StartWithoutCatalog(p) == /\ pc[p] = "off" /\ ~Refuses(p) /\ config[p].catalog = ""
                          /\ Becomes(p, "demo")
                          /\ UNCHANGED <<dbVars, faults>>

OpenCatalog(p) == /\ pc[p] = "off" /\ ~Refuses(p) /\ config[p].catalog # ""
                  /\ Becomes(p, "open")
                  /\ UNCHANGED <<dbVars, faults>>

(* Mutant: exit status 2 *)
OpenFailsForGood(p) == /\ ConnectFails(p) \/ SchemaFails(p)
                       /\ Becomes(p, IF p \in Workers \/ Production(config[p]) THEN "refused" ELSE "demo")
                       /\ UNCHANGED <<dbVars, faults>>

(* Exit status 3, or the sample catalog outside production *)
OpenFails(p) == /\ ConnectFails(p) \/ SchemaFails(p)
                /\ Becomes(p, IF p \in Workers \/ Production(config[p]) THEN "off" ELSE "demo")
                /\ UNCHANGED <<dbVars, faults>>

Serve(p) == /\ SchemaComplete(p) /\ Becomes(p, "serving")
            /\ UNCHANGED <<backend, up, rows, counter, faults>>

(* SIGTERM: listen returns, SSDP says goodbye, the process exits with 0.  *)
(* Before the handler is installed the signal ends it at once.            *)
Stop(p) == /\ Running(p) /\ Becomes(p, "stopped")
           /\ UNCHANGED <<dbVars, faults>>

Crash(p) == /\ Fault /\ Running(p) /\ Becomes(p, "off")
            /\ \/ UNCHANGED done
               \/ Execute(p)
            /\ UNCHANGED <<backend, up, rows, counter>>

Open(p) == \/ Refuse(p) \/ StartWithoutCatalog(p) \/ OpenCatalog(p)
           \/ OpenFails(p) \/ Serve(p)
           \/ /\ Connect(p) \/ Send(p) \/ VersionTableReady(p) \/ ReadVersion(p) \/ Advance(p)
              /\ UNCHANGED config

Next == \/ \E p \in Procs : \/ Open(p) \/ Stop(p) \/ Crash(p)
                            \/ Call(p) /\ UNCHANGED config
        \/ (Outage \/ Recover) /\ UNCHANGED config

Spec == Init /\ [][Next]_vars

(* Each process runs, systemd restarts what failed, the database comes back, *)
(* a restarted process does not find the file locked each time, and a call   *)
(* in progress is carried on with.                                           *)
FairSpec == /\ Spec /\ WF_vars(Recover /\ UNCHANGED config)
            /\ \A p \in Procs :
                  /\ WF_vars(Open(p))
                  /\ SF_vars(Connect(p) /\ UNCHANGED config)
                  /\ WF_vars(Busy(p) /\ Call(p) /\ UNCHANGED config)

-----------------------------------------------------------------------------
Calls == [op : {"none", "upsert", "bump", "read"}, stage : {"call", "again", "ok", "error"},
          from : Nat, seen : Nat, applied : Nat]

TypeOK == /\ backend \in {"postgres", "sqlite"} /\ up \in BOOLEAN
          /\ done \subseteq Script /\ rows \subseteq Procs /\ counter \in Nat
          /\ pc \in [Procs -> {"off", "refused", "stopped", "open", "ddl", "sent", "version",
                               "serving", "demo"}]
          /\ next \in [Procs -> Script] /\ absent \in [Procs -> BOOLEAN]
          /\ conn \in [Procs -> {"closed", "open", "stale"}]
          /\ call \in [Procs -> Calls]
          /\ calls \in [Procs -> Nat] /\ faults \in Nat

(* A recorded version is one whose statements, and all earlier ones, took  *)
(* effect, whoever else is creating or migrating the schema and whatever   *)
(* died in between: what ensure_schema skips because of it is there.       *)
RecordedIsApplied == \A v \in 1..Newest : Recorded(v) => 1..RecordAt(v) \subseteq done

(* A process serves the database only once everything its version of the   *)
(* schema consists of is in it.                                            *)
ServesCompleteSchema == \A p \in Procs : pc[p] = "serving" => 0..RecordAt(Understands[p]) \subseteq done

(* What a call answered is true of the database: a write that succeeded    *)
(* took effect, at most once more than asked for; a bump that succeeded    *)
(* changed the UpdateID; a read saw a state from within the call, though   *)
(* it may have been sent twice.                                            *)
AnswersHold ==
    \A p \in Procs : LET c == call[p] IN
        /\ c.applied <= 2
        /\ c.stage = "ok" => /\ c.op # "none" => c.applied \in 1..2
                             /\ c.op = "upsert" => p \in rows
                             /\ c.op = "bump" => counter > c.from
                             /\ c.op = "read" => c.seen \in c.from..counter

Superseded(p) == \E v \in 1..Newest : Recorded(v) /\ v > Understands[p]

(* A process that needs the database gets to serve it, however the schema  *)
(* creations of several processes collide and whatever fails on the way,   *)
(* unless it is stopped or too old for the schema.                         *)
ComesUp == \A p \in Procs :
              (pc[p] = "open" /\ (p \in Workers \/ Production(config[p])))
                 ~> (pc[p] \in {"serving", "stopped"} \/ Superseded(p))

(* Every call of the repository returns, with a result or an error. *)
CallsAnswered == \A p \in Procs : Busy(p) ~> ~Busy(p)

=============================================================================
