------------------------------ MODULE MCStartup ------------------------------
(* Instances of Startup for TLC: an older server and a newer worker. *)
EXTENDS Startup

Safe == [mode |-> "prod", bind |-> "lan", allow |-> FALSE, secret |-> "s",
         catalog |-> "db", root |-> "/music", number |-> 8200]

ServerConfigs == {Safe,
                  [Safe EXCEPT !.mode = "", !.bind = "0.0.0.0"],
                  [Safe EXCEPT !.mode = "", !.catalog = ""],
                  [Safe EXCEPT !.bind = ""],
                  [Safe EXCEPT !.number = NotAnInteger],
                  [Safe EXCEPT !.root = "", !.number = Unset]}

MCConfigs == [p \in Procs |-> IF p \in Workers THEN {Safe, [Safe EXCEPT !.root = ""]}
                               ELSE ServerConfigs]

MCBaseline == 1
MCNewest == 2
MCUnderstands == [p \in Procs |-> IF p \in Workers THEN 2 ELSE 1]
=============================================================================
