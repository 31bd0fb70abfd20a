----------------------------- MODULE MCSettings -----------------------------
(* Forms and containers for model checking Settings. *)
EXTENDS Settings, TLC

CONSTANTS t1, t2

Form(on, server, key, period) ==
    [k \in Keys |-> CASE k = "INSTANT_SYNC_ENABLED" -> on
                      [] k = "ABS_SERVER" -> server
                      [] k = Secret -> key
                      [] k = "SYNC_PERIOD_MINS" -> period
                      [] OTHER -> "true"]

MCPeriods == {0, 5, 7}
MCForms == {Form("true", "home", t2, 7), Form("false", Blank, Blank, 0)}
MCContainers == {[k \in Keys |-> None],
                 [Form(None, "home", t1, Junk) EXCEPT !["ABS_ENABLED"] = "false"]}
MCDeploys == {[explicit |-> None, previous |-> None, writable |-> TRUE],
              [explicit |-> "own", previous |-> None, writable |-> TRUE],
              [explicit |-> "own", previous |-> "file", writable |-> TRUE],
              [explicit |-> None, previous |-> None, writable |-> FALSE]}

Symmetry == Permutations(Requests)
=============================================================================
