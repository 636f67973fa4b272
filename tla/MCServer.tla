------------------------------ MODULE MCServer ------------------------------
(***************************************************************************)
(* Server for TLC: a few programs, each with its own bounds.                *)
(***************************************************************************)
EXTENDS Server

Nothing == [op \in {"listen", "connect", "host", "pair", "write", "read", "clear", "run",
                    "interrupt", "arrive", "data", "fin", "reset"} |-> 0]

MCBudgets ==
  { \* two connected clients, one of which may fail, and data in both directions
    [Nothing EXCEPT !["run"] = 1, !["pair"] = 2, !["write"] = 2, !["data"] = 1, !["reset"] = 1],
    \* one client, longer
    [Nothing EXCEPT !["run"] = 1, !["pair"] = 1, !["write"] = 2, !["read"] = 2, !["data"] = 1,
                    !["fin"] = 1, !["interrupt"] = 1],
    \* a listener, accepted clients
    [Nothing EXCEPT !["run"] = 1, !["listen"] = 1, !["arrive"] = 2, !["read"] = 1, !["fin"] = 1,
                    !["write"] = 1],
    \* two host names, an interrupt
    [Nothing EXCEPT !["run"] = 1, !["host"] = 2, !["interrupt"] = 1],
    \* outgoing connections by address, an interrupt, clear(), run() again
    [Nothing EXCEPT !["run"] = 2, !["host"] = 1, !["interrupt"] = 1, !["clear"] = 1],
    [Nothing EXCEPT !["run"] = 1, !["connect"] = 2, !["interrupt"] = 1]
  }
=============================================================================
