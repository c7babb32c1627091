------------------------------ MODULE ServerCalls ------------------------------
(***************************************************************************)
(* The threads of the HTTP server of src/src/edon/api/server.py, for the   *)
(* stores it serves: a thread is idle, or in a handler between two of its  *)
(* statements or transactions, with what it has read.                      *)
(***************************************************************************)

CONSTANTS
    Callers,     \* threads of the server
    None         \* no row, or a field without a value

VARIABLE calls   \* what each caller is doing

Idle == [op |-> "IDLE"]

Continues(c, call) == calls' = [calls EXCEPT ![c] = call]
Starts(c, call) == calls[c] = Idle /\ Continues(c, call)
Ends(c) == Continues(c, Idle)

At(c, op) == calls[c].op = op
=============================================================================
