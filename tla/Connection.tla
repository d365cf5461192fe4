----------------------------- MODULE Connection -----------------------------
(* What the rest of the server relies on from the websocket to Boltz: the    *)
(* socket of one process, as BoltzSwaps models it for each of its processes. *)
(* A connection is made from a fresh reading of the pending swaps, may be    *)
(* lost at any moment, and is then made again.                               *)

VARIABLE conn

ConnStates == {"down", "loaded", "connecting", "open"}

Init == conn = "down"

(* getPendingSwaps. *)
Load == conn = "down" /\ conn' = "loaded"
Connect == conn = "loaded" /\ conn' = "connecting"
Open == conn = "connecting" /\ conn' = "open"

(* The socket is lost, or the process dies. *)
Lose == conn # "down" /\ conn' = "down"

Advance == Load \/ Connect \/ Open

Spec == Init /\ [][Advance \/ Lose]_conn

Fairness == WF_conn(Advance)
=============================================================================
