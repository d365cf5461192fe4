----------------------------- MODULE AtomicSwap -----------------------------
(* What a swap promises its user, whatever the protocol: the side the user   *)
(* gives (an on-chain lock, or a lightning payment on hold) is taken by the  *)
(* counterparty only while the side the user gets has been delivered or can  *)
(* still be, and once it is taken the other side is never taken back.        *)

CONSTANT Swaps

VARIABLES give, get

GiveStates == {"none", "locked", "claimed", "refunded"}
GetStates == {"none", "offered", "claimed", "refunded"}

TypeOK == /\ give \in [Swaps -> GiveStates]
          /\ get \in [Swaps -> GetStates]

Init == /\ give = [s \in Swaps |-> "none"]
        /\ get = [s \in Swaps |-> "none"]

(* The user, or the payer of the user's invoice, puts up the coins. *)
Fund(s) ==
  /\ give[s] = "none" /\ get[s] = "none"
  /\ give' = [give EXCEPT ![s] = "locked"]
  /\ UNCHANGED get

(* The counterparty locks its coins where only the user can claim them. *)
Offer(s) ==
  /\ give[s] = "locked" /\ get[s] = "none"
  /\ get' = [get EXCEPT ![s] = "offered"]
  /\ UNCHANGED give

(* The user claims the offer, or the counterparty pays the user's invoice. *)
Deliver(s) ==
  /\ give[s] \in {"locked", "claimed"}
  /\ get[s] \in {"none", "offered"}
  /\ get' = [get EXCEPT ![s] = "claimed"]
  /\ UNCHANGED give

(* The counterparty takes what the user gave. *)
Take(s) ==
  /\ give[s] = "locked" /\ get[s] \in {"offered", "claimed"}
  /\ give' = [give EXCEPT ![s] = "claimed"]
  /\ UNCHANGED get

(* The user's side returns to the user. *)
ReturnGive(s) ==
  /\ give[s] = "locked" /\ get[s] # "claimed"
  /\ give' = [give EXCEPT ![s] = "refunded"]
  /\ UNCHANGED get

(* The offer returns to the counterparty, possibly with the user's side. *)
ReturnGet(s) ==
  /\ give[s] # "claimed" /\ get[s] = "offered"
  /\ get' = [get EXCEPT ![s] = "refunded"]
  /\ \/ UNCHANGED give
     \/ give[s] = "locked" /\ give' = [give EXCEPT ![s] = "refunded"]

Next == \E s \in Swaps :
          \/ Fund(s) \/ Offer(s) \/ Deliver(s)
          \/ Take(s) \/ ReturnGive(s) \/ ReturnGet(s)

Spec == Init /\ [][Next]_<<give, get>>

(* The promise in one line: coins taken from the user mean coins delivered or
   deliverable. *)
NoLoss == \A s \in Swaps : give[s] = "claimed" => get[s] \in {"offered", "claimed"}
=============================================================================
