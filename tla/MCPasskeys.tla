----------------------------- MODULE MCPasskeys -----------------------------
(* Model checking Passkeys: a passkey that logs in and one that is a second
   factor, held by the users of two accounts. *)
EXTENDS Passkeys, FiniteSets, TLC

CONSTANTS a1, a2, p1, p2

Domains == p1 :> "login" @@ p2 :> "twofactor"
Owners == p1 :> a1 @@ p2 :> a2

(* To keep the run small, a passkey is registered with one challenge, and that
   of a domain before options to authenticate in it are made; two challenges are
   signed, or one of them twice; and a request whose key has never had options,
   which ends at its first look, is not followed. *)
Small ==
  /\ \A c \in 1..Len(options) :
       IF options[c].ceremony = "create"
       THEN /\ \E p \in Passkeys : options[c] = Key(Domain[p], "create", Owner[p])
            /\ \A b \in 1..c : options[b] = options[c] => b = c
       ELSE \E b \in 1..c : options[b].ceremony = "create" /\ options[b].domain = options[c].domain
  /\ Cardinality({a \in answers : a.ceremony = "get"}) <= 2
  /\ \A r \in Requests : req[r] # None => \E c \in 1..Len(options) : options[c] = req[r].key

(* The passkeys are registered one after the other, the login one first, under
   keys that have nothing in common. *)
InTurn ==
  \A b, c \in 1..Len(options) :
    options[b].ceremony = "create" /\ options[c].ceremony = "create" /\ b < c =>
      options[b].domain = "login" /\ row[p1] # None

Symmetry == Permutations(Requests) \cup Permutations(SymmetricKeys)
=============================================================================
