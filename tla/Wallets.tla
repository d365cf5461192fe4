------------------------------- MODULE Wallets ------------------------------
(* Creating and renaming the wallets of one account.                         *)
(*                                                                           *)
(* The mutation counts the wallets and creates one if the limit allows; the  *)
(* signup creates one without counting.  The wallet row, its accounts one by *)
(* one and the backup mail are awaited in turn, without a transaction.       *)
EXTENDS Naturals, FiniteSets

CONSTANTS
  Requests,
  MaxWallets,          \* bound: wallets ever created
  WALLET_LIMIT,
  AccountsAsked,       \* numbers of accounts a request may ask for
  MaxFaults,           \* bound: failed calls
  None

(* Wallets are named in the order they are inserted. *)
Wallets == 1..MaxWallets

VARIABLES
  wallet,      \* wallet rows with the number of accounts stored, or None
  req,
  raced,       \* observed: two creations were in flight together
  failedHalf,  \* observed: wallets whose request failed after the row
  answered,    \* observed: the wallets clients were told of, with what they asked for
  faults

vars == <<wallet, req, raced, failedHalf, answered, faults>>

(* The default name is a number: "Wallet n", or 0 for a name of the user's. *)
WalletRow == [accounts : Nat, name : Nat]
Request == [at : {"count", "name", "create", "fill", "mail"}, asked : Nat, named : BOOLEAN,
            name : Nat, id : Wallets \cup {None}]

TypeOK ==
  /\ wallet \in [Wallets -> WalletRow \cup {None}]
  /\ req \in [Requests -> Request \cup {None}]
  /\ raced \in BOOLEAN /\ failedHalf \subseteq Wallets
  /\ answered \subseteq Wallets \X Nat
  /\ faults \in 0..MaxFaults

(* A creation as it enters createWallet. *)
Asked == [at : {"name"}, asked : AccountsAsked, named : BOOLEAN, name : {0}, id : {None}]

Init ==
  /\ wallet = [w \in Wallets |-> None]
  /\ req = [r \in Requests |-> None]
  /\ raced = FALSE /\ failedHalf = {} /\ answered = {}
  /\ faults = 0

At(r, at) == req[r] # None /\ req[r].at = at
Created == {w \in Wallets : wallet[w] # None}
InFlight == {r \in Requests : req[r] # None}

(* The signup's createWallet, uncounted, as the account has just been stored. *)
FirstWallet(r) ==
  /\ Created = {} /\ InFlight = {} /\ faults = 0
  /\ \E x \in Asked : req' = [req EXCEPT ![r] = x]
  /\ UNCHANGED <<wallet, raced, failedHalf, answered, faults>>

CreateMutation(r) ==
  /\ req[r] = None
  /\ \E x \in Asked : req' = [req EXCEPT ![r] = [x EXCEPT !.at = "count"]]
  /\ raced' = (raced \/ InFlight # {})
  /\ UNCHANGED <<wallet, failedHalf, answered, faults>>

(* Mutant of CountWallets: one too many. *)
CountLoosely(r) ==
  /\ At(r, "count")
  /\ req' = [req EXCEPT ![r] = IF Cardinality(Created) > WALLET_LIMIT THEN None
                               ELSE [@ EXCEPT !.at = "name"]]
  /\ UNCHANGED <<wallet, raced, failedHalf, answered, faults>>

CountWallets(r) ==
  /\ At(r, "count")
  /\ req' = [req EXCEPT ![r] = IF Cardinality(Created) >= WALLET_LIMIT THEN None
                               ELSE [@ EXCEPT !.at = "name"]]
  /\ UNCHANGED <<wallet, raced, failedHalf, answered, faults>>

(* Mutant of ChooseName: a fixed number after the first wallet. *)
NameAfterFirst(r) ==
  /\ At(r, "name")
  /\ req' = [req EXCEPT ![r].at = "create",
                        ![r].name = IF req[r].named THEN 0 ELSE IF Created = {} THEN 1 ELSE 2]
  /\ UNCHANGED <<wallet, raced, failedHalf, answered, faults>>

(* Without a name the wallets are counted again. *)
ChooseName(r) ==
  /\ At(r, "name")
  /\ req' = [req EXCEPT ![r].at = "create",
                        ![r].name = IF req[r].named THEN 0 ELSE Cardinality(Created) + 1]
  /\ UNCHANGED <<wallet, raced, failedHalf, answered, faults>>

CreateNewWallet(r) ==
  /\ At(r, "create")
  /\ Cardinality(Created) < MaxWallets
  /\ LET w == Cardinality(Created) + 1
     IN /\ wallet' = [wallet EXCEPT ![w] = [accounts |-> 0, name |-> req[r].name]]
        /\ req' = [req EXCEPT ![r].at = "fill", ![r].id = w]
  /\ UNCHANGED <<raced, failedHalf, answered, faults>>

(* Mutant of CreateNewAccount: all but the first account are not awaited. *)
CreateOneAccount(r) ==
  /\ At(r, "fill")
  /\ wallet' = IF req[r].asked = 0 THEN wallet ELSE [wallet EXCEPT ![req[r].id].accounts = 1]
  /\ req' = [req EXCEPT ![r].at = "mail"]
  /\ UNCHANGED <<raced, failedHalf, answered, faults>>

(* eachSeries: one account after the other, then on to the mail. *)
CreateNewAccount(r) ==
  /\ At(r, "fill")
  /\ IF wallet[req[r].id].accounts < req[r].asked
     THEN wallet' = [wallet EXCEPT ![req[r].id].accounts = @ + 1] /\ UNCHANGED req
     ELSE req' = [req EXCEPT ![r].at = "mail"] /\ UNCHANGED wallet
  /\ UNCHANGED <<raced, failedHalf, answered, faults>>

(* The backup mail is awaited before the answer. *)
SendBackupMail(r) ==
  /\ At(r, "mail")
  /\ answered' = answered \cup {<<req[r].id, req[r].asked>>}
  /\ req' = [req EXCEPT ![r] = None]
  /\ UNCHANGED <<wallet, raced, failedHalf, faults>>

(* An awaited call fails: what was inserted stays. *)
Fail(r) ==
  /\ req[r] # None /\ faults < MaxFaults
  /\ faults' = faults + 1
  /\ failedHalf' = IF req[r].id = None THEN failedHalf ELSE failedHalf \cup {req[r].id}
  /\ req' = [req EXCEPT ![r] = None]
  /\ UNCHANGED <<wallet, raced, answered>>

(* Renaming a wallet takes no part in the creations but for its name. *)
ChangeName(w) ==
  /\ w \in Created
  /\ wallet' = [wallet EXCEPT ![w].name = 0]
  /\ UNCHANGED <<req, raced, failedHalf, answered, faults>>

Next ==
  \/ \E r \in Requests : \/ FirstWallet(r) \/ CreateMutation(r) \/ CountWallets(r)
                         \/ ChooseName(r) \/ CreateNewWallet(r) \/ CreateNewAccount(r)
                         \/ SendBackupMail(r) \/ Fail(r)
  \/ \E w \in Wallets : ChangeName(w)

Spec == Init /\ [][Next]_vars

-----------------------------------------------------------------------------
(* The limit is exceeded only by creations in flight together, and then by no
   more than the requests beyond the first. *)
LimitHolds ==
  /\ ~raced => Cardinality(Created) <= WALLET_LIMIT
  /\ Cardinality(Created) < WALLET_LIMIT + Cardinality(Requests)

(* Two wallets get the same default name only from creations in flight together. *)
DefaultNamesDiffer ==
  ~raced => \A v, w \in Created : v # w /\ wallet[v].name # 0 => wallet[v].name # wallet[w].name

(* A wallet a client was told of has all its accounts; one that lacks some is
   being created or is what a failed request left behind. *)
AnsweredWalletIsComplete ==
  /\ \A x \in answered : wallet[x[1]].accounts = x[2]
  /\ \A w \in Created : \/ w \in failedHalf
                        \/ \E x \in answered : x[1] = w
                        \/ \E r \in InFlight : req[r].id = w

(* Wallets made one after the other: as many as allowed, told apart, complete. *)
WalletsAreInOrder == LimitHolds /\ DefaultNamesDiffer /\ AnsweredWalletIsComplete
=============================================================================
