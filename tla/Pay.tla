-------------------------------- MODULE Pay --------------------------------
(* Paying from a Liquid account: an invoice, a Bitcoin address or a Liquid   *)
(* address, each answered with a transaction for the client to sign.         *)
(*                                                                           *)
(* An invoice with a magic routing hint is paid straight to the address its  *)
(* payee signed; any other is paid through a submarine swap, an open one     *)
(* with the same invoice or a new one.  A Bitcoin address is paid through a  *)
(* chain swap.  Creating a swap at Boltz, storing its row and building the   *)
(* transaction are three awaited steps.                                      *)
EXTENDS Integers, FiniteSets

CONSTANTS
  Payments,            \* requests, one `pay` mutation at a time each
  Accounts,            \* Liquid wallet accounts, of different users
  Invoices, Hinted,    \* invoices, and those with a magic routing hint
  Sats,                \* amounts in play
  InvoiceSats,         \* the amount of each invoice
  Noise,               \* Number(text) * 10^8 against the amount: -1 below, 0 equal, 1 above
  MaxSwaps, MaxFaults, \* bounds: swaps at Boltz, failed calls
  None

ASSUME HintedAssumption == Hinted \subseteq Invoices
ASSUME AmountAssumption == /\ Sats \subseteq Nat \ {0}
                           /\ InvoiceSats \in [Invoices -> Sats]
                           /\ Noise \in [Sats -> {-1, 0, 1}]
ASSUME BoundsAssumption == MaxSwaps \in Nat /\ MaxFaults \in Nat

Swaps == 1..MaxSwaps

VARIABLES
  boltz,     \* the swaps Boltz has: what each asks for, and whether it is over
  row,       \* wallet_account_swap: Boltz swaps with their keys
  pay,       \* payments in progress, and the transaction each answered with
  raced,     \* observed: invoices two payments were creating swaps for at once
  faults

vars == <<boltz, row, pay, raced, faults>>

(* The invoice of a chain swap is None: it pays a Bitcoin address. *)
BoltzSwap == [invoice : Invoices \cup {None}, due : Sats, over : BOOLEAN]
Row == [invoice : Invoices \cup {None}, account : Accounts, open : BOOLEAN]
Payment == [at : {"hint", "lookup", "create", "store", "pset", "signable"}, account : Accounts,
            invoice : Invoices \cup {None}, swap : Swaps \cup {None}, found : BOOLEAN,
            due : Sats \cup {None}, paid : Nat, shut : SUBSET Swaps]

ASSUME NoneAssumption == /\ None \notin Accounts /\ None \notin Invoices /\ None \notin Swaps /\ None \notin Sats
                         /\ None \notin BoltzSwap /\ None \notin Row /\ None \notin Payment

TypeOK ==
  /\ boltz \in [Swaps -> BoltzSwap \cup {None}]
  /\ row \in [Swaps -> Row \cup {None}]
  /\ pay \in [Payments -> Payment \cup {None}]
  /\ raced \subseteq Invoices
  /\ faults \in 0..MaxFaults

Init ==
  /\ boltz = [s \in Swaps |-> None] /\ row = [s \in Swaps |-> None]
  /\ pay = [p \in Payments |-> None]
  /\ raced = {} /\ faults = 0

At(p, at) == pay[p] # None /\ pay[p].at = at
Created == {s \in Swaps : boltz[s] # None}
Stored == {s \in Swaps : row[s] # None}
OpenRows(i) == {s \in Stored : row[s].open /\ row[s].invoice = i}
Creating(i) == {p \in Payments : pay[p] # None /\ pay[p].invoice = i
                                 /\ pay[p].at \in {"create", "store"}}

(* The swaps whose rows are closed are noted when the request arrives, and later
   whether the swap it pays was found and not created. *)
Begin(p, at, i, n) ==
  /\ pay[p] = None \/ At(p, "signable")
  /\ \E a \in Accounts :
       pay' = [pay EXCEPT ![p] = [at |-> at, account |-> a, invoice |-> i, swap |-> None, found |-> FALSE, due |-> n,
                                  paid |-> 0, shut |-> {s \in Stored : ~row[s].open}]]
  /\ UNCHANGED <<boltz, row, raced, faults>>

(* findMagicRoutingHint decides the way.  What is due is known once Boltz or the
   payee has named it; only for a Liquid address is it the client's amount. *)
PayLightningInvoice(p) ==
  \E i \in Invoices : Begin(p, IF i \in Hinted THEN "hint" ELSE "lookup", i, None)

PayBitcoinAddress(p) == Begin(p, "create", None, None)
PayLiquidAddress(p) == \E n \in Sats : Begin(p, "pset", None, n)

(* Throws unless the payee signed the address, the asset is L-BTC and the
   amount, as a floating point product, is at most the invoice's. *)
CheckMagicRouteHintInfo(info, i) ==
  /\ info.signed /\ info.lbtc
  /\ info.amount < InvoiceSats[i] \/ (info.amount = InvoiceSats[i] /\ Noise[info.amount] < 1)

GetMagicRouteHintInfo(p) ==
  /\ At(p, "hint")
  /\ \E info \in [signed : BOOLEAN, lbtc : BOOLEAN, amount : Sats] :
       pay' = [pay EXCEPT ![p] = IF CheckMagicRouteHintInfo(info, @.invoice)
                                 THEN [@ EXCEPT !.at = "pset", !.due = info.amount] ELSE None]
  /\ UNCHANGED <<boltz, row, raced, faults>>

(* Mutants of GetReverseSwapByInvoice: never finds a row; finds closed rows too. *)
FindNothing(i) == {}
FindClosedToo(i) == {s \in Stored : row[s].invoice = i}

(* Any open row with the invoice, whoever asked for it. *)
GetReverseSwapByInvoice(i) == OpenRows(i)

LookUpSwap(p) ==
  /\ At(p, "lookup")
  /\ LET found == GetReverseSwapByInvoice(pay[p].invoice)
     IN IF found = {}
        THEN pay' = [pay EXCEPT ![p].at = "create"]
        ELSE \E s \in found :
               pay' = [pay EXCEPT ![p].at = "pset", ![p].swap = s, ![p].found = TRUE, ![p].due = boltz[s].due]
  /\ raced' = IF pay'[p].at = "create" /\ Creating(pay[p].invoice) # {}
              THEN raced \cup {pay[p].invoice} ELSE raced
  /\ UNCHANGED <<boltz, row, faults>>

(* Mutant of CreateSwap: the transaction is built while the row is stored. *)
CreateSwapUnstored(p) ==
  /\ At(p, "create") /\ Cardinality(Created) < MaxSwaps
  /\ LET s == Cardinality(Created) + 1
     IN \E n \in Sats : /\ boltz' = [boltz EXCEPT ![s] = [invoice |-> pay[p].invoice, due |-> n, over |-> FALSE]]
                        /\ pay' = [pay EXCEPT ![p].at = "pset", ![p].swap = s, ![p].due = n]
  /\ UNCHANGED <<row, raced, faults>>

(* Boltz names the amount to lock; a request it refuses is a Fail. *)
CreateSwap(p) ==
  /\ At(p, "create") /\ Cardinality(Created) < MaxSwaps
  /\ LET s == Cardinality(Created) + 1
     IN \E n \in Sats : /\ boltz' = [boltz EXCEPT ![s] = [invoice |-> pay[p].invoice, due |-> n, over |-> FALSE]]
                        /\ pay' = [pay EXCEPT ![p].at = "store", ![p].swap = s, ![p].due = n]
  /\ UNCHANGED <<row, raced, faults>>

(* Mutant of StoreSwap: the row names no account. *)
StoreSwapWithoutAccount(p) ==
  /\ At(p, "store")
  /\ row' = [row EXCEPT ![pay[p].swap] = [invoice |-> pay[p].invoice, account |-> None, open |-> TRUE]]
  /\ pay' = [pay EXCEPT ![p].at = "pset"]
  /\ UNCHANGED <<boltz, raced, faults>>

StoreSwap(p) ==
  /\ At(p, "store")
  /\ row' = [row EXCEPT ![pay[p].swap] = [invoice |-> pay[p].invoice, account |-> pay[p].account, open |-> TRUE]]
  /\ pay' = [pay EXCEPT ![p].at = "pset"]
  /\ UNCHANGED <<boltz, raced, faults>>

(* Mutant of Ceil: Math.floor. *)
Floor(n) == IF Noise[n] = -1 THEN n - 1 ELSE n

(* Math.ceil of the floating point product. *)
Ceil(n) == IF Noise[n] = 1 THEN n + 1 ELSE n

(* An invoice's amount is rounded up, a chain swap's is given to BigInt as it
   is, which throws on a fraction; a Liquid payment's is the client's own. *)
AmountOf(x) == IF x.invoice # None THEN Ceil(x.due) ELSE x.due
Throws(x) == x.invoice = None /\ x.swap # None /\ Noise[x.due] # 0

CreatePset(p) ==
  /\ At(p, "pset")
  /\ pay' = [pay EXCEPT ![p] = IF Throws(pay[p]) THEN None
                                ELSE [@ EXCEPT !.at = "signable", !.paid = AmountOf(pay[p])]]
  /\ UNCHANGED <<boltz, row, raced, faults>>

(* A call or a query fails, the wallet lacks the funds, or the process stops. *)
Fail(p) ==
  /\ pay[p] # None /\ ~At(p, "signable") /\ faults < MaxFaults
  /\ faults' = faults + 1
  /\ pay' = [pay EXCEPT ![p] = None]
  /\ UNCHANGED <<boltz, row, raced>>

(* Boltz settles a swap or gives it up, in its own time. *)
EndSwap(s) ==
  /\ boltz[s] # None /\ ~boltz[s].over
  /\ boltz' = [boltz EXCEPT ![s].over = TRUE]
  /\ UNCHANGED <<row, pay, raced, faults>>

(* The update about it is handled later (module BoltzSwaps). *)
MarkCompleted(s) ==
  /\ row[s] # None /\ row[s].open /\ boltz[s].over
  /\ row' = [row EXCEPT ![s].open = FALSE]
  /\ UNCHANGED <<boltz, pay, raced, faults>>

Next ==
  \/ \E p \in Payments : \/ PayLightningInvoice(p) \/ PayBitcoinAddress(p) \/ PayLiquidAddress(p)
                         \/ GetMagicRouteHintInfo(p) \/ LookUpSwap(p) \/ CreateSwap(p)
                         \/ StoreSwap(p) \/ CreatePset(p) \/ Fail(p)
  \/ \E s \in Swaps : EndSwap(s) \/ MarkCompleted(s)

Spec == Init /\ [][Next]_vars

-----------------------------------------------------------------------------
Signable == {pay[p] : p \in {q \in Payments : At(q, "signable")}}

(* Whatever a client may sign pays a swap whose keys are stored, for the very
   invoice it asked to pay: money locked there can be claimed back. *)
SignableIsRecoverable ==
  \A a \in Signable : a.swap # None => a.swap \in Stored /\ row[a.swap].invoice = a.invoice

(* A transaction locks at least what Boltz asks and at most one satoshi more,
   a chain swap's exactly; paid past Boltz an invoice costs at most its amount. *)
PaysWhatIsDue ==
  \A a \in Signable :
    /\ a.swap # None => a.due = boltz[a.swap].due
    /\ a.paid \in a.due..(a.due + 1)
    /\ a.invoice = None => a.paid = a.due
    /\ a.invoice \in Hinted => a.paid <= InvoiceSats[a.invoice]

(* Only payments that were creating swaps at the same time leave two open
   swaps for one invoice; a retry finds the swap of the attempt before. *)
OneOpenSwapPerInvoice ==
  \A i \in Invoices \ raced : Cardinality(OpenRows(i)) <= 1

(* A payment is never sent to a swap whose row was closed before it was asked for. *)
ClosedSwapIsNotPaid == \A a \in Signable : a.swap \notin a.shut

(* A refund goes to the account that created the swap.  That is the payer, but
   for a payment that found an open swap of its invoice: the search asks not
   whose it is, so the refund is then another account's, and no one is told.  A
   payer with an open swap of its own never pays a later one of another's,
   unless the two were created at once. *)
RefundGoesToCreator ==
  \A a \in Signable : a.swap # None /\ row[a.swap].account # a.account =>
    /\ a.found
    /\ a.invoice \in raced \/ \A s \in OpenRows(a.invoice) : s < a.swap => row[s].account # a.account

(* The swap a client is to pay has its keys stored, for its invoice, was not
   closed when it asked, and refunds to its own account if it made the swap; if it
   found the swap open, to whoever made it, which may be another user. *)
SignableSwapIsSound == SignableIsRecoverable /\ ClosedSwapIsNotPaid /\ RefundGoesToCreator
=============================================================================
