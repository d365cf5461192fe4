------------------------------ MODULE SideShift ----------------------------
(* Swaps with SideShift: a quote and the fixed shift made from it, paid from *)
(* a Liquid account, and a variable shift that receives into one.            *)
(*                                                                           *)
(* SideShift allows or refuses the address a request comes from; its answer  *)
(* is kept for an hour.  A quote is kept for fifteen minutes, for whoever    *)
(* names it.  The shift exists at SideShift before its row is stored, and    *)
(* the row before the transaction that pays it is built.                     *)
EXTENDS Naturals, FiniteSets

CONSTANTS
  Requests, Ips,
  Sats, Exact,         \* amounts to deposit; those whose floating point product is whole
  MaxQuotes, MaxShifts, MaxChanges, MaxFaults,   \* bounds
  None

Quotes == 1..MaxQuotes
Shifts == 1..MaxShifts

VARIABLES
  allowed,  \* what SideShift would answer for each address now
  kept,     \* its answers in Redis: TRUE, FALSE or None
  quote,    \* the quotes SideShift gave: the deposit, and whether one is still good
  saved,    \* the quotes in Redis
  shift,    \* the shifts SideShift has
  row,      \* the shifts with a row
  req,
  changes, faults

vars == <<allowed, kept, quote, saved, shift, row, req, changes, faults>>

Quote == [deposit : Sats, good : BOOLEAN]
Shift == [kind : {"fixed", "variable"}, quote : Quotes \cup {None}, deposit : Sats \cup {None}]
Request == [at : {"allow", "ask", "save", "read", "post", "store", "pset", "answered"},
            ip : Ips, for : {"quote", "fixed", "variable"}, quote : Quotes \cup {None},
            shift : Shifts \cup {None}, paid : Sats \cup {None}]

TypeOK ==
  /\ allowed \in [Ips -> BOOLEAN] /\ kept \in [Ips -> {TRUE, FALSE, None}]
  /\ quote \in [Quotes -> Quote \cup {None}] /\ saved \subseteq Quotes
  /\ shift \in [Shifts -> Shift \cup {None}] /\ row \subseteq Shifts
  /\ req \in [Requests -> Request \cup {None}]
  /\ changes \in 0..MaxChanges /\ faults \in 0..MaxFaults

Init ==
  /\ allowed \in [Ips -> BOOLEAN] /\ kept = [i \in Ips |-> None]
  /\ quote = [q \in Quotes |-> None] /\ saved = {}
  /\ shift = [s \in Shifts |-> None] /\ row = {}
  /\ req = [r \in Requests |-> None]
  /\ changes = 0 /\ faults = 0

At(r, at) == req[r] # None /\ req[r].at = at
Go(r, at) == req' = [req EXCEPT ![r].at = at]
Stop(r) == req' = [req EXCEPT ![r] = None]
Given == {q \in Quotes : quote[q] # None}
Shifted == {s \in Shifts : shift[s] # None}

Begin(r, for, at, q) ==
  /\ req[r] = None \/ At(r, "answered")
  /\ \E i \in Ips : req' = [req EXCEPT ![r] = [at |-> at, ip |-> i, for |-> for, quote |-> q,
                                               shift |-> None, paid |-> None]]
  /\ UNCHANGED <<allowed, kept, quote, saved, shift, row, changes, faults>>

NetworkSwapQuote(r) == Begin(r, "quote", "allow", None)
CreateOnchainAddressSwap(r) == Begin(r, "variable", "allow", None)

(* The client names a quote, one of its own or any other it knows of. *)
NetworkSwap(r) == \E q \in Given : Begin(r, "fixed", "read", q)

ReadQuote(r) ==
  /\ At(r, "read")
  /\ IF req[r].quote \in saved THEN Go(r, "allow") ELSE Stop(r)
  /\ UNCHANGED <<allowed, kept, quote, saved, shift, row, changes, faults>>

AfterCheck(r) == IF req[r].for = "quote" THEN "ask" ELSE "post"

(* The answer kept, or else SideShift's own; a check that fails refuses the
   request and is not kept. *)
IsAllowedToSwap(r) ==
  /\ At(r, "allow")
  /\ \/ kept[req[r].ip] # None /\ (IF kept[req[r].ip] THEN Go(r, AfterCheck(r)) ELSE Stop(r)) /\ UNCHANGED <<kept, faults>>
     \/ kept[req[r].ip] = None /\ kept' = [kept EXCEPT ![req[r].ip] = allowed[req[r].ip]]
        /\ (IF allowed[req[r].ip] THEN Go(r, AfterCheck(r)) ELSE Stop(r)) /\ UNCHANGED faults
     \/ kept[req[r].ip] = None /\ faults < MaxFaults /\ faults' = faults + 1 /\ Stop(r) /\ UNCHANGED kept
  /\ UNCHANGED <<allowed, quote, saved, shift, row, changes>>

GetQuote(r) ==
  /\ At(r, "ask") /\ Cardinality(Given) < MaxQuotes
  /\ LET q == Cardinality(Given) + 1
     IN /\ \E n \in Sats : quote' = [quote EXCEPT ![q] = [deposit |-> n, good |-> TRUE]]
        /\ req' = [req EXCEPT ![r].at = "save", ![r].quote = q]
  /\ UNCHANGED <<allowed, kept, saved, shift, row, changes, faults>>

SaveQuote(r) ==
  /\ At(r, "save")
  /\ saved' = saved \cup {req[r].quote} /\ Go(r, "answered")
  /\ UNCHANGED <<allowed, kept, quote, shift, row, changes, faults>>

(* Mutant of CreateShift: the answer does not wait for the row. *)
CreateShiftUnstored(r) ==
  /\ At(r, "post") /\ Cardinality(Shifted) < MaxShifts
  /\ LET s == Cardinality(Shifted) + 1
         q == req[r].quote
     IN /\ q # None => quote[q].good
        /\ shift' = [shift EXCEPT ![s] = [kind |-> req[r].for, quote |-> q,
                                          deposit |-> IF q = None THEN None ELSE quote[q].deposit]]
        /\ quote' = IF q = None THEN quote ELSE [quote EXCEPT ![q].good = FALSE]
        /\ req' = [req EXCEPT ![r].at = IF q = None THEN "answered" ELSE "pset", ![r].shift = s]
  /\ UNCHANGED <<allowed, kept, saved, row, changes, faults>>

(* createFixedShift and createVariableSwap: SideShift makes one shift of a
   quote, while it is good, for the deposit it quoted.  That the deposits agree
   is SideShift's: the code pays what the shift asks and never compares. *)
CreateShift(r) ==
  /\ At(r, "post") /\ Cardinality(Shifted) < MaxShifts
  /\ LET s == Cardinality(Shifted) + 1
         q == req[r].quote
     IN /\ q # None => quote[q].good
        /\ shift' = [shift EXCEPT ![s] = [kind |-> req[r].for, quote |-> q,
                                          deposit |-> IF q = None THEN None ELSE quote[q].deposit]]
        /\ quote' = IF q = None THEN quote ELSE [quote EXCEPT ![q].good = FALSE]
        /\ req' = [req EXCEPT ![r].at = "store", ![r].shift = s]
  /\ UNCHANGED <<allowed, kept, saved, row, changes, faults>>

(* SideShift no longer makes a shift of the quote. *)
RefuseShift(r) ==
  /\ At(r, "post") /\ req[r].quote # None /\ ~quote[req[r].quote].good
  /\ Stop(r)
  /\ UNCHANGED <<allowed, kept, quote, saved, shift, row, changes, faults>>

StoreShift(r) ==
  /\ At(r, "store")
  /\ row' = row \cup {req[r].shift}
  /\ Go(r, IF req[r].for = "fixed" THEN "pset" ELSE "answered")
  /\ UNCHANGED <<allowed, kept, quote, saved, shift, changes, faults>>

(* Mutant of PayShift: an amount that is not whole is cut. *)
PayShiftCut(r) ==
  /\ At(r, "pset")
  /\ LET n == shift[req[r].shift].deposit
     IN req' = [req EXCEPT ![r].at = "answered", ![r].paid = IF n \in Exact THEN n ELSE n - 1]
  /\ UNCHANGED <<allowed, kept, quote, saved, shift, row, changes, faults>>

(* The deposit times 10^8 goes to BigInt, which throws on a fraction: the
   shift and its row stay, unpaid. *)
PayShift(r) ==
  /\ At(r, "pset")
  /\ LET n == shift[req[r].shift].deposit
     IN req' = IF n \in Exact THEN [req EXCEPT ![r].at = "answered", ![r].paid = n]
                              ELSE [req EXCEPT ![r] = None]
  /\ UNCHANGED <<allowed, kept, quote, saved, shift, row, changes, faults>>

(* A call fails or the process stops. *)
Fail(r) ==
  /\ req[r] # None /\ ~At(r, "answered") /\ faults < MaxFaults
  /\ faults' = faults + 1 /\ Stop(r)
  /\ UNCHANGED <<allowed, kept, quote, saved, shift, row, changes>>

KeptExpires(i) ==
  /\ kept[i] # None /\ kept' = [kept EXCEPT ![i] = None]
  /\ UNCHANGED <<allowed, quote, saved, shift, row, req, changes, faults>>

SavedExpires(q) ==
  /\ q \in saved /\ saved' = saved \ {q}
  /\ UNCHANGED <<allowed, kept, quote, shift, row, req, changes, faults>>

(* SideShift's own clock on a quote, and its view of an address. *)
QuoteExpires(q) ==
  /\ quote[q] # None /\ quote[q].good /\ quote' = [quote EXCEPT ![q].good = FALSE]
  /\ UNCHANGED <<allowed, kept, saved, shift, row, req, changes, faults>>

ChangeMind(i) ==
  /\ changes < MaxChanges /\ changes' = changes + 1
  /\ allowed' = [allowed EXCEPT ![i] = ~@]
  /\ UNCHANGED <<kept, quote, saved, shift, row, req, faults>>

Next ==
  \/ \E r \in Requests : \/ NetworkSwapQuote(r) \/ CreateOnchainAddressSwap(r) \/ NetworkSwap(r)
                         \/ ReadQuote(r) \/ IsAllowedToSwap(r) \/ GetQuote(r) \/ SaveQuote(r)
                         \/ CreateShift(r) \/ RefuseShift(r) \/ StoreShift(r) \/ PayShift(r) \/ Fail(r)
  \/ \E i \in Ips : KeptExpires(i) \/ ChangeMind(i)
  \/ \E q \in Quotes : SavedExpires(q) \/ QuoteExpires(q)

Spec == Init /\ [][Next]_vars

-----------------------------------------------------------------------------
(* A client is given a deposit address, or a transaction that pays one, only
   for a shift with a row; two requests never get the same shift. *)
AnsweredShiftIsRecorded ==
  \A r \in Requests : At(r, "answered") /\ req[r].shift # None =>
    /\ req[r].shift \in row
    /\ \A t \in Requests \ {r} : req[t] = None \/ req[t].shift # req[r].shift

(* What a client signs for a quote deposits exactly what was quoted: the amount
   survives the float it is multiplied as, or there is no transaction.  That the
   shift asks for the deposit of its quote is taken from SideShift. *)
PaysTheQuote ==
  \A r \in Requests : At(r, "answered") /\ req[r].for = "fixed" =>
    req[r].paid = quote[req[r].quote].deposit /\ shift[req[r].shift].quote = req[r].quote

(* What a client is answered with: a shift that is recorded, paid as quoted. *)
AnsweredShiftIsSound == AnsweredShiftIsRecorded /\ PaysTheQuote
=============================================================================
