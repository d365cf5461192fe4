-------------------------------- MODULE MCPay -------------------------------
(* Model checking Pay on two payments by two accounts, of an invoice with a  *)
(* hint, one without, or an address, with amounts whose floating point       *)
(* products fall below, on and above them; and                               *)
(* SideShift on two requests, with an amount that is whole as such a product *)
(* and one that is not.  Each of the two moves only while the other is where *)
(* it began, so that one run explores both and their states add up instead   *)
(* of multiplying.                                                           *)
EXTENDS Pay, TLC

CONSTANTS hinted, Requests, Ips, Deposits, Exact, MaxQuotes, MaxShifts, MaxChanges
VARIABLES allowed, kept, quote, saved, shift, shiftRow, req, changes, shiftFaults

shiftVars == <<allowed, kept, quote, saved, shift, shiftRow, req, changes, shiftFaults>>

S == INSTANCE SideShift WITH Sats <- Deposits, row <- shiftRow, faults <- shiftFaults

ASSUME ShiftAssumption ==
  /\ MaxQuotes \in Nat /\ MaxShifts \in Nat /\ MaxChanges \in Nat
  /\ None \notin S!Quotes /\ None \notin S!Shifts
  /\ None \notin S!Quote /\ None \notin S!Shift /\ None \notin S!Request

SomeSats == {2, 3, 4}
SomeNoise == [n \in SomeSats |-> n - 3]
SomeInvoices == [i \in Invoices |-> IF i = hinted THEN 4 ELSE 3]

MCInit == Init /\ S!Init
MCNext == \/ S!Init /\ (\A i \in Ips : allowed[i]) /\ Next /\ UNCHANGED shiftVars
          \/ Init /\ S!Next /\ UNCHANGED vars
MCSpec == MCInit /\ [][MCNext]_<<vars, shiftVars>>

(* The property of SideShift: what a client is answered with is a shift that is
   recorded, with a transaction that pays the deposit quoted before. *)
AnsweredShiftIsSound == S!AnsweredShiftIsSound

(* To keep the run small, of all swaps whose product is off and payments past
   Boltz there is one at a time. *)
Off(n) == Noise[n] # 0
OneOff ==
  Cardinality({s \in Created : Off(boltz[s].due)})
    + Cardinality({p \in Payments : pay[p] # None /\ pay[p].swap = None /\ pay[p].due # None}) <= 1

Symmetry == Permutations(Payments) \cup Permutations(Accounts)
=============================================================================
