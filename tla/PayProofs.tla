------------------------------ MODULE PayProofs -----------------------------
(* Proofs about Pay, for any payments, accounts, invoices and amounts and    *)
(* any rounding of their products, and about SideShift, for any requests,    *)
(* addresses, deposits and numbers of quotes and shifts.                     *)
EXTENDS MCPay, TLAPS, FiniteSetTheorems

-----------------------------------------------------------------------------
(* The inductive invariant of Pay. *)

(* Boltz numbers its swaps in order. *)
NumberInv == /\ \E n \in 0..MaxSwaps : Created = 1..n
             /\ Stored \subseteq Created

(* What is paid past Boltz rounds up to no more than the invoice's amount. *)
Within(i, due) == due < InvoiceSats[i] \/ (due = InvoiceSats[i] /\ Noise[due] < 1)

(* Where a payment is says what it may know and what has been done for it. *)
OnItsWay(x) ==
  /\ x.at \in {"hint", "lookup", "create"} => x.swap = None
  /\ x.at = "hint" => x.invoice \in Hinted
  /\ x.at = "lookup" => x.invoice \in Invoices
  /\ x.at \in {"lookup", "create", "store"} => x.invoice \notin Hinted
  /\ x.at = "store" => x.swap \in Created /\ x.swap \notin Stored
  /\ x.at \in {"lookup", "create", "store"} \/ x.invoice = None => ~x.found
Paid(x) ==
  /\ x.at \in {"store", "pset", "signable"} => x.due \in Sats
  /\ x.swap # None => x.due = boltz[x.swap].due
  /\ x.at \in {"pset", "signable"} /\ x.invoice \in Hinted => x.swap = None /\ Within(x.invoice, x.due)
  /\ x.at = "signable" => x.paid = AmountOf(x)
Tied(x) ==
  /\ x.at \in {"pset", "signable"} /\ x.swap # None =>
       /\ x.swap \in Stored /\ x.swap \notin x.shut
       /\ row[x.swap].invoice = x.invoice
       /\ ~x.found => row[x.swap].account = x.account
  /\ \A s \in x.shut : s \in Stored /\ ~row[s].open
Well(x) == OnItsWay(x) /\ Paid(x) /\ Tied(x)
PlaceInv == \A p \in Payments : pay[p] # None => Well(pay[p])

(* A swap is stored once: by the payment that created it. *)
OwnerInv == \A p, q \in Payments : At(p, "store") /\ At(q, "store") /\ p # q => pay[p].swap # pay[q].swap

(* Unless two payments created swaps for an invoice at once, only one does, when
   no row of it is open, and the one open row is the newest. *)
Alone(i) ==
  /\ \A p, q \in Creating(i) : p = q
  /\ Creating(i) # {} => OpenRows(i) = {}
  /\ \A p \in Creating(i) : pay[p].at = "store" => \A t \in Stored : row[t].invoice = i => t < pay[p].swap
  /\ \A s \in OpenRows(i) : \A t \in Stored : row[t].invoice = i => t <= s
RaceInv == \A i \in Invoices \ raced : Alone(i)

IInv == TypeOK /\ NumberInv /\ PlaceInv /\ OwnerInv /\ RaceInv

-----------------------------------------------------------------------------
(* What the steps have in common. *)

LEMMA PaymentParts ==
  ASSUME TypeOK, NEW p \in Payments, pay[p] # None
  PROVE  /\ pay[p] \in Payment
         /\ pay[p].at \in {"hint", "lookup", "create", "store", "pset", "signable"}
         /\ pay[p].account \in Accounts /\ pay[p].invoice \in Invoices \cup {None}
         /\ pay[p].swap \in Swaps \cup {None} /\ pay[p].due \in Sats \cup {None}
         /\ pay[p].found \in BOOLEAN /\ pay[p].paid \in Nat /\ pay[p].shut \subseteq Swaps
  BY DEF TypeOK, Payment

(* The payments that a step leaves alone. *)
Others(p) == \A q \in Payments \ {p} : pay'[q] = pay[q]

(* A payment that moves leaves the others where they are. *)
LEMMA Updating ==
  ASSUME TypeOK, NEW p \in Payments, NEW x \in Payment, pay' = [pay EXCEPT ![p] = x]
  PROVE  /\ pay' \in [Payments -> Payment \cup {None}]
         /\ pay'[p] = x /\ pay'[p] # None /\ Others(p)
  BY NoneAssumption DEF TypeOK, Others

(* So does one that ends. *)
LEMMA Ending ==
  ASSUME TypeOK, NEW p \in Payments, pay' = [pay EXCEPT ![p] = None]
  PROVE  /\ pay' \in [Payments -> Payment \cup {None}]
         /\ pay'[p] = None /\ Others(p)
  BY DEF TypeOK, Others

(* Swaps and rows stay, whatever is said of them; a closed row stays closed. *)
Keeps ==
  /\ \A s \in Created : s \in Created' /\ boltz'[s].due = boltz[s].due
  /\ \A s \in Stored : /\ s \in Stored' /\ row'[s].invoice = row[s].invoice
                       /\ row'[s].account = row[s].account
                       /\ ~row[s].open => ~row'[s].open

(* A payment that waits keeps its place, if its swap is not stored by another. *)
LEMMA PlaceKept ==
  ASSUME IInv, Keeps, NEW q \in Payments, NEW x \in Payment, pay[q] = x,
         x.at = "store" => x.swap \notin Stored'
  PROVE  Well(x)'
  <1>1. OnItsWay(x) /\ Paid(x) /\ Tied(x) /\ Stored \subseteq Created
    BY NoneAssumption DEF IInv, PlaceInv, NumberInv, Well
  <1>2. OnItsWay(x)'
    BY <1>1 DEF Keeps, OnItsWay
  <1>3. x.swap # None => x.swap \in Created
    BY <1>1 DEF OnItsWay, Tied, Payment
  <1>4. Paid(x)'
    BY <1>1, <1>3 DEF Keeps, Paid, Within, AmountOf
  <1>5. Tied(x)'
    BY <1>1 DEF Keeps, Tied
  <1>6. QED
    BY <1>2, <1>4, <1>5 DEF Well

(* Where no swap is created or stored, one slot moves and the rest stay. *)
LEMMA PlaceMoves ==
  ASSUME IInv, UNCHANGED <<boltz, row>>, NEW p \in Payments, Others(p),
         NEW x \in Payment \cup {None}, pay'[p] = x, x # None => Well(x)
  PROVE  PlaceInv' /\ NumberInv'
  <1>1. Created' = Created /\ Stored' = Stored
    BY DEF Created, Stored
  <1>2. Well(x)' <=> Well(x)
    BY <1>1 DEF Well, OnItsWay, Paid, Tied, Within, AmountOf
  <1>3. Keeps
    BY <1>1 DEF Keeps
  <1>4. ASSUME NEW q \in Payments, q # p, pay'[q] # None
        PROVE  Well(pay[q])'
    <2>1. PICK y \in Payment : pay[q] = y /\ pay'[q] = y
      BY <1>4 DEF IInv, TypeOK, Others
    <2>2. y.at = "store" => y.swap \notin Stored'
      BY <1>1, <2>1, NoneAssumption DEF IInv, PlaceInv, Well, OnItsWay
    <2>3. Well(y)'
      BY <1>3, <2>1, <2>2, PlaceKept
    <2>4. QED
      BY <2>1, <2>3
  <1>5. PlaceInv'
    BY <1>2, <1>4 DEF PlaceInv
  <1>6. NumberInv'
    BY <1>1 DEF IInv, NumberInv
  <1>7. QED
    BY <1>5, <1>6

(* A payment that does not come to create a swap disturbs no other one that does. *)
LEMMA Aside ==
  ASSUME IInv, UNCHANGED <<row, raced>>, NEW p \in Payments, Others(p),
         pay'[p] # None /\ pay'[p].invoice # None => pay'[p].at \notin {"create", "store"},
         ~At(p, "store")' 
  PROVE  RaceInv' /\ OwnerInv'
  <1>1. Stored' = Stored /\ \A i : OpenRows(i)' = OpenRows(i)
    BY DEF Stored, OpenRows
  <1>2. \A i \in Invoices : Creating(i)' \subseteq Creating(i) /\ p \notin Creating(i)'
    BY NoneAssumption DEF Creating, Others
  <1>3. ASSUME NEW i \in Invoices, i \notin raced, Alone(i)
        PROVE  Alone(i)'
    <2>1. \A q \in Creating(i)' : q \in Creating(i) /\ pay'[q] = pay[q]
      BY <1>2 DEF Others, Creating
    <2>2. QED
      BY <1>1, <1>2, <1>3, <2>1 DEF Alone
  <1>4. RaceInv'
    BY <1>3 DEF IInv, RaceInv
  <1>5. \A q \in Payments : At(q, "store")' => At(q, "store") /\ pay'[q] = pay[q]
    BY DEF At, Others
  <1>6. OwnerInv'
    BY <1>5 DEF IInv, OwnerInv
  <1>7. QED
    BY <1>4, <1>6

(* The swaps are numbered from 1: the next one is new. *)
LEMMA NextSwapIsNew ==
  ASSUME IInv, Cardinality(Created) < MaxSwaps
  PROVE  /\ Cardinality(Created) + 1 \in Swaps
         /\ Created = 1..Cardinality(Created) /\ Cardinality(Created) \in Nat
  <1>1. PICK n \in 0..MaxSwaps : Created = 1..n
    BY DEF IInv, NumberInv
  <1>2. Cardinality(1..n) = n
    BY FS_Interval
  <1>3. QED
    BY <1>1, <1>2, BoundsAssumption DEF Swaps

-----------------------------------------------------------------------------
(* The initial states satisfy the invariant. *)
THEOREM PayInit == Init => IInv
  <1> SUFFICES ASSUME Init PROVE IInv
    OBVIOUS
  <1>1. TypeOK
    BY BoundsAssumption DEF Init, TypeOK
  <1>2. Created = {} /\ Stored = {}
    BY DEF Init, Created, Stored
  <1>3. NumberInv
    BY <1>2, BoundsAssumption DEF NumberInv
  <1>4. PlaceInv /\ OwnerInv
    BY DEF Init, PlaceInv, OwnerInv, At
  <1>5. RaceInv
    BY <1>2 DEF Init, RaceInv, Alone, Creating, OpenRows
  <1>6. QED
    BY <1>1, <1>3, <1>4, <1>5 DEF IInv

(* A step that only moves one payment, and not towards a swap of its own. *)
LEMMA Moved ==
  ASSUME IInv, NEW p \in Payments, NEW x \in Payment \cup {None},
         pay' = [pay EXCEPT ![p] = x], UNCHANGED <<boltz, row, raced>>, faults' \in 0..MaxFaults,
         x # None => Well(x) /\ x.at # "store" /\ (x.invoice # None => x.at # "create")
  PROVE  IInv'
  <1>1. Others(p) /\ pay'[p] = x /\ TypeOK'
    BY DEF IInv, TypeOK, Others
  <1>2. ~At(p, "store")' /\ (x # None /\ x.invoice # None => x.at \notin {"create", "store"})
    BY <1>1 DEF At
  <1>3. PlaceInv' /\ NumberInv'
    BY <1>1, PlaceMoves
  <1>4. RaceInv' /\ OwnerInv'
    BY <1>1, <1>2, Aside
  <1>5. QED
    BY <1>1, <1>3, <1>4 DEF IInv

(* A payment starts where its kind of destination sends it. *)
LEMMA Beginning ==
  ASSUME IInv, NEW p \in Payments, NEW at \in {"hint", "lookup", "create", "pset"},
         NEW i \in Invoices \cup {None}, NEW n \in Sats \cup {None}, Begin(p, at, i, n),
         at = "hint" => i \in Hinted, at = "lookup" => i \in Invoices \ Hinted,
         at \in {"create", "pset"} => i = None, at = "pset" => n \in Sats
  PROVE  IInv'
  <1>1. PICK a \in Accounts :
          pay' = [pay EXCEPT ![p] = [at |-> at, account |-> a, invoice |-> i, swap |-> None, found |-> FALSE, due |-> n,
                                     paid |-> 0, shut |-> {s \in Stored : ~row[s].open}]]
    BY DEF Begin
  <1> DEFINE x == [at |-> at, account |-> a, invoice |-> i, swap |-> None, found |-> FALSE, due |-> n, paid |-> 0,
                   shut |-> {s \in Stored : ~row[s].open}]
  <1>2. x \in Payment
    BY DEF Payment, Stored
  <1>3. None \notin Hinted
    BY NoneAssumption, HintedAssumption
  <1>4. OnItsWay(x)
    BY <1>3 DEF OnItsWay
  <1>5. Paid(x)
    BY <1>3 DEF Paid
  <1>6. Tied(x)
    BY DEF Tied
  <1>7. UNCHANGED <<boltz, row, raced>> /\ faults' \in 0..MaxFaults
    BY DEF Begin, IInv, TypeOK
  <1>8. x.at # "store" /\ (x.invoice # None => x.at # "create")
    OBVIOUS
  <1> HIDE DEF x
  <1>9. QED
    BY <1>1, <1>2, <1>4, <1>5, <1>6, <1>7, <1>8, Moved DEF Well, x

(* An invoice with a magic routing hint is paid without a swap. *)
LEMMA HintStep ==
  ASSUME IInv, NEW p \in Payments, GetMagicRouteHintInfo(p)
  PROVE  IInv'
  <1>1. PICK info \in [signed : BOOLEAN, lbtc : BOOLEAN, amount : Sats] :
          pay' = [pay EXCEPT ![p] = IF CheckMagicRouteHintInfo(info, @.invoice)
                                    THEN [@ EXCEPT !.at = "pset", !.due = info.amount] ELSE None]
    BY DEF GetMagicRouteHintInfo
  <1>2. /\ pay[p] # None /\ pay[p].at = "hint" /\ pay[p] \in Payment /\ Well(pay[p])
        /\ UNCHANGED <<boltz, row, raced>> /\ faults' \in 0..MaxFaults /\ info.amount \in Sats
    BY DEF GetMagicRouteHintInfo, At, IInv, PlaceInv, TypeOK
  <1>3. CASE ~CheckMagicRouteHintInfo(info, pay[p].invoice)
    <2>1. pay' = [pay EXCEPT ![p] = None]
      BY <1>1, <1>3 DEF IInv, TypeOK
    <2>2. QED
      BY <1>2, <2>1, Moved
  <1>4. CASE CheckMagicRouteHintInfo(info, pay[p].invoice)
    <2> DEFINE x == [pay[p] EXCEPT !.at = "pset", !.due = info.amount]
    <2>1. pay' = [pay EXCEPT ![p] = x]
      BY <1>1, <1>4 DEF IInv, TypeOK
    <2>2. x \in Payment /\ x.at = "pset" /\ x.due = info.amount /\ x.invoice = pay[p].invoice
          /\ x.swap = pay[p].swap /\ x.shut = pay[p].shut /\ x.account = pay[p].account /\ x.found = pay[p].found
      BY <1>2 DEF Payment
    <2> HIDE DEF x
    <2>3. x.swap = None
      BY <1>2, <2>2 DEF Well, OnItsWay
    <2>4. Well(x)
      BY <1>2, <1>4, <2>2, <2>3 DEF Well, OnItsWay, Paid, Tied, Within, CheckMagicRouteHintInfo
    <2>5. QED
      BY <1>2, <2>1, <2>2, <2>4, Moved
  <1>5. QED
    BY <1>3, <1>4

(* The transaction pays the swap what Boltz expects, or a satoshi more. *)
LEMMA PsetStep ==
  ASSUME IInv, NEW p \in Payments, CreatePset(p)
  PROVE  IInv'
  <1>1. /\ pay[p] # None /\ pay[p].at = "pset" /\ pay[p] \in Payment /\ Well(pay[p])
        /\ UNCHANGED <<boltz, row, raced>> /\ faults' \in 0..MaxFaults
    BY DEF CreatePset, At, IInv, PlaceInv, TypeOK
  <1>2. CASE Throws(pay[p])
    <2>1. pay' = [pay EXCEPT ![p] = None]
      BY <1>2 DEF CreatePset
    <2>2. QED
      BY <1>1, <2>1, Moved
  <1>3. CASE ~Throws(pay[p])
    <2> DEFINE x == [pay[p] EXCEPT !.at = "signable", !.paid = AmountOf(pay[p])]
    <2>1. pay' = [pay EXCEPT ![p] = x]
      BY <1>3 DEF CreatePset, IInv, TypeOK
    <2>2. AmountOf(pay[p]) \in Nat
      <3>1. pay[p].due \in Sats
        BY <1>1 DEF Well, Paid
      <3>2. pay[p].due \in Nat
        BY <3>1, AmountAssumption
      <3>3. QED
        BY <3>2 DEF AmountOf, Ceil
    <2>3. x \in Payment /\ x.at = "signable" /\ x.due = pay[p].due /\ x.invoice = pay[p].invoice
          /\ x.swap = pay[p].swap /\ x.shut = pay[p].shut /\ x.account = pay[p].account /\ x.found = pay[p].found
          /\ x.paid = AmountOf(pay[p])
      BY <1>1, <2>2 DEF Payment
    <2> HIDE DEF x
    <2>4. Well(x)
      BY <1>1, <2>3 DEF Well, OnItsWay, Paid, Tied, Within, AmountOf
    <2>5. QED
      BY <1>1, <2>1, <2>3, <2>4, Moved
  <1>4. QED
    BY <1>2, <1>3

(* A payment that fails leaves its swap unpaid. *)
LEMMA FailStep ==
  ASSUME IInv, NEW p \in Payments, Fail(p)
  PROVE  IInv'
  <1>1. pay' = [pay EXCEPT ![p] = None] /\ UNCHANGED <<boltz, row, raced>>
    BY DEF Fail
  <1>2. faults' \in 0..MaxFaults
    BY BoundsAssumption DEF Fail, IInv, TypeOK
  <1>3. QED
    BY <1>1, <1>2, Moved

(* A look-up finds an open row, or goes on to create a swap: then it is alone, or
   the race is noted. *)
LEMMA LookUpStep ==
  ASSUME IInv, NEW p \in Payments, LookUpSwap(p)
  PROVE  IInv'
  <1>1. PICK i \in Invoices :
          /\ pay[p] # None /\ pay[p].at = "lookup" /\ pay[p] \in Payment /\ Well(pay[p])
          /\ UNCHANGED <<boltz, row, faults>> /\ i = pay[p].invoice
    BY DEF LookUpSwap, At, IInv, PlaceInv, TypeOK, Well, OnItsWay
  <1>2. CASE OpenRows(i) = {}
    <2> DEFINE x == [pay[p] EXCEPT !.at = "create"]
    <2>1. pay' = [pay EXCEPT ![p] = x]
      BY <1>1, <1>2 DEF LookUpSwap, GetReverseSwapByInvoice, IInv, TypeOK
    <2>2. x \in Payment /\ x.at = "create" /\ x.due = pay[p].due /\ x.invoice = i
          /\ x.swap = pay[p].swap /\ x.shut = pay[p].shut /\ x.account = pay[p].account /\ x.found = pay[p].found
      BY <1>1 DEF Payment
    <2> HIDE DEF x
    <2>3. Well(x)
      BY <1>1, <2>2 DEF Well, OnItsWay, Paid, Tied
    <2>4. pay'[p] = x /\ Others(p) /\ pay' \in [Payments -> Payment \cup {None}]
      BY <2>1, <2>2, Updating DEF IInv
    <2>5. PlaceInv' /\ NumberInv'
      BY <1>1, <2>2, <2>3, <2>4, PlaceMoves
    <2>6. raced' = IF Creating(i) # {} THEN raced \cup {i} ELSE raced
      BY <1>1, <2>2, <2>4 DEF LookUpSwap
    <2>7. TypeOK'
      BY <1>1, <2>4, <2>6 DEF IInv, TypeOK
    <2>8. Stored' = Stored /\ \A j : OpenRows(j)' = OpenRows(j)
      BY <1>1 DEF Stored, OpenRows
    <2>9. /\ Creating(i)' = Creating(i) \cup {p} /\ p \notin Creating(i)
          /\ \A j \in Invoices \ {i} : Creating(j)' = Creating(j)
      BY <1>1, <2>2, <2>4, NoneAssumption DEF Creating, Others
    <2>10. ASSUME NEW j \in Invoices, j \notin raced'
           PROVE  Alone(j)'
      <3>1. Alone(j) /\ j \notin raced
        BY <2>6, <2>10 DEF IInv, RaceInv
      <3>2. CASE j = i
        <4>1. Creating(i) = {} /\ Creating(i)' = {p}
          BY <2>6, <2>9, <2>10, <3>2
        <4>2. QED
          BY <1>1, <1>2, <2>2, <2>4, <2>8, <3>2, <4>1 DEF Alone
      <3>3. CASE j # i
        <4>1. \A q \in Creating(j)' : q \in Creating(j) /\ pay'[q] = pay[q]
          BY <2>2, <2>4, <2>9, <3>3 DEF Others, Creating
        <4>2. QED
          BY <1>1, <2>8, <2>9, <3>1, <3>3, <4>1 DEF Alone
      <3>4. QED
        BY <3>2, <3>3
    <2>11. \A q \in Payments : At(q, "store")' => At(q, "store") /\ pay'[q] = pay[q]
      BY <2>2, <2>4 DEF At, Others
    <2>12. OwnerInv'
      BY <2>11 DEF IInv, OwnerInv
    <2>13. QED
      BY <2>5, <2>7, <2>10, <2>12 DEF IInv, RaceInv
  <1>3. CASE OpenRows(i) # {}
    <2>1. PICK s \in OpenRows(i) :
            pay' = [pay EXCEPT ![p].at = "pset", ![p].swap = s, ![p].found = TRUE, ![p].due = boltz[s].due]
      BY <1>1, <1>3 DEF LookUpSwap, GetReverseSwapByInvoice
    <2> DEFINE x == [pay[p] EXCEPT !.at = "pset", !.swap = s, !.found = TRUE, !.due = boltz[s].due]
    <2>2. pay' = [pay EXCEPT ![p] = x]
      BY <2>1 DEF IInv, TypeOK
    <2>3. /\ s \in Swaps /\ s \in Stored /\ s \in Created /\ row[s].open /\ row[s].invoice = i
          /\ boltz[s] \in BoltzSwap /\ boltz[s].due \in Sats
      BY <2>1 DEF OpenRows, Stored, Created, IInv, NumberInv, TypeOK, BoltzSwap
    <2>4. x \in Payment /\ x.at = "pset" /\ x.due = boltz[s].due /\ x.invoice = i
          /\ x.swap = s /\ x.shut = pay[p].shut /\ x.account = pay[p].account /\ x.found
      BY <1>1, <2>3 DEF Payment
    <2> HIDE DEF x
    <2>5. Well(x)
      BY <1>1, <2>3, <2>4, NoneAssumption DEF Well, OnItsWay, Paid, Tied
    <2>6. pay'[p] = x
      BY <2>2, <2>4, Updating DEF IInv
    <2>7. raced' = raced /\ faults' \in 0..MaxFaults
      BY <1>1, <2>4, <2>6 DEF LookUpSwap, IInv, TypeOK
    <2>8. QED
      BY <1>1, <2>2, <2>4, <2>5, <2>7, Moved
  <1>4. QED
    BY <1>2, <1>3

(* A swap is created with the next number: newer than every row. *)
LEMMA CreateStep ==
  ASSUME IInv, NEW p \in Payments, CreateSwap(p)
  PROVE  IInv'
  <1>1. PICK s \in Swaps, n \in Sats :
          /\ s = Cardinality(Created) + 1
          /\ boltz' = [boltz EXCEPT ![s] = [invoice |-> pay[p].invoice, due |-> n, over |-> FALSE]]
          /\ pay' = [pay EXCEPT ![p].at = "store", ![p].swap = s, ![p].due = n]
    BY NextSwapIsNew DEF CreateSwap
  <1>2. /\ s \notin Created /\ Created = 1..(s - 1) /\ s \in 1..MaxSwaps
        /\ \A t \in Created : t < s
    BY <1>1, NextSwapIsNew DEF CreateSwap, Swaps
  <1>3. /\ pay[p] # None /\ pay[p].at = "create" /\ pay[p] \in Payment /\ Well(pay[p])
        /\ UNCHANGED <<row, raced, faults>>
    BY DEF CreateSwap, At, IInv, PlaceInv, TypeOK
  <1>4. PICK x \in Payment : /\ x = [pay[p] EXCEPT !.at = "store", !.swap = s, !.due = n]
                            /\ pay' = [pay EXCEPT ![p] = x]
    <2>1. [pay[p] EXCEPT !.at = "store", !.swap = s, !.due = n] \in Payment
      BY <1>3 DEF Payment
    <2>2. pay' = [pay EXCEPT ![p] = [pay[p] EXCEPT !.at = "store", !.swap = s, !.due = n]]
      BY <1>1 DEF IInv, TypeOK
    <2>3. QED
      BY <2>1, <2>2
  <1>5. x.at = "store" /\ x.due = n /\ x.invoice = pay[p].invoice
        /\ x.swap = s /\ x.shut = pay[p].shut /\ x.account = pay[p].account /\ x.found = pay[p].found
    BY <1>3, <1>4 DEF Payment
  <1>6. pay'[p] = x /\ Others(p) /\ pay' \in [Payments -> Payment \cup {None}]
    BY <1>4, Updating DEF IInv
  <1> DEFINE b == [invoice |-> pay[p].invoice, due |-> n, over |-> FALSE]
  <1>7. b \in BoltzSwap /\ b.due = n
    BY <1>3 DEF BoltzSwap, Payment
  <1> HIDE DEF b
  <1>8. boltz' = [boltz EXCEPT ![s] = b]
    BY <1>1 DEF b
  <1>9. boltz' \in [Swaps -> BoltzSwap \cup {None}] /\ boltz'[s] = b /\ \A t \in Swaps \ {s} : boltz'[t] = boltz[t]
    BY <1>7, <1>8 DEF IInv, TypeOK
  <1>10. TypeOK'
    BY <1>3, <1>6, <1>9 DEF IInv, TypeOK
  <1>11. Created' = Created \cup {s} /\ Stored' = Stored /\ Stored \subseteq Created
    BY <1>3, <1>7, <1>9, NoneAssumption DEF Created, Stored, IInv, NumberInv
  <1>12. NumberInv'
    <2>1. Created' = 1..s
      BY <1>2, <1>11, BoundsAssumption
    <2>2. QED
      BY <1>2, <1>11, <2>1, BoundsAssumption DEF NumberInv
  <1>13. Keeps
    BY <1>2, <1>3, <1>9, <1>11 DEF Keeps, Created
  <1>14. PlaceInv'
    <2>1. Well(x)'
      BY <1>2, <1>3, <1>5, <1>7, <1>9, <1>11 DEF Well, OnItsWay, Paid, Tied
    <2>2. ASSUME NEW q \in Payments, q # p, pay'[q] # None
          PROVE  Well(pay[q])'
      <3>1. PICK y \in Payment : pay[q] = y /\ pay'[q] = y
        BY <1>6, <2>2 DEF IInv, TypeOK, Others
      <3>2. y.at = "store" => y.swap \notin Stored'
        BY <1>11, <3>1, NoneAssumption DEF IInv, PlaceInv, Well, OnItsWay
      <3>3. Well(y)'
        BY <1>13, <3>1, <3>2, PlaceKept
      <3>4. QED
        BY <3>1, <3>3
    <2>3. QED
      BY <1>6, <2>1, <2>2 DEF PlaceInv
  <1>15. \A q \in Payments : At(q, "store") => pay[q].swap \in Created
    BY DEF IInv, PlaceInv, Well, OnItsWay, At
  <1>16. OwnerInv'
    <2>1. \A q \in Payments \ {p} : At(q, "store")' => At(q, "store") /\ pay'[q] = pay[q]
      BY <1>6 DEF At, Others
    <2>2. QED
      BY <1>2, <1>5, <1>6, <1>15, <2>1 DEF IInv, OwnerInv
  <1>17. ASSUME NEW i \in Invoices, Alone(i)
         PROVE  Alone(i)'
    <2>1. OpenRows(i)' = OpenRows(i)
      BY <1>3, <1>11 DEF OpenRows
    <2>2. Creating(i)' = Creating(i)
      BY <1>3, <1>5, <1>6, NoneAssumption DEF Creating, Others
    <2>3. \A t \in Stored : t < s
      BY <1>2, <1>11
    <2>4. \A q \in Creating(i) : q = p \/ pay'[q] = pay[q]
      BY <1>6 DEF Creating, Others
    <2>5. QED
      BY <1>3, <1>5, <1>6, <1>11, <1>17, <2>1, <2>2, <2>3, <2>4 DEF Alone
  <1>18. RaceInv'
    BY <1>3, <1>17 DEF IInv, RaceInv
  <1>19. QED
    BY <1>10, <1>12, <1>14, <1>16, <1>18 DEF IInv

(* A row is stored for the swap of its payment, which alone was creating one. *)
LEMMA StoreStep ==
  ASSUME IInv, NEW p \in Payments, StoreSwap(p)
  PROVE  IInv'
  <1>1. /\ pay[p] # None /\ pay[p].at = "store" /\ pay[p] \in Payment /\ Well(pay[p])
        /\ UNCHANGED <<boltz, raced, faults>> /\ pay' = [pay EXCEPT ![p].at = "pset"]
    BY DEF StoreSwap, At, IInv, PlaceInv, TypeOK
  <1>2. PICK s \in Swaps : s = pay[p].swap /\ s \in Created /\ s \notin Stored
    BY <1>1 DEF Well, OnItsWay, Created
  <1> DEFINE w == [invoice |-> pay[p].invoice, account |-> pay[p].account, open |-> TRUE]
  <1>3. w \in Row /\ w.invoice = pay[p].invoice /\ w.account = pay[p].account /\ w.open
    BY <1>1 DEF Row, Payment
  <1> HIDE DEF w
  <1>4. row' = [row EXCEPT ![s] = w]
    BY <1>2 DEF StoreSwap, w
  <1>5. /\ row' \in [Swaps -> Row \cup {None}] /\ row'[s] = w /\ row'[s] # None
        /\ \A t \in Swaps \ {s} : row'[t] = row[t]
    BY <1>3, <1>4, NoneAssumption DEF IInv, TypeOK
  <1>6. PICK x \in Payment : /\ x = [pay[p] EXCEPT !.at = "pset"]
                            /\ pay' = [pay EXCEPT ![p] = x]
    BY <1>1 DEF IInv, TypeOK, Payment
  <1>7. x.at = "pset" /\ x.due = pay[p].due /\ x.invoice = pay[p].invoice
        /\ x.swap = s /\ x.shut = pay[p].shut /\ x.account = pay[p].account /\ x.found = pay[p].found
    BY <1>1, <1>2, <1>6 DEF Payment
  <1>8. pay'[p] = x /\ Others(p) /\ pay' \in [Payments -> Payment \cup {None}]
    BY <1>6, Updating DEF IInv
  <1>9. TypeOK'
    BY <1>1, <1>5, <1>8 DEF IInv, TypeOK
  <1>10. Created' = Created /\ Stored' = Stored \cup {s} /\ Stored \subseteq Created
    BY <1>1, <1>5 DEF Created, Stored, IInv, NumberInv
  <1>11. NumberInv'
    BY <1>2, <1>10 DEF IInv, NumberInv
  <1>12. Keeps
    BY <1>1, <1>2, <1>5, <1>10 DEF Keeps, Stored
  <1>13. PlaceInv'
    <2>1. s \notin x.shut /\ \A t \in x.shut : t \in Stored' /\ ~row'[t].open
      BY <1>1, <1>2, <1>7, <1>12 DEF Well, Tied, Keeps
    <2>2. Well(x)'
      BY <1>1, <1>2, <1>3, <1>5, <1>7, <1>10, <2>1 DEF Well, OnItsWay, Paid, Tied
    <2>3. ASSUME NEW q \in Payments, q # p, pay'[q] # None
          PROVE  Well(pay[q])'
      <3>1. PICK y \in Payment : pay[q] = y /\ pay'[q] = y
        BY <1>8, <2>3 DEF IInv, TypeOK, Others
      <3>2. y.at = "store" => y.swap \notin Stored /\ y.swap # s
        BY <1>1, <1>2, <2>3, <3>1, NoneAssumption DEF IInv, PlaceInv, OwnerInv, At, Well, OnItsWay
      <3>3. Well(y)'
        BY <1>10, <1>12, <3>1, <3>2, PlaceKept
      <3>4. QED
        BY <3>1, <3>3
    <2>4. QED
      BY <1>8, <2>2, <2>3 DEF PlaceInv
  <1>14. OwnerInv'
    <2>1. \A q \in Payments : At(q, "store")' => At(q, "store") /\ pay'[q] = pay[q]
      BY <1>7, <1>8 DEF At, Others
    <2>2. QED
      BY <2>1 DEF IInv, OwnerInv
  <1>15. ASSUME NEW i \in Invoices, Alone(i)
         PROVE  Alone(i)'
    <2>1. CASE i = pay[p].invoice
      <3>1. p \in Creating(i)
        BY <1>1, <2>1 DEF Creating
      <3>2. Creating(i) = {p} /\ OpenRows(i) = {} /\ \A t \in Stored : row[t].invoice = i => t < s
        BY <1>1, <1>2, <1>15, <3>1 DEF Alone
      <3>3. Creating(i)' = {}
        BY <1>7, <1>8, <3>2 DEF Creating, Others
      <3>4. OpenRows(i)' = {s}
        BY <1>2, <1>3, <1>5, <1>10, <2>1, <3>2 DEF OpenRows, Stored
      <3>5. \A t \in Stored' : row'[t].invoice = i => t <= s
        BY <1>2, <1>12, <1>10, <3>2 DEF Keeps, Stored, Swaps
      <3>6. QED
        BY <3>3, <3>4, <3>5 DEF Alone
    <2>2. CASE i # pay[p].invoice
      <3>1. OpenRows(i)' = OpenRows(i)
        BY <1>2, <1>3, <1>5, <1>10, <2>2 DEF OpenRows, Stored
      <3>2. Creating(i)' = Creating(i) /\ p \notin Creating(i)
        BY <1>7, <1>8, <2>2 DEF Creating, Others
      <3>3. \A t \in Stored' : row'[t].invoice = i => t \in Stored /\ row[t].invoice = i
        BY <1>3, <1>5, <1>10, <1>12, <2>2 DEF Keeps
      <3>4. \A q \in Creating(i) : pay'[q] = pay[q]
        BY <1>8, <3>2 DEF Creating, Others
      <3>5. QED
        BY <1>15, <3>1, <3>2, <3>3, <3>4 DEF Alone
    <2>3. QED
      BY <2>1, <2>2
  <1>16. RaceInv'
    BY <1>1, <1>15 DEF IInv, RaceInv
  <1>17. QED
    BY <1>9, <1>11, <1>13, <1>14, <1>16 DEF IInv

(* A swap is over, or its row is closed: no payment moves. *)
LEMMA SwapStep ==
  ASSUME IInv, NEW s \in Swaps, EndSwap(s) \/ MarkCompleted(s)
  PROVE  IInv'
  <1>1. UNCHANGED <<pay, raced, faults>>
    BY DEF EndSwap, MarkCompleted
  <1>2. /\ boltz' \in [Swaps -> BoltzSwap \cup {None}] /\ Created' = Created
        /\ \A t \in Created : boltz'[t].due = boltz[t].due
    <2>1. CASE boltz' = boltz
      BY <2>1 DEF Created, IInv, TypeOK
    <2>2. CASE EndSwap(s)
      <3>1. [boltz[s] EXCEPT !.over = TRUE] \in BoltzSwap /\ [boltz[s] EXCEPT !.over = TRUE].due = boltz[s].due
        BY <2>2 DEF EndSwap, IInv, TypeOK, BoltzSwap
      <3>2. boltz' = [boltz EXCEPT ![s] = [boltz[s] EXCEPT !.over = TRUE]]
        BY <2>2 DEF EndSwap, IInv, TypeOK
      <3>3. boltz'[s] # None /\ boltz[s] # None
        BY <2>2, <3>1, <3>2, NoneAssumption DEF EndSwap, IInv, TypeOK
      <3>4. QED
        BY <3>1, <3>2, <3>3 DEF Created, IInv, TypeOK
    <2>3. QED
      BY <2>1, <2>2 DEF MarkCompleted
  <1>3. /\ row' \in [Swaps -> Row \cup {None}] /\ Stored' = Stored
        /\ \A t \in Stored : /\ row'[t].invoice = row[t].invoice /\ row'[t].account = row[t].account
                             /\ row'[t].open => row[t].open
    <2>1. CASE row' = row
      BY <2>1 DEF Stored, IInv, TypeOK
    <2>2. CASE MarkCompleted(s)
      <3> DEFINE w == [row[s] EXCEPT !.open = FALSE]
      <3>1. w \in Row /\ w.invoice = row[s].invoice /\ w.account = row[s].account /\ ~w.open /\ row[s] # None
        BY <2>2 DEF MarkCompleted, IInv, TypeOK, Row
      <3>2. row' = [row EXCEPT ![s] = w]
        BY <2>2 DEF MarkCompleted, IInv, TypeOK
      <3> HIDE DEF w
      <3>3. w # None
        BY <3>1, NoneAssumption
      <3>4. QED
        BY <3>1, <3>2, <3>3 DEF Stored, IInv, TypeOK
    <2>3. QED
      BY <2>1, <2>2 DEF EndSwap
  <1>4. TypeOK' /\ NumberInv' /\ Keeps
    BY <1>1, <1>2, <1>3 DEF IInv, TypeOK, NumberInv, Keeps
  <1>5. PlaceInv'
    <2>1. ASSUME NEW q \in Payments, pay'[q] # None
          PROVE  Well(pay[q])'
      <3>1. PICK y \in Payment : pay[q] = y /\ pay'[q] = y
        BY <1>1, <2>1 DEF IInv, TypeOK
      <3>2. y.at = "store" => y.swap \notin Stored'
        BY <1>3, <3>1, NoneAssumption DEF IInv, PlaceInv, Well, OnItsWay
      <3>3. Well(y)'
        BY <1>4, <3>1, <3>2, PlaceKept
      <3>4. QED
        BY <3>1, <3>3
    <2>2. QED
      BY <2>1 DEF PlaceInv
  <1>6. OwnerInv'
    BY <1>1 DEF IInv, OwnerInv, At
  <1>7. ASSUME NEW i \in Invoices, Alone(i)
        PROVE  Alone(i)'
    <2>1. OpenRows(i)' \subseteq OpenRows(i)
      BY <1>3 DEF OpenRows
    <2>2. Creating(i)' = Creating(i)
      BY <1>1 DEF Creating
    <2>3. QED
      BY <1>1, <1>3, <1>7, <2>1, <2>2 DEF Alone
  <1>8. QED
    BY <1>1, <1>4, <1>5, <1>6, <1>7 DEF IInv, RaceInv

(* Every step of Pay keeps the invariant. *)
THEOREM PayStep == IInv /\ [Next]_vars => IInv'
  <1>1. ASSUME IInv, UNCHANGED vars PROVE IInv'
    BY <1>1 DEF vars, IInv, TypeOK, NumberInv, PlaceInv, OwnerInv, RaceInv, Alone, Well, OnItsWay, Paid, Tied,
                Within, AmountOf, At, Created, Stored, OpenRows, Creating
  <1>2. ASSUME IInv, NEW p \in Payments, PayLightningInvoice(p) PROVE IInv'
    BY <1>2, Beginning, HintedAssumption DEF PayLightningInvoice
  <1>3. ASSUME IInv, NEW p \in Payments, PayBitcoinAddress(p) PROVE IInv'
    BY <1>3, Beginning DEF PayBitcoinAddress
  <1>4. ASSUME IInv, NEW p \in Payments, PayLiquidAddress(p) PROVE IInv'
    BY <1>4, Beginning DEF PayLiquidAddress
  <1>5. QED
    BY <1>1, <1>2, <1>3, <1>4, HintStep, LookUpStep, CreateStep, StoreStep, PsetStep, FailStep, SwapStep DEF Next

(* It holds of every state payments can be in. *)
THEOREM PayInvHolds == Spec => []IInv
  BY PayInit, PayStep, PTL DEF Spec

(* What a client is given to sign pays a swap whose keys are stored for its
   invoice and that was not closed when it asked.  It refunds to the payer's
   account if the payment created the swap; if it found the swap open it refunds
   to whoever created that, and only if the payer had no earlier open one of its
   own, unless two payments were creating swaps for the invoice at once. *)
THEOREM SignableSwapIsAlwaysSound == Spec => []SignableSwapIsSound
  <1>1. IInv => SignableSwapIsSound
    <2> SUFFICES ASSUME IInv, NEW p \in Payments, At(p, "signable")
                 PROVE  /\ pay[p].swap # None => pay[p].swap \in Stored /\ row[pay[p].swap].invoice = pay[p].invoice
                        /\ pay[p].swap \notin pay[p].shut
                        /\ pay[p].swap # None /\ row[pay[p].swap].account # pay[p].account =>
                             /\ pay[p].found
                             /\ pay[p].invoice \in raced \/ \A s \in OpenRows(pay[p].invoice) :
                                  s < pay[p].swap => row[s].account # pay[p].account
      BY DEF SignableSwapIsSound, SignableIsRecoverable, ClosedSwapIsNotPaid, RefundGoesToCreator, Signable
    <2>1. pay[p] # None /\ pay[p] \in Payment /\ Well(pay[p]) /\ pay[p].at = "signable"
      BY DEF At, IInv, TypeOK, PlaceInv
    <2>2. pay[p].shut \subseteq Swaps /\ pay[p].invoice \in Invoices \cup {None} /\ pay[p].swap \in Swaps \cup {None}
      BY <2>1 DEF Payment
    <2>3. pay[p].swap # None =>
            /\ pay[p].swap \in Stored /\ row[pay[p].swap].invoice = pay[p].invoice /\ pay[p].swap \notin pay[p].shut
            /\ ~pay[p].found => row[pay[p].swap].account = pay[p].account
            /\ pay[p].found => pay[p].invoice # None
      BY <2>1 DEF Well, Tied, OnItsWay
    <2>4. pay[p].swap \notin pay[p].shut
      BY <2>2, <2>3, NoneAssumption
    <2>5. ASSUME pay[p].swap # None, pay[p].invoice \in Invoices \ raced, NEW s \in OpenRows(pay[p].invoice)
          PROVE  ~(s < pay[p].swap)
      <3>1. pay[p].swap <= s
        BY <2>3, <2>5 DEF IInv, RaceInv, Alone
      <3>2. QED
        BY <2>2, <2>5, <3>1 DEF Swaps, OpenRows, Stored
    <2>6. QED
      BY <2>2, <2>3, <2>4, <2>5
  <1>2. QED
    BY <1>1, PayInvHolds, PTL

(* However retries and other payers interleave, one invoice never has two open
   swaps, unless two payments were creating one at the same time. *)
THEOREM OneOpenSwapUnlessRaced == Spec => []OneOpenSwapPerInvoice
  <1>1. IInv => OneOpenSwapPerInvoice
    <2> SUFFICES ASSUME IInv, NEW i \in Invoices \ raced
                 PROVE  Cardinality(OpenRows(i)) <= 1
      BY DEF OneOpenSwapPerInvoice
    <2>1. \A s, t \in OpenRows(i) : s = t
      <3>1. \A s, t \in OpenRows(i) : s <= t
        BY DEF IInv, RaceInv, Alone, OpenRows
      <3>2. OpenRows(i) \subseteq Int
        BY DEF OpenRows, Stored, Swaps
      <3>3. QED
        BY <3>1, <3>2
    <2>2. CASE OpenRows(i) = {}
      BY <2>2, FS_EmptySet
    <2>3. CASE OpenRows(i) # {}
      <3>1. PICK s : OpenRows(i) = {s}
        BY <2>1, <2>3
      <3>2. Cardinality({s}) = 1
        BY FS_Singleton, Zenon
      <3>3. QED
        BY <3>1, <3>2
    <2>4. QED
      BY <2>2, <2>3
  <1>2. QED
    BY <1>1, PayInvHolds, PTL

(* Whichever way the floating point products fall, a payment locks what Boltz
   asks or one satoshi more, and past Boltz never more than the invoice. *)
THEOREM AlwaysPaysWhatIsDue == Spec => []PaysWhatIsDue
  <1>1. IInv => PaysWhatIsDue
    <2> SUFFICES ASSUME IInv, NEW p \in Payments, At(p, "signable")
                 PROVE  /\ pay[p].swap # None => pay[p].due = boltz[pay[p].swap].due
                        /\ pay[p].paid \in pay[p].due..(pay[p].due + 1)
                        /\ pay[p].invoice = None => pay[p].paid = pay[p].due
                        /\ pay[p].invoice \in Hinted => pay[p].paid <= InvoiceSats[pay[p].invoice]
      BY DEF PaysWhatIsDue, Signable
    <2>1. /\ pay[p] # None /\ pay[p].at = "signable" /\ Paid(pay[p])
      BY DEF At, IInv, PlaceInv, Well
    <2>2. PICK n \in Nat, k \in {-1, 0, 1} : n \in Sats /\ n = pay[p].due /\ k = Noise[n]
      BY <2>1, AmountAssumption DEF Paid
    <2>3. pay[p].paid = IF pay[p].invoice # None /\ k = 1 THEN n + 1 ELSE n
      BY <2>1, <2>2 DEF Paid, AmountOf, Ceil
    <2>4. ASSUME pay[p].invoice \in Hinted
          PROVE  pay[p].paid <= InvoiceSats[pay[p].invoice]
      <3>1. InvoiceSats[pay[p].invoice] \in Nat
        BY <2>4, HintedAssumption, AmountAssumption
      <3>2. n < InvoiceSats[pay[p].invoice] \/ (n = InvoiceSats[pay[p].invoice] /\ k < 1)
        BY <2>1, <2>2, <2>4 DEF Paid, Within
      <3>3. QED
        BY <2>2, <2>3, <3>1, <3>2
    <2>5. pay[p].swap # None => pay[p].due = boltz[pay[p].swap].due
      BY <2>1 DEF Paid
    <2>6. QED
      BY <2>2, <2>3, <2>4, <2>5
  <1>2. QED
    BY <1>1, PayInvHolds, PTL

-----------------------------------------------------------------------------
(* SideShift.  Its definitions come through S, and its variables are those of *)
(* MCPay.  The inductive invariant.                                           *)

(* Quotes and shifts are numbered in order. *)
ShiftNumberInv == /\ \E n \in 0..MaxQuotes : S!Given = 1..n
                  /\ \E n \in 0..MaxShifts : S!Shifted = 1..n

(* Where a request is says what it is for, and what has been done for it. *)
Asked(x) ==
  /\ x.at \in {"allow", "ask", "save", "read", "post"} => x.shift = None
  /\ x.at \in {"ask", "save"} => x.for = "quote"
  /\ x.at = "read" => x.for = "fixed"
  /\ x.at \in {"post", "store"} => x.for \in {"fixed", "variable"}
  /\ x.at = "pset" => x.for = "fixed"
  /\ x.for = "fixed" \/ x.at = "save" => x.quote \in S!Given
  /\ x.for = "variable" => x.quote = None
Posted(x) ==
  /\ x.shift # None => x.shift \in S!Shifted
  /\ x.at \in {"store", "pset"} => x.shift # None
  /\ x.at \in {"pset", "answered"} /\ x.shift # None => x.shift \in shiftRow
  /\ x.at \in {"store", "pset", "answered"} /\ x.for = "fixed" =>
       /\ x.shift # None /\ shift[x.shift].quote = x.quote
       /\ shift[x.shift].deposit = quote[x.quote].deposit
  /\ x.at = "answered" /\ x.for = "fixed" => x.paid = shift[x.shift].deposit
ShiftPlaceInv == \A r \in Requests : req[r] # None => Asked(req[r]) /\ Posted(req[r])

(* A shift is one request's. *)
ShiftOwnerInv ==
  \A r, t \in Requests : req[r] # None /\ req[t] # None /\ r # t /\ req[r].shift # None
                           => req[t].shift # req[r].shift

ShiftInv == S!TypeOK /\ ShiftNumberInv /\ ShiftPlaceInv /\ ShiftOwnerInv

-----------------------------------------------------------------------------
(* Quotes keep their deposit, and shifts and rows stay. *)
ShiftKeeps ==
  /\ \A q \in S!Given : q \in S!Given' /\ quote'[q].deposit = quote[q].deposit
  /\ \A s \in S!Shifted : s \in S!Shifted' /\ shift'[s] = shift[s]
  /\ shiftRow \subseteq shiftRow'

(* What is known of a request is not disturbed while quotes, shifts and rows
   only grow. *)
LEMMA RequestKept ==
  ASSUME ShiftInv, ShiftKeeps, NEW x \in S!Request, Asked(x), Posted(x)
  PROVE  Asked(x)' /\ Posted(x)'
  <1>1. Asked(x)'
    BY DEF ShiftKeeps, Asked
  <1>2. x.shift # None => x.shift \in S!Shifted
    BY DEF Posted
  <1>3. x.for = "fixed" => x.quote \in S!Given
    BY DEF Asked
  <1>4. Posted(x)'
    BY <1>2, <1>3 DEF ShiftKeeps, Posted
  <1>5. QED
    BY <1>1, <1>4

(* One request moves, with the shift it had or a new one; the rest wait. *)
LEMMA RequestMoves ==
  ASSUME ShiftInv, ShiftKeeps, NEW r \in Requests, NEW x \in S!Request \cup {None},
         req' = [req EXCEPT ![r] = x],
         x # None => Asked(x)' /\ Posted(x)',
         x # None /\ x.shift # None =>
           (req[r] # None /\ x.shift = req[r].shift) \/ x.shift \notin S!Shifted
  PROVE  req' \in [Requests -> S!Request \cup {None}] /\ ShiftPlaceInv' /\ ShiftOwnerInv'
  <1>1. /\ req' \in [Requests -> S!Request \cup {None}]
        /\ req'[r] = x /\ \A t \in Requests \ {r} : req'[t] = req[t]
    BY DEF ShiftInv, S!TypeOK
  <1>2. ASSUME NEW t \in Requests, t # r, req'[t] # None
        PROVE  Asked(req[t])' /\ Posted(req[t])'
    <2>1. PICK y \in S!Request : req[t] = y /\ req'[t] = y /\ Asked(y) /\ Posted(y)
      BY <1>1, <1>2 DEF ShiftInv, S!TypeOK, ShiftPlaceInv
    <2>2. Asked(y)' /\ Posted(y)'
      BY <2>1, RequestKept
    <2>3. QED
      BY <2>1, <2>2
  <1>3. ShiftPlaceInv'
    BY <1>1, <1>2 DEF ShiftPlaceInv
  <1>4. \A t \in Requests : req[t] # None /\ req[t].shift # None => req[t].shift \in S!Shifted
    BY DEF ShiftInv, ShiftPlaceInv, Posted
  <1>5. ShiftOwnerInv'
    BY <1>1, <1>4 DEF ShiftInv, ShiftOwnerInv
  <1>6. QED
    BY <1>1, <1>3, <1>5

(* A step that leaves quotes and shifts as they are. *)
LEMMA ShiftGoing ==
  ASSUME ShiftInv, NEW r \in Requests, NEW x \in S!Request \cup {None},
         req' = [req EXCEPT ![r] = x], UNCHANGED <<quote, shift, shiftRow>>,
         x # None => Asked(x) /\ Posted(x),
         x # None /\ x.shift # None => req[r] # None /\ x.shift = req[r].shift
  PROVE  req' \in [Requests -> S!Request \cup {None}]
         /\ ShiftNumberInv' /\ ShiftPlaceInv' /\ ShiftOwnerInv'
  <1>1. S!Given' = S!Given /\ S!Shifted' = S!Shifted
    BY DEF S!Given, S!Shifted
  <1>2. ShiftKeeps
    BY <1>1 DEF ShiftKeeps
  <1>3. x # None => Asked(x)' /\ Posted(x)'
    BY <1>2, RequestKept
  <1>4. ShiftNumberInv'
    BY <1>1 DEF ShiftInv, ShiftNumberInv
  <1>5. QED
    BY <1>2, <1>3, <1>4, RequestMoves

(* What is known of a request in flight. *)
LEMMA ShiftRequest ==
  ASSUME ShiftInv, NEW r \in Requests, req[r] # None
  PROVE  req[r] \in S!Request /\ Asked(req[r]) /\ Posted(req[r])
  BY DEF ShiftInv, S!TypeOK, ShiftPlaceInv

(* What S!Go and S!Stop make of a request. *)
LEMMA ShiftGo ==
  ASSUME ShiftInv, NEW r \in Requests, req[r] # None,
         NEW at \in {"allow", "ask", "save", "read", "post", "store", "pset", "answered"}, S!Go(r, at)
  PROVE  \E x \in S!Request :
           /\ req' = [req EXCEPT ![r] = x]
           /\ x.at = at /\ x.for = req[r].for /\ x.quote = req[r].quote /\ x.shift = req[r].shift
           /\ x.paid = req[r].paid
  <1> DEFINE x == [req[r] EXCEPT !.at = at]
  <1>1. req[r] \in S!Request
    BY DEF ShiftInv, S!TypeOK
  <1>2. x \in S!Request /\ x.at = at /\ x.for = req[r].for /\ x.quote = req[r].quote /\ x.shift = req[r].shift
        /\ x.paid = req[r].paid
    BY <1>1 DEF S!Request
  <1>3. req' = [req EXCEPT ![r] = x]
    BY DEF S!Go, ShiftInv, S!TypeOK
  <1> HIDE DEF x
  <1>4. QED
    BY <1>2, <1>3

(* No quote and no shift is made. *)
THEOREM ShiftInit == S!Init => ShiftInv
  <1> SUFFICES ASSUME S!Init PROVE ShiftInv
    OBVIOUS
  <1>1. S!TypeOK
    BY BoundsAssumption, ShiftAssumption DEF S!Init, S!TypeOK
  <1>2. S!Given = {} /\ S!Shifted = {}
    BY DEF S!Init, S!Given, S!Shifted
  <1>3. ShiftNumberInv
    BY <1>2, ShiftAssumption DEF ShiftNumberInv
  <1>4. ShiftPlaceInv /\ ShiftOwnerInv
    BY DEF S!Init, ShiftPlaceInv, ShiftOwnerInv
  <1>5. QED
    BY <1>1, <1>3, <1>4 DEF ShiftInv

(* The three mutations start with the permission of the user. *)
LEMMA ShiftBegin ==
  ASSUME ShiftInv, NEW r \in Requests,
         S!NetworkSwapQuote(r) \/ S!CreateOnchainAddressSwap(r) \/ S!NetworkSwap(r)
  PROVE  ShiftInv'
  <1>1. ASSUME NEW for \in {"quote", "fixed", "variable"}, NEW at \in {"allow", "read"},
               NEW q \in S!Quotes \cup {None}, S!Begin(r, for, at, q),
               for = "fixed" => q \in S!Given, for = "variable" => q = None, at = "read" => for = "fixed"
        PROVE  ShiftInv'
    <2>1. PICK i \in Ips : req' = [req EXCEPT ![r] = [at |-> at, ip |-> i, for |-> for, quote |-> q,
                                                      shift |-> None, paid |-> None]]
      BY <1>1 DEF S!Begin
    <2> DEFINE x == [at |-> at, ip |-> i, for |-> for, quote |-> q, shift |-> None, paid |-> None]
    <2>2. x \in S!Request /\ x.shift = None
      BY <1>1 DEF S!Request
    <2>3. Asked(x) /\ Posted(x)
      BY <1>1 DEF Asked, Posted
    <2> HIDE DEF x
    <2>4. req' = [req EXCEPT ![r] = x]
      BY <2>1 DEF x
    <2>5. UNCHANGED <<quote, shift, shiftRow, allowed, kept, saved, changes, shiftFaults>>
      BY <1>1 DEF S!Begin
    <2>6. req' \in [Requests -> S!Request \cup {None}]
          /\ ShiftNumberInv' /\ ShiftPlaceInv' /\ ShiftOwnerInv'
      BY <2>2, <2>3, <2>4, <2>5, ShiftGoing
    <2>7. QED
      BY <2>5, <2>6 DEF ShiftInv, S!TypeOK
  <1>2. CASE S!NetworkSwapQuote(r)
    BY <1>1, <1>2 DEF S!NetworkSwapQuote
  <1>3. CASE S!CreateOnchainAddressSwap(r)
    BY <1>1, <1>3 DEF S!CreateOnchainAddressSwap
  <1>4. CASE S!NetworkSwap(r)
    BY <1>1, <1>4 DEF S!NetworkSwap, S!Given
  <1>5. QED
    BY <1>2, <1>3, <1>4

(* The steps of a request that quote and shift nothing. *)
LEMMA ShiftReads ==
  ASSUME ShiftInv, NEW r \in Requests,
         S!ReadQuote(r) \/ S!IsAllowedToSwap(r) \/ S!SaveQuote(r) \/ S!RefuseShift(r) \/ S!Fail(r)
  PROVE  ShiftInv'
  <1>1. req[r] # None /\ UNCHANGED <<quote, shift, shiftRow>>
    BY DEF S!ReadQuote, S!IsAllowedToSwap, S!SaveQuote, S!RefuseShift, S!Fail, S!At
  <1>2. req[r] \in S!Request /\ Asked(req[r]) /\ Posted(req[r])
    BY <1>1, ShiftRequest
  <1>3. ASSUME S!Stop(r)
        PROVE  req' \in [Requests -> S!Request \cup {None}]
               /\ ShiftNumberInv' /\ ShiftPlaceInv' /\ ShiftOwnerInv'
    BY <1>1, <1>3, ShiftGoing DEF S!Stop
  <1>4. ASSUME NEW at \in {"allow", "ask", "post", "answered"}, S!Go(r, at),
               at = "allow" => req[r].at = "read",
               at \in {"ask", "post"} => req[r].at = "allow" /\ at = S!AfterCheck(r),
               at = "answered" => req[r].at = "save"
        PROVE  req' \in [Requests -> S!Request \cup {None}]
               /\ ShiftNumberInv' /\ ShiftPlaceInv' /\ ShiftOwnerInv'
    <2>1. PICK x \in S!Request :
            /\ req' = [req EXCEPT ![r] = x]
            /\ x.at = at /\ x.for = req[r].for /\ x.quote = req[r].quote /\ x.shift = req[r].shift
      BY <1>1, <1>4, ShiftGo
    <2>2. Asked(x) /\ Posted(x)
      BY <1>2, <1>4, <2>1 DEF Asked, Posted, S!AfterCheck, S!Request
    <2>3. QED
      BY <1>1, <2>1, <2>2, ShiftGoing
  <1>5. req' \in [Requests -> S!Request \cup {None}]
        /\ ShiftNumberInv' /\ ShiftPlaceInv' /\ ShiftOwnerInv'
    <2>1. CASE S!ReadQuote(r)
      BY <1>3, <1>4, <2>1 DEF S!ReadQuote, S!At
    <2>2. CASE S!IsAllowedToSwap(r)
      <3>1. S!Stop(r) \/ (req[r].at = "allow" /\ S!Go(r, S!AfterCheck(r)))
        BY <2>2 DEF S!IsAllowedToSwap, S!At
      <3>2. S!AfterCheck(r) \in {"ask", "post"}
        BY DEF S!AfterCheck
      <3>3. QED
        BY <1>3, <1>4, <3>1, <3>2
    <2>3. CASE S!SaveQuote(r)
      BY <1>4, <2>3 DEF S!SaveQuote, S!At
    <2>4. CASE S!RefuseShift(r) \/ S!Fail(r)
      BY <1>3, <2>4 DEF S!RefuseShift, S!Fail
    <2>5. QED
      BY <2>1, <2>2, <2>3, <2>4
  <1>6. /\ allowed' = allowed /\ changes' = changes
        /\ kept' \in [Ips -> {TRUE, FALSE, None}] /\ saved' \subseteq S!Quotes /\ shiftFaults' \in 0..MaxFaults
    <2>1. CASE S!ReadQuote(r) \/ S!RefuseShift(r)
      BY <2>1 DEF S!ReadQuote, S!RefuseShift, ShiftInv, S!TypeOK
    <2>2. CASE S!IsAllowedToSwap(r)
      <3>1. req[r].ip \in Ips
        BY <1>2 DEF S!Request
      <3>2. kept' = kept \/ kept' = [kept EXCEPT ![req[r].ip] = allowed[req[r].ip]]
        BY <2>2 DEF S!IsAllowedToSwap
      <3>3. kept' \in [Ips -> {TRUE, FALSE, None}]
        <4>1. allowed[req[r].ip] \in {TRUE, FALSE, None}
          BY <3>1 DEF ShiftInv, S!TypeOK
        <4>2. QED
          BY <3>2, <4>1 DEF ShiftInv, S!TypeOK
      <3>4. shiftFaults' \in 0..MaxFaults
        <4>1. shiftFaults' = shiftFaults \/ (shiftFaults < MaxFaults /\ shiftFaults' = shiftFaults + 1)
          BY <2>2 DEF S!IsAllowedToSwap
        <4>2. QED
          BY <4>1, BoundsAssumption DEF ShiftInv, S!TypeOK
      <3>5. allowed' = allowed /\ changes' = changes /\ saved' = saved
        BY <2>2 DEF S!IsAllowedToSwap
      <3>6. QED
        BY <3>3, <3>4, <3>5 DEF ShiftInv, S!TypeOK
    <2>3. CASE S!SaveQuote(r)
      <3>1. req[r].quote \in S!Quotes
        BY <1>2, <2>3 DEF S!SaveQuote, S!At, Asked, S!Given
      <3>2. QED
        BY <2>3, <3>1 DEF S!SaveQuote, ShiftInv, S!TypeOK
    <2>4. CASE S!Fail(r)
      <3>1. shiftFaults' \in 0..MaxFaults
        BY <2>4, BoundsAssumption DEF S!Fail, ShiftInv, S!TypeOK
      <3>2. QED
        BY <2>4, <3>1 DEF S!Fail, ShiftInv, S!TypeOK
    <2>5. QED
      BY <2>1, <2>2, <2>3, <2>4
  <1>7. QED
    BY <1>1, <1>5, <1>6 DEF ShiftInv, S!TypeOK

(* The cardinality that SideShift counts with is the one the library speaks of. *)
LEMMA SameCardinality == \A X : S!Cardinality(X) = Cardinality(X)
  BY DEF S!Cardinality, Cardinality

(* While the bound allows a quote, the next one is not taken. *)
LEMMA NextQuoteIsNew ==
  ASSUME ShiftInv, Cardinality(S!Given) < MaxQuotes
  PROVE  \E q \in S!Quotes : q = Cardinality(S!Given) + 1 /\ q \notin S!Given /\ S!Given \cup {q} = 1..q
  <1>1. PICK n \in 0..MaxQuotes : S!Given = 1..n
    BY DEF ShiftInv, ShiftNumberInv
  <1>2. Cardinality(1..n) = n
    BY FS_Interval
  <1>3. QED
    BY <1>1, <1>2, ShiftAssumption DEF S!Quotes

(* While the bound allows a shift, the next one is not taken. *)
LEMMA NextShiftIsNew ==
  ASSUME ShiftInv, Cardinality(S!Shifted) < MaxShifts
  PROVE  \E s \in S!Shifts : s = Cardinality(S!Shifted) + 1 /\ s \notin S!Shifted /\ S!Shifted \cup {s} = 1..s
  <1>1. PICK n \in 0..MaxShifts : S!Shifted = 1..n
    BY DEF ShiftInv, ShiftNumberInv
  <1>2. Cardinality(1..n) = n
    BY FS_Interval
  <1>3. QED
    BY <1>1, <1>2, ShiftAssumption DEF S!Shifts

(* A quote is one SideShift gives to this account. *)
LEMMA ShiftGetQuote ==
  ASSUME ShiftInv, NEW r \in Requests, S!GetQuote(r)
  PROVE  ShiftInv'
  <1>1. PICK q \in S!Quotes, n \in Deposits :
          /\ q \notin S!Given /\ S!Given \cup {q} = 1..q
          /\ quote' = [quote EXCEPT ![q] = [deposit |-> n, good |-> TRUE]]
          /\ req' = [req EXCEPT ![r].at = "save", ![r].quote = q]
    <2>1. Cardinality(S!Given) < MaxQuotes
      BY SameCardinality DEF S!GetQuote
    <2>2. PICK q \in S!Quotes : q = Cardinality(S!Given) + 1 /\ q \notin S!Given /\ S!Given \cup {q} = 1..q
      BY <2>1, NextQuoteIsNew
    <2>3. PICK n \in Deposits : quote' = [quote EXCEPT ![q] = [deposit |-> n, good |-> TRUE]]
                               /\ req' = [req EXCEPT ![r].at = "save", ![r].quote = q]
      BY <2>2, SameCardinality DEF S!GetQuote
    <2>4. QED
      BY <2>2, <2>3
  <1>2. /\ req[r] # None /\ req[r].at = "ask"
        /\ UNCHANGED <<allowed, kept, saved, shift, shiftRow, changes, shiftFaults>>
    BY DEF S!GetQuote, S!At
  <1>3. req[r] \in S!Request /\ Asked(req[r]) /\ Posted(req[r])
    BY <1>2, ShiftRequest
  <1>4. [deposit |-> n, good |-> TRUE] \in S!Quote
    BY DEF S!Quote
  <1>5. /\ quote' \in [S!Quotes -> S!Quote \cup {None}] /\ quote'[q] # None
        /\ \A t \in S!Quotes \ {q} : quote'[t] = quote[t]
    BY <1>1, <1>4, ShiftAssumption DEF ShiftInv, S!TypeOK
  <1>6. S!Given' = 1..q /\ q \in S!Given' /\ S!Shifted' = S!Shifted
    <2>1. S!Given' = S!Given \cup {q}
      BY <1>1, <1>5 DEF S!Given
    <2>2. QED
      BY <1>1, <1>2, <2>1 DEF S!Shifted
  <1>7. ShiftKeeps
    BY <1>1, <1>2, <1>5, <1>6 DEF ShiftKeeps, S!Given
  <1>8. ShiftNumberInv'
    BY <1>6, ShiftAssumption DEF ShiftInv, ShiftNumberInv, S!Quotes
  <1>9. PICK x \in S!Request : /\ req' = [req EXCEPT ![r] = x]
                             /\ x.at = "save" /\ x.for = req[r].for /\ x.quote = q /\ x.shift = req[r].shift
    <2> DEFINE y == [req[r] EXCEPT !.at = "save", !.quote = q]
    <2>1. req' = [req EXCEPT ![r] = y]
      BY <1>1 DEF ShiftInv, S!TypeOK
    <2>2. y \in S!Request /\ y.at = "save" /\ y.for = req[r].for /\ y.quote = q /\ y.shift = req[r].shift
      BY <1>3 DEF S!Request
    <2> HIDE DEF y
    <2>3. QED
      BY <2>1, <2>2
  <1>10. x.for = "quote" /\ x.shift = None
    BY <1>2, <1>3, <1>9 DEF Asked
  <1>11. Asked(x)' /\ Posted(x)'
    BY <1>6, <1>9, <1>10 DEF Asked, Posted
  <1>12. req' \in [Requests -> S!Request \cup {None}] /\ ShiftPlaceInv' /\ ShiftOwnerInv'
    BY <1>7, <1>9, <1>10, <1>11, RequestMoves
  <1>13. QED
    BY <1>2, <1>5, <1>8, <1>12 DEF ShiftInv, S!TypeOK

(* A quote that lapses keeps its deposit. *)
LEMMA Lapsed ==
  ASSUME NEW q \in S!Quote
  PROVE  \E v \in S!Quote : v = [q EXCEPT !.good = FALSE] /\ v.deposit = q.deposit
  <1>1. [q EXCEPT !.good = FALSE] \in S!Quote /\ [q EXCEPT !.good = FALSE].deposit = q.deposit
    BY DEF S!Quote
  <1>2. QED
    BY <1>1

(* SideShift makes a new shift of the deposit it quoted. *)
LEMMA ShiftCreate ==
  ASSUME ShiftInv, NEW r \in Requests, S!CreateShift(r)
  PROVE  ShiftInv'
  <1>1. /\ req[r] # None /\ req[r].at = "post"
        /\ UNCHANGED <<allowed, kept, saved, shiftRow, changes, shiftFaults>>
    BY DEF S!CreateShift, S!At
  <1>2. req[r] \in S!Request /\ Asked(req[r]) /\ Posted(req[r])
    BY <1>1, ShiftRequest
  <1>3. PICK q \in S!Quotes \cup {None} : q = req[r].quote
    BY <1>2 DEF S!Request
  <1>4. PICK s \in S!Shifts : s = Cardinality(S!Shifted) + 1 /\ s \notin S!Shifted /\ S!Shifted \cup {s} = 1..s
    <2>1. Cardinality(S!Shifted) < MaxShifts
      BY SameCardinality DEF S!CreateShift
    <2>2. QED
      BY <2>1, NextShiftIsNew
  <1>5. req[r].for \in {"fixed", "variable"} /\ (q # None => req[r].for # "variable")
        /\ (req[r].for = "fixed" => q \in S!Given)
    BY <1>1, <1>2, <1>3 DEF Asked
  <1>6. q # None => q \in S!Given /\ quote[q] \in S!Quote
    BY <1>5 DEF S!Given, ShiftInv, S!TypeOK
  <1>7. PICK d \in Deposits \cup {None} : d = IF q = None THEN None ELSE quote[q].deposit
    BY <1>6 DEF S!Quote
  <1>8. /\ shift' = [shift EXCEPT ![s] = [kind |-> req[r].for, quote |-> q, deposit |-> d]]
        /\ quote' = IF q = None THEN quote ELSE [quote EXCEPT ![q].good = FALSE]
        /\ req' = [req EXCEPT ![r].at = "store", ![r].shift = s]
    BY <1>3, <1>4, <1>7, SameCardinality DEF S!CreateShift
  <1>9. PICK w \in S!Shift : w = [kind |-> req[r].for, quote |-> q, deposit |-> d]
    BY <1>5 DEF S!Shift
  <1>10. w.quote = q /\ w.deposit = d /\ w # None
    BY <1>9, ShiftAssumption
  <1>11. /\ shift' \in [S!Shifts -> S!Shift \cup {None}] /\ shift'[s] = w
         /\ \A t \in S!Shifts \ {s} : shift'[t] = shift[t]
    BY <1>8, <1>9 DEF ShiftInv, S!TypeOK
  <1>12. S!Shifted' = S!Shifted \cup {s}
    BY <1>10, <1>11 DEF S!Shifted
  <1>13. /\ quote' \in [S!Quotes -> S!Quote \cup {None}] /\ S!Given' = S!Given
         /\ \A t \in S!Given : quote'[t].deposit = quote[t].deposit
    <2>1. CASE q = None
      BY <1>8, <2>1 DEF S!Given, ShiftInv, S!TypeOK
    <2>2. CASE q # None
      <3>1. PICK v \in S!Quote : v = [quote[q] EXCEPT !.good = FALSE] /\ v.deposit = quote[q].deposit
        BY <1>6, <2>2, Lapsed
      <3>2. quote' = [quote EXCEPT ![q] = v]
        BY <1>6, <1>8, <2>2, <3>1 DEF ShiftInv, S!TypeOK
      <3>3. v # None /\ quote[q] # None
        BY <1>6, <2>2, <3>1, ShiftAssumption
      <3>4. QED
        BY <3>1, <3>2, <3>3 DEF S!Given, ShiftInv, S!TypeOK
    <2>3. QED
      BY <2>1, <2>2
  <1>14. ShiftKeeps
    BY <1>1, <1>4, <1>11, <1>12, <1>13 DEF ShiftKeeps, S!Shifted
  <1>15. ShiftNumberInv'
    BY <1>4, <1>12, <1>13, ShiftAssumption DEF ShiftInv, ShiftNumberInv, S!Shifts
  <1>16. PICK x \in S!Request : /\ req' = [req EXCEPT ![r] = x]
                              /\ x.at = "store" /\ x.for = req[r].for /\ x.quote = q /\ x.shift = s
    <2> DEFINE y == [req[r] EXCEPT !.at = "store", !.shift = s]
    <2>1. req' = [req EXCEPT ![r] = y]
      BY <1>8 DEF ShiftInv, S!TypeOK
    <2>2. y \in S!Request /\ y.at = "store" /\ y.for = req[r].for /\ y.quote = q /\ y.shift = s
      BY <1>2, <1>3 DEF S!Request
    <2> HIDE DEF y
    <2>3. QED
      BY <2>1, <2>2
  <1>17. Asked(x)'
    BY <1>2, <1>3, <1>5, <1>13, <1>16 DEF Asked
  <1>18. Posted(x)'
    <2>1. x.for = "fixed" => quote'[q].deposit = d
      BY <1>5, <1>7, <1>13, <1>16, ShiftAssumption DEF S!Given
    <2>2. s # None
      BY ShiftAssumption
    <2>3. QED
      BY <1>10, <1>11, <1>12, <1>16, <2>1, <2>2 DEF Posted
  <1>19. req' \in [Requests -> S!Request \cup {None}] /\ ShiftPlaceInv' /\ ShiftOwnerInv'
    BY <1>4, <1>14, <1>16, <1>17, <1>18, RequestMoves
  <1>20. QED
    BY <1>1, <1>11, <1>13, <1>15, <1>19 DEF ShiftInv, S!TypeOK

(* The row is written for the shift the request has made. *)
LEMMA ShiftStore ==
  ASSUME ShiftInv, NEW r \in Requests, S!StoreShift(r)
  PROVE  ShiftInv'
  <1>1. /\ req[r] # None /\ req[r].at = "store" /\ shiftRow' = shiftRow \cup {req[r].shift}
        /\ UNCHANGED <<allowed, kept, quote, saved, shift, changes, shiftFaults>>
        /\ S!Go(r, IF req[r].for = "fixed" THEN "pset" ELSE "answered")
    BY DEF S!StoreShift, S!At
  <1>2. req[r] \in S!Request /\ Asked(req[r]) /\ Posted(req[r])
    BY <1>1, ShiftRequest
  <1>3. PICK x \in S!Request :
          /\ req' = [req EXCEPT ![r] = x]
          /\ x.at = IF req[r].for = "fixed" THEN "pset" ELSE "answered"
          /\ x.for = req[r].for /\ x.quote = req[r].quote /\ x.shift = req[r].shift
    BY <1>1, ShiftGo
  <1>4. S!Given' = S!Given /\ S!Shifted' = S!Shifted
    BY <1>1 DEF S!Given, S!Shifted
  <1>5. ShiftKeeps /\ ShiftNumberInv'
    BY <1>1, <1>4 DEF ShiftKeeps, ShiftInv, ShiftNumberInv
  <1>6. Asked(x)' /\ Posted(x)'
    BY <1>1, <1>2, <1>3, <1>4 DEF Asked, Posted
  <1>7. req' \in [Requests -> S!Request \cup {None}] /\ ShiftPlaceInv' /\ ShiftOwnerInv'
    BY <1>1, <1>3, <1>5, <1>6, RequestMoves
  <1>8. shiftRow' \subseteq S!Shifts
    BY <1>1, <1>2 DEF Posted, S!Shifted, ShiftInv, S!TypeOK
  <1>9. QED
    BY <1>1, <1>5, <1>7, <1>8 DEF ShiftInv, S!TypeOK

(* The transaction pays the address and the amount of the shift. *)
LEMMA ShiftPay ==
  ASSUME ShiftInv, NEW r \in Requests, S!PayShift(r)
  PROVE  ShiftInv'
  <1>1. /\ req[r] # None /\ req[r].at = "pset"
        /\ UNCHANGED <<allowed, kept, quote, saved, shift, shiftRow, changes, shiftFaults>>
    BY DEF S!PayShift, S!At
  <1>2. req[r] \in S!Request /\ Asked(req[r]) /\ Posted(req[r])
    BY <1>1, ShiftRequest
  <1>3. PICK n \in Deposits : n = shift[req[r].shift].deposit
    <2>1. req[r].quote \in S!Given /\ shift[req[r].shift].deposit = quote[req[r].quote].deposit
      BY <1>1, <1>2 DEF Asked, Posted
    <2>2. quote[req[r].quote] \in S!Quote
      BY <2>1 DEF S!Given, ShiftInv, S!TypeOK
    <2>3. QED
      BY <2>1, <2>2 DEF S!Quote
  <1>4. req' \in [Requests -> S!Request \cup {None}]
        /\ ShiftNumberInv' /\ ShiftPlaceInv' /\ ShiftOwnerInv'
    <2>1. CASE n \notin Exact
      <3>1. req' = [req EXCEPT ![r] = None]
        BY <1>3, <2>1 DEF S!PayShift
      <3>2. QED
        BY <1>1, <3>1, ShiftGoing
    <2>2. CASE n \in Exact
      <3> DEFINE y == [req[r] EXCEPT !.at = "answered", !.paid = n]
      <3>1. req' = [req EXCEPT ![r] = y]
        BY <1>3, <2>2 DEF S!PayShift, ShiftInv, S!TypeOK
      <3>2. y \in S!Request /\ y.at = "answered" /\ y.for = req[r].for /\ y.quote = req[r].quote
            /\ y.shift = req[r].shift /\ y.paid = n
        BY <1>2 DEF S!Request
      <3> HIDE DEF y
      <3>3. Asked(y) /\ Posted(y)
        BY <1>1, <1>2, <1>3, <3>2 DEF Asked, Posted
      <3>4. QED
        BY <1>1, <3>1, <3>2, <3>3, ShiftGoing
    <2>3. QED
      BY <2>1, <2>2
  <1>5. QED
    BY <1>1, <1>4 DEF ShiftInv, S!TypeOK

(* SideShift's clock and mind, and Redis's. *)
LEMMA ShiftTime ==
  ASSUME ShiftInv,
         \/ \E i \in Ips : S!KeptExpires(i) \/ S!ChangeMind(i)
         \/ \E q \in S!Quotes : S!SavedExpires(q) \/ S!QuoteExpires(q)
  PROVE  ShiftInv'
  <1>1. req' = req /\ shift' = shift /\ shiftRow' = shiftRow /\ shiftFaults' = shiftFaults
    BY DEF S!KeptExpires, S!ChangeMind, S!SavedExpires, S!QuoteExpires
  <1>2. /\ quote' \in [S!Quotes -> S!Quote \cup {None}] /\ S!Given' = S!Given
        /\ \A t \in S!Given : quote'[t].deposit = quote[t].deposit
    <2>1. CASE quote' = quote
      BY <2>1 DEF S!Given, ShiftInv, S!TypeOK
    <2>2. CASE \E q \in S!Quotes : S!QuoteExpires(q)
      <3>0. PICK q \in S!Quotes : S!QuoteExpires(q)
        BY <2>2
      <3>1. quote[q] # None /\ quote[q] \in S!Quote
        BY <3>0 DEF S!QuoteExpires, ShiftInv, S!TypeOK
      <3>2. PICK v \in S!Quote : v = [quote[q] EXCEPT !.good = FALSE] /\ v.deposit = quote[q].deposit
        BY <3>1, Lapsed
      <3>3. quote' = [quote EXCEPT ![q] = v]
        BY <3>0, <3>2 DEF S!QuoteExpires, ShiftInv, S!TypeOK
      <3>4. v # None
        BY <3>2, ShiftAssumption
      <3>5. QED
        BY <3>1, <3>2, <3>3, <3>4 DEF S!Given, ShiftInv, S!TypeOK
    <2>3. QED
      BY <2>1, <2>2 DEF S!KeptExpires, S!ChangeMind, S!SavedExpires
  <1>3. /\ allowed' \in [Ips -> BOOLEAN] /\ kept' \in [Ips -> {TRUE, FALSE, None}]
        /\ saved' \subseteq S!Quotes /\ changes' \in 0..MaxChanges
    <2>1. CASE \E i \in Ips : S!KeptExpires(i)
      BY <2>1 DEF S!KeptExpires, ShiftInv, S!TypeOK
    <2>2. CASE \E i \in Ips : S!ChangeMind(i)
      <3>1. PICK i \in Ips : S!ChangeMind(i)
        BY <2>2
      <3>2. allowed' = [allowed EXCEPT ![i] = ~allowed[i]]
        BY <3>1, Zenon DEF S!ChangeMind
      <3>3. allowed' \in [Ips -> BOOLEAN]
        BY <3>2, Zenon DEF ShiftInv, S!TypeOK
      <3>4. changes' \in 0..MaxChanges /\ kept' = kept /\ saved' = saved
        BY <3>1, ShiftAssumption DEF S!ChangeMind, ShiftInv, S!TypeOK
      <3>5. QED
        BY <3>3, <3>4 DEF ShiftInv, S!TypeOK
    <2>3. CASE \E q \in S!Quotes : S!SavedExpires(q) \/ S!QuoteExpires(q)
      BY <2>3 DEF S!SavedExpires, S!QuoteExpires, ShiftInv, S!TypeOK
    <2>4. QED
      BY <2>1, <2>2, <2>3
  <1>4. S!Shifted' = S!Shifted
    BY <1>1 DEF S!Shifted
  <1>5. ShiftKeeps
    BY <1>1, <1>2, <1>4 DEF ShiftKeeps
  <1>6. ShiftNumberInv'
    BY <1>2, <1>4 DEF ShiftInv, ShiftNumberInv
  <1>7. ASSUME NEW r \in Requests, req[r] # None
        PROVE  Asked(req[r])' /\ Posted(req[r])'
    <2>1. PICK y \in S!Request : req[r] = y /\ Asked(y) /\ Posted(y)
      BY <1>7, ShiftRequest
    <2>2. Asked(y)' /\ Posted(y)'
      BY <1>5, <2>1, RequestKept
    <2>3. QED
      BY <1>1, <2>1, <2>2
  <1>8. ShiftPlaceInv' /\ ShiftOwnerInv'
    BY <1>1, <1>7 DEF ShiftInv, ShiftPlaceInv, ShiftOwnerInv
  <1>9. QED
    BY <1>1, <1>2, <1>3, <1>6, <1>8 DEF ShiftInv, S!TypeOK

(* Every step of SideShift keeps the invariant. *)
THEOREM ShiftStep == ShiftInv /\ [S!Next]_(S!vars) => ShiftInv'
  <1>1. ASSUME ShiftInv, UNCHANGED S!vars PROVE ShiftInv'
    BY <1>1 DEF S!vars, ShiftInv, S!TypeOK, ShiftNumberInv, ShiftPlaceInv, ShiftOwnerInv, Asked, Posted,
                S!Given, S!Shifted
  <1>2. QED
    BY <1>1, ShiftBegin, ShiftReads, ShiftGetQuote, ShiftCreate, ShiftStore, ShiftPay, ShiftTime DEF S!Next

(* It holds of every state the shifts can be in. *)
THEOREM ShiftInvHolds == S!Spec => []ShiftInv
  BY ShiftInit, ShiftStep, PTL DEF S!Spec

(* What a client is answered with is a shift with a row, its own, and for a quote
   a transaction of exactly the deposit quoted: whoever names the quote, however
   requests for it interleave, and whatever expires or fails on the way. *)
THEOREM AnsweredShiftIsAlwaysSound == S!Spec => []AnsweredShiftIsSound
  <1>1. ShiftInv => AnsweredShiftIsSound
    <2> SUFFICES ASSUME ShiftInv, NEW r \in Requests, S!At(r, "answered")
                 PROVE  /\ req[r].shift # None =>
                             /\ req[r].shift \in shiftRow
                             /\ \A t \in Requests \ {r} : req[t] = None \/ req[t].shift # req[r].shift
                        /\ req[r].for = "fixed" =>
                             /\ req[r].paid = quote[req[r].quote].deposit
                             /\ shift[req[r].shift].quote = req[r].quote
      BY DEF AnsweredShiftIsSound, S!AnsweredShiftIsSound, S!AnsweredShiftIsRecorded, S!PaysTheQuote
    <2>1. req[r] # None /\ req[r].at = "answered" /\ Posted(req[r])
      BY DEF S!At, ShiftInv, ShiftPlaceInv
    <2>2. QED
      BY <2>1 DEF Posted, ShiftInv, ShiftOwnerInv
  <1>2. QED
    BY <1>1, ShiftInvHolds, PTL

-----------------------------------------------------------------------------
(* Every execution of the two machines in one run is one of Pay and one of
   SideShift: what is proved of either holds of the run. *)
THEOREM RunOfBoth == MCSpec => Spec /\ S!Spec
  <1>1. MCInit => Init /\ S!Init
    BY DEF MCInit
  <1>2. [MCNext]_<<vars, shiftVars>> => [Next]_vars /\ [S!Next]_(S!vars)
    BY DEF MCNext, shiftVars, S!vars
  <1>3. QED
    BY <1>1, <1>2, PTL DEF MCSpec, Spec, S!Spec
=============================================================================
