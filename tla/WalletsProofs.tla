---------------------------- MODULE WalletsProofs ---------------------------
(* Proofs about WalletScan, for any requests, transactions and addresses, and *)
(* about Wallets, for any number of creations and any limit.                  *)
EXTENDS MCWallets, TLAPS, FiniteSetTheorems, SequenceTheorems

-----------------------------------------------------------------------------
(* The inductive invariant of WalletScan. *)

(* A list of deltas takes an empty wallet, without a gap, to what was on chain. *)
Fits(list) ==
  \A i \in DOMAIN list : /\ list[i].from < list[i].to /\ list[i].to <= Tip
                         /\ list[i].from = IF i = 1 THEN 0 ELSE list[i-1].to

CacheInv == cache # None => Fits(cache)

(* The index after the last one paid. *)
IsNext(i, n) == (\A j \in Paid(n) : j < i) /\ (i = 0 \/ i - 1 \in Paid(n))

(* There always is one: NextIndex is what it says. *)
ChainInv == \A n \in 0..Tip : \E i \in Index : IsNext(i, n)

(* What a request has read, and what it will write, is true of the chain. *)
Scans(x) ==
  /\ x.tip <= Tip /\ x.view <= Tip
  /\ x.at \in {"scan", "write"} => Fits(x.list) /\ x.view = Known(x.list)
  /\ x.at = "write" => x.view < x.target /\ x.target <= Tip /\ x.tip <= x.target
  /\ x.mode # "none" /\ x.at \in {"probe", "block", "answer"} => x.view >= x.tip

(* What a request that looks for an address knows of it. *)
Searches(x) ==
  /\ x.at \in {"probe", "block"} => x.goal \in AddressGoals
  /\ x.goal \in AddressGoals =>
       /\ x.mode # "none" /\ x.taken \subseteq blocked \cup Paid(x.tip)
       /\ x.at \in {"probe", "block", "answer"} => \A j \in Paid(x.view) : j < x.index
       /\ x.at \in {"block", "answer"} => x.index \notin x.taken

ReqInv == \A r \in Requests : req[r] # None => Scans(req[r]) /\ Searches(req[r])

IInv == TypeOK /\ CacheInv /\ ChainInv /\ ReqInv

-----------------------------------------------------------------------------
(* The chain and what is said of it. *)

LEMMA TipFacts ==
  ASSUME TypeOK
  PROVE  /\ Tip \in 0..MaxTxs /\ chain \in [1..Tip -> Index]
         /\ \A n \in 0..Tip : Paid(n) \subseteq Index /\ n \in Nat
  <1>1. Tip \in Nat /\ Tip <= MaxTxs /\ chain \in [1..Tip -> Index]
    BY DEF TypeOK, Tip
  <1>2. QED
    BY <1>1, BoundsAssumption DEF Paid

(* Transactions are only added. *)
Grows == Tip <= Tip' /\ \A i \in 1..Tip : chain'[i] = chain[i]

(* What the chain has paid up to a height does not change when it grows. *)
LEMMA PaidGrows ==
  ASSUME TypeOK, Grows, NEW n \in 0..Tip
  PROVE  Paid(n)' = Paid(n)
  BY TipFacts DEF Grows, Paid

(* A list of deltas that fits the chain goes on to fit it. *)
LEMMA FitsGrows ==
  ASSUME TypeOK, TypeOK', Grows, NEW list \in Seq(Delta), Fits(list)
  PROVE  Fits(list)'
  <1>1. Tip \in Nat /\ Tip' \in Nat /\ Tip <= Tip'
    BY TipFacts DEF Grows, TypeOK, Tip
  <1>2. ASSUME NEW i \in DOMAIN list
        PROVE  list[i].to <= Tip'
    <2>1. list[i] \in Delta
      BY DOMAIN list = 1..Len(list)
    <2>2. list[i].to \in Nat /\ list[i].to <= Tip
      BY <2>1 DEF Delta, Fits
    <2>3. QED
      BY <1>1, <2>2
  <1>3. QED
    BY <1>2 DEF Fits

(* NextIndex finds it. *)
LEMMA NextIndexIsNext ==
  ASSUME TypeOK, ChainInv, NEW n \in 0..Tip
  PROVE  NextIndex(n) \in Index /\ IsNext(NextIndex(n), n)
  <1>1. \E i \in Index : (\A j \in Paid(n) : j < i) /\ (i = 0 \/ i - 1 \in Paid(n))
    BY DEF ChainInv, IsNext
  <1>2. QED
    BY <1>1, Zenon DEF NextIndex, IsNext

(* How far a list of deltas leads, at most to the tip of the chain. *)
LEMMA KnownIs ==
  ASSUME TypeOK, NEW list \in Seq(Delta)
  PROVE  /\ Known(list) \in 0..MaxTxs
         /\ Fits(list) => Known(list) <= Tip
  <1>1. CASE list = <<>>
    BY <1>1, TipFacts, BoundsAssumption DEF Known
  <1>2. CASE list # <<>>
    <2>1. Len(list) \in DOMAIN list
      BY <1>2
    <2>2. list[Len(list)] \in Delta
      BY <2>1
    <2>3. QED
      BY <1>2, <2>1, <2>2 DEF Known, Fits, Delta
  <1>3. QED
    BY <1>1, <1>2

(* A delta made for the wallet that a list leads to extends it. *)
LEMMA FitsAppend ==
  ASSUME TypeOK, NEW list \in Seq(Delta), Fits(list), NEW to \in 0..MaxTxs, Known(list) < to, to <= Tip
  PROVE  /\ Append(list, [from |-> Known(list), to |-> to]) \in Seq(Delta)
         /\ Fits(Append(list, [from |-> Known(list), to |-> to]))
         /\ Known(Append(list, [from |-> Known(list), to |-> to])) = to
  <1> DEFINE d == [from |-> Known(list), to |-> to]
             new == Append(list, d)
  <1>1. d \in Delta /\ d.from = Known(list) /\ d.to = to
    BY KnownIs DEF Delta
  <1> HIDE DEF d
  <1>2. /\ new \in Seq(Delta) /\ Len(new) = Len(list) + 1 /\ new[Len(list) + 1] = d
        /\ \A i \in 1..Len(list) : new[i] = list[i]
    BY <1>1
  <1>3. Len(list) \in Nat /\ DOMAIN list = 1..Len(list) /\ DOMAIN new = 1..(Len(list) + 1)
    BY <1>2
  <1> HIDE DEF new
  <1>4. ASSUME NEW i \in DOMAIN new
        PROVE  /\ new[i].from < new[i].to /\ new[i].to <= Tip
               /\ new[i].from = IF i = 1 THEN 0 ELSE new[i-1].to
    <2>1. CASE i \in 1..Len(list)
      BY <1>2, <1>3, <2>1 DEF Fits
    <2>2. CASE i = Len(list) + 1
      <3>1. Known(list) = IF i = 1 THEN 0 ELSE new[i-1].to
        BY <1>2, <1>3, <2>2 DEF Known
      <3>2. QED
        BY <1>1, <1>2, <2>2, <3>1
    <2>3. QED
      BY <1>3, <2>1, <2>2
  <1>5. Fits(new)
    BY <1>4 DEF Fits
  <1>6. Known(new) = to
    BY <1>1, <1>2, <1>3 DEF Known
  <1>7. QED
    BY <1>2, <1>5, <1>6 DEF new, d

-----------------------------------------------------------------------------
(* What the steps have in common. *)

(* What a request knows stays true when the chain and the blocks only grow. *)
LEMMA Stays ==
  ASSUME TypeOK, TypeOK', Grows, blocked \subseteq blocked', NEW x \in Request, Scans(x), Searches(x)
  PROVE  Scans(x)' /\ Searches(x)'
  <1>1. x.tip \in 0..Tip /\ x.view \in 0..Tip /\ Tip \in Nat /\ Tip' \in Nat
    BY TipFacts DEF Scans, Request, TypeOK, Tip
  <1>2. Paid(x.tip)' = Paid(x.tip) /\ Paid(x.view)' = Paid(x.view)
    BY <1>1, PaidGrows
  <1>3. x.at \in {"scan", "write"} => Fits(x.list)'
    BY FitsGrows DEF Scans, Request
  <1>4. Scans(x)'
    BY <1>1, <1>3 DEF Scans, Grows, Request
  <1>5. Searches(x)'
    BY <1>2 DEF Searches
  <1>6. QED
    BY <1>4, <1>5

(* A request moves while the chain stands still. *)
LEMMA Moving ==
  ASSUME IInv, NEW r \in Requests, NEW x \in Request \cup {None}, Set(r, x),
         UNCHANGED <<chain, faults>> \/ (UNCHANGED chain /\ faults' \in 0..MaxFaults),
         blocked \subseteq blocked', blocked' \subseteq Index, scanLock' \in Requests \cup {None},
         cache' = None \/ cache' \in Seq(Delta),
         x # None => Scans(x) /\ Searches(x)
  PROVE  TypeOK' /\ ChainInv' /\ ReqInv' /\ req'[r] = x /\ (\A q \in Requests \ {r} : req'[q] = req[q])
  <1>1. /\ req' \in [Requests -> Request \cup {None}]
        /\ req'[r] = x /\ \A q \in Requests \ {r} : req'[q] = req[q]
    BY DEF IInv, TypeOK, Set
  <1>2. TypeOK'
    BY <1>1 DEF IInv, TypeOK, Tip
  <1>3. Grows /\ Tip' = Tip /\ \A n : Paid(n)' = Paid(n)
    BY TipFacts DEF IInv, Grows, Tip, Paid
  <1>4. ChainInv'
    BY <1>3 DEF IInv, ChainInv, IsNext
  <1>5. ASSUME NEW q \in Requests, req'[q] # None
        PROVE  Scans(req[q])' /\ Searches(req[q])'
    <2>1. PICK y \in Request : req'[q] = y /\ Scans(y) /\ Searches(y)
      BY <1>1, <1>5 DEF IInv, TypeOK, ReqInv
    <2>2. Scans(y)' /\ Searches(y)'
      BY <1>2, <1>3, <2>1, Stays DEF IInv
    <2>3. QED
      BY <2>1, <2>2
  <1>6. QED
    BY <1>1, <1>2, <1>4, <1>5 DEF ReqInv

(* So the invariant is kept, if the list is too. *)
LEMMA MovingOn ==
  ASSUME IInv, NEW r \in Requests, NEW x \in Request \cup {None}, Set(r, x), UNCHANGED <<chain, cache>>,
         faults' \in 0..MaxFaults, blocked \subseteq blocked', blocked' \subseteq Index, scanLock' \in Requests \cup {None},
         x # None => Scans(x) /\ Searches(x)
  PROVE  IInv'
  <1>1. TypeOK' /\ ChainInv' /\ ReqInv'
    BY Moving DEF IInv, TypeOK
  <1>2. Fits(cache)' <=> Fits(cache)
    BY DEF Fits, Tip
  <1>3. QED
    BY <1>1, <1>2 DEF IInv, CacheInv

(* What is known of a request in flight. *)
LEMMA RequestParts ==
  ASSUME IInv, NEW r \in Requests, req[r] # None
  PROVE  /\ req[r] \in Request /\ Scans(req[r]) /\ Searches(req[r])
         /\ req[r].list \in Seq(Delta) /\ req[r].view \in 0..MaxTxs /\ req[r].target \in 0..MaxTxs
         /\ req[r].index \in Index /\ req[r].tip \in 0..MaxTxs
         /\ req[r].view \in 0..Tip /\ req[r].tip \in 0..Tip
  BY TipFacts DEF IInv, TypeOK, ReqInv, Request, Scans

(* Nothing is paid, scanned, cached or blocked. *)
LEMMA ScanInit == Init => IInv
  <1> SUFFICES ASSUME Init PROVE IInv
    OBVIOUS
  <1>1. chain \in Seq(Index) /\ Tip = 0 /\ Tip <= MaxTxs
    BY BoundsAssumption DEF Init, Tip
  <1>2. TypeOK
    BY <1>1, BoundsAssumption DEF Init, TypeOK
  <1>3. ChainInv
    <2>1. \A n \in 0..Tip : Paid(n) = {}
      BY <1>1 DEF Paid
    <2>2. 0 \in Index
      BY BoundsAssumption DEF Index
    <2>3. QED
      BY <2>1, <2>2 DEF ChainInv, IsNext
  <1>4. QED
    BY <1>2, <1>3 DEF Init, IInv, CacheInv, ReqInv

-----------------------------------------------------------------------------
(* The steps of a request. *)

LEMMA Beginning ==
  ASSUME IInv, NEW r \in Requests, NEW goal \in Goals, NEW mode \in ModesOf(goal), Begin(r, goal, mode)
  PROVE  IInv'
  <1> DEFINE x == [goal |-> goal, mode |-> mode, at |-> "read", list |-> <<>>, view |-> 0, target |-> 0,
                   index |-> 0, tip |-> Tip,
                   taken |-> IF goal \in AddressGoals THEN blocked \cup Paid(Tip) ELSE {}]
  <1>1. Set(r, x) /\ UNCHANGED <<chain, cache, blocked, faults>> /\ scanLock' \in Requests \cup {None}
    BY DEF Begin, IInv, TypeOK
  <1>2. goal \in AllGoals /\ mode \in Modes /\ (goal \in AddressGoals => mode # "none")
    BY GoalsAssumption DEF AllGoals, ModesOf, Modes, AddressGoals
  <1>3. Tip \in 0..MaxTxs /\ Paid(Tip) \subseteq Index /\ blocked \subseteq Index /\ 0 \in Index /\ 0 \in 0..MaxTxs
        /\ <<>> \in Seq(Delta)
    BY TipFacts, BoundsAssumption DEF IInv, TypeOK, Index
  <1>4. x \in Request
    BY <1>2, <1>3 DEF Request
  <1>5. Scans(x) /\ Searches(x)
    BY <1>2, <1>3 DEF Scans, Searches
  <1> HIDE DEF x
  <1>6. QED
    BY <1>1, <1>4, <1>5, MovingOn DEF IInv, TypeOK

(* The list is read, the one of the cache at that moment. *)
LEMMA Reading == ASSUME IInv, NEW r \in Requests, ReadCache(r) PROVE IInv'
  <1> DEFINE list == IF req[r].mode = "full" \/ cache = None THEN <<>> ELSE cache
             x == [req[r] EXCEPT !.at = "scan", !.list = list, !.view = Known(list)]
  <1>1. req[r] # None /\ req[r].at = "read" /\ Set(r, x) /\ UNCHANGED <<chain, cache, blocked, scanLock, faults>>
    BY DEF ReadCache, At
  <1>2. req[r] \in Request /\ Scans(req[r]) /\ Searches(req[r])
    BY <1>1, RequestParts
  <1>3. list \in Seq(Delta) /\ Fits(list)
    <2>1. Fits(<<>>)
      BY DEF Fits
    <2>2. QED
      BY <2>1 DEF IInv, TypeOK, CacheInv
  <1> HIDE DEF list
  <1>4. Known(list) \in 0..MaxTxs /\ Known(list) <= Tip
    BY <1>3, KnownIs DEF IInv
  <1>5. x \in Request
    BY <1>2, <1>3, <1>4 DEF Request
  <1>6. /\ x.at = "scan" /\ x.list = list /\ x.view = Known(list) /\ x.tip = req[r].tip
        /\ x.goal = req[r].goal /\ x.mode = req[r].mode /\ x.taken = req[r].taken
    BY <1>2 DEF Request
  <1> HIDE DEF x
  <1>7. Scans(x) /\ Searches(x)
    BY <1>2, <1>3, <1>4, <1>6 DEF Scans, Searches
  <1>8. QED
    BY <1>1, <1>5, <1>7, MovingOn DEF IInv, TypeOK

(* What follows the updated wallet knows as much as the scan found. *)
LEMMA ScannedKnows ==
  ASSUME IInv, NEW x \in Request, Scans(x), Searches(x), NEW view \in 0..Tip,
         x.mode # "none" => x.tip <= view
  PROVE  Scanned(x, view) \in Request /\ Scans(Scanned(x, view)) /\ Searches(Scanned(x, view))
  <1> DEFINE known == [x EXCEPT !.view = view, !.list = <<>>, !.target = 0]
             n == NextIndex(view)
  <1>1. view \in 0..MaxTxs /\ 0 \in 0..MaxTxs /\ <<>> \in Seq(Delta) /\ view <= Tip /\ view \in Nat
    BY TipFacts, BoundsAssumption DEF IInv
  <1>2. n \in Index /\ \A j \in Paid(view) : j < n
    BY NextIndexIsNext DEF IInv, IsNext
  <1> HIDE DEF n
  <1>3. known \in Request
    BY <1>1 DEF Request
  <1>4. /\ known.view = view /\ known.goal = x.goal /\ known.mode = x.mode /\ known.tip = x.tip
        /\ known.taken = x.taken
    BY DEF Request
  <1> HIDE DEF known
  <1>5. CASE x.goal \in AddressGoals
    <2> DEFINE y == [known EXCEPT !.at = "probe", !.index = n]
    <2>1. Scanned(x, view) = y
      BY <1>5 DEF Scanned, known, n
    <2>2. y \in Request
      BY <1>2, <1>3 DEF Request
    <2>3. /\ y.at = "probe" /\ y.index = n /\ y.view = view /\ y.goal = x.goal /\ y.mode = x.mode
          /\ y.tip = x.tip /\ y.taken = x.taken
      BY <1>3, <1>4 DEF Request
    <2> HIDE DEF y
    <2>4. Scans(y) /\ Searches(y)
      BY <1>1, <1>2, <1>5, <2>3 DEF Scans, Searches, Request
    <2>5. QED
      BY <2>1, <2>2, <2>4
  <1>6. CASE x.goal \notin AddressGoals
    <2> DEFINE y == [known EXCEPT !.at = "answer"]
    <2>1. Scanned(x, view) = y
      BY <1>6 DEF Scanned, known
    <2>2. y \in Request
      BY <1>3 DEF Request
    <2>3. /\ y.at = "answer" /\ y.view = view /\ y.goal = x.goal /\ y.mode = x.mode
          /\ y.tip = x.tip /\ y.taken = x.taken
      BY <1>3, <1>4 DEF Request
    <2> HIDE DEF y
    <2>4. Scans(y) /\ Searches(y)
      BY <1>1, <1>6, <2>3 DEF Scans, Searches, Request
    <2>5. QED
      BY <2>1, <2>2, <2>4
  <1>7. QED
    BY <1>5, <1>6

(* The list is replayed and the chain scanned on from there. *)
LEMMA Scanning == ASSUME IInv, NEW r \in Requests, Scan(r) PROVE IInv'
  <1> DEFINE known == req[r].view
  <1>1. /\ req[r] # None /\ req[r].at = "scan" /\ UNCHANGED <<chain, cache, blocked, scanLock, faults>>
        /\ Set(r, IF (req[r].mode = "none" /\ req[r].list # <<>>) \/ Tip = known
                  THEN Scanned(req[r], known)
                  ELSE [req[r] EXCEPT !.at = "write", !.target = Tip])
    BY DEF Scan, At
  <1>2. /\ req[r] \in Request /\ Scans(req[r]) /\ Searches(req[r]) /\ known \in 0..Tip /\ req[r].tip \in 0..Tip
        /\ Tip \in 0..MaxTxs
    BY <1>1, RequestParts, TipFacts DEF IInv
  <1>3. CASE (req[r].mode = "none" /\ req[r].list # <<>>) \/ Tip = known
    <2>1. req[r].mode # "none" => req[r].tip <= known
      BY <1>2, <1>3
    <2>2. /\ Scanned(req[r], known) \in Request /\ Scans(Scanned(req[r], known))
          /\ Searches(Scanned(req[r], known))
      BY <1>2, <2>1, ScannedKnows
    <2>3. Set(r, Scanned(req[r], known))
      BY <1>1, <1>3
    <2>4. QED
      BY <1>1, <2>2, <2>3, MovingOn DEF IInv, TypeOK
  <1>4. CASE ~((req[r].mode = "none" /\ req[r].list # <<>>) \/ Tip = known)
    <2> DEFINE x == [req[r] EXCEPT !.at = "write", !.target = Tip]
    <2>1. x \in Request
      BY <1>2 DEF Request
    <2>2. /\ x.at = "write" /\ x.target = Tip /\ x.view = req[r].view /\ x.goal = req[r].goal /\ x.mode = req[r].mode
          /\ x.tip = req[r].tip /\ x.taken = req[r].taken /\ x.list = req[r].list
      BY <1>2 DEF Request
    <2>3. Set(r, x)
      BY <1>1, <1>4
    <2> HIDE DEF x
    <2>4. Scans(x) /\ Searches(x)
      BY <1>1, <1>2, <1>4, <2>2 DEF Scans, Searches
    <2>5. QED
      BY <1>1, <2>1, <2>3, <2>4, MovingOn DEF IInv, TypeOK
  <1>5. QED
    BY <1>3, <1>4

(* What is written is the list that was read, and the delta it was read for. *)
LEMMA Writing == ASSUME IInv, NEW r \in Requests, WriteCache(r) PROVE IInv'
  <1> DEFINE list == req[r].list
             to == req[r].target
  <1>1. /\ req[r] # None /\ req[r].at = "write" /\ UNCHANGED <<chain, blocked, scanLock, faults>>
        /\ cache' = Append(list, [from |-> req[r].view, to |-> to]) /\ Set(r, Scanned(req[r], to))
    BY DEF WriteCache, At
  <1>2. /\ req[r] \in Request /\ Scans(req[r]) /\ Searches(req[r])
        /\ list \in Seq(Delta) /\ to \in 0..MaxTxs /\ req[r].tip \in 0..Tip /\ Tip \in 0..MaxTxs
    BY <1>1, RequestParts, TipFacts DEF IInv
  <1>3. /\ Fits(list) /\ req[r].view = Known(list) /\ Known(list) < to /\ to <= Tip /\ to \in 0..Tip
        /\ req[r].tip <= to
    BY <1>1, <1>2 DEF Scans
  <1>4. cache' \in Seq(Delta) /\ Fits(Append(list, [from |-> Known(list), to |-> to]))
    BY <1>1, <1>2, <1>3, FitsAppend DEF IInv
  <1>5. /\ Scanned(req[r], to) \in Request /\ Scans(Scanned(req[r], to)) /\ Searches(Scanned(req[r], to))
    BY <1>2, <1>3, ScannedKnows
  <1>6. TypeOK' /\ ChainInv' /\ ReqInv'
    BY <1>1, <1>4, <1>5, Moving DEF IInv, TypeOK
  <1>7. PICK new : new = Append(list, [from |-> Known(list), to |-> to])
    OBVIOUS
  <1>8. cache' = new /\ Fits(new)
    BY <1>1, <1>3, <1>4, <1>7
  <1>9. Fits(new)'
    BY <1>1, <1>8 DEF Fits, Tip
  <1>10. CacheInv'
    BY <1>8, <1>9 DEF CacheInv
  <1>11. QED
    BY <1>6, <1>10 DEF IInv

(* An index that is not blocked is handed out: it is past all those paid. *)
LEMMA Probing == ASSUME IInv, NEW r \in Requests, Probe(r) PROVE IInv'
  <1> DEFINE i == req[r].index
  <1>1. req[r] # None /\ req[r].at = "probe" /\ UNCHANGED <<chain, cache, blocked, scanLock, faults>>
    BY DEF Probe, At
  <1>2. /\ req[r] \in Request /\ Scans(req[r]) /\ Searches(req[r]) /\ i \in Index /\ i \in Nat
        /\ req[r].view \in 0..Tip /\ req[r].tip \in 0..Tip
    BY <1>1, RequestParts, BoundsAssumption DEF Index
  <1>3. \A n \in 0..Tip : Paid(n) \subseteq Index
    BY TipFacts DEF IInv
  <1>4. CASE i \in blocked
    <2> DEFINE x == [req[r] EXCEPT !.index = i + 1]
    <2>1. i < MaxIndex /\ Set(r, x)
      BY <1>4 DEF Probe
    <2>2. i + 1 \in Index
      BY <1>2, <2>1, BoundsAssumption DEF Index
    <2>3. x \in Request
      BY <1>2, <2>2 DEF Request
    <2>4. /\ x.at = "probe" /\ x.index = i + 1 /\ x.view = req[r].view /\ x.goal = req[r].goal
          /\ x.mode = req[r].mode /\ x.tip = req[r].tip /\ x.taken = req[r].taken /\ x.list = req[r].list
      BY <1>1, <1>2 DEF Request
    <2> HIDE DEF x
    <2>5. \A j \in Paid(req[r].view) : j < i + 1
      BY <1>1, <1>2, <1>3 DEF Searches, Index
    <2>6. Scans(x) /\ Searches(x)
      BY <1>1, <1>2, <2>4, <2>5 DEF Scans, Searches
    <2>7. QED
      BY <1>1, <2>1, <2>3, <2>6, MovingOn DEF IInv, TypeOK
  <1>5. CASE i \notin blocked
    <2> DEFINE at == IF req[r].goal = "blockedAddress" THEN "block" ELSE "answer"
               x == [req[r] EXCEPT !.at = at]
    <2>1. Set(r, x) /\ at \in {"block", "answer"}
      BY <1>5 DEF Probe
    <2> HIDE DEF at
    <2>2. x \in Request
      BY <1>2, <2>1 DEF Request
    <2>3. /\ x.at = at /\ x.index = i /\ x.view = req[r].view /\ x.goal = req[r].goal
          /\ x.mode = req[r].mode /\ x.tip = req[r].tip /\ x.taken = req[r].taken /\ x.list = req[r].list
      BY <1>1, <1>2 DEF Request
    <2> HIDE DEF x
    <2>4. i \notin req[r].taken
      <3>1. Paid(req[r].tip) \subseteq Paid(req[r].view)
        BY <1>1, <1>2 DEF Scans, Searches, Paid
      <3>2. i \notin Paid(req[r].view)
        BY <1>1, <1>2 DEF Searches
      <3>3. QED
        BY <1>1, <1>2, <1>5, <3>1, <3>2 DEF Searches
    <2>5. Scans(x) /\ Searches(x)
      BY <1>1, <1>2, <2>1, <2>3, <2>4 DEF Scans, Searches
    <2>6. QED
      BY <1>1, <2>1, <2>2, <2>5, MovingOn DEF IInv, TypeOK
  <1>6. QED
    BY <1>4, <1>5

(* The address that was found free is blocked and handed out. *)
LEMMA Blocking == ASSUME IInv, NEW r \in Requests, Block(r) PROVE IInv'
  <1> DEFINE x == [req[r] EXCEPT !.at = "answer"]
  <1>1. /\ req[r] # None /\ req[r].at = "block" /\ UNCHANGED <<chain, cache, scanLock, faults>>
        /\ blocked' = blocked \cup {req[r].index} /\ Set(r, x)
    BY DEF Block, At
  <1>2. req[r] \in Request /\ Scans(req[r]) /\ Searches(req[r]) /\ req[r].index \in Index
    BY <1>1, RequestParts
  <1>3. x \in Request
    BY <1>2 DEF Request
  <1>4. /\ x.at = "answer" /\ x.index = req[r].index /\ x.view = req[r].view /\ x.goal = req[r].goal
        /\ x.mode = req[r].mode /\ x.tip = req[r].tip /\ x.taken = req[r].taken /\ x.list = req[r].list
    BY <1>1, <1>2 DEF Request
  <1> HIDE DEF x
  <1>5. Scans(x) /\ Searches(x)
    BY <1>1, <1>2, <1>4 DEF Scans, Searches
  <1>6. QED
    BY <1>1, <1>2, <1>3, <1>5, MovingOn DEF IInv, TypeOK

(* A request that answers or fails leaves cache and blocks alone. *)
LEMMA Leaving == ASSUME IInv, NEW r \in Requests, Answer(r) \/ Fail(r) PROVE IInv'
  <1>1. Set(r, None) /\ UNCHANGED <<chain, cache, blocked>> /\ scanLock' \in Requests \cup {None}
    BY DEF Answer, Fail, IInv, TypeOK
  <1>2. faults' \in 0..MaxFaults
    <2>1. faults' = faults \/ (faults < MaxFaults /\ faults' = faults + 1)
      BY DEF Answer, Fail
    <2>2. QED
      BY <2>1, BoundsAssumption DEF IInv, TypeOK
  <1>3. QED
    BY <1>1, <1>2, MovingOn DEF IInv, TypeOK

-----------------------------------------------------------------------------
(* The steps around them. *)

(* A payment is past the last one, or before it: there still is a next index. *)
LEMMA Receiving == ASSUME IInv, NEW i \in Index, Receive(i) PROVE IInv'
  <1>1. /\ Tip < MaxTxs /\ i < MaxIndex /\ chain' = Append(chain, i)
        /\ UNCHANGED <<cache, blocked, scanLock, req, faults>>
    BY DEF Receive
  <1>2. /\ chain' \in Seq(Index) /\ Tip' = Tip + 1 /\ Tip \in Nat /\ chain'[Tip + 1] = i
        /\ \A k \in 1..Tip : chain'[k] = chain[k]
    BY <1>1 DEF IInv, TypeOK, Tip
  <1>3. TypeOK'
    BY <1>1, <1>2, BoundsAssumption DEF IInv, TypeOK
  <1>4. Grows
    BY <1>2 DEF Grows
  <1>5. ChainInv'
    <2>1. ASSUME NEW n \in 0..Tip
          PROVE  \E j \in Index : IsNext(j, n)'
      BY <1>4, PaidGrows DEF IInv, ChainInv, IsNext
    <2>2. PICK j \in Index : IsNext(j, Tip)
      BY <1>2 DEF IInv, ChainInv
    <2>3. PICK m : m = Tip + 1
      OBVIOUS
    <2>4. i + 1 \in Index /\ i \in Nat /\ j \in Nat /\ Paid(Tip) \subseteq Nat
      BY <1>1, TipFacts, BoundsAssumption DEF Index, IInv
    <2>5. PICK k \in Index : (\A h \in Paid(Tip) \cup {i} : h < k) /\ (k = 0 \/ k - 1 \in Paid(Tip) \cup {i})
      <3>1. CASE i < j
        BY <2>2, <3>1 DEF IsNext
      <3>2. CASE j <= i
        <4>1. \A h \in Paid(Tip) \cup {i} : h < i + 1
          BY <2>2, <2>4, <3>2 DEF IsNext
        <4>2. (i + 1) - 1 \in Paid(Tip) \cup {i}
          BY <2>4
        <4>3. QED
          BY <2>4, <4>1, <4>2
      <3>3. QED
        BY <2>4, <3>1, <3>2
    <2>6. Paid(m)' = Paid(Tip) \cup {i}
      <3>1. 1..m = (1..Tip) \cup {m}
        BY <1>2, <2>3
      <3>2. {chain'[h] : h \in 1..m} = {chain[h] : h \in 1..Tip} \cup {i}
        BY <1>2, <2>3, <3>1
      <3>3. QED
        BY <3>2 DEF Paid
    <2>7. IsNext(k, m)'
      BY <2>5, <2>6 DEF IsNext
    <2>8. ASSUME NEW n \in 0..m
          PROVE  \E h \in Index : IsNext(h, n)'
      <3>1. CASE n = m
        BY <2>7, <3>1
      <3>2. CASE n # m
        <4>1. n \in 0..Tip
          BY <1>2, <2>3, <3>2
        <4>2. QED
          BY <2>1, <4>1
      <3>3. QED
        BY <3>1, <3>2
    <2>9. QED
      BY <1>2, <2>3, <2>8 DEF ChainInv
  <1>6. CacheInv'
    BY <1>1, <1>3, <1>4, FitsGrows DEF IInv, CacheInv, TypeOK
  <1>7. ReqInv'
    <2>1. ASSUME NEW q \in Requests, req'[q] # None
          PROVE  Scans(req[q])' /\ Searches(req[q])'
      <3>1. PICK y \in Request : req[q] = y /\ req'[q] = y /\ Scans(y) /\ Searches(y)
        BY <1>1, <2>1 DEF IInv, TypeOK, ReqInv
      <3>2. Scans(y)' /\ Searches(y)'
        BY <1>1, <1>3, <1>4, <3>1, Stays DEF IInv
      <3>3. QED
        BY <3>1, <3>2
    <2>2. QED
      BY <2>1 DEF ReqInv
  <1>8. QED
    BY <1>3, <1>5, <1>6, <1>7 DEF IInv

(* The cache and the scan lock may be gone at any moment. *)
LEMMA Losing == ASSUME IInv, CacheExpires \/ LoseScanLock PROVE IInv'
  <1>1. UNCHANGED <<chain, blocked, req>> /\ (cache' = cache \/ cache' = None) /\ scanLock' \in Requests \cup {None}
    BY DEF CacheExpires, LoseScanLock, IInv, TypeOK
  <1>2. faults' \in 0..MaxFaults
    <2>1. faults' = faults \/ (faults < MaxFaults /\ faults' = faults + 1)
      BY DEF CacheExpires, LoseScanLock
    <2>2. QED
      BY <2>1, BoundsAssumption DEF IInv, TypeOK
  <1>3. TypeOK'
    BY <1>1, <1>2 DEF IInv, TypeOK, Tip
  <1>4. Tip' = Tip /\ \A n : Paid(n)' = Paid(n)
    BY <1>1 DEF Tip, Paid
  <1>5. \A list : Fits(list)' <=> Fits(list)
    BY <1>4 DEF Fits
  <1>6. ChainInv' /\ CacheInv'
    BY <1>1, <1>4, <1>5 DEF IInv, ChainInv, IsNext, CacheInv
  <1>7. ReqInv'
    BY <1>1, <1>4, <1>5 DEF IInv, ReqInv, Scans, Searches
  <1>8. QED
    BY <1>3, <1>6, <1>7 DEF IInv

(* A block whose TTL is over frees its address for the next request. *)
LEMMA Unblocking == ASSUME IInv, NEW i \in Index, BlockExpires(i) PROVE IInv'
  <1>1. /\ blocked' = blocked \ {i} /\ UNCHANGED <<chain, cache, scanLock, faults>>
        /\ req' = [r \in Requests |-> IF req[r] # None /\ i \notin Paid(req[r].tip)
                                      THEN [req[r] EXCEPT !.taken = @ \ {i}] ELSE req[r]]
    BY DEF BlockExpires
  <1>2. Tip' = Tip /\ \A n : Paid(n)' = Paid(n)
    BY <1>1 DEF Tip, Paid
  <1>3. \A list : Fits(list)' <=> Fits(list)
    BY <1>2 DEF Fits
  <1>4. ASSUME NEW r \in Requests, req[r] # None
        PROVE  \E y \in Request : /\ req'[r] = y /\ Scans(y)' /\ Searches(y)'
    <2>1. PICK x \in Request : req[r] = x /\ Scans(x) /\ Searches(x)
      BY <1>4 DEF IInv, TypeOK, ReqInv
    <2>2. CASE i \in Paid(x.tip)
      <3>1. req'[r] = x
        BY <1>1, <2>1, <2>2
      <3>2. Scans(x)' /\ Searches(x)'
        BY <1>1, <1>2, <1>3, <2>1, <2>2 DEF Scans, Searches
      <3>3. QED
        BY <3>1, <3>2
    <2>3. CASE i \notin Paid(x.tip)
      <3>1. [x EXCEPT !.taken = x.taken \ {i}] \in Request
        BY DEF Request
      <3>2. PICK y \in Request : y = [x EXCEPT !.taken = x.taken \ {i}]
        BY <3>1
      <3>3. /\ y.taken = x.taken \ {i} /\ y.at = x.at /\ y.goal = x.goal /\ y.mode = x.mode /\ y.list = x.list
            /\ y.view = x.view /\ y.target = x.target /\ y.index = x.index /\ y.tip = x.tip
        BY <3>2 DEF Request
      <3>4. req'[r] = y
        BY <1>1, <1>4, <2>1, <2>3, <3>2
      <3>5. Scans(y)' /\ Searches(y)'
        BY <1>1, <1>2, <1>3, <2>1, <3>3 DEF Scans, Searches
      <3>6. QED
        BY <3>4, <3>5
    <2>4. QED
      BY <2>2, <2>3
  <1>5. \A r \in Requests : req[r] = None => req'[r] = None
    BY <1>1
  <1>6. TypeOK'
    <2>1. DOMAIN req' = Requests
      BY <1>1
    <2>2. req' \in [Requests -> Request \cup {None}]
      BY <1>1, <1>4, <1>5
    <2>3. QED
      BY <1>1, <2>2 DEF IInv, TypeOK, Tip
  <1>7. ReqInv'
    BY <1>4, <1>5 DEF ReqInv
  <1>8. ChainInv' /\ CacheInv'
    BY <1>1, <1>2, <1>3 DEF IInv, ChainInv, IsNext, CacheInv
  <1>9. QED
    BY <1>6, <1>7, <1>8 DEF IInv

-----------------------------------------------------------------------------
(* The theorems about WalletScan. *)

LEMMA ScanStep == IInv /\ [Next]_vars => IInv'
  <1> SUFFICES ASSUME IInv, [Next]_vars PROVE IInv'
    OBVIOUS
  <1>1. ASSUME NEW r \in Requests, Continue(r) PROVE IInv'
    <2>1. CASE ReadCache(r) \/ Scan(r)
      BY <2>1, Reading, Scanning
    <2>2. CASE WriteCache(r) \/ Probe(r)
      BY <2>2, Writing, Probing
    <2>3. CASE Block(r) \/ Answer(r)
      BY <2>3, Blocking, Leaving
    <2>4. QED
      BY <1>1, <2>1, <2>2, <2>3 DEF Continue
  <1>2. CASE UNCHANGED vars
    <2>1. Tip' = Tip /\ (\A n : Paid(n)' = Paid(n)) /\ UNCHANGED <<chain, cache, blocked, scanLock, req, faults>>
      BY <1>2 DEF vars, Tip, Paid
    <2>2. \A list : Fits(list)' <=> Fits(list)
      BY <2>1 DEF Fits
    <2>3. QED
      BY <2>1, <2>2 DEF IInv, TypeOK, CacheInv, ChainInv, IsNext, ReqInv, Scans, Searches
  <1>3. CASE Next
    BY <1>1, <1>3, Beginning, Leaving, Receiving, Unblocking, Losing DEF Next
  <1>4. QED
    BY <1>2, <1>3

(* It holds of every state the scans can be in. *)
LEMMA ScanInvHolds == Spec => []IInv
  BY ScanInit, ScanStep, PTL DEF Spec

(* The types of WalletScan's state are kept. *)
THEOREM TypeCorrect == Spec => []TypeOK
  <1>1. IInv => TypeOK
    BY DEF IInv
  <1>2. QED
    BY <1>1, ScanInvHolds, PTL

(* The list of updates in Redis always applies to an empty wallet, and whoever
   asks for a scan learns of every transaction that was there when it asked,
   however many requests read, scan and overwrite the list around each other. *)
THEOREM ScanAlwaysTellsTheTruth == Spec => []ScanTellsTheTruth
  <1>1. IInv => ScanTellsTheTruth
    <2> SUFFICES ASSUME IInv PROVE ScanTellsTheTruth
      OBVIOUS
    <2>1. DeltasFit
      BY DEF IInv, CacheInv, Fits, DeltasFit
    <2>2. ScanIsFresh
      BY DEF IInv, ReqInv, Scans, ScanIsFresh
    <2>3. QED
      BY <2>1, <2>2 DEF ScanTellsTheTruth
  <1>2. QED
    BY <1>1, ScanInvHolds, PTL

(* An address handed out was neither paid nor blocked when it was asked for. *)
THEOREM HandedOutAddressIsFree == Spec => []AddressIsFree
  <1>1. IInv => AddressIsFree
    BY DEF IInv, ReqInv, Searches, AddressIsFree
  <1>2. QED
    BY <1>1, ScanInvHolds, PTL

(* Only a scan that began before the list in Redis was complete takes knowledge
   back when it writes: a later one adds to it. *)
THEOREM KnowledgeAlwaysGrows == Spec => KnowledgeGrows
  <1> DEFINE Loses == cache # None /\ cache' # None /\ Known(cache') < Known(cache)
             Late == \E r \in Requests : At(r, "write") /\ req[r].tip < Known(cache)
  <1>1. IInv /\ [Next]_vars => (Loses => Late)
    <2> SUFFICES ASSUME IInv, [Next]_vars, Loses PROVE Late
      OBVIOUS
    <2>1. Known(cache) \in Nat
      BY KnownIs DEF IInv, TypeOK
    <2>2. cache' # cache
      BY <2>1
    <2>3. PICK r \in Requests : WriteCache(r)
      BY <2>2 DEF Next, vars, Continue, Begin, ReadCache, Scan, Probe, Block, Answer, Fail, Receive,
                  BlockExpires, CacheExpires, LoseScanLock
    <2>4. /\ At(r, "write")
          /\ cache' = Append(req[r].list, [from |-> req[r].view, to |-> req[r].target])
      BY <2>3 DEF WriteCache
    <2>5. /\ req[r].list \in Seq(Delta) /\ Fits(req[r].list) /\ req[r].view = Known(req[r].list)
          /\ req[r].target \in 0..MaxTxs /\ Known(req[r].list) < req[r].target /\ req[r].target <= Tip
          /\ req[r].tip <= req[r].target /\ req[r].tip \in 0..Tip
      BY <2>4, RequestParts DEF At, Scans
    <2>6. Known(Append(req[r].list, [from |-> Known(req[r].list), to |-> req[r].target])) = req[r].target
      BY <2>5, FitsAppend DEF IInv
    <2>7. Known(cache') = req[r].target
      BY <2>4, <2>5, <2>6
    <2>8. req[r].tip < Known(cache)
      BY <2>1, <2>5, <2>7, TipFacts DEF IInv
    <2>9. QED
      BY <2>4, <2>8
  <1>2. QED
    BY <1>1, ScanInvHolds, PTL DEF Spec, KnowledgeGrows

-----------------------------------------------------------------------------
(* The inductive invariant of Wallets. *)

Count == Cardinality(W!Created)

(* Wallets are numbered in the order of their rows. *)
NumberInv == Count \in 0..MaxWallets /\ W!Created = 1..Count

(* Requests that passed the limit, or that the signup made, and have no row yet. *)
Pending == {r \in Creations : creation[r] # None /\ creation[r].at \in {"name", "create"}}
LimitInv == Count + Cardinality(Pending) <= WALLET_LIMIT - 1 + Cardinality(Creations)

(* Creations that never raced are alone: their count and their name still hold. *)
Counted(r, x) ==
  /\ \A q \in Creations : creation[q] # None => q = r
  /\ x.at \in {"name", "create"} => Count < WALLET_LIMIT
  /\ x.at = "create" => x.name \in {0, Count + 1}
AloneInv ==
  ~raced => /\ Count <= WALLET_LIMIT
            /\ \A w \in W!Created : wallet[w].name \in {0, w}
            /\ \A r \in Creations : creation[r] # None => Counted(r, creation[r])

(* A request fills the wallet it made, which nobody was told of yet. *)
Fills(x) ==
  IF x.at \in {"fill", "mail"}
  THEN /\ x.id \in W!Created /\ wallet[x.id].accounts <= x.asked /\ (x.at = "mail" => wallet[x.id].accounts = x.asked)
       /\ \A y \in answered : y[1] # x.id
  ELSE x.id = None
FillInv ==
  /\ \A r \in Creations : creation[r] # None => Fills(creation[r])
  /\ \A r, q \in Creations : creation[r] # None /\ creation[q] # None /\ creation[r].id = creation[q].id
                               => r = q \/ creation[r].id = None

(* A wallet was told of, was left behind, or is being made. *)
DoneInv ==
  /\ \A y \in answered : y[1] \in W!Created /\ wallet[y[1]].accounts = y[2]
  /\ \A w \in W!Created : \/ w \in failedHalf
                          \/ \E y \in answered : y[1] = w
                          \/ \E r \in Creations : creation[r] # None /\ creation[r].id = w

WInv == W!TypeOK /\ NumberInv /\ LimitInv /\ AloneInv /\ FillInv /\ DoneInv

(* The instance counts as this module does. *)
LEMMA SameCardinality == \A X : W!Cardinality(X) = Cardinality(X)
  BY DEF W!Cardinality, Cardinality

(* The bounds the invariant gives on wallets and creations. *)
LEMMA WalletFacts ==
  ASSUME WInv
  PROVE  /\ Count \in Nat /\ Count <= MaxWallets /\ W!Created = 1..Count /\ W!Cardinality(W!Created) = Count
         /\ IsFiniteSet(Creations) /\ Cardinality(Creations) \in Nat
         /\ IsFiniteSet(Pending) /\ Cardinality(Pending) \in Nat /\ Cardinality(Pending) <= Cardinality(Creations)
         /\ Pending \subseteq Creations /\ MaxWallets \in Nat /\ WALLET_LIMIT \in Nat \ {0}
  <1>1. Pending \subseteq Creations
    BY DEF Pending
  <1>2. /\ IsFiniteSet(Pending) /\ Cardinality(Pending) <= Cardinality(Creations)
        /\ Cardinality(Creations) \in Nat /\ Cardinality(Pending) \in Nat
    BY <1>1, FS_Subset, FS_CardinalityType, CreationsAssumption
  <1>3. Count \in Nat /\ Count <= MaxWallets /\ W!Created = 1..Count
    BY CreationsAssumption DEF WInv, NumberInv
  <1>4. W!Cardinality(W!Created) = Count
    BY SameCardinality DEF Count
  <1>5. QED
    BY <1>1, <1>2, <1>3, <1>4, CreationsAssumption

(* What is known of a creation in flight. *)
LEMMA CreationParts ==
  ASSUME WInv, NEW r \in Creations, creation[r] # None
  PROVE  /\ creation[r] \in W!Request /\ Fills(creation[r])
         /\ ~raced => Counted(r, creation[r])
         /\ creation[r].id # None => \A q \in Creations : creation[q] # None /\ creation[q].id = creation[r].id => q = r
  BY DEF WInv, W!TypeOK, FillInv, AloneInv

(* A request takes its next step; the wallets stay what they are. *)
LEMMA Serving ==
  ASSUME WInv, NEW r \in Creations, NEW x \in W!Request \cup {None}, creation' = [creation EXCEPT ![r] = x],
         UNCHANGED <<wallet, answered>>, failedHalf \subseteq failedHalf', failedHalf' \subseteq W!Wallets,
         creationFaults' \in 0..MaxFaults, raced' \in BOOLEAN, raced => raced',
         x # None => Fills(x) /\ (x.id = None \/ (creation[r] # None /\ creation[r].id = x.id)),
         ~raced' /\ x # None => Counted(r, x),
         x # None /\ x.at \in {"name", "create"} => Count < WALLET_LIMIT \/ r \in Pending,
         creation[r] # None /\ creation[r].id # None
           => (x # None /\ x.id = creation[r].id) \/ creation[r].id \in failedHalf'
  PROVE  WInv'
  <1>1. /\ creation' \in [Creations -> W!Request \cup {None}]
        /\ creation'[r] = x /\ \A q \in Creations \ {r} : creation'[q] = creation[q]
    BY DEF WInv, W!TypeOK
  <1>2. W!TypeOK'
    BY <1>1 DEF WInv, W!TypeOK
  <1>3. W!Created' = W!Created /\ Count' = Count
    BY DEF W!Created, Count
  <1>4. NumberInv'
    BY <1>3 DEF WInv, NumberInv
  <1>5. LimitInv'
    <2>1. CASE r \in Pending \/ x = None \/ x.at \notin {"name", "create"}
      <3>1. Pending' \subseteq Pending
        BY <1>1, <2>1 DEF Pending
      <3>2. Cardinality(Pending') <= Cardinality(Pending) /\ Cardinality(Pending') \in Nat
        BY <3>1, WalletFacts, FS_Subset, FS_CardinalityType
      <3>3. QED
        BY <1>3, <3>2, WalletFacts DEF WInv, LimitInv
    <2>2. CASE Count < WALLET_LIMIT
      <3>1. Pending' \subseteq Creations
        BY DEF Pending
      <3>2. Cardinality(Pending') <= Cardinality(Creations) /\ Cardinality(Pending') \in Nat
        BY <3>1, WalletFacts, FS_Subset, FS_CardinalityType
      <3>3. QED
        BY <1>3, <2>2, <3>2, WalletFacts DEF LimitInv
    <2>3. QED
      BY <2>1, <2>2
  <1>6. AloneInv'
    <2> SUFFICES ASSUME ~raced' PROVE AloneInv'
      BY DEF AloneInv
    <2>1. /\ Count <= WALLET_LIMIT /\ ~raced
          /\ \A w \in W!Created : wallet[w].name \in {0, w}
      BY DEF WInv, AloneInv
    <2>2. ASSUME NEW q \in Creations, creation'[q] # None
          PROVE  Counted(q, creation[q])'
      <3>1. CASE q = r
        <4>1. Counted(r, x)
          BY <1>1, <2>2, <3>1
        <4>2. Counted(r, x)'
          BY <1>1, <1>3, <4>1 DEF Counted
        <4>3. QED
          BY <1>1, <3>1, <4>2 DEF Counted
      <3>2. CASE q # r
        <4>1. creation[q] # None /\ Counted(q, creation[q]) /\ x = None
          BY <1>1, <2>1, <2>2, <3>2, CreationParts DEF Counted
        <4>2. QED
          BY <1>1, <1>3, <3>2, <4>1 DEF Counted
      <3>3. QED
        BY <3>1, <3>2
    <2>3. QED
      BY <1>3, <2>1, <2>2 DEF AloneInv
  <1>7. FillInv'
    <2>1. ASSUME NEW q \in Creations, creation'[q] # None
          PROVE  Fills(creation[q])'
      <3>1. CASE q = r
        BY <1>1, <1>3, <2>1, <3>1 DEF Fills
      <3>2. CASE q # r
        BY <1>1, <1>3, <2>1, <3>2, CreationParts DEF Fills
      <3>3. QED
        BY <3>1, <3>2
    <2>2. ASSUME NEW p \in Creations, NEW q \in Creations, creation'[p] # None, creation'[q] # None,
                 creation'[p].id = creation'[q].id, p # q
          PROVE  creation'[p].id = None
      BY <1>1, <2>2 DEF WInv, FillInv
    <2>3. QED
      BY <2>1, <2>2 DEF FillInv
  <1>8. DoneInv'
    <2>1. ASSUME NEW w \in W!Created
          PROVE  \/ w \in failedHalf'
                 \/ \E y \in answered : y[1] = w
                 \/ \E q \in Creations : creation'[q] # None /\ creation'[q].id = w
      <3>1. CASE creation[r] # None /\ creation[r].id = w
        <4>1. w # None
          BY <2>1, CreationsAssumption DEF W!Created
        <4>2. QED
          BY <1>1, <3>1, <4>1
      <3>2. CASE ~(creation[r] # None /\ creation[r].id = w)
        BY <1>1, <2>1, <3>2 DEF WInv, DoneInv
      <3>3. QED
        BY <3>1, <3>2
    <2>2. QED
      BY <1>3, <2>1 DEF WInv, DoneInv
  <1>9. QED
    BY <1>2, <1>4, <1>5, <1>6, <1>7, <1>8 DEF WInv

(* There is no wallet and no creation. *)
LEMMA WalletsInit == W!Init => WInv
  <1> SUFFICES ASSUME W!Init PROVE WInv
    OBVIOUS
  <1>1. W!TypeOK
    <2>1. 0 \in 0..MaxFaults /\ {} \subseteq W!Wallets /\ {} \subseteq W!Wallets \X Nat
      BY BoundsAssumption
    <2>2. wallet \in [W!Wallets -> W!WalletRow \cup {None}] /\ creation \in [Creations -> W!Request \cup {None}]
      BY DEF W!Init
    <2>3. QED
      BY <2>1, <2>2 DEF W!Init, W!TypeOK
  <1>2. W!Created = {} /\ Count = 0 /\ W!Created = 1..0
    BY FS_EmptySet DEF W!Init, W!Created, Count
  <1>3. Pending = {} /\ Cardinality(Pending) = 0 /\ Cardinality(Creations) \in Nat
    BY FS_EmptySet, FS_CardinalityType, CreationsAssumption DEF W!Init, Pending
  <1>4. NumberInv /\ LimitInv
    BY <1>2, <1>3, CreationsAssumption DEF NumberInv, LimitInv
  <1>5. AloneInv /\ FillInv /\ DoneInv
    BY <1>2, CreationsAssumption DEF W!Init, AloneInv, FillInv, DoneInv
  <1>6. QED
    BY <1>1, <1>4, <1>5 DEF WInv

(* A creation starts, counted or, of a signup, not. *)
LEMMA Entering ==
  ASSUME WInv, NEW r \in Creations, W!FirstWallet(r) \/ W!CreateMutation(r)
  PROVE  WInv'
  <1>1. CASE W!FirstWallet(r)
    <2>1. /\ Count = 0 /\ \A q \in Creations : creation[q] = None
          /\ UNCHANGED <<wallet, raced, failedHalf, answered, creationFaults>>
      BY <1>1, FS_EmptySet DEF W!FirstWallet, W!InFlight, Count
    <2>2. PICK x \in W!Asked : creation' = [creation EXCEPT ![r] = x]
      BY <1>1 DEF W!FirstWallet
    <2>3. x \in W!Request /\ x.at = "name" /\ x.id = None
      <3>1. PICK n \in AccountsAsked, b \in BOOLEAN :
              x = [at |-> "name", asked |-> n, named |-> b, name |-> 0, id |-> None]
        BY DEF W!Asked
      <3>2. n \in Nat /\ 0 \in Nat /\ None \in W!Wallets \cup {None}
        BY CreationsAssumption
      <3>3. QED
        BY <3>1, <3>2 DEF W!Request
    <2>4. Fills(x) /\ Counted(r, x) /\ Count < WALLET_LIMIT
      BY <2>1, <2>3, CreationsAssumption DEF Fills, Counted
    <2>5. QED
      BY <2>1, <2>2, <2>3, <2>4, Serving DEF WInv, W!TypeOK
  <1>2. CASE W!CreateMutation(r)
    <2>1. PICK y \in W!Asked : creation' = [creation EXCEPT ![r] = [y EXCEPT !.at = "count"]]
      BY <1>2 DEF W!CreateMutation
    <2>2. [y EXCEPT !.at = "count"] \in W!Request
      BY CreationsAssumption DEF W!Asked, W!Request
    <2>3. PICK x \in W!Request : x = [y EXCEPT !.at = "count"]
      BY <2>2
    <2>4. x.at = "count" /\ x.id = None
      BY <2>3 DEF W!Asked
    <2>5. /\ creation[r] = None /\ creation' = [creation EXCEPT ![r] = x]
          /\ UNCHANGED <<wallet, failedHalf, answered, creationFaults>>
      BY <1>2, <2>1, <2>3 DEF W!CreateMutation
    <2>6. raced' \in BOOLEAN /\ (raced => raced')
      BY <1>2, Zenon DEF W!CreateMutation, WInv, W!TypeOK
    <2>7. ~raced' => \A q \in Creations : creation[q] = None
      BY <1>2 DEF W!CreateMutation, W!InFlight
    <2>8. Fills(x) /\ (~raced' => Counted(r, x))
      BY <2>4, <2>7 DEF Fills, Counted
    <2>9. QED
      BY <2>4, <2>5, <2>6, <2>8, Serving DEF WInv, W!TypeOK
  <1>3. QED
    BY <1>1, <1>2

(* The wallets are counted before one is created. *)
LEMMA Counting == ASSUME WInv, NEW r \in Creations, W!CountWallets(r) PROVE WInv'
  <1>1. /\ creation[r] # None /\ creation[r].at = "count" /\ UNCHANGED <<wallet, raced, failedHalf, answered, creationFaults>>
        /\ creation' = [creation EXCEPT ![r] = IF Count >= WALLET_LIMIT THEN None
                                               ELSE [creation[r] EXCEPT !.at = "name"]]
    BY WalletFacts DEF W!CountWallets, W!At
  <1>2. creation[r] \in W!Request /\ Fills(creation[r]) /\ (~raced => Counted(r, creation[r])) /\ creation[r].id = None
    BY <1>1, CreationParts DEF Fills
  <1>3. CASE Count >= WALLET_LIMIT
    BY <1>1, <1>2, <1>3, Serving DEF WInv, W!TypeOK
  <1>4. CASE Count < WALLET_LIMIT
    <2>1. [creation[r] EXCEPT !.at = "name"] \in W!Request
      BY <1>2 DEF W!Request
    <2>2. PICK x \in W!Request : x = [creation[r] EXCEPT !.at = "name"]
      BY <2>1
    <2>3. x.at = "name" /\ x.id = None
      BY <1>2, <2>2 DEF W!Request
    <2>4. creation' = [creation EXCEPT ![r] = x]
      <3>1. ~(Count >= WALLET_LIMIT)
        BY <1>4, WalletFacts
      <3>2. QED
        BY <1>1, <2>2, <3>1
    <2>5. Fills(x) /\ (~raced => Counted(r, x))
      BY <1>2, <1>4, <2>3 DEF Fills, Counted
    <2>6. QED
      BY <1>1, <1>2, <1>4, <2>3, <2>4, <2>5, Serving DEF WInv, W!TypeOK
  <1>5. QED
    BY <1>3, <1>4, WalletFacts

(* The default name is the one after those that were counted. *)
LEMMA Naming == ASSUME WInv, NEW r \in Creations, W!ChooseName(r) PROVE WInv'
  <1> DEFINE name == IF creation[r].named THEN 0 ELSE Count + 1
  <1>1. /\ creation[r] # None /\ creation[r].at = "name" /\ UNCHANGED <<wallet, raced, failedHalf, answered, creationFaults>>
        /\ creation' = [creation EXCEPT ![r].at = "create", ![r].name = name]
    BY WalletFacts DEF W!ChooseName, W!At
  <1>2. creation[r] \in W!Request /\ Fills(creation[r]) /\ (~raced => Counted(r, creation[r])) /\ creation[r].id = None
    BY <1>1, CreationParts DEF Fills
  <1>3. name \in Nat /\ name \in {0, Count + 1}
    BY WalletFacts
  <1> HIDE DEF name
  <1>4. [creation[r] EXCEPT !.at = "create", !.name = name] \in W!Request
    BY <1>2, <1>3 DEF W!Request
  <1>5. PICK x \in W!Request : x = [creation[r] EXCEPT !.at = "create", !.name = name]
    BY <1>4
  <1>6. x.at = "create" /\ x.id = None /\ x.name = name
    BY <1>2, <1>5 DEF W!Request
  <1>7. creation' = [creation EXCEPT ![r] = x]
    BY <1>1, <1>2, <1>5 DEF WInv, W!TypeOK
  <1>8. Fills(x) /\ (~raced => Counted(r, x)) /\ r \in Pending
    BY <1>1, <1>2, <1>3, <1>6 DEF Fills, Counted, Pending
  <1>9. QED
    BY <1>1, <1>2, <1>6, <1>7, <1>8, Serving DEF WInv, W!TypeOK

(* A creation that fails leaves its wallet, if it has one, as it is. *)
LEMMA Failing == ASSUME WInv, NEW r \in Creations, W!Fail(r) PROVE WInv'
  <1>1. /\ creation[r] # None /\ creationFaults < MaxFaults /\ creationFaults' = creationFaults + 1
        /\ failedHalf' = IF creation[r].id = None THEN failedHalf ELSE failedHalf \cup {creation[r].id}
        /\ creation' = [creation EXCEPT ![r] = None] /\ UNCHANGED <<wallet, raced, answered>>
    BY DEF W!Fail
  <1>2. creation[r] \in W!Request /\ creation[r].id \in W!Wallets \cup {None}
    BY <1>1, CreationParts DEF W!Request
  <1>3. creationFaults' \in 0..MaxFaults
    BY <1>1, BoundsAssumption DEF WInv, W!TypeOK
  <1>4. /\ failedHalf \subseteq failedHalf' /\ failedHalf' \subseteq W!Wallets
        /\ creation[r].id # None => creation[r].id \in failedHalf'
    BY <1>1, <1>2 DEF WInv, W!TypeOK
  <1>5. QED
    BY <1>1, <1>3, <1>4, Serving DEF WInv, W!TypeOK

(* The row: the next number, under a name that no other wallet has. *)
LEMMA Inserting == ASSUME WInv, NEW r \in Creations, W!CreateNewWallet(r) PROVE WInv'
  <1>1. /\ creation[r] # None /\ creation[r].at = "create" /\ Count < MaxWallets
        /\ wallet' = [wallet EXCEPT ![Count + 1] = [accounts |-> 0, name |-> creation[r].name]]
        /\ creation' = [creation EXCEPT ![r].at = "fill", ![r].id = Count + 1]
        /\ UNCHANGED <<raced, failedHalf, answered, creationFaults>>
    BY WalletFacts DEF W!CreateNewWallet, W!At
  <1>2. /\ creation[r] \in W!Request /\ Fills(creation[r]) /\ (~raced => Counted(r, creation[r]))
        /\ creation[r].id = None /\ creation[r].name \in Nat /\ creation[r].asked \in Nat
    BY <1>1, CreationParts DEF Fills, W!Request
  <1>3. PICK w \in W!Wallets : w = Count + 1
    BY <1>1, WalletFacts DEF W!Wallets
  <1>4. w \notin W!Created /\ w # None /\ Count \in Nat
    BY <1>3, WalletFacts, CreationsAssumption
  <1>5. [accounts |-> 0, name |-> creation[r].name] \in W!WalletRow
    BY <1>2 DEF W!WalletRow
  <1>6. PICK row \in W!WalletRow : row = [accounts |-> 0, name |-> creation[r].name]
    BY <1>5
  <1>7. [creation[r] EXCEPT !.at = "fill", !.id = w] \in W!Request
    BY <1>2 DEF W!Request
  <1>8. PICK x \in W!Request : x = [creation[r] EXCEPT !.at = "fill", !.id = w]
    BY <1>7
  <1>9. x.at = "fill" /\ x.id = w /\ x.asked = creation[r].asked /\ row.accounts = 0 /\ row.name = creation[r].name
    BY <1>2, <1>6, <1>8 DEF W!Request
  <1>10. wallet' = [wallet EXCEPT ![w] = row] /\ creation' = [creation EXCEPT ![r] = x]
    BY <1>1, <1>2, <1>3, <1>6, <1>8 DEF WInv, W!TypeOK
  <1>11. /\ wallet' \in [W!Wallets -> W!WalletRow \cup {None}]
         /\ wallet'[w] = row /\ \A v \in W!Wallets \ {w} : wallet'[v] = wallet[v]
         /\ creation' \in [Creations -> W!Request \cup {None}]
         /\ creation'[r] = x /\ \A q \in Creations \ {r} : creation'[q] = creation[q]
    BY <1>10 DEF WInv, W!TypeOK
  <1>12. row # None /\ x # None
    BY CreationsAssumption
  <1>13. W!TypeOK'
    BY <1>1, <1>11 DEF WInv, W!TypeOK
  <1>14. W!Created' = W!Created \cup {w} /\ W!Created' = 1..w
    <2>1. W!Created' = W!Created \cup {w}
      BY <1>11, <1>12 DEF W!Created
    <2>2. QED
      BY <1>3, <2>1, WalletFacts
  <1>15. Count' = w
    <2>1. Cardinality(1..w) = w
      BY <1>3, <1>4, FS_Interval
    <2>2. QED
      BY <1>14, <2>1 DEF Count
  <1>16. NumberInv'
    BY <1>14, <1>15, WalletFacts, <1>1, <1>3 DEF NumberInv
  <1>17. LimitInv'
    <2>1. Pending' = Pending \ {r} /\ r \in Pending
      BY <1>1, <1>9, <1>11, <1>12 DEF Pending
    <2>2. Cardinality(Pending') = Cardinality(Pending) - 1
      BY <2>1, FS_RemoveElement, WalletFacts
    <2>3. QED
      BY <1>3, <1>15, <2>2, WalletFacts DEF WInv, LimitInv
  <1>18. AloneInv'
    <2> SUFFICES ASSUME ~raced' PROVE AloneInv'
      BY DEF AloneInv
    <2>1. /\ Count < WALLET_LIMIT /\ row.name \in {0, w}
          /\ \A q \in Creations : creation[q] # None => q = r
      BY <1>1, <1>2, <1>3, <1>9 DEF Counted
    <2>2. Count' <= WALLET_LIMIT
      BY <1>3, <1>15, <2>1, WalletFacts
    <2>3. \A v \in W!Created : wallet[v].name \in {0, v}
      BY <1>1 DEF WInv, AloneInv
    <2>4. \A v \in W!Created' : wallet'[v].name \in {0, v}
      BY <1>4, <1>11, <1>14, <2>1, <2>3 DEF W!Created
    <2>5. \A q \in Creations : creation'[q] # None => q = r /\ creation'[q] = x
      BY <1>11, <2>1
    <2>6. \A q \in Creations : creation'[q] # None => Counted(q, creation[q])'
      BY <1>9, <2>5 DEF Counted
    <2>7. QED
      BY <2>2, <2>4, <2>6 DEF AloneInv
  <1>19. FillInv'
    <2>1. ASSUME NEW q \in Creations, creation'[q] # None
          PROVE  Fills(creation[q])'
      <3>1. CASE q = r
        <4>1. \A y \in answered : y[1] # w
          BY <1>4 DEF WInv, DoneInv
        <4>2. w \in W!Created' /\ wallet'[w].accounts <= x.asked
          BY <1>2, <1>9, <1>11, <1>14
        <4>3. QED
          BY <1>1, <1>9, <1>11, <3>1, <4>1, <4>2 DEF Fills
      <3>2. CASE q # r
        <4>1. PICK y \in W!Request : creation[q] = y /\ creation'[q] = y /\ Fills(y)
          BY <1>11, <2>1, <3>2, CreationParts
        <4>2. Fills(y)'
          BY <1>1, <1>4, <1>11, <1>14, <4>1 DEF Fills, W!Created
        <4>3. QED
          BY <4>1, <4>2
      <3>3. QED
        BY <3>1, <3>2
    <2>2. \A q \in Creations \ {r} : creation[q] # None => creation[q].id # w
      BY <1>4, CreationParts DEF Fills
    <2>3. ASSUME NEW p \in Creations, NEW q \in Creations, creation'[p] # None, creation'[q] # None,
                 creation'[p].id = creation'[q].id, p # q
          PROVE  creation'[p].id = None
      BY <1>9, <1>11, <2>2, <2>3 DEF WInv, FillInv
    <2>4. QED
      BY <2>1, <2>3 DEF FillInv
  <1>20. DoneInv'
    <2>1. ASSUME NEW v \in W!Created'
          PROVE  \/ v \in failedHalf'
                 \/ \E y \in answered' : y[1] = v
                 \/ \E q \in Creations : creation'[q] # None /\ creation'[q].id = v
      <3>1. CASE v = w
        BY <1>9, <1>11, <1>12, <3>1
      <3>2. CASE v # w
        <4>1. v \in W!Created /\ v # None
          BY <1>14, <2>1, <3>2, CreationsAssumption DEF W!Created
        <4>2. CASE \E q \in Creations : creation[q] # None /\ creation[q].id = v
          BY <1>2, <1>11, <4>1, <4>2
        <4>3. QED
          BY <1>1, <4>1, <4>2 DEF WInv, DoneInv
      <3>3. QED
        BY <3>1, <3>2
    <2>2. \A y \in answered' : y[1] \in W!Created' /\ wallet'[y[1]].accounts = y[2]
      BY <1>1, <1>4, <1>11, <1>14 DEF WInv, DoneInv, W!Created
    <2>3. QED
      BY <2>1, <2>2 DEF DoneInv
  <1>21. QED
    BY <1>13, <1>16, <1>17, <1>18, <1>19, <1>20 DEF WInv

(* A row changes: its name is cleared, or an account is added while it is filled. *)
LEMMA Rewriting ==
  ASSUME WInv, NEW w \in W!Created, NEW row \in W!WalletRow, wallet' = [wallet EXCEPT ![w] = row],
         UNCHANGED <<creation, raced, failedHalf, answered, creationFaults>>,
         row.name \in {0, wallet[w].name},
         \/ row.accounts = wallet[w].accounts
         \/ /\ \A y \in answered : y[1] # w
            /\ \A q \in Creations : creation[q] # None /\ creation[q].id = w
                 => creation[q].at = "fill" /\ row.accounts <= creation[q].asked
  PROVE  WInv'
  <1>1. w \in W!Wallets /\ w # None /\ row # None /\ wallet[w] # None
    BY CreationsAssumption DEF W!Created
  <1>2. /\ wallet' \in [W!Wallets -> W!WalletRow \cup {None}]
        /\ wallet'[w] = row /\ \A v \in W!Wallets \ {w} : wallet'[v] = wallet[v]
    BY <1>1 DEF WInv, W!TypeOK
  <1>3. W!TypeOK'
    BY <1>2 DEF WInv, W!TypeOK
  <1>4. W!Created' = W!Created
    BY <1>1, <1>2 DEF W!Created
  <1>5. Count' = Count /\ Pending' = Pending
    BY <1>4 DEF Count, Pending
  <1>6. NumberInv' /\ LimitInv'
    BY <1>4, <1>5 DEF WInv, NumberInv, LimitInv
  <1>7. AloneInv'
    <2> SUFFICES ASSUME ~raced' PROVE AloneInv'
      BY DEF AloneInv
    <2>1. \A v \in W!Created : wallet'[v].name \in {0, v}
      BY <1>1, <1>2 DEF WInv, AloneInv, W!Created
    <2>2. QED
      BY <1>4, <1>5, <2>1 DEF WInv, AloneInv, Counted
  <1>8. FillInv'
    <2>1. ASSUME NEW q \in Creations, creation'[q] # None
          PROVE  Fills(creation[q])'
      <3>1. PICK x \in W!Request : creation[q] = x /\ creation'[q] = x /\ Fills(x)
        BY <2>1, CreationParts
      <3>2. CASE x.at \in {"fill", "mail"} /\ x.id = w
        <4>1. wallet'[w].accounts <= x.asked /\ (x.at = "mail" => wallet'[w].accounts = x.asked)
          BY <1>2, <2>1, <3>1, <3>2 DEF Fills
        <4>2. QED
          BY <1>4, <3>1, <3>2, <4>1 DEF Fills
      <3>3. CASE ~(x.at \in {"fill", "mail"} /\ x.id = w)
        <4>1. Fills(x)'
          BY <1>2, <1>4, <3>1, <3>3 DEF Fills, W!Created
        <4>2. QED
          BY <3>1, <4>1
      <3>4. QED
        BY <3>2, <3>3
    <2>2. QED
      BY <2>1 DEF WInv, FillInv
  <1>9. DoneInv'
    BY <1>2, <1>4 DEF WInv, DoneInv, W!Created
  <1>10. QED
    BY <1>3, <1>6, <1>7, <1>8, <1>9 DEF WInv

(* The accounts of the wallet are created. *)
LEMMA Filling == ASSUME WInv, NEW r \in Creations, W!CreateNewAccount(r) PROVE WInv'
  <1> DEFINE w == creation[r].id
  <1>1. /\ creation[r] # None /\ creation[r].at = "fill" /\ UNCHANGED <<raced, failedHalf, answered, creationFaults>>
    BY DEF W!CreateNewAccount, W!At
  <1>2. /\ creation[r] \in W!Request /\ Fills(creation[r]) /\ (~raced => Counted(r, creation[r]))
        /\ w \in W!Created /\ w # None /\ wallet[w] \in W!WalletRow /\ wallet[w].accounts \in Nat
        /\ wallet[w].accounts <= creation[r].asked /\ creation[r].asked \in Nat
        /\ \A y \in answered : y[1] # w
    BY <1>1, CreationParts, CreationsAssumption DEF Fills, WInv, W!TypeOK, W!Created, W!Request, W!WalletRow
  <1>3. CASE wallet[w].accounts < creation[r].asked
    <2>1. [wallet[w] EXCEPT !.accounts = wallet[w].accounts + 1] \in W!WalletRow
      BY <1>2 DEF W!WalletRow
    <2>2. PICK row \in W!WalletRow : row = [wallet[w] EXCEPT !.accounts = wallet[w].accounts + 1]
      BY <2>1
    <2>3. row.accounts = wallet[w].accounts + 1 /\ row.name = wallet[w].name
      BY <1>2, <2>2 DEF W!WalletRow
    <2>4. wallet' = [wallet EXCEPT ![w] = row] /\ creation' = creation
      BY <1>3, <2>2 DEF W!CreateNewAccount
    <2>5. \A q \in Creations : creation[q] # None /\ creation[q].id = w => q = r
      BY <1>1, <1>2, CreationParts
    <2>6. \A q \in Creations : creation[q] # None /\ creation[q].id = w
            => creation[q].at = "fill" /\ row.accounts <= creation[q].asked
      BY <1>1, <1>2, <1>3, <2>3, <2>5
    <2>7. QED
      BY <1>1, <1>2, <2>3, <2>4, <2>6, Rewriting
  <1>4. CASE ~(wallet[w].accounts < creation[r].asked)
    <2>1. [creation[r] EXCEPT !.at = "mail"] \in W!Request
      BY <1>2 DEF W!Request
    <2>2. PICK x \in W!Request : x = [creation[r] EXCEPT !.at = "mail"]
      BY <2>1
    <2>3. x # None /\ x.at = "mail" /\ x.id = w /\ x.asked = creation[r].asked
      BY <1>2, <2>2, CreationsAssumption DEF W!Request
    <2>4. creation' = [creation EXCEPT ![r] = x] /\ wallet' = wallet
      BY <1>4, <2>2 DEF W!CreateNewAccount
    <2>5. wallet[w].accounts = creation[r].asked
      BY <1>2, <1>4
    <2>6. Fills(x)
      BY <1>2, <2>3, <2>5 DEF Fills
    <2>7. ~raced => Counted(r, x)
      BY <1>2, <2>3 DEF Counted
    <2>8. QED
      BY <1>1, <2>3, <2>4, <2>6, <2>7, Serving DEF WInv, W!TypeOK
  <1>5. QED
    BY <1>3, <1>4

(* A wallet gets the name its owner chooses. *)
LEMMA Renaming == ASSUME WInv, NEW w \in W!Wallets, W!ChangeName(w) PROVE WInv'
  <1>1. /\ w \in W!Created /\ wallet[w] \in W!WalletRow /\ wallet' = [wallet EXCEPT ![w].name = 0]
        /\ UNCHANGED <<creation, raced, failedHalf, answered, creationFaults>>
    BY DEF W!ChangeName, WInv, W!TypeOK, W!Created
  <1>2. [wallet[w] EXCEPT !.name = 0] \in W!WalletRow
    BY <1>1 DEF W!WalletRow
  <1>3. PICK row \in W!WalletRow : row = [wallet[w] EXCEPT !.name = 0]
    BY <1>2
  <1>4. row.name = 0 /\ row.accounts = wallet[w].accounts /\ wallet' = [wallet EXCEPT ![w] = row]
    BY <1>1, <1>3 DEF W!WalletRow
  <1>5. QED
    BY <1>1, <1>4, Rewriting

(* The answer: the client is told of a wallet that has all its accounts. *)
LEMMA Telling == ASSUME WInv, NEW r \in Creations, W!SendBackupMail(r) PROVE WInv'
  <1> DEFINE w == creation[r].id
  <1>1. /\ creation[r] # None /\ creation[r].at = "mail" /\ UNCHANGED <<wallet, raced, failedHalf, creationFaults>>
        /\ answered' = answered \cup {<<w, creation[r].asked>>} /\ creation' = [creation EXCEPT ![r] = None]
    BY DEF W!SendBackupMail, W!At
  <1>2. /\ creation[r] \in W!Request /\ Fills(creation[r])
        /\ w \in W!Created /\ w \in W!Wallets /\ w # None /\ wallet[w].accounts = creation[r].asked
        /\ creation[r].asked \in Nat
        /\ \A q \in Creations : creation[q] # None /\ creation[q].id = w => q = r
    BY <1>1, CreationParts, CreationsAssumption DEF Fills, W!Created, W!Request
  <1>3. /\ creation' \in [Creations -> W!Request \cup {None}]
        /\ creation'[r] = None /\ \A q \in Creations \ {r} : creation'[q] = creation[q]
    BY <1>1 DEF WInv, W!TypeOK
  <1>4. W!TypeOK'
    <2>1. <<w, creation[r].asked>> \in W!Wallets \X Nat
      BY <1>2
    <2>2. answered' \subseteq W!Wallets \X Nat
      BY <1>1, <2>1 DEF WInv, W!TypeOK
    <2>3. QED
      BY <1>1, <1>3, <2>2 DEF WInv, W!TypeOK
  <1>5. W!Created' = W!Created /\ Count' = Count
    BY <1>1 DEF W!Created, Count
  <1>6. Pending' = Pending
    BY <1>1, <1>3 DEF Pending
  <1>7. NumberInv' /\ LimitInv'
    BY <1>5, <1>6 DEF WInv, NumberInv, LimitInv
  <1>8. AloneInv'
    BY <1>1, <1>3, <1>5 DEF WInv, AloneInv, Counted
  <1>9. FillInv'
    <2>1. ASSUME NEW q \in Creations, creation'[q] # None
          PROVE  Fills(creation[q])'
      <3>1. PICK x \in W!Request : creation[q] = x /\ creation'[q] = x /\ Fills(x) /\ x.id # w
        BY <1>2, <1>3, <2>1, CreationParts
      <3>2. Fills(x)'
        BY <1>1, <1>5, <3>1 DEF Fills
      <3>3. QED
        BY <3>1, <3>2
    <2>2. QED
      BY <1>3, <2>1 DEF WInv, FillInv
  <1>10. DoneInv'
    <2>1. \A y \in answered' : y[1] \in W!Created' /\ wallet'[y[1]].accounts = y[2]
      BY <1>1, <1>2, <1>5 DEF WInv, DoneInv
    <2>2. \E y \in answered' : y[1] = w
      <3>1. <<w, creation[r].asked>> \in answered' /\ <<w, creation[r].asked>>[1] = w
        BY <1>1
      <3>2. QED
        BY <3>1
    <2>3. ASSUME NEW v \in W!Created, v # w
          PROVE  \/ v \in failedHalf'
                 \/ \E y \in answered' : y[1] = v
                 \/ \E q \in Creations : creation'[q] # None /\ creation'[q].id = v
      BY <1>1, <1>3, <2>3 DEF WInv, DoneInv
    <2>4. QED
      BY <1>5, <2>1, <2>2, <2>3 DEF DoneInv
  <1>11. QED
    BY <1>4, <1>7, <1>8, <1>9, <1>10 DEF WInv

-----------------------------------------------------------------------------
(* The theorem about Wallets. *)

LEMMA WalletsStep == WInv /\ [W!Next]_(W!vars) => WInv'
  <1> SUFFICES ASSUME WInv, [W!Next]_(W!vars) PROVE WInv'
    OBVIOUS
  <1>1. CASE UNCHANGED W!vars
    <2>1. UNCHANGED <<wallet, creation, raced, failedHalf, answered, creationFaults>>
      BY <1>1 DEF W!vars
    <2>2. W!Created' = W!Created /\ Count' = Count /\ Pending' = Pending
      BY <2>1 DEF W!Created, Count, Pending
    <2>3. QED
      BY <2>1, <2>2 DEF WInv, W!TypeOK, NumberInv, LimitInv, AloneInv, Counted, FillInv, Fills, DoneInv
  <1>2. CASE W!Next
    <2>1. ASSUME NEW r \in Creations, W!FirstWallet(r) \/ W!CreateMutation(r) \/ W!CountWallets(r) \/ W!ChooseName(r)
          PROVE  WInv'
      BY <2>1, Entering, Counting, Naming
    <2>2. ASSUME NEW r \in Creations,
                 W!CreateNewWallet(r) \/ W!CreateNewAccount(r) \/ W!SendBackupMail(r) \/ W!Fail(r)
          PROVE  WInv'
      BY <2>2, Inserting, Filling, Telling, Failing
    <2>3. QED
      BY <1>2, <2>1, <2>2, Renaming DEF W!Next
  <1>3. QED
    BY <1>1, <1>2

(* It holds of every state the wallets can be in. *)
LEMMA WalletsInvHolds == W!Spec => []WInv
  BY WalletsInit, WalletsStep, PTL DEF W!Spec

(* Wallets made one after the other are as many as allowed, told apart by their
   default names, and complete when the client is told of them; creations in
   flight together exceed the limit by no more than their number. *)
THEOREM WalletsAreAlwaysInOrder == W!Spec => []WalletsAreInOrder
  <1>1. WInv => WalletsAreInOrder
    <2> SUFFICES ASSUME WInv PROVE WalletsAreInOrder
      OBVIOUS
    <2>1. W!Cardinality(Creations) = Cardinality(Creations)
      BY SameCardinality
    <2>2. W!LimitHolds
      BY <2>1, WalletFacts DEF WInv, LimitInv, AloneInv, W!LimitHolds
    <2>3. W!DefaultNamesDiffer
      BY DEF WInv, AloneInv, W!DefaultNamesDiffer
    <2>4. W!AnsweredWalletIsComplete
      BY DEF WInv, DoneInv, W!AnsweredWalletIsComplete, W!InFlight
    <2>5. QED
      BY <2>2, <2>3, <2>4 DEF WalletsAreInOrder, W!WalletsAreInOrder
  <1>2. QED
    BY <1>1, WalletsInvHolds, PTL

-----------------------------------------------------------------------------
(* Every execution of the two machines in one run is one of WalletScan and one of
   Wallets: what is proved of either holds of the run. *)
THEOREM RunOfBoth == MCSpec => Spec /\ W!Spec
  <1>1. MCInit => Init /\ W!Init
    BY DEF MCInit
  <1>2. [MCNext]_<<vars, walletVars>> => [Next]_vars /\ [W!Next]_(W!vars)
    BY DEF MCNext, walletVars, W!vars
  <1>3. QED
    BY <1>1, <1>2, PTL DEF MCSpec, Spec, W!Spec
=============================================================================
