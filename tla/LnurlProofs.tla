----------------------------- MODULE LnurlProofs ----------------------------
(* Proofs about Lnurl, for any limits, amounts and number of millisatoshis in *)
(* a satoshi, and about Contacts, for any users, messages and processes.      *)
EXTENDS MCLnurl, TLAPS

-----------------------------------------------------------------------------
(* Satoshis and millisatoshis. *)

(* Every number has a quotient and a rest. *)
LEMMA Quotient ==
  ASSUME NEW n \in Nat
  PROVE  /\ n \div K \in Nat /\ (n \div K) * K <= n /\ n < (n \div K) * K + K
         /\ n % K = 0 => (n \div K) * K = n
  BY KAssumption, Z3

(* Satoshis to millisatoshis keep the order, and a difference below one satoshi
   is none. *)
LEMMA Times ==
  ASSUME NEW a \in Nat, NEW b \in Nat
  PROVE  /\ a * K \in Nat
         /\ a <= b => a * K <= b * K
         /\ a * K < b * K + K => a <= b
  BY KAssumption, Z3

(* Rounding up covers the amount, with less than a satoshi to spare; rounding
   down is covered by it. *)
LEMMA CeilCovers ==
  ASSUME NEW n \in Nat
  PROVE  /\ Ceil(n) \in Nat /\ Ceil(n) * K \in Nat /\ n <= Ceil(n) * K /\ Ceil(n) * K < n + K
         /\ n % K = 0 => Ceil(n) * K = n
  <1>1. PICK m \in Nat : m = n + K - 1
    BY KAssumption
  <1>2. m \div K \in Nat /\ (m \div K) * K <= m /\ m < (m \div K) * K + K
    BY Quotient
  <1>3. PICK q \in Nat : q = m \div K
    BY <1>2
  <1>4. PICK c \in Nat : c = q * K
    BY Times
  <1>5. Ceil(n) = q /\ n <= c /\ c < n + K
    BY <1>1, <1>2, <1>3, <1>4, KAssumption DEF Ceil
  <1>6. n % K = 0 => c = n
    <2> SUFFICES ASSUME n % K = 0 PROVE c = n
      OBVIOUS
    <2>1. PICK r \in Nat : r = n \div K
      BY Quotient
    <2>2. r * K = n
      BY <2>1, Quotient
    <2>3. r <= q /\ q <= r
      BY <1>4, <1>5, <2>2, Times, KAssumption
    <2>4. QED
      BY <1>4, <2>2, <2>3
  <1>7. QED
    BY <1>4, <1>5, <1>6

(* Rounding down loses less than a satoshi, and nothing of a whole one. *)
LEMMA FloorCovers ==
  ASSUME NEW n \in Nat
  PROVE  /\ Floor(n) \in Nat /\ Floor(n) * K \in Nat /\ Floor(n) * K <= n /\ n < Floor(n) * K + K
         /\ n % K = 0 => Floor(n) * K = n
  BY Quotient, Times DEF Floor

(* An amount within limits in satoshis, and no other, is within them in
   millisatoshis once it is rounded up. *)
LEMMA WithinRounded ==
  ASSUME NEW n \in Nat, NEW l \in Limits, Within(n, [min |-> l.min * K, max |-> l.max * K])
  PROVE  Within(Ceil(n), l)
  <1>1. PICK a \in Nat, b \in Nat, c \in Nat : a = l.min /\ b = l.max /\ c = Ceil(n)
    BY CeilCovers DEF Limits
  <1>2. /\ a * K \in Nat /\ b * K \in Nat /\ c * K \in Nat
        /\ a * K <= n /\ n <= b * K /\ n <= c * K /\ c * K < n + K
    BY <1>1, CeilCovers, Times DEF Within
  <1>3. a * K < c * K + K /\ c * K < b * K + K
    BY <1>2, KAssumption
  <1>4. a <= c /\ c <= b
    BY <1>3, Times
  <1>5. QED
    BY <1>1, <1>4 DEF Within

-----------------------------------------------------------------------------
(* The inductive invariant. *)

(* What a wallet elsewhere was refused with does not take its amount. *)
Calls(x) ==
  /\ x.at \in {"swap", "invoiced", "refused"} => x.way # "none" /\ x.sats = ToSats(x.way, x.asked)
  /\ x.at = "refused" /\ x.used # None => x.way \in {"lightning", "bitcoin"} /\ ~Within(x.sats, x.used)

(* An amount accepted here is within what both ends said, and what it is
   refused with afterwards does not take it. *)
Pays(x) ==
  /\ x.at \in {"info", "options"} => x.boltz = None /\ x.why = "no"
  /\ x.at = "options" => x.info # None
  /\ x.at \in {"invoice", "swap"} => x.boltz # None
  /\ x.boltz # None => x.info # None /\ Within(x.amount, LightningOption(x.info.limits, x.boltz))
  /\ x.why = "remote" => x.boltz # None /\ x.used # None /\ ~Within(ToMsat(x.amount), x.used)
  /\ x.why = "limits" => x.boltz # None /\ x.used # None /\ ~Within(x.amount, x.used)

CallerInv == \A c \in Callers : caller[c] # None => Calls(caller[c])
PayerInv == \A p \in Payers : payer[p] # None => Pays(payer[p])

IInv == TypeOK /\ CallerInv /\ PayerInv

(* The copies in Redis are limits that were once told. *)
LEMMA Copies ==
  ASSUME TypeOK
  PROVE  /\ GetReverseSwapInfo \in BoltzLimits /\ GetSubmarineSwapInfo \in BoltzLimits /\ GetChainSwapInfo \in BoltzLimits
         /\ \A k \in Kinds : boltz[k] \in BoltzLimits
         /\ \A k \in Kinds : \A l \in BoltzLimits \cup {None} : Keep(k, l) \in [Kinds -> BoltzLimits \cup {None}]
         /\ \A copies \in [Kinds -> BoltzLimits \cup {None}] : KeepCurrencies(copies) \in [Kinds -> BoltzLimits \cup {None}]
  <1>1. /\ "reverse" \in Kinds /\ "submarine" \in Kinds /\ "chain" \in Kinds
        /\ boltz \in [Kinds -> BoltzLimits] /\ cached \in [Kinds -> BoltzLimits \cup {None}]
    BY DEF Kinds, TypeOK
  <1>2. GetReverseSwapInfo \in BoltzLimits /\ GetSubmarineSwapInfo \in BoltzLimits /\ GetChainSwapInfo \in BoltzLimits
    BY <1>1 DEF GetReverseSwapInfo, GetSubmarineSwapInfo, GetChainSwapInfo
  <1>3. QED
    BY <1>1, <1>2 DEF Keep, KeepCurrencies

(* The limits of Boltz and of other servers are limits, and none of them is None. *)
LEMMA LimitsAre == BoltzLimits \subseteq Limits /\ RemoteLimits \subseteq Limits /\ None \notin Limits
  BY LimitAssumption, NoneAssumption DEF Limits

(* What this server answers, and what another one may, are answers. *)
LEMMA InfoIs ==
  ASSUME TypeOK
  PROVE  /\ \A l \in Limits : LocalInfo(l) \in Info /\ LocalInfo(l).limits \in Limits
         /\ \A a \in Addresses : GetInfo(a) \in Info
  <1>1. ASSUME NEW l \in Limits
        PROVE  LocalInfo(l) \in Info /\ LocalInfo(l).limits \in Limits
    <2>1. l.min * K \in Nat /\ l.max * K \in Nat
      BY Times DEF Limits
    <2>2. PICK a \in Nat, b \in Nat : a = l.min * K /\ b = l.max * K
      BY <2>1
    <2>3. QED
      BY <2>2 DEF LocalInfo, Info, Limits, TypeOK
  <1>2. [limits |-> remote, liquid |-> FALSE] \in Info
    BY LimitsAre DEF TypeOK, Info, Limits
  <1>3. GetReverseSwapInfo \in Limits
    BY Copies, LimitsAre
  <1>4. QED
    BY <1>1, <1>2, <1>3 DEF GetInfo, TypeOK

-----------------------------------------------------------------------------
(* What the steps have in common. *)

(* A wallet elsewhere moves. *)
LEMMA CallerMoves ==
  ASSUME IInv, NEW c \in Callers, NEW x \in Caller \cup {None}, caller' = [caller EXCEPT ![c] = x],
         UNCHANGED <<payer, info, env>>, cached' \in [Kinds -> BoltzLimits \cup {None}], faults' \in 0..MaxFaults,
         x # None => Calls(x)
  PROVE  IInv'
  <1>1. /\ caller' \in [Callers -> Caller \cup {None}]
        /\ caller'[c] = x /\ \A d \in Callers \ {c} : caller'[d] = caller[d]
    BY DEF IInv, TypeOK
  <1>2. TypeOK'
    BY <1>1 DEF IInv, TypeOK, env
  <1>3. CallerInv'
    BY <1>1 DEF IInv, CallerInv
  <1>4. PayerInv'
    BY DEF IInv, PayerInv
  <1>5. QED
    BY <1>2, <1>3, <1>4 DEF IInv

(* A payment moves. *)
LEMMA PayerMoves ==
  ASSUME IInv, NEW p \in Payers, NEW x \in Payer \cup {None}, payer' = [payer EXCEPT ![p] = x],
         UNCHANGED <<caller, env>>, cached' \in [Kinds -> BoltzLimits \cup {None}],
         info' \in [Addresses -> Info \cup {None}], faults' \in 0..MaxFaults,
         x # None => Pays(x)
  PROVE  IInv'
  <1>1. /\ payer' \in [Payers -> Payer \cup {None}]
        /\ payer'[p] = x /\ \A q \in Payers \ {p} : payer'[q] = payer[q]
    BY DEF IInv, TypeOK
  <1>2. TypeOK'
    BY <1>1 DEF IInv, TypeOK, env
  <1>3. PayerInv'
    BY <1>1 DEF IInv, PayerInv
  <1>4. CallerInv'
    BY DEF IInv, CallerInv
  <1>5. QED
    BY <1>2, <1>3, <1>4 DEF IInv

(* What is known of a conversation that goes on. *)
LEMMA PartsOfCaller ==
  ASSUME IInv, NEW c \in Callers, caller[c] # None
  PROVE  caller[c] \in Caller /\ Calls(caller[c])
  BY DEF IInv, TypeOK, CallerInv

(* What is known of a payment that goes on. *)
LEMMA PartsOfPayer ==
  ASSUME IInv, NEW p \in Payers, payer[p] # None
  PROVE  payer[p] \in Payer /\ Pays(payer[p])
  BY DEF IInv, TypeOK, PayerInv

(* Nobody has asked for anything and nothing is copied. *)
LEMMA LnurlInit == Init => IInv
  <1> SUFFICES ASSUME Init PROVE IInv
    OBVIOUS
  <1>1. boltz \in [Kinds -> BoltzLimits]
    BY DEF Init
  <1>2. 0 \in 0..MaxChanges /\ 0 \in 0..MaxFaults
    BY BoundsAssumption
  <1>3. TypeOK
    BY <1>1, <1>2 DEF Init, TypeOK
  <1>4. QED
    BY <1>3 DEF Init, IInv, CallerInv, PayerInv

-----------------------------------------------------------------------------
(* The steps of a wallet elsewhere. *)

LEMMA Serving == ASSUME IInv, NEW c \in Callers, GetLnurl(c) PROVE IInv'
  <1> DEFINE r == GetReverseSwapInfo
             h == GetChainSwapInfo
             served == [k \in Kinds |-> CASE k = "reverse" -> LocalInfo(r).limits
                                          [] k = "chain" -> IF account THEN h ELSE None
                                          [] OTHER -> None]
             x == [at |-> "callback", way |-> "none", asked |-> 0, sats |-> 0, used |-> None, served |-> served]
  <1>1. /\ caller' = [caller EXCEPT ![c] = x] /\ cached' = KeepCurrencies(Keep("reverse", r))
        /\ UNCHANGED <<info, payer, faults, env>>
    BY DEF GetLnurl
  <1>2. r \in Limits /\ h \in Limits /\ LocalInfo(r).limits \in Limits
    BY Copies, LimitsAre, InfoIs DEF IInv
  <1>3. served \in [Kinds -> Limits \cup {None}]
    BY <1>2 DEF Kinds
  <1>4. x \in Caller
    <2> HIDE DEF served
    <2>1. QED
      BY <1>3 DEF Caller
  <1>5. Calls(x)
    BY DEF Calls
  <1>6. cached' \in [Kinds -> BoltzLimits \cup {None}]
    BY <1>1, Copies DEF IInv, Kinds
  <1> HIDE DEF x
  <1>7. QED
    BY <1>1, <1>4, <1>5, <1>6, CallerMoves DEF IInv, TypeOK

(* An amount asked in millisatoshis becomes one in satoshis. *)
LEMMA ToSatsIs ==
  ASSUME NEW way, NEW n \in Nat
  PROVE  ToSats(way, n) \in Nat
  BY CeilCovers DEF ToSats

(* The amount asked is taken over in satoshis, rounded as its way rounds. *)
LEMMA Responding == ASSUME IInv, NEW c \in Callers, GetResponse(c) PROVE IInv'
  <1>1. caller[c] # None /\ UNCHANGED <<cached, info, payer, faults, env>>
    BY DEF GetResponse
  <1>2. PICK way \in PayPaths(TRUE), n \in Asked :
          caller' = [caller EXCEPT ![c].at = "swap", ![c].way = way, ![c].asked = n, ![c].sats = ToSats(way, n)]
    BY DEF GetResponse
  <1>3. n \in Nat /\ way \in {"lightning", "bitcoin", "liquid"}
    BY LimitAssumption DEF PayPaths
  <1>4. PICK sats \in Nat : sats = ToSats(way, n)
    BY <1>3, ToSatsIs
  <1>5. [caller[c] EXCEPT !.at = "swap", !.way = way, !.asked = n, !.sats = sats] \in Caller
    BY <1>1, <1>3, PartsOfCaller DEF Caller
  <1>6. PICK x \in Caller : x = [caller[c] EXCEPT !.at = "swap", !.way = way, !.asked = n, !.sats = sats]
    BY <1>5
  <1>7. x.at = "swap" /\ x.way = way /\ x.asked = n /\ x.sats = sats
    BY <1>1, <1>6, PartsOfCaller DEF Caller
  <1>8. Calls(x)
    BY <1>3, <1>4, <1>7 DEF Calls
  <1>9. caller' = [caller EXCEPT ![c] = x]
    BY <1>2, <1>4, <1>6 DEF IInv, TypeOK
  <1>10. QED
    BY <1>1, <1>8, <1>9, CallerMoves DEF IInv, TypeOK

(* Refused with limits that do not take the amount, or for want of an account. *)
LEMMA Refusing ==
  ASSUME IInv, NEW c \in Callers, caller[c] # None, caller[c].at = "swap", caller[c].way # "none",
         NEW l \in Limits \cup {None}, caller' = Refuse(c, l),
         l # None => caller[c].way \in {"lightning", "bitcoin"} /\ ~Within(caller[c].sats, l),
         UNCHANGED <<payer, info, faults, env>>, cached' \in [Kinds -> BoltzLimits \cup {None}]
  PROVE  IInv'
  <1>1. caller[c] \in Caller /\ Calls(caller[c])
    BY PartsOfCaller
  <1>2. [caller[c] EXCEPT !.at = "refused", !.used = l] \in Caller
    BY <1>1 DEF Caller
  <1>3. PICK x \in Caller : x = [caller[c] EXCEPT !.at = "refused", !.used = l]
    BY <1>2
  <1>4. x.at = "refused" /\ x.used = l /\ x.way = caller[c].way /\ x.asked = caller[c].asked /\ x.sats = caller[c].sats
    BY <1>1, <1>3 DEF Caller
  <1>5. Calls(x)
    BY <1>1, <1>4 DEF Calls
  <1>6. caller' = [caller EXCEPT ![c] = x]
    BY <1>3 DEF Refuse, IInv, TypeOK
  <1>7. QED
    BY <1>5, <1>6, CallerMoves DEF IInv, TypeOK

(* A swap is created for the amount that was accepted. *)
LEMMA Invoicing ==
  ASSUME IInv, NEW c \in Callers, caller[c] # None, caller[c].at = "swap", caller' = Answer(c),
         UNCHANGED <<payer, info, faults, env>>, cached' \in [Kinds -> BoltzLimits \cup {None}]
  PROVE  IInv'
  <1>1. caller[c] \in Caller /\ Calls(caller[c])
    BY PartsOfCaller
  <1>2. [caller[c] EXCEPT !.at = "invoiced"] \in Caller
    BY <1>1 DEF Caller
  <1>3. PICK x \in Caller : x = [caller[c] EXCEPT !.at = "invoiced"]
    BY <1>2
  <1>4. x.at = "invoiced" /\ x.way = caller[c].way /\ x.asked = caller[c].asked /\ x.sats = caller[c].sats
    BY <1>1, <1>3 DEF Caller
  <1>5. Calls(x)
    BY <1>1, <1>4 DEF Calls
  <1>6. caller' = [caller EXCEPT ![c] = x]
    BY <1>3 DEF Answer, IInv, TypeOK
  <1>7. QED
    BY <1>5, <1>6, CallerMoves DEF IInv, TypeOK

(* The check of an amount, as the code writes it and as it is meant. *)
LEMMA AcceptsWithin ==
  ASSUME NEW n \in Nat, NEW l \in Limits
  PROVE  Accepts(l, n) <=> Within(n, l)
  BY DEF Accepts, Within, Limits

(* Both ways to a swap check the amount in satoshis against limits they read. *)
LEMMA Swapping ==
  ASSUME IInv, NEW c \in Callers, GetInvoiceResponse(c) \/ GetBitcoinOnchainResponse(c)
  PROVE  IInv'
  <1> DEFINE kind == IF caller[c].way = "lightning" THEN "reverse" ELSE "chain"
  <1>1. /\ caller[c] # None /\ caller[c].at = "swap" /\ caller[c].way \in {"lightning", "bitcoin"}
        /\ UNCHANGED <<info, payer, faults, env>> /\ kind \in Kinds
    BY DEF GetInvoiceResponse, GetBitcoinOnchainResponse, Kinds
  <1>2. PICK l \in BoltzLimits : /\ cached' = Keep(kind, l)
                                 /\ caller' = IF ~Accepts(l, caller[c].sats) THEN Refuse(c, l)
                                              ELSE IF ~account THEN Refuse(c, None)
                                              ELSE IF Within(caller[c].sats, boltz[kind]) THEN Answer(c)
                                              ELSE Refuse(c, boltz[kind])
    <2>1. CASE GetInvoiceResponse(c)
      <3>1. GetReverseSwapInfo \in BoltzLimits /\ kind = "reverse"
        BY <2>1, Copies DEF IInv, GetInvoiceResponse
      <3>2. QED
        BY <2>1, <3>1 DEF GetInvoiceResponse
    <2>2. CASE GetBitcoinOnchainResponse(c)
      <3>1. GetChainSwapInfo \in BoltzLimits /\ kind = "chain"
        BY <2>2, Copies DEF IInv, GetBitcoinOnchainResponse
      <3>2. QED
        BY <2>2, <3>1 DEF GetBitcoinOnchainResponse
    <2>3. QED
      BY <2>1, <2>2
  <1>3. /\ caller[c].sats \in Nat /\ l \in Limits /\ boltz[kind] \in Limits
        /\ cached' \in [Kinds -> BoltzLimits \cup {None}] /\ caller[c].way # "none"
    BY <1>1, <1>2, PartsOfCaller, Copies, LimitsAre DEF IInv, Caller
  <1> HIDE DEF kind
  <1>4. CASE ~Accepts(l, caller[c].sats)
    <2>1. caller' = Refuse(c, l)
      BY <1>2, <1>4
    <2>2. ~Within(caller[c].sats, l)
      BY <1>3, <1>4, AcceptsWithin
    <2>3. QED
      BY <1>1, <1>3, <2>1, <2>2, Refusing
  <1>5. CASE Accepts(l, caller[c].sats) /\ ~account
    <2>1. caller' = Refuse(c, None)
      BY <1>2, <1>5
    <2>2. QED
      BY <1>1, <1>3, <2>1, Refusing
  <1>6. CASE Accepts(l, caller[c].sats) /\ account /\ Within(caller[c].sats, boltz[kind])
    <2>1. caller' = Answer(c)
      BY <1>2, <1>6
    <2>2. QED
      BY <1>1, <1>3, <2>1, Invoicing
  <1>7. CASE Accepts(l, caller[c].sats) /\ account /\ ~Within(caller[c].sats, boltz[kind])
    <2>1. caller' = Refuse(c, boltz[kind])
      BY <1>2, <1>7
    <2>2. QED
      BY <1>1, <1>3, <1>7, <2>1, Refusing
  <1>8. QED
    BY <1>4, <1>5, <1>6, <1>7

(* An address of the Liquid chain is answered without a swap. *)
LEMMA AnsweringLiquid == ASSUME IInv, NEW c \in Callers, GetChainResponse(c) PROVE IInv'
  <1>1. /\ caller[c] # None /\ caller[c].at = "swap" /\ caller[c].way = "liquid"
        /\ cached' = KeepCurrencies(cached) /\ UNCHANGED <<info, payer, faults, env>>
        /\ caller' = IF account THEN Answer(c) ELSE Refuse(c, None)
    BY DEF GetChainResponse
  <1>2. cached' \in [Kinds -> BoltzLimits \cup {None}]
    BY <1>1, Copies DEF IInv, TypeOK
  <1>3. CASE account
    BY <1>1, <1>2, <1>3, Invoicing
  <1>4. CASE ~account
    BY <1>1, <1>2, <1>4, Refusing
  <1>5. QED
    BY <1>3, <1>4

-----------------------------------------------------------------------------
(* The steps of a payment. *)

LEMMA KeepInfoTypes ==
  ASSUME IInv, NEW a \in Addresses, KeepInfo(a)
  PROVE  /\ cached' \in [Kinds -> BoltzLimits \cup {None}]
         /\ info' \in [Addresses -> Info \cup {None}]
         /\ GetInfo(a) \in Info
  <1>1. GetInfo(a) \in Info
    BY InfoIs DEF IInv
  <1>2. info' \in [Addresses -> Info \cup {None}]
    BY <1>1 DEF KeepInfo, IInv, TypeOK
  <1>3. cached' = cached \/ cached' = KeepCurrencies(Keep("reverse", GetReverseSwapInfo))
    BY DEF KeepInfo
  <1>4. cached' \in [Kinds -> BoltzLimits \cup {None}]
    BY <1>3, Copies DEF IInv, TypeOK, Kinds
  <1>5. QED
    BY <1>1, <1>2, <1>4

(* A payment starts with an address, and nothing accepted yet. *)
LEMMA Paying == ASSUME IInv, NEW p \in Payers, PayLightningAddress(p) PROVE IInv'
  <1>1. PICK a \in Addresses, w \in {"lightning", "liquid"}, n \in Amounts :
          payer' = [payer EXCEPT ![p] = [at |-> "info", address |-> a, want |-> w, amount |-> n, info |-> None,
                                         boltz |-> None, why |-> "no", used |-> None]]
    BY DEF PayLightningAddress
  <1>2. n \in Nat /\ UNCHANGED <<cached, info, caller, faults, env>>
    BY LimitAssumption DEF PayLightningAddress
  <1>3. PICK x : x = [at |-> "info", address |-> a, want |-> w, amount |-> n, info |-> None,
                      boltz |-> None, why |-> "no", used |-> None]
    OBVIOUS
  <1>4. x \in Payer /\ Pays(x) /\ payer' = [payer EXCEPT ![p] = x]
    BY <1>1, <1>2, <1>3 DEF Payer, Pays
  <1>5. QED
    BY <1>2, <1>4, PayerMoves DEF IInv, TypeOK

(* The other side's answer comes from the copy, or is fetched and copied. *)
LEMMA Reading == ASSUME IInv, NEW p \in Payers, ReadInfo(p) PROVE IInv'
  <1>1. /\ payer[p] # None /\ payer[p].at = "info" /\ KeepInfo(payer[p].address) /\ UNCHANGED <<caller, faults, env>>
        /\ payer' = [payer EXCEPT ![p].at = "options", ![p].info = GetInfo(payer[p].address)]
    BY DEF ReadInfo
  <1>2. payer[p] \in Payer /\ Pays(payer[p]) /\ payer[p].address \in Addresses
    BY <1>1, PartsOfPayer DEF Payer
  <1>3. PICK i \in Info : i = GetInfo(payer[p].address)
    BY <1>1, <1>2, KeepInfoTypes
  <1>4. [payer[p] EXCEPT !.at = "options", !.info = i] \in Payer
    BY <1>2 DEF Payer
  <1>5. PICK x \in Payer : x = [payer[p] EXCEPT !.at = "options", !.info = i]
    BY <1>4
  <1>6. x.at = "options" /\ x.info = i /\ x.boltz = payer[p].boltz /\ x.why = payer[p].why
    BY <1>2, <1>5 DEF Payer
  <1>7. Pays(x)
    BY <1>1, <1>2, <1>6, NoneAssumption DEF Pays
  <1>8. payer' = [payer EXCEPT ![p] = x]
    BY <1>1, <1>3, <1>5 DEF IInv, TypeOK
  <1>9. QED
    BY <1>1, <1>2, <1>7, <1>8, KeepInfoTypes, PayerMoves DEF IInv, TypeOK

(* A payment goes from one place to another, and nothing else of it changes. *)
LEMMA GoingTo ==
  ASSUME IInv, NEW p \in Payers, payer[p] # None, NEW at \in {"swap", "liquid", "paid", "refused"},
         payer[p].at = "info" => FALSE,
         at = "swap" => payer[p].at = "invoice",
         payer' = [payer EXCEPT ![p].at = at],
         UNCHANGED <<caller, env, faults>>, cached' \in [Kinds -> BoltzLimits \cup {None}],
         info' \in [Addresses -> Info \cup {None}]
  PROVE  IInv'
  <1>1. payer[p] \in Payer /\ Pays(payer[p])
    BY PartsOfPayer
  <1>2. [payer[p] EXCEPT !.at = at] \in Payer
    BY <1>1 DEF Payer
  <1>3. PICK x \in Payer : x = [payer[p] EXCEPT !.at = at]
    BY <1>2
  <1>4. /\ x.at = at /\ x.info = payer[p].info /\ x.boltz = payer[p].boltz /\ x.why = payer[p].why
        /\ x.amount = payer[p].amount /\ x.used = payer[p].used
    BY <1>1, <1>3 DEF Payer
  <1>5. Pays(x)
    BY <1>1, <1>4 DEF Pays
  <1>6. payer' = [payer EXCEPT ![p] = x]
    BY <1>3 DEF IInv, TypeOK
  <1>7. QED
    BY <1>5, <1>6, PayerMoves DEF IInv, TypeOK

(* An accepted amount is refused, with the limits that do not take it. *)
LEMMA RefusedFor ==
  ASSUME IInv, NEW p \in Payers, payer[p] # None, payer[p].at \in {"invoice", "swap"},
         NEW why \in {"remote", "limits"}, NEW l \in Limits,
         ~Within(IF why = "remote" THEN ToMsat(payer[p].amount) ELSE payer[p].amount, l),
         payer' = [payer EXCEPT ![p].at = "refused", ![p].why = why, ![p].used = l],
         UNCHANGED <<caller, env, faults>>, cached' \in [Kinds -> BoltzLimits \cup {None}],
         info' \in [Addresses -> Info \cup {None}]
  PROVE  IInv'
  <1>1. payer[p] \in Payer /\ Pays(payer[p])
    BY PartsOfPayer
  <1>2. [payer[p] EXCEPT !.at = "refused", !.why = why, !.used = l] \in Payer
    BY <1>1 DEF Payer
  <1>3. PICK x \in Payer : x = [payer[p] EXCEPT !.at = "refused", !.why = why, !.used = l]
    BY <1>2
  <1>4. /\ x.at = "refused" /\ x.info = payer[p].info /\ x.boltz = payer[p].boltz /\ x.why = why
        /\ x.amount = payer[p].amount /\ x.used = l
    BY <1>1, <1>3 DEF Payer
  <1>5. Pays(x)
    BY <1>1, <1>4, LimitsAre DEF Pays
  <1>6. payer' = [payer EXCEPT ![p] = x]
    BY <1>3 DEF IInv, TypeOK
  <1>7. QED
    BY <1>5, <1>6, PayerMoves DEF IInv, TypeOK

(* The amount is checked against the limits both ends gave. *)
LEMMA Choosing == ASSUME IInv, NEW p \in Payers, GetPaymentOption(p) PROVE IInv'
  <1>1. payer[p] # None /\ payer[p].at = "options" /\ UNCHANGED <<info, caller, faults, env>>
    BY DEF GetPaymentOption
  <1>2. PICK b \in BoltzLimits : b = GetSubmarineSwapInfo
    BY Copies DEF IInv
  <1>3. cached' \in [Kinds -> BoltzLimits \cup {None}]
    <2>1. cached' = cached \/ cached' = Keep("submarine", b)
      BY <1>2 DEF GetPaymentOption
    <2>2. QED
      BY <2>1, Copies DEF IInv, TypeOK, Kinds
  <1>4. info' \in [Addresses -> Info \cup {None}]
    BY <1>1 DEF IInv, TypeOK
  <1>5. CASE payer[p].want \notin GetCurrencies(payer[p]) \/ ~AmountCheck(payer[p], b)
    <2>1. payer' = [payer EXCEPT ![p].at = "refused"]
      BY <1>2, <1>5 DEF GetPaymentOption
    <2>2. QED
      BY <1>1, <1>3, <1>4, <2>1, GoingTo
  <1>6. CASE ~(payer[p].want \notin GetCurrencies(payer[p]) \/ ~AmountCheck(payer[p], b)) /\ payer[p].want = "liquid"
    <2>1. payer' = [payer EXCEPT ![p].at = "liquid"]
      BY <1>2, <1>6 DEF GetPaymentOption
    <2>2. QED
      BY <1>1, <1>3, <1>4, <2>1, GoingTo
  <1>7. CASE ~(payer[p].want \notin GetCurrencies(payer[p]) \/ ~AmountCheck(payer[p], b)) /\ payer[p].want # "liquid"
    <2>1. payer' = [payer EXCEPT ![p].at = "invoice", ![p].boltz = b]
      BY <1>2, <1>7 DEF GetPaymentOption
    <2>2. payer[p] \in Payer /\ Pays(payer[p]) /\ b \in Limits /\ payer[p].want = "lightning" /\ b # None
      BY <1>1, <1>7, PartsOfPayer, LimitsAre DEF Payer
    <2>3. Within(payer[p].amount, LightningOption(payer[p].info.limits, b)) /\ payer[p].info # None
      BY <1>1, <1>7, <2>2 DEF AmountCheck, Pays
    <2>4. [payer[p] EXCEPT !.at = "invoice", !.boltz = b] \in Payer
      BY <2>2 DEF Payer
    <2>5. PICK x \in Payer : x = [payer[p] EXCEPT !.at = "invoice", !.boltz = b]
      BY <2>4
    <2>6. /\ x.at = "invoice" /\ x.info = payer[p].info /\ x.boltz = b /\ x.why = payer[p].why
          /\ x.amount = payer[p].amount /\ x.used = payer[p].used
      BY <2>2, <2>5 DEF Payer
    <2>7. Pays(x)
      BY <1>1, <2>2, <2>3, <2>6 DEF Pays
    <2>8. payer' = [payer EXCEPT ![p] = x]
      BY <2>1, <2>5 DEF IInv, TypeOK
    <2>9. QED
      BY <1>1, <1>3, <1>4, <2>7, <2>8, PayerMoves DEF IInv, TypeOK
  <1>8. QED
    BY <1>5, <1>6, <1>7

(* The invoice comes from this server. *)
LEMMA InvoiceOfLocal == ASSUME IInv, NEW p \in Payers, GetLocalInvoice(p) PROVE IInv'
  <1>1. /\ payer[p] # None /\ payer[p].at = "invoice" /\ UNCHANGED <<info, caller, faults, env>>
        /\ cached' = Keep("reverse", GetReverseSwapInfo)
        /\ payer' = [payer EXCEPT ![p].at = "swap"] \/ payer' = [payer EXCEPT ![p].at = "refused"]
    BY DEF GetLocalInvoice
  <1>2. cached' \in [Kinds -> BoltzLimits \cup {None}] /\ info' \in [Addresses -> Info \cup {None}]
    BY <1>1, Copies DEF IInv, TypeOK, Kinds
  <1>3. QED
    BY <1>1, <1>2, GoingTo

(* The invoice comes from another server, which may refuse by its own limits. *)
LEMMA InvoiceOfRemote == ASSUME IInv, NEW p \in Payers, GetRemoteInvoice(p) PROVE IInv'
  <1>1. /\ payer[p] # None /\ payer[p].at = "invoice" /\ KeepInfo("remote") /\ UNCHANGED <<caller, faults, env>>
        /\ payer' = IF Within(ToMsat(payer[p].amount), remote)
                    THEN [payer EXCEPT ![p].at = "swap"]
                    ELSE [payer EXCEPT ![p].at = "refused", ![p].why = "remote", ![p].used = remote]
    BY DEF GetRemoteInvoice
  <1>2. /\ cached' \in [Kinds -> BoltzLimits \cup {None}] /\ info' \in [Addresses -> Info \cup {None}]
        /\ remote \in Limits
    BY <1>1, KeepInfoTypes, LimitsAre DEF IInv, TypeOK, Addresses
  <1>3. CASE Within(ToMsat(payer[p].amount), remote)
    BY <1>1, <1>2, <1>3, GoingTo
  <1>4. CASE ~Within(ToMsat(payer[p].amount), remote)
    <2>1. PICK l \in Limits : l = remote
      BY <1>2
    <2>2. /\ payer' = [payer EXCEPT ![p].at = "refused", ![p].why = "remote", ![p].used = l]
          /\ ~Within(ToMsat(payer[p].amount), l)
      BY <1>1, <1>4, <2>1
    <2>3. QED
      BY <1>1, <1>2, <2>2, RefusedFor
  <1>5. QED
    BY <1>3, <1>4

(* The limits of Boltz are looked at once more before the swap. *)
LEMMA Checking == ASSUME IInv, NEW p \in Payers, CheckLimits(p) PROVE IInv'
  <1>1. PICK b \in BoltzLimits : b = GetSubmarineSwapInfo
    BY Copies DEF IInv
  <1>2. /\ payer[p] # None /\ payer[p].at = "swap" /\ UNCHANGED <<info, caller, faults, env>>
        /\ cached' = Keep("submarine", b)
        /\ payer' = IF ~Accepts(b, payer[p].amount)
                    THEN [payer EXCEPT ![p].at = "refused", ![p].why = "limits", ![p].used = b]
                    ELSE IF Within(payer[p].amount, boltz["submarine"])
                    THEN [payer EXCEPT ![p].at = "paid"]
                    ELSE [payer EXCEPT ![p].at = "refused"]
    BY <1>1 DEF CheckLimits
  <1>3. cached' \in [Kinds -> BoltzLimits \cup {None}] /\ info' \in [Addresses -> Info \cup {None}]
    BY <1>2, Copies DEF IInv, TypeOK, Kinds
  <1>4. payer[p].amount \in Nat /\ b \in Limits
    BY <1>2, PartsOfPayer, LimitsAre DEF Payer
  <1>5. CASE ~Accepts(b, payer[p].amount)
    <2>1. payer' = [payer EXCEPT ![p].at = "refused", ![p].why = "limits", ![p].used = b]
      BY <1>2, <1>5
    <2>2. ~Within(payer[p].amount, b)
      BY <1>4, <1>5, AcceptsWithin
    <2>3. QED
      BY <1>2, <1>3, <1>4, <2>1, <2>2, RefusedFor
  <1>6. CASE Accepts(b, payer[p].amount)
    <2>1. payer' = [payer EXCEPT ![p].at = "paid"] \/ payer' = [payer EXCEPT ![p].at = "refused"]
      BY <1>2, <1>6
    <2>2. QED
      BY <1>2, <1>3, <2>1, GoingTo
  <1>7. QED
    BY <1>5, <1>6

(* A payment that needs no swap, and one by a swap, keep what was accepted. *)
LEMMA Finishing ==
  ASSUME IInv, NEW p \in Payers, PayWithoutSwap(p) \/ PayOnchainLiquidAddress(p)
  PROVE  IInv'
  <1>1. /\ payer[p] # None /\ payer[p].at \in {"swap", "liquid"} /\ UNCHANGED <<info, caller, faults, env>>
        /\ payer' = [payer EXCEPT ![p].at = "paid"] \/ payer' = [payer EXCEPT ![p].at = "refused"]
        /\ cached' = cached \/ cached' = KeepCurrencies(cached)
    BY DEF PayWithoutSwap, PayOnchainLiquidAddress
  <1>2. cached' \in [Kinds -> BoltzLimits \cup {None}] /\ info' \in [Addresses -> Info \cup {None}]
    BY <1>1, Copies DEF IInv, TypeOK
  <1>3. QED
    BY <1>1, <1>2, GoingTo

-----------------------------------------------------------------------------
(* The steps around them. *)

LEMMA Leaving == ASSUME IInv, Forget \/ Fail PROVE IInv'
  <1>1. cached' \in [Kinds -> BoltzLimits \cup {None}] /\ UNCHANGED <<cached, info, env>>
    BY DEF Forget, Fail, IInv, TypeOK
  <1>2. faults' \in 0..MaxFaults
    <2>1. faults' = faults \/ (faults < MaxFaults /\ faults' = faults + 1)
      BY DEF Forget, Fail
    <2>2. QED
      BY <2>1, BoundsAssumption DEF IInv, TypeOK
  <1>3. \/ \E p \in Payers : payer' = [payer EXCEPT ![p] = None] /\ UNCHANGED caller
        \/ \E c \in Callers : caller' = [caller EXCEPT ![c] = None] /\ UNCHANGED payer
    BY DEF Forget, Fail
  <1>4. CASE \E p \in Payers : payer' = [payer EXCEPT ![p] = None] /\ UNCHANGED caller
    BY <1>1, <1>2, <1>4, PayerMoves DEF IInv, TypeOK
  <1>5. CASE \E c \in Callers : caller' = [caller EXCEPT ![c] = None] /\ UNCHANGED payer
    BY <1>1, <1>2, <1>5, CallerMoves DEF IInv, TypeOK
  <1>6. QED
    BY <1>3, <1>4, <1>5

(* Limits change and copies expire; what was answered remains. *)
LEMMA Changing == ASSUME IInv, CacheExpires \/ Change PROVE IInv'
  <1>1. UNCHANGED <<payer, caller, faults>>
    BY DEF CacheExpires, Change
  <1>2. TypeOK'
    <2>1. CASE CacheExpires
      <3>1. cached' \in [Kinds -> BoltzLimits \cup {None}]
        BY <2>1, Copies DEF CacheExpires, IInv, TypeOK
      <3>2. info' \in [Addresses -> Info \cup {None}] /\ UNCHANGED env
        BY <2>1 DEF CacheExpires, IInv, TypeOK
      <3>3. QED
        BY <1>1, <3>1, <3>2 DEF IInv, TypeOK, env
    <2>2. CASE Change
      <3>1. changes' \in 0..MaxChanges
        BY <2>2, BoundsAssumption DEF Change, IInv, TypeOK
      <3>2. boltz' \in [Kinds -> BoltzLimits] /\ remote' \in RemoteLimits
        BY <2>2 DEF Change, IInv, TypeOK
      <3>3. account' \in BOOLEAN
        BY <2>2, Zenon DEF Change, IInv, TypeOK
      <3>4. QED
        BY <1>1, <2>2, <3>1, <3>2, <3>3 DEF Change, IInv, TypeOK
    <2>3. QED
      BY <2>1, <2>2
  <1>3. QED
    BY <1>1, <1>2 DEF IInv, CallerInv, PayerInv

-----------------------------------------------------------------------------
(* The theorems about Lnurl. *)

LEMMA LnurlStep == IInv /\ [Next]_vars => IInv'
  <1> SUFFICES ASSUME IInv, [Next]_vars PROVE IInv'
    OBVIOUS
  <1>1. CASE UNCHANGED vars
    <2>1. UNCHANGED <<boltz, remote, account, cached, info, payer, caller, changes, faults>>
      BY <1>1 DEF vars
    <2>2. QED
      BY <2>1 DEF IInv, TypeOK, CallerInv, PayerInv
  <1>2. ASSUME NEW c \in Callers, \/ GetLnurl(c) \/ GetResponse(c) \/ GetInvoiceResponse(c)
                                  \/ GetBitcoinOnchainResponse(c) \/ GetChainResponse(c)
        PROVE  IInv'
    BY <1>2, Serving, Responding, Swapping, AnsweringLiquid
  <1>3. ASSUME NEW p \in Payers, PayLightningAddress(p) \/ ReadInfo(p) \/ GetPaymentOption(p) \/ GetLocalInvoice(p)
        PROVE  IInv'
    BY <1>3, Paying, Reading, Choosing, InvoiceOfLocal
  <1>4. ASSUME NEW p \in Payers, GetRemoteInvoice(p) \/ CheckLimits(p) \/ PayWithoutSwap(p) \/ PayOnchainLiquidAddress(p)
        PROVE  IInv'
    BY <1>4, InvoiceOfRemote, Checking, Finishing
  <1>5. QED
    BY <1>1, <1>2, <1>3, <1>4, Leaving, Changing DEF Next

(* It holds of every state of both sides. *)
LEMMA LnurlInvHolds == Spec => []IInv
  BY LnurlInit, LnurlStep, PTL DEF Spec

(* The types of Lnurl's state are kept. *)
THEOREM TypeCorrect == Spec => []TypeOK
  <1>1. IInv => TypeOK
    BY DEF IInv
  <1>2. QED
    BY <1>1, LnurlInvHolds, PTL

(* An invoice given to a wallet elsewhere is for its amount rounded up to the
   satoshi, and a wallet that keeps to the limits it was served is refused for
   its amount only with limits that would be served differently by now. *)
THEOREM CallerIsAlwaysServed == Spec => []CallerIsServed
  <1>1. IInv => CallerIsServed
    <2> SUFFICES ASSUME IInv PROVE CallerIsServed
      OBVIOUS
    <2>1. ASSUME NEW c \in Callers, caller[c] # None, caller[c].at = "invoiced", caller[c].way = "lightning"
          PROVE  caller[c].sats * K \in caller[c].asked..(caller[c].asked + K - 1)
      <3>1. caller[c].asked \in Nat /\ caller[c].sats = Ceil(caller[c].asked)
        BY <2>1, PartsOfCaller DEF Caller, Calls, ToSats
      <3>2. PICK n \in Nat, s \in Nat : n = caller[c].asked /\ s = Ceil(n) * K
        BY <3>1, CeilCovers
      <3>3. n <= s /\ s < n + K
        BY <3>2, CeilCovers
      <3>4. s \in n..(n + K - 1)
        BY <3>3, KAssumption
      <3>5. QED
        BY <3>1, <3>2, <3>4
    <2>2. ASSUME NEW c \in Callers, caller[c] # None, caller[c].at = "refused", caller[c].used # None,
                 NEW served, served # None, Within(caller[c].asked, served),
                 served = IF caller[c].way = "lightning" THEN LocalInfo(caller[c].used).limits ELSE caller[c].used
          PROVE  FALSE
      <3>1. /\ caller[c].asked \in Nat /\ caller[c].used \in Limits /\ caller[c].way \in {"lightning", "bitcoin"}
            /\ caller[c].sats = ToSats(caller[c].way, caller[c].asked) /\ ~Within(caller[c].sats, caller[c].used)
        BY <2>2, PartsOfCaller DEF Caller, Calls
      <3>2. CASE caller[c].way = "lightning"
        <4>1. served = [min |-> caller[c].used.min * K, max |-> caller[c].used.max * K]
          BY <2>2, <3>2 DEF LocalInfo
        <4>2. Within(Ceil(caller[c].asked), caller[c].used)
          BY <2>2, <3>1, <4>1, WithinRounded
        <4>3. QED
          BY <3>1, <3>2, <4>2 DEF ToSats
      <3>3. CASE caller[c].way = "bitcoin"
        BY <2>2, <3>1, <3>3 DEF ToSats
      <3>4. QED
        BY <3>1, <3>2, <3>3
    <2>3. InvoiceCoversTheRequest
      BY <2>1 DEF InvoiceCoversTheRequest
    <2>4. ServedLimitsAreHonoured
      <3> SUFFICES ASSUME NEW c \in Callers, caller[c] # None, caller[c].at = "refused", caller[c].used # None,
                          NEW served, served = caller[c].served[IF caller[c].way = "lightning" THEN "reverse" ELSE "chain"],
                          served # None, Within(caller[c].asked, served)
                   PROVE  (IF caller[c].way = "lightning" THEN LocalInfo(caller[c].used).limits ELSE caller[c].used) # served
        BY DEF ServedLimitsAreHonoured
      <3>1. QED
        BY <2>2
    <2>5. QED
      BY <2>3, <2>4 DEF CallerIsServed
  <1>2. QED
    BY <1>1, LnurlInvHolds, PTL

(* An amount that both ends took is refused later only under other limits,
   or not of whole satoshis; and it is within the address's limits to less than
   a satoshi. *)
THEOREM AcceptedAmountAlwaysHolds == Spec => []AcceptedAmountHolds
  <1>1. IInv => AcceptedAmountHolds
    <2> SUFFICES ASSUME IInv PROVE AcceptedAmountHolds
      OBVIOUS
    <2>1. ASSUME NEW p \in Payers, payer[p] # None, payer[p].boltz # None
          PROVE  /\ Within(payer[p].amount, payer[p].boltz)
                 /\ payer[p].amount * K > payer[p].info.limits.min - K
                 /\ payer[p].amount * K < payer[p].info.limits.max + K
                 /\ Whole(payer[p].info.limits) => Within(ToMsat(payer[p].amount), payer[p].info.limits)
      <3>1. /\ payer[p] \in Payer /\ payer[p].info \in Info /\ payer[p].boltz \in Limits /\ payer[p].amount \in Nat
            /\ Within(payer[p].amount, LightningOption(payer[p].info.limits, payer[p].boltz))
        BY <2>1, PartsOfPayer DEF Payer, Pays
      <3>2. payer[p].info.limits \in Limits
        BY <3>1 DEF Info, Limits
      <3>3. PICK l \in Limits, b \in Limits, n \in Nat :
              l = payer[p].info.limits /\ b = payer[p].boltz /\ n = payer[p].amount
        BY <3>1, <3>2
      <3>4. l.min \in Nat /\ l.max \in Nat /\ b.min \in Nat /\ b.max \in Nat
        BY DEF Limits
      <3>5. PICK f \in Nat, c \in Nat : f = Floor(l.min) /\ c = Ceil(l.max)
        BY <3>4, FloorCovers, CeilCovers
      <3>6. b.min <= n /\ n <= b.max /\ f <= n /\ n <= c
        <4>1. Max(b.min, f) <= n /\ n <= Min(b.max, c)
          BY <3>1, <3>3, <3>5 DEF Within, LightningOption
        <4>2. QED
          BY <3>4, <4>1 DEF Max, Min
      <3>7. /\ f * K <= n * K /\ n * K <= c * K /\ f * K \in Nat /\ c * K \in Nat /\ n * K \in Nat
        BY <3>6, Times
      <3>8. /\ l.min < f * K + K /\ c * K < l.max + K
            /\ l.min % K = 0 => f * K = l.min
            /\ l.max % K = 0 => c * K = l.max
        BY <3>4, <3>5, FloorCovers, CeilCovers
      <3>9. n * K > l.min - K /\ n * K < l.max + K
        BY <3>4, <3>7, <3>8, KAssumption
      <3>10. Whole(l) => Within(ToMsat(n), l)
        BY <3>7, <3>8 DEF Whole, Within, ToMsat
      <3>11. Within(n, b)
        BY <3>6 DEF Within
      <3>12. QED
        BY <3>3, <3>9, <3>10, <3>11
    <2>2. AcceptedAmountFits
      BY <2>1 DEF AcceptedAmountFits
    <2>3. AcceptedAmountIsServed
      BY <2>1, PartsOfPayer DEF AcceptedAmountIsServed, Pays
    <2>4. AcceptedAmountIsSwapped
      BY <2>1, PartsOfPayer DEF AcceptedAmountIsSwapped, Pays
    <2>5. QED
      BY <2>2, <2>3, <2>4 DEF AcceptedAmountHolds
  <1>2. QED
    BY <1>1, LnurlInvHolds, PTL
-----------------------------------------------------------------------------
(* Contacts.  The rows only grow, so what a message found or stored on its   *)
(* way is still there when the next step needs it; addresses are stored in   *)
(* lower case or noted, which is why two of one user that differ in case     *)
(* only are noted.                                                           *)

(* Every contact not noted is stored in lower case, and so is one about to be. *)
LowerInv ==
  /\ \A k \in contact : k[2].lower \/ k \in spelled
  /\ \A c \in Creators : create[c] # None /\ create[c].at \in {"check", "upsert"} => create[c].address.lower

(* A message is on its way in an attempt that is counted, to an address in lower
   case or noted; it reaches the receiver's row and event with the receiver's contact
   and copy behind it, and one's own with the receiver's copy of this attempt. *)
OnWay(m) ==
  /\ tries[m] # 0
  /\ send[m].to.lower \/ <<send[m].from, send[m].to>> \in spelled
  /\ send[m].at \in {"row", "event"} => <<send[m].to.user, C!AddressOf(send[m].from)>> \in contact
  /\ send[m].at = "event" =>
       \E c \in copy : c.owner = send[m].to.user /\ c.with = C!AddressOf(send[m].from) /\ c.received
  /\ send[m].shared /\ send[m].at \in {"event", "ownContact", "ownRow"} =>
       \E c \in copy : /\ c.received /\ c.message = m /\ c.try = tries[m]
                      /\ c.owner = send[m].to.user /\ c.with = C!AddressOf(send[m].from)
WayInv == \A m \in Messages : send[m] # None => OnWay(m)

(* The inductive invariant of Contacts. *)
CInv == C!TypeOK /\ LowerInv /\ WayInv /\ C!EventHasItsMessage /\ C!SentMeansDelivered

(* The parts of a message on its way. *)
LEMMA PartsOfSend ==
  ASSUME C!TypeOK, NEW m \in Messages, send[m] # None
  PROVE  /\ send[m] \in C!Send
         /\ send[m].from \in Users /\ send[m].to \in C!Addresses /\ send[m].shared \in BOOLEAN
         /\ send[m].to.user \in Users /\ C!AddressOf(send[m].from) \in C!Addresses
         /\ C!AddressOf(send[m].from).lower
  <1>1. send[m] \in C!Send
    BY DEF C!TypeOK
  <1>2. send[m].from \in Users /\ send[m].to \in C!Addresses /\ send[m].shared \in BOOLEAN
    BY <1>1 DEF C!Send
  <1>3. send[m].to.user \in Users
    BY <1>2 DEF C!Addresses
  <1>4. C!AddressOf(send[m].from) \in C!Addresses /\ C!AddressOf(send[m].from).lower
    BY <1>2, ContactsAssumption DEF C!AddressOf, C!Addresses
  <1>5. QED
    BY <1>1, <1>2, <1>3, <1>4

(* Going on keeps what is sent, from whom and to whom. *)
LEMMA GoesOn ==
  ASSUME C!TypeOK, NEW m \in Messages, send[m] # None, NEW at,
         at \in {"find", "address", "contact", "row", "event", "ownContact", "ownRow"},
         send' = [send EXCEPT ![m].at = at]
  PROVE  /\ send' \in [Messages -> C!Send \cup {None}]
         /\ send'[m].at = at
         /\ send'[m].from = send[m].from /\ send'[m].to = send[m].to /\ send'[m].shared = send[m].shared
         /\ \A n \in Messages : n # m => send'[n] = send[n]
  <1>1. PICK r \in C!Send : r = send[m]
    BY PartsOfSend
  <1>2. [r EXCEPT !.at = at] \in C!Send
    BY <1>1 DEF C!Send
  <1>3. send \in [Messages -> C!Send \cup {None}]
    BY DEF C!TypeOK
  <1>4. send'[m] = [r EXCEPT !.at = at]
    BY <1>1, <1>3
  <1>5. [r EXCEPT !.at = at].at = at /\ [r EXCEPT !.at = at].from = r.from /\ [r EXCEPT !.at = at].to = r.to
        /\ [r EXCEPT !.at = at].shared = r.shared
    BY <1>1 DEF C!Send
  <1>6. send' \in [Messages -> C!Send \cup {None}]
    <2>1. send' = [send EXCEPT ![m] = [r EXCEPT !.at = at]]
      BY <1>1
    <2>2. QED
      BY <1>2, <1>3, <2>1
  <1>7. QED
    BY <1>1, <1>3, <1>4, <1>5, <1>6

(* What is kept when rows only grow and nothing is on its way further. *)
LEMMA NothingMoves ==
  ASSUME CInv, contact \subseteq contact', copy' = copy,
         \A m \in Messages : send'[m] # None => send'[m] = send[m],
         UNCHANGED <<tries, told, spelled, heard>>
  PROVE  WayInv' /\ C!EventHasItsMessage' /\ C!SentMeansDelivered'
  <1>1. WayInv'
    <2> SUFFICES ASSUME NEW m \in Messages, (send[m] # None)' PROVE
          OnWay(m)'
      BY DEF WayInv, OnWay
    <2>1. send'[m] = send[m] /\ send[m] # None
      OBVIOUS
    <2>2. QED
      BY <2>1 DEF CInv, WayInv, OnWay, C!AddressOf
  <1>2. C!EventHasItsMessage'
    BY DEF CInv, C!EventHasItsMessage
  <1>3. C!SentMeansDelivered'
    BY DEF CInv, C!SentMeansDelivered, C!AddressOf
  <1>4. QED
    BY <1>1, <1>2, <1>3

(* Nobody has a contact or a message. *)
LEMMA ContactsInit == C!Init => CInv
  <1> SUFFICES ASSUME C!Init PROVE CInv
    OBVIOUS
  <1>1. C!TypeOK
    BY ContactsAssumption, BoundsAssumption DEF C!Init, C!TypeOK
  <1>2. LowerInv /\ WayInv /\ C!EventHasItsMessage /\ C!SentMeansDelivered
    BY DEF C!Init, LowerInv, WayInv, OnWay, C!EventHasItsMessage, C!SentMeansDelivered, C!AddressOf
  <1>3. QED
    BY <1>1, <1>2 DEF CInv

(* Creating a contact stores what was lowered before it was checked. *)
LEMMA CreationKeepsInv ==
  ASSUME CInv, NEW c \in Creators,
         C!Create(c) \/ C!GetContact(c) \/ C!CheckAddress(c) \/ C!UpsertContactForAccount(c)
  PROVE  CInv'
  <1> DEFINE Creation == [at : {"find", "check", "upsert", "done"}, by : Users, address : C!Addresses]
  <1>1. create \in [Creators -> Creation \cup {None}] /\ contact \subseteq Users \X C!Addresses
    BY DEF CInv, C!TypeOK
  <1>2. ASSUME create' \in [Creators -> Creation \cup {None}], contact' \subseteq Users \X C!Addresses,
               UNCHANGED <<copy, send, tries, told, spelled, listens, heard, queryFaults>>
        PROVE  C!TypeOK'
    BY <1>2 DEF CInv, C!TypeOK
  <1>3. CASE C!Create(c)
    <2>1. PICK u \in Users, a \in C!Addresses :
            create' = [create EXCEPT ![c] = [at |-> "find", by |-> u, address |-> a]]
      BY <1>3 DEF C!Create
    <2>2. create' \in [Creators -> Creation \cup {None}]
      BY <1>1, <2>1
    <2>3. C!TypeOK'
      BY <1>1, <1>2, <1>3, <2>2 DEF C!Create
    <2>4. LowerInv'
      BY <1>1, <1>3, <2>1 DEF C!Create, CInv, LowerInv
    <2>5. WayInv' /\ C!EventHasItsMessage' /\ C!SentMeansDelivered'
      BY <1>3, NothingMoves DEF C!Create
    <2>6. QED
      BY <2>3, <2>4, <2>5 DEF CInv
  <1>4. CASE C!GetContact(c)
    <2>1. PICK r \in Creation : r = create[c]
      BY <1>1, <1>4 DEF C!GetContact
    <2>2. PICK a \in C!Addresses : a = C!Lower(r.address) /\ a.lower
      <3>1. PICK b \in C!Addresses : b = r.address
        OBVIOUS
      <3>2. [b EXCEPT !.lower = TRUE] \in C!Addresses /\ [b EXCEPT !.lower = TRUE].lower
        BY DEF C!Addresses
      <3>3. QED
        BY <3>1, <3>2 DEF C!Lower
    <2>3. PICK at \in {"done", "check"} :
            create' = [create EXCEPT ![c] = [r EXCEPT !.at = at, !.address = a]]
      <3>1. CASE <<create[c].by, create[c].address>> \in contact
        <4>1. create' = [create EXCEPT ![c] = [r EXCEPT !.at = "done", !.address = a]]
          BY <1>1, <1>4, <2>1, <2>2, <3>1 DEF C!GetContact
        <4>2. QED
          BY <4>1
      <3>2. CASE <<create[c].by, create[c].address>> \notin contact
        <4>1. create' = [create EXCEPT ![c] = [r EXCEPT !.at = "check", !.address = a]]
          BY <1>1, <1>4, <2>1, <2>2, <3>2 DEF C!GetContact
        <4>2. QED
          BY <4>1
      <3>3. QED
        BY <3>1, <3>2
    <2>4. [r EXCEPT !.at = at, !.address = a] \in Creation /\ [r EXCEPT !.at = at, !.address = a].address = a
      OBVIOUS
    <2>5. create' \in [Creators -> Creation \cup {None}]
      BY <1>1, <2>3, <2>4
    <2>6. C!TypeOK'
      BY <1>1, <1>2, <1>4, <2>5 DEF C!GetContact
    <2>7. LowerInv'
      BY <1>1, <1>4, <2>2, <2>3, <2>4 DEF C!GetContact, CInv, LowerInv
    <2>8. WayInv' /\ C!EventHasItsMessage' /\ C!SentMeansDelivered'
      BY <1>4, NothingMoves DEF C!GetContact
    <2>9. QED
      BY <2>6, <2>7, <2>8 DEF CInv
  <1>5. ASSUME NEW at \in {"upsert", "done"}, create[c] # None,
               create[c].at = "check" \/ at = "done", create' = [create EXCEPT ![c].at = at]
        PROVE  /\ create' \in [Creators -> Creation \cup {None}]
               /\ \A d \in Creators : create'[d] # None /\ create'[d].at \in {"check", "upsert"}
                                        => create'[d].address.lower
    <2>1. PICK r \in Creation : r = create[c]
      BY <1>1, <1>5
    <2>2. create' = [create EXCEPT ![c] = [r EXCEPT !.at = at]] /\ [r EXCEPT !.at = at] \in Creation
      BY <1>5, <2>1
    <2>3. [r EXCEPT !.at = at].at = at /\ [r EXCEPT !.at = at].address = r.address
      OBVIOUS
    <2>4. r.at = "check" => r.address.lower
      BY <1>5, <2>1 DEF CInv, LowerInv
    <2>5. create'[c] = [r EXCEPT !.at = at] /\ \A d \in Creators : d # c => create'[d] = create[d]
      BY <1>1, <2>2
    <2>6. QED
      BY <1>1, <1>5, <2>1, <2>2, <2>3, <2>4, <2>5 DEF CInv, LowerInv
  <1>6. CASE C!CheckAddress(c)
    <2>1. PICK known \in BOOLEAN : create' = [create EXCEPT ![c].at = IF known THEN "upsert" ELSE "done"]
      <3>1. C!HasWallet(create[c].address) \in BOOLEAN
        <4>1. create[c] \in Creation
          BY <1>1, <1>6 DEF C!CheckAddress
        <4>2. create[c].address.lower \in BOOLEAN
          BY <4>1 DEF C!Addresses
        <4>3. QED
          BY <4>2, Zenon DEF C!HasWallet, C!IsLocal
      <3>2. QED
        BY <1>6, <3>1 DEF C!CheckAddress
    <2>2. PICK at \in {"upsert", "done"} : create' = [create EXCEPT ![c].at = at]
      BY <2>1
    <2>3. create[c] # None /\ create[c].at = "check"
          /\ UNCHANGED <<contact, copy, send, tries, told, spelled, listens, heard, queryFaults>>
      BY <1>6 DEF C!CheckAddress
    <2>4. C!TypeOK'
      BY <1>1, <1>2, <1>5, <2>2, <2>3
    <2>5. LowerInv'
      BY <1>5, <2>2, <2>3 DEF CInv, LowerInv
    <2>6. WayInv' /\ C!EventHasItsMessage' /\ C!SentMeansDelivered'
      BY <2>3, NothingMoves
    <2>7. QED
      BY <2>4, <2>5, <2>6 DEF CInv
  <1>7. CASE C!UpsertContactForAccount(c)
    <2>1. /\ create[c] # None /\ create[c].at = "upsert" /\ create' = [create EXCEPT ![c].at = "done"]
          /\ contact' = contact \cup {<<create[c].by, create[c].address>>}
          /\ UNCHANGED <<copy, send, tries, told, spelled, listens, heard, queryFaults>>
      BY <1>7 DEF C!UpsertContactForAccount
    <2>2. create[c] \in Creation /\ create[c].address.lower
      BY <1>1, <2>1 DEF CInv, LowerInv
    <2>3. contact' \subseteq Users \X C!Addresses
      BY <1>1, <2>1, <2>2
    <2>4. C!TypeOK'
      BY <1>2, <1>5, <2>1, <2>3
    <2>5. LowerInv'
      BY <1>5, <2>1, <2>2 DEF CInv, LowerInv
    <2>6. WayInv' /\ C!EventHasItsMessage' /\ C!SentMeansDelivered'
      BY <2>1, NothingMoves
    <2>7. QED
      BY <2>4, <2>5, <2>6 DEF CInv
  <1>8. QED
    BY <1>3, <1>4, <1>6, <1>7

(* A step of one message keeps what is true of the others. *)
LEMMA OneMoves ==
  ASSUME CInv, NEW m \in Messages, contact \subseteq contact', copy \subseteq copy', spelled \subseteq spelled',
         \A n \in Messages : n # m => send'[n] = send[n] /\ tries'[n] = tries[n],
         send'[m] # None =>
           OnWay(m)'
  PROVE  WayInv'
  <1> SUFFICES ASSUME NEW n \in Messages, (send[n] # None)' PROVE
        OnWay(n)'
    BY DEF WayInv, OnWay
  <1>1. CASE n = m
    BY <1>1
  <1>2. CASE n # m
    <2>1. send'[n] = send[n] /\ tries'[n] = tries[n] /\ send[n] # None
      BY <1>2
    <2>2. OnWay(n)
      BY <2>1 DEF CInv, WayInv
    <2>3. /\ (tries[n] # 0)' /\ (send[n].to.lower \/ <<send[n].from, send[n].to>> \in spelled)'
          /\ (send[n].at \in {"row", "event"} => <<send[n].to.user, C!AddressOf(send[n].from)>> \in contact)'
      BY <2>1, <2>2 DEF OnWay, C!AddressOf
    <2>4. (send[n].at = "event" =>
             \E c \in copy : c.owner = send[n].to.user /\ c.with = C!AddressOf(send[n].from) /\ c.received)'
      BY <2>1, <2>2 DEF OnWay, C!AddressOf
    <2>5. ASSUME (send[n].shared /\ send[n].at \in {"event", "ownContact", "ownRow"})'
          PROVE  (\E c \in copy : /\ c.received /\ c.message = n /\ c.try = tries[n]
                                 /\ c.owner = send[n].to.user /\ c.with = C!AddressOf(send[n].from))'
      <3>1. PICK c \in copy : /\ c.received /\ c.message = n /\ c.try = tries[n]
                             /\ c.owner = send[n].to.user /\ c.with = C!AddressOf(send[n].from)
        BY <2>1, <2>2, <2>5 DEF OnWay
      <3>2. c \in copy' /\ c.owner = send'[n].to.user /\ c.with = C!AddressOf(send'[n].from) /\ c.try = tries'[n]
        BY <2>1, <3>1
      <3>3. QED
        BY <3>1, <3>2 DEF C!AddressOf
    <2>6. QED
      BY <2>3, <2>4, <2>5 DEF OnWay
  <1>3. QED
    BY <1>1, <1>2

(* A message that starts has written nothing. *)
LEMMA SendMessageKeepsInv ==
  ASSUME CInv, NEW m \in Messages, C!SendMessage(m)
  PROVE  CInv'
  <1>1. /\ tries[m] < MaxTries /\ tries' = [tries EXCEPT ![m] = @ + 1]
        /\ UNCHANGED <<contact, copy, create, told, listens, heard, queryFaults>>
    BY DEF C!SendMessage
  <1>2. PICK k \in contact, a \in C!Addresses, p \in Processes, shared \in BOOLEAN, empty \in BOOLEAN :
          /\ send' = [send EXCEPT ![m] = [at |-> "find", from |-> k[1], to |-> a,
                                          shared |-> shared, empty |-> empty, by |-> p]]
          /\ spelled' = IF a.lower THEN spelled ELSE spelled \cup {<<k[1], a>>}
    BY DEF C!SendMessage
  <1>3. PICK u \in Users : u = k[1]
    BY DEF CInv, C!TypeOK
  <1>4. PICK r \in C!Send : /\ r = [at |-> "find", from |-> u, to |-> a, shared |-> shared,
                                    empty |-> empty, by |-> p]
                            /\ r.at = "find" /\ r.from = u /\ r.to = a
    <2> DEFINE new == [at |-> "find", from |-> u, to |-> a, shared |-> shared, empty |-> empty, by |-> p]
    <2>1. new \in C!Send
      BY DEF C!Send
    <2>2. new.at = "find" /\ new.from = u /\ new.to = a
      OBVIOUS
    <2>3. QED
      BY <2>1, <2>2
  <1>5. send \in [Messages -> C!Send \cup {None}] /\ tries \in [Messages -> 0..MaxTries]
    BY DEF CInv, C!TypeOK
  <1>6. /\ send' \in [Messages -> C!Send \cup {None}] /\ tries' \in [Messages -> 0..MaxTries]
        /\ send'[m] = r /\ tries'[m] # 0
        /\ \A n \in Messages : n # m => send'[n] = send[n] /\ tries'[n] = tries[n]
    BY <1>1, <1>2, <1>3, <1>4, <1>5, ContactsAssumption
  <1>6a. /\ spelled \subseteq spelled' /\ spelled' \subseteq Users \X C!Addresses
         /\ a.lower \/ <<u, a>> \in spelled'
    BY <1>2, <1>3 DEF CInv, C!TypeOK
  <1>7. C!TypeOK'
    BY <1>1, <1>6, <1>6a DEF CInv, C!TypeOK
  <1>8. LowerInv' /\ C!EventHasItsMessage' /\ C!SentMeansDelivered'
    <2>1. LowerInv'
      BY <1>1, <1>6a DEF CInv, LowerInv
    <2>2. QED
      BY <1>1, <2>1 DEF CInv, C!EventHasItsMessage, C!SentMeansDelivered, C!AddressOf
  <1>9. WayInv'
    <2>1. (send'[m].to.lower \/ <<send'[m].from, send'[m].to>> \in spelled') /\ send'[m].at = "find"
      BY <1>4, <1>6, <1>6a
    <2>2. contact \subseteq contact' /\ copy \subseteq copy' /\ spelled \subseteq spelled'
      BY <1>1, <1>6a
    <2>3. OnWay(m)'
      BY <1>6, <2>1 DEF OnWay
    <2>4. QED
      BY <1>6, <2>2, <2>3, OneMoves
  <1>10. QED
    BY <1>7, <1>8, <1>9 DEF CInv

(* Stopping a message, its query failed or its receiver unknown, undoes nothing. *)
LEMMA StopKeepsSends ==
  ASSUME CInv, NEW m \in Messages, C!Stop(m)
  PROVE  /\ send' \in [Messages -> C!Send \cup {None}]
         /\ \A n \in Messages : send'[n] # None => send'[n] = send[n]
  BY DEF C!Stop, CInv, C!TypeOK

(* A message that goes on to a step stands for what that step needs. *)
LEMMA GoKeepsInv ==
  ASSUME CInv, NEW m \in Messages, send[m] # None, NEW at,
         at \in {"find", "address", "contact", "row", "event", "ownContact", "ownRow"}, C!Go(m, at),
         contact \subseteq contact', contact' \subseteq Users \X C!Addresses,
         \A k \in contact' : k[2].lower \/ k \in spelled,
         copy \subseteq copy',
         \A c \in copy' : c \in [owner : Users, with : C!Addresses, received : BOOLEAN, message : Messages,
                                 try : 1..MaxTries, shared : BOOLEAN],
         C!EventHasItsMessage', C!SentMeansDelivered', heard' \subseteq Users \X C!Addresses,
         UNCHANGED <<create, tries, told, spelled, listens, queryFaults>>,
         at \in {"row", "event"} => <<send[m].to.user, C!AddressOf(send[m].from)>> \in contact',
         at = "event" =>
           \E c \in copy' : c.owner = send[m].to.user /\ c.with = C!AddressOf(send[m].from) /\ c.received,
         send[m].shared /\ at \in {"event", "ownContact", "ownRow"} =>
           \E c \in copy' : c.received /\ c.message = m /\ c.try = tries[m]
                            /\ c.owner = send[m].to.user /\ c.with = C!AddressOf(send[m].from)
  PROVE  CInv'
  <1>1. C!TypeOK /\ WayInv
    BY DEF CInv
  <1>2. /\ send' \in [Messages -> C!Send \cup {None}] /\ send'[m].at = at
        /\ send'[m].from = send[m].from /\ send'[m].to = send[m].to /\ send'[m].shared = send[m].shared
        /\ \A n \in Messages : n # m => send'[n] = send[n]
    BY <1>1, GoesOn DEF C!Go
  <1>3. C!TypeOK'
    BY <1>1, <1>2 DEF C!TypeOK
  <1>4. LowerInv'
    BY DEF CInv, LowerInv
  <1>5. tries[m] # 0 /\ (send[m].to.lower \/ <<send[m].from, send[m].to>> \in spelled)
    BY <1>1 DEF WayInv, OnWay
  <1>6. OnWay(m)'
    BY <1>2, <1>5 DEF OnWay, C!AddressOf
  <1>6a. WayInv'
    BY <1>2, <1>6, OneMoves
  <1>7. QED
    BY <1>3, <1>4, <1>6a DEF CInv

(* Looking up contacts, and creating the one that is missing. *)
LEMMA SendingKeepsInv ==
  ASSUME CInv, NEW m \in Messages,
         C!GetContactForAccount(m) \/ C!FindReceiver(m) \/ C!UpsertContact(m)
  PROVE  CInv'
  <1>1. C!TypeOK /\ LowerInv /\ WayInv /\ C!EventHasItsMessage /\ C!SentMeansDelivered
    BY DEF CInv
  <1>2. contact \subseteq Users \X C!Addresses /\ heard \subseteq Users \X C!Addresses
        /\ (\A k \in contact : k[2].lower \/ k \in spelled)
        /\ \A c \in copy : c \in [owner : Users, with : C!Addresses, received : BOOLEAN, message : Messages,
                                  try : 1..MaxTries, shared : BOOLEAN]
    BY <1>1 DEF C!TypeOK, LowerInv
  <1>3. CASE C!GetContactForAccount(m)
    <2>1. send[m] # None /\ UNCHANGED <<contact, copy, create, tries, told, spelled, listens, heard, queryFaults>>
      BY <1>3 DEF C!GetContactForAccount, C!At
    <2>2. C!EventHasItsMessage' /\ C!SentMeansDelivered'
      BY <1>1, <2>1 DEF C!EventHasItsMessage, C!SentMeansDelivered, C!AddressOf
    <2>3. CASE send[m].shared
      <3>1. C!Go(m, "address")
        BY <1>3, <2>3 DEF C!GetContactForAccount
      <3>2. QED
        BY <1>2, <2>1, <2>2, <3>1, GoKeepsInv
    <2>4. CASE ~send[m].shared
      <3>1. C!Go(m, "ownContact")
        BY <1>3, <2>4 DEF C!GetContactForAccount
      <3>2. QED
        BY <1>2, <2>1, <2>2, <2>4, <3>1, GoKeepsInv
    <2>5. QED
      BY <2>3, <2>4
  <1>4. CASE C!FindReceiver(m)
    <2>1. send[m] # None /\ UNCHANGED <<contact, copy, create, tries, told, spelled, listens, heard, queryFaults>>
      BY <1>4 DEF C!FindReceiver, C!At
    <2>2. C!EventHasItsMessage' /\ C!SentMeansDelivered'
      BY <1>1, <2>1 DEF C!EventHasItsMessage, C!SentMeansDelivered, C!AddressOf
    <2>3. CASE C!Go(m, "contact")
      BY <1>2, <2>1, <2>2, <2>3, GoKeepsInv
    <2>4. CASE C!Stop(m)
      <3>1. send' \in [Messages -> C!Send \cup {None}] /\ \A n \in Messages : send'[n] # None => send'[n] = send[n]
        BY <2>4, StopKeepsSends
      <3>2. C!TypeOK' /\ LowerInv'
        BY <1>1, <2>1, <3>1 DEF C!TypeOK, LowerInv
      <3>3. WayInv'
        BY <2>1, <3>1, NothingMoves
      <3>4. QED
        BY <2>2, <3>2, <3>3 DEF CInv
    <2>5. QED
      BY <1>4, <2>3, <2>4 DEF C!FindReceiver
  <1>5. CASE C!UpsertContact(m)
    <2>1. send[m] # None /\ UNCHANGED <<copy, create, tries, told, spelled, listens, heard, queryFaults>>
      BY <1>5 DEF C!UpsertContact, C!At
    <2>2. C!SentMeansDelivered'
      BY <1>1, <2>1 DEF C!SentMeansDelivered, C!AddressOf
    <2>3. ASSUME contact \subseteq contact' PROVE C!EventHasItsMessage'
      BY <1>1, <2>1, <2>3 DEF C!EventHasItsMessage
    <2>4. PICK from \in Users, to \in C!Addresses, address \in C!Addresses :
            /\ from = send[m].from /\ to = send[m].to /\ address = C!AddressOf(from)
            /\ to.user \in Users /\ address.lower
      BY <1>1, <2>1, PartsOfSend
    <2>5. to.lower \/ <<from, to>> \in spelled
      BY <1>1, <2>1, <2>4 DEF WayInv, OnWay
    <2>6. CASE C!At(m, "contact")
      <3>1. contact' = contact \cup {<<to.user, address>>} /\ C!Go(m, "row")
        BY <1>5, <2>4, <2>6 DEF C!UpsertContact, C!At
      <3>2. contact' \subseteq Users \X C!Addresses /\ \A k \in contact' : k[2].lower \/ k \in spelled
        BY <1>2, <2>4, <3>1
      <3>3. <<send[m].to.user, C!AddressOf(send[m].from)>> \in contact'
        BY <2>4, <3>1
      <3>4. QED
        BY <1>2, <2>1, <2>2, <2>3, <3>1, <3>2, <3>3, GoKeepsInv
    <2>7. CASE C!At(m, "ownContact")
      <3>1. contact' = contact \cup {<<from, to>>} /\ C!Go(m, "ownRow")
        BY <1>5, <2>4, <2>7 DEF C!UpsertContact, C!At
      <3>2. contact' \subseteq Users \X C!Addresses /\ \A k \in contact' : k[2].lower \/ k \in spelled
        BY <1>2, <2>4, <2>5, <3>1
      <3>3. send[m].shared => \E c \in copy' : c.received /\ c.message = m /\ c.try = tries[m]
                                               /\ c.owner = send[m].to.user /\ c.with = C!AddressOf(send[m].from)
        BY <1>1, <2>1, <2>7 DEF WayInv, OnWay, C!At
      <3>4. QED
        BY <1>2, <2>1, <2>2, <2>3, <3>1, <3>2, <3>3, GoKeepsInv
    <2>8. QED
      BY <1>5, <2>6, <2>7 DEF C!UpsertContact
  <1>6. QED
    BY <1>3, <1>4, <1>5

(* A row of a message has its types, and its copy of this attempt. *)
LEMMA CopyOf ==
  ASSUME CInv, NEW m \in Messages, send[m] # None, NEW owner \in Users, NEW with \in C!Addresses,
         NEW received \in BOOLEAN
  PROVE  \E c \in [owner : Users, with : C!Addresses, received : BOOLEAN, message : Messages,
                   try : 1..MaxTries, shared : BOOLEAN] :
           /\ c = [owner |-> owner, with |-> with, received |-> received, message |-> m, try |-> tries[m],
                   shared |-> send[m].shared]
           /\ c.owner = owner /\ c.with = with /\ c.received = received /\ c.message = m /\ c.try = tries[m]
           /\ c.shared = send[m].shared
  <1> DEFINE new == [owner |-> owner, with |-> with, received |-> received, message |-> m, try |-> tries[m],
                     shared |-> send[m].shared]
  <1>1. tries[m] \in 1..MaxTries
    <2>1. tries[m] \in 0..MaxTries
      BY DEF CInv, C!TypeOK
    <2>2. tries[m] # 0
      BY DEF CInv, WayInv, OnWay
    <2>3. QED
      BY <2>1, <2>2, ContactsAssumption
  <1>2. PICK shared \in BOOLEAN : shared = send[m].shared
    BY PartsOfSend DEF CInv
  <1>3. new \in [owner : Users, with : C!Addresses, received : BOOLEAN, message : Messages,
                 try : 1..MaxTries, shared : BOOLEAN]
    BY <1>1, <1>2
  <1>4. /\ new.owner = owner /\ new.with = with /\ new.received = received /\ new.message = m
        /\ new.try = tries[m] /\ new.shared = send[m].shared
    OBVIOUS
  <1>5. QED
    BY <1>3, <1>4

(* A copy of the message is stored, the receiver's first. *)
LEMMA SaveContactMessageKeepsInv ==
  ASSUME CInv, NEW m \in Messages, C!SaveContactMessage(m)
  PROVE  CInv'
  <1>1. C!TypeOK /\ LowerInv /\ WayInv /\ C!EventHasItsMessage /\ C!SentMeansDelivered
    BY DEF CInv
  <1>2. send[m] # None /\ UNCHANGED <<contact, create, tries, spelled, listens, heard, queryFaults>>
    BY DEF C!SaveContactMessage, C!At
  <1>3. PICK from \in Users, to \in C!Addresses, address \in C!Addresses :
          /\ from = send[m].from /\ to = send[m].to /\ address = C!AddressOf(from) /\ to.user \in Users
    BY <1>1, <1>2, PartsOfSend
  <1>4. contact \subseteq Users \X C!Addresses /\ heard \subseteq Users \X C!Addresses
        /\ (\A k \in contact : k[2].lower \/ k \in spelled)
        /\ \A c \in copy : c \in [owner : Users, with : C!Addresses, received : BOOLEAN, message : Messages,
                                  try : 1..MaxTries, shared : BOOLEAN]
    BY <1>1 DEF C!TypeOK, LowerInv
  <1>5. ASSUME copy \subseteq copy' PROVE C!EventHasItsMessage'
    BY <1>1, <1>2, <1>5 DEF C!EventHasItsMessage
  <1>6. CASE C!At(m, "row")
    <2>1. /\ copy' = copy \cup {[owner |-> to.user, with |-> address, received |-> TRUE, message |-> m,
                                 try |-> tries[m], shared |-> send[m].shared]}
          /\ C!Go(m, "event") /\ UNCHANGED told
      BY <1>3, <1>6 DEF C!SaveContactMessage, C!At
    <2>2. PICK c \in [owner : Users, with : C!Addresses, received : BOOLEAN, message : Messages,
                      try : 1..MaxTries, shared : BOOLEAN] :
            copy' = copy \cup {c} /\ c.owner = to.user /\ c.with = address /\ c.received /\ c.message = m
            /\ c.try = tries[m]
      <3>1. PICK u \in Users, received \in BOOLEAN : u = to.user /\ received = TRUE
        BY <1>3
      <3>2. PICK c \in [owner : Users, with : C!Addresses, received : BOOLEAN, message : Messages,
                        try : 1..MaxTries, shared : BOOLEAN] :
              /\ c = [owner |-> u, with |-> address, received |-> received, message |-> m, try |-> tries[m],
                      shared |-> send[m].shared]
              /\ c.owner = u /\ c.with = address /\ c.received = received /\ c.message = m /\ c.try = tries[m]
        BY <1>2, CopyOf
      <3>3. copy' = copy \cup {c}
        BY <2>1, <3>1, <3>2
      <3>4. QED
        BY <3>1, <3>2, <3>3
    <2>3. C!SentMeansDelivered'
      BY <1>1, <2>1, <2>2 DEF C!SentMeansDelivered, C!AddressOf
    <2>4. <<send[m].to.user, C!AddressOf(send[m].from)>> \in contact'
      BY <1>1, <1>2, <1>6 DEF WayInv, OnWay, C!At
    <2>5. \E d \in copy' : d.owner = send[m].to.user /\ d.with = C!AddressOf(send[m].from) /\ d.received
      BY <1>3, <2>2
    <2>6. \E d \in copy' : d.received /\ d.message = m /\ d.try = tries[m]
                           /\ d.owner = send[m].to.user /\ d.with = C!AddressOf(send[m].from)
      BY <1>3, <2>2
    <2>7. \A d \in copy' : d \in [owner : Users, with : C!Addresses, received : BOOLEAN, message : Messages,
                                  try : 1..MaxTries, shared : BOOLEAN]
      BY <1>4, <2>2
    <2>8. copy \subseteq copy'
      BY <2>2
    <2>9. QED
      BY <1>2, <1>4, <1>5, <2>1, <2>3, <2>4, <2>5, <2>6, <2>7, <2>8, GoKeepsInv
  <1>7. CASE C!At(m, "ownRow")
    <2>1. C!Stop(m)
      BY <1>7 DEF C!SaveContactMessage, C!At
    <2>2. send' \in [Messages -> C!Send \cup {None}] /\ \A n \in Messages : send'[n] # None => send'[n] = send[n]
      BY <2>1, StopKeepsSends
    <2>3. LowerInv'
      BY <1>1, <1>2 DEF LowerInv
    <2>4. CASE send[m].empty
      <3>1. UNCHANGED <<copy, told>>
        BY <1>7, <2>4 DEF C!SaveContactMessage, C!At
      <3>2. C!TypeOK'
        BY <1>1, <1>2, <2>2, <3>1 DEF C!TypeOK
      <3>3. WayInv' /\ C!EventHasItsMessage' /\ C!SentMeansDelivered'
        <4>1. C!EventHasItsMessage' /\ C!SentMeansDelivered'
          BY <1>1, <1>2, <3>1 DEF C!EventHasItsMessage, C!SentMeansDelivered, C!AddressOf
        <4>2. QED
          BY <1>2, <2>2, <3>1, <4>1, NothingMoves
      <3>4. QED
        BY <2>3, <3>2, <3>3 DEF CInv
    <2>5. CASE ~send[m].empty
      <3>1. /\ copy' = copy \cup {[owner |-> from, with |-> to, received |-> FALSE, message |-> m,
                                   try |-> tries[m], shared |-> send[m].shared]}
            /\ told' = told \cup {m}
        BY <1>3, <1>7, <2>5 DEF C!SaveContactMessage, C!At
      <3>2. PICK c \in [owner : Users, with : C!Addresses, received : BOOLEAN, message : Messages,
                        try : 1..MaxTries, shared : BOOLEAN] :
              copy' = copy \cup {c} /\ ~c.received /\ c.message = m /\ c.try = tries[m]
              /\ c.shared = send[m].shared /\ c.owner = from /\ c.with = to
        <4>1. PICK received \in BOOLEAN : received = FALSE
          OBVIOUS
        <4>2. PICK c \in [owner : Users, with : C!Addresses, received : BOOLEAN, message : Messages,
                          try : 1..MaxTries, shared : BOOLEAN] :
                /\ c = [owner |-> from, with |-> to, received |-> received, message |-> m, try |-> tries[m],
                        shared |-> send[m].shared]
                /\ c.received = received /\ c.message = m /\ c.try = tries[m] /\ c.shared = send[m].shared
                /\ c.owner = from /\ c.with = to
          BY <1>2, CopyOf
        <4>3. copy' = copy \cup {c}
          BY <3>1, <4>1, <4>2
        <4>4. QED
          BY <4>1, <4>2, <4>3
      <3>3. C!TypeOK'
        BY <1>1, <1>2, <1>4, <2>2, <3>1, <3>2 DEF C!TypeOK
      <3>4. c.shared => \E d \in copy : /\ d.received /\ d.message = c.message /\ d.try = c.try
                                        /\ d.owner = c.with.user /\ d.with = C!AddressOf(c.owner)
        <4>1. send[m].shared =>
                \E d \in copy : /\ d.received /\ d.message = m /\ d.try = tries[m]
                               /\ d.owner = send[m].to.user /\ d.with = C!AddressOf(send[m].from)
          BY <1>1, <1>2, <1>7 DEF WayInv, OnWay, C!At
        <4>2. QED
          BY <1>3, <3>2, <4>1
      <3>5. C!SentMeansDelivered'
        <4>1. \A d \in copy' : ~d.received /\ d.shared =>
                \E e \in copy' : /\ e.received /\ e.message = d.message /\ e.try = d.try
                                /\ e.owner = d.with.user /\ e.with = C!AddressOf(d.owner)
          BY <1>1, <3>2, <3>4 DEF C!SentMeansDelivered, C!AddressOf
        <4>2. \A n \in told' : \E d \in copy' : d.message = n /\ ~d.received
          BY <1>1, <3>1, <3>2 DEF C!SentMeansDelivered, C!AddressOf
        <4>3. QED
          BY <4>1, <4>2 DEF C!SentMeansDelivered, C!AddressOf
      <3>6. WayInv'
        <4>1. send'[m] = None /\ \A n \in Messages : n # m => send'[n] = send[n]
          BY <1>1, <2>1 DEF C!Stop, C!TypeOK
        <4>2. contact \subseteq contact' /\ copy \subseteq copy' /\ spelled \subseteq spelled' /\ tries' = tries
          BY <1>2, <3>2
        <4>3. QED
          BY <4>1, <4>2, OneMoves
      <3>7. QED
        BY <1>5, <2>3, <3>2, <3>3, <3>5, <3>6 DEF CInv
    <2>6. QED
      BY <2>4, <2>5
  <1>8. QED
    BY <1>6, <1>7 DEF C!SaveContactMessage

(* The event is emitted after the receiver's copy. *)
LEMMA EmitKeepsInv ==
  ASSUME CInv, NEW m \in Messages, C!Emit(m)
  PROVE  CInv'
  <1>1. C!TypeOK /\ LowerInv /\ WayInv /\ C!EventHasItsMessage /\ C!SentMeansDelivered
    BY DEF CInv
  <1>2. /\ send[m] # None /\ send[m].at = "event" /\ C!Go(m, "ownContact")
        /\ UNCHANGED <<contact, copy, create, tries, told, spelled, listens, queryFaults>>
    BY DEF C!Emit, C!At
  <1>3. PICK u \in Users, address \in C!Addresses :
          u = send[m].to.user /\ address = C!AddressOf(send[m].from)
    BY <1>1, <1>2, PartsOfSend
  <1>4. heard' = heard \/ heard' = heard \cup {<<u, address>>}
    BY <1>3 DEF C!Emit
  <1>5. <<u, address>> \in contact /\ \E c \in copy : c.owner = u /\ c.with = address /\ c.received
    BY <1>1, <1>2, <1>3 DEF WayInv, OnWay
  <1>6. heard' \subseteq Users \X C!Addresses
    BY <1>1, <1>4 DEF C!TypeOK
  <1>7. C!EventHasItsMessage'
    <2> SUFFICES ASSUME NEW e \in heard'
                 PROVE  e \in contact' /\ \E c \in copy' : c.owner = e[1] /\ c.with = e[2] /\ c.received
      BY DEF C!EventHasItsMessage
    <2>1. CASE e \in heard
      BY <1>1, <1>2, <2>1 DEF C!EventHasItsMessage
    <2>2. CASE e = <<u, address>>
      BY <1>2, <1>5, <2>2
    <2>3. QED
      BY <1>4, <2>1, <2>2
  <1>8. C!SentMeansDelivered'
    BY <1>1, <1>2 DEF C!SentMeansDelivered, C!AddressOf
  <1>9. send[m].shared => \E c \in copy' : c.received /\ c.message = m /\ c.try = tries[m]
                                           /\ c.owner = send[m].to.user /\ c.with = C!AddressOf(send[m].from)
    BY <1>1, <1>2 DEF WayInv, OnWay
  <1>10. contact \subseteq Users \X C!Addresses /\ (\A k \in contact : k[2].lower \/ k \in spelled)
         /\ \A c \in copy : c \in [owner : Users, with : C!Addresses, received : BOOLEAN, message : Messages,
                                   try : 1..MaxTries, shared : BOOLEAN]
    BY <1>1 DEF C!TypeOK, LowerInv
  <1>11. QED
    BY <1>2, <1>6, <1>7, <1>8, <1>9, <1>10, GoKeepsInv

(* A call that fails ends the message where it is. *)
LEMMA FailKeepsInv == ASSUME CInv, C!Fail PROVE CInv'
  <1>1. C!TypeOK /\ LowerInv /\ C!EventHasItsMessage /\ C!SentMeansDelivered
    BY DEF CInv
  <1>2. queryFaults' \in 0..MaxFaults /\ UNCHANGED <<contact, copy, tries, told, spelled, listens, heard>>
    BY <1>1, BoundsAssumption DEF C!Fail, C!TypeOK
  <1>3. CASE \E m \in Messages : send[m] # None /\ C!Stop(m) /\ UNCHANGED create
    <2>1. send' \in [Messages -> C!Send \cup {None}] /\ \A n \in Messages : send'[n] # None => send'[n] = send[n]
      BY <1>3, StopKeepsSends
    <2>2. C!TypeOK' /\ LowerInv'
      BY <1>1, <1>2, <1>3, <2>1 DEF C!TypeOK, LowerInv
    <2>3. QED
      BY <1>2, <2>1, <2>2, NothingMoves DEF CInv
  <1>4. CASE \E c \in Creators : /\ create[c] # None /\ create[c].at # "done"
                                 /\ create' = [create EXCEPT ![c].at = "done"] /\ UNCHANGED send
    <2> DEFINE Creation == [at : {"find", "check", "upsert", "done"}, by : Users, address : C!Addresses]
    <2>1. PICK c \in Creators : create[c] # None /\ create' = [create EXCEPT ![c].at = "done"] /\ UNCHANGED send
      BY <1>4
    <2>2. create \in [Creators -> Creation \cup {None}]
      BY <1>1 DEF C!TypeOK
    <2>3. PICK r \in Creation : r = create[c]
      BY <2>1, <2>2
    <2>4. create' = [create EXCEPT ![c] = [r EXCEPT !.at = "done"]] /\ [r EXCEPT !.at = "done"] \in Creation
          /\ [r EXCEPT !.at = "done"].at = "done"
      BY <2>1, <2>3
    <2>5. create' \in [Creators -> Creation \cup {None}]
      BY <2>2, <2>4
    <2>6. C!TypeOK'
      BY <1>1, <1>2, <2>1, <2>5 DEF C!TypeOK
    <2>7. LowerInv'
      BY <1>1, <1>2, <2>2, <2>4 DEF LowerInv
    <2>8. QED
      BY <1>2, <2>1, <2>6, <2>7, NothingMoves DEF CInv
  <1>5. QED
    BY <1>3, <1>4 DEF C!Fail

(* A client starts to listen. *)
LEMMA SubscribeKeepsInv == ASSUME CInv, NEW u \in Users, C!Subscribe(u) PROVE CInv'
  <1>1. listens' \in [Users -> Processes \cup {None}]
        /\ UNCHANGED <<contact, copy, send, create, tries, told, spelled, heard, queryFaults>>
    BY DEF C!Subscribe, CInv, C!TypeOK
  <1>2. C!TypeOK' /\ LowerInv'
    BY <1>1 DEF CInv, C!TypeOK, LowerInv
  <1>3. QED
    BY <1>1, <1>2, NothingMoves DEF CInv

(* Every step of a conversation keeps the invariant. *)
LEMMA ContactsNext == CInv /\ [C!Next]_(C!vars) => CInv'
  <1> SUFFICES ASSUME CInv, [C!Next]_(C!vars) PROVE CInv'
    OBVIOUS
  <1>1. CASE UNCHANGED C!vars
    <2>1. C!TypeOK' /\ LowerInv'
      BY <1>1 DEF C!vars, CInv, C!TypeOK, LowerInv
    <2>2. QED
      BY <1>1, <2>1, NothingMoves DEF C!vars, CInv
  <1>2. CASE C!Next
    BY <1>2, CreationKeepsInv, SendMessageKeepsInv, SendingKeepsInv, SaveContactMessageKeepsInv, EmitKeepsInv,
       FailKeepsInv, SubscribeKeepsInv DEF C!Next
  <1>3. QED
    BY <1>1, <1>2

(* It holds of every state of the conversations. *)
LEMMA ContactsInvHolds == C!Spec => []CInv
  BY ContactsInit, ContactsNext, PTL DEF C!Spec

(* Both sides of a conversation see it: the event of a message comes after its
   contact and its copy, a sent message has been delivered in the same attempt to
   the user its sender addressed, and no user has two contacts of one address but
   for the spellings, not in lower case, that it addressed messages in. *)
THEOREM ConversationsAreAlwaysWhole == C!Spec => []ConversationsAreWhole
  <1>1. CInv => ConversationsAreWhole
    <2> SUFFICES ASSUME CInv PROVE ConversationsAreWhole
      OBVIOUS
    <2>1. C!OneContactPerAddress
      <3> SUFFICES ASSUME NEW j \in contact \ spelled, NEW k \in contact \ spelled,
                          j[1] = k[1], C!Lower(j[2]) = C!Lower(k[2])
                   PROVE  j = k
        BY DEF C!OneContactPerAddress
      <3>1. j \in Users \X C!Addresses /\ k \in Users \X C!Addresses /\ j[2].lower /\ k[2].lower
        BY DEF CInv, C!TypeOK, LowerInv
      <3>2. ASSUME NEW a \in C!Addresses, a.lower PROVE C!Lower(a) = a
        BY <3>2 DEF C!Lower, C!Addresses
      <3>3. j[2] = k[2]
        BY <3>1, <3>2
      <3>4. QED
        BY <3>1, <3>3
    <2>2. QED
      BY <2>1 DEF CInv, ConversationsAreWhole, C!ConversationsAreWhole
  <1>2. QED
    BY <1>1, ContactsInvHolds, PTL

-----------------------------------------------------------------------------
(* Every execution of the two machines in one run is one of Lnurl and one of
   Contacts: what is proved of either holds of the run. *)
THEOREM RunOfBoth == MCSpec => Spec /\ C!Spec
  <1>1. MCInit => Init /\ C!Init
    BY DEF MCInit
  <1>2. [MCNext]_<<vars, contactVars>> => [Next]_vars /\ [C!Next]_(C!vars)
    BY DEF MCNext, contactVars, C!vars
  <1>3. QED
    BY <1>1, <1>2, PTL DEF MCSpec, Spec, C!Spec
=============================================================================
