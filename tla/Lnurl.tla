------------------------------- MODULE Lnurl -------------------------------
(* Lightning addresses: what this server tells wallets elsewhere about its   *)
(* addresses and answers to them, and how a user here pays an address, of    *)
(* this server or of another one.                                            *)
(*                                                                           *)
(* Amounts are checked several times on the way, each time against limits    *)
(* that were fetched at another moment: Boltz's are cached for an hour, an   *)
(* address's own for five minutes.  Lightning counts in millisatoshis, K to  *)
(* a satoshi.                                                                *)
EXTENDS Integers

CONSTANTS
  K,                     \* millisatoshis in a satoshi
  Payers, Callers,       \* payments made here; wallets elsewhere
  Amounts, Asked,        \* amounts asked for: satoshis here, millisatoshis elsewhere
  BoltzLimits,           \* limits Boltz may set, in satoshis
  RemoteLimits,          \* limits another server may set, in millisatoshis
  MaxChanges, MaxFaults, \* bounds: changes of limits, failed calls
  None

ASSUME KAssumption == K \in Nat \ {0}
ASSUME LimitAssumption == /\ Amounts \cup Asked \subseteq Nat
                          /\ BoltzLimits \cup RemoteLimits \subseteq [min : Nat, max : Nat]
ASSUME BoundsAssumption == MaxChanges \in Nat /\ MaxFaults \in Nat

Kinds == {"reverse", "submarine", "chain"}
Addresses == {"local", "remote"}
Max(a, b) == IF a > b THEN a ELSE b
Min(a, b) == IF a < b THEN a ELSE b
Ceil(msat) == (msat + K - 1) \div K
Floor(msat) == msat \div K
Within(n, l) == l.min <= n /\ n <= l.max
Whole(l) == l.min % K = 0 /\ l.max % K = 0

VARIABLES
  boltz,    \* the limits Boltz has now
  remote,   \* the limits the other server has now
  account,  \* whether the wallet of the local address has its Liquid account
  cached,   \* the copies of Boltz's limits in Redis, or None
  info,     \* the copies of the addresses' information in Redis, or None
  payer, caller,
  changes, faults

env == <<boltz, remote, account, changes>>
vars == <<boltz, remote, account, cached, info, payer, caller, changes, faults>>

(* What an address says of itself: limits in millisatoshis, and whether it
   also takes Liquid assets. *)
Info == [limits : [min : Nat, max : Nat], liquid : BOOLEAN]
Limits == [min : Nat, max : Nat]
Payer == [at : {"info", "options", "invoice", "swap", "liquid", "paid", "refused"},
          address : Addresses,
          want : {"lightning", "liquid"}, amount : Nat, info : Info \cup {None}, boltz : Limits \cup {None},
          why : {"no", "remote", "limits"}, used : Limits \cup {None}]
Caller == [at : {"info", "callback", "swap", "invoiced", "refused"},
           served : [Kinds -> Limits \cup {None}], way : {"none", "lightning", "bitcoin", "liquid"},
           asked : Nat, sats : Nat, used : Limits \cup {None}]

ASSUME NoneAssumption == None \notin Limits /\ None \notin Info /\ None \notin Payer /\ None \notin Caller

TypeOK ==
  /\ boltz \in [Kinds -> BoltzLimits] /\ remote \in RemoteLimits /\ account \in BOOLEAN
  /\ cached \in [Kinds -> BoltzLimits \cup {None}]
  /\ info \in [Addresses -> Info \cup {None}]
  /\ payer \in [Payers -> Payer \cup {None}]
  /\ caller \in [Callers -> Caller \cup {None}]
  /\ changes \in 0..MaxChanges /\ faults \in 0..MaxFaults

Init ==
  /\ boltz \in {[k \in Kinds |-> l] : l \in BoltzLimits} /\ remote \in RemoteLimits
  /\ account \in BOOLEAN
  /\ cached = [k \in Kinds |-> None] /\ info = [a \in Addresses |-> None]
  /\ payer = [p \in Payers |-> None] /\ caller = [c \in Callers |-> None]
  /\ changes = 0 /\ faults = 0

(* Boltz's limits of one kind, as this server sees them: the copy, or else
   what Boltz says, kept from then on. *)
GetReverseSwapInfo == IF cached["reverse"] = None THEN boltz["reverse"] ELSE cached["reverse"]
GetSubmarineSwapInfo == IF cached["submarine"] = None THEN boltz["submarine"] ELSE cached["submarine"]
GetChainSwapInfo == IF cached["chain"] = None THEN boltz["chain"] ELSE cached["chain"]

Keep(k, l) == [cached EXCEPT ![k] = l]

(* The currency list of a local address asks for the chain swap's limits. *)
KeepCurrencies(copies) == IF account THEN [copies EXCEPT !["chain"] = GetChainSwapInfo] ELSE copies

-----------------------------------------------------------------------------
(* What this server tells of a local address. *)

PayPaths(acc) == IF acc THEN {"lightning", "bitcoin", "liquid"} ELSE {"lightning"}

(* Mutant of LocalInfo: the limits are left in satoshis. *)
LocalInfoInSats(l) == [limits |-> l, liquid |-> account]

LocalInfo(l) == [limits |-> [min |-> l.min * K, max |-> l.max * K], liquid |-> account]

(* The well-known address: limits for Lightning, and for a Bitcoin address
   those of the currency list. *)
GetLnurl(c) ==
  /\ caller[c] = None
  /\ LET r == GetReverseSwapInfo
         h == GetChainSwapInfo
     IN /\ cached' = KeepCurrencies(Keep("reverse", r))
        /\ caller' = [caller EXCEPT ![c] =
             [at |-> "callback", way |-> "none", asked |-> 0, sats |-> 0, used |-> None,
              served |-> [k \in Kinds |-> CASE k = "reverse" -> LocalInfo(r).limits
                                            [] k = "chain" -> IF account THEN h ELSE None
                                            [] OTHER -> None]]]
  /\ UNCHANGED <<info, payer, faults, env>>

(* Mutant of ToSats: rounds down. *)
ToSatsDown(way, n) == IF way = "lightning" THEN Floor(n) ELSE n

(* Only Lightning amounts arrive in millisatoshis. *)
ToSats(way, n) == IF way = "lightning" THEN Ceil(n) ELSE n

(* getResponse: which answer is asked for, and in which unit.  An amount of
   zero counts as none. *)
GetResponse(c) ==
  /\ caller[c] # None /\ caller[c].at = "callback"
  /\ \E way \in PayPaths(TRUE), n \in Asked \ {0} :
       caller' = [caller EXCEPT ![c].at = "swap", ![c].way = way, ![c].asked = n,
                                ![c].sats = ToSats(way, n)]
  /\ UNCHANGED <<cached, info, payer, faults, env>>

Refuse(c, l) == [caller EXCEPT ![c].at = "refused", ![c].used = l]
Answer(c) == [caller EXCEPT ![c].at = "invoiced"]

(* Mutant of Accepts: the upper limit itself is refused. *)
AcceptsBelow(l, n) == l.min <= n /\ n < l.max

Accepts(l, n) == ~(l.max < n) /\ ~(l.min > n)

(* A reverse swap to the address's Liquid account; Boltz checks the amount
   once more. *)
GetInvoiceResponse(c) ==
  /\ caller[c] # None /\ caller[c].at = "swap" /\ caller[c].way = "lightning"
  /\ LET l == GetReverseSwapInfo
     IN /\ cached' = Keep("reverse", l)
        /\ caller' = IF ~Accepts(l, caller[c].sats) THEN Refuse(c, l)
                     ELSE IF ~account THEN Refuse(c, None)
                     ELSE IF Within(caller[c].sats, boltz["reverse"]) THEN Answer(c)
                     ELSE Refuse(c, boltz["reverse"])
  /\ UNCHANGED <<info, payer, faults, env>>

(* A chain swap from Bitcoin. *)
GetBitcoinOnchainResponse(c) ==
  /\ caller[c] # None /\ caller[c].at = "swap" /\ caller[c].way = "bitcoin"
  /\ LET l == GetChainSwapInfo
     IN /\ cached' = Keep("chain", l)
        /\ caller' = IF ~Accepts(l, caller[c].sats) THEN Refuse(c, l)
                     ELSE IF ~account THEN Refuse(c, None)
                     ELSE IF Within(caller[c].sats, boltz["chain"]) THEN Answer(c)
                     ELSE Refuse(c, boltz["chain"])
  /\ UNCHANGED <<info, payer, faults, env>>

(* An address of the wallet, without limits. *)
GetChainResponse(c) ==
  /\ caller[c] # None /\ caller[c].at = "swap" /\ caller[c].way = "liquid"
  /\ cached' = KeepCurrencies(cached)
  /\ caller' = IF account THEN Answer(c) ELSE Refuse(c, None)
  /\ UNCHANGED <<info, payer, faults, env>>

-----------------------------------------------------------------------------
(* Paying an address. *)

PayLightningAddress(p) ==
  /\ payer[p] = None
  /\ \E a \in Addresses, w \in {"lightning", "liquid"}, n \in Amounts :
       payer' = [payer EXCEPT ![p] = [at |-> "info", address |-> a, want |-> w, amount |-> n, info |-> None,
                                      boltz |-> None, why |-> "no", used |-> None]]
  /\ UNCHANGED <<cached, info, caller, faults, env>>

(* The copy, or else the address's own word, kept for five minutes. *)
GetInfo(a) == IF info[a] # None THEN info[a]
              ELSE IF a = "local" THEN LocalInfo(GetReverseSwapInfo)
              ELSE [limits |-> remote, liquid |-> FALSE]

KeepInfo(a) ==
  /\ info' = [info EXCEPT ![a] = GetInfo(a)]
  /\ cached' = IF a = "local" /\ info[a] = None
               THEN KeepCurrencies(Keep("reverse", GetReverseSwapInfo)) ELSE cached

ReadInfo(p) ==
  /\ payer[p] # None /\ payer[p].at = "info"
  /\ KeepInfo(payer[p].address)
  /\ payer' = [payer EXCEPT ![p].at = "options", ![p].info = GetInfo(payer[p].address)]
  /\ UNCHANGED <<caller, faults, env>>

(* Mutant of LightningOption: the wider of the two ranges. *)
WiderOption(l, b) == [min |-> Min(b.min, Floor(l.min)), max |-> Max(b.max, Ceil(l.max))]

(* Both ends must agree: the address's limits, to the satoshi, and those of
   the submarine swap that would pay it. *)
LightningOption(l, b) == [min |-> Max(b.min, Floor(l.min)), max |-> Min(b.max, Ceil(l.max))]

(* An address that takes Liquid assets offers only those; any other offers
   Lightning, if it gives limits. *)
GetCurrencies(x) ==
  IF x.info.liquid THEN {"liquid"}
  ELSE IF x.info.limits.min # 0 /\ x.info.limits.max # 0 THEN {"lightning"} ELSE {}

(* Liquid payments have no limits. *)
AmountCheck(x, b) == x.want = "lightning" => Within(x.amount, LightningOption(x.info.limits, b))

(* getPaymentOption and amountCheck, on the option the client asked for,
   which is Lightning if it named none. *)
GetPaymentOption(p) ==
  /\ payer[p] # None /\ payer[p].at = "options"
  /\ LET x == payer[p]
         b == GetSubmarineSwapInfo
     IN /\ cached' = IF "lightning" \in GetCurrencies(x) THEN Keep("submarine", b) ELSE cached
        /\ payer' = IF x.want \notin GetCurrencies(x) \/ ~AmountCheck(x, b)
                    THEN [payer EXCEPT ![p].at = "refused"]
                    ELSE IF x.want = "liquid" THEN [payer EXCEPT ![p].at = "liquid"]
                    ELSE [payer EXCEPT ![p].at = "invoice", ![p].boltz = b]
  /\ UNCHANGED <<info, caller, faults, env>>

(* The invoice of a local address: the same checks as for a wallet elsewhere. *)
GetLocalInvoice(p) ==
  /\ payer[p] # None /\ payer[p].at = "invoice" /\ payer[p].address = "local"
  /\ LET l == GetReverseSwapInfo
     IN /\ cached' = Keep("reverse", l)
        /\ payer' = IF Accepts(l, payer[p].amount) /\ account /\ Within(payer[p].amount, boltz["reverse"])
                    THEN [payer EXCEPT ![p].at = "swap"]
                    ELSE [payer EXCEPT ![p].at = "refused"]
  /\ UNCHANGED <<info, caller, faults, env>>

(* Mutant of ToMsat: the amount is sent in satoshis. *)
ToMsatNot(n) == n

ToMsat(n) == n * K

(* The address's information is read again for its callback; the other
   server then holds the amount against its limits of that moment. *)
GetRemoteInvoice(p) ==
  /\ payer[p] # None /\ payer[p].at = "invoice" /\ payer[p].address = "remote"
  /\ KeepInfo("remote")
  /\ payer' = IF Within(ToMsat(payer[p].amount), remote)
              THEN [payer EXCEPT ![p].at = "swap"]
              ELSE [payer EXCEPT ![p].at = "refused", ![p].why = "remote", ![p].used = remote]
  /\ UNCHANGED <<caller, faults, env>>

(* createSubmarineSwap: the limits are looked at again, then Boltz looks. *)
CheckLimits(p) ==
  /\ payer[p] # None /\ payer[p].at = "swap"
  /\ LET b == GetSubmarineSwapInfo
     IN /\ cached' = Keep("submarine", b)
        /\ payer' = IF ~Accepts(b, payer[p].amount)
                    THEN [payer EXCEPT ![p].at = "refused", ![p].why = "limits", ![p].used = b]
                    ELSE IF Within(payer[p].amount, boltz["submarine"])
                    THEN [payer EXCEPT ![p].at = "paid"]
                    ELSE [payer EXCEPT ![p].at = "refused"]
  /\ UNCHANGED <<info, caller, faults, env>>

(* An invoice with a hint or an open swap needs no new one (module Pay). *)
PayWithoutSwap(p) ==
  /\ payer[p] # None /\ payer[p].at = "swap"
  /\ payer' = [payer EXCEPT ![p].at = "paid"]
  /\ UNCHANGED <<cached, info, caller, faults, env>>

(* A Liquid address of the payee, asked of the local wallet. *)
PayOnchainLiquidAddress(p) ==
  /\ payer[p] # None /\ payer[p].at = "liquid"
  /\ cached' = KeepCurrencies(cached)
  /\ payer' = [payer EXCEPT ![p].at = IF account THEN "paid" ELSE "refused"]
  /\ UNCHANGED <<info, caller, faults, env>>

-----------------------------------------------------------------------------
Done(r) == r # None /\ r.at \in {"paid", "refused", "invoiced"}

Forget ==
  \/ \E p \in Payers : /\ Done(payer[p]) /\ payer' = [payer EXCEPT ![p] = None]
                       /\ UNCHANGED <<cached, info, caller, faults, env>>
  \/ \E c \in Callers : /\ Done(caller[c]) /\ caller' = [caller EXCEPT ![c] = None]
                        /\ UNCHANGED <<cached, info, payer, faults, env>>

(* A fetch fails, or the process stops, under a payment or an answer. *)
Fail ==
  /\ faults < MaxFaults /\ faults' = faults + 1
  /\ \/ \E p \in Payers : payer[p] # None /\ ~Done(payer[p]) /\ payer' = [payer EXCEPT ![p] = None] /\ UNCHANGED caller
     \/ \E c \in Callers : caller[c] # None /\ ~Done(caller[c]) /\ caller' = [caller EXCEPT ![c] = None] /\ UNCHANGED payer
  /\ UNCHANGED <<cached, info, env>>

(* Redis drops a copy whose time is over. *)
CacheExpires ==
  \/ \E k \in Kinds : cached[k] # None /\ cached' = Keep(k, None) /\ UNCHANGED <<info, payer, caller, faults, env>>
  \/ \E a \in Addresses : info[a] # None /\ info' = [info EXCEPT ![a] = None] /\ UNCHANGED <<cached, payer, caller, faults, env>>

(* Boltz and the other server set new limits; the wallet gets its account. *)
Change ==
  /\ changes < MaxChanges /\ changes' = changes + 1
  /\ \/ \E k \in Kinds, l \in BoltzLimits : boltz' = [boltz EXCEPT ![k] = l] /\ UNCHANGED <<remote, account>>
     \/ \E l \in RemoteLimits : remote' = l /\ UNCHANGED <<boltz, account>>
     \/ account' = TRUE /\ UNCHANGED <<boltz, remote>>
  /\ UNCHANGED <<cached, info, payer, caller, faults>>

Next ==
  \/ \E c \in Callers : GetLnurl(c) \/ GetResponse(c) \/ GetInvoiceResponse(c)
                        \/ GetBitcoinOnchainResponse(c) \/ GetChainResponse(c)
  \/ \E p \in Payers : PayLightningAddress(p) \/ ReadInfo(p) \/ GetPaymentOption(p) \/ GetLocalInvoice(p)
                       \/ GetRemoteInvoice(p) \/ CheckLimits(p) \/ PayWithoutSwap(p)
                       \/ PayOnchainLiquidAddress(p)
  \/ Forget \/ Fail \/ CacheExpires \/ Change

Spec == Init /\ [][Next]_vars

-----------------------------------------------------------------------------
(* An invoice given to a wallet elsewhere is for what it asked, rounded up to
   the satoshi: never less, and less than a satoshi more. *)
InvoiceCoversTheRequest ==
  \A c \in Callers : caller[c] # None /\ caller[c].at = "invoiced" /\ caller[c].way = "lightning" =>
    caller[c].sats * K \in caller[c].asked..(caller[c].asked + K - 1)

(* A wallet that keeps to the limits it was served is refused for its amount
   only under limits of Boltz that differ from those it was served: Boltz has
   changed them, and the copy looked at then and the one at the callback are of
   different times, in either order. *)
ServedLimitsAreHonoured ==
  \A c \in Callers : caller[c] # None /\ caller[c].at = "refused" /\ caller[c].used # None =>
    LET x == caller[c]
        served == x.served[IF x.way = "lightning" THEN "reverse" ELSE "chain"]
        now == IF x.way = "lightning" THEN LocalInfo(x.used).limits ELSE x.used
    IN served # None /\ Within(x.asked, served) => now # served

(* A wallet elsewhere that keeps to what it was told is served as it asked. *)
CallerIsServed == InvoiceCoversTheRequest /\ ServedLimitsAreHonoured

(* An amount accepted here lies within Boltz's limits and, to less than a
   satoshi, within those of the address. *)
AcceptedAmountFits ==
  \A p \in Payers : payer[p] # None /\ payer[p].boltz # None =>
    LET x == payer[p]
    IN /\ Within(x.amount, x.boltz)
       /\ x.amount * K > x.info.limits.min - K /\ x.amount * K < x.info.limits.max + K

(* The other server refuses an accepted amount only under limits other than
   those the amount was accepted by (which may have been an old copy), or if
   they are no whole satoshis. *)
AcceptedAmountIsServed ==
  \A p \in Payers : payer[p] # None /\ payer[p].why = "remote" =>
    payer[p].used # payer[p].info.limits \/ ~Whole(payer[p].info.limits)

(* Once there is an invoice for it, an amount fails the limits of the swap
   only if they are other limits than it was accepted by: one of the two looks,
   at copies each up to an hour old, has seen a change that the other has not. *)
AcceptedAmountIsSwapped ==
  \A p \in Payers : payer[p] # None /\ payer[p].why = "limits" => payer[p].used # payer[p].boltz

(* An amount that was accepted goes through, but for limits that changed. *)
AcceptedAmountHolds == AcceptedAmountFits /\ AcceptedAmountIsServed /\ AcceptedAmountIsSwapped
=============================================================================
