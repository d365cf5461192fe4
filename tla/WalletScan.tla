----------------------------- MODULE WalletScan -----------------------------
(* The wallet of one descriptor as LiquidService sees it: a list of deltas   *)
(* in Redis, scans that extend it, addresses handed out, the scan lock.      *)
(*                                                                           *)
(* The wallet's transactions are numbered as they reach the chain; a delta   *)
(* takes a wallet that knows the first `from` of them to one that knows the  *)
(* first `to`.  Every await of a request is a point where others run.        *)
EXTENDS Naturals, Sequences

CONSTANTS
  Requests,
  Goals,      \* what requests ask for, see AllGoals
  MaxTxs,     \* bound: transactions of the wallet
  MaxIndex,   \* bound: address indices
  MaxFaults,  \* bound: failed calls, locks lost
  None

ASSUME GoalsAssumption == Goals \subseteq {"wallet", "address", "blockedAddress", "refresh"}
ASSUME BoundsAssumption == MaxTxs \in Nat /\ MaxIndex \in Nat /\ MaxFaults \in Nat

VARIABLES
  chain,      \* the address index each transaction of the wallet pays
  cache,      \* Redis: banco-walletdelta, a list of deltas, or None
  blocked,    \* Redis: banco-blocked-address, the indices blocked
  scanLock,   \* Redis: the request that holds walletScan, or None
  req,
  faults

vars == <<chain, cache, blocked, scanLock, req, faults>>

Index == 0..MaxIndex
Tip == Len(chain)
Delta == [from : 0..MaxTxs, to : 0..MaxTxs]

(* What is asked: the wallet (shown by queries, spent from by createPset), an
   address (with or without blocking it), a refresh. *)
AllGoals == {"wallet", "address", "blockedAddress", "refresh"}
Modes == {"none", "partial", "full"}
ModesOf(goal) == CASE goal = "wallet" -> {"none", "partial"}
                   [] goal = "refresh" -> {"partial", "full"}
                   [] OTHER -> {"partial"}
AddressGoals == {"address", "blockedAddress"}

Request == [goal : AllGoals, mode : Modes,
            at : {"read", "scan", "write", "probe", "block", "answer"},
            list : Seq(Delta), view : 0..MaxTxs, target : 0..MaxTxs, index : Index,
            tip : 0..MaxTxs,        \* observed: the tip when the request began
            taken : SUBSET Index]   \* observed: indices paid or blocked since before it began

ASSUME NoneAssumption == None \notin Request /\ None \notin Requests

TypeOK ==
  /\ chain \in Seq(Index) /\ Tip <= MaxTxs
  /\ cache = None \/ cache \in Seq(Delta)
  /\ blocked \subseteq Index
  /\ scanLock \in Requests \cup {None}
  /\ req \in [Requests -> Request \cup {None}]
  /\ faults \in 0..MaxFaults

Init ==
  /\ chain = <<>> /\ cache = None /\ blocked = {}
  /\ scanLock = None
  /\ req = [r \in Requests |-> None]
  /\ faults = 0

At(r, at) == req[r] # None /\ req[r].at = at
Set(r, request) == req' = [req EXCEPT ![r] = request]

Paid(n) == {chain[i] : i \in 1..n}

(* wollet.address(): the index after the last one paid in what the wallet knows. *)
NextIndex(n) == CHOOSE i \in Index : /\ \A j \in Paid(n) : j < i
                                     /\ i = 0 \/ i - 1 \in Paid(n)

(* What a wallet knows once a list of deltas is applied. *)
Known(list) == IF list = <<>> THEN 0 ELSE list[Len(list)].to

-----------------------------------------------------------------------------
(* A request that reaches getUpdatedWallet; a refresh needs the scan lock and
   is refused while another one holds it. *)
Begin(r, goal, mode) ==
  /\ req[r] = None
  /\ IF goal = "refresh" THEN scanLock = None /\ scanLock' = r ELSE UNCHANGED scanLock
  /\ Set(r, [goal |-> goal, mode |-> mode, at |-> "read", list |-> <<>>, view |-> 0, target |-> 0,
             index |-> 0, tip |-> Tip,
             taken |-> IF goal \in AddressGoals THEN blocked \cup Paid(Tip) ELSE {}])
  /\ UNCHANGED <<chain, cache, blocked, faults>>

(* getUpdates and getWolletWithUpdates: a full scan starts from nothing. *)
ReadCache(r) ==
  /\ At(r, "read")
  /\ LET list == IF req[r].mode = "full" \/ cache = None THEN <<>> ELSE cache IN
     Set(r, [req[r] EXCEPT !.at = "scan", !.list = list, !.view = Known(list)])
  /\ UNCHANGED <<chain, cache, blocked, scanLock, faults>>

(* What follows the updated wallet: the answer, or the search for an address. *)
Scanned(request, view) ==
  LET known == [request EXCEPT !.view = view, !.list = <<>>, !.target = 0]
  IN IF request.goal \in AddressGoals
     THEN [known EXCEPT !.at = "probe", !.index = NextIndex(view)]
     ELSE [known EXCEPT !.at = "answer"]

(* Mutant of Scan: a wallet that was ever scanned is not scanned again. *)
ScanOnlyOnce(r) ==
  LET known == req[r].view IN
  /\ At(r, "scan")
  /\ Set(r, IF known > 0 \/ Tip = known THEN Scanned(req[r], known)
            ELSE [req[r] EXCEPT !.at = "write", !.target = Tip])
  /\ UNCHANGED <<chain, cache, blocked, scanLock, faults>>

(* Mutant of Scan: it stops after one transaction. *)
ScanOnePage(r) ==
  LET known == req[r].view IN
  /\ At(r, "scan")
  /\ Set(r, IF (req[r].mode = "none" /\ req[r].list # <<>>) \/ Tip = known
            THEN Scanned(req[r], known)
            ELSE [req[r] EXCEPT !.at = "write", !.target = known + 1])
  /\ UNCHANGED <<chain, cache, blocked, scanLock, faults>>

(* updateWollet: 'none' scans a wallet that never was; a scan with nothing new
   (no update, or only a new tip) writes nothing. *)
Scan(r) ==
  LET known == req[r].view IN
  /\ At(r, "scan")
  /\ Set(r, IF (req[r].mode = "none" /\ req[r].list # <<>>) \/ Tip = known
            THEN Scanned(req[r], known)
            ELSE [req[r] EXCEPT !.at = "write", !.target = Tip])
  /\ UNCHANGED <<chain, cache, blocked, scanLock, faults>>

(* Mutant of WriteCache: the delta is added to the list that is in Redis now. *)
AppendToCache(r) ==
  /\ At(r, "write")
  /\ cache' = Append(IF cache = None THEN <<>> ELSE cache,
                     [from |-> req[r].view, to |-> req[r].target])
  /\ Set(r, Scanned(req[r], req[r].target))
  /\ UNCHANGED <<chain, blocked, scanLock, faults>>

(* The whole list read before, and the new delta, replace what is in Redis. *)
WriteCache(r) ==
  /\ At(r, "write")
  /\ cache' = Append(req[r].list, [from |-> req[r].view, to |-> req[r].target])
  /\ Set(r, Scanned(req[r], req[r].target))
  /\ UNCHANGED <<chain, blocked, scanLock, faults>>

-----------------------------------------------------------------------------
(* getOnchainAddress *)

(* Mutant of Probe: blocked addresses are not looked up. *)
ProbeNothing(r) ==
  /\ At(r, "probe")
  /\ Set(r, [req[r] EXCEPT !.at = IF req[r].goal = "blockedAddress" THEN "block" ELSE "answer"])
  /\ UNCHANGED <<chain, cache, blocked, scanLock, faults>>

(* One turn of the loop: a blocked index is passed over. *)
Probe(r) ==
  /\ At(r, "probe")
  /\ LET i == req[r].index IN
     IF i \in blocked
     THEN i < MaxIndex /\ Set(r, [req[r] EXCEPT !.index = i + 1])
     ELSE Set(r, [req[r] EXCEPT !.at = IF req[r].goal = "blockedAddress" THEN "block" ELSE "answer"])
  /\ UNCHANGED <<chain, cache, blocked, scanLock, faults>>

(* The address is blocked for five minutes. *)
Block(r) ==
  /\ At(r, "block")
  /\ blocked' = blocked \cup {req[r].index}
  /\ Set(r, [req[r] EXCEPT !.at = "answer"])
  /\ UNCHANGED <<chain, cache, scanLock, faults>>

(* The caller's answer; a refresh releases its lock. *)
Answer(r) ==
  /\ At(r, "answer")
  /\ scanLock' = IF scanLock = r THEN None ELSE scanLock
  /\ Set(r, None)
  /\ UNCHANGED <<chain, cache, blocked, faults>>

-----------------------------------------------------------------------------
(* A payment to an address of the wallet, handed out now or long ago, reaches
   the chain. *)
Receive(i) ==
  /\ Tip < MaxTxs /\ i < MaxIndex
  /\ chain' = Append(chain, i)
  /\ UNCHANGED <<cache, blocked, scanLock, req, faults>>

(* One week without a write, or Redis starts empty. *)
CacheExpires ==
  /\ cache # None
  /\ cache' = None
  /\ UNCHANGED <<chain, blocked, scanLock, req, faults>>

(* Five minutes have passed; unless it was paid the address is free again. *)
BlockExpires(i) ==
  /\ i \in blocked
  /\ blocked' = blocked \ {i}
  /\ req' = [r \in Requests |-> IF req[r] # None /\ i \notin Paid(req[r].tip)
                                THEN [req[r] EXCEPT !.taken = @ \ {i}] ELSE req[r]]
  /\ UNCHANGED <<chain, cache, scanLock, faults>>

(* The scan, Redis or the caller's next call fails: the lock is released. *)
Fail(r) ==
  /\ req[r] # None /\ faults < MaxFaults
  /\ faults' = faults + 1
  /\ Set(r, None)
  /\ scanLock' = IF scanLock = r THEN None ELSE scanLock
  /\ UNCHANGED <<chain, cache, blocked>>

(* The lock is not extended in time; the refresh goes on. *)
LoseScanLock ==
  /\ scanLock # None /\ faults < MaxFaults
  /\ faults' = faults + 1
  /\ scanLock' = None
  /\ UNCHANGED <<chain, cache, blocked, req>>

Continue(r) == ReadCache(r) \/ Scan(r) \/ WriteCache(r) \/ Probe(r) \/ Block(r) \/ Answer(r)

Next == \/ \E r \in Requests : \/ \E g \in Goals : \E m \in ModesOf(g) : Begin(r, g, m)
                               \/ Continue(r) \/ Fail(r)
        \/ \E i \in Index : Receive(i) \/ BlockExpires(i)
        \/ CacheExpires \/ LoseScanLock

Spec == Init /\ [][Next]_vars

-----------------------------------------------------------------------------
(* The list in Redis applies to an empty wallet without a gap, an overlap or a
   transaction that does not exist, whatever scans read, ran and wrote around
   each other: applyUpdate never meets a delta made for another wallet. *)
DeltasFit ==
  cache # None =>
    /\ \A i \in DOMAIN cache : cache[i].from < cache[i].to /\ cache[i].to <= Tip
    /\ \A i \in DOMAIN cache : cache[i].from = IF i = 1 THEN 0 ELSE cache[i-1].to

(* Whoever asks for a scan learns of every transaction that was there when it
   asked, even if its list was out of date or Redis had lost it. *)
ScanIsFresh ==
  \A r \in Requests :
    req[r] # None /\ req[r].mode # "none" /\ req[r].at \in {"probe", "block", "answer"}
      => req[r].view >= req[r].tip

(* What the list says is what the chain says, and is told to whoever asks. *)
ScanTellsTheTruth == DeltasFit /\ ScanIsFresh

(* An address is handed out only if it was neither paid nor blocked when it was
   asked for (or its block has expired since): two requests get the same one
   only when they overlap, or when the first did not block it. *)
AddressIsFree ==
  \A r \in Requests :
    req[r] # None /\ req[r].goal \in AddressGoals /\ req[r].at = "answer"
      => req[r].index \notin req[r].taken

(* A list written by a scan that began after another list was written knows at
   least as much; only a scan that began before can take knowledge back. *)
KnowledgeGrows ==
  [][cache # None /\ cache' # None /\ Known(cache') < Known(cache)
       => \E r \in Requests : At(r, "write") /\ req[r].tip < Known(cache)]_vars

=============================================================================
