----------------------------- MODULE BoltzSwaps -----------------------------
(* The life of a Boltz swap across the processes that handle it: a server    *)
(* creates it at Boltz, stores its row, subscribes to its updates, and then  *)
(* every update Boltz publishes runs a handler, under a Redis lock of its    *)
(* own, that claims, co-signs, refunds or closes the swap.                   *)
(*                                                                           *)
(* Boltz, the chains and the lightning payment are external: Boltz publishes *)
(* truthful statuses and otherwise does whatever the keys, preimages and     *)
(* signatures it holds let it do.                                            *)
EXTENDS Naturals, FiniteSets, SwapStatus

CONSTANTS Swaps,       \* swaps a user may ask for
          Servers,     \* processes of the server
          Kinds,       \* kinds of swap, a subset of AllKinds
          NoServer,    \* no process: a free lock, a swap nobody creates
          Orphan,      \* holder of a lock whose process died, until its TTL
          Patient,     \* Boltz's timeouts never overtake a running handler
          MaxFaults,   \* calls to Boltz that fail or are refused in a run
          MaxOutages,  \* calls to Postgres or Redis that fail in a run
          MaxCrashes,  \* process crashes in a run
          MaxDrops,    \* websocket connections lost in a run
          MaxInFlight  \* updates of a swap in flight when Boltz publishes one

ASSUME KindsAssumption == Kinds \subseteq AllKinds
ASSUME ServersAssumption == NoServer \notin Servers /\ Orphan \notin Servers
                              /\ NoServer # Orphan
ASSUME BoundsAssumption == /\ Patient \in BOOLEAN
                           /\ MaxFaults \in Nat /\ MaxOutages \in Nat
                           /\ MaxCrashes \in Nat /\ MaxDrops \in Nat
                           /\ MaxInFlight \in Nat

VARIABLES
  kind,      \* kind[s]: the kind the user asks for
  creation,  \* creation[s]: how far the request that creates s has come
  owner,     \* owner[s]: the process that runs that request
  row,       \* row[s]: the wallet_account_swap row in Postgres
  stage,     \* stage[s]: the last status Boltz published
  give,      \* give[s]: what the user's side puts up
  get,       \* get[s]: what the user's side gets
  known,     \* known[s]: the secrets of the user Boltz has got hold of
  conn,      \* conn[v]: the websocket of process v
  snap,      \* snap[v]: the active swaps v read before it connected
  subs,      \* subs[v]: the swaps the socket of v is subscribed to
  wire,      \* updates on their way to a process
  task,      \* task[<<v, s, st>>]: the handler of v for that update
  lock,      \* lock[<<s, st>>]: the process that holds the Redis lock
  faults, outages, crashes, drops

database == <<kind, creation, owner, row>>
boltz == <<stage, give, get, known>>
sockets == <<conn, snap, subs>>
bounds == <<faults, outages, crashes, drops>>
vars == <<kind, creation, owner, row, stage, give, get, known,
          conn, snap, subs, wire, task, lock, faults, outages, crashes, drops>>

Keys == Swaps \X Statuses
Updates == Servers \X Swaps \X Statuses

CreationStates == {"none", "created", "subscribed", "stored", "returned", "failed"}
RowStates == {"absent", "active", "completed", "refunded"}
GiveStates == {"none", "locked", "claimed", "refunded"}
GetStates == {"none", "mempool", "confirmed", "claimed", "refunded"}
ConnStates == {"down", "loaded", "connecting", "open"}
TaskStates == {"idle", "locked", "markCompleted", "markRefunded",
               "claimInfo", "postSignature",
               "refundPrep", "refundCosign", "refundBroadcast",
               "prepare", "chainClaimInfo", "cosign", "cosignBare",
               "broadcast", "scriptPath"}

TypeOK ==
  /\ kind \in [Swaps -> Kinds]
  /\ creation \in [Swaps -> CreationStates]
  /\ owner \in [Swaps -> Servers \cup {NoServer}]
  /\ row \in [Swaps -> RowStates]
  /\ stage \in [Swaps -> Statuses]
  /\ give \in [Swaps -> GiveStates]
  /\ get \in [Swaps -> GetStates]
  /\ known \in [Swaps -> SUBSET {"preimage", "signature"}]
  /\ conn \in [Servers -> ConnStates]
  /\ snap \in [Servers -> SUBSET Swaps]
  /\ subs \in [Servers -> SUBSET Swaps]
  /\ wire \subseteq Updates
  /\ task \in [Updates -> TaskStates]
  /\ lock \in [Keys -> Servers \cup {NoServer, Orphan}]
  /\ faults \in 0..MaxFaults /\ outages \in 0..MaxOutages
  /\ crashes \in 0..MaxCrashes /\ drops \in 0..MaxDrops

Init ==
  /\ kind \in [Swaps -> Kinds]
  /\ creation = [s \in Swaps |-> "none"]
  /\ owner = [s \in Swaps |-> NoServer]
  /\ row = [s \in Swaps |-> "absent"]
  /\ stage = [s \in Swaps |-> "swap.created"]
  /\ give = [s \in Swaps |-> "none"]
  /\ get = [s \in Swaps |-> "none"]
  /\ known = [s \in Swaps |-> {}]
  /\ conn = [v \in Servers |-> "down"]
  /\ snap = [v \in Servers |-> {}]
  /\ subs = [v \in Servers |-> {}]
  /\ wire = {}
  /\ task = [u \in Updates |-> "idle"]
  /\ lock = [k \in Keys |-> NoServer]
  /\ faults = 0 /\ outages = 0 /\ crashes = 0 /\ drops = 0

(* A call to Boltz fails: it refuses, its answer does not parse or is lost, or
   it cannot be reached. *)
BoltzFault == /\ faults < MaxFaults
              /\ faults' = faults + 1
              /\ UNCHANGED <<outages, crashes, drops>>
(* A call to Postgres or Redis fails. *)
Outage == /\ outages < MaxOutages
          /\ outages' = outages + 1
          /\ UNCHANGED <<faults, crashes, drops>>

-----------------------------------------------------------------------------
(* Creating a swap: createSubmarineSwap, createReverseSwap, createChainSwap. *)

SubscribesFirst(s) == kind[s] \notin ChainKinds

(* Limits are checked and Boltz answers the POST; were it to refuse, nothing
   would exist on either side. *)
CreateSwap(v, s) ==
  /\ creation[s] = "none"
  /\ creation' = [creation EXCEPT ![s] = "created"]
  /\ owner' = [owner EXCEPT ![s] = v]
  /\ UNCHANGED <<kind, row, boltz, sockets, wire, task, lock, bounds>>

(* subscribeToSwap: send throws while the socket is connecting, which fails
   the request; with no socket, or a closed one, it does nothing. Boltz answers
   a subscription with the current status. *)
Subscribe(v, s) ==
  /\ owner[s] = v
  /\ creation[s] = IF SubscribesFirst(s) THEN "created" ELSE "stored"
  /\ creation' = [creation EXCEPT ![s] =
                    IF conn[v] = "connecting" THEN "failed"
                    ELSE IF SubscribesFirst(s) THEN "subscribed" ELSE "returned"]
  /\ IF conn[v] = "open"
     THEN /\ subs' = [subs EXCEPT ![v] = @ \cup {s}]
          /\ wire' = wire \cup {<<v, s, stage[s]>>}
     ELSE UNCHANGED <<subs, wire>>
  /\ UNCHANGED <<kind, owner, row, boltz, conn, snap, task, lock, bounds>>

(* Mutant of StoreSwap: the insert is not awaited, its failure goes unseen. *)
StoreSwapUnawaited(v, s) ==
  /\ owner[s] = v
  /\ creation[s] = IF SubscribesFirst(s) THEN "subscribed" ELSE "created"
  /\ creation' = [creation EXCEPT ![s] = "stored"]
  /\ \/ row' = [row EXCEPT ![s] = "active"] /\ UNCHANGED bounds
     \/ Outage /\ UNCHANGED row
  /\ UNCHANGED <<kind, owner, boltz, sockets, wire, task, lock>>

(* swapsRepo.createSwap inserts the row, or throws and fails the request. *)
StoreSwap(v, s) ==
  /\ owner[s] = v
  /\ creation[s] = IF SubscribesFirst(s) THEN "subscribed" ELSE "created"
  /\ \/ /\ creation' = [creation EXCEPT ![s] = "stored"]
        /\ row' = [row EXCEPT ![s] = "active"]
        /\ UNCHANGED bounds
     \/ /\ Outage
        /\ creation' = [creation EXCEPT ![s] = "failed"]
        /\ UNCHANGED row
  /\ UNCHANGED <<kind, owner, boltz, sockets, wire, task, lock>>

(* The response reaches the user: only now is there anything to pay. *)
ReturnSwap(v, s) ==
  /\ owner[s] = v
  /\ SubscribesFirst(s) /\ creation[s] = "stored"
  /\ creation' = [creation EXCEPT ![s] = "returned"]
  /\ UNCHANGED <<kind, owner, row, boltz, sockets, wire, task, lock, bounds>>

-----------------------------------------------------------------------------
(* The websocket of a process: startSubscription. *)

(* getPendingSwaps reads the active rows... *)
LoadPending(v) ==
  /\ conn[v] = "down"
  /\ conn' = [conn EXCEPT ![v] = "loaded"]
  /\ snap' = [snap EXCEPT ![v] = {s \in Swaps : row[s] = "active"}]
  /\ UNCHANGED <<database, boltz, subs, wire, task, lock, bounds>>

(* ... and then the socket is made. *)
Connect(v) ==
  /\ conn[v] = "loaded"
  /\ conn' = [conn EXCEPT ![v] = "connecting"]
  /\ UNCHANGED <<database, boltz, snap, subs, wire, task, lock, bounds>>

(* Mutant of Open: the pending swaps are not subscribed to. *)
OpenWithoutPending(v) ==
  /\ conn[v] = "connecting"
  /\ conn' = [conn EXCEPT ![v] = "open"]
  /\ UNCHANGED <<database, boltz, snap, subs, wire, task, lock, bounds>>

(* On 'open' the process subscribes to what it read. *)
Open(v) ==
  /\ conn[v] = "connecting"
  /\ conn' = [conn EXCEPT ![v] = "open"]
  /\ subs' = [subs EXCEPT ![v] = snap[v]]
  /\ wire' = wire \cup {<<v, s, stage[s]>> : s \in snap[v]}
  /\ UNCHANGED <<database, boltz, snap, task, lock, bounds>>

(* Mutant of DropConnection: the socket is left closed and not restarted. *)
DropWithoutRestart(v) ==
  /\ conn[v] \in {"connecting", "open"}
  /\ drops < MaxDrops /\ drops' = drops + 1
  /\ conn' = [conn EXCEPT ![v] = "closed"]
  /\ subs' = [subs EXCEPT ![v] = {}]
  /\ UNCHANGED <<database, boltz, snap, wire, task, lock, faults, outages, crashes>>

(* The connection fails or dies; updates that have not arrived are lost. *)
DropConnection(v) ==
  /\ conn[v] \in {"connecting", "open"}
  /\ drops < MaxDrops /\ drops' = drops + 1
  /\ conn' = [conn EXCEPT ![v] = "down"]
  /\ subs' = [subs EXCEPT ![v] = {}]
  /\ \E lost \in SUBSET {u \in wire : u[1] = v} : wire' = wire \ lost
  /\ UNCHANGED <<database, boltz, snap, task, lock, faults, outages, crashes>>

-----------------------------------------------------------------------------
(* Handlers. An update u = <<v, s, st>> that reaches v runs one handler of v
   under the lock <<s, st>>; eachSeries and the Redis round trip only delay
   it. A second copy is dropped while the first one has the lock; where that one
   has lost it, the second waits for the first to end. *)

KeyOf(u) == <<u[2], u[3]>>
SwapOf(u) == u[2]

Goto(u, state) == task' = [task EXCEPT ![u] = state]

(* Mutant of Finish: the lock is deleted whoever holds it. *)
FinishAndUnlock(u) ==
  /\ Goto(u, "idle")
  /\ lock' = [lock EXCEPT ![KeyOf(u)] = NoServer]

(* The handler returns or throws; redlock deletes the lock if it is still the
   handler's own and usingWithoutError logs the exception. *)
Finish(u) ==
  /\ Goto(u, "idle")
  /\ lock' = [lock EXCEPT ![KeyOf(u)] = IF @ = u[1] THEN NoServer ELSE @]

(* Mutant of TakeLock: the lock is not exclusive. *)
TakeLockAnyway(u) ==
  /\ u \in wire /\ task[u] = "idle"
  /\ wire' = wire \ {u}
  /\ Goto(u, "locked")
  /\ lock' = [lock EXCEPT ![KeyOf(u)] = u[1]]
  /\ UNCHANGED <<database, boltz, sockets, bounds>>

(* The lock is free: retryCount is 0, so there is a single attempt. *)
TakeLock(u) ==
  /\ u \in wire /\ task[u] = "idle"
  /\ lock[KeyOf(u)] = NoServer
  /\ wire' = wire \ {u}
  /\ Goto(u, "locked")
  /\ lock' = [lock EXCEPT ![KeyOf(u)] = u[1]]
  /\ UNCHANGED <<database, boltz, sockets, bounds>>

(* The lock is taken, by another process or for a first copy here, or Redis is
   unreachable, which redlock reports with the same "unable to achieve a quorum":
   the update is dropped silently. *)
SkipUpdate(u) ==
  /\ u \in wire
  /\ \/ lock[KeyOf(u)] # NoServer /\ UNCHANGED bounds
     \/ task[u] = "idle" /\ Outage
  /\ wire' = wire \ {u}
  /\ UNCHANGED <<database, boltz, sockets, task, lock>>

(* Mutant of ReadSwap: an exception leaves the lock behind, without a TTL. *)
ReadSwapAndKeepLock(u) ==
  /\ task[u] = "locked"
  /\ LET job == Job(kind[SwapOf(u)], u[3])
     IN Goto(u, IF row[SwapOf(u)] = "absent" \/ job = "finish" THEN "idle" ELSE job)
  /\ UNCHANGED <<database, boltz, sockets, wire, lock, bounds>>

(* getBoltzSwapByBoltzId and the switch on status and type. *)
ReadSwap(u) ==
  /\ task[u] = "locked"
  /\ LET job == Job(kind[SwapOf(u)], u[3])
     IN IF row[SwapOf(u)] = "absent" \/ job = "finish"
        THEN Finish(u)
        ELSE Goto(u, job) /\ UNCHANGED lock
  /\ UNCHANGED <<database, boltz, sockets, wire, bounds>>

MarkCompleted(u) ==
  /\ task[u] = "markCompleted"
  /\ row' = [row EXCEPT ![SwapOf(u)] = IF @ = "refunded" THEN @ ELSE "completed"]
  /\ Finish(u)
  /\ UNCHANGED <<kind, creation, owner, boltz, sockets, wire, bounds>>

MarkRefunded(u) ==
  /\ task[u] = "markRefunded"
  /\ row' = [row EXCEPT ![SwapOf(u)] = "refunded"]
  /\ Finish(u)
  /\ UNCHANGED <<kind, creation, owner, boltz, sockets, wire, bounds>>

(* Only a paid invoice gives Boltz its preimage. *)
InvoicePaid(s) == get[s] = "claimed"

(* Mutant of CheckPreimage: the preimage is not compared with the invoice. *)
TrustPreimage(u) ==
  /\ task[u] = "claimInfo"
  /\ Goto(u, "postSignature")
  /\ UNCHANGED <<database, boltz, sockets, wire, lock, bounds>>

(* handleSubmarineSwap: Boltz asks for our signature and shows the preimage of
   the invoice; any other preimage ends the handler. *)
CheckPreimage(u) ==
  /\ task[u] = "claimInfo"
  /\ IF InvoicePaid(SwapOf(u)) THEN Goto(u, "postSignature") /\ UNCHANGED lock
                                ELSE Finish(u)
  /\ UNCHANGED <<database, boltz, sockets, wire, bounds>>

PostSignature(u) ==
  /\ task[u] = "postSignature"
  /\ known' = [known EXCEPT ![SwapOf(u)] = @ \cup {"signature"}]
  /\ Finish(u)
  /\ UNCHANGED <<database, stage, give, get, sockets, wire, bounds>>

(* handleRefund: the wallet, a fresh address and the lockup transaction. *)
PrepareRefund(u) ==
  /\ task[u] = "refundPrep"
  /\ Goto(u, "refundCosign")
  /\ UNCHANGED <<database, boltz, sockets, wire, lock, bounds>>

(* Boltz co-signs the refund of a swap it has given up. *)
CosignRefund(u) ==
  /\ task[u] = "refundCosign"
  /\ IF stage[SwapOf(u)] \in FailureStatuses \cup {"swap.expired"}
     THEN Goto(u, "refundBroadcast") /\ UNCHANGED lock
     ELSE Finish(u)
  /\ UNCHANGED <<database, boltz, sockets, wire, bounds>>

(* Mutant of BroadcastRefund: the refund is not recorded. *)
BroadcastRefundOnly(u) ==
  /\ task[u] = "refundBroadcast"
  /\ Finish(u)
  /\ give' = IF give[SwapOf(u)] = "locked" THEN [give EXCEPT ![SwapOf(u)] = "refunded"]
                                           ELSE give
  /\ UNCHANGED <<database, stage, get, known, sockets, wire, bounds>>

BroadcastRefund(u) ==
  /\ task[u] = "refundBroadcast"
  /\ IF give[SwapOf(u)] = "locked"
     THEN /\ give' = [give EXCEPT ![SwapOf(u)] = "refunded"]
          /\ \/ Goto(u, "markRefunded") /\ UNCHANGED <<lock, bounds>>
             \/ BoltzFault /\ Finish(u)       \* the answer is lost
     ELSE Finish(u) /\ UNCHANGED <<give, bounds>>
  /\ UNCHANGED <<database, stage, get, known, sockets, wire>>

(* handleReverse and handleChain: build the claim transaction... *)
PrepareClaim(u) ==
  /\ task[u] = "prepare"
  /\ Goto(u, IF kind[SwapOf(u)] \in ChainKinds THEN "chainClaimInfo" ELSE "cosign")
  /\ UNCHANGED <<database, boltz, sockets, wire, lock, bounds>>

(* ... for a chain swap ask for Boltz's own claim, to sign it in exchange; an
   error is taken to mean that Boltz signs without it... *)
GetChainClaimInfo(u) ==
  /\ task[u] = "chainClaimInfo"
  /\ Goto(u, "cosign") \/ Goto(u, "cosignBare")
  /\ UNCHANGED <<database, boltz, sockets, wire, lock, bounds>>

(* ... post the preimage, and that signature, for Boltz's partial signature. A
   refusal, or an answer that is lost, leaves Boltz with the secrets. *)
PostClaim(u) ==
  /\ task[u] = "cosign"
  /\ known' = [known EXCEPT ![SwapOf(u)] = @ \cup
                 IF kind[SwapOf(u)] \in ChainKinds
                 THEN {"preimage", "signature"} ELSE {"preimage"}]
  /\ \/ Goto(u, "broadcast") /\ UNCHANGED bounds
     \/ BoltzFault /\ Goto(u, "scriptPath")
  /\ UNCHANGED <<database, stage, give, get, sockets, wire, lock>>

(* getSigChainSwap without preimage when there was no claim to sign. *)
PostClaimBare(u) ==
  /\ task[u] = "cosignBare"
  /\ Goto(u, "broadcast")
  /\ UNCHANGED <<database, boltz, sockets, wire, lock, bounds>>

Claimable(s) == get[s] \in {"mempool", "confirmed"}

(* The key path spend; when its broadcast is refused the exception starts the
   handler over with cooperative = false. *)
BroadcastClaim(u) ==
  /\ task[u] = "broadcast"
  /\ IF Claimable(SwapOf(u))
     THEN /\ get' = [get EXCEPT ![SwapOf(u)] = "claimed"]
          /\ \/ Finish(u) /\ UNCHANGED bounds
             \/ BoltzFault /\ Goto(u, "scriptPath") /\ UNCHANGED lock
     ELSE Goto(u, "scriptPath") /\ UNCHANGED <<get, lock, bounds>>
  /\ UNCHANGED <<database, stage, give, known, sockets, wire>>

(* The script path spend shows the preimage on the chain. *)
BroadcastScriptPath(u) ==
  /\ task[u] = "scriptPath"
  /\ Finish(u)
  /\ IF Claimable(SwapOf(u))
     THEN /\ get' = [get EXCEPT ![SwapOf(u)] = "claimed"]
          /\ known' = [known EXCEPT ![SwapOf(u)] = @ \cup {"preimage"}]
     ELSE UNCHANGED <<get, known>>
  /\ UNCHANGED <<database, stage, give, sockets, wire, bounds>>

(* Mutants of AfterFault: no second attempt; a failed refund taken for done. *)
AfterFaultGiveUp(state) ==
  IF state \in {"idle", "locked", "markCompleted", "markRefunded"} THEN {} ELSE {"idle"}
AfterFaultGoOn(state) ==
  CASE state = "refundBroadcast" -> {"markRefunded"}
    [] state \in {"prepare", "cosign", "cosignBare", "broadcast"} -> {"scriptPath"}
    [] OTHER -> {}

(* Where a call to Boltz that fails leaves the handler: only the cooperative
   claim has a second attempt. *)
AfterFault(state) ==
  CASE state \in {"prepare", "cosign", "cosignBare", "broadcast"} -> {"scriptPath"}
    [] state \in {"claimInfo", "postSignature", "refundPrep", "refundCosign",
                  "refundBroadcast", "scriptPath"} -> {"idle"}
    [] OTHER -> {}

CallFails(u) ==
  /\ BoltzFault
  /\ \E state \in AfterFault(task[u]) :
       IF state = "idle" THEN Finish(u) ELSE Goto(u, state) /\ UNCHANGED lock
  /\ UNCHANGED <<database, boltz, sockets, wire>>

(* A query of Postgres fails: it is never retried. *)
QueryFails(u) ==
  /\ task[u] \in {"locked", "markCompleted", "markRefunded", "refundPrep"}
  /\ Outage
  /\ Finish(u)
  /\ UNCHANGED <<database, boltz, sockets, wire>>

(* Redis does not extend the lock and its 10 s pass: the handler, which reads
   the abort signal only after its work, goes on without the lock. *)
LoseLock(u) ==
  /\ task[u] # "idle" /\ lock[KeyOf(u)] = u[1]
  /\ Outage
  /\ lock' = [lock EXCEPT ![KeyOf(u)] = NoServer]
  /\ UNCHANGED <<database, boltz, sockets, wire, task>>

(* A process dies: its requests, its socket and its handlers are gone, and its
   locks stay in Redis... *)
Crash(v) ==
  /\ crashes < MaxCrashes /\ crashes' = crashes + 1
  /\ conn' = [conn EXCEPT ![v] = "down"]
  /\ subs' = [subs EXCEPT ![v] = {}]
  /\ wire' = {u \in wire : u[1] # v}
  /\ task' = [u \in Updates |-> IF u[1] = v THEN "idle" ELSE task[u]]
  /\ lock' = [k \in Keys |-> IF lock[k] = v THEN Orphan ELSE lock[k]]
  /\ creation' = [s \in Swaps |->
                    IF owner[s] = v /\ creation[s] # "returned" THEN "failed"
                                                                ELSE creation[s]]
  /\ UNCHANGED <<kind, owner, row, boltz, snap, faults, outages, drops>>

(* ... until their time to live has passed. *)
ExpireLock(k) ==
  /\ lock[k] = Orphan
  /\ lock' = [lock EXCEPT ![k] = NoServer]
  /\ UNCHANGED <<database, boltz, sockets, wire, task, bounds>>

-----------------------------------------------------------------------------
(* Boltz, the chains and the user's wallet. *)

InFlight(s) == {u \in Updates : SwapOf(u) = s /\ (u \in wire \/ task[u] # "idle")}

Publish(s, status) ==
  /\ Cardinality(InFlight(s)) < MaxInFlight
  /\ stage' = [stage EXCEPT ![s] = status]
  /\ wire' = wire \cup {<<v, s, status>> : v \in {w \in Servers : s \in subs[w]}}

(* Boltz's timeouts are hours, requests and handlers take seconds: a patient
   Boltz never times out while the swap is being created, or an update of it is
   on its way or being handled. *)
Quiet(s) == InFlight(s) = {}
MayTimeOut(s) == Patient => Quiet(s) /\ creation[s] \in {"returned", "failed"}

(* The user pays the lockup address; for a reverse swap a payer pays the hold
   invoice, which Boltz does not publish. *)
Fund(s) ==
  /\ creation[s] = "returned" /\ stage[s] = "swap.created" /\ give[s] = "none"
  /\ give' = [give EXCEPT ![s] = "locked"]
  /\ IF kind[s] = "reverse" THEN UNCHANGED <<stage, wire>>
                            ELSE Publish(s, "transaction.mempool")
  /\ UNCHANGED <<database, get, known, sockets, task, lock, bounds>>

(* Boltz asks for the signature of a submarine swap, having paid or not. *)
AskSignature(s) ==
  /\ kind[s] = "submarine" /\ give[s] = "locked"
  /\ stage[s] = "transaction.mempool"
  /\ Publish(s, "transaction.claim.pending")
  /\ UNCHANGED <<database, give, get, known, sockets, task, lock, bounds>>

PayInvoice(s) ==
  /\ kind[s] = "submarine" /\ give[s] = "locked" /\ get[s] = "none"
  /\ stage[s] \in {"transaction.mempool", "transaction.claim.pending"}
  /\ get' = [get EXCEPT ![s] = "claimed"]
  /\ UNCHANGED <<database, stage, give, known, sockets, wire, task, lock, bounds>>

(* The invoice of a submarine swap cannot be paid, or the lockup of either kind
   is of the wrong amount. *)
GiveUp(s) ==
  /\ give[s] = "locked" /\ get[s] = "none"
  /\ \/ /\ kind[s] = "submarine"
        /\ stage[s] \in {"transaction.mempool", "transaction.claim.pending"}
        /\ Publish(s, "invoice.failedToPay")
     \/ /\ kind[s] # "reverse" /\ stage[s] = "transaction.mempool"
        /\ Publish(s, "transaction.lockupFailed")
  /\ UNCHANGED <<database, give, get, known, sockets, task, lock, bounds>>

(* Boltz locks its side of a reverse or a chain swap... *)
LockServer(s) ==
  /\ kind[s] # "submarine" /\ give[s] = "locked" /\ get[s] = "none"
  /\ IF kind[s] = "reverse"
     THEN stage[s] = "swap.created" /\ Publish(s, "transaction.mempool")
     ELSE stage[s] = "transaction.mempool" /\ Publish(s, "transaction.server.mempool")
  /\ get' = [get EXCEPT ![s] = "mempool"]
  /\ UNCHANGED <<database, give, known, sockets, task, lock, bounds>>

(* ... it confirms, which is news only while the swap is not over... *)
ConfirmServer(s) ==
  /\ get[s] = "mempool"
  /\ get' = [get EXCEPT ![s] = "confirmed"]
  /\ IF stage[s] \in CompletingStatuses THEN UNCHANGED <<stage, wire>>
     ELSE Publish(s, IF kind[s] = "reverse" THEN "transaction.confirmed"
                                            ELSE "transaction.server.confirmed")
  /\ UNCHANGED <<database, give, known, sockets, task, lock, bounds>>

(* ... or Boltz cannot lock, and lets a hold invoice go. *)
FailServer(s) ==
  /\ kind[s] # "submarine" /\ give[s] = "locked" /\ get[s] = "none"
  /\ stage[s] = IF kind[s] = "reverse" THEN "swap.created" ELSE "transaction.mempool"
  /\ give' = IF kind[s] = "reverse" THEN [give EXCEPT ![s] = "refunded"] ELSE give
  /\ Publish(s, "transaction.failed")
  /\ UNCHANGED <<database, get, known, sockets, task, lock, bounds>>

(* Boltz takes what the user locked as soon as it has the means: the preimage
   (of the invoice it paid, or ours) or our signature. *)
CanTake(s) == \/ kind[s] = "submarine" /\ InvoicePaid(s)
              \/ known[s] # {}

TakeGive(s) ==
  /\ give[s] = "locked" /\ CanTake(s)
  /\ give' = [give EXCEPT ![s] = "claimed"]
  /\ Publish(s, IF kind[s] = "reverse" THEN "invoice.settled" ELSE "transaction.claimed")
  /\ UNCHANGED <<database, get, known, sockets, task, lock, bounds>>

(* The lock of Boltz was not claimed in time: it goes back to Boltz, and so
   does a hold invoice whose preimage never came. *)
RefundServer(s) ==
  /\ Claimable(s) /\ MayTimeOut(s)
  /\ get' = [get EXCEPT ![s] = "refunded"]
  /\ give' = IF kind[s] = "reverse" /\ give[s] = "locked" /\ known[s] = {}
             THEN [give EXCEPT ![s] = "refunded"] ELSE give
  /\ Publish(s, "transaction.refunded")
  /\ UNCHANGED <<database, known, sockets, task, lock, bounds>>

(* A swap that is not paid for, or that Boltz has given up, expires. *)
Expire(s) ==
  /\ creation[s] # "none" /\ get[s] = "none" /\ MayTimeOut(s)
  /\ \/ give[s] = "none" /\ stage[s] = "swap.created"
     \/ kind[s] # "reverse" /\ stage[s] \in FailureStatuses \cup {"transaction.mempool"}
  /\ \/ Publish(s, "swap.expired")
     \/ kind[s] = "reverse" /\ Publish(s, "invoice.expired")
  /\ UNCHANGED <<database, give, get, known, sockets, task, lock, bounds>>

-----------------------------------------------------------------------------

HandlerStep(u) ==
  \/ TakeLock(u) \/ SkipUpdate(u) \/ ReadSwap(u)
  \/ MarkCompleted(u) \/ MarkRefunded(u)
  \/ CheckPreimage(u) \/ PostSignature(u)
  \/ PrepareRefund(u) \/ CosignRefund(u) \/ BroadcastRefund(u)
  \/ PrepareClaim(u) \/ GetChainClaimInfo(u) \/ PostClaim(u) \/ PostClaimBare(u)
  \/ BroadcastClaim(u) \/ BroadcastScriptPath(u)

CreationStep(v, s) ==
  CreateSwap(v, s) \/ Subscribe(v, s) \/ StoreSwap(v, s) \/ ReturnSwap(v, s)

SocketStep(v) == LoadPending(v) \/ Connect(v) \/ Open(v)

BoltzStep(s) ==
  \/ Fund(s) \/ AskSignature(s) \/ PayInvoice(s) \/ GiveUp(s) \/ LockServer(s)
  \/ ConfirmServer(s) \/ FailServer(s) \/ TakeGive(s) \/ RefundServer(s) \/ Expire(s)

Next ==
  \/ \E v \in Servers, s \in Swaps : CreationStep(v, s)
  \/ \E v \in Servers : SocketStep(v) \/ DropConnection(v) \/ Crash(v)
  \/ \E u \in Updates : HandlerStep(u) \/ CallFails(u) \/ QueryFails(u) \/ LoseLock(u)
  \/ \E k \in Keys : ExpireLock(k)
  \/ \E s \in Swaps : BoltzStep(s)

Spec == Init /\ [][Next]_vars

-----------------------------------------------------------------------------
(* Safety. *)

(* Boltz never holds our signature on its claim of a submarine lockup whose
   invoice it has not paid (the preimage check of handleSubmarineSwap). *)
SignatureOnlyForPaidInvoice ==
  \A s \in Swaps :
    kind[s] = "submarine" /\ "signature" \in known[s] => InvoicePaid(s)

(* The preimage leaves the server only once the coins it buys are on the chain,
   and for a chain swap only once they are confirmed (the nested switch of the
   message handler), whatever stale or repeated updates arrive. *)
PreimageOnlyForServerLock ==
  \A s \in Swaps :
    known[s] # {} /\ kind[s] # "submarine" =>
      get[s] \notin {"none"} \cup IF kind[s] = "reverse" THEN {} ELSE {"mempool"}

(* Coins are put up only for swaps whose keys are in the database, although the
   process may crash, or the insert fail, at any point of the creation. *)
FundedSwapIsStored ==
  \A s \in Swaps : give[s] # "none" => row[s] # "absent"

(* Subscribing before the row is stored loses no update that matters: an update
   the handler must act on finds its row. *)
ActionableUpdateFindsRow ==
  \A u \in Updates :
    (u \in wire \/ task[u] = "locked") /\ Actionable(kind[SwapOf(u)], u[3])
      => row[SwapOf(u)] # "absent"

(* A row is closed only when the swap is over: Boltz has published a final
   status, or the user's coins are back. *)
ClosedRowIsOver ==
  \A s \in Swaps :
    row[s] \in {"completed", "refunded"} =>
      \/ stage[s] \in CompletingStatuses \cup {"transaction.refunded"}
      \/ give[s] = "refunded"

(* A row that says "refunded" is backed by a refund on one of the two chains. *)
RefundedRowIsBacked ==
  \A s \in Swaps : row[s] = "refunded" => "refunded" \in {give[s], get[s]}

(* Conversely a refund the server has broadcast is recorded, or is about to be,
   unless a crash or a failed call came in between. *)
RefundIsRecorded ==
  \A s \in Swaps :
    give[s] = "refunded" /\ kind[s] # "reverse" =>
      \/ row[s] = "refunded"
      \/ \E u \in Updates : SwapOf(u) = s /\ task[u] = "markRefunded"
      \/ faults + outages + crashes > 0

(* Rows and chain agree, in whatever order updates, refunds and failures come:
   a closed swap is over, a refund is recorded, and a recorded one happened. *)
RowsMatchTheChain == ClosedRowIsOver /\ RefundedRowIsBacked /\ RefundIsRecorded

(* While Redis keeps extending the locks, two processes never handle the same
   update of the same swap at the same time. *)
OneHandlerPerUpdate ==
  outages = 0 =>
    \A v, w \in Servers, s \in Swaps, st \in Statuses :
      task[<<v, s, st>>] # "idle" /\ task[<<w, s, st>>] # "idle" => v = w

(* A process keeps a lock until its own handler ends: even a handler that went
   on after its lock was lost does not release the lock of its successor. *)
LockEndsWithItsHandler ==
  [][\A u \in Updates :
       lock[KeyOf(u)] = u[1] /\ lock'[KeyOf(u)] # u[1]
         => task'[u] = "idle" \/ outages' > outages]_vars

-----------------------------------------------------------------------------
(* Liveness. The event loop of a process keeps running its handlers and its
   reconnection timer, and Redis drops expired keys; nothing is assumed of
   Boltz, the users or the calls that fail. *)

ServerHandlers(v) == \E s \in Swaps, st \in Statuses : HandlerStep(<<v, s, st>>)

Fairness == /\ \A v \in Servers : /\ WF_vars(ServerHandlers(v))
                                  /\ WF_vars(SocketStep(v))
            /\ WF_vars(\E k \in Keys : ExpireLock(k))

FairSpec == Spec /\ Fairness

Subscribed(s) == \E v \in Servers : s \in subs[v]

(* The locks of a swap are all freed again and again, those that a dead process
   left behind included: no update stays locked out for ever. *)
LocksAreFreed ==
  \A s \in Swaps : []<>(\A st \in Statuses : lock[<<s, st>>] = NoServer)

(* A process that has lost its connection, or was restarted, subscribes to every
   swap that is still active, whichever process created it. *)
PendingSwapsAreResubscribed ==
  \A v \in Servers, s \in Swaps :
    conn[v] = "down" /\ row[s] = "active" ~> s \in subs[v] \/ row[s] # "active"

(* Coins Boltz has locked for the user, for a chain swap confirmed, are claimed
   before Boltz takes them back, although one call to Boltz may fail and the
   connection may drop at any point. *)
ClaimHappens ==
  \A s \in Swaps :
    Subscribed(s) /\ Claimable(s) /\ (kind[s] = "reverse" \/ get[s] = "confirmed")
    ~> get[s] \in {"claimed", "refunded"}

(* The L-BTC of a swap Boltz gives up come back to the wallet, unless a call
   fails: a refund is not attempted twice. *)
RefundHappens ==
  \A s \in Swaps :
    Subscribed(s) /\ stage[s] \in FailureStatuses /\ kind[s] # "chainIn"
    ~> give[s] = "refunded" \/ stage[s] = "swap.expired" \/ faults > 0

(* A swap that ended is closed in the database. *)
SwapIsClosed ==
  \A s \in Swaps :
    Subscribed(s) /\ row[s] = "active" /\ stage[s] \in CompletingStatuses
    ~> row[s] \in {"completed", "refunded"}

-----------------------------------------------------------------------------
(* The abstract specification. *)

Offered(s) == IF Claimable(s) THEN "offered" ELSE get[s]
Abstract == INSTANCE AtomicSwap WITH get <- [s \in Swaps |-> Offered(s)]

(* With a patient Boltz, no crash and at most one failed call to Boltz, the
   handlers keep the promise of AtomicSwap: the script path spend makes up for
   a cooperative claim that failed after Boltz was given the preimage. *)
AtomicSwapPromise == Abstract!Spec

=============================================================================
