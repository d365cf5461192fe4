-------------------------- MODULE BoltzSwapsProofs --------------------------
(* Proofs about BoltzSwaps, for any sets of swaps, servers and kinds and any *)
(* bounds.                                                                   *)
EXTENDS BoltzSwaps, TLAPS

-----------------------------------------------------------------------------
(* Lemmas about the dispatch of the message handler. *)

(* Whatever the update, a handler starts in a state it knows. *)
LEMMA JobType ==
  ASSUME NEW k, NEW st
  PROVE  Job(k, st) \in {"finish", "markCompleted", "markRefunded", "claimInfo",
                         "refundPrep", "prepare"}
  BY DEF Job

(* A failed call ends the handler or sends it to the script path spend. *)
LEMMA AfterFaultType ==
  ASSUME NEW pc, NEW q \in AfterFault(pc)
  PROVE  q \in {"idle", "scriptPath"}
  BY DEF AfterFault

(* An update is a process, a swap and a status. *)
LEMMA UpdateParts ==
  ASSUME NEW u \in Updates
  PROVE  /\ u[1] \in Servers /\ u[2] \in Swaps /\ u[3] \in Statuses
         /\ SwapOf(u) \in Swaps /\ KeyOf(u) \in Keys
         /\ u = <<u[1], u[2], u[3]>>
  BY DEF Updates, SwapOf, KeyOf, Keys

(* The groups of statuses the handler compares with are statuses of Boltz. *)
LEMMA StatusesAre ==
  /\ CompletingStatuses \subseteq Statuses /\ FailureStatuses \subseteq Statuses
  /\ {"swap.created", "transaction.mempool", "transaction.confirmed",
      "transaction.server.mempool", "transaction.server.confirmed",
      "transaction.claim.pending", "transaction.refunded", "transaction.claimed",
      "transaction.failed", "transaction.lockupFailed", "invoice.failedToPay",
      "invoice.settled", "invoice.expired", "swap.expired"} \subseteq Statuses
  BY DEF Statuses, CompletingStatuses, FailureStatuses, TransactionStatuses

-----------------------------------------------------------------------------
(* Type correctness. *)

(* A handler that ends leaves tasks and locks well typed. *)
LEMMA FinishType ==
  ASSUME TypeOK, NEW u \in Updates, Finish(u)
  PROVE  /\ task' \in [Updates -> TaskStates]
         /\ lock' \in [Keys -> Servers \cup {NoServer, Orphan}]
  BY UpdateParts DEF TypeOK, Finish, Goto, TaskStates

(* So does one that moves on. *)
LEMMA GotoType ==
  ASSUME TypeOK, NEW u \in Updates, NEW pc \in TaskStates, Goto(u, pc)
  PROVE  task' \in [Updates -> TaskStates]
  BY DEF TypeOK, Goto

(* So does an update that Boltz publishes. *)
LEMMA PublishType ==
  ASSUME TypeOK, NEW s \in Swaps, NEW st \in Statuses, Publish(s, st)
  PROVE  stage' \in [Swaps -> Statuses] /\ wire' \subseteq Updates
  BY DEF TypeOK, Publish, Updates

(* A call that fails stays within the bounds. *)
LEMMA FaultType ==
  ASSUME TypeOK, BoltzFault \/ Outage
  PROVE  /\ faults' \in 0..MaxFaults /\ outages' \in 0..MaxOutages
         /\ crashes' \in 0..MaxCrashes /\ drops' \in 0..MaxDrops
  BY BoundsAssumption DEF TypeOK, BoltzFault, Outage

(* The initial state is well typed. *)
THEOREM TypeInit == Init => TypeOK
  <1> SUFFICES ASSUME Init PROVE TypeOK OBVIOUS
  <1> USE DEF Init
  <1>1. /\ kind \in [Swaps -> Kinds]
        /\ creation \in [Swaps -> CreationStates]
        /\ owner \in [Swaps -> Servers \cup {NoServer}]
        /\ row \in [Swaps -> RowStates]
    BY DEF CreationStates, RowStates
  <1>2. /\ stage \in [Swaps -> Statuses]
        /\ give \in [Swaps -> GiveStates]
        /\ get \in [Swaps -> GetStates]
        /\ known \in [Swaps -> SUBSET {"preimage", "signature"}]
    BY StatusesAre DEF GiveStates, GetStates
  <1>3. /\ conn \in [Servers -> ConnStates]
        /\ snap \in [Servers -> SUBSET Swaps]
        /\ subs \in [Servers -> SUBSET Swaps]
        /\ wire \subseteq Updates
        /\ task \in [Updates -> TaskStates]
        /\ lock \in [Keys -> Servers \cup {NoServer, Orphan}]
    BY DEF ConnStates, TaskStates
  <1>4. /\ faults \in 0..MaxFaults /\ outages \in 0..MaxOutages
        /\ crashes \in 0..MaxCrashes /\ drops \in 0..MaxDrops
    BY BoundsAssumption
  <1> QED BY <1>1, <1>2, <1>3, <1>4 DEF TypeOK

(* Every step keeps every variable in its type. *)
THEOREM TypeStep == TypeOK /\ [Next]_vars => TypeOK'
  <1> SUFFICES ASSUME TypeOK, [Next]_vars PROVE TypeOK' OBVIOUS
  <1>1. ASSUME NEW v \in Servers, NEW s \in Swaps, CreationStep(v, s) PROVE TypeOK'
    <2>1. CASE CreateSwap(v, s)
      BY <2>1 DEF TypeOK, CreateSwap, CreationStates, database, boltz, sockets, bounds
    <2>2. CASE Subscribe(v, s)
      BY <2>2
         DEF TypeOK, Subscribe, CreationStates, Updates, database, boltz, sockets,
             bounds
    <2>3. CASE StoreSwap(v, s)
      BY FaultType, <2>3
         DEF TypeOK, StoreSwap, CreationStates, RowStates, database, boltz, sockets,
             bounds
    <2>4. CASE ReturnSwap(v, s)
      BY <2>4 DEF TypeOK, ReturnSwap, CreationStates, database, boltz, sockets, bounds
    <2> QED BY <2>1, <2>2, <2>3, <2>4, <1>1 DEF CreationStep
  <1>2. ASSUME NEW v \in Servers, SocketStep(v) \/ DropConnection(v) \/ Crash(v)
        PROVE TypeOK'
    <2>1. CASE LoadPending(v)
      BY <2>1 DEF TypeOK, LoadPending, ConnStates, database, boltz, sockets, bounds
    <2>2. CASE Connect(v)
      BY <2>2 DEF TypeOK, Connect, ConnStates, database, boltz, sockets, bounds
    <2>3. CASE Open(v)
      BY <2>3 DEF TypeOK, Open, ConnStates, Updates, database, boltz, sockets, bounds
    <2>4. CASE DropConnection(v)
      BY BoundsAssumption, <2>4
         DEF TypeOK, DropConnection, ConnStates, database, boltz, sockets, bounds
    <2>5. CASE Crash(v)
      BY BoundsAssumption, <2>5
         DEF TypeOK, Crash, ConnStates, TaskStates, CreationStates, database, boltz,
             sockets, bounds
    <2> QED BY <2>1, <2>2, <2>3, <2>4, <2>5, <1>2 DEF SocketStep
  <1>3. ASSUME NEW u \in Updates,
               HandlerStep(u) \/ CallFails(u) \/ QueryFails(u) \/ LoseLock(u)
        PROVE TypeOK'
    <2>1. CASE TakeLock(u)
      BY UpdateParts, <2>1
         DEF TypeOK, TakeLock, Goto, TaskStates, database, boltz, sockets, bounds
    <2>2. CASE SkipUpdate(u)
      BY FaultType, <2>2 DEF TypeOK, SkipUpdate, database, boltz, sockets, bounds
    <2>3. CASE ReadSwap(u)
      <3> DEFINE job == Job(kind[SwapOf(u)], u[3])
      <3>1. job \in {"finish", "markCompleted", "markRefunded", "claimInfo",
                     "refundPrep", "prepare"}
        BY JobType
      <3> HIDE DEF job
      <3>2. \/ Finish(u)
            \/ job # "finish" /\ Goto(u, job) /\ UNCHANGED lock
        BY <2>3 DEF ReadSwap, job
      <3>3. /\ task' \in [Updates -> TaskStates]
            /\ lock' \in [Keys -> Servers \cup {NoServer, Orphan}]
        BY <3>1, <3>2, FinishType, GotoType DEF TypeOK, TaskStates
      <3> QED BY <2>3, <3>3 DEF TypeOK, ReadSwap, database, boltz, sockets, bounds
    <2>4. CASE MarkCompleted(u)
      BY UpdateParts, FinishType, <2>4
         DEF TypeOK, MarkCompleted, RowStates, database, boltz, sockets, bounds
    <2>5. CASE MarkRefunded(u)
      BY UpdateParts, FinishType, <2>5
         DEF TypeOK, MarkRefunded, RowStates, database, boltz, sockets, bounds
    <2>6. CASE CheckPreimage(u)
      BY FinishType, GotoType, <2>6
         DEF TypeOK, CheckPreimage, TaskStates, database, boltz, sockets, bounds
    <2>7. CASE PostSignature(u)
      BY UpdateParts, FinishType, <2>7
         DEF TypeOK, PostSignature, database, boltz, sockets, bounds
    <2>8. CASE PrepareRefund(u)
      BY GotoType, <2>8
         DEF TypeOK, PrepareRefund, TaskStates, database, boltz, sockets, bounds
    <2>9. CASE CosignRefund(u)
      BY FinishType, GotoType, <2>9
         DEF TypeOK, CosignRefund, TaskStates, database, boltz, sockets, bounds
    <2>10. CASE BroadcastRefund(u)
      BY UpdateParts, FaultType, FinishType, GotoType, <2>10
         DEF TypeOK, BroadcastRefund, GiveStates, TaskStates, database, boltz, sockets,
             bounds
    <2>11. CASE PrepareClaim(u)
      BY GotoType, <2>11
         DEF TypeOK, PrepareClaim, TaskStates, database, boltz, sockets, bounds
    <2>12. CASE GetChainClaimInfo(u)
      BY GotoType, <2>12
         DEF TypeOK, GetChainClaimInfo, TaskStates, database, boltz, sockets, bounds
    <2>13. CASE PostClaim(u)
      BY UpdateParts, FaultType, GotoType, <2>13
         DEF TypeOK, PostClaim, TaskStates, database, boltz, sockets, bounds
    <2>14. CASE PostClaimBare(u)
      BY GotoType, <2>14
         DEF TypeOK, PostClaimBare, TaskStates, database, boltz, sockets, bounds
    <2>15. CASE BroadcastClaim(u)
      BY UpdateParts, FaultType, FinishType, GotoType, <2>15
         DEF TypeOK, BroadcastClaim, GetStates, TaskStates, database, boltz, sockets,
             bounds
    <2>16. CASE BroadcastScriptPath(u)
      <3>1. get' \in [Swaps -> GetStates]
        BY <2>16, UpdateParts DEF TypeOK, BroadcastScriptPath, GetStates
      <3>2. known' \in [Swaps -> SUBSET {"preimage", "signature"}]
        BY <2>16, UpdateParts DEF TypeOK, BroadcastScriptPath
      <3>3. /\ task' \in [Updates -> TaskStates]
            /\ lock' \in [Keys -> Servers \cup {NoServer, Orphan}]
        BY <2>16, FinishType DEF BroadcastScriptPath
      <3> QED BY <2>16, <3>1, <3>2, <3>3
              DEF TypeOK, BroadcastScriptPath, database, sockets, bounds
    <2>17. CASE CallFails(u)
      BY AfterFaultType, FaultType, FinishType, GotoType, <2>17
         DEF TypeOK, CallFails, TaskStates, database, boltz, sockets, bounds
    <2>18. CASE QueryFails(u)
      BY FaultType, FinishType, <2>18
         DEF TypeOK, QueryFails, database, boltz, sockets, bounds
    <2>19. CASE LoseLock(u)
      BY UpdateParts, FaultType, <2>19
         DEF TypeOK, LoseLock, database, boltz, sockets, bounds
    <2> QED BY <2>1, <2>2, <2>3, <2>4, <2>5, <2>6, <2>7, <2>8, <2>9, <2>10, <2>11,
               <2>12, <2>13, <2>14, <2>15, <2>16, <2>17, <2>18, <2>19, <1>3
            DEF HandlerStep
  <1>4. ASSUME NEW k \in Keys, ExpireLock(k) PROVE TypeOK'
    BY <1>4 DEF TypeOK, ExpireLock, database, boltz, sockets, bounds
  <1>5. ASSUME NEW s \in Swaps, BoltzStep(s) PROVE TypeOK'
    <2>1. CASE Fund(s)
      BY StatusesAre, PublishType, <2>1
         DEF TypeOK, Fund, GiveStates, database, boltz, sockets, bounds
    <2>2. CASE AskSignature(s)
      BY StatusesAre, PublishType, <2>2
         DEF TypeOK, AskSignature, database, boltz, sockets, bounds
    <2>3. CASE PayInvoice(s)
      BY StatusesAre, PublishType, <2>3
         DEF TypeOK, PayInvoice, GetStates, database, boltz, sockets, bounds
    <2>4. CASE GiveUp(s)
      BY StatusesAre, PublishType, <2>4 DEF TypeOK, GiveUp, database, boltz, sockets, bounds
    <2>5. CASE LockServer(s)
      BY StatusesAre, PublishType, <2>5
         DEF TypeOK, LockServer, GetStates, database, boltz, sockets, bounds
    <2>6. CASE ConfirmServer(s)
      BY StatusesAre, PublishType, <2>6
         DEF TypeOK, ConfirmServer, GetStates, database, boltz, sockets, bounds
    <2>7. CASE FailServer(s)
      BY StatusesAre, PublishType, <2>7
         DEF TypeOK, FailServer, GiveStates, database, boltz, sockets, bounds
    <2>8. CASE TakeGive(s)
      BY StatusesAre, PublishType, <2>8
         DEF TypeOK, TakeGive, GiveStates, database, boltz, sockets, bounds
    <2>9. CASE RefundServer(s)
      BY StatusesAre, PublishType, <2>9
         DEF TypeOK, RefundServer, GiveStates, GetStates, database, boltz, sockets,
             bounds
    <2>10. CASE Expire(s)
      BY StatusesAre, PublishType, <2>10
         DEF TypeOK, Expire, database, boltz, sockets, bounds
    <2> QED BY <2>1, <2>2, <2>3, <2>4, <2>5, <2>6, <2>7, <2>8, <2>9, <2>10, <1>5
            DEF BoltzStep
  <1>6. CASE UNCHANGED vars
    BY <1>6 DEF TypeOK, vars
  <1> QED BY <1>1, <1>2, <1>3, <1>4, <1>5, <1>6 DEF Next

-----------------------------------------------------------------------------
(* The inductive invariant behind the safety theorems. *)

(* A request that has got past the insert has a row, and only a swap whose
   request has returned is paid for. *)
StorageInv ==
  \A s \in Swaps :
    /\ creation[s] \in {"stored", "returned"} => row[s] # "absent"
    /\ give[s] # "none" => creation[s] = "returned"

(* What a status says of the chain, however late it is read: "transaction.*" of
   a reverse swap is about Boltz's lock, "transaction.server.confirmed" about
   one that has confirmed. *)
Truth(s, st) ==
  /\ kind[s] = "reverse" /\ st \in TransactionStatuses => get[s] # "none"
  /\ st = "transaction.server.confirmed" => get[s] \notin {"none", "mempool"}

TruthInv ==
  /\ \A s \in Swaps : Truth(s, stage[s])
  /\ \A u \in Updates : u \in wire \/ task[u] # "idle" => Truth(u[2], u[3])

(* A handler that is claiming was started by an update that asks for a claim,
   one that signs for Boltz by one of a submarine swap. *)
ClaimStates == {"prepare", "chainClaimInfo", "cosign", "cosignBare", "broadcast",
                "scriptPath"}

ClaimAsked(s, st) ==
  \/ kind[s] = "reverse" /\ st \in TransactionStatuses
  \/ kind[s] \in ChainKinds /\ st = "transaction.server.confirmed"

JobFits(u, pc) ==
  /\ pc \in ClaimStates => ClaimAsked(u[2], u[3])
  /\ pc \in {"claimInfo", "postSignature"} => kind[u[2]] = "submarine"
  /\ pc = "postSignature" => InvoicePaid(u[2])

JobInv == \A u \in Updates : JobFits(u, task[u])

(* The two safety properties about secrets. *)
SecretInv == SignatureOnlyForPaidInvoice /\ PreimageOnlyForServerLock

(* Without an outage a running handler holds its lock. *)
LockInv ==
  outages = 0 => \A u \in Updates : task[u] # "idle" => lock[KeyOf(u)] = u[1]

(* What a status published says, however late it is read: the coins were put up
   when it asks for work, the swap is over when it ends it, and Boltz has its
   lock back when it says so. *)
OverStatuses == CompletingStatuses \cup {"transaction.refunded"}

Over(s) == stage[s] \in OverStatuses \/ give[s] = "refunded"

Backed(s, st) ==
  /\ Actionable(kind[s], st) => give[s] # "none"
  /\ st \in CompletingStatuses => Over(s)
  /\ st = "transaction.refunded" => get[s] = "refunded"

BackedInv ==
  /\ \A s \in Swaps : /\ get[s] # "none" => give[s] # "none"
                      /\ get[s] = "refunded" => Over(s)
                      /\ Backed(s, stage[s])
  /\ \A u \in Updates : u \in wire \/ task[u] # "idle" => Backed(u[2], u[3])

(* A handler closes the row of a swap that is over, and as refunded only one
   whose coins went back. *)
EndFits(u, pc) ==
  /\ pc = "markCompleted" => u[3] \in CompletingStatuses
  /\ pc = "markRefunded" => "refunded" \in {give[u[2]], get[u[2]]}

EndInv == \A u \in Updates : EndFits(u, task[u])

(* Once Boltz has given a swap up it delivers nothing for it, and only then does
   a handler take the coins back; what Boltz took it had the means to take. *)
GivenUpStatuses == FailureStatuses \cup {"swap.expired"}

GivenUpInv ==
  /\ \A s \in Swaps :
       /\ kind[s] = "submarine" => get[s] \in {"none", "claimed"} /\ "preimage" \notin known[s]
       /\ stage[s] \in GivenUpStatuses => get[s] = "none"
       /\ give[s] = "claimed" => CanTake(s)
       /\ Claimable(s) => give[s] # "refunded"
  /\ \A u \in Updates : task[u] = "refundBroadcast" => stage[u[2]] \in GivenUpStatuses

(* The inductive invariant. *)
IInv == /\ TypeOK /\ StorageInv /\ TruthInv /\ JobInv /\ SecretInv /\ LockInv
        /\ BackedInv /\ EndInv /\ RowsMatchTheChain /\ GivenUpInv

-----------------------------------------------------------------------------
(* What a step leaves alone. *)

(* A request that creates a swap touches neither Boltz nor a handler. *)
LEMMA CreationFrame ==
  ASSUME NEW v, NEW s, CreationStep(v, s)
  PROVE  UNCHANGED <<kind, stage, give, get, known, task, lock>>
  BY DEF CreationStep, CreateSwap, Subscribe, StoreSwap, ReturnSwap, boltz

(* The connection loop touches the sockets and the wire only. *)
LEMMA SocketFrame ==
  ASSUME NEW v, SocketStep(v) \/ DropConnection(v)
  PROVE  UNCHANGED <<kind, creation, row, stage, give, get, known, task, lock, outages>>
  BY DEF SocketStep, LoadPending, Connect, Open, DropConnection, database, boltz, bounds

(* Boltz, the chains and the payer change no row, task or lock. *)
LEMMA BoltzFrame ==
  ASSUME NEW s, BoltzStep(s)
  PROVE  UNCHANGED <<kind, creation, row, known, task, lock, outages>>
  BY DEF BoltzStep, Fund, AskSignature, PayInvoice, GiveUp, LockServer, ConfirmServer,
         FailServer, TakeGive, RefundServer, Expire, database, bounds

(* A step of the handler of u, or of what may go wrong with it. *)
Handling(u) == HandlerStep(u) \/ CallFails(u) \/ QueryFails(u) \/ LoseLock(u)

(* A handler creates no swap and publishes nothing. *)
LEMMA HandlerFrame ==
  ASSUME NEW u, Handling(u)
  PROVE  UNCHANGED <<kind, creation, stage>> /\ wire' \subseteq wire
  <1>1. CASE TakeLock(u) \/ SkipUpdate(u)
    BY <1>1 DEF TakeLock, SkipUpdate, database, boltz
  <1>2. CASE \/ ReadSwap(u) \/ MarkCompleted(u) \/ MarkRefunded(u)
             \/ CheckPreimage(u) \/ PostSignature(u)
    BY <1>2 DEF ReadSwap, MarkCompleted, MarkRefunded, CheckPreimage, PostSignature,
                database, boltz
  <1>3. CASE PrepareRefund(u) \/ CosignRefund(u) \/ BroadcastRefund(u)
    BY <1>3 DEF PrepareRefund, CosignRefund, BroadcastRefund, database, boltz
  <1>4. CASE \/ PrepareClaim(u) \/ GetChainClaimInfo(u) \/ PostClaim(u)
             \/ PostClaimBare(u) \/ BroadcastClaim(u) \/ BroadcastScriptPath(u)
    BY <1>4 DEF PrepareClaim, GetChainClaimInfo, PostClaim, PostClaimBare,
                BroadcastClaim, BroadcastScriptPath, database, boltz
  <1>5. CASE CallFails(u) \/ QueryFails(u) \/ LoseLock(u)
    BY <1>5 DEF CallFails, QueryFails, LoseLock, database, boltz
  <1> QED BY <1>1, <1>2, <1>3, <1>4, <1>5 DEF Handling, HandlerStep

(* Handlers keep a row in the database and lock no coins of the user. *)
LEMMA HandlerRow ==
  ASSUME TypeOK, NEW u \in Updates, Handling(u), NEW s \in Swaps
  PROVE  /\ row[s] # "absent" => row'[s] # "absent"
         /\ give'[s] # "none" => give[s] # "none"
  <1>1. CASE MarkCompleted(u)
    BY <1>1 DEF MarkCompleted, TypeOK, boltz
  <1>2. CASE MarkRefunded(u)
    BY <1>2 DEF MarkRefunded, TypeOK, boltz
  <1>3. CASE BroadcastRefund(u)
    BY <1>3 DEF BroadcastRefund, TypeOK, database
  <1>4. CASE UNCHANGED <<row, give>>
    BY <1>4
  <1>5. CASE \/ TakeLock(u) \/ SkipUpdate(u) \/ ReadSwap(u)
             \/ CheckPreimage(u) \/ PostSignature(u)
             \/ PrepareRefund(u) \/ CosignRefund(u) \/ PrepareClaim(u)
    BY <1>5 DEF TakeLock, SkipUpdate, ReadSwap, CheckPreimage, PostSignature,
                PrepareRefund, CosignRefund, PrepareClaim, database, boltz
  <1>6. CASE \/ GetChainClaimInfo(u) \/ PostClaim(u) \/ PostClaimBare(u)
             \/ BroadcastClaim(u) \/ BroadcastScriptPath(u)
             \/ CallFails(u) \/ QueryFails(u) \/ LoseLock(u)
    BY <1>6 DEF GetChainClaimInfo, PostClaim, PostClaimBare, BroadcastClaim,
                BroadcastScriptPath, CallFails, QueryFails, LoseLock, database, boltz
  <1> QED BY <1>1, <1>2, <1>3, <1>4, <1>5, <1>6 DEF Handling, HandlerStep

-----------------------------------------------------------------------------
(* Boltz's lock only ever advances: none, mempool, confirmed, then claimed or
   refunded, which it stays. *)
Advances(s) ==
  /\ get[s] # "none" => get'[s] # "none"
  /\ get[s] \notin {"none", "mempool"} => get'[s] \notin {"none", "mempool"}
  /\ get[s] \in {"claimed", "refunded"} => get'[s] = get[s]

(* No step takes Boltz's lock back to an earlier state. *)
LEMMA GetAdvances ==
  ASSUME TypeOK, [Next]_vars, NEW s \in Swaps
  PROVE  Advances(s)
  <1> USE DEF Advances
  <1>1. CASE UNCHANGED get
    BY <1>1
  <1>2. ASSUME NEW v \in Servers, Crash(v) PROVE UNCHANGED get
    BY <1>2 DEF Crash, boltz
  <1>3. ASSUME NEW k \in Keys, ExpireLock(k) PROVE UNCHANGED get
    BY <1>3 DEF ExpireLock, boltz
  <1>4. ASSUME NEW u \in Updates, Handling(u) PROVE Advances(s)
    <2>1. CASE BroadcastClaim(u)
      BY <2>1 DEF BroadcastClaim, Claimable, TypeOK
    <2>2. CASE BroadcastScriptPath(u)
      BY <2>2 DEF BroadcastScriptPath, Claimable, TypeOK
    <2>3. CASE \/ TakeLock(u) \/ SkipUpdate(u) \/ ReadSwap(u)
               \/ MarkCompleted(u) \/ MarkRefunded(u)
               \/ CheckPreimage(u) \/ PostSignature(u) \/ PrepareRefund(u)
      BY <2>3 DEF TakeLock, SkipUpdate, ReadSwap, MarkCompleted, MarkRefunded,
                  CheckPreimage, PostSignature, PrepareRefund, boltz
    <2>4. CASE \/ CosignRefund(u) \/ BroadcastRefund(u) \/ PrepareClaim(u)
               \/ GetChainClaimInfo(u) \/ PostClaim(u) \/ PostClaimBare(u)
               \/ CallFails(u) \/ QueryFails(u) \/ LoseLock(u)
      BY <2>4 DEF CosignRefund, BroadcastRefund, PrepareClaim, GetChainClaimInfo,
                  PostClaim, PostClaimBare, CallFails, QueryFails, LoseLock, boltz
    <2> QED BY <1>4, <2>1, <2>2, <2>3, <2>4 DEF Handling, HandlerStep
  <1>5. ASSUME NEW t \in Swaps, BoltzStep(t) PROVE Advances(s)
    <2>1. CASE PayInvoice(t)
      BY <2>1 DEF PayInvoice, TypeOK
    <2>2. CASE LockServer(t)
      BY <2>2 DEF LockServer, TypeOK
    <2>3. CASE ConfirmServer(t)
      BY <2>3 DEF ConfirmServer, TypeOK
    <2>4. CASE RefundServer(t)
      BY <2>4 DEF RefundServer, Claimable, TypeOK
    <2>5. CASE \/ Fund(t) \/ AskSignature(t) \/ GiveUp(t) \/ FailServer(t)
               \/ TakeGive(t) \/ Expire(t)
      BY <2>5 DEF Fund, AskSignature, GiveUp, FailServer, TakeGive, Expire
    <2> QED BY <1>5, <2>1, <2>2, <2>3, <2>4, <2>5 DEF BoltzStep
  <1>6. CASE UNCHANGED vars
    BY <1>6 DEF vars
  <1> QED BY <1>1, <1>2, <1>3, <1>4, <1>5, <1>6, CreationFrame, SocketFrame
          DEF Next, Handling

-----------------------------------------------------------------------------
(* The invariant is inductive, one conjunct at a time. *)

(* The invariant holds initially. *)
THEOREM InvInit == Init => IInv
  <1> SUFFICES ASSUME Init PROVE IInv OBVIOUS
  <1>1. TypeOK
    BY TypeInit
  <1>2. StorageInv /\ SecretInv
    BY DEF Init, StorageInv, SecretInv, SignatureOnlyForPaidInvoice,
           PreimageOnlyForServerLock
  <1>3. TruthInv
    BY DEF Init, TruthInv, Truth, TransactionStatuses
  <1>4. JobInv /\ LockInv
    BY DEF Init, JobInv, JobFits, LockInv, ClaimStates
  <1>5. BackedInv /\ EndInv
    BY DEF Init, BackedInv, Backed, EndInv, EndFits, CompletingStatuses, Actionable, Job,
           FailureStatuses, TransactionStatuses
  <1>6. RowsMatchTheChain
    BY DEF Init, RowsMatchTheChain, ClosedRowIsOver, RefundedRowIsBacked, RefundIsRecorded
  <1>7. GivenUpInv
    BY DEF Init, GivenUpInv, GivenUpStatuses, FailureStatuses, CanTake, Claimable
  <1> QED BY <1>1, <1>2, <1>3, <1>4, <1>5, <1>6, <1>7 DEF IInv

(* Rows are inserted before the request returns and never deleted. *)
LEMMA StorageStep == TypeOK /\ StorageInv /\ [Next]_vars => StorageInv'
  <1> SUFFICES ASSUME TypeOK, StorageInv, [Next]_vars PROVE StorageInv' OBVIOUS
  <1> USE DEF StorageInv
  <1>1. ASSUME NEW v \in Servers, NEW s \in Swaps, CreationStep(v, s) PROVE StorageInv'
    <2>1. CASE CreateSwap(v, s)
      BY <2>1 DEF CreateSwap, TypeOK, boltz
    <2>2. CASE Subscribe(v, s)
      BY <2>2 DEF Subscribe, SubscribesFirst, TypeOK, boltz
    <2>3. CASE StoreSwap(v, s)
      BY <2>3 DEF StoreSwap, SubscribesFirst, TypeOK, boltz
    <2>4. CASE ReturnSwap(v, s)
      BY <2>4 DEF ReturnSwap, TypeOK, boltz
    <2> QED BY <1>1, <2>1, <2>2, <2>3, <2>4 DEF CreationStep
  <1>2. ASSUME NEW v \in Servers, Crash(v) PROVE StorageInv'
    BY <1>2 DEF Crash, TypeOK, boltz
  <1>3. ASSUME NEW v \in Servers, SocketStep(v) \/ DropConnection(v) PROVE StorageInv'
    BY <1>3, SocketFrame
  <1>4. ASSUME NEW k \in Keys, ExpireLock(k) PROVE StorageInv'
    BY <1>4 DEF ExpireLock, database, boltz
  <1>5. ASSUME NEW u \in Updates, Handling(u) PROVE StorageInv'
    BY <1>5, HandlerRow, HandlerFrame
  <1>6. ASSUME NEW s \in Swaps, BoltzStep(s) PROVE StorageInv'
    <2>1. CASE Fund(s)
      BY <2>1 DEF Fund, TypeOK, database
    <2>2. CASE FailServer(s) \/ TakeGive(s) \/ RefundServer(s)
      BY <2>2 DEF FailServer, TakeGive, RefundServer, TypeOK, database
    <2>3. CASE \/ AskSignature(s) \/ PayInvoice(s) \/ GiveUp(s) \/ LockServer(s)
               \/ ConfirmServer(s) \/ Expire(s)
      BY <2>3 DEF AskSignature, PayInvoice, GiveUp, LockServer, ConfirmServer, Expire,
                  database
    <2> QED BY <1>6, <2>1, <2>2, <2>3 DEF BoltzStep
  <1>7. CASE UNCHANGED vars
    BY <1>7 DEF vars
  <1> QED BY <1>1, <1>2, <1>3, <1>4, <1>5, <1>6, <1>7 DEF Next, Handling

(* A status stays true once it is: kinds do not change, and get advances. *)
LEMMA TruthLasts ==
  ASSUME TypeOK, [Next]_vars, kind' = kind, NEW s \in Swaps, NEW st, Truth(s, st)
  PROVE  Truth(s, st)'
  BY GetAdvances DEF Advances, Truth

(* Boltz is truthful when it publishes. *)
LEMMA PublishTruth ==
  ASSUME TypeOK, TruthInv, [Next]_vars, kind' = kind, task' = task,
         NEW s \in Swaps, NEW st \in Statuses, Publish(s, st), Truth(s, st)'
  PROVE  TruthInv'
  <1>1. ASSUME NEW t \in Swaps PROVE Truth(t, stage[t])'
    <2>1. CASE t = s
      BY <2>1 DEF Publish, TypeOK
    <2>2. CASE t # s
      <3>1. stage'[t] = stage[t]
        BY <2>2 DEF Publish, TypeOK
      <3>2. Truth(t, stage[t])
        BY DEF TruthInv
      <3> QED BY <3>1, <3>2, GetAdvances DEF Truth, Advances
    <2> QED BY <2>1, <2>2
  <1>2. ASSUME NEW u \in Updates, u \in wire' \/ task'[u] # "idle"
        PROVE Truth(u[2], u[3])'
    <2>1. CASE u \in wire \/ task[u] # "idle"
      <3>1. Truth(u[2], u[3])
        BY <2>1 DEF TruthInv
      <3> QED BY <3>1, UpdateParts, TruthLasts
    <2>2. CASE u \notin wire /\ task[u] = "idle"
      <3>1. u[2] = s /\ u[3] = st
        BY <1>2, <2>2 DEF Publish
      <3> QED BY <3>1
    <2> QED BY <2>1, <2>2
  <1> QED BY <1>1, <1>2 DEF TruthInv

(* What a handler's step makes of the tasks: its own goes on or starts from an
   update that has arrived, the others stay as they are. *)
LEMMA HandlerTask ==
  ASSUME TypeOK, NEW u \in Updates, Handling(u), NEW w \in Updates
  PROVE  /\ w # u => task'[w] = task[w]
         /\ task'[w] # "idle" => task[w] # "idle" \/ w \in wire
  <1> USE DEF TypeOK, Goto, Finish
  <1>1. CASE TakeLock(u) \/ SkipUpdate(u) \/ LoseLock(u)
    BY <1>1 DEF TakeLock, SkipUpdate, LoseLock
  <1>2. CASE ReadSwap(u)
    BY <1>2 DEF ReadSwap
  <1>3. CASE \/ MarkCompleted(u) \/ MarkRefunded(u)
             \/ CheckPreimage(u) \/ PostSignature(u)
    BY <1>3 DEF MarkCompleted, MarkRefunded, CheckPreimage, PostSignature
  <1>4. CASE PrepareRefund(u) \/ CosignRefund(u) \/ BroadcastRefund(u)
    BY <1>4 DEF PrepareRefund, CosignRefund, BroadcastRefund
  <1>5. CASE \/ PrepareClaim(u) \/ GetChainClaimInfo(u) \/ PostClaim(u)
             \/ PostClaimBare(u)
    BY <1>5 DEF PrepareClaim, GetChainClaimInfo, PostClaim, PostClaimBare
  <1>6. CASE BroadcastClaim(u) \/ BroadcastScriptPath(u) \/ QueryFails(u)
    BY <1>6 DEF BroadcastClaim, BroadcastScriptPath, QueryFails
  <1>7. CASE CallFails(u)
    <2>1. task[u] # "idle"
      BY <1>7 DEF CallFails, AfterFault
    <2> QED BY <1>7, <2>1 DEF CallFails
  <1> QED BY <1>1, <1>2, <1>3, <1>4, <1>5, <1>6, <1>7 DEF Handling, HandlerStep

(* TruthInv survives a step after which nothing is in flight but what was, or
   the current status of a swap. *)
LEMMA TruthKept ==
  ASSUME TypeOK, TruthInv, [Next]_vars, kind' = kind, stage' = stage,
         \A u \in Updates : u \in wire' \/ task'[u] # "idle" =>
           u \in wire \/ task[u] # "idle" \/ u[3] = stage[u[2]]
  PROVE  TruthInv'
  <1>1. ASSUME NEW s \in Swaps PROVE Truth(s, stage[s])'
    BY TruthLasts DEF TruthInv, Truth
  <1>2. ASSUME NEW u \in Updates, u \in wire' \/ task'[u] # "idle"
        PROVE Truth(u[2], u[3])'
    <2>1. Truth(u[2], u[3])
      BY <1>2, UpdateParts DEF TruthInv
    <2> QED BY <2>1, UpdateParts, TruthLasts
  <1> QED BY <1>1, <1>2 DEF TruthInv

(* No update in flight or being handled says what is not so. *)
LEMMA TruthStep == TypeOK /\ TruthInv /\ [Next]_vars => TruthInv'
  <1> SUFFICES ASSUME TypeOK, TruthInv, [Next]_vars PROVE TruthInv' OBVIOUS
  <1>1. ASSUME NEW v \in Servers, NEW s \in Swaps, CreationStep(v, s) PROVE TruthInv'
    <2>1. \A u \in wire' : u \in wire \/ u[3] = stage[u[2]]
      BY <1>1 DEF CreationStep, CreateSwap, Subscribe, StoreSwap, ReturnSwap
    <2> QED BY <1>1, <2>1, CreationFrame, TruthKept
  <1>2. ASSUME NEW v \in Servers, Crash(v) PROVE TruthInv'
    <2>1. /\ kind' = kind /\ stage' = stage /\ wire' \subseteq wire
          /\ \A u \in Updates : task'[u] # "idle" => task[u] # "idle"
      BY <1>2 DEF Crash, TypeOK, boltz
    <2> QED BY <2>1, TruthKept
  <1>3. ASSUME NEW v \in Servers, SocketStep(v) \/ DropConnection(v) PROVE TruthInv'
    <2>1. \A u \in wire' : u \in wire \/ u[3] = stage[u[2]]
      BY <1>3 DEF SocketStep, LoadPending, Connect, Open, DropConnection
    <2> QED BY <1>3, <2>1, SocketFrame, TruthKept
  <1>4. ASSUME NEW k \in Keys, ExpireLock(k) PROVE TruthInv'
    BY <1>4, TruthKept DEF ExpireLock, database, boltz
  <1>5. ASSUME NEW u \in Updates, Handling(u) PROVE TruthInv'
    BY <1>5, HandlerFrame, HandlerTask, TruthKept
  <1>6. ASSUME NEW s \in Swaps, BoltzStep(s) PROVE TruthInv'
    <2>0. kind' = kind /\ task' = task
      BY <1>6, BoltzFrame
    <2>1. CASE Fund(s)
      <3>1. CASE kind[s] = "reverse"
        BY <2>0, <2>1, <3>1, TruthKept DEF Fund
      <3>2. CASE kind[s] # "reverse"
        BY <2>0, <2>1, <3>2, StatusesAre, PublishTruth DEF Fund, Truth
      <3> QED BY <3>1, <3>2
    <2>2. CASE AskSignature(s)
      BY <2>0, <2>2, StatusesAre, PublishTruth DEF AskSignature, Truth, TransactionStatuses
    <2>3. CASE PayInvoice(s)
      BY <2>0, <2>3, TruthKept DEF PayInvoice
    <2>4. CASE GiveUp(s)
      BY <2>0, <2>4, StatusesAre, PublishTruth DEF GiveUp, Truth, TransactionStatuses
    <2>5. CASE LockServer(s)
      BY <2>0, <2>5, StatusesAre, PublishTruth
         DEF LockServer, Truth, TransactionStatuses, TypeOK
    <2>6. CASE ConfirmServer(s)
      <3>1. CASE stage[s] \in CompletingStatuses
        BY <2>0, <2>6, <3>1, TruthKept DEF ConfirmServer
      <3>2. CASE stage[s] \notin CompletingStatuses
        BY <2>0, <2>6, <3>2, StatusesAre, PublishTruth DEF ConfirmServer, Truth, TypeOK
      <3> QED BY <3>1, <3>2
    <2>7. CASE FailServer(s)
      BY <2>0, <2>7, StatusesAre, PublishTruth DEF FailServer, Truth, TransactionStatuses
    <2>8. CASE TakeGive(s)
      BY <2>0, <2>8, StatusesAre, PublishTruth DEF TakeGive, Truth, TransactionStatuses
    <2>9. CASE RefundServer(s)
      BY <2>0, <2>9, StatusesAre, PublishTruth DEF RefundServer, Truth, TransactionStatuses
    <2>10. CASE Expire(s)
      BY <2>0, <2>10, StatusesAre, PublishTruth DEF Expire, Truth, TransactionStatuses
    <2> QED BY <1>6, <2>1, <2>2, <2>3, <2>4, <2>5, <2>6, <2>7, <2>8, <2>9, <2>10
            DEF BoltzStep
  <1>7. CASE UNCHANGED vars
    BY <1>7, TruthKept DEF vars
  <1> QED BY <1>1, <1>2, <1>3, <1>4, <1>5, <1>6, <1>7 DEF Next, Handling

(* The dispatch asks for a claim only where a claim fits. *)
LEMMA JobFitsDispatch ==
  ASSUME NEW u \in Updates
  PROVE  JobFits(u, Job(kind[SwapOf(u)], u[3]))
  BY DEF JobFits, Job, ClaimStates, ClaimAsked, SwapOf, InvoicePaid,
         TransactionStatuses, CompletingStatuses, FailureStatuses, ChainKinds

(* A handler that fits its update goes on fitting it. *)
LEMMA JobFitsLasts ==
  ASSUME TypeOK, [Next]_vars, kind' = kind, NEW u \in Updates, NEW pc, JobFits(u, pc)
  PROVE  JobFits(u, pc)'
  BY UpdateParts, GetAdvances DEF Advances, JobFits, ClaimAsked, InvoicePaid

(* Every handler fits the update that started it. *)
LEMMA JobStep == TypeOK /\ JobInv /\ [Next]_vars => JobInv'
  <1> SUFFICES ASSUME TypeOK, JobInv, [Next]_vars PROVE JobInv' OBVIOUS
  <1>0. ASSUME kind' = kind, NEW u \in Updates, task'[u] \in {"idle", task[u]}
        PROVE  JobFits(u, task[u])'
    <2>1. CASE task'[u] = task[u]
      <3>1. JobFits(u, task[u])
        BY DEF JobInv
      <3> QED BY <1>0, <2>1, <3>1, JobFitsLasts DEF JobFits
    <2>2. CASE task'[u] = "idle"
      BY <2>2 DEF JobFits, ClaimStates
    <2> QED BY <1>0, <2>1, <2>2
  <1>1. ASSUME NEW v \in Servers, NEW s \in Swaps, CreationStep(v, s) PROVE JobInv'
    BY <1>0, <1>1, CreationFrame DEF JobInv
  <1>2. ASSUME NEW v \in Servers, Crash(v) PROVE JobInv'
    <2>1. kind' = kind /\ \A u \in Updates : task'[u] \in {"idle", task[u]}
      BY <1>2 DEF Crash, TypeOK
    <2> QED BY <1>0, <2>1 DEF JobInv
  <1>3. ASSUME NEW v \in Servers, SocketStep(v) \/ DropConnection(v) PROVE JobInv'
    BY <1>0, <1>3, SocketFrame DEF JobInv
  <1>4. ASSUME NEW k \in Keys, ExpireLock(k) PROVE JobInv'
    BY <1>0, <1>4 DEF ExpireLock, database, JobInv
  <1>5. ASSUME NEW u \in Updates, Handling(u) PROVE JobInv'
    <2>0. kind' = kind
      BY <1>5, HandlerFrame
    <2>1. SUFFICES JobFits(u, task[u])'
      BY <1>0, <1>5, <2>0, HandlerTask DEF JobInv
    <2>2. SUFFICES ASSUME task'[u] \notin {"idle", task[u]} PROVE JobFits(u, task[u])'
      BY <1>0, <2>0
    <2>3. JobFits(u, task[u])
      BY DEF JobInv
    <2> USE DEF TypeOK, Goto, Finish
    <2>4. CASE TakeLock(u) \/ SkipUpdate(u) \/ LoseLock(u)
      BY <2>2, <2>4 DEF TakeLock, SkipUpdate, LoseLock, JobFits, ClaimStates
    <2>5. CASE ReadSwap(u)
      <3>1. task'[u] = Job(kind[SwapOf(u)], u[3])
        BY <2>2, <2>5 DEF ReadSwap
      <3> QED BY <2>0, <3>1, JobFitsDispatch, JobFitsLasts DEF JobFits
    <2>6. CASE \/ MarkCompleted(u) \/ MarkRefunded(u) \/ PostSignature(u)
               \/ BroadcastScriptPath(u) \/ QueryFails(u)
      BY <2>2, <2>6 DEF MarkCompleted, MarkRefunded, PostSignature,
                        BroadcastScriptPath, QueryFails
    <2>7. CASE CheckPreimage(u)
      <3>1. task'[u] = "postSignature" /\ JobFits(u, "postSignature")
        BY <2>2, <2>3, <2>7 DEF CheckPreimage, JobFits, SwapOf, ClaimStates
      <3> QED BY <2>0, <3>1, JobFitsLasts DEF JobFits
    <2>8. CASE PrepareRefund(u) \/ CosignRefund(u) \/ BroadcastRefund(u)
      BY <2>2, <2>8 DEF PrepareRefund, CosignRefund, BroadcastRefund, JobFits, ClaimStates
    <2>9. CASE \/ PrepareClaim(u) \/ GetChainClaimInfo(u) \/ PostClaim(u)
               \/ PostClaimBare(u) \/ BroadcastClaim(u) \/ CallFails(u)
      <3>1. task[u] \in ClaimStates /\ task'[u] \in ClaimStates \ {"postSignature", "claimInfo"}
        BY <2>2, <2>9, AfterFaultType
           DEF PrepareClaim, GetChainClaimInfo, PostClaim, PostClaimBare, BroadcastClaim,
               CallFails, AfterFault, ClaimStates
      <3>2. JobFits(u, task'[u])
        BY <2>3, <3>1 DEF JobFits, ClaimStates
      <3> QED BY <2>0, <3>2, JobFitsLasts DEF JobFits
    <2> QED BY <1>5, <2>4, <2>5, <2>6, <2>7, <2>8, <2>9 DEF Handling, HandlerStep
  <1>6. ASSUME NEW s \in Swaps, BoltzStep(s) PROVE JobInv'
    BY <1>0, <1>6, BoltzFrame DEF JobInv
  <1>7. CASE UNCHANGED vars
    BY <1>0, <1>7 DEF vars, JobInv
  <1> QED BY <1>1, <1>2, <1>3, <1>4, <1>5, <1>6, <1>7 DEF Next, Handling

(* Secrets leave in three places: our signature after the preimage check, the
   preimage with a cooperative claim, the preimage on the chain. *)
LEMMA SecretStep ==
  TypeOK /\ TruthInv /\ JobInv /\ SecretInv /\ [Next]_vars => SecretInv'
  <1> SUFFICES ASSUME TypeOK, TruthInv, JobInv, SecretInv, [Next]_vars
               PROVE  SecretInv'
    OBVIOUS
  <1> DEFINE Safe(s) ==
        /\ kind[s] = "submarine" /\ "signature" \in known[s] => InvoicePaid(s)
        /\ known[s] # {} /\ kind[s] # "submarine" =>
             get[s] \notin {"none"} \cup IF kind[s] = "reverse" THEN {} ELSE {"mempool"}
  <1>a. SecretInv <=> \A s \in Swaps : Safe(s)
    BY DEF SecretInv, SignatureOnlyForPaidInvoice, PreimageOnlyForServerLock
  <1>b. SecretInv' <=> \A s \in Swaps : Safe(s)'
    BY DEF SecretInv, SignatureOnlyForPaidInvoice, PreimageOnlyForServerLock
  <1>0. ASSUME kind' = kind, NEW s \in Swaps, known'[s] = known[s] PROVE Safe(s)'
    <2>1. Safe(s) /\ Advances(s)
      BY <1>a, GetAdvances
    <2> QED BY <1>0, <2>1 DEF Advances, InvoicePaid
  <1>1. ASSUME NEW v \in Servers, NEW s \in Swaps, CreationStep(v, s) PROVE SecretInv'
    BY <1>0, <1>1, <1>b, CreationFrame
  <1>2. ASSUME NEW v \in Servers, Crash(v) PROVE SecretInv'
    BY <1>0, <1>2, <1>b DEF Crash, boltz
  <1>3. ASSUME NEW v \in Servers, SocketStep(v) \/ DropConnection(v) PROVE SecretInv'
    BY <1>0, <1>3, <1>b, SocketFrame
  <1>4. ASSUME NEW k \in Keys, ExpireLock(k) PROVE SecretInv'
    BY <1>0, <1>4, <1>b DEF ExpireLock, database, boltz
  <1>5. ASSUME NEW u \in Updates, Handling(u) PROVE SecretInv'
    <2> DEFINE s == SwapOf(u)
    <2>0. kind' = kind /\ s \in Swaps /\ s = u[2]
      BY <1>5, HandlerFrame, UpdateParts DEF SwapOf
    <2>1. \/ JobFits(u, task[u]) /\ Advances(s) /\ Truth(s, u[3])
          \/ task[u] = "idle"
      BY <2>0, GetAdvances DEF JobInv, TruthInv
    <2> HIDE DEF s
    <2>2. SUFFICES (\A t \in Swaps \ {s} : known'[t] = known[t])
                     /\ (known'[s] # known[s] => Safe(s)')
      BY <1>0, <1>b, <2>0
    <2>3. CASE PostSignature(u)
      <3>1. \A t \in Swaps \ {s} : known'[t] = known[t]
        BY <2>3 DEF PostSignature, TypeOK, s
      <3>2. kind[s] = "submarine" /\ InvoicePaid(s)
        BY <2>0, <2>1, <2>3 DEF PostSignature, JobFits
      <3> QED BY <2>0, <2>1, <2>3, <3>1, <3>2 DEF PostSignature, Advances, InvoicePaid
    <2>4. CASE PostClaim(u) \/ BroadcastScriptPath(u)
      <3>1. \A t \in Swaps \ {s} : known'[t] = known[t]
        BY <2>4 DEF PostClaim, BroadcastScriptPath, TypeOK, s
      <3>2. ClaimAsked(s, u[3]) /\ Truth(s, u[3]) /\ Advances(s)
        BY <2>0, <2>1, <2>4 DEF PostClaim, BroadcastScriptPath, JobFits, ClaimStates
      <3>3. Safe(s)'
        BY <2>0, <3>2 DEF ClaimAsked, Truth, Advances, ChainKinds
      <3> QED BY <3>1, <3>3
    <2>5. CASE UNCHANGED known
      BY <2>5
    <2>6. CASE \/ TakeLock(u) \/ SkipUpdate(u) \/ ReadSwap(u)
               \/ MarkCompleted(u) \/ MarkRefunded(u)
               \/ CheckPreimage(u) \/ PrepareRefund(u) \/ CosignRefund(u)
               \/ BroadcastRefund(u) \/ PrepareClaim(u)
      BY <2>5, <2>6 DEF TakeLock, SkipUpdate, ReadSwap, MarkCompleted, MarkRefunded,
                  CheckPreimage, PrepareRefund, CosignRefund, BroadcastRefund,
                  PrepareClaim, boltz
    <2>7. CASE \/ GetChainClaimInfo(u) \/ PostClaimBare(u) \/ BroadcastClaim(u)
               \/ CallFails(u) \/ QueryFails(u) \/ LoseLock(u)
      BY <2>5, <2>7 DEF GetChainClaimInfo, PostClaimBare, BroadcastClaim,
                  CallFails, QueryFails, LoseLock, boltz
    <2> QED BY <1>5, <2>3, <2>4, <2>6, <2>7 DEF Handling, HandlerStep
  <1>6. ASSUME NEW s \in Swaps, BoltzStep(s) PROVE SecretInv'
    BY <1>0, <1>6, <1>b, BoltzFrame
  <1>7. CASE UNCHANGED vars
    BY <1>0, <1>7, <1>b DEF vars
  <1> QED BY <1>1, <1>2, <1>3, <1>4, <1>5, <1>6, <1>7 DEF Next, Handling

(* Without an outage a handler holds its lock from the first step to the last. *)
LEMMA LockStep == TypeOK /\ LockInv /\ [Next]_vars => LockInv'
  <1> SUFFICES ASSUME TypeOK, LockInv, [Next]_vars, outages' = 0
               PROVE  \A w \in Updates : task'[w] # "idle" => lock'[KeyOf(w)] = w[1]
    BY DEF LockInv, KeyOf
  <1> DEFINE Held(w) == task[w] # "idle" => lock[KeyOf(w)] = w[1]
  <1>0. ASSUME outages = 0 PROVE \A w \in Updates : Held(w)
    BY <1>0 DEF LockInv
  <1>a. ASSUME outages = 0, UNCHANGED <<task, lock>> PROVE \A w \in Updates : Held(w)'
    BY <1>0, <1>a DEF KeyOf
  <1>1. ASSUME NEW v \in Servers, NEW s \in Swaps, CreationStep(v, s)
        PROVE \A w \in Updates : Held(w)'
    <2>1. outages = 0
      BY <1>1 DEF CreationStep, CreateSwap, Subscribe, StoreSwap, ReturnSwap, bounds,
                  Outage, TypeOK
    <2> QED BY <1>1, <1>a, <2>1, CreationFrame
  <1>2. ASSUME NEW v \in Servers, Crash(v) PROVE \A w \in Updates : Held(w)'
    <2>1. outages = 0
      BY <1>2 DEF Crash
    <2>2. ASSUME NEW w \in Updates, task'[w] # "idle" PROVE lock'[KeyOf(w)] = w[1]
      <3>1. w[1] # v /\ task[w] # "idle"
        BY <1>2, <2>2 DEF Crash, TypeOK
      <3> QED BY <1>0, <1>2, <2>1, <3>1, UpdateParts DEF Crash
    <2> QED BY <2>2 DEF KeyOf
  <1>3. ASSUME NEW v \in Servers, SocketStep(v) \/ DropConnection(v)
        PROVE \A w \in Updates : Held(w)'
    BY <1>3, <1>a, SocketFrame
  <1>4. ASSUME NEW k \in Keys, ExpireLock(k) PROVE \A w \in Updates : Held(w)'
    <2>1. \A w \in Updates : w[1] # Orphan
      BY ServersAssumption, UpdateParts
    <2>2. outages = 0 /\ task' = task
      BY <1>4 DEF ExpireLock, bounds
    <2> QED BY <1>0, <1>4, <2>1, <2>2, UpdateParts DEF ExpireLock, TypeOK, KeyOf
  <1>5. ASSUME NEW u \in Updates, Handling(u) PROVE \A w \in Updates : Held(w)'
    <2>0. ASSUME outages = 0, Finish(u), task[u] # "idle"
          PROVE  \A w \in Updates : Held(w)'
      <3>1. ASSUME NEW w \in Updates, task'[w] # "idle" PROVE lock'[KeyOf(w)] = w[1]
        <4>1. w # u /\ task[w] # "idle"
          BY <2>0, <3>1 DEF Finish, Goto, TypeOK
        <4>2. lock[KeyOf(w)] = w[1] /\ lock[KeyOf(u)] = u[1]
          BY <1>0, <2>0, <4>1
        <4>3. KeyOf(w) # KeyOf(u)
          BY <4>1, <4>2, UpdateParts DEF KeyOf
        <4> QED BY <2>0, <4>2, <4>3, UpdateParts DEF Finish, TypeOK
      <3> QED BY <3>1 DEF KeyOf
    <2> DEFINE OthersStay == \A w \in Updates \ {u} : task'[w] = task[w]
    <2>1. ASSUME outages = 0, OthersStay, task[u] # "idle", lock' = lock
          PROVE  \A w \in Updates : Held(w)'
      BY <1>0, <2>1 DEF KeyOf
    <2>2. CASE TakeLock(u)
      <3>1. outages = 0
        BY <2>2 DEF TakeLock, bounds
      <3>2. \A w \in Updates : w[1] # NoServer
        BY ServersAssumption, UpdateParts
      <3>3. ASSUME NEW w \in Updates, task'[w] # "idle" PROVE lock'[KeyOf(w)] = w[1]
        BY <1>0, <2>2, <3>1, <3>2, <3>3, UpdateParts DEF TakeLock, Goto, TypeOK
      <3> QED BY <3>3 DEF KeyOf
    <2>3. CASE SkipUpdate(u)
      <3>1. outages = 0
        BY <2>3 DEF SkipUpdate, bounds, Outage, TypeOK
      <3> QED BY <1>a, <2>3, <3>1 DEF SkipUpdate
    <2>4. CASE QueryFails(u) \/ LoseLock(u)
      BY <2>4 DEF QueryFails, LoseLock, Outage, TypeOK
    <2>5. CASE \/ ReadSwap(u) \/ MarkCompleted(u) \/ MarkRefunded(u)
               \/ CheckPreimage(u) \/ PostSignature(u) \/ BroadcastScriptPath(u)
      <3>1. outages = 0 /\ task[u] # "idle"
        BY <2>5 DEF ReadSwap, MarkCompleted, MarkRefunded, CheckPreimage,
                    PostSignature, BroadcastScriptPath, bounds
      <3>2. \/ Finish(u)
            \/ lock' = lock /\ OthersStay
        BY <2>5 DEF ReadSwap, MarkCompleted, MarkRefunded, CheckPreimage,
                    PostSignature, BroadcastScriptPath, Goto, TypeOK
      <3> QED BY <2>0, <2>1, <3>1, <3>2
    <2>6. CASE PrepareRefund(u) \/ CosignRefund(u) \/ BroadcastRefund(u)
      <3>1. outages = 0 /\ task[u] # "idle"
        BY <2>6 DEF PrepareRefund, CosignRefund, BroadcastRefund, bounds, BoltzFault
      <3>2. \/ Finish(u)
            \/ lock' = lock /\ OthersStay
        BY <2>6 DEF PrepareRefund, CosignRefund, BroadcastRefund, Goto, TypeOK
      <3> QED BY <2>0, <2>1, <3>1, <3>2
    <2>7. CASE \/ PrepareClaim(u) \/ GetChainClaimInfo(u) \/ PostClaim(u)
               \/ PostClaimBare(u) \/ BroadcastClaim(u)
      <3>1. outages = 0 /\ task[u] # "idle"
        BY <2>7 DEF PrepareClaim, GetChainClaimInfo, PostClaim, PostClaimBare,
                    BroadcastClaim, bounds, BoltzFault
      <3>2. \/ Finish(u)
            \/ lock' = lock /\ OthersStay
        BY <2>7 DEF PrepareClaim, GetChainClaimInfo, PostClaim, PostClaimBare,
                    BroadcastClaim, Goto, TypeOK
      <3> QED BY <2>0, <2>1, <3>1, <3>2
    <2>8. CASE CallFails(u)
      <3>1. outages = 0 /\ task[u] # "idle"
        BY <2>8 DEF CallFails, BoltzFault, AfterFault
      <3>2. \/ Finish(u)
            \/ lock' = lock /\ OthersStay
        BY <2>8 DEF CallFails, Goto, TypeOK
      <3> QED BY <2>0, <2>1, <3>1, <3>2
    <2> QED BY <1>5, <2>2, <2>3, <2>4, <2>5, <2>6, <2>7, <2>8 DEF Handling, HandlerStep
  <1>6. ASSUME NEW s \in Swaps, BoltzStep(s) PROVE \A w \in Updates : Held(w)'
    BY <1>6, <1>a, BoltzFrame
  <1>7. CASE UNCHANGED vars
    BY <1>7, <1>a DEF vars
  <1> QED BY <1>1, <1>2, <1>3, <1>4, <1>5, <1>6, <1>7 DEF Next, Handling

-----------------------------------------------------------------------------
(* What the rows say of the chain. *)

(* Handlers take back coins by one step only. *)
LEMMA HandlerGive ==
  ASSUME TypeOK, NEW u \in Updates, Handling(u)
  PROVE  \/ UNCHANGED give
         \/ /\ BroadcastRefund(u) /\ give[u[2]] = "locked"
            /\ give' = [give EXCEPT ![u[2]] = "refunded"]
  <1>1. CASE \/ TakeLock(u) \/ SkipUpdate(u) \/ ReadSwap(u)
             \/ MarkCompleted(u) \/ MarkRefunded(u)
             \/ CheckPreimage(u) \/ PostSignature(u) \/ PrepareRefund(u)
    BY <1>1 DEF TakeLock, SkipUpdate, ReadSwap, MarkCompleted, MarkRefunded,
                CheckPreimage, PostSignature, PrepareRefund, boltz
  <1>2. CASE \/ CosignRefund(u) \/ PrepareClaim(u)
             \/ GetChainClaimInfo(u) \/ PostClaim(u) \/ PostClaimBare(u)
             \/ BroadcastClaim(u) \/ BroadcastScriptPath(u)
             \/ CallFails(u) \/ QueryFails(u) \/ LoseLock(u)
    BY <1>2 DEF CosignRefund, PrepareClaim, GetChainClaimInfo, PostClaim, PostClaimBare,
                BroadcastClaim, BroadcastScriptPath, CallFails, QueryFails, LoseLock, boltz
  <1>3. CASE BroadcastRefund(u)
    BY <1>3 DEF BroadcastRefund, SwapOf
  <1> QED BY <1>1, <1>2, <1>3 DEF Handling, HandlerStep

(* No step brings back to none what was put up, nor takes back what is over. *)
LEMMA GiveAdvances ==
  ASSUME TypeOK, [Next]_vars, NEW s \in Swaps
  PROVE  /\ give[s] # "none" => give'[s] # "none"
         /\ give[s] \in {"claimed", "refunded"} => give'[s] = give[s]
  <1>1. CASE UNCHANGED give
    BY <1>1
  <1>2. ASSUME NEW v \in Servers, Crash(v) PROVE UNCHANGED give
    BY <1>2 DEF Crash, boltz
  <1>3. ASSUME NEW k \in Keys, ExpireLock(k) PROVE UNCHANGED give
    BY <1>3 DEF ExpireLock, boltz
  <1>4. ASSUME NEW u \in Updates, Handling(u)
        PROVE  \/ UNCHANGED give
               \/ give[u[2]] = "locked" /\ give' = [give EXCEPT ![u[2]] = "refunded"]
    BY <1>4, HandlerGive
  <1>5. ASSUME NEW t \in Swaps, BoltzStep(t)
        PROVE  \/ UNCHANGED give
               \/ give[t] = "none" /\ give' = [give EXCEPT ![t] = "locked"]
               \/ give[t] = "locked" /\ \E end \in {"claimed", "refunded"} : give' = [give EXCEPT ![t] = end]
    <2>1. CASE Fund(t) \/ FailServer(t) \/ TakeGive(t) \/ RefundServer(t)
      BY <2>1 DEF Fund, FailServer, TakeGive, RefundServer
    <2>2. CASE \/ AskSignature(t) \/ PayInvoice(t) \/ GiveUp(t) \/ LockServer(t)
               \/ ConfirmServer(t) \/ Expire(t)
      BY <2>2 DEF AskSignature, PayInvoice, GiveUp, LockServer, ConfirmServer, Expire
    <2> QED BY <1>5, <2>1, <2>2 DEF BoltzStep
  <1>6. CASE UNCHANGED vars
    BY <1>6 DEF vars
  <1> QED BY <1>1, <1>2, <1>3, <1>4, <1>5, <1>6, CreationFrame, SocketFrame, UpdateParts
          DEF Next, Handling, TypeOK

(* Only Boltz changes the status of a swap. *)
LEMMA StageStep ==
  ASSUME TypeOK, [Next]_vars, NEW s \in Swaps, stage'[s] # stage[s]
  PROVE  BoltzStep(s)
  <1>1. ASSUME NEW v \in Servers, Crash(v) PROVE FALSE
    BY <1>1 DEF Crash, boltz
  <1>2. ASSUME NEW k \in Keys, ExpireLock(k) PROVE FALSE
    BY <1>2 DEF ExpireLock, boltz
  <1>3. ASSUME NEW t \in Swaps, BoltzStep(t) PROVE t = s
    <2>1. stage' = stage \/ \E st : stage' = [stage EXCEPT ![t] = st]
      BY <1>3 DEF BoltzStep, Fund, AskSignature, PayInvoice, GiveUp, LockServer, ConfirmServer,
                  FailServer, TakeGive, RefundServer, Expire, Publish
    <2> QED BY <2>1 DEF TypeOK
  <1>4. CASE UNCHANGED vars
    BY <1>4 DEF vars
  <1> QED BY <1>1, <1>2, <1>3, <1>4, CreationFrame, SocketFrame, HandlerFrame DEF Next, Handling

(* Kinds never change. *)
LEMMA KindStays == ASSUME TypeOK, [Next]_vars PROVE kind' = kind
  <1>1. ASSUME NEW v \in Servers, Crash(v) PROVE kind' = kind
    BY <1>1 DEF Crash
  <1>2. ASSUME NEW k \in Keys, ExpireLock(k) PROVE kind' = kind
    BY <1>2 DEF ExpireLock, database
  <1>3. CASE UNCHANGED vars
    BY <1>3 DEF vars
  <1> QED BY <1>1, <1>2, <1>3, CreationFrame, SocketFrame, BoltzFrame, HandlerFrame DEF Next, Handling

(* An update in flight was so before, or carries the status its swap has now:
   Boltz publishes it, or answers a subscription with it. *)
LEMMA Arrivals ==
  ASSUME TypeOK, [Next]_vars, NEW u \in Updates, u \in wire' \/ task'[u] # "idle"
  PROVE  u \in wire \/ task[u] # "idle" \/ u[3] = stage'[u[2]]
  <1>1. ASSUME NEW v \in Servers, NEW s \in Swaps, CreationStep(v, s)
        PROVE  u \in wire \/ task[u] # "idle" \/ u[3] = stage'[u[2]]
    <2>1. \A w \in wire' : w \in wire \/ w[3] = stage[w[2]]
      BY <1>1 DEF CreationStep, CreateSwap, Subscribe, StoreSwap, ReturnSwap
    <2> QED BY <1>1, <2>1, CreationFrame
  <1>2. ASSUME NEW v \in Servers, SocketStep(v) \/ DropConnection(v)
        PROVE  u \in wire \/ task[u] # "idle" \/ u[3] = stage'[u[2]]
    <2>1. \A w \in wire' : w \in wire \/ w[3] = stage[w[2]]
      BY <1>2 DEF SocketStep, LoadPending, Connect, Open, DropConnection
    <2> QED BY <1>2, <2>1, SocketFrame
  <1>3. ASSUME NEW v \in Servers, Crash(v) PROVE u \in wire \/ task[u] # "idle"
    BY <1>3 DEF Crash, TypeOK
  <1>4. ASSUME NEW k \in Keys, ExpireLock(k) PROVE u \in wire \/ task[u] # "idle"
    BY <1>4 DEF ExpireLock
  <1>5. ASSUME NEW w \in Updates, Handling(w) PROVE u \in wire \/ task[u] # "idle"
    BY <1>5, HandlerTask, HandlerFrame
  <1>6. ASSUME NEW s \in Swaps, BoltzStep(s)
        PROVE  u \in wire \/ task[u] # "idle" \/ u[3] = stage'[u[2]]
    <2>1. wire' = wire \/ \E st \in Statuses : Publish(s, st)
      BY <1>6, StatusesAre DEF BoltzStep, Fund, AskSignature, PayInvoice, GiveUp, LockServer, ConfirmServer,
                  FailServer, TakeGive, RefundServer, Expire
    <2>2. task' = task
      BY <1>6, BoltzFrame
    <2>3. ASSUME NEW st \in Statuses, Publish(s, st), u \in wire', u \notin wire
          PROVE  u[3] = stage'[u[2]]
      <3>1. u[2] = s /\ u[3] = st
        BY <2>3 DEF Publish
      <3> QED BY <2>3, <3>1 DEF Publish, TypeOK
    <2> QED BY <2>1, <2>2, <2>3
  <1>7. CASE UNCHANGED vars
    BY <1>7 DEF vars
  <1> QED BY <1>1, <1>2, <1>3, <1>4, <1>5, <1>6, <1>7 DEF Next, Handling

(* Handlers only claim what can be claimed. *)
LEMMA HandlerClaims ==
  ASSUME NEW u \in Updates, Handling(u)
  PROVE  \/ UNCHANGED get
         \/ /\ Claimable(u[2]) /\ get' = [get EXCEPT ![u[2]] = "claimed"]
            /\ task[u] \in {"broadcast", "scriptPath"}
  <1>1. CASE BroadcastClaim(u) \/ BroadcastScriptPath(u)
    BY <1>1 DEF BroadcastClaim, BroadcastScriptPath, SwapOf
  <1>2. CASE \/ TakeLock(u) \/ SkipUpdate(u) \/ ReadSwap(u)
             \/ MarkCompleted(u) \/ MarkRefunded(u)
             \/ CheckPreimage(u) \/ PostSignature(u) \/ PrepareRefund(u)
    BY <1>2 DEF TakeLock, SkipUpdate, ReadSwap, MarkCompleted, MarkRefunded,
                CheckPreimage, PostSignature, PrepareRefund, boltz
  <1>3. CASE \/ CosignRefund(u) \/ BroadcastRefund(u) \/ PrepareClaim(u)
             \/ GetChainClaimInfo(u) \/ PostClaim(u) \/ PostClaimBare(u)
             \/ CallFails(u) \/ QueryFails(u) \/ LoseLock(u)
    BY <1>3 DEF CosignRefund, BroadcastRefund, PrepareClaim, GetChainClaimInfo,
                PostClaim, PostClaimBare, CallFails, QueryFails, LoseLock, boltz
  <1> QED BY <1>1, <1>2, <1>3 DEF Handling, HandlerStep

(* What a handler does to Boltz's side: its own swap's lock is claimed, at the
   broadcast of a claim, and nothing else moves. *)
LEMMA HandlerGet ==
  ASSUME TypeOK, NEW u \in Updates, Handling(u), NEW s \in Swaps
  PROVE  \/ get'[s] = get[s]
         \/ /\ s = u[2] /\ get[s] \in {"mempool", "confirmed"} /\ get'[s] = "claimed"
            /\ task[u] \in {"broadcast", "scriptPath"}
  BY HandlerClaims DEF Claimable, TypeOK

(* The work that matters is asked for by a status published once the user has
   put up the coins. *)
LEMMA ActionableIs ==
  ASSUME NEW k, NEW st, Actionable(k, st)
  PROVE  /\ st \notin CompletingStatuses /\ st \notin {"swap.created", "transaction.refunded"}
         /\ st \in FailureStatuses \cup TransactionStatuses \cup {"transaction.claim.pending"}
  BY DEF Actionable, Job, CompletingStatuses, FailureStatuses, TransactionStatuses

(* Boltz publishes nothing after the end of a swap but another end of it. *)
LEMMA StageOverLasts ==
  ASSUME TypeOK, BackedInv, [Next]_vars, NEW s \in Swaps, stage[s] \in OverStatuses
  PROVE  stage'[s] \in OverStatuses
  <1>1. CASE stage'[s] = stage[s]
    BY <1>1
  <1>2. CASE stage'[s] # stage[s]
    <2>1. BoltzStep(s)
      BY <1>2, StageStep
    <2>2. stage[s] = "transaction.refunded" => get[s] = "refunded"
      BY DEF BackedInv, Backed
    <2>3. CASE TakeGive(s) \/ RefundServer(s) \/ Expire(s) \/ FailServer(s)
      <3>1. \E st \in OverStatuses : Publish(s, st)
        BY <2>3 DEF TakeGive, RefundServer, Expire, FailServer, OverStatuses, CompletingStatuses
      <3> QED BY <3>1 DEF Publish, TypeOK
    <2>4. CASE Fund(s) \/ AskSignature(s) \/ PayInvoice(s) \/ GiveUp(s) \/ LockServer(s)
      BY <1>2, <2>4 DEF Fund, AskSignature, PayInvoice, GiveUp, LockServer, OverStatuses,
                        CompletingStatuses
    <2>5. CASE ConfirmServer(s)
      BY <1>2, <2>2, <2>5 DEF ConfirmServer, OverStatuses
    <2> QED BY <2>1, <2>3, <2>4, <2>5 DEF BoltzStep
  <1> QED BY <1>1, <1>2

(* A swap that is over stays over: what came too late does not open it again. *)
LEMMA OverLasts ==
  ASSUME TypeOK, BackedInv, [Next]_vars, NEW s \in Swaps, Over(s)
  PROVE  Over(s)'
  BY StageOverLasts, GiveAdvances DEF Over

(* What a status says goes on being so. *)
LEMMA BackedLasts ==
  ASSUME TypeOK, BackedInv, [Next]_vars, NEW s \in Swaps, NEW st, Backed(s, st)
  PROVE  Backed(s, st)'
  <1>1. kind' = kind /\ Advances(s)
    BY KindStays, GetAdvances
  <1>2. (give[s] # "none" => give'[s] # "none") /\ (Over(s) => Over(s)')
    BY GiveAdvances, OverLasts
  <1> QED BY <1>1, <1>2 DEF Backed, Advances

(* What Boltz publishes is so. *)
LEMMA PublishedIsBacked ==
  ASSUME TypeOK, BackedInv, [Next]_vars, NEW s \in Swaps
  PROVE  Backed(s, stage[s])'
  <1>1. CASE stage'[s] = stage[s]
    <2>1. Backed(s, stage[s])
      BY DEF BackedInv
    <2>2. PICK st : st = stage[s]
      OBVIOUS
    <2>3. Backed(s, st)'
      BY <2>1, <2>2, BackedLasts
    <2>4. stage'[s] = st
      BY <1>1, <2>2
    <2> QED BY <2>3, <2>4 DEF Backed
  <1>2. CASE stage'[s] # stage[s]
    <2>1. BoltzStep(s)
      BY <1>2, StageStep
    <2>2. stage'[s] \in OverStatuses => Over(s)'
      BY DEF Over
    <2>3. /\ Actionable(kind'[s], stage'[s]) => give'[s] # "none"
          /\ stage'[s] = "transaction.refunded" => get'[s] = "refunded"
      <3>1. CASE Fund(s) \/ AskSignature(s) \/ PayInvoice(s) \/ GiveUp(s) \/ LockServer(s)
        <4>1. give[s] # "none" \/ give'[s] # "none"
          BY <3>1 DEF Fund, AskSignature, PayInvoice, GiveUp, LockServer, TypeOK
        <4>2. stage' = stage \/ \E st \in Statuses \ {"transaction.refunded"} : Publish(s, st)
          BY <3>1, StatusesAre DEF Fund, AskSignature, PayInvoice, GiveUp, LockServer
        <4>3. stage'[s] # "transaction.refunded"
          BY <1>2, <4>2 DEF Publish, TypeOK
        <4> QED BY <4>1, <4>3, GiveAdvances
      <3>2. CASE ConfirmServer(s)
        <4>1. give[s] # "none"
          BY <3>2 DEF ConfirmServer, BackedInv
        <4>2. stage'[s] # "transaction.refunded"
          BY <1>2, <3>2 DEF ConfirmServer, Publish, TypeOK
        <4> QED BY <4>1, <4>2, GiveAdvances
      <3>3. CASE FailServer(s) \/ TakeGive(s) \/ Expire(s)
        <4>1. \E st \in CompletingStatuses : Publish(s, st)
          BY <3>3 DEF FailServer, TakeGive, Expire, CompletingStatuses
        <4>2. stage'[s] \in CompletingStatuses
          BY <4>1 DEF Publish, TypeOK
        <4> QED BY <4>2, ActionableIs DEF CompletingStatuses
      <3>4. CASE RefundServer(s)
        <4>1. stage'[s] = "transaction.refunded" /\ get'[s] = "refunded"
          BY <3>4 DEF RefundServer, Publish, TypeOK
        <4> QED BY <4>1, ActionableIs
      <3> QED BY <2>1, <3>1, <3>2, <3>3, <3>4 DEF BoltzStep
    <2> QED BY <2>2, <2>3 DEF Backed, OverStatuses
  <1> QED BY <1>1, <1>2

(* Coins are got only against coins put up, and go back with the swap over. *)
LEMMA GetIsBacked ==
  ASSUME TypeOK, BackedInv, [Next]_vars, NEW s \in Swaps
  PROVE  /\ get'[s] # "none" => give'[s] # "none"
         /\ get'[s] = "refunded" => Over(s)'
  <1>1. CASE get'[s] = get[s]
    BY <1>1, GiveAdvances, OverLasts DEF BackedInv
  <1>2. CASE get[s] # "none" /\ get'[s] # "refunded"
    BY <1>2, GiveAdvances DEF BackedInv
  <1>3. CASE BoltzStep(s)
    <2>1. CASE PayInvoice(s) \/ LockServer(s)
      BY <2>1, GiveAdvances DEF PayInvoice, LockServer, TypeOK
    <2>2. CASE ConfirmServer(s)
      BY <1>2, <2>2 DEF ConfirmServer, TypeOK
    <2>3. CASE RefundServer(s)
      <3>1. stage'[s] = "transaction.refunded" /\ get[s] # "none"
        BY <2>3 DEF RefundServer, Publish, TypeOK, Claimable
      <3> QED BY <3>1, GiveAdvances DEF Over, OverStatuses, BackedInv
    <2>4. CASE Fund(s) \/ AskSignature(s) \/ GiveUp(s) \/ FailServer(s) \/ TakeGive(s) \/ Expire(s)
      BY <1>1, <2>4 DEF Fund, AskSignature, GiveUp, FailServer, TakeGive, Expire
    <2> QED BY <1>3, <2>1, <2>2, <2>3, <2>4 DEF BoltzStep
  <1>4. CASE ~BoltzStep(s)
    <2>1. ASSUME NEW t \in Swaps, BoltzStep(t) PROVE get'[s] = get[s]
      <3>1. t # s
        BY <1>4, <2>1
      <3>2. get' = get \/ \E end : get' = [get EXCEPT ![t] = end]
        BY <2>1 DEF BoltzStep, Fund, AskSignature, PayInvoice, GiveUp, LockServer, ConfirmServer,
                    FailServer, TakeGive, RefundServer, Expire
      <3> QED BY <3>1, <3>2 DEF TypeOK
    <2>2. ASSUME NEW u \in Updates, Handling(u)
          PROVE  get'[s] = get[s] \/ (get[s] # "none" /\ get'[s] # "refunded")
      BY <2>2, HandlerGet
    <2>3. ASSUME NEW v \in Servers, Crash(v) PROVE get' = get
      BY <2>3 DEF Crash, boltz
    <2>4. ASSUME NEW k \in Keys, ExpireLock(k) PROVE get' = get
      BY <2>4 DEF ExpireLock, boltz
    <2>5. CASE UNCHANGED vars
      <3>1. get' = get
        BY <2>5 DEF vars
      <3> QED BY <1>1, <3>1
    <2> QED BY <1>1, <1>2, <2>1, <2>2, <2>3, <2>4, <2>5, CreationFrame, SocketFrame DEF Next, Handling
  <1> QED BY <1>3, <1>4

(* Every step keeps every status backed by the coins it tells of. *)
LEMMA BackedStep == TypeOK /\ BackedInv /\ [Next]_vars => BackedInv'
  <1> SUFFICES ASSUME TypeOK, BackedInv, [Next]_vars PROVE BackedInv' OBVIOUS
  <1>1. ASSUME NEW s \in Swaps PROVE Backed(s, stage[s])'
    BY PublishedIsBacked
  <1>2. ASSUME NEW u \in Updates, u \in wire' \/ task'[u] # "idle" PROVE Backed(u[2], u[3])'
    <2>1. CASE u \in wire \/ task[u] # "idle"
      BY <2>1, UpdateParts, BackedLasts DEF BackedInv
    <2>2. CASE u[3] = stage'[u[2]]
      BY <1>1, <2>2, UpdateParts DEF Backed
    <2> QED BY <1>2, <2>1, <2>2, Arrivals
  <1> QED BY <1>1, <1>2, GetIsBacked DEF BackedInv

(* The dispatch closes rows only on the statuses that end a swap. *)
LEMMA JobEnds ==
  ASSUME NEW k, NEW st
  PROVE  /\ Job(k, st) = "markCompleted" => st \in CompletingStatuses
         /\ Job(k, st) = "markRefunded" => st = "transaction.refunded"
         /\ Job(k, st) # "refundBroadcast"
  BY DEF Job

(* Where a handler goes next, when it is about to close a row. *)
LEMMA HandlerEnds ==
  ASSUME TypeOK, NEW u \in Updates, Handling(u)
  PROVE  /\ task'[u] = "markCompleted" => \/ task[u] = "markCompleted"
                                          \/ task[u] = "locked" /\ Job(kind[u[2]], u[3]) = "markCompleted"
         /\ task'[u] = "markRefunded" => \/ task[u] = "markRefunded"
                                         \/ task[u] = "locked" /\ Job(kind[u[2]], u[3]) = "markRefunded"
                                         \/ give'[u[2]] = "refunded"
         /\ task'[u] = "refundBroadcast" => \/ task[u] = "refundBroadcast"
                                            \/ stage[u[2]] \in GivenUpStatuses
  <1> USE DEF TypeOK, Goto, Finish, SwapOf
  <1>1. CASE TakeLock(u) \/ SkipUpdate(u) \/ LoseLock(u)
    BY <1>1 DEF TakeLock, SkipUpdate, LoseLock
  <1>2. CASE ReadSwap(u)
    <2>1. task'[u] = "idle" \/ (task[u] = "locked" /\ task'[u] = Job(kind[u[2]], u[3]))
      BY <1>2 DEF ReadSwap
    <2> QED BY <2>1, JobEnds
  <1>3. CASE \/ MarkCompleted(u) \/ MarkRefunded(u)
             \/ CheckPreimage(u) \/ PostSignature(u)
    BY <1>3 DEF MarkCompleted, MarkRefunded, CheckPreimage, PostSignature
  <1>4. CASE PrepareRefund(u) \/ CosignRefund(u)
    BY <1>4 DEF PrepareRefund, CosignRefund, GivenUpStatuses
  <1>5. CASE BroadcastRefund(u)
    BY <1>5, UpdateParts DEF BroadcastRefund
  <1>6. CASE \/ PrepareClaim(u) \/ GetChainClaimInfo(u) \/ PostClaim(u)
             \/ PostClaimBare(u)
    BY <1>6 DEF PrepareClaim, GetChainClaimInfo, PostClaim, PostClaimBare
  <1>7. CASE BroadcastClaim(u) \/ BroadcastScriptPath(u) \/ QueryFails(u)
    BY <1>7 DEF BroadcastClaim, BroadcastScriptPath, QueryFails
  <1>8. CASE CallFails(u)
    <2>1. task'[u] \in {"idle", "scriptPath"}
      BY <1>8, AfterFaultType DEF CallFails
    <2> QED BY <2>1
  <1> QED BY <1>1, <1>2, <1>3, <1>4, <1>5, <1>6, <1>7, <1>8 DEF Handling, HandlerStep

(* Other tasks are at rest, or stay where they are. *)
LEMMA TaskStays ==
  ASSUME TypeOK, [Next]_vars, NEW u \in Updates, task'[u] \notin {"idle", task[u]}
  PROVE  Handling(u)
  <1>1. ASSUME NEW v \in Servers, Crash(v) PROVE FALSE
    BY <1>1 DEF Crash, TypeOK
  <1>2. ASSUME NEW k \in Keys, ExpireLock(k) PROVE FALSE
    BY <1>2 DEF ExpireLock
  <1>3. ASSUME NEW w \in Updates, Handling(w) PROVE w = u
    BY <1>3, HandlerTask
  <1>4. CASE UNCHANGED vars
    BY <1>4 DEF vars
  <1> QED BY <1>1, <1>2, <1>3, <1>4, CreationFrame, SocketFrame, BoltzFrame DEF Next, Handling

(* Every step keeps that a handler closes only the row of a swap that is over. *)
LEMMA EndStep == TypeOK /\ BackedInv /\ EndInv /\ [Next]_vars => EndInv'
  <1> SUFFICES ASSUME TypeOK, BackedInv, EndInv, [Next]_vars, NEW u \in Updates
               PROVE  EndFits(u, task[u])'
    BY DEF EndInv
  <1>1. u[2] \in Swaps
    BY UpdateParts
  <1>2. EndFits(u, task[u]) /\ (task[u] # "idle" => Backed(u[2], u[3]))
    BY DEF EndInv, BackedInv
  <1>3. /\ give[u[2]] = "refunded" => give'[u[2]] = "refunded"
        /\ get[u[2]] = "refunded" => get'[u[2]] = "refunded"
    BY <1>1, GiveAdvances, GetAdvances DEF Advances
  <1>4. CASE task'[u] = "idle"
    BY <1>4 DEF EndFits
  <1>5. CASE task'[u] = task[u]
    BY <1>2, <1>3, <1>5 DEF EndFits
  <1>6. CASE task'[u] \notin {"idle", task[u]}
    <2>1. Handling(u)
      BY <1>6, TaskStays
    <2>2. task'[u] = "markCompleted" => u[3] \in CompletingStatuses
      BY <1>6, <2>1, HandlerEnds, JobEnds
    <2>3. ASSUME task'[u] = "markRefunded" PROVE "refunded" \in {give'[u[2]], get'[u[2]]}
      <3>1. CASE give'[u[2]] = "refunded"
        BY <3>1
      <3>2. CASE task[u] = "locked" /\ Job(kind[u[2]], u[3]) = "markRefunded"
        <4>1. u[3] = "transaction.refunded"
          BY <3>2, JobEnds
        <4> QED BY <1>2, <1>3, <3>2, <4>1 DEF Backed
      <3> QED BY <1>6, <2>1, <2>3, <3>1, <3>2, HandlerEnds
    <2> QED BY <2>2, <2>3 DEF EndFits
  <1> QED BY <1>4, <1>5, <1>6

(* What changes a row: the insert, before anything is put up, and the two steps
   that close it. *)
LEMMA RowStep ==
  ASSUME TypeOK, StorageInv, [Next]_vars, NEW s \in Swaps, row'[s] # row[s]
  PROVE  \/ row'[s] = "active" /\ give[s] = "none" /\ give'[s] = "none"
         \/ \E u \in Updates : /\ u[2] = s
                               /\ \/ task[u] = "markCompleted" /\ row'[s] = "completed" /\ row[s] # "refunded"
                                  \/ task[u] = "markRefunded" /\ row'[s] = "refunded"
  <1>1. ASSUME NEW v \in Servers, NEW t \in Swaps, CreationStep(v, t)
        PROVE  row'[s] = "active" /\ give[s] = "none" /\ give'[s] = "none"
    <2>1. t = s /\ StoreSwap(v, s) /\ row'[s] = "active"
      BY <1>1 DEF CreationStep, CreateSwap, Subscribe, StoreSwap, ReturnSwap, TypeOK
    <2>2. creation[s] # "returned"
      BY <2>1 DEF StoreSwap
    <2> QED BY <1>1, <2>1, <2>2, CreationFrame DEF StorageInv
  <1>2. ASSUME NEW v \in Servers, Crash(v) PROVE FALSE
    BY <1>2 DEF Crash
  <1>3. ASSUME NEW k \in Keys, ExpireLock(k) PROVE FALSE
    BY <1>3 DEF ExpireLock, database
  <1>4. ASSUME NEW u \in Updates, Handling(u)
        PROVE  /\ u[2] = s
               /\ \/ task[u] = "markCompleted" /\ row'[s] = "completed" /\ row[s] # "refunded"
                  \/ task[u] = "markRefunded" /\ row'[s] = "refunded"
    <2>1. CASE MarkCompleted(u) \/ MarkRefunded(u)
      BY <2>1 DEF MarkCompleted, MarkRefunded, TypeOK, SwapOf
    <2>2. CASE \/ TakeLock(u) \/ SkipUpdate(u) \/ ReadSwap(u)
               \/ CheckPreimage(u) \/ PostSignature(u) \/ PrepareRefund(u)
               \/ CosignRefund(u) \/ BroadcastRefund(u)
      BY <2>2 DEF TakeLock, SkipUpdate, ReadSwap, CheckPreimage, PostSignature, PrepareRefund,
                  CosignRefund, BroadcastRefund, database
    <2>3. CASE \/ PrepareClaim(u) \/ GetChainClaimInfo(u) \/ PostClaim(u) \/ PostClaimBare(u)
               \/ BroadcastClaim(u) \/ BroadcastScriptPath(u)
               \/ CallFails(u) \/ QueryFails(u) \/ LoseLock(u)
      BY <2>3 DEF PrepareClaim, GetChainClaimInfo, PostClaim, PostClaimBare, BroadcastClaim,
                  BroadcastScriptPath, CallFails, QueryFails, LoseLock, database
    <2> QED BY <1>4, <2>1, <2>2, <2>3 DEF Handling, HandlerStep
  <1>5. CASE UNCHANGED vars
    BY <1>5 DEF vars
  <1> QED BY <1>1, <1>2, <1>3, <1>4, <1>5, SocketFrame, BoltzFrame DEF Next, Handling

(* A call that fails is counted, and the counts only grow. *)
LEMMA FaultCounts ==
  ASSUME TypeOK, BoltzFault \/ Outage
  PROVE  faults' + outages' + crashes' > 0
  <1>1. faults \in Nat /\ outages \in Nat /\ crashes \in Nat
    BY BoundsAssumption DEF TypeOK
  <1> QED BY <1>1 DEF BoltzFault, Outage

(* The counts of what has gone wrong never fall. *)
LEMMA FaultsGrow ==
  ASSUME TypeOK, [Next]_vars
  PROVE  /\ faults \in Nat /\ outages \in Nat /\ crashes \in Nat
         /\ faults' \in Nat /\ outages' \in Nat /\ crashes' \in Nat
         /\ faults <= faults' /\ outages <= outages' /\ crashes <= crashes'
         /\ faults + outages + crashes > 0 => faults' + outages' + crashes' > 0
  <1>1. faults \in Nat /\ outages \in Nat /\ crashes \in Nat
    BY BoundsAssumption DEF TypeOK
  <1>2. CASE UNCHANGED <<faults, outages, crashes>>
    BY <1>1, <1>2
  <1>3. CASE BoltzFault \/ Outage
    BY <1>1, <1>3 DEF BoltzFault, Outage
  <1>4. ASSUME NEW v \in Servers, NEW s \in Swaps, CreationStep(v, s)
        PROVE  UNCHANGED <<faults, outages, crashes>> \/ Outage
    BY <1>4 DEF CreationStep, CreateSwap, Subscribe, StoreSwap, ReturnSwap, bounds
  <1>5. ASSUME NEW v \in Servers, SocketStep(v) \/ DropConnection(v)
        PROVE  UNCHANGED <<faults, outages, crashes>>
    BY <1>5 DEF SocketStep, LoadPending, Connect, Open, DropConnection, bounds
  <1>6. ASSUME NEW v \in Servers, Crash(v)
        PROVE  crashes' = crashes + 1 /\ UNCHANGED <<faults, outages>>
    BY <1>6 DEF Crash
  <1>7. ASSUME NEW k \in Keys, ExpireLock(k) PROVE UNCHANGED <<faults, outages, crashes>>
    BY <1>7 DEF ExpireLock, bounds
  <1>8. ASSUME NEW u \in Updates, Handling(u)
        PROVE  UNCHANGED <<faults, outages, crashes>> \/ BoltzFault \/ Outage
    <2>1. CASE \/ TakeLock(u) \/ SkipUpdate(u) \/ ReadSwap(u) \/ MarkCompleted(u) \/ MarkRefunded(u)
               \/ CheckPreimage(u) \/ PostSignature(u) \/ PrepareRefund(u) \/ CosignRefund(u)
      BY <2>1 DEF TakeLock, SkipUpdate, ReadSwap, MarkCompleted, MarkRefunded,
                  CheckPreimage, PostSignature, PrepareRefund, CosignRefund, bounds
    <2>2. CASE \/ BroadcastRefund(u) \/ PrepareClaim(u) \/ GetChainClaimInfo(u) \/ PostClaim(u)
               \/ PostClaimBare(u) \/ BroadcastClaim(u) \/ BroadcastScriptPath(u)
      BY <2>2 DEF BroadcastRefund, PrepareClaim, GetChainClaimInfo, PostClaim, PostClaimBare,
                  BroadcastClaim, BroadcastScriptPath, bounds
    <2>3. CASE CallFails(u) \/ QueryFails(u) \/ LoseLock(u)
      BY <2>3 DEF CallFails, QueryFails, LoseLock
    <2> QED BY <1>8, <2>1, <2>2, <2>3 DEF Handling, HandlerStep
  <1>9. ASSUME NEW s \in Swaps, BoltzStep(s) PROVE UNCHANGED <<faults, outages, crashes>>
    BY <1>9 DEF BoltzStep, Fund, AskSignature, PayInvoice, GiveUp, LockServer, ConfirmServer,
                FailServer, TakeGive, RefundServer, Expire, bounds
  <1>10. ASSUME UNCHANGED vars PROVE UNCHANGED <<faults, outages, crashes>>
    BY <1>10 DEF vars
  <1>11. ASSUME NEW v \in Servers, Crash(v)
         PROVE  /\ faults' \in Nat /\ outages' \in Nat /\ crashes' \in Nat
                /\ faults <= faults' /\ outages <= outages' /\ crashes <= crashes'
                /\ faults' + outages' + crashes' > 0
    BY <1>1, <1>6, <1>11
  <1> QED BY <1>1, <1>2, <1>3, <1>4, <1>5, <1>7, <1>8, <1>9, <1>10, <1>11 DEF Next, Handling

(* A handler about to record a refund does, unless a call or its process fails. *)
LEMMA MarkingEnds ==
  ASSUME TypeOK, [Next]_vars, NEW u \in Updates, task[u] = "markRefunded"
  PROVE  task'[u] = "markRefunded" \/ row'[u[2]] = "refunded" \/ faults' + outages' + crashes' > 0
  <1>1. CASE task'[u] = task[u]
    BY <1>1
  <1>2. CASE Handling(u)
    <2>1. CASE MarkRefunded(u)
      BY <2>1, UpdateParts DEF MarkRefunded, TypeOK, SwapOf
    <2>2. CASE QueryFails(u)
      BY <2>2, FaultCounts DEF QueryFails
    <2>3. CASE SkipUpdate(u) \/ LoseLock(u)
      BY <2>3 DEF SkipUpdate, LoseLock
    <2>4. CASE CallFails(u)
      BY <2>4, FaultCounts DEF CallFails
    <2>5. CASE \/ TakeLock(u) \/ ReadSwap(u) \/ MarkCompleted(u)
               \/ CheckPreimage(u) \/ PostSignature(u) \/ PrepareRefund(u)
               \/ CosignRefund(u) \/ BroadcastRefund(u)
      BY <2>5 DEF TakeLock, ReadSwap, MarkCompleted, CheckPreimage, PostSignature, PrepareRefund,
                  CosignRefund, BroadcastRefund
    <2>6. CASE \/ PrepareClaim(u) \/ GetChainClaimInfo(u) \/ PostClaim(u) \/ PostClaimBare(u)
               \/ BroadcastClaim(u) \/ BroadcastScriptPath(u)
      BY <2>6 DEF PrepareClaim, GetChainClaimInfo, PostClaim, PostClaimBare, BroadcastClaim,
                  BroadcastScriptPath
    <2> QED BY <1>2, <2>1, <2>2, <2>3, <2>4, <2>5, <2>6 DEF Handling, HandlerStep
  <1>3. ASSUME NEW v \in Servers, Crash(v) PROVE faults' + outages' + crashes' > 0
    <2>1. faults \in Nat /\ outages \in Nat /\ crashes \in Nat
      BY FaultsGrow
    <2> QED BY <1>3, <2>1 DEF Crash
  <1>4. ASSUME NEW k \in Keys, ExpireLock(k) PROVE task' = task
    BY <1>4 DEF ExpireLock
  <1>5. ASSUME NEW w \in Updates, Handling(w), w # u PROVE task'[u] = task[u]
    BY <1>5, HandlerTask
  <1>6. CASE UNCHANGED vars
    BY <1>1, <1>6 DEF vars
  <1> QED BY <1>1, <1>2, <1>3, <1>4, <1>5, <1>6, CreationFrame, SocketFrame, BoltzFrame
          DEF Next, Handling

(* Coins come back to the user by the refund of a handler, or from a hold invoice. *)
LEMMA RefundStep ==
  ASSUME TypeOK, [Next]_vars, NEW s \in Swaps, give'[s] = "refunded", give[s] # "refunded"
  PROVE  \/ \E u \in Updates : u[2] = s /\ BroadcastRefund(u)
         \/ BoltzStep(s) /\ (FailServer(s) \/ RefundServer(s)) /\ kind[s] = "reverse"
  <1>1. ASSUME NEW v \in Servers, Crash(v) PROVE FALSE
    BY <1>1 DEF Crash, boltz
  <1>2. ASSUME NEW k \in Keys, ExpireLock(k) PROVE FALSE
    BY <1>2 DEF ExpireLock, boltz
  <1>3. ASSUME NEW u \in Updates, Handling(u) PROVE BroadcastRefund(u) /\ u[2] = s
    BY <1>3, HandlerGive DEF TypeOK
  <1>4. ASSUME NEW t \in Swaps, BoltzStep(t)
        PROVE  t = s /\ (FailServer(s) \/ RefundServer(s)) /\ kind[s] = "reverse"
    <2>1. CASE FailServer(t) \/ RefundServer(t)
      BY <2>1 DEF FailServer, RefundServer, TypeOK
    <2>2. CASE Fund(t) \/ TakeGive(t)
      BY <2>2 DEF Fund, TakeGive, TypeOK
    <2>3. CASE \/ AskSignature(t) \/ PayInvoice(t) \/ GiveUp(t) \/ LockServer(t)
               \/ ConfirmServer(t) \/ Expire(t)
      BY <2>3 DEF AskSignature, PayInvoice, GiveUp, LockServer, ConfirmServer, Expire
    <2> QED BY <1>4, <2>1, <2>2, <2>3 DEF BoltzStep
  <1>5. CASE UNCHANGED vars
    BY <1>5 DEF vars
  <1> QED BY <1>1, <1>2, <1>3, <1>4, <1>5, CreationFrame, SocketFrame DEF Next, Handling

(* A refund in the database is that of the chain, and the other way round. *)
LEMMA RowsStep ==
  /\ TypeOK /\ StorageInv /\ BackedInv /\ EndInv /\ RowsMatchTheChain /\ [Next]_vars
  => RowsMatchTheChain'
  <1> SUFFICES ASSUME TypeOK, StorageInv, BackedInv, EndInv, RowsMatchTheChain, [Next]_vars
               PROVE  RowsMatchTheChain'
    OBVIOUS
  <1>1. ASSUME NEW s \in Swaps PROVE Over(s) => Over(s)'
    BY OverLasts
  <1>2. ASSUME NEW s \in Swaps
        PROVE  "refunded" \in {give[s], get[s]} => "refunded" \in {give'[s], get'[s]} /\ Over(s)
    BY GiveAdvances, GetAdvances DEF Advances, BackedInv, Over
  <1>3. ASSUME NEW u \in Updates
        PROVE  /\ task[u] = "markCompleted" => Over(u[2])
               /\ task[u] = "markRefunded" => "refunded" \in {give[u[2]], get[u[2]]}
    <2>1. EndFits(u, task[u]) /\ (task[u] # "idle" => Backed(u[2], u[3]))
      BY DEF EndInv, BackedInv
    <2> QED BY <2>1 DEF EndFits, Backed
  <1>4. ASSUME NEW s \in Swaps
        PROVE  /\ row'[s] \in {"completed", "refunded"} => Over(s)'
               /\ row'[s] = "refunded" => "refunded" \in {give'[s], get'[s]}
    <2>1. CASE row'[s] = row[s]
      BY <1>1, <1>2, <2>1 DEF RowsMatchTheChain, ClosedRowIsOver, RefundedRowIsBacked, Over, OverStatuses
    <2>2. CASE row'[s] # row[s]
      BY <1>1, <1>2, <1>3, <2>2, RowStep
    <2> QED BY <2>1, <2>2
  <1>5. ClosedRowIsOver' /\ RefundedRowIsBacked'
    BY <1>4 DEF ClosedRowIsOver, RefundedRowIsBacked, Over, OverStatuses
  <1>6. ASSUME NEW s \in Swaps, give'[s] = "refunded", kind'[s] # "reverse"
        PROVE  \/ row'[s] = "refunded"
               \/ \E u \in Updates : u[2] = s /\ task'[u] = "markRefunded"
               \/ faults' + outages' + crashes' > 0
    <2>1. kind' = kind
      BY KindStays
    <2>2. faults + outages + crashes > 0 => faults' + outages' + crashes' > 0
      BY FaultsGrow
    <2>3. CASE row[s] = "refunded"
      <3>1. row'[s] = "refunded" \/ give'[s] = "none"
        BY <2>3, RowStep
      <3> QED BY <1>6, <3>1
    <2>4. ASSUME NEW u \in Updates, u[2] = s, task[u] = "markRefunded"
          PROVE  \/ task'[u] = "markRefunded" \/ row'[s] = "refunded"
                 \/ faults' + outages' + crashes' > 0
      BY <2>4, MarkingEnds
    <2>5. CASE give[s] = "refunded"
      BY <1>6, <2>1, <2>2, <2>3, <2>4, <2>5 DEF RowsMatchTheChain, RefundIsRecorded, SwapOf
    <2>6. CASE give[s] # "refunded"
      <3>1. PICK u \in Updates : u[2] = s /\ BroadcastRefund(u)
        BY <1>6, <2>1, <2>6, RefundStep
      <3> QED BY <1>6, <2>6, <3>1, FaultCounts, UpdateParts DEF BroadcastRefund, Goto, TypeOK
    <2> QED BY <2>5, <2>6
  <1>7. RefundIsRecorded'
    BY <1>6 DEF RefundIsRecorded, SwapOf
  <1> QED BY <1>5, <1>7 DEF RowsMatchTheChain

(* Boltz takes what was put up in one step only. *)
LEMMA TakeStep ==
  ASSUME TypeOK, [Next]_vars, NEW s \in Swaps, give'[s] = "claimed", give[s] # "claimed"
  PROVE  TakeGive(s)
  <1>1. ASSUME NEW v \in Servers, Crash(v) PROVE FALSE
    BY <1>1 DEF Crash, boltz
  <1>2. ASSUME NEW k \in Keys, ExpireLock(k) PROVE FALSE
    BY <1>2 DEF ExpireLock, boltz
  <1>3. ASSUME NEW u \in Updates, Handling(u) PROVE FALSE
    BY <1>3, HandlerGive DEF TypeOK
  <1>4. ASSUME NEW t \in Swaps, BoltzStep(t) PROVE TakeGive(s)
    <2>1. CASE Fund(t) \/ FailServer(t) \/ RefundServer(t) \/ TakeGive(t)
      BY <2>1 DEF Fund, FailServer, RefundServer, TakeGive, TypeOK
    <2>2. CASE \/ AskSignature(t) \/ PayInvoice(t) \/ GiveUp(t) \/ LockServer(t)
               \/ ConfirmServer(t) \/ Expire(t)
      BY <2>2 DEF AskSignature, PayInvoice, GiveUp, LockServer, ConfirmServer, Expire
    <2> QED BY <1>4, <2>1, <2>2 DEF BoltzStep
  <1>5. ASSUME UNCHANGED vars PROVE FALSE
    BY <1>5 DEF vars
  <1> QED BY <1>1, <1>2, <1>3, <1>4, <1>5, CreationFrame, SocketFrame DEF Next, Handling

(* What Boltz has been shown is not forgotten, and what it can take it still can. *)
LEMMA HandlerKnown ==
  ASSUME TypeOK, JobInv, NEW u \in Updates, Handling(u), NEW s \in Swaps
  PROVE  /\ known[s] \subseteq known'[s]
         /\ known'[s] # known[s] =>
              /\ s = u[2]
              /\ \/ task[u] = "postSignature" /\ kind[s] = "submarine" /\ known'[s] = known[s] \cup {"signature"}
                 \/ /\ task[u] \in {"cosign", "scriptPath"} /\ kind[s] # "submarine"
                    /\ task'[u] \in {"broadcast", "scriptPath"} \/ get'[s] = "claimed"
  <1>1. CASE PostSignature(u)
    BY <1>1 DEF PostSignature, TypeOK, SwapOf, JobInv, JobFits
  <1>2. CASE PostClaim(u) \/ BroadcastScriptPath(u)
    <2>1. kind[u[2]] # "submarine"
      <3>1. ClaimAsked(u[2], u[3])
        BY <1>2 DEF PostClaim, BroadcastScriptPath, JobInv, JobFits, ClaimStates
      <3> QED BY <3>1 DEF ClaimAsked, ChainKinds
    <2> QED BY <1>2, <2>1 DEF PostClaim, BroadcastScriptPath, TypeOK, SwapOf, Goto
  <1>3. CASE \/ TakeLock(u) \/ SkipUpdate(u) \/ ReadSwap(u)
             \/ MarkCompleted(u) \/ MarkRefunded(u)
             \/ CheckPreimage(u) \/ PrepareRefund(u)
    BY <1>3 DEF TakeLock, SkipUpdate, ReadSwap, MarkCompleted, MarkRefunded,
                CheckPreimage, PrepareRefund, boltz
  <1>4. CASE \/ CosignRefund(u) \/ BroadcastRefund(u) \/ PrepareClaim(u)
             \/ GetChainClaimInfo(u) \/ PostClaimBare(u) \/ BroadcastClaim(u)
             \/ CallFails(u) \/ QueryFails(u) \/ LoseLock(u)
    BY <1>4 DEF CosignRefund, BroadcastRefund, PrepareClaim, GetChainClaimInfo, PostClaimBare,
                BroadcastClaim, CallFails, QueryFails, LoseLock, boltz
  <1> QED BY <1>1, <1>2, <1>3, <1>4 DEF Handling, HandlerStep

(* Whoever else moves, what Boltz has been shown stays as it is. *)
LEMMA KnownStep ==
  ASSUME TypeOK, JobInv, [Next]_vars, NEW s \in Swaps
  PROVE  /\ known[s] \subseteq known'[s]
         /\ known'[s] # known[s] =>
              \E u \in Updates :
                /\ Handling(u) /\ s = u[2]
                /\ \/ task[u] = "postSignature" /\ kind[s] = "submarine" /\ known'[s] = known[s] \cup {"signature"}
                   \/ /\ task[u] \in {"cosign", "scriptPath"} /\ kind[s] # "submarine"
                      /\ task'[u] \in {"broadcast", "scriptPath"} \/ get'[s] = "claimed"
  <1>1. ASSUME NEW v \in Servers, Crash(v) PROVE known' = known
    BY <1>1 DEF Crash, boltz
  <1>2. ASSUME NEW k \in Keys, ExpireLock(k) PROVE known' = known
    BY <1>2 DEF ExpireLock, boltz
  <1>3. ASSUME UNCHANGED vars PROVE known' = known
    BY <1>3 DEF vars
  <1> QED BY <1>1, <1>2, <1>3, CreationFrame, SocketFrame, BoltzFrame, HandlerKnown DEF Next, Handling

(* The coins that Boltz locks: who changes them. *)
LEMMA GetStep ==
  ASSUME TypeOK, [Next]_vars, NEW s \in Swaps, get'[s] # get[s]
  PROVE  \/ PayInvoice(s) /\ get'[s] = "claimed"
         \/ LockServer(s) /\ get'[s] = "mempool"
         \/ ConfirmServer(s) /\ get'[s] = "confirmed"
         \/ RefundServer(s) /\ get'[s] = "refunded"
         \/ \E u \in Updates : /\ Handling(u) /\ u[2] = s /\ task[u] \in {"broadcast", "scriptPath"}
                               /\ get[s] \in {"mempool", "confirmed"} /\ get'[s] = "claimed"
  <1>1. ASSUME NEW v \in Servers, Crash(v) PROVE FALSE
    BY <1>1 DEF Crash, boltz
  <1>2. ASSUME NEW k \in Keys, ExpireLock(k) PROVE FALSE
    BY <1>2 DEF ExpireLock, boltz
  <1>3. ASSUME UNCHANGED vars PROVE FALSE
    BY <1>3 DEF vars
  <1>4. ASSUME NEW t \in Swaps, BoltzStep(t)
        PROVE  \/ PayInvoice(s) /\ get'[s] = "claimed"
               \/ LockServer(s) /\ get'[s] = "mempool"
               \/ ConfirmServer(s) /\ get'[s] = "confirmed"
               \/ RefundServer(s) /\ get'[s] = "refunded"
    <2>1. CASE PayInvoice(t)
      BY <2>1 DEF PayInvoice, TypeOK
    <2>2. CASE LockServer(t)
      BY <2>2 DEF LockServer, TypeOK
    <2>3. CASE ConfirmServer(t)
      BY <2>3 DEF ConfirmServer, TypeOK
    <2>4. CASE RefundServer(t)
      BY <2>4 DEF RefundServer, TypeOK
    <2>5. CASE Fund(t) \/ AskSignature(t) \/ GiveUp(t) \/ FailServer(t) \/ TakeGive(t) \/ Expire(t)
      BY <2>5 DEF Fund, AskSignature, GiveUp, FailServer, TakeGive, Expire
    <2> QED BY <1>4, <2>1, <2>2, <2>3, <2>4, <2>5 DEF BoltzStep
  <1>5. ASSUME NEW u \in Updates, Handling(u)
        PROVE  /\ u[2] = s /\ task[u] \in {"broadcast", "scriptPath"}
               /\ get[s] \in {"mempool", "confirmed"} /\ get'[s] = "claimed"
    BY <1>5, HandlerGet
  <1> QED BY <1>1, <1>2, <1>3, <1>4, <1>5, CreationFrame, SocketFrame DEF Next, Handling

(* Boltz goes back on none of the swaps it has given up. *)
LEMMA GivenUpLasts ==
  ASSUME TypeOK, SecretInv, GivenUpInv, [Next]_vars, NEW s \in Swaps, stage[s] \in GivenUpStatuses
  PROVE  stage'[s] \in GivenUpStatuses
  <1>1. get[s] = "none" /\ kind[s] \in AllKinds
    BY KindsAssumption DEF GivenUpInv, TypeOK
  <1>2. ~CanTake(s)
    <2>1. kind[s] = "submarine" => known[s] = {}
      BY <1>1 DEF TypeOK, GivenUpInv, SecretInv, SignatureOnlyForPaidInvoice, InvoicePaid
    <2>2. kind[s] # "submarine" => known[s] = {}
      BY <1>1 DEF SecretInv, PreimageOnlyForServerLock
    <2> QED BY <1>1, <2>1, <2>2 DEF CanTake, InvoicePaid
  <1>3. CASE stage'[s] = stage[s]
    BY <1>3
  <1>4. CASE Fund(s) \/ AskSignature(s) \/ GiveUp(s) \/ LockServer(s) \/ FailServer(s)
    BY <1>4, <1>3 DEF Fund, AskSignature, GiveUp, LockServer, FailServer, GivenUpStatuses, FailureStatuses
  <1>5. CASE PayInvoice(s) \/ ConfirmServer(s) \/ TakeGive(s) \/ RefundServer(s)
    BY <1>1, <1>2, <1>3, <1>5 DEF PayInvoice, ConfirmServer, TakeGive, RefundServer, Claimable
  <1>6. CASE Expire(s)
    <2>1. kind[s] # "reverse"
      BY <1>6 DEF Expire, GivenUpStatuses, FailureStatuses
    <2>2. Publish(s, "swap.expired")
      BY <1>6, <2>1 DEF Expire
    <2> QED BY <2>2 DEF Publish, TypeOK, GivenUpStatuses
  <1> QED BY <1>3, <1>4, <1>5, <1>6, StageStep DEF BoltzStep

(* Every step keeps that nothing is delivered for a swap given up, and that what
   was taken could be taken. *)
LEMMA GivenUpStep ==
  TypeOK /\ JobInv /\ SecretInv /\ BackedInv /\ GivenUpInv /\ [Next]_vars => GivenUpInv'
  <1> SUFFICES ASSUME TypeOK, JobInv, SecretInv, BackedInv, GivenUpInv, [Next]_vars PROVE GivenUpInv'
    OBVIOUS
  <1>0. kind' = kind
    BY KindStays
  <1>1. ASSUME NEW s \in Swaps, kind[s] = "submarine"
        PROVE  get'[s] \in {"none", "claimed"} /\ "preimage" \notin known'[s]
    <2>1. get[s] \in {"none", "claimed"} /\ "preimage" \notin known[s]
      BY <1>1 DEF GivenUpInv
    <2>2. get'[s] \in {"none", "claimed"}
      BY <1>1, <2>1, GetStep DEF LockServer, ConfirmServer, RefundServer, Claimable
    <2>3. "preimage" \notin known'[s]
      BY <1>1, <2>1, KnownStep
    <2> QED BY <2>2, <2>3
  <1>2. ASSUME NEW s \in Swaps, stage'[s] \in GivenUpStatuses PROVE get'[s] = "none"
    <2>1. CASE stage[s] \in GivenUpStatuses
      <3>1. get[s] = "none"
        BY <2>1 DEF GivenUpInv
      <3>2. ~PayInvoice(s) /\ ~LockServer(s) /\ ~ConfirmServer(s) /\ ~RefundServer(s)
        BY <2>1, <3>1 DEF PayInvoice, LockServer, ConfirmServer, RefundServer, Claimable, GivenUpStatuses,
                          FailureStatuses
      <3> QED BY <3>1, <3>2, GetStep
    <2>2. CASE stage[s] \notin GivenUpStatuses
      <3>1. BoltzStep(s)
        BY <1>2, <2>2, StageStep
      <3>2. CASE GiveUp(s) \/ Expire(s)
        BY <3>2 DEF GiveUp, Expire
      <3>3. CASE \/ Fund(s) \/ AskSignature(s) \/ LockServer(s) \/ FailServer(s) \/ TakeGive(s)
                 \/ RefundServer(s)
        <4>1. stage' = stage \/ \E st \in Statuses \ GivenUpStatuses : Publish(s, st)
          BY <3>3, StatusesAre DEF Fund, AskSignature, LockServer, FailServer, TakeGive, RefundServer,
                                   GivenUpStatuses, FailureStatuses
        <4> QED BY <1>2, <2>2, <4>1 DEF Publish, TypeOK
      <3>4. CASE PayInvoice(s)
        BY <1>2, <2>2, <3>4 DEF PayInvoice
      <3>5. CASE ConfirmServer(s)
        <4>1. stage' = stage \/ \E st \in Statuses \ GivenUpStatuses : Publish(s, st)
          BY <3>5, StatusesAre DEF ConfirmServer, GivenUpStatuses, FailureStatuses
        <4> QED BY <1>2, <2>2, <4>1 DEF Publish, TypeOK
      <3> QED BY <3>1, <3>2, <3>3, <3>4, <3>5 DEF BoltzStep
    <2> QED BY <2>1, <2>2
  <1>3. ASSUME NEW s \in Swaps, give'[s] = "claimed" PROVE CanTake(s)'
    <2>1. CanTake(s)
      <3>1. CASE give[s] = "claimed"
        BY <3>1 DEF GivenUpInv
      <3>2. CASE give[s] # "claimed"
        BY <1>3, <3>2, TakeStep DEF TakeGive
      <3> QED BY <3>1, <3>2
    <2> QED BY <1>0, <2>1, GetAdvances, KnownStep DEF CanTake, InvoicePaid, Advances
  <1>4. ASSUME NEW s \in Swaps, Claimable(s)' PROVE give'[s] # "refunded"
    <2>1. SUFFICES ASSUME give'[s] = "refunded" PROVE FALSE
      OBVIOUS
    <2>2. CASE give[s] = "refunded"
      <3>1. ~Claimable(s)
        BY <2>2 DEF GivenUpInv
      <3>2. get'[s] # get[s]
        BY <1>4, <3>1 DEF Claimable
      <3>3. LockServer(s)
        BY <1>4, <3>1, <3>2, GetStep DEF Claimable, ConfirmServer
      <3> QED BY <2>2, <3>3 DEF LockServer
    <2>3. CASE give[s] # "refunded"
      <3>1. CASE FailServer(s)
        BY <1>4, <3>1 DEF FailServer, Claimable
      <3>2. CASE RefundServer(s)
        BY <1>4, <3>2 DEF RefundServer, Claimable, TypeOK
      <3>3. ASSUME NEW u \in Updates, u[2] = s, BroadcastRefund(u) PROVE FALSE
        <4>1. stage[s] \in GivenUpStatuses /\ get' = get
          BY <3>3 DEF BroadcastRefund, GivenUpInv
        <4> QED BY <1>4, <4>1 DEF GivenUpInv, Claimable
      <3> QED BY <2>1, <2>3, <3>1, <3>2, <3>3, RefundStep
    <2> QED BY <2>2, <2>3
  <1>5. ASSUME NEW u \in Updates, task'[u] = "refundBroadcast" PROVE stage'[u[2]] \in GivenUpStatuses
    <2>1. stage[u[2]] \in GivenUpStatuses
      <3>1. CASE task[u] = "refundBroadcast"
        BY <3>1 DEF GivenUpInv
      <3>2. CASE task[u] # "refundBroadcast"
        BY <1>5, <3>2, TaskStays, HandlerEnds
      <3> QED BY <3>1, <3>2
    <2> QED BY <2>1, UpdateParts, GivenUpLasts
  <1> QED BY <1>0, <1>1, <1>2, <1>3, <1>4, <1>5 DEF GivenUpInv, CanTake, InvoicePaid, Claimable

-----------------------------------------------------------------------------
(* The theorems. *)

(* The invariant holds in every reachable state. *)
THEOREM Invariance == Spec => []IInv
  <1>1. Init => IInv
    BY InvInit
  <1>2. IInv /\ [Next]_vars => IInv'
    BY TypeStep, StorageStep, TruthStep, JobStep, SecretStep, LockStep, BackedStep, EndStep, RowsStep,
       GivenUpStep DEF IInv
  <1> QED BY <1>1, <1>2, PTL DEF Spec

(* Every variable keeps its type. *)
THEOREM TypeCorrectness == Spec => []TypeOK
  <1>1. IInv => TypeOK
    BY DEF IInv
  <1> QED BY <1>1, Invariance, PTL

(* Boltz gets our signature on its claim of a submarine lockup only for an
   invoice it has paid: handleSubmarineSwap. *)
THEOREM SignatureSafety == Spec => []SignatureOnlyForPaidInvoice
  <1>1. IInv => SignatureOnlyForPaidInvoice
    BY DEF IInv, SecretInv
  <1> QED BY <1>1, Invariance, PTL

(* The preimage leaves the server only for coins on the chain, confirmed for a
   chain swap, whatever updates are stale, repeated, lost or handled twice. *)
THEOREM PreimageSafety == Spec => []PreimageOnlyForServerLock
  <1>1. IInv => PreimageOnlyForServerLock
    BY DEF IInv, SecretInv
  <1> QED BY <1>1, Invariance, PTL

(* No coins are put up for a swap whose keys are not stored, wherever the
   request that created it failed or its process crashed. *)
THEOREM FundsAreRecoverable == Spec => []FundedSwapIsStored
  <1>1. IInv => FundedSwapIsStored
    BY DEF IInv, StorageInv, FundedSwapIsStored
  <1> QED BY <1>1, Invariance, PTL

(* An update the handler must act on finds the row of its swap, although the
   server subscribes to it before it stores it. *)
THEOREM ActionableUpdateAlwaysFindsRow == Spec => []ActionableUpdateFindsRow
  <1>1. IInv => ActionableUpdateFindsRow
    <2> SUFFICES ASSUME IInv, NEW u \in Updates, u \in wire \/ task[u] = "locked",
                        Actionable(kind[SwapOf(u)], u[3])
                 PROVE  row[SwapOf(u)] # "absent"
      BY DEF ActionableUpdateFindsRow
    <2>1. Backed(u[2], u[3])
      BY DEF IInv, BackedInv
    <2>2. give[SwapOf(u)] # "none"
      BY <2>1 DEF Backed, SwapOf
    <2> QED BY <2>2, UpdateParts DEF IInv, StorageInv
  <1> QED BY <1>1, Invariance, PTL

(* Rows and chain agree: a closed swap is over, a refund is recorded unless a
   call or a process failed, and a recorded one has happened. *)
THEOREM RowsAlwaysMatchTheChain == Spec => []RowsMatchTheChain
  <1>1. IInv => RowsMatchTheChain
    BY DEF IInv
  <1> QED BY <1>1, Invariance, PTL

(* Without an outage of Redis at most one process handles an update. *)
THEOREM OneHandler == Spec => []OneHandlerPerUpdate
  <1>1. IInv => OneHandlerPerUpdate
    <2> SUFFICES ASSUME LockInv, outages = 0,
                        NEW v \in Servers, NEW w \in Servers, NEW s \in Swaps,
                        NEW st \in Statuses,
                        task[<<v, s, st>>] # "idle", task[<<w, s, st>>] # "idle"
                 PROVE  v = w
      BY DEF IInv, OneHandlerPerUpdate
    <2>1. <<v, s, st>> \in Updates /\ <<w, s, st>> \in Updates
      BY DEF Updates
    <2> QED BY <2>1 DEF LockInv, KeyOf
  <1> QED BY <1>1, Invariance, PTL


(* A lock leaves its holder when the holder's handler ends, its process dies, or
   Redis fails to extend it: never by the handler of another update or process. *)
LEMMA LockEnds ==
  ASSUME TypeOK, [Next]_vars, NEW u \in Updates, lock[KeyOf(u)] = u[1], lock'[KeyOf(u)] # u[1]
  PROVE  task'[u] = "idle" \/ outages' > outages
  <1>1. /\ KeyOf(u) \in Keys /\ u[1] \in Servers /\ u[1] # NoServer /\ u[1] # Orphan
        /\ outages \in Nat
    BY UpdateParts, ServersAssumption, BoundsAssumption DEF TypeOK
  <1>2. ASSUME NEW v \in Servers, Crash(v) PROVE task'[u] = "idle"
    BY <1>1, <1>2 DEF Crash
  <1>3. ASSUME NEW k \in Keys, ExpireLock(k) PROVE FALSE
    BY <1>1, <1>3 DEF ExpireLock, TypeOK
  <1>4. ASSUME NEW w \in Updates, Handling(w) PROVE task'[u] = "idle" \/ outages' > outages
    <2>1. ASSUME Finish(w) PROVE task'[u] = "idle"
      <3>1. KeyOf(w) = KeyOf(u) /\ w[1] = u[1]
        BY <1>1, <2>1 DEF Finish, TypeOK
      <3>2. w = u
        BY <3>1, UpdateParts DEF KeyOf
      <3> QED BY <2>1, <3>2 DEF Finish, Goto, TypeOK
    <2>2. CASE TakeLock(w)
      BY <1>1, <2>2 DEF TakeLock, TypeOK
    <2>3. CASE LoseLock(w)
      BY <1>1, <2>3 DEF LoseLock, Outage
    <2>4. CASE SkipUpdate(w)
      BY <2>4 DEF SkipUpdate
    <2>5. CASE \/ ReadSwap(w) \/ MarkCompleted(w) \/ MarkRefunded(w) \/ CheckPreimage(w)
               \/ PostSignature(w) \/ BroadcastScriptPath(w) \/ QueryFails(w)
      BY <2>1, <2>5 DEF ReadSwap, MarkCompleted, MarkRefunded, CheckPreimage, PostSignature,
                        BroadcastScriptPath, QueryFails
    <2>6. CASE PrepareRefund(w) \/ CosignRefund(w) \/ BroadcastRefund(w) \/ CallFails(w)
      BY <2>1, <2>6 DEF PrepareRefund, CosignRefund, BroadcastRefund, CallFails
    <2>7. CASE \/ PrepareClaim(w) \/ GetChainClaimInfo(w) \/ PostClaim(w)
               \/ PostClaimBare(w) \/ BroadcastClaim(w)
      BY <2>1, <2>7 DEF PrepareClaim, GetChainClaimInfo, PostClaim, PostClaimBare, BroadcastClaim
    <2> QED BY <1>4, <2>2, <2>3, <2>4, <2>5, <2>6, <2>7 DEF Handling, HandlerStep
  <1>5. ASSUME UNCHANGED vars PROVE FALSE
    BY <1>5 DEF vars
  <1> QED BY <1>2, <1>3, <1>4, <1>5, CreationFrame, SocketFrame, BoltzFrame DEF Next, Handling

(* A process keeps a lock until its own handler ends, even when a handler that
   had lost its lock goes on and ends after its successor has taken it. *)
THEOREM LockAlwaysEndsWithItsHandler == Spec => LockEndsWithItsHandler
  <1>1. TypeOK /\ [Next]_vars =>
          [\A u \in Updates :
             lock[KeyOf(u)] = u[1] /\ lock'[KeyOf(u)] # u[1]
               => task'[u] = "idle" \/ outages' > outages]_vars
    BY LockEnds
  <1>2. Spec => []TypeOK
    BY TypeCorrectness
  <1> QED BY <1>1, <1>2, PTL DEF Spec, LockEndsWithItsHandler

-----------------------------------------------------------------------------
(* The abstract specification: with a patient Boltz, no crash and at most one
   failed call to it, whatever connections drop and queries fail, the handlers
   keep the promise of AtomicSwap. *)

Prudent == Patient /\ MaxCrashes = 0 /\ MaxFaults <= 1

(* Once Boltz has been shown the preimage, a handler is claiming until the coins
   are claimed: the script path, which makes up for the one call that failed,
   does not fail.  So a lock that Boltz takes back, with no handler running, is
   one of a swap whose secrets it never had, and nothing asks for them later. *)
PrudentInv ==
  \A s \in Swaps :
    /\ known[s] # {} /\ Claimable(s) =>
         \E u \in Updates : u[2] = s /\ task[u] \in {"broadcast", "scriptPath"}
    /\ \A u \in Updates : u[2] = s /\ task[u] = "scriptPath" /\ Claimable(s) => faults > 0
    /\ get[s] = "refunded" =>
         /\ known[s] = {} /\ stage[s] \in OverStatuses
         /\ \A u \in Updates : u[2] = s /\ (u \in wire \/ task[u] # "idle") => u[3] \in OverStatuses

(* A claim goes on as long as the coins are there. *)
LEMMA ClaimGoesOn ==
  ASSUME Prudent, TypeOK, [Next]_vars, NEW u \in Updates, task[u] \in {"broadcast", "scriptPath"},
         task[u] = "scriptPath" => faults > 0, Claimable(u[2]), get'[u[2]] # "claimed"
  PROVE  task'[u] \in {"broadcast", "scriptPath"}
  <1>1. ASSUME NEW v \in Servers, Crash(v) PROVE FALSE
    BY <1>1 DEF Crash, TypeOK, Prudent
  <1>2. ASSUME NEW k \in Keys, ExpireLock(k) PROVE task' = task
    BY <1>2 DEF ExpireLock
  <1>3. ASSUME NEW w \in Updates, Handling(w), w # u PROVE task'[u] = task[u]
    BY <1>3, HandlerTask
  <1>4. CASE Handling(u)
    <2>1. CASE BroadcastClaim(u) \/ BroadcastScriptPath(u)
      BY <2>1, UpdateParts DEF BroadcastClaim, BroadcastScriptPath, TypeOK, SwapOf
    <2>2. CASE CallFails(u)
      <3>1. task[u] # "scriptPath"
        BY <2>2, BoundsAssumption DEF CallFails, BoltzFault, Prudent, TypeOK
      <3> QED BY <2>2, <3>1 DEF CallFails, AfterFault, Goto, TypeOK
    <2>3. CASE SkipUpdate(u) \/ LoseLock(u)
      BY <2>3 DEF SkipUpdate, LoseLock
    <2>4. CASE \/ TakeLock(u) \/ ReadSwap(u) \/ MarkCompleted(u) \/ MarkRefunded(u)
               \/ CheckPreimage(u) \/ PostSignature(u) \/ PrepareRefund(u)
      BY <2>4 DEF TakeLock, ReadSwap, MarkCompleted, MarkRefunded, CheckPreimage, PostSignature,
                  PrepareRefund
    <2>5. CASE \/ CosignRefund(u) \/ BroadcastRefund(u) \/ PrepareClaim(u)
               \/ GetChainClaimInfo(u) \/ PostClaim(u) \/ PostClaimBare(u) \/ QueryFails(u)
      BY <2>5 DEF CosignRefund, BroadcastRefund, PrepareClaim, GetChainClaimInfo, PostClaim,
                  PostClaimBare, QueryFails
    <2> QED BY <1>4, <2>1, <2>2, <2>3, <2>4, <2>5 DEF Handling, HandlerStep
  <1>5. ASSUME UNCHANGED vars PROVE task' = task
    BY <1>5 DEF vars
  <1> QED BY <1>1, <1>2, <1>3, <1>4, <1>5, CreationFrame, SocketFrame, BoltzFrame DEF Next, Handling

(* The script path is taken when a call has failed, or the coins are gone. *)
LEMMA ScriptPathStarts ==
  ASSUME TypeOK, NEW u \in Updates, Handling(u), task'[u] = "scriptPath", task[u] # "scriptPath",
         get'[u[2]] \in {"mempool", "confirmed"}
  PROVE  faults' > 0
  <1>0. BoltzFault => faults' > 0
    BY BoundsAssumption DEF BoltzFault, TypeOK
  <1>1. CASE BroadcastClaim(u)
    BY <1>0, <1>1, UpdateParts DEF BroadcastClaim, Claimable, TypeOK, SwapOf
  <1>2. CASE PostClaim(u)
    BY <1>0, <1>2 DEF PostClaim, Goto, TypeOK
  <1>3. CASE CallFails(u)
    BY <1>0, <1>3 DEF CallFails
  <1>4. CASE \/ TakeLock(u) \/ SkipUpdate(u) \/ LoseLock(u) \/ MarkCompleted(u) \/ MarkRefunded(u)
             \/ CheckPreimage(u) \/ PostSignature(u) \/ PrepareRefund(u)
    BY <1>4 DEF TakeLock, SkipUpdate, LoseLock, MarkCompleted, MarkRefunded, CheckPreimage, PostSignature,
                PrepareRefund, Goto, Finish, TypeOK
  <1>5. CASE \/ CosignRefund(u) \/ BroadcastRefund(u) \/ PrepareClaim(u) \/ BroadcastScriptPath(u)
             \/ GetChainClaimInfo(u) \/ PostClaimBare(u) \/ QueryFails(u)
    BY <1>5 DEF CosignRefund, BroadcastRefund, PrepareClaim, BroadcastScriptPath, GetChainClaimInfo,
                PostClaimBare, QueryFails, Goto, Finish, TypeOK
  <1>6. CASE ReadSwap(u)
    <2>1. task'[u] = "idle" \/ task'[u] = Job(kind[SwapOf(u)], u[3])
      BY <1>6 DEF ReadSwap, Goto, Finish, TypeOK
    <2> QED BY <2>1, JobType
  <1> QED BY <1>1, <1>2, <1>3, <1>4, <1>5, <1>6 DEF Handling, HandlerStep

(* Coins become claimable when Boltz locks them, not under a secret it has. *)
LEMMA ClaimableStarts ==
  ASSUME TypeOK, [Next]_vars, NEW s \in Swaps, ~Claimable(s), Claimable(s)'
  PROVE  get[s] = "none" /\ kind[s] # "submarine"
  BY GetStep DEF Claimable, LockServer, ConfirmServer

(* With a patient Boltz, no crash and at most one failed call, no claim that has
   posted its secret can be left behind without an attempt still to come. *)
LEMMA PrudentStep ==
  ASSUME Prudent, IInv, IInv', PrudentInv, [Next]_vars
  PROVE  PrudentInv'
  <1>0. /\ TypeOK /\ TruthInv /\ JobInv /\ SecretInv /\ BackedInv /\ GivenUpInv
        /\ kind' = kind
    BY KindStays DEF IInv
  <1>1. ASSUME NEW s \in Swaps, known'[s] # {}, Claimable(s)'
        PROVE  \E u \in Updates : u[2] = s /\ task'[u] \in {"broadcast", "scriptPath"}
    <2>1. kind[s] # "submarine"
      BY <1>0, <1>1 DEF IInv, GivenUpInv, Claimable
    <2>2. CASE known'[s] # known[s]
      BY <1>0, <1>1, <2>1, <2>2, KnownStep DEF Claimable
    <2>3. CASE known'[s] = known[s]
      <3>1. get[s] # "none"
        BY <1>0, <1>1, <2>1, <2>3 DEF SecretInv, PreimageOnlyForServerLock
      <3>2. Claimable(s)
        BY <1>0, <1>1, <3>1, ClaimableStarts
      <3>3. PICK u \in Updates : u[2] = s /\ task[u] \in {"broadcast", "scriptPath"}
        BY <1>1, <2>3, <3>2 DEF PrudentInv
      <3>4. task[u] = "scriptPath" => faults > 0
        BY <3>2, <3>3 DEF PrudentInv
      <3>5. get'[s] # "claimed"
        BY <1>1 DEF Claimable
      <3> QED BY <1>0, <3>2, <3>3, <3>4, <3>5, ClaimGoesOn
    <2> QED BY <2>2, <2>3
  <1>2. ASSUME NEW s \in Swaps, NEW u \in Updates, u[2] = s, task'[u] = "scriptPath", Claimable(s)'
        PROVE  faults' > 0
    <2>1. CASE task[u] = "scriptPath"
      <3>1. Truth(s, u[3]) /\ ClaimAsked(s, u[3])
        BY <1>0, <1>2, <2>1 DEF TruthInv, JobInv, JobFits, ClaimStates
      <3>2. get[s] # "none"
        BY <3>1 DEF Truth, ClaimAsked, ChainKinds
      <3>3. Claimable(s)
        BY <1>0, <1>2, <3>2, ClaimableStarts
      <3>4. faults > 0
        BY <1>2, <2>1, <3>3 DEF PrudentInv
      <3> QED BY <1>0, <3>4, FaultsGrow
    <2>2. CASE task[u] # "scriptPath"
      <3>1. Handling(u)
        BY <1>0, <1>2, <2>2, TaskStays
      <3> QED BY <1>0, <1>2, <2>2, <3>1, ScriptPathStarts DEF Claimable
    <2> QED BY <2>1, <2>2
  <1>3. ASSUME NEW s \in Swaps, get'[s] = "refunded"
        PROVE  /\ known'[s] = {} /\ stage'[s] \in OverStatuses
               /\ \A u \in Updates : u[2] = s /\ (u \in wire' \/ task'[u] # "idle") => u[3] \in OverStatuses
    <2>1. CASE get[s] = "refunded"
      <3>1. /\ known[s] = {} /\ stage[s] \in OverStatuses
            /\ \A u \in Updates : u[2] = s /\ (u \in wire \/ task[u] # "idle") => u[3] \in OverStatuses
        BY <2>1 DEF PrudentInv
      <3>2. stage'[s] \in OverStatuses
        BY <1>0, <3>1, StageOverLasts
      <3>3. \A u \in Updates : u[2] = s /\ (u \in wire' \/ task'[u] # "idle") => u[3] \in OverStatuses
        BY <1>0, <3>1, <3>2, Arrivals
      <3>4. kind[s] # "submarine"
        BY <1>0, <2>1 DEF GivenUpInv
      <3>5. ASSUME NEW u \in Updates, u[2] = s, task[u] \in {"cosign", "scriptPath"} PROVE FALSE
        <4>1. ClaimAsked(s, u[3]) /\ u[3] \in OverStatuses
          BY <1>0, <3>1, <3>5 DEF JobInv, JobFits, ClaimStates
        <4> QED BY <4>1 DEF ClaimAsked, OverStatuses, CompletingStatuses, TransactionStatuses
      <3>6. known'[s] = {}
        BY <1>0, <3>1, <3>4, <3>5, KnownStep
      <3> QED BY <3>2, <3>3, <3>6
    <2>2. CASE get[s] # "refunded"
      <3>1. RefundServer(s)
        BY <1>0, <1>3, <2>2, GetStep
      <3>2. Claimable(s) /\ InFlight(s) = {} /\ known' = known /\ stage'[s] = "transaction.refunded"
        BY <1>0, <3>1 DEF RefundServer, MayTimeOut, Quiet, Prudent, Publish, TypeOK
      <3>3. ASSUME NEW u \in Updates, u[2] = s PROVE u \notin wire /\ task[u] = "idle"
        BY <3>2, <3>3 DEF InFlight, SwapOf
      <3>4. known[s] = {}
        BY <3>2, <3>3 DEF PrudentInv
      <3>5. \A u \in Updates : u[2] = s /\ (u \in wire' \/ task'[u] # "idle") => u[3] \in OverStatuses
        BY <1>0, <3>2, <3>3, Arrivals DEF OverStatuses
      <3> QED BY <3>2, <3>4, <3>5 DEF OverStatuses
    <2> QED BY <2>1, <2>2
  <1> QED BY <1>1, <1>2, <1>3 DEF PrudentInv, Claimable

(* It holds of every state of such an execution. *)
LEMMA PrudentInvariance ==
  ASSUME Prudent
  PROVE  Spec => [](IInv /\ PrudentInv)
  <1>1. Init => PrudentInv
    BY DEF Init, PrudentInv, Claimable
  <1>2. IInv /\ IInv' /\ PrudentInv /\ [Next]_vars => PrudentInv'
    BY PrudentStep
  <1>3. Spec => []IInv
    BY Invariance
  <1> QED BY <1>1, <1>2, <1>3, PTL DEF Spec

(* How Boltz's lock moves in the abstract specification. *)
LEMMA OfferedMoves ==
  ASSUME TypeOK, NEW s \in Swaps, NEW end, get' = [get EXCEPT ![s] = end]
  PROVE  [t \in Swaps |-> Offered(t)]' =
           [[t \in Swaps |-> Offered(t)] EXCEPT ![s] = IF end \in {"mempool", "confirmed"} THEN "offered" ELSE end]
  BY DEF Offered, Claimable, TypeOK

(* No coin has moved at the start of either specification. *)
LEMMA AbstractInit == Init => Abstract!Init
  BY DEF Init, Abstract!Init, Offered, Claimable

(* What Boltz can take it has paid for, or offered: no preimage or signature is
   out before. *)
LEMMA OfferedBeforeTaken ==
  ASSUME TypeOK, SecretInv, GivenUpInv, NEW s \in Swaps, CanTake(s)
  PROVE  get[s] # "none"
  <1>1. CASE kind[s] = "submarine" /\ InvoicePaid(s)
    BY <1>1 DEF InvoicePaid
  <1>2. CASE known[s] # {}
    <2>1. CASE kind[s] = "submarine"
      <3>1. known[s] = {"signature"}
        BY <1>2, <2>1 DEF GivenUpInv, TypeOK
      <3> QED BY <2>1, <3>1 DEF SecretInv, SignatureOnlyForPaidInvoice, InvoicePaid
    <2> QED BY <1>2, <2>1 DEF SecretInv, PreimageOnlyForServerLock
  <1> QED BY <1>1, <1>2 DEF CanTake

(* And with a patient Boltz it has not taken that back. *)
LEMMA TakenIsBacked ==
  ASSUME TypeOK, SecretInv, GivenUpInv, PrudentInv, NEW s \in Swaps, CanTake(s)
  PROVE  get[s] \notin {"none", "refunded"}
  <1>1. get[s] # "none"
    BY OfferedBeforeTaken
  <1>2. get[s] # "refunded"
    BY DEF PrudentInv, CanTake, InvoicePaid
  <1> QED BY <1>1, <1>2

(* Every step of the handlers, Boltz and the chains is one of AtomicSwap, or
   none. *)
LEMMA AbstractStep ==
  ASSUME Prudent, IInv, PrudentInv, [Next]_vars
  PROVE  Abstract!Next \/ UNCHANGED <<give, [s \in Swaps |-> Offered(s)]>>
  <1> DEFINE abs == [s \in Swaps |-> Offered(s)]
  <1>0. TypeOK /\ SecretInv /\ BackedInv /\ GivenUpInv
    BY DEF IInv
  <1>1. ASSUME UNCHANGED <<give, get>> PROVE UNCHANGED <<give, abs>>
    BY <1>1 DEF Offered, Claimable
  <1>2. ASSUME NEW v \in Servers, Crash(v) PROVE UNCHANGED <<give, get>>
    BY <1>2 DEF Crash, boltz
  <1>3. ASSUME NEW k \in Keys, ExpireLock(k) PROVE UNCHANGED <<give, get>>
    BY <1>3 DEF ExpireLock, boltz
  <1>4. ASSUME NEW s \in Swaps
        PROVE  /\ abs[s] = Offered(s) /\ give[s] \in GiveStates
               /\ Claimable(s) => Offered(s) = "offered" /\ give[s] \in {"locked", "claimed"}
               /\ get[s] \in {"none", "claimed", "refunded"} => Offered(s) = get[s]
    <2>1. Claimable(s) => give[s] \notin {"none", "refunded"}
      BY <1>0 DEF BackedInv, GivenUpInv, Claimable
    <2>2. give[s] \in GiveStates
      BY <1>0 DEF TypeOK
    <2> QED BY <2>1, <2>2 DEF Offered, Claimable, GiveStates
  <1>5. ASSUME NEW s \in Swaps, BoltzStep(s) PROVE Abstract!Next \/ UNCHANGED <<give, abs>>
    <2>1. CASE Fund(s)
      <3>1. give[s] = "none" /\ give' = [give EXCEPT ![s] = "locked"] /\ get' = get
        BY <2>1 DEF Fund
      <3>2. get[s] = "none"
        BY <1>0, <3>1 DEF BackedInv
      <3>3. abs' = abs
        BY <3>1 DEF Offered, Claimable
      <3>4. Abstract!Fund(s)
        BY <1>4, <3>1, <3>2, <3>3 DEF Abstract!Fund
      <3> QED BY <3>4 DEF Abstract!Next
    <2>2. CASE PayInvoice(s)
      <3>1. give[s] = "locked" /\ get[s] = "none" /\ get' = [get EXCEPT ![s] = "claimed"] /\ give' = give
        BY <2>2 DEF PayInvoice
      <3>2. abs' = [abs EXCEPT ![s] = "claimed"]
        BY <1>0, <3>1, OfferedMoves
      <3>3. Abstract!Deliver(s)
        BY <1>4, <3>1, <3>2 DEF Abstract!Deliver
      <3> QED BY <3>3 DEF Abstract!Next
    <2>3. CASE LockServer(s)
      <3>1. give[s] = "locked" /\ get[s] = "none" /\ get' = [get EXCEPT ![s] = "mempool"] /\ give' = give
        BY <2>3 DEF LockServer
      <3>2. abs' = [abs EXCEPT ![s] = "offered"]
        BY <1>0, <3>1, OfferedMoves
      <3>3. Abstract!Offer(s)
        BY <1>4, <3>1, <3>2 DEF Abstract!Offer
      <3> QED BY <3>3 DEF Abstract!Next
    <2>4. CASE ConfirmServer(s)
      <3>1. get[s] = "mempool" /\ get' = [get EXCEPT ![s] = "confirmed"] /\ give' = give
        BY <2>4 DEF ConfirmServer
      <3>2. abs' = [abs EXCEPT ![s] = "offered"]
        BY <1>0, <3>1, OfferedMoves
      <3>3. abs[s] = "offered"
        BY <1>4, <3>1 DEF Claimable
      <3>4. abs' = abs
        BY <3>2, <3>3
      <3> QED BY <3>1, <3>4
    <2>5. CASE FailServer(s)
      <3>1. /\ give[s] = "locked" /\ get[s] = "none" /\ get' = get
            /\ give' = give \/ give' = [give EXCEPT ![s] = "refunded"]
        BY <2>5 DEF FailServer
      <3>2. abs' = abs
        BY <3>1 DEF Offered, Claimable
      <3>3. CASE give' = [give EXCEPT ![s] = "refunded"]
        <4>1. Abstract!ReturnGive(s)
          BY <1>4, <3>1, <3>2, <3>3 DEF Abstract!ReturnGive
        <4> QED BY <4>1 DEF Abstract!Next
      <3> QED BY <3>1, <3>2, <3>3
    <2>6. CASE TakeGive(s)
      <3>1. give[s] = "locked" /\ CanTake(s) /\ give' = [give EXCEPT ![s] = "claimed"] /\ get' = get
        BY <2>6 DEF TakeGive
      <3>2. get[s] \notin {"none", "refunded"}
        BY <1>0, <3>1, TakenIsBacked
      <3>4. abs[s] \in {"offered", "claimed"}
        BY <1>0, <1>4, <3>2 DEF TypeOK, GetStates, Claimable
      <3>5. abs' = abs
        BY <3>1 DEF Offered, Claimable
      <3>6. Abstract!Take(s)
        BY <3>1, <3>4, <3>5 DEF Abstract!Take
      <3> QED BY <3>6 DEF Abstract!Next
    <2>7. CASE RefundServer(s)
      <3>1. /\ Claimable(s) /\ InFlight(s) = {} /\ get' = [get EXCEPT ![s] = "refunded"]
            /\ \/ UNCHANGED give
               \/ give[s] = "locked" /\ give' = [give EXCEPT ![s] = "refunded"]
        BY <2>7 DEF RefundServer, MayTimeOut, Quiet, Prudent
      <3>2. known[s] = {}
        BY <3>1 DEF PrudentInv, InFlight, SwapOf
      <3>3. give[s] # "claimed"
        <4>1. ~CanTake(s)
          BY <3>1, <3>2 DEF CanTake, InvoicePaid, Claimable
        <4> QED BY <1>0, <4>1 DEF GivenUpInv
      <3>4. abs' = [abs EXCEPT ![s] = "refunded"]
        BY <1>0, <3>1, OfferedMoves
      <3>5. Abstract!ReturnGet(s)
        BY <1>4, <3>1, <3>3, <3>4 DEF Abstract!ReturnGet
      <3> QED BY <3>5 DEF Abstract!Next
    <2>8. CASE AskSignature(s) \/ GiveUp(s) \/ Expire(s)
      BY <1>1, <2>8 DEF AskSignature, GiveUp, Expire
    <2> QED BY <1>5, <2>1, <2>2, <2>3, <2>4, <2>5, <2>6, <2>7, <2>8 DEF BoltzStep
  <1>6. ASSUME NEW u \in Updates, Handling(u) PROVE Abstract!Next \/ UNCHANGED <<give, abs>>
    <2>0. u[2] \in Swaps
      BY UpdateParts
    <2>1. CASE UNCHANGED <<give, get>>
      BY <1>1, <2>1
    <2>2. CASE give' # give
      <3>1. BroadcastRefund(u) /\ give[u[2]] = "locked" /\ give' = [give EXCEPT ![u[2]] = "refunded"]
        BY <1>0, <1>6, <2>2, HandlerGive
      <3>2. get[u[2]] = "none" /\ get' = get
        BY <1>0, <2>0, <3>1 DEF BroadcastRefund, GivenUpInv
      <3>3. abs' = abs
        BY <3>2 DEF Offered, Claimable
      <3>4. Abstract!ReturnGive(u[2])
        BY <1>4, <2>0, <3>1, <3>2, <3>3 DEF Abstract!ReturnGive
      <3> QED BY <2>0, <3>4 DEF Abstract!Next
    <2>3. CASE give' = give /\ get' # get
      <3>1. Claimable(u[2]) /\ get' = [get EXCEPT ![u[2]] = "claimed"]
        BY <1>0, <1>6, <2>3, HandlerClaims
      <3>2. abs' = [abs EXCEPT ![u[2]] = "claimed"]
        BY <1>0, <2>0, <3>1, OfferedMoves
      <3>3. Abstract!Deliver(u[2])
        BY <1>4, <2>0, <2>3, <3>1, <3>2 DEF Abstract!Deliver
      <3> QED BY <2>0, <3>3 DEF Abstract!Next
    <2> QED BY <2>1, <2>2, <2>3
  <1>7. ASSUME UNCHANGED vars PROVE UNCHANGED <<give, get>>
    BY <1>7 DEF vars
  <1>8. ASSUME NEW v \in Servers, NEW s \in Swaps, CreationStep(v, s) PROVE UNCHANGED <<give, get>>
    BY <1>8, CreationFrame
  <1>9. ASSUME NEW v \in Servers, SocketStep(v) \/ DropConnection(v) PROVE UNCHANGED <<give, get>>
    BY <1>9, SocketFrame
  <1> QED BY <1>1, <1>2, <1>3, <1>5, <1>6, <1>7, <1>8, <1>9 DEF Next, Handling

(* The life of a swap is that of an atomic swap: what the user gives is taken
   only against what the user gets, and then that stays the user's. *)
THEOREM SwapsAreAtomic ==
  ASSUME Prudent
  PROVE  Spec => AtomicSwapPromise
  <1>1. IInv /\ PrudentInv /\ [Next]_vars => [Abstract!Next]_<<give, [s \in Swaps |-> Offered(s)]>>
    BY AbstractStep
  <1>2. Spec => [](IInv /\ PrudentInv)
    BY PrudentInvariance
  <1> QED BY <1>1, <1>2, AbstractInit, PTL DEF Spec, Abstract!Spec, AtomicSwapPromise

(* Whatever fails, crashes or comes late: Boltz takes the user's coins only after
   it has put up its own, or, for a submarine swap, has paid the invoice.  What
   can be lost without the conditions above is an offer that nobody claimed. *)
TakenWasOffered ==
  \A s \in Swaps : give[s] = "claimed" =>
    get[s] # "none" /\ (kind[s] = "submarine" => get[s] = "claimed")

(* It is so in every state, under no assumption on Boltz or on failures. *)
THEOREM NothingIsTakenUnoffered == Spec => []TakenWasOffered
  <1>1. IInv => TakenWasOffered
    <2> SUFFICES ASSUME IInv, NEW s \in Swaps, give[s] = "claimed"
                 PROVE  get[s] # "none" /\ (kind[s] = "submarine" => get[s] = "claimed")
      BY DEF TakenWasOffered
    <2>1. TypeOK /\ SecretInv /\ GivenUpInv
      BY DEF IInv
    <2>2. CanTake(s)
      BY <2>1 DEF GivenUpInv
    <2>3. get[s] # "none"
      BY <2>1, <2>2, OfferedBeforeTaken
    <2> QED BY <2>1, <2>3 DEF GivenUpInv
  <1> QED BY <1>1, Invariance, PTL

(* Nothing is lost: coins Boltz has taken from the user are coins the user has
   got, or can still claim from a lock that stands. *)
THEOREM NothingIsLost ==
  ASSUME Prudent
  PROVE  Spec => []Abstract!NoLoss
  <1>1. IInv /\ PrudentInv => Abstract!NoLoss
    <2> SUFFICES ASSUME IInv, PrudentInv, NEW s \in Swaps, give[s] = "claimed"
                 PROVE  Offered(s) \in {"offered", "claimed"}
      BY DEF Abstract!NoLoss
    <2>1. TypeOK /\ SecretInv /\ GivenUpInv
      BY DEF IInv
    <2>2. CanTake(s)
      BY <2>1 DEF GivenUpInv
    <2>3. get[s] \notin {"none", "refunded"}
      BY <2>1, <2>2, TakenIsBacked
    <2> QED BY <2>1, <2>3 DEF Offered, Claimable, TypeOK, GetStates
  <1>2. Spec => [](IInv /\ PrudentInv)
    BY PrudentInvariance
  <1> QED BY <1>1, <1>2, PTL

-----------------------------------------------------------------------------
(* The socket of a process as module Connection has it, which BoltzWs, the
   connection loop itself, implements (BoltzWsProofs, LoopIsAConnection). *)
Socket(v) == INSTANCE Connection WITH conn <- conn[v]

(* Nothing but a step of the loop, the loss of the connection or the death of its
   process moves a socket. *)
LEMMA SocketMoves ==
  ASSUME TypeOK, [Next]_vars, NEW v \in Servers
  PROVE  [Socket(v)!Advance \/ Socket(v)!Lose]_(conn[v])
  <1>0. conn \in [Servers -> ConnStates]
    BY DEF TypeOK
  <1>1. CASE UNCHANGED conn
    BY <1>1
  <1>2. ASSUME NEW w \in Servers, SocketStep(w)
        PROVE  conn'[v] = conn[v] \/ Socket(v)!Advance
    <2>1. \/ conn[w] = "down" /\ conn' = [conn EXCEPT ![w] = "loaded"]
          \/ conn[w] = "loaded" /\ conn' = [conn EXCEPT ![w] = "connecting"]
          \/ conn[w] = "connecting" /\ conn' = [conn EXCEPT ![w] = "open"]
      BY <1>2 DEF SocketStep, LoadPending, Connect, Open
    <2> QED BY <1>0, <2>1 DEF Socket!Advance, Socket!Load, Socket!Connect, Socket!Open
  <1>3. ASSUME NEW w \in Servers, DropConnection(w) \/ Crash(w)
        PROVE  conn'[v] = conn[v] \/ Socket(v)!Lose
    <2>1. conn' = [conn EXCEPT ![w] = "down"]
      BY <1>3 DEF DropConnection, Crash
    <2> QED BY <1>0, <2>1 DEF Socket!Lose
  <1>4. ASSUME NEW u \in Updates, Handling(u) PROVE UNCHANGED conn
    BY <1>4 DEF Handling, HandlerStep, TakeLock, SkipUpdate, ReadSwap, MarkCompleted, MarkRefunded,
                CheckPreimage, PostSignature, PrepareRefund, CosignRefund, BroadcastRefund,
                PrepareClaim, GetChainClaimInfo, PostClaim, PostClaimBare, BroadcastClaim,
                BroadcastScriptPath, CallFails, QueryFails, LoseLock, sockets
  <1>5. ASSUME NEW w \in Servers, NEW s \in Swaps, CreationStep(w, s) PROVE UNCHANGED conn
    BY <1>5 DEF CreationStep, CreateSwap, Subscribe, StoreSwap, ReturnSwap, sockets
  <1>6. ASSUME NEW s \in Swaps, BoltzStep(s) PROVE UNCHANGED conn
    BY <1>6 DEF BoltzStep, Fund, AskSignature, PayInvoice, GiveUp, LockServer, ConfirmServer,
                FailServer, TakeGive, RefundServer, Expire, sockets
  <1>7. ASSUME NEW k \in Keys, ExpireLock(k) PROVE UNCHANGED conn
    BY <1>7 DEF ExpireLock, sockets
  <1> QED BY <1>1, <1>2, <1>3, <1>4, <1>5, <1>6, <1>7 DEF Next, Handling, vars

(* What BoltzSwaps assumes of the websocket of every process is what the
   connection loop was shown to provide: a connection is made from a fresh
   reading of the pending swaps, and lost at any moment. *)
THEOREM SocketsAreConnections == Spec => \A v \in Servers : Socket(v)!Spec
  <1> SUFFICES ASSUME NEW v \in Servers PROVE Spec => Socket(v)!Spec
    OBVIOUS
  <1>1. Init => Socket(v)!Init
    BY DEF Init, Socket!Init
  <1>2. TypeOK /\ [Next]_vars => [Socket(v)!Advance \/ Socket(v)!Lose]_(conn[v])
    BY SocketMoves
  <1> QED BY <1>1, <1>2, TypeCorrectness, PTL DEF Spec, Socket!Spec
=============================================================================
