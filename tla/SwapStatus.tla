----------------------------- MODULE SwapStatus -----------------------------
(* The vocabulary of a Boltz swap: the kinds the server creates, the         *)
(* statuses Boltz publishes, and the dispatch of the websocket message       *)
(* handler, the switch of boltzWs.service.ts.                                *)

(* "submarine": L-BTC -> lightning, "reverse": lightning -> L-BTC, "chainOut":
   L-BTC -> BTC, "chainIn": BTC -> L-BTC. *)
AllKinds == {"submarine", "reverse", "chainOut", "chainIn"}
ChainKinds == {"chainOut", "chainIn"}

(* Statuses that end a swap unsuccessfully or successfully: markCompleted.   *)
CompletingStatuses == {"swap.expired", "invoice.expired", "transaction.failed",
                       "invoice.settled", "transaction.claimed"}
FailureStatuses == {"transaction.lockupFailed", "invoice.failedToPay"}
TransactionStatuses == {"transaction.mempool", "transaction.confirmed",
                        "transaction.server.mempool",
                        "transaction.server.confirmed"}
(* "swap.created" stands for the statuses before any money moves, which the
   handler ignores ("swap.created", "invoice.set"). *)
Statuses == CompletingStatuses \cup FailureStatuses \cup TransactionStatuses
              \cup {"swap.created", "transaction.claim.pending",
                    "transaction.refunded"}

(* Mutants of Job: a chain swap is claimed before Boltz's lock confirms; a swap
   that failed is only closed; a settled invoice does not close its swap; a
   failed lockup is ignored. *)
JobOnServerMempool(kind, status) ==
  CASE status = "transaction.claim.pending" -> "claimInfo"
    [] status \in CompletingStatuses -> "markCompleted"
    [] status \in TransactionStatuses ->
         IF kind = "reverse" \/ status = "transaction.server.mempool"
         THEN "prepare" ELSE "finish"
    [] OTHER -> "finish"
JobCloseFailed(kind, status) ==
  IF status \in CompletingStatuses \cup FailureStatuses THEN "markCompleted" ELSE "finish"
JobIgnoreClosing(kind, status) ==
  IF status \in FailureStatuses THEN "refundPrep" ELSE "finish"
JobIgnoreFailure(kind, status) ==
  IF status \in CompletingStatuses THEN "markCompleted" ELSE "finish"

(* The first step of the work a message asks for, "finish" when there is none
   (a break, a return, or an exception before any effect). *)
Job(kind, status) ==
  CASE status = "transaction.claim.pending" ->
         IF kind = "submarine" THEN "claimInfo" ELSE "finish"
    [] status \in FailureStatuses ->
         IF kind \in {"submarine", "chainOut"} THEN "refundPrep" ELSE "finish"
    [] status = "transaction.refunded" -> "markRefunded"
    [] status \in CompletingStatuses -> "markCompleted"
    [] status \in TransactionStatuses ->
         IF \/ kind = "reverse"
            \/ kind \in ChainKinds /\ status = "transaction.server.confirmed"
         THEN "prepare" ELSE "finish"
    [] OTHER -> "finish"

(* Statuses on which the server must act to keep or recover the user's coins. *)
Actionable(kind, status) ==
  Job(kind, status) \in {"claimInfo", "refundPrep", "prepare"}
=============================================================================
