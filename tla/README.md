# Verification of the Mi Banco server

TLA+ models of the server in `src/`, TLC configurations that check them on small
instances, and TLAPS proofs that their safety properties hold for every size.

The server is a NestJS application that never holds the users' coins: wallets are
encrypted by the client, and every payment that leaves the Liquid chain is a swap,
with Boltz or with SideShift. Several processes may run the same code against one
Postgres and one Redis. What can cost money is the handling of Boltz swaps: the
preimages, claim keys and refund keys of a swap live in its database row, and the
server claims, co-signs and refunds on its own when Boltz says so over a
websocket. The project started there; the second half models what the rest of the
server keeps: sessions, factors, passkeys, signups, wallets, payments, lightning
addresses, SideShift swaps and contacts, one module each.

## Inventory

Paths are relative to `src/src/`.

| Component | State | Operations | What is hard | What makes it correct |
|---|---|---|---|---|
| Boltz swap lifecycle: `libs/boltz/boltz.service.ts`, `boltzWs.service.ts` (message handler), `handlers/`, `boltz.rest.ts`, `repo/swaps/` | `wallet_account_swap` rows; subscriptions of a socket | create submarine / reverse / chain swap, claim, co-sign Boltz's claim, refund, close | rows, subscriptions and updates race; updates lost, repeated, late; calls fail half way; crashes; several processes | no secret leaves too early; a funded swap has its row; rows agree with the chain; claims and refunds happen; the swap is atomic for the user |
| Boltz websocket: `libs/boltz/boltzWs.service.ts` | `webSocket`, `retryCount`, two timer ids | connect, subscribe, ping, time out, retry | timers and callbacks of successive attempts share fields | one live socket, always reconnects, no call back twice |
| Redis locks: `libs/redlock/redlock.service.ts` | keys with a 10 s TTL, extended while the work runs | `using`, `usingWithoutError` | expiry under a running handler, crash of the holder | one handler per update, a lock ends with its handler |
| Accounts and sessions: `api/account/`, `auth/`, `libs/auth/`, `repo/account/` | account row (password and refresh token hashes), cookies | login, logout, refresh, change and check password | refresh, logout and login interleave on one stored hash; mails of a password change are awaited by nobody | a logged-out token is not renewed |
| Signup: `account.resolver.ts` `signUp`, `libs/amboss/`, `libs/mail/` | account, first wallet, referral code | check code, create account, use code | one code, two requests; the use of the code fails last | a code makes one account |
| Two factors: `api/2fa/`, `repo/2fa/` | pending setup and login session in Redis, 2FA rows | set up and verify OTP, log in with OTP or passkey | setups overwrite each other; sessions used twice or late | after a password login, no cookie without the second factor |
| Passkeys: `libs/passkey/`, `api/passkey/`, `repo/passkey/` | challenges in Redis, passkey rows with counters | register, authenticate, log in | challenge read and deleted in two steps; lists of allowed passkeys that nobody checks | a challenge is used once, for its own ceremony |
| Wallets: `api/wallet/`, `libs/wallet/`, `libs/liquid/`, `repo/wallet/` | wallet rows, scan delta and blocked addresses in Redis | create, scan, fresh address, broadcast | limit check then create; concurrent scans | at most the allowed wallets; no address twice |
| Payments: `api/pay/` | none (swap rows) | pay invoice, lightning address, Liquid address, swap | the active swap of an invoice is looked up, then one is created | an invoice is paid by one swap |
| LNURL: `libs/lnurl/`, `api/lnurl/` | none (swap rows) | lightning address info and callback, local and remote | amounts in several units, limits that change | an answered invoice can be claimed |
| SideShift: `libs/sideshift/` | swap rows | quote, shift | the shift exists before its row | a funded shift is recorded |
| Contacts: `libs/contact/`, `api/contact/`, `repo/contact/` | contacts, messages | create, send a message | one of two sides fails; addresses written in any case | both sides see a message |
| SSE, prices, fiat, Esplora, mempool, mail, crypto, wiring | none to speak of | read-only or stateless calls | | |

Interactions: `pay`, `wallet` and `lnurl` create swaps through `BoltzService`, which
calls Boltz over REST, subscribes on the process's own websocket and inserts the
row. Boltz publishes a status to every process that is subscribed; each message runs
a handler under the Redis lock `id + status`; the handler reads the row, calls Boltz
again and updates the row. `BoltzWsService` reads the active rows before it connects
and subscribes to them on `open`. Redis otherwise holds sessions, challenges and
caches; `libs/redlock` also protects signup and wallet scans.

## Plan

| # | Module | Content | State |
|---|---|---|---|
| 1 | `SwapStatus`, `BoltzSwaps` | life of a swap across processes | done, checked |
| 2 | `AtomicSwap` | what a swap promises; `BoltzSwaps` implements it | done, checked |
| 3 | `BoltzSwapsProofs` | inductive invariant, safety theorems, refinement of `AtomicSwap` | done, proved |
| 4 | `BoltzWs`, `Connection` | connection loop; implements the connection `BoltzSwaps` has per process | done, checked |
| 5 | `Sessions` | login, second factor, refresh, logout, password change over account row, Redis sessions and cookies | done, checked |
| 6 | `TwoFactor`, `Passkeys` | pending secrets and challenges in Redis, rows, counters | done, checked |
| 7 | `Signup` | referral code under `using`, account, session, wallet | done, checked |
| 8 | `Wallets`, `WalletScan` | wallet limit, names, accounts; scan lock, delta cache, address blocks | done, checked |
| 9 | `Pay`, `Lnurl` | reuse of swaps, amounts, limits | done, checked |
| 10 | `SideShift`, `Contacts` | two-sided effects that may fail half way | done, checked |
| 11 | `BoltzWsProofs`, `SessionsProofs`, `SignupProofs`, `PasskeysProofs`, `WalletsProofs`, `PayProofs`, `LnurlProofs` | the safety properties of 4 to 10, for every instance | done, proved |
| 12 | proofs | what `NothingIsTakenUnoffered` says as a specification of its own, weaker than `AtomicSwap`, that `BoltzSwaps` implements with crashes and any number of failures | next |

Each of 5 to 10 is a module of its own because the components share rows, not
steps: what one of them leaves behind for another (the account of a signup, the
second factor a login must honour, the address a swap is made for) is a constant, an
initial state or a nondeterministic choice of the other.

## What is modelled

### `SwapStatus`: the vocabulary and the dispatch

Kinds of swap as the server creates them (`submarine` L-BTC to lightning, `reverse`
lightning to L-BTC, `chainOut` L-BTC to BTC, `chainIn` BTC to L-BTC), the statuses
of Boltz, and `Job(kind, status)`, the switch of the message handler with the
checks its callees make first: a status either closes the row, marks it refunded,
or starts a co-signature, a refund or a claim.

### `BoltzSwaps`: the life of a swap

| Variables | Code |
|---|---|
| `creation`, `owner` | how far `createSubmarineSwap` / `createReverseSwap` / `createChainSwap` has come, in which process |
| `row` | the row: `swap_completed`, `details.refunded` |
| `conn`, `snap`, `subs` | `webSocket` of a process, the result of `getPendingSwaps`, what is subscribed |
| `wire` | updates on their way to a process |
| `task`, `lock` | the handler an update runs, at its current `await`; the Redis lock |
| `stage`, `give`, `get`, `known` | Boltz and the chains: last status, the user's side, Boltz's side, the secrets Boltz has got |
| `faults`, `outages`, `crashes`, `drops` | how many calls to Boltz failed, calls to Postgres or Redis failed, processes died, connections were lost |

One action is the code between two awaits. The order of subscribing and inserting
is the code's: chain swaps insert first, the others subscribe first
(`SubscribesFirst`). A cooperative claim is `PrepareClaim`, for a chain swap
`GetChainClaimInfo`, `PostClaim` (the preimage leaves, with our signature for a
chain swap) and `BroadcastClaim`; an exception in any of them leads to
`BroadcastScriptPath`, and one there to the log. A refund is `PrepareRefund`,
`CosignRefund`, `BroadcastRefund`, `MarkRefunded`, and has no second attempt.
`Finish` is the end of redlock's `using`, with or without an exception.

Failures: every call to Boltz may fail before it has an effect (`CallFails`) or after
(`PostClaim`, `BroadcastClaim`, `BroadcastRefund` lose the answer); every query may
fail; Redis may fail to grant or to extend a lock; a connection may drop with any
of its messages; a process may die at any point, leaving its locks to their TTL.

Boltz is external: it publishes statuses that are true when published, to the
sockets subscribed at that moment, answers a subscription with the current status,
and otherwise takes what its secrets let it take, gives up, or times out whenever
it likes. `Patient` says whether its timeouts (hours) may overtake handlers
(seconds); the safety runs do without it.

### `AtomicSwap`: the promise

Two sides, `give` and `get`: the counterparty takes what the user gave only when the
other side is delivered or can still be, and never takes the offer back
afterwards. `BoltzSwaps` maps to it by forgetting everything but `give` and `get`
(a lock of Boltz in the mempool or confirmed is an offer).

### `BoltzWs` and `Connection`: the websocket

`BoltzWs` models `startSubscription`, `startHealthCheck` and
`resetHealthCheckTimeout` of one process, with time in units of 5 s. Every attempt
has its own socket, interval and task callback; `webSocket`,
`healthCheckIntervalId`, `pingTimeoutId` and `retryCount` are the shared fields of
the service. The behaviour of the libraries is external: `ping` throws while a
socket connects, a task of `auto` that calls back twice throws, and a throw from a
timer ends the process (the application installs no handler for it).
`Connection` is the socket as the rest of the server sees it, the one
`BoltzSwaps` has for each process (`LoadPending`, `Connect`, `Open`,
`DropConnection`, `Crash`); `BoltzWs` implements it, fairness included, which is
where the fairness of `SocketStep` in `BoltzSwaps` comes from.

### `Sessions`: who is logged in

| Variables | Code |
|---|---|
| `password`, `stored` | `master_password_hash` and `refresh_token_hash` of the account row |
| `twoFactor`, `held` | rows of `account_2fa`; token pairs waiting in Redis under a session id |
| `tok`, `delivered`, `access` | the token pairs signed and their texts, those a client got, accounts with an unexpired access token |
| `req` | the handler each request runs, at its current `await` |
| `cuts`, `lost` | how many requests failed or died; observed: the pairs of logins cut between storing and answering |

`login.initial` is `LoginLookup`, `LoginVerify`, `LoginMethods` and `AnswerLogin`:
with a second factor the pair is held, and `RedeemLookup`, `RedeemVerify` hand it
out. `PasskeyLogin` needs no password and, in the code, asks for no second factor
either, whether the account has one or not: `LoginIsProven` says so. A token holds its
account and two times in seconds, so two logins within a second may sign the same text;
`GetTokens` lets any two pairs of an account have one, and a refresh compares texts
(`SameText`). The tokens are stored by `SetLoginCookies`,
with the update of the hash. Refresh (`RefreshLookup`,
`RefreshVerify`, `RefreshIssue`) signs a new access token and leaves the stored hash
alone; the refresh token it answers with is left out: nothing stores it, and if it has
another text than the stored one it is good for nothing. Logout and password change read, check and write. Any request may be cut at
any `await`. Refresh tokens do not expire in the model, which only adds behaviours.

### `TwoFactor` and `Passkeys`: the factors

`TwoFactor` models `setupOTP` (`AddLookup`, then the pending secret again or a new
one) and `otp.verify` (`VerifyLookup`, `VerifyInsert`, whose deletion of the pending
secret nobody waits for: it may come late or never). `Passkeys` models both passkey
services, which share their code's shape but not its order: options saved under a key
of domain, ceremony and account (`SaveOptions`); the challenge read (`GetChallenge`),
deleted (`DeleteChallenge`) and checked (`Check`); the counter (`UpdateCounter`) and
the symmetric key (`StoreSymmetricKey`) written from a row read earlier. Clients and
authenticators are external: they create a passkey for the account and domain of the
options, sign any challenge shown with any passkey they have, and count. The passkeys
options allow are a hint to the browser that the server never reads again, and a passkey
is looked up by its credential alone, so a session, and the second factor of an account,
takes the passkey of any account; the session id of a passkey login is the client's and
may be an account's id, whose key has the same form (`PasskeyLogin`). What a signature
proves is taken as given; an answer sent to verification of another ceremony fails its
first check and is left out.

### `Signup`: the code, the account and the rest

Under the lock of its referral code (`TakeLock`; redlock's `using`, which reports
errors to its caller) a signup asks Amboss (`CanSignup`), looks for the account
(`FindAccount`), creates it (`CreateAccount`) and marks the code (`UseCode`); then the
session, the wallet with its accounts, and the mail follow. Calls fail, processes
die, the lock expires or is lost. Production's configuration is modelled: otherwise
anyone may sign up and no code is used.

### `Wallets` and `WalletScan`: wallets, addresses and the delta cache

`Wallets` is the creation (count, name, row, accounts, mail) and renaming of the
wallets of one account; `FirstWallet` is the one a signup creates without counting.
`WalletScan` is one descriptor: the chain pays its addresses (`Receive`), requests read the list of deltas (`ReadCache`), replay and scan
(`Scan`), write the list (`WriteCache`), pass over blocked addresses (`Probe`) and block
theirs (`Block`). A delta is the pair of positions in the wallet's history it leads
from and to; `applyUpdate` accepts only one that fits. Only `refresh_wallet` holds the
scan lock.

### `Pay`, `Lnurl`, `SideShift`: money going out

`Pay` answers every `pay` mutation on an invoice, a Bitcoin or a Liquid address with a
transaction to sign: a magic routing hint is paid directly, an open swap of the same
invoice, whoever made it, is reused (`GetReverseSwapByInvoice`), otherwise one is created
(`CreateSwap`, `StoreSwap`) and paid (`CreatePset`). `Noise` is what floating point may do
to the product of an amount and 10^8: `Math.ceil` then pays one satoshi more; where
the product goes to `BigInt` unrounded, the request throws and its swap stays unpaid.
`BoltzSwaps` says what becomes of the swaps.

`Lnurl` has two sides. `GetLnurl`, `GetResponse`, `GetInvoiceResponse`,
`GetBitcoinOnchainResponse` and `GetChainResponse` are what wallets elsewhere ask;
`PayLightningAddress` to `PayOnchainLiquidAddress` are a payment from here. The limits of
Boltz and of the other server change at any time; the copies in Redis (`cached`, `info`)
expire at any time. A fetch and the storing of its copy are one step.

`SideShift` has the permission with its copy in Redis (`IsAllowedToSwap`), the quote
(`GetQuote`, `SaveQuote`), the shift (`CreateShift`, `StoreShift`) and the transaction that
pays it (`PayShift`). The addresses it uses are those of `WalletScan`. That SideShift asks
of a fixed shift the deposit it quoted is an assumption about SideShift: the code pays
what the shift says and does not compare. `PaysTheQuote` is what the code adds to it,
that the amount survives its float.

### `Contacts`: messages between users

A contact is created from an address in any case (`GetContact`, `CheckAddress`,
`UpsertContactForAccount`). A message names a contact, by its id, and the address it goes
to, which the client writes as it likes: the code neither lowers it nor compares it with the
contact (`SendMessage`; `spelled` observes those not in lower case). It is sent in steps: the receiver's contact and copy,
the event (`Emit`, to the clients that listen to that process), the sender's contact and copy;
each may fail, and the client may try again. `Subscribe` is the event stream.

## Runs

| Run | Configuration | Instance | Shows |
|---|---|---|---|
| `server` | `MCBoltzSwaps_server.cfg` | 1 process, 1 swap of each kind, every budget 1, 2 updates in flight, impatient Boltz | secrets (`SignatureOnlyForPaidInvoice`, `PreimageOnlyForServerLock`), storage (`FundedSwapIsStored`, `ActionableUpdateFindsRow`), rows against the chain (`RowsMatchTheChain`), `TypeOK` |
| `pair` | `MCBoltzSwaps_pair.cfg` | 2 processes, an outage and a crash | `OneHandlerPerUpdate`, `LockEndsWithItsHandler` |
| `atomic` | `MCBoltzSwaps_atomic.cfg` | 2 processes, a failed call and a lost connection, patient Boltz | `AtomicSwapPromise` (refinement) |
| `live` | `MCBoltzSwaps_live.cfg` | 1 process, a failed call and a lost connection, patient Boltz | `ClaimHappens`, `RefundHappens`, `SwapIsClosed` |
| `restart` | `MCBoltzSwaps_restart.cfg` | 2 processes, a crash, a reverse or a chain swap | `LocksAreFreed`, `PendingSwapsAreResubscribed` |
| `ws` | `MCBoltzWs.cfg` | 7 faults, enough for the retry delay to reach its cap, a hung handshake, 2 late errors | timers and callbacks of successive attempts (`CrashOnlyAfterLateError`, `OneLiveSocket`, `OutageIsBounded`, `HealthySocketIsKept`), `AlwaysReconnects`, `ConnectionPromise` (refinement) |
| `sessions` | `MCSessions.cfg` | 1 account. `Sessions`: 2 requests at a time, 2 token pairs, 2 passwords, a cut. `TwoFactor`: 3 requests, 3 secrets, 2 rows | no session without its proofs (`LoginIsProven`), none that nobody holds unless its own login was cut (`StoredTokenReachesClient`), no revival (`RevokedStaysRevoked`), no factor the user lacks (`LoginSecretWorks`) |
| `passkeys` | `MCPasskeys.cfg` | a passkey for login and one for the second factor, of two users; a login session; 3 challenges, counters up to 2, 2 requests, any passkey for any challenge | `AcceptedAnswerIsDue`, `RowIsNotSetBack` |
| `signup` | `MCSignup.cfg` | 2 requests, 1 code, a mailbox in 2 spellings and a subscribed one, a fault; all but one spelling ask for a wallet (`Inputs`) | `SignupIsWhole`, `OneAccountPerMailbox`, `CodeLockIsFreed` (liveness) |
| `wallets` | `MCWallets.cfg` | `WalletScan`: 2 requests for any goal, 2 transactions, 3 addresses, a fault. `Wallets`: 2 creations, a limit of 3 | `ScanTellsTheTruth`, `KnowledgeGrows`, `AddressIsFree`; `WalletsAreInOrder` |
| `pay` | `MCPay.cfg` | `Pay`: 2 payments, 2 accounts, an invoice with a hint and one without, 3 amounts (one above, one below, one on its product), 2 swaps, a fault. `SideShift`: 2 requests, 1 quote, 2 shifts, a change of mind | `SignableSwapIsSound`, `OneOpenSwapPerInvoice`, `PaysWhatIsDue`; `AnsweredShiftIsSound` |
| `lnurl` | `MCLnurl.cfg` | `Lnurl`: a wallet elsewhere, a payment from here, 3 millisatoshis to a satoshi, 2 changes of limits, a fault. `Contacts`: 2 users, 2 domains, 2 processes, 2 contacts created, a message to any address in any case tried twice, a fault | `CallerIsServed`, `AcceptedAmountHolds`; `ConversationsAreWhole` |

Two machines in one run. `MCSessions`, `MCWallets`, `MCPay` and `MCLnurl` check two
components that share no variable. Each of the two moves only while the other is
where it began, so that the run explores both completely and their states add up;
no joint behaviour is lost, because neither reads the other's state. The property of
the second is defined in its own module and named in the `MC` module
(`LoginSecretWorks == Otp!LoginSecretWorks`).

Several properties are conjunctions of named parts, each commented in its module:

| Property | Parts |
|---|---|
| `RowsMatchTheChain` | `ClosedRowIsOver`, `RefundedRowIsBacked`, `RefundIsRecorded` |
| `LoginSecretWorks` | `RowIsProven`, `OneSecret` |
| `AcceptedAnswerIsDue` | `AnswerFitsItsOptions`, `ChallengeUsedUp` |
| `RowIsNotSetBack` | `CounterGrows`, `SymmetricKeyStoredOnce` |
| `SignupIsWhole` | `CodeMakesOneAccount`, `UsedCodeHasAccount`, `AnsweredSignupIsComplete` |
| `WalletsAreInOrder` | `LimitHolds`, `DefaultNamesDiffer`, `AnsweredWalletIsComplete` |
| `ScanTellsTheTruth` | `DeltasFit`, `ScanIsFresh` |
| `SignableSwapIsSound` | `SignableIsRecoverable`, `ClosedSwapIsNotPaid`, `RefundGoesToCreator` |
| `AnsweredShiftIsSound` | `AnsweredShiftIsRecorded`, `PaysTheQuote` |
| `CallerIsServed` | `InvoiceCoversTheRequest`, `ServedLimitsAreHonoured` |
| `AcceptedAmountHolds` | `AcceptedAmountFits`, `AcceptedAmountIsServed`, `AcceptedAmountIsSwapped` |
| `ConversationsAreWhole` | `EventHasItsMessage`, `SentMeansDelivered`, `OneContactPerAddress` |

`TypeOK` of `BoltzSwaps` is a property of `server`. The `TypeOK` of the other modules
holds on the instances of the runs too, where it is not among the properties; it is the
first conjunct of each inductive invariant and is proved with it.

Many of these properties say "unless requests overlap" (`raced`, `overlapped`, the
`taken` of a request, the place of the request in an action property). That is the
strength the code gives: it has no transactions there, and the properties say what
sequential callers may rely on and that nothing worse than the named overlap breaks it.
Without the exception they do not hold: two creations in flight pass the wallet limit
together, two payments in flight create two swaps for one invoice, two signups of one
mailbox in flight make two accounts if they spell it differently.

Other exceptions are of the code and not of overlaps: a passkey login without the second
factor (`LoginIsProven`), the passkey of another account in a ceremony
(`AnswerFitsItsOptions`), a refund to another user whose open swap was paid
(`RefundGoesToCreator`), and a second contact for another spelling of an address a message
went to (`OneContactPerAddress`). Each is named in the property's comment, and none
contradicts a document, comment or test of the repository.

Bounds. Swaps do not interact: a handler, a lock, a row and a subscription belong
to one swap, and the connection is shared only by being lost, so one swap of every
kind is enough; the proofs are for any number. Processes interact through rows and
locks only; two give every race of two handlers for one update. `MaxInFlight`
bounds the updates of a swap that are on their way or being handled when Boltz
publishes the next one: two of them give stale, repeated and overtaking updates. One
fault of each kind puts a failure at every point of every path.

In the other modules the state belongs to one account, wallet, invoice or address, so one
of it is enough, except where mixing two is the hazard (two owners and two domains in
`passkeys`, two payers in `pay`, two mailboxes in `signup`, two users in `lnurl`). Two
requests give every race of two handlers over two steps; `TwoFactor` has a third, for
what two left behind. The bounds on rows, tokens, quotes, swaps or changes leave room for
the hazard and what follows it: a second attempt after the first, a new limit after
the copied one, a wallet more than the limit. In `Lnurl`, three millisatoshis to a satoshi
have all cases of rounding, and the limits overlap in part, one of them off the whole
satoshi.

State constraints keep runs within minutes, and say what is not combined:

- `FaultFreeAddresses` (`wallets`): a call fails while requests scan, not while one asks
  for an address (an address request that fails hands out nothing);
- `BlocksAmongAddresses` (`wallets`): while an address is blocked, the requests in flight
  ask for addresses (the others neither read nor write the blocks);
- `Small` (`passkeys`): each passkey is registered with one challenge, and before options to
  authenticate in its domain are made (no options could be answered before); two
  challenges are signed, or one of them twice; a request under a key that never had
  options, which ends at its first look, is not followed;
- `InTurn` (`passkeys`): of the two registrations the login one comes first and its row is
  there before the other begins (their keys have nothing in common);
- `OneOff` (`pay`): of the swaps whose product is off and the payments past Boltz there is
  at most one at a time (the amounts of two payments do not meet in any computation);
- `Apart` (`lnurl`): a wallet elsewhere and a payment from here are not in progress
  together (they meet only in the copies of Boltz's limits, which either finds as the
  other left them), and, `LocalApart`, the other server does not change its limits under a
  payment to an address of this one;
- `FewSpellings`, `FewElsewhere`, `OneListener` (`lnurl`): two contacts are created, or one
  and a message addressed not in lower case (the second contact of a user needs no third);
  one contact at a time is of another server's address, and one user listens (contacts of
  other servers are delivered nothing, and a stream neither reads nor writes rows).

Deadlock is checked in `signup`. Everywhere else the modelled activity may come to its
end: swaps are over, a process is dead (`ws`), or the requests, tokens, quotes and
changes a bound allows are used up.

How tight the bounds of `atomic` and `live` are says something about the code:

- with two failed calls (both claim attempts fail), or a crash between giving Boltz
  the preimage and broadcasting, `AtomicSwapPromise` does not hold: Boltz takes the
  user's coins and, later, its own back;
- after a crash `ClaimHappens` does not hold even with a patient Boltz: the lock the
  dead process left is still there when the process is back within 10 s and Boltz
  repeats the status, the update is dropped, and nothing asks for it again;
- nor does it with an outage: an update whose lock or row could not be read is gone
  until the next reconnection.

None of these contradicts a document, comment or test of the repository; they are
listed as hazards in `PROJECT.json`.

Fairness. `FairSpec` of `BoltzSwaps`: the event loop of a process keeps running its
handlers (each `await` ends) and its connection loop, and Redis drops keys whose
TTL has passed. Nothing is assumed of users, payers or Boltz, which may stop for
ever: `ClaimHappens` and `RefundHappens` follow from what Boltz has already
published. `FairSpec` of `BoltzWs`: what is due runs, queries and handshakes end
(unless they hang), and time passes. The code has no time limit on a handshake and no
recovery from an error of an open socket, so `AlwaysReconnects` and the fairness in
`ConnectionPromise` are for executions without those two. `FairSpec` of `Signup`: the
event loop goes on with a signup that has started (every `await` ends,
with a result or an error), and Redis drops the lock of a dead process when its TTL is
over. The other modules have safety properties only and assume no fairness.

## What is proved

Every invariant and every action property of the runs, the refinement of `AtomicSwap`
and the steps of the refinement of `Connection` are theorems: they hold for any number
of users, processes, swaps, requests, rows, amounts and faults, not for the instances
of the runs only. Every proof has the same shape. An inductive invariant `IInv` is
shown to hold initially (`...Init`), to be kept by every action, with one lemma for each
action or each conjunct (`...Step`, or a lemma named for the action), and to imply the
property; action properties follow from `IInv` and the step. TLC agreed with each
`IInv` on the instances before it was proved.

| Module | Theorem | Statement |
|---|---|---|
| `BoltzSwapsProofs` | `Invariance` | `Spec => []IInv` |
| | `TypeCorrectness` | `Spec => []TypeOK` |
| | `SignatureSafety` | `Spec => []SignatureOnlyForPaidInvoice` |
| | `PreimageSafety` | `Spec => []PreimageOnlyForServerLock` |
| | `FundsAreRecoverable` | `Spec => []FundedSwapIsStored` |
| | `ActionableUpdateAlwaysFindsRow` | `Spec => []ActionableUpdateFindsRow` |
| | `RowsAlwaysMatchTheChain` | `Spec => []RowsMatchTheChain` |
| | `OneHandler` | `Spec => []OneHandlerPerUpdate` |
| | `LockAlwaysEndsWithItsHandler` | `Spec => LockEndsWithItsHandler` |
| | `SwapsAreAtomic` | `Prudent` implies `Spec => AtomicSwapPromise` |
| | `NothingIsTakenUnoffered` | `Spec => []TakenWasOffered` |
| | `NothingIsLost` | `Prudent` implies `Spec => []Abstract!NoLoss` |
| | `SocketsAreConnections` | `Spec => \A v \in Servers : Socket(v)!Spec` |
| `BoltzWsProofs` | `NoCrashWithoutLateError` | `Spec => []CrashOnlyAfterLateError` |
| | `NeverTwoLiveSockets` | `Spec => []OneLiveSocket` |
| | `OutageIsAlwaysBounded` | `Spec => []OutageIsBounded` |
| | `HealthySocketIsAlwaysKept` | `Spec => HealthySocketIsKept` |
| | `LoopIsAConnection` | `Spec => C!Spec` |
| `SessionsProofs` | `LoginIsAlwaysProven` | `Spec => []LoginIsProven` |
| | `StoredTokenAlwaysReaches` | `Spec => []StoredTokenReachesClient` |
| | `RevokedTokensStayRevoked` | `Spec => RevokedStaysRevoked` |
| | `LoginSecretAlwaysWorks` | `Otp!Spec => []LoginSecretWorks` |
| `SignupProofs` | `SignupAlwaysWhole` | `Spec => []SignupIsWhole` |
| | `OneAccountUnlessRaced` | `Spec => []OneAccountPerMailbox` |
| `PasskeysProofs` | `AcceptedAnswerIsAlwaysDue` | `Spec => []AcceptedAnswerIsDue` |
| | `RowIsNeverSetBack` | `Spec => RowIsNotSetBack` |
| `WalletsProofs` | `ScanAlwaysTellsTheTruth` | `Spec => []ScanTellsTheTruth` |
| | `HandedOutAddressIsFree` | `Spec => []AddressIsFree` |
| | `KnowledgeAlwaysGrows` | `Spec => KnowledgeGrows` |
| | `WalletsAreAlwaysInOrder` | `W!Spec => []WalletsAreInOrder` |
| `PayProofs` | `SignableSwapIsAlwaysSound` | `Spec => []SignableSwapIsSound` |
| | `OneOpenSwapUnlessRaced` | `Spec => []OneOpenSwapPerInvoice` |
| | `AlwaysPaysWhatIsDue` | `Spec => []PaysWhatIsDue` |
| | `AnsweredShiftIsAlwaysSound` | `S!Spec => []AnsweredShiftIsSound` |
| `LnurlProofs` | `CallerIsAlwaysServed` | `Spec => []CallerIsServed` |
| | `AcceptedAmountAlwaysHolds` | `Spec => []AcceptedAmountHolds` |
| | `ConversationsAreAlwaysWhole` | `C!Spec => []ConversationsAreWhole` |

`TypeCorrect` is `Spec => []TypeOK` in the modules that do not list it. Where a run holds two machines, `Otp`, `W`, `S` and `C` are the instances of `MCSessions`,
`MCWallets`, `MCPay` and `MCLnurl`, and `RunOfBoth` (`MCSpec => Spec /\ Otp!Spec`, and
likewise for the other three) carries both machines' theorems over to the run. In
`BoltzWsProofs`, `C` is `Connection`.

### Assumptions

The proofs use the named assumptions on the constants, which TLC evaluates in every run,
and no other. Bounds are natural numbers, amounts and limits too, and the sets of values
fit one another (`BoundsAssumption`, `KindsAssumption`, `ServersAssumption`,
`WsAssumption`, `MailboxAssumption`, `InputsAssumption`, `MappingAssumption`,
`GoalsAssumption`, `HintedAssumption`, `AmountAssumption`, `KAssumption`, `LimitAssumption`;
for the second machine of a run `ShiftAssumption`, `CreationsAssumption`,
`ContactsAssumption`). `None` stands for `null` and is none of the values it is told from
(`NoneAssumption`). The requests of `Sessions` and the creations of `Wallets` are finitely
many (`RequestsAssumption`, `CreationsAssumption`), because their invariants count what is
in flight against a bound. State constraints and symmetry of the runs play no part.

### The invariants, and why they are needed

`BoltzSwaps`. `PreimageOnlyForServerLock` needs to know why a handler is claiming: the
handler fits the update that started it (`JobInv`), and every update in flight or being
handled is true of the chain, however old it is (`TruthInv`): what a status says of
Boltz's lock stays true because the lock never goes back to an earlier state
(`GetAdvances`). `FundedSwapIsStored` needs that a request that has passed the insert has
a row, and that only a swap whose request has returned is paid for (`StorageInv`);
`ActionableUpdateFindsRow` adds that a status that asks for work was published after the
coins were put up (`BackedInv`). `RowsMatchTheChain` needs the same for the statuses that
end a swap (a swap that is over stays over, `OverLasts`), and that a handler about to
close a row was told so (`EndInv`). `OneHandlerPerUpdate` needs that without an outage a
running handler holds its lock from the first step to the last (`LockInv`), across
crashes. `IInv` is the conjunction, with `GivenUpInv`, which the refinement needs: for a
swap Boltz has given up it delivers nothing, and only then does a handler take the
user's coins back. Frame lemmas say what each group of actions leaves alone.

The refinement holds under `Prudent`: Boltz's timeouts do not overtake handlers
(`Patient`), no process crashes, and at most one call to Boltz fails; any number of lost
connections and of failed queries is allowed, and any number of processes. The
hypothesis is that of the `atomic` run, and it restricts the executions, not the code:
`MaxCrashes` and `MaxFaults` only bound counters. Runs says how the promise fails
without it; what holds even then is `NothingIsTakenUnoffered`: Boltz takes the user's
coins only after it has put up its own, and for a submarine swap after it has paid, so
what can be lost is an offer that nobody claimed in time. `PrudentInv` is the heart:
once Boltz has been shown the preimage of a lock that can be claimed, some handler is at
its broadcast or at the script path, and at the script path the one failure is used up,
so it cannot fail again (`ClaimGoesOn`); so a lock that Boltz takes back is one of a
swap whose secrets it never had, and no later update asks for them. Then every step of
the handlers, Boltz and the chains is one of `AtomicSwap`, or none (`AbstractStep`).
`SocketsAreConnections` and `LoopIsAConnection` meet in `Connection`: what `BoltzSwaps`
has for the socket of a process is what the loop of `BoltzWs` provides.

`BoltzWs`. Sockets come one after the other (`SocketInv`), and as long as no open socket
errs the only timers that run are those of the last one, with the two shared ids naming
them (`CalmInv`). `OutageIsBounded` needs the clocks in it: while the other side is
silent, the time that has passed and the time the running timer has left add up to at
most 15 s, and between two rounds the time passed and the delay left to that and the
backoff. After a late error nothing of this holds, which is why the properties name it.

`Sessions`. Where a request is says what was checked on the way (`PlaceInv`): one that is
to store its pair has earned it (`Earned`), with a passkey, or with the password and the
factor if there was one when the login looked. And a
pair a login has signed and not handed on is known to that login alone (`FreshInv`):
otherwise the second factor proven in one session would count for another. That the
stored pair reaches a client is inductive with these; a pair is in `lost` only if its own
login was cut past the storing. The pairs fit
their bound with those about to be signed (`BoundInv`). In `TwoFactor` a secret is proven
before its row is inserted (`OtpPlaceInv`), and as long as the requests of an account do not
overlap, the pending secret, the one being verified and those of the rows are the same
(`SerialInv`), whatever a deletion nobody waits for does late.

`Signup`. Without a fault the lock on a code is its request's until the release, and a
code that has made an account is used up before that (`CodeInv`); a request that met
no rival for its mailbox has looked for accounts and none was created since (`RivalInv`);
no two requests work for one address (`OnceInv`).

`Passkeys`. A challenge is kept only under the key it was generated for (`SavedInv`); past
its deletion it is under no key, and a request that began after the challenge was used
has not read it (`Holds` in `RequestInv`). An answer was made for options that were
generated, and of their ceremony (`AnswersInv`).

`WalletScan`, `Wallets`. A list of deltas leads from an empty wallet, without a gap, to
what was on chain (`CacheInv`, `ReqInv`), and one that fits goes on to fit
(`FitsGrows`). What a request knows of an address it is probing is in `Searches`. In
`Wallets`, rows and creations past the limit check are counted together (`LimitInv`), and a
creation that met no other still finds its count and its name as it left them
(`AloneInv`).

`Pay`, `SideShift`. Boltz numbers its swaps in order, and unless two payments of an
invoice were creating swaps at once only one does, when no row is open, and the one
open row is the newest (`RaceInv`): so the next payment finds it, and reopens none that
was closed. For shifts, where a request is says what it is for and what it made
(`ShiftPlaceInv`), and a shift is one request's (`ShiftOwnerInv`).

`Lnurl`, `Contacts`. The rounding lemmas carry the proof: `CeilCovers` and
`FloorCovers` bound what a conversion loses by a satoshi, `WithinRounded` takes an amount
through it. They multiply by the constant `K`, which takes the solver one
multiplication at a time (`Times`). `Contacts` needs that contacts are stored in lower case,
but for the addresses noted in `spelled` (`LowerInv`), and that a message on its way has its
rows behind it (`OnWay`, `WayInv`).

### Only model-checked

- Liveness: `ClaimHappens`, `RefundHappens`, `SwapIsClosed`, `LocksAreFreed`,
  `PendingSwapsAreResubscribed`, `AlwaysReconnects`, `CodeLockIsFreed`, and the fairness in
  `ConnectionPromise` (its steps are proved, `LoopIsAConnection`). They are about
  fairness, of actions whose ENABLED the prover cannot reason about.
- Nothing else: there is no invariant or action property of a run without its theorem.

## What is left out

- Covenant claims: no caller sets `claimCovenant`, and the handler ignores such swaps.
- Late payments: the user or payer pays only while the swap is new, not after its
  expiry; recovery by script path refund does not exist in the code.
- Untruthful statuses and wrong lockup outputs: the handlers return or throw before
  any effect.
- A `fetch` that never answers: every `await` is assumed to end.
- A second copy of an update in a process whose first copy has lost its lock: the code
  would handle both at once, the model lets the second one wait for the first. While the
  first holds the lock, the second is dropped, as in the code (`SkipUpdate`).
- The wait for the lock: a single Redis command, merged with the arrival of the
  update; `eachSeries` only delays the next update of a message.
- SSE notifications, logging, transaction construction, fees, keys.
- Processes configured without `enableWebsocket`: in the model they are processes
  whose connection is always down.
- Sessions: the backup mails after a password change, which alter no state of the
  server; changing what a two-factor method is called; the refresh token a refresh
  answers with.
- Passkeys: answers sent to the verification of another ceremony.
- Signup: configurations other than production.
- WalletScan: several descriptors of one wallet (scanned one by one, with a cache
  each), and a dead holder of the scan lock (its key's TTL is that of `Signup`).
- Wallets: broadcasting a signed transaction (a call to Boltz without state here) and
  the read-only queries.
- Pay: fees, coin selection and the transaction itself.
- Lnurl: another server that takes Liquid assets; an invoice of another server for an
  amount other than the one asked (the code does not compare them).
- Contacts: the public keys and the currencies of a contact, which are read-only.
- Not modelled at all: prices and fiat rates, the Esplora, mempool and mail clients
  (stateless calls), keys and encryption (taken as given), the framework's wiring.
