------------------------------- MODULE Signup -------------------------------
(* Signing up: who may, the account, its referral code, session and wallet.  *)
(*                                                                           *)
(* A signup with a referral code asks Amboss, creates the account and uses   *)
(* the code up under a Redis lock on the code; one without a code needs a    *)
(* subscription and takes no lock.  The session, the wallet, its mail and    *)
(* the signup mail follow outside the lock.  Any awaited call may fail.      *)
EXTENDS Naturals, FiniteSets

CONSTANTS
  Requests, Codes,
  Emails,      \* addresses as typed
  Mailbox,     \* Mailbox[e]: what an address is when its case is ignored
  Subscribed,  \* mailboxes Amboss lets in without a code
  Inputs,      \* what clients may sign up with: email, code, whether with a wallet
  MaxFaults,   \* bound: failed calls, dead processes, locks lost
  None

ASSUME MailboxAssumption == DOMAIN Mailbox = Emails
ASSUME InputsAssumption == Inputs \subseteq [email : Emails, code : Codes \cup {None}, wallet : BOOLEAN]
ASSUME BoundsAssumption == MaxFaults \in Nat

VARIABLES
  accounts,    \* account rows: email, the code it came with, and whether its
               \* request met another one for the same mailbox (observed)
  sessions,    \* emails of accounts with a stored refresh token
  wallets,     \* wallet of an account: "none", "bare" (no account yet), "ready"
  usedBy,      \* Amboss: the email that used a code, or None
  lock,        \* Redis: the request that holds the lock on a code, or None
  req,
  answered,    \* observed: signups answered with success
  faults

vars == <<accounts, sessions, wallets, usedBy, lock, req, answered, faults>>

Places == {"can", "find", "create", "use", "release", "session", "wallet", "fill", "mail"}
Request == [at : Places, email : Emails, code : Codes \cup {None}, wallet : BOOLEAN,
            using : BOOLEAN, failed : BOOLEAN, raced : BOOLEAN]
Account == [email : Emails, code : Codes \cup {None}, raced : BOOLEAN]

ASSUME NoneAssumption == /\ None \notin Requests /\ None \notin Request
                         /\ None \notin Codes /\ None \notin Emails

TypeOK ==
  /\ accounts \subseteq Account
  /\ sessions \subseteq Emails
  /\ wallets \in [Emails -> {"none", "bare", "ready"}]
  /\ usedBy \in [Codes -> Emails \cup {None}]
  /\ lock \in [Codes -> Requests \cup {None}]
  /\ req \in [Requests -> Request \cup {None}]
  /\ answered \subseteq [email : Emails, wallet : BOOLEAN]
  /\ faults \in 0..MaxFaults

Init ==
  /\ accounts = {} /\ sessions = {}
  /\ wallets = [e \in Emails |-> "none"]
  /\ usedBy = [c \in Codes |-> None]
  /\ lock = [c \in Codes |-> None]
  /\ req = [r \in Requests |-> None]
  /\ answered = {} /\ faults = 0

At(r, at) == req[r] # None /\ req[r].at = at
Goto(r, at) == req' = [req EXCEPT ![r].at = at]
SameMailbox(e, f) == Mailbox[e] = Mailbox[f]

(* An error leaves the method at once: through the lock's release if one is
   held, and then to the client. *)
Throw(r) ==
  req' = [req EXCEPT ![r] = IF @.code # None /\ @.at \in {"can", "find", "create", "use"}
                            THEN [@ EXCEPT !.at = "release", !.failed = TRUE]
                            ELSE None]

-----------------------------------------------------------------------------
(* signUp with a code: redlock.using, refused while the code is locked.
   A request knows which others for its mailbox are in flight (observed). *)

(* Mutant of TakeLock: no lock. *)
TakeNoLock(r, c) == UNCHANGED lock

TakeLock(r, c) ==
  IF c = None THEN UNCHANGED lock
  ELSE lock[c] = None /\ lock' = [lock EXCEPT ![c] = r]

Begin(r) ==
  /\ req[r] = None
  /\ \E x \in Inputs :
       LET rivals == {q \in Requests : req[q] # None /\ SameMailbox(req[q].email, x.email)} IN
       /\ TakeLock(r, x.code)
       /\ req' = [q \in Requests |->
            IF q = r THEN [at |-> "can", email |-> x.email, code |-> x.code, wallet |-> x.wallet,
                           using |-> FALSE, failed |-> FALSE, raced |-> rivals # {}]
            ELSE IF q \in rivals THEN [req[q] EXCEPT !.raced = TRUE] ELSE req[q]]
  /\ UNCHANGED <<accounts, sessions, wallets, usedBy, answered, faults>>

(* canSignup.  Amboss: a subscriber may; anyone else uses up a free code. *)
CanSignup(r) ==
  /\ At(r, "can")
  /\ LET subscriber == Mailbox[req[r].email] \in Subscribed
         free == req[r].code # None /\ usedBy[req[r].code] = None IN
     IF subscriber \/ free
     THEN req' = [req EXCEPT ![r].at = "find", ![r].using = ~subscriber]
     ELSE Throw(r)
  /\ UNCHANGED <<accounts, sessions, wallets, usedBy, lock, answered, faults>>

(* Mutant of FindAccount: findOne minds the case. *)
FindExactEmail(r) ==
  /\ At(r, "find")
  /\ IF \E x \in accounts : x.email = req[r].email THEN Throw(r) ELSE Goto(r, "create")
  /\ UNCHANGED <<accounts, sessions, wallets, usedBy, lock, answered, faults>>

(* Mutant of FindAccount: the code is used before the account is created. *)
UseCodeFirst(r) ==
  /\ At(r, "find")
  /\ usedBy' = IF req[r].using THEN [usedBy EXCEPT ![req[r].code] = req[r].email] ELSE usedBy
  /\ Goto(r, "create")
  /\ UNCHANGED <<accounts, sessions, wallets, lock, answered, faults>>

(* accountService.signUp: findOne ignores case ... *)
FindAccount(r) ==
  /\ At(r, "find")
  /\ IF \E x \in accounts : SameMailbox(x.email, req[r].email) THEN Throw(r) ELSE Goto(r, "create")
  /\ UNCHANGED <<accounts, sessions, wallets, usedBy, lock, answered, faults>>

AfterCreate(r) ==
  IF req[r].code = None THEN "session" ELSE IF req[r].using THEN "use" ELSE "release"

(* ... but the unique index of the insert does not. *)
CreateAccount(r) ==
  /\ At(r, "create")
  /\ IF \E x \in accounts : x.email = req[r].email
     THEN Throw(r) /\ UNCHANGED accounts
     ELSE /\ accounts' = accounts \cup {[email |-> req[r].email, code |-> req[r].code,
                                         raced |-> req[r].raced]}
          /\ Goto(r, AfterCreate(r))
  /\ UNCHANGED <<sessions, wallets, usedBy, lock, answered, faults>>

(* useRefferalCode: whether it was a success is not looked at. *)
UseCode(r) ==
  /\ At(r, "use")
  /\ usedBy' = [usedBy EXCEPT ![req[r].code] = IF @ = None THEN req[r].email ELSE @]
  /\ Goto(r, "release")
  /\ UNCHANGED <<accounts, sessions, wallets, lock, answered, faults>>

(* The lock is released, if it is still this request's; a request that failed
   or lost its lock ends with an error. *)
Release(r) ==
  LET c == req[r].code  mine == lock[c] = r IN
  /\ At(r, "release")
  /\ lock' = IF mine THEN [lock EXCEPT ![c] = None] ELSE lock
  /\ IF mine /\ ~req[r].failed THEN Goto(r, "session") ELSE req' = [req EXCEPT ![r] = None]
  /\ UNCHANGED <<accounts, sessions, wallets, usedBy, answered, faults>>

(* getTokens, updateRefreshToken, the cookies. *)
StoreSession(r) ==
  /\ At(r, "session")
  /\ sessions' = sessions \cup {req[r].email}
  /\ Goto(r, IF req[r].wallet THEN "wallet" ELSE "mail")
  /\ UNCHANGED <<accounts, wallets, usedBy, lock, answered, faults>>

(* Mutant of CreateWallet: createWallet is not awaited. *)
CreateWalletLater(r) ==
  /\ At(r, "wallet")
  /\ wallets' = [wallets EXCEPT ![req[r].email] = "bare"]
  /\ Goto(r, "mail")
  /\ UNCHANGED <<accounts, sessions, usedBy, lock, answered, faults>>

(* createWallet: the wallet, then its accounts one by one, then its mail. *)
CreateWallet(r) ==
  /\ At(r, "wallet")
  /\ wallets' = [wallets EXCEPT ![req[r].email] = "bare"]
  /\ Goto(r, "fill")
  /\ UNCHANGED <<accounts, sessions, usedBy, lock, answered, faults>>

CreateWalletAccounts(r) ==
  /\ At(r, "fill")
  /\ wallets' = [wallets EXCEPT ![req[r].email] = "ready"]
  /\ Goto(r, "mail")
  /\ UNCHANGED <<accounts, sessions, usedBy, lock, answered, faults>>

(* sendSignupMail, and the answer. *)
SendMail(r) ==
  /\ At(r, "mail")
  /\ answered' = answered \cup {[email |-> req[r].email, wallet |-> req[r].wallet]}
  /\ req' = [req EXCEPT ![r] = None]
  /\ UNCHANGED <<accounts, sessions, wallets, usedBy, lock, faults>>

-----------------------------------------------------------------------------
(* Faults *)
Fault == faults < MaxFaults /\ faults' = faults + 1

(* An awaited call throws; for the code's use, before or after Amboss did it. *)
CallFails(r) ==
  /\ Fault /\ req[r] # None /\ req[r].at # "release"
  /\ Throw(r)
  /\ usedBy' \in {usedBy} \cup
       (IF At(r, "use") THEN {[usedBy EXCEPT ![req[r].code] = req[r].email]} ELSE {})
  /\ UNCHANGED <<accounts, sessions, wallets, lock, answered>>

(* Amboss answers that the code was not used, or with something else. *)
UseIsRefused(r) ==
  /\ Fault /\ At(r, "use")
  /\ Goto(r, "release")
  /\ UNCHANGED <<accounts, sessions, wallets, usedBy, lock, answered>>

(* The process dies, its lock stays in Redis. *)
Crash(r) ==
  /\ Fault /\ req[r] # None
  /\ req' = [req EXCEPT ![r] = None]
  /\ UNCHANGED <<accounts, sessions, wallets, usedBy, lock, answered>>

(* Mutant of LockExpires: locks are set without a TTL. *)
LockStays(c) == FALSE /\ UNCHANGED vars

(* Ten seconds without an extension, because the holder is dead ... *)
LockExpires(c) ==
  /\ lock[c] # None
  /\ ~ (req[lock[c]] # None /\ req[lock[c]].code = c)
  /\ lock' = [lock EXCEPT ![c] = None]
  /\ UNCHANGED <<accounts, sessions, wallets, usedBy, req, answered, faults>>

(* ... or an extension that fails. *)
LockLost(c) ==
  /\ Fault /\ lock[c] # None
  /\ lock' = [lock EXCEPT ![c] = None]
  /\ UNCHANGED <<accounts, sessions, wallets, usedBy, req, answered>>

Continue(r) == CanSignup(r) \/ FindAccount(r) \/ CreateAccount(r) \/ UseCode(r) \/ Release(r)
               \/ StoreSession(r) \/ CreateWallet(r) \/ CreateWalletAccounts(r) \/ SendMail(r)

Next == \/ \E r \in Requests : Begin(r) \/ Continue(r) \/ CallFails(r) \/ UseIsRefused(r) \/ Crash(r)
        \/ \E c \in Codes : LockExpires(c) \/ LockLost(c)

Spec == Init /\ [][Next]_vars

(* The event loop goes on with a request, Redis drops what nobody extends. *)
FairSpec == /\ Spec
            /\ \A r \in Requests : WF_vars(Continue(r))
            /\ \A c \in Codes : WF_vars(LockExpires(c))

-----------------------------------------------------------------------------
MadeWith(c) == {x \in accounts : x.code = c /\ Mailbox[x.email] \notin Subscribed}

(* A referral code makes one account, unless a fault kept Amboss from marking
   it or took the lock away in between. *)
CodeMakesOneAccount == faults = 0 => \A c \in Codes : Cardinality(MadeWith(c)) <= 1

(* A code is used up only for an account that exists: no order of failures
   burns the code of a user who has none. *)
UsedCodeHasAccount ==
  \A c \in Codes : usedBy[c] # None => \E x \in accounts : x.email = usedBy[c]

(* Two accounts of one mailbox, between which a login could not tell, come only
   from signups in flight together (the unique index minds the case). *)
OneAccountPerMailbox ==
  \A x, y \in accounts : x # y /\ SameMailbox(x.email, y.email) => x.raced \/ y.raced

(* A signup that is answered with success left nothing half done: the account
   with its session, and the wallet with its accounts if one was asked for. *)
AnsweredSignupIsComplete ==
  \A q \in answered :
    /\ \E x \in accounts : x.email = q.email
    /\ q.email \in sessions
    /\ q.wallet => wallets[q.email] = "ready"

(* What a signup is worth: a referral code makes one account that exists, and
   success is answered for a whole account only, whatever failed before. *)
SignupIsWhole == CodeMakesOneAccount /\ UsedCodeHasAccount /\ AnsweredSignupIsComplete

(* The lock of a code does not outlive its request, even one that died: another
   signup with the code can be tried. *)
CodeLockIsFreed == \A c \in Codes, r \in Requests : lock[c] = r ~> lock[c] # r
=============================================================================
