---------------------------- MODULE SignupProofs ----------------------------
(* Proofs about Signup, for any clients, codes, addresses, subscribers and   *)
(* number of faults.                                                         *)
EXTENDS Signup, TLAPS, FiniteSetTheorems

-----------------------------------------------------------------------------
(* The inductive invariant. *)

(* A request that runs under the lock of its code, and one that has created its
   account and not failed since. *)
UnderLock(r) == /\ req[r] # None /\ req[r].code # None
                /\ req[r].at \in {"can", "find", "create", "use", "release"}
Created(r) == /\ req[r] # None
              /\ \/ req[r].at \in {"use", "session", "wallet", "fill", "mail"}
                 \/ req[r].at = "release" /\ ~req[r].failed

HasAccount(e) == \E x \in accounts : x.email = e

(* Where a request is says what it has done. *)
Placed(r) ==
  /\ req[r].at \in {"use", "release"} => req[r].code # None
  /\ req[r].at \in {"find", "create", "use"} =>
       (req[r].using <=> Mailbox[req[r].email] \notin Subscribed)
  /\ req[r].at \in {"find", "create"} /\ req[r].using => req[r].code # None
  /\ req[r].at = "use" => req[r].using
  /\ Created(r) => HasAccount(req[r].email)
  /\ req[r].at \in {"wallet", "fill", "mail"} => req[r].email \in sessions
  /\ req[r].at = "mail" /\ req[r].wallet => wallets[req[r].email] = "ready"
PlaceInv == \A r \in Requests : req[r] # None => Placed(r)

(* An address is signed up once: no request works on the session or the wallet
   of another one's account, or of one that was answered. *)
OnceInv ==
  /\ \A r, q \in Requests : Created(r) /\ Created(q) /\ r # q => req[r].email # req[q].email
  /\ \A r \in Requests, x \in answered : Created(r) => req[r].email # x.email

(* A request that will create its account with a code. *)
Using(r, c) == req[r] # None /\ req[r].at \in {"find", "create"} /\ req[r].using /\ req[r].code = c

(* Without a fault the lock on a code is its request's until the release, and a
   code that has made an account is used up before the lock is released. *)
CodeInv ==
  faults = 0 =>
    /\ \A r \in Requests : UnderLock(r) => lock[req[r].code] = r
    /\ \A r \in Requests, c \in Codes : Using(r, c) => usedBy[c] = None /\ MadeWith(c) = {}
    /\ \A c \in Codes : MadeWith(c) # {} =>
         usedBy[c] # None \/ \E r \in Requests : At(r, "use") /\ req[r].code = c
    /\ \A c \in Codes : \A x, y \in MadeWith(c) : x = y

(* A request that met no other one for its mailbox has looked for accounts of
   the mailbox, and none has been created since. *)
RivalInv ==
  /\ \A r, q \in Requests : /\ req[r] # None /\ req[q] # None /\ r # q
                           /\ SameMailbox(req[r].email, req[q].email)
                           => req[r].raced
  /\ \A r \in Requests : At(r, "create") /\ ~req[r].raced =>
       \A x \in accounts : ~SameMailbox(x.email, req[r].email)

IInv == /\ TypeOK /\ PlaceInv /\ OnceInv /\ CodeInv /\ RivalInv
        /\ UsedCodeHasAccount /\ OneAccountPerMailbox /\ AnsweredSignupIsComplete

-----------------------------------------------------------------------------
(* How the requests move. *)

(* A request that waits keeps everything, but for a rival it may have met. *)
Waits(q) ==
  IF req[q] = None THEN req'[q] = None
  ELSE /\ req'[q] # None /\ req'[q].at = req[q].at /\ req'[q].email = req[q].email
       /\ req'[q].code = req[q].code /\ req'[q].wallet = req[q].wallet
       /\ req'[q].using = req[q].using /\ req'[q].failed = req[q].failed
       /\ req[q].raced => req'[q].raced

(* The parts of a request in flight have their types. *)
LEMMA RequestParts ==
  ASSUME TypeOK, NEW r \in Requests, req[r] # None
  PROVE  /\ req[r] \in Request /\ req[r].at \in Places /\ req[r].email \in Emails
         /\ req[r].code \in Codes \cup {None}
         /\ req[r].wallet \in BOOLEAN /\ req[r].using \in BOOLEAN /\ req[r].failed \in BOOLEAN
         /\ req[r].raced \in BOOLEAN
  BY DEF TypeOK, Request

(* A request goes on with what it has. *)
LEMMA Going ==
  ASSUME TypeOK, NEW r \in Requests, NEW at \in Places, NEW u \in BOOLEAN, req[r] # None,
         req' = [req EXCEPT ![r] = [@ EXCEPT !.at = at, !.using = u]]
  PROVE  /\ req' \in [Requests -> Request \cup {None}]
         /\ req'[r] # None /\ req'[r].at = at /\ req'[r].using = u
         /\ req'[r].email = req[r].email /\ req'[r].code = req[r].code
         /\ req'[r].wallet = req[r].wallet /\ req'[r].failed = req[r].failed
         /\ req'[r].raced = req[r].raced
         /\ \A q \in Requests \ {r} : req'[q] = req[q]
  <1>1. req[r] \in Request
    BY DEF TypeOK
  <1>2. [req[r] EXCEPT !.at = at, !.using = u] \in Request
    BY <1>1 DEF Request
  <1>3. req'[r] = [req[r] EXCEPT !.at = at, !.using = u] /\ \A q \in Requests \ {r} : req'[q] = req[q]
    BY DEF TypeOK
  <1>4. QED
    BY <1>1, <1>2, <1>3, NoneAssumption DEF TypeOK, Request

(* A request that goes on changes its place only. *)
LEMMA Moving ==
  ASSUME TypeOK, NEW r \in Requests, NEW at \in Places, req[r] # None, Goto(r, at)
  PROVE  /\ req' \in [Requests -> Request \cup {None}]
         /\ req'[r] # None /\ req'[r].at = at /\ req'[r].using = req[r].using
         /\ req'[r].email = req[r].email /\ req'[r].code = req[r].code
         /\ req'[r].wallet = req[r].wallet /\ req'[r].failed = req[r].failed
         /\ req'[r].raced = req[r].raced
         /\ \A q \in Requests \ {r} : req'[q] = req[q]
  <1>1. req[r] \in Request
    BY DEF TypeOK
  <1>2. [req[r] EXCEPT !.at = at] \in Request
    BY <1>1 DEF Request
  <1>3. req'[r] = [req[r] EXCEPT !.at = at] /\ \A q \in Requests \ {r} : req'[q] = req[q]
    BY DEF TypeOK, Goto
  <1>4. QED
    BY <1>1, <1>2, <1>3, NoneAssumption DEF TypeOK, Request, Goto

(* A request that fails leaves through the release of its lock, or at once. *)
LEMMA Throwing ==
  ASSUME TypeOK, NEW r \in Requests, req[r] # None, Throw(r)
  PROVE  /\ req' \in [Requests -> Request \cup {None}]
         /\ \/ req'[r] = None
            \/ /\ req'[r].at = "release" /\ req'[r].failed /\ UnderLock(r)
               /\ req'[r] # None /\ req'[r].code = req[r].code /\ req'[r].email = req[r].email
               /\ req'[r].raced = req[r].raced
         /\ \A q \in Requests \ {r} : req'[q] = req[q]
  <1>1. req[r] \in Request
    BY DEF TypeOK
  <1>2. [req[r] EXCEPT !.at = "release", !.failed = TRUE] \in Request
    BY <1>1 DEF Request, Places
  <1>3. \A q \in Requests \ {r} : req'[q] = req[q]
    BY DEF TypeOK, Throw
  <1>4. CASE req'[r] = None
    BY <1>3, <1>4 DEF TypeOK, Throw
  <1>5. CASE /\ req'[r] = [req[r] EXCEPT !.at = "release", !.failed = TRUE]
             /\ req[r].code # None /\ req[r].at \in {"can", "find", "create", "use"}
    BY <1>1, <1>2, <1>3, <1>5, NoneAssumption DEF TypeOK, Throw, UnderLock, Request
  <1>6. QED
    BY <1>4, <1>5 DEF TypeOK, Throw

(* A request begins, and its rivals know. *)
LEMMA Beginning ==
  ASSUME TypeOK, NEW r \in Requests, Begin(r)
  PROVE  /\ req[r] = None /\ req' \in [Requests -> Request \cup {None}]
         /\ req'[r] # None /\ req'[r].at = "can" /\ ~req'[r].failed
         /\ req'[r].code \in Codes \cup {None} /\ TakeLock(r, req'[r].code)
         /\ \A q \in Requests \ {r} :
              /\ Waits(q)
              /\ req[q] # None /\ SameMailbox(req[q].email, req'[r].email)
                   => req'[q].raced /\ req'[r].raced
  <1>1. PICK x \in Inputs :
          LET rivals == {q \in Requests : req[q] # None /\ SameMailbox(req[q].email, x.email)} IN
          /\ TakeLock(r, x.code)
          /\ req' = [q \in Requests |->
               IF q = r THEN [at |-> "can", email |-> x.email, code |-> x.code, wallet |-> x.wallet,
                              using |-> FALSE, failed |-> FALSE, raced |-> rivals # {}]
               ELSE IF q \in rivals THEN [req[q] EXCEPT !.raced = TRUE] ELSE req[q]]
    BY DEF Begin
  <1> DEFINE rivals == {q \in Requests : req[q] # None /\ SameMailbox(req[q].email, x.email)}
             new == [at |-> "can", email |-> x.email, code |-> x.code, wallet |-> x.wallet,
                     using |-> FALSE, failed |-> FALSE, raced |-> rivals # {}]
  <1>2. x.email \in Emails /\ x.code \in Codes \cup {None} /\ x.wallet \in BOOLEAN
    BY InputsAssumption
  <1>3. new \in Request
    BY <1>2 DEF Request, Places
  <1>4. req[r] = None /\ req'[r] = new
    BY <1>1 DEF Begin
  <1>5. ASSUME NEW q \in Requests \ {r}
        PROVE  /\ req'[q] \in Request \cup {None} /\ Waits(q)
               /\ q \in rivals => req'[q].raced
    <2>1. CASE q \in rivals
      <3>1. req[q] \in Request /\ req[q] # None
        BY <2>1 DEF TypeOK
      <3>2. req'[q] = [req[q] EXCEPT !.raced = TRUE]
        BY <1>1, <2>1
      <3>3. req'[q] \in Request
        BY <3>1, <3>2 DEF Request
      <3>4. QED
        BY <3>1, <3>2, <3>3, NoneAssumption DEF Waits, Request
    <2>2. CASE q \notin rivals
      <3>1. req'[q] = req[q]
        BY <1>1, <2>2
      <3>2. QED
        BY <2>2, <3>1 DEF Waits, TypeOK
    <2>3. QED
      BY <2>1, <2>2
  <1>6. req' \in [Requests -> Request \cup {None}]
    <2>1. \A q \in Requests : req'[q] \in Request \cup {None}
      BY <1>3, <1>4, <1>5
    <2>2. QED
      BY <1>1, <2>1
  <1>7. QED
    BY <1>1, <1>2, <1>3, <1>4, <1>5, <1>6, NoneAssumption

(* Amboss is asked, and the request goes on or fails. *)
LEMMA Asking ==
  ASSUME TypeOK, NEW r \in Requests, CanSignup(r)
  PROVE  \/ Throw(r)
         \/ /\ req'[r] # None /\ req'[r].at = "find"
            /\ req'[r].using <=> Mailbox[req[r].email] \notin Subscribed
            /\ req'[r].using => req[r].code # None /\ usedBy[req[r].code] = None
            /\ req'[r].email = req[r].email /\ req'[r].code = req[r].code
            /\ req'[r].wallet = req[r].wallet /\ req'[r].failed = req[r].failed
            /\ req'[r].raced = req[r].raced
            /\ \A q \in Requests \ {r} : req'[q] = req[q]
            /\ req' \in [Requests -> Request \cup {None}]
  <1> DEFINE subscriber == Mailbox[req[r].email] \in Subscribed
             free == req[r].code # None /\ usedBy[req[r].code] = None
  <1>1. CASE subscriber \/ free
    <2>1. req' = [req EXCEPT ![r].at = "find", ![r].using = ~subscriber]
      BY <1>1 DEF CanSignup
    <2>2. req' = [req EXCEPT ![r] = [@ EXCEPT !.at = "find", !.using = ~subscriber]]
      BY <2>1
    <2>3. req[r] # None /\ "find" \in Places /\ (~subscriber) \in BOOLEAN
      BY DEF CanSignup, At, Places
    <2> HIDE DEF subscriber
    <2>4. /\ req'[r] # None /\ req'[r].at = "find" /\ req'[r].using = ~subscriber
          /\ req'[r].email = req[r].email /\ req'[r].code = req[r].code
          /\ req'[r].wallet = req[r].wallet /\ req'[r].failed = req[r].failed
          /\ req'[r].raced = req[r].raced
          /\ \A q \in Requests \ {r} : req'[q] = req[q]
          /\ req' \in [Requests -> Request \cup {None}]
      BY <2>2, <2>3, Going
    <2>5. QED
      BY <1>1, <2>4 DEF subscriber
  <1>2. CASE ~(subscriber \/ free)
    BY <1>2 DEF CanSignup
  <1>3. QED
    BY <1>1, <1>2

(* All but one request wait. *)
LEMMA OneMoves ==
  ASSUME TypeOK, NEW r \in Requests,
         Begin(r) \/ Continue(r) \/ CallFails(r) \/ UseIsRefused(r) \/ Crash(r)
  PROVE  /\ req' \in [Requests -> Request \cup {None}]
         /\ \A q \in Requests \ {r} : Waits(q)
  <1>1. CASE Begin(r)
    BY <1>1, Beginning
  <1>2. ASSUME \A q \in Requests \ {r} : req'[q] = req[q] PROVE \A q \in Requests \ {r} : Waits(q)
    BY <1>2 DEF Waits
  <1>3. CASE CanSignup(r)
    BY <1>2, <1>3, Asking, Throwing DEF CanSignup, At
  <1>4. CASE FindAccount(r) \/ CreateAccount(r)
    BY <1>2, <1>4, Moving, Throwing DEF FindAccount, CreateAccount, At, AfterCreate, Places
  <1>5. CASE UseCode(r) \/ StoreSession(r) \/ CreateWallet(r) \/ CreateWalletAccounts(r) \/ UseIsRefused(r)
    BY <1>2, <1>5, Moving DEF UseCode, StoreSession, CreateWallet, CreateWalletAccounts, UseIsRefused,
         At, Places
  <1>6. CASE Release(r)
    <2>1. CASE Goto(r, "session")
      BY <1>2, <1>6, <2>1, Moving DEF Release, At, Places
    <2>2. CASE req' = [req EXCEPT ![r] = None]
      BY <1>2, <2>2 DEF TypeOK
    <2>3. QED
      BY <1>6, <2>1, <2>2 DEF Release
  <1>7. CASE SendMail(r) \/ Crash(r)
    BY <1>2, <1>7 DEF SendMail, Crash, TypeOK
  <1>8. CASE CallFails(r)
    BY <1>2, <1>8, Throwing DEF CallFails
  <1>9. QED
    BY <1>1, <1>3, <1>4, <1>5, <1>6, <1>7, <1>8 DEF Continue

-----------------------------------------------------------------------------
(* Type correctness. *)

LEMMA TypeStep ==
  ASSUME TypeOK, PlaceInv, [Next]_vars
  PROVE  TypeOK'
  <1> USE DEF At
  <1>0. /\ \A r \in Requests : req[r] # None =>
             /\ req[r].email \in Emails /\ req[r].code \in Codes \cup {None}
             /\ req[r].wallet \in BOOLEAN /\ req[r].raced \in BOOLEAN
        /\ \A r \in Requests : Begin(r) \/ Continue(r) \/ CallFails(r) \/ UseIsRefused(r) \/ Crash(r)
             => req' \in [Requests -> Request \cup {None}]
    BY RequestParts, OneMoves
  <1>1. ASSUME NEW r \in Requests, Begin(r) PROVE TypeOK'
    <2>1. PICK c \in Codes \cup {None} : TakeLock(r, c)
      BY <1>1, Beginning
    <2>2. lock' \in [Codes -> Requests \cup {None}]
      BY <2>1 DEF TakeLock, TypeOK
    <2>3. QED
      BY <1>0, <1>1, <2>2 DEF Begin, TypeOK
  <1>2. ASSUME NEW r \in Requests, CanSignup(r) \/ FindAccount(r) PROVE TypeOK'
    BY <1>0, <1>2 DEF CanSignup, FindAccount, Continue, TypeOK
  <1>3. ASSUME NEW r \in Requests, CreateAccount(r) PROVE TypeOK'
    BY <1>0, <1>3 DEF CreateAccount, Continue, TypeOK, Account
  <1>4. ASSUME NEW r \in Requests, UseCode(r) PROVE TypeOK'
    BY <1>0, <1>4 DEF UseCode, Continue, TypeOK
  <1>5. ASSUME NEW r \in Requests, Release(r) PROVE TypeOK'
    BY <1>0, <1>5 DEF Release, Continue, TypeOK
  <1>6. ASSUME NEW r \in Requests, StoreSession(r) PROVE TypeOK'
    BY <1>0, <1>6 DEF StoreSession, Continue, TypeOK
  <1>7. ASSUME NEW r \in Requests, CreateWallet(r) \/ CreateWalletAccounts(r) PROVE TypeOK'
    BY <1>0, <1>7 DEF CreateWallet, CreateWalletAccounts, Continue, TypeOK
  <1>8. ASSUME NEW r \in Requests, SendMail(r) PROVE TypeOK'
    BY <1>0, <1>8 DEF SendMail, Continue, TypeOK
  <1>9. ASSUME Fault PROVE faults' \in 0..MaxFaults
    BY <1>9, BoundsAssumption DEF Fault, TypeOK
  <1>10. ASSUME NEW r \in Requests, CallFails(r) PROVE TypeOK'
    <2>1. usedBy' \in [Codes -> Emails \cup {None}]
      BY <1>0, <1>10 DEF CallFails, TypeOK
    <2>2. QED
      BY <1>0, <1>9, <1>10, <2>1 DEF CallFails, TypeOK
  <1>11. ASSUME NEW r \in Requests, UseIsRefused(r) \/ Crash(r) PROVE TypeOK'
    BY <1>0, <1>9, <1>11 DEF UseIsRefused, Crash, TypeOK
  <1>12. ASSUME NEW c \in Codes, LockExpires(c) PROVE TypeOK'
    BY <1>12 DEF LockExpires, TypeOK
  <1>13. ASSUME NEW c \in Codes, LockLost(c) PROVE TypeOK'
    BY <1>9, <1>13 DEF LockLost, TypeOK
  <1>14. CASE UNCHANGED vars
    BY <1>14 DEF vars, TypeOK
  <1>15. QED
    BY <1>1, <1>2, <1>3, <1>4, <1>5, <1>6, <1>7, <1>8, <1>10, <1>11, <1>12, <1>13, <1>14
    DEF Next, Continue

-----------------------------------------------------------------------------
(* Where requests are. *)

(* Accounts and sessions stay; a wallet is worked on by the request that creates
   it. *)
LEMMA Grows ==
  ASSUME TypeOK, [Next]_vars
  PROVE  /\ accounts \subseteq accounts' /\ sessions \subseteq sessions'
         /\ \/ UNCHANGED wallets
            \/ \E r \in Requests :
                 /\ Created(r)
                 /\ \/ CreateWallet(r)
                    \/ CreateWalletAccounts(r)
                 /\ \A e \in Emails : e # req[r].email => wallets'[e] = wallets[e]
  <1>1. ASSUME NEW r \in Requests, CreateWallet(r) \/ CreateWalletAccounts(r)
        PROVE  /\ UNCHANGED <<accounts, sessions>> /\ Created(r)
               /\ \A e \in Emails : e # req[r].email => wallets'[e] = wallets[e]
    BY <1>1 DEF CreateWallet, CreateWalletAccounts, Created, At, TypeOK
  <1>2. CASE \E r \in Requests : \/ Begin(r) \/ CanSignup(r) \/ FindAccount(r) \/ UseCode(r) \/ Release(r)
                                 \/ SendMail(r) \/ CallFails(r) \/ UseIsRefused(r) \/ Crash(r)
    BY <1>2 DEF Begin, CanSignup, FindAccount, UseCode, Release, SendMail, CallFails, UseIsRefused, Crash
  <1>3. CASE \E r \in Requests : CreateAccount(r) \/ StoreSession(r)
    BY <1>3 DEF CreateAccount, StoreSession
  <1>4. CASE \E c \in Codes : LockExpires(c) \/ LockLost(c)
    BY <1>4 DEF LockExpires, LockLost
  <1>5. QED
    BY <1>1, <1>2, <1>3, <1>4 DEF Next, Continue, vars

(* A request that waits is not disturbed by what the others add. *)
LEMMA PlaceKept ==
  ASSUME NEW q \in Requests, req[q] # None, Placed(q), Waits(q),
         accounts \subseteq accounts', sessions \subseteq sessions',
         Created(q) => wallets'[req[q].email] = wallets[req[q].email]
  PROVE  req'[q] # None /\ Placed(q)'
  BY DEF Placed, Waits, Created, HasAccount

(* A request that moves comes to a place where it has done what that place says. *)
LEMMA PlaceMoved ==
  ASSUME TypeOK, PlaceInv, [Next]_vars, NEW r \in Requests, req'[r] # None,
         Begin(r) \/ Continue(r) \/ CallFails(r) \/ UseIsRefused(r) \/ Crash(r)
  PROVE  Placed(r)'
  <1> USE DEF At
  <1>0. /\ accounts \subseteq accounts' /\ sessions \subseteq sessions'
        /\ req[r] # None => Placed(r)
    BY Grows DEF PlaceInv
  <1>1. ASSUME Throw(r), req[r] # None PROVE Placed(r)'
    <2>1. req'[r].at = "release" /\ req'[r].failed /\ req'[r].code # None
      BY <1>1, Throwing DEF UnderLock
    <2>2. QED
      BY <2>1 DEF Placed, Created
  <1>2. CASE Begin(r)
    BY <1>2, Beginning DEF Placed, Created
  <1>3. CASE CanSignup(r)
    <2>1. CASE Throw(r)
      BY <1>1, <1>3, <2>1 DEF CanSignup
    <2>2. CASE ~Throw(r)
      BY <1>3, <2>2, Asking DEF Placed, Created
    <2>3. QED
      BY <2>1, <2>2
  <1>4. CASE FindAccount(r)
    <2>1. CASE Goto(r, "create")
      BY <1>0, <1>4, <2>1, Moving DEF FindAccount, Placed, Created, Places
    <2>2. QED
      BY <1>1, <1>4, <2>1 DEF FindAccount
  <1>5. CASE CreateAccount(r)
    <2>1. CASE /\ Goto(r, AfterCreate(r))
               /\ accounts' = accounts \cup {[email |-> req[r].email, code |-> req[r].code, raced |-> req[r].raced]}
      <3>1. /\ req[r] # None /\ req[r].at = "create" /\ Placed(r) /\ AfterCreate(r) \in Places
            /\ req[r].using \in BOOLEAN
        BY <1>0, <1>5, RequestParts DEF CreateAccount, AfterCreate, Places
      <3>2. /\ req'[r].at = AfterCreate(r) /\ req'[r].using = req[r].using
            /\ req'[r].email = req[r].email /\ req'[r].code = req[r].code
        BY <2>1, <3>1, Moving
      <3>3. HasAccount(req[r].email)'
        <4> DEFINE new == [email |-> req[r].email, code |-> req[r].code, raced |-> req[r].raced]
        <4>1. new \in accounts' /\ new.email = req[r].email
          BY <2>1
        <4>2. QED
          BY <3>2, <4>1 DEF HasAccount
      <3>4. QED
        BY <3>1, <3>2, <3>3 DEF Placed, AfterCreate, HasAccount
    <2>2. QED
      BY <1>1, <1>5, <2>1 DEF CreateAccount
  <1>6. CASE UseCode(r)
    BY <1>0, <1>6, Moving DEF UseCode, Placed, Created, Places, HasAccount
  <1>7. CASE Release(r)
    <2>1. Goto(r, "session") /\ ~req[r].failed /\ req[r] # None /\ UNCHANGED accounts
      BY <1>7 DEF Release, TypeOK
    <2>2. QED
      BY <1>0, <1>7, <2>1, Moving DEF Release, Placed, Created, Places, HasAccount
  <1>8. CASE StoreSession(r)
    <2>1. /\ req[r] # None /\ req[r].at = "session" /\ UNCHANGED accounts /\ sessions' = sessions \cup {req[r].email}
          /\ req'[r].at = (IF req[r].wallet THEN "wallet" ELSE "mail")
          /\ req'[r].email = req[r].email /\ req'[r].wallet = req[r].wallet
      BY <1>8, Moving DEF StoreSession, Places
    <2>2. QED
      BY <1>0, <2>1 DEF Placed, Created, HasAccount
  <1>9. CASE CreateWallet(r)
    BY <1>0, <1>9, Moving DEF CreateWallet, Placed, Created, Places, HasAccount
  <1>10. CASE CreateWalletAccounts(r)
    BY <1>0, <1>10, RequestParts, Moving DEF CreateWalletAccounts, Placed, Created, Places, HasAccount, TypeOK
  <1>11. CASE SendMail(r) \/ Crash(r)
    BY <1>11 DEF SendMail, Crash, TypeOK
  <1>12. CASE CallFails(r)
    BY <1>1, <1>12 DEF CallFails
  <1>13. CASE UseIsRefused(r)
    BY <1>0, <1>13, Moving DEF UseIsRefused, Placed, Created, Places, HasAccount
  <1>14. QED
    BY <1>2, <1>3, <1>4, <1>5, <1>6, <1>7, <1>8, <1>9, <1>10, <1>11, <1>12, <1>13 DEF Continue

(* One request moves, or none. *)
LEMMA Movers ==
  ASSUME TypeOK, [Next]_vars
  PROVE  \/ UNCHANGED req
         \/ \E r \in Requests :
              /\ Begin(r) \/ Continue(r) \/ CallFails(r) \/ UseIsRefused(r) \/ Crash(r)
              /\ \A q \in Requests \ {r} : Waits(q)
  <1>1. CASE \E c \in Codes : LockExpires(c) \/ LockLost(c)
    BY <1>1 DEF LockExpires, LockLost
  <1>2. QED
    BY <1>1, OneMoves DEF Next, vars

(* Every step keeps what the place of a request says of its account. *)
LEMMA PlaceStep ==
  ASSUME TypeOK, PlaceInv, OnceInv, [Next]_vars
  PROVE  PlaceInv'
  <1>1. ASSUME NEW q \in Requests, req'[q] # None, Waits(q),
               ~(CreateWallet(q) \/ CreateWalletAccounts(q))
        PROVE  Placed(q)'
    <2>1. req[q] # None /\ Placed(q) /\ req[q].email \in Emails
      BY <1>1, RequestParts DEF Waits, PlaceInv
    <2>2. Created(q) => wallets'[req[q].email] = wallets[req[q].email]
      BY <1>1, <2>1, Grows DEF OnceInv
    <2>3. QED
      BY <1>1, <2>1, <2>2, Grows, PlaceKept
  <1>2. ASSUME UNCHANGED req, NEW q \in Requests, req'[q] # None PROVE Placed(q)'
    <2>1. Waits(q)
      BY <1>2 DEF Waits
    <2>2. ~(CreateWallet(q) \/ CreateWalletAccounts(q))
      BY <1>2, RequestParts, Moving DEF CreateWallet, CreateWalletAccounts, At, Places
    <2>3. QED
      BY <1>1, <1>2, <2>1, <2>2
  <1>3. ASSUME NEW r \in Requests,
               Begin(r) \/ Continue(r) \/ CallFails(r) \/ UseIsRefused(r) \/ Crash(r),
               \A q \in Requests \ {r} : Waits(q),
               NEW q \in Requests, req'[q] # None
        PROVE  Placed(q)'
    <2>1. CASE q = r
      BY <1>3, <2>1, PlaceMoved
    <2>2. CASE q # r
      <3>1. ~(CreateWallet(q) \/ CreateWalletAccounts(q))
        BY <1>3, <2>2, Moving DEF CreateWallet, CreateWalletAccounts, At, Places, Waits
      <3>2. QED
        BY <1>1, <1>3, <2>2, <3>1
    <2>3. QED
      BY <2>1, <2>2
  <1>4. QED
    BY <1>2, <1>3, Movers DEF PlaceInv

-----------------------------------------------------------------------------
(* An address is signed up once. *)

(* A request comes to have an account only by creating it. *)
LEMMA CreatedMoved ==
  ASSUME TypeOK, NEW r \in Requests, Created(r)',
         Begin(r) \/ Continue(r) \/ CallFails(r) \/ UseIsRefused(r) \/ Crash(r)
  PROVE  /\ req[r] # None /\ req'[r].email = req[r].email
         /\ Created(r) \/ (CreateAccount(r) /\ ~HasAccount(req[r].email))
         /\ ~SendMail(r)
  <1> USE DEF At
  <1>1. ASSUME Throw(r), req[r] # None PROVE FALSE
    BY <1>1, Throwing DEF Created
  <1>2. CASE Begin(r)
    BY <1>2, Beginning DEF Created
  <1>3. CASE CanSignup(r)
    BY <1>1, <1>3, Asking DEF CanSignup, Created
  <1>4. CASE FindAccount(r)
    BY <1>1, <1>4, Moving DEF FindAccount, Created, Places
  <1>5. CASE CreateAccount(r)
    <2>1. Goto(r, AfterCreate(r)) /\ AfterCreate(r) \in Places /\ req[r] # None /\ ~HasAccount(req[r].email)
      BY <1>1, <1>5 DEF CreateAccount, AfterCreate, Places, HasAccount
    <2>2. ~SendMail(r)
      BY <1>5 DEF CreateAccount, SendMail
    <2>3. QED
      BY <1>5, <2>1, <2>2, Moving
  <1>6. CASE UseCode(r) \/ StoreSession(r) \/ CreateWallet(r) \/ CreateWalletAccounts(r) \/ UseIsRefused(r)
    BY <1>6, Moving DEF UseCode, StoreSession, CreateWallet, CreateWalletAccounts, UseIsRefused, SendMail,
         Created, Places
  <1>7. CASE Release(r)
    <2>1. Goto(r, "session") /\ ~req[r].failed /\ req[r] # None
      BY <1>7 DEF Release, Created, TypeOK
    <2>2. QED
      BY <1>7, <2>1, Moving DEF Release, SendMail, Created, Places
  <1>8. CASE SendMail(r) \/ Crash(r)
    BY <1>8 DEF SendMail, Crash, Created, TypeOK
  <1>9. CASE CallFails(r)
    BY <1>1, <1>9 DEF CallFails
  <1>10. QED
    BY <1>2, <1>3, <1>4, <1>5, <1>6, <1>7, <1>8, <1>9 DEF Continue

(* Every step keeps the addresses of the requests that have an account apart. *)
LEMMA OnceStep ==
  ASSUME TypeOK, PlaceInv, OnceInv, AnsweredSignupIsComplete, [Next]_vars
  PROVE  OnceInv'
  <1>0. /\ \A r \in Requests : Created(r) => HasAccount(req[r].email)
        /\ \A x \in answered : HasAccount(x.email)
    BY DEF PlaceInv, Placed, Created, AnsweredSignupIsComplete, HasAccount
  <1>1. ASSUME NEW q \in Requests, Waits(q), Created(q)'
        PROVE  req[q] # None /\ Created(q) /\ req'[q].email = req[q].email
    BY <1>1 DEF Waits, Created
  <1>2. ASSUME NEW r \in Requests, SendMail(r)
        PROVE  /\ Created(r) /\ answered' \subseteq answered \cup {[email |-> req[r].email, wallet |-> req[r].wallet]}
    BY <1>2 DEF SendMail, Created, At
  <1>3. ASSUME ~(\E r \in Requests : SendMail(r)) PROVE UNCHANGED answered
    BY <1>3 DEF Next, Begin, Continue, CanSignup, FindAccount, CreateAccount, UseCode, Release, StoreSession,
         CreateWallet, CreateWalletAccounts, CallFails, UseIsRefused, Crash, LockExpires, LockLost, vars
  <1>4. CASE UNCHANGED req
    <2>1. \A r \in Requests : ~SendMail(r)
      BY <1>4 DEF SendMail, At, TypeOK
    <2>2. QED
      BY <1>3, <1>4, <2>1 DEF OnceInv, Created
  <1>5. ASSUME NEW r \in Requests,
               Begin(r) \/ Continue(r) \/ CallFails(r) \/ UseIsRefused(r) \/ Crash(r),
               \A q \in Requests \ {r} : Waits(q)
        PROVE  OnceInv'
    <2>1. ASSUME NEW q \in Requests \ {r}, Created(q)', Created(r)' PROVE req'[r].email # req'[q].email
      BY <1>0, <1>1, <1>5, <2>1, CreatedMoved DEF OnceInv
    <2>2. ASSUME NEW p \in Requests \ {r}, NEW q \in Requests \ {r}, p # q, Created(p)', Created(q)'
          PROVE  req'[p].email # req'[q].email
      BY <1>1, <1>5, <2>2 DEF OnceInv
    <2>3. ASSUME NEW q \in Requests, Created(q)', NEW x \in answered' PROVE req'[q].email # x.email
      <3>1. /\ req[q] # None /\ req'[q].email = req[q].email /\ ~SendMail(q)
            /\ Created(q) \/ ~HasAccount(req[q].email)
        <4>1. CASE q = r
          BY <1>5, <2>3, <4>1, CreatedMoved
        <4>2. CASE q # r
          BY <1>1, <1>5, <2>3, <4>2 DEF SendMail, TypeOK, Waits
        <4>3. QED
          BY <4>1, <4>2
      <3>2. ASSUME NEW p \in Requests, SendMail(p), x \notin answered PROVE req[q].email # x.email
        BY <1>0, <1>2, <3>1, <3>2 DEF OnceInv
      <3>3. CASE x \in answered
        BY <1>0, <3>1, <3>3 DEF OnceInv
      <3>4. QED
        BY <1>3, <3>1, <3>2, <3>3
    <2>4. QED
      BY <2>1, <2>2, <2>3 DEF OnceInv
  <1>6. QED
    BY <1>4, <1>5, Movers

-----------------------------------------------------------------------------
(* A referral code and its lock, while nothing fails. *)

(* No request comes under a lock but by taking it, and none that releases it
   stays. *)
LEMMA UnderLockMoved ==
  ASSUME TypeOK, NEW r \in Requests, UnderLock(r)', Continue(r)
  PROVE  UnderLock(r) /\ req'[r].code = req[r].code /\ ~Release(r)
  <1> USE DEF At
  <1>1. ASSUME Throw(r), req[r] # None, req[r].at # "release"
        PROVE  UnderLock(r) /\ req'[r].code = req[r].code
    BY <1>1, Throwing DEF UnderLock
  <1>2. CASE CanSignup(r)
    <2>1. req[r] # None /\ req[r].at = "can"
      BY <1>2 DEF CanSignup
    <2>2. UnderLock(r) /\ req'[r].code = req[r].code
      BY <1>1, <1>2, <2>1, Asking DEF UnderLock
    <2>3. QED
      BY <2>1, <2>2 DEF Release
  <1>3. CASE FindAccount(r)
    BY <1>1, <1>3, Moving DEF FindAccount, UnderLock, Places, Release
  <1>4. CASE CreateAccount(r)
    <2>1. req[r] # None /\ req[r].at = "create" /\ AfterCreate(r) \in Places
      BY <1>4 DEF CreateAccount, AfterCreate, Places
    <2>2. UnderLock(r) /\ req'[r].code = req[r].code
      BY <1>1, <1>4, <2>1, Moving DEF CreateAccount, UnderLock
    <2>3. QED
      BY <2>1, <2>2 DEF Release
  <1>5. CASE UseCode(r) \/ StoreSession(r) \/ CreateWallet(r) \/ CreateWalletAccounts(r)
    BY <1>5, Moving DEF UseCode, StoreSession, CreateWallet, CreateWalletAccounts, UnderLock, Places, Release
  <1>6. CASE Release(r)
    BY <1>6, Moving DEF Release, UnderLock, Places, TypeOK
  <1>7. CASE SendMail(r)
    BY <1>7 DEF SendMail, UnderLock, TypeOK
  <1>8. QED
    BY <1>2, <1>3, <1>4, <1>5, <1>6, <1>7 DEF Continue

(* Without a fault, who runs under the lock of a code has that lock. *)
LEMMA LockStep ==
  ASSUME TypeOK, [Next]_vars, faults' = faults,
         \A r \in Requests : UnderLock(r) => lock[req[r].code] = r
  PROVE  \A r \in Requests : UnderLock(r)' => lock'[req'[r].code] = r
  <1> USE NoneAssumption
  <1>0. ~Fault
    BY DEF Fault, TypeOK
  <1>1. ASSUME NEW q \in Requests, Waits(q), UnderLock(q)'
        PROVE  UnderLock(q) /\ req'[q].code = req[q].code /\ req[q].code \in Codes
    BY <1>1, RequestParts DEF Waits, UnderLock
  <1>2. ASSUME NEW r \in Requests, Begin(r)
        PROVE  \A q \in Requests : UnderLock(q)' => lock'[req'[q].code] = q
    <2>1. /\ TakeLock(r, req'[r].code) /\ req'[r].code \in Codes \cup {None}
          /\ \A q \in Requests \ {r} : Waits(q)
      BY <1>2, Beginning
    <2>2. ASSUME UnderLock(r)' PROVE lock'[req'[r].code] = r
      BY <2>1, <2>2 DEF TakeLock, UnderLock, TypeOK
    <2>3. ASSUME NEW q \in Requests \ {r}, UnderLock(q)' PROVE lock'[req'[q].code] = q
      <3>1. UnderLock(q) /\ req'[q].code = req[q].code /\ req[q].code \in Codes /\ lock[req[q].code] = q
        BY <1>1, <2>1, <2>3
      <3>2. QED
        BY <2>1, <3>1 DEF TakeLock, TypeOK
    <2>4. QED
      BY <2>2, <2>3
  <1>3. ASSUME NEW r \in Requests, Continue(r)
        PROVE  \A q \in Requests : UnderLock(q)' => lock'[req'[q].code] = q
    <2>1. ASSUME NEW q \in Requests, UnderLock(q)'
          PROVE  /\ UnderLock(q) /\ req'[q].code = req[q].code /\ req[q].code \in Codes
                 /\ lock[req[q].code] = q /\ ~(q = r /\ Release(r))
      BY <1>1, <1>3, <2>1, OneMoves, UnderLockMoved, RequestParts DEF UnderLock
    <2>2. CASE Release(r)
      BY <2>1, <2>2 DEF Release, TypeOK
    <2>3. CASE ~Release(r)
      <3>1. UNCHANGED lock
        BY <1>3, <2>3 DEF Continue, CanSignup, FindAccount, CreateAccount, UseCode, StoreSession,
             CreateWallet, CreateWalletAccounts, SendMail
      <3>2. QED
        BY <2>1, <3>1
    <2>4. QED
      BY <2>2, <2>3
  <1>4. ASSUME NEW c \in Codes, LockExpires(c)
        PROVE  \A q \in Requests : UnderLock(q)' => lock'[req'[q].code] = q
    <2>1. ASSUME NEW q \in Requests, UnderLock(q) PROVE req[q].code # c /\ req[q].code \in Codes
      BY <1>4, <2>1, RequestParts DEF LockExpires, UnderLock
    <2>2. QED
      BY <1>4, <2>1 DEF LockExpires, UnderLock, TypeOK
  <1>5. CASE UNCHANGED vars
    BY <1>5 DEF vars, UnderLock
  <1>6. QED
    BY <1>0, <1>2, <1>3, <1>4, <1>5 DEF Next, CallFails, UseIsRefused, Crash, LockLost

(* A fault is counted. *)
LEMMA Faulting ==
  ASSUME TypeOK, [Next]_vars, faults' = 0
  PROVE  faults = 0 /\ ~Fault
  <1>1. faults \in Nat /\ MaxFaults \in Nat
    BY BoundsAssumption DEF TypeOK
  <1>2. CASE Fault
    BY <1>1, <1>2 DEF Fault
  <1>3. CASE UNCHANGED faults
    BY <1>1, <1>3 DEF Fault
  <1>4. CASE \E r \in Requests : Begin(r) \/ Continue(r)
    BY <1>3, <1>4 DEF Begin, Continue, CanSignup, FindAccount, CreateAccount, UseCode, Release,
       StoreSession, CreateWallet, CreateWalletAccounts, SendMail
  <1>5. QED
    BY <1>2, <1>3, <1>4 DEF Next, CallFails, UseIsRefused, Crash, LockExpires, LockLost, vars

(* Every step keeps that, without a fault, a code makes an account once. *)
LEMMA CodeStep ==
  ASSUME TypeOK, PlaceInv, CodeInv, [Next]_vars
  PROVE  CodeInv'
  <1> SUFFICES ASSUME faults' = 0 PROVE CodeInv'
    BY DEF CodeInv
  <1> USE NoneAssumption
  <1>0. faults = 0 /\ ~Fault
    BY Faulting DEF TypeOK
  <1>1. /\ \A r \in Requests : UnderLock(r) => lock[req[r].code] = r
        /\ \A r \in Requests, c \in Codes : Using(r, c) => usedBy[c] = None /\ MadeWith(c) = {}
        /\ \A c \in Codes : MadeWith(c) # {} =>
             usedBy[c] # None \/ \E r \in Requests : At(r, "use") /\ req[r].code = c
        /\ \A c \in Codes : \A x, y \in MadeWith(c) : x = y
    BY <1>0 DEF CodeInv
  <1>2. \A r \in Requests : UnderLock(r)' => lock'[req'[r].code] = r
    BY <1>0, <1>1, LockStep
  <1>3. \A r \in Requests : req[r] # None => Placed(r) /\ req[r].code \in Codes \cup {None}
    BY RequestParts DEF PlaceInv
  (* Two requests under the lock of one code are one. *)
  <1>4. \A r, q \in Requests, c \in Codes :
          /\ Using(r, c) \/ (At(r, "use") /\ req[r].code = c) \/ (UnderLock(r) /\ req[r].code = c)
          /\ Using(q, c) \/ (At(q, "use") /\ req[q].code = c) \/ (UnderLock(q) /\ req[q].code = c)
          => r = q
    BY <1>1 DEF Using, At, UnderLock
  <1> DEFINE Good == /\ \A r \in Requests, c \in Codes : Using(r, c)' => usedBy'[c] = None /\ MadeWith(c)' = {}
                     /\ \A c \in Codes : MadeWith(c)' # {} =>
                          usedBy'[c] # None \/ \E r \in Requests : At(r, "use")' /\ req'[r].code = c
                     /\ \A c \in Codes : \A x, y \in MadeWith(c)' : x = y
  (* A step that changes no account and no code. *)
  <1>5. ASSUME UNCHANGED <<accounts, usedBy>>,
               \A r \in Requests, c \in Codes : Using(r, c)' =>
                 Using(r, c) \/ (usedBy[c] = None /\ MadeWith(c) = {}),
               \A r \in Requests : At(r, "use") => At(r, "use")' /\ req'[r].code = req[r].code
        PROVE  Good
    <2>1. \A c \in Codes : MadeWith(c)' = MadeWith(c)
      BY <1>5 DEF MadeWith
    <2>2. QED
      BY <1>1, <1>5, <2>1
  <1>6. ASSUME NEW q \in Requests, Waits(q)
        PROVE  /\ \A c \in Codes : Using(q, c)' => Using(q, c)
               /\ At(q, "use") => At(q, "use")' /\ req'[q].code = req[q].code
    BY <1>6 DEF Waits, Using, At
  <1>7. ASSUME UNCHANGED <<req, accounts, usedBy>> PROVE Good
    BY <1>5, <1>7 DEF Using, At
  <1>8. ASSUME NEW r \in Requests, Begin(r) \/ Continue(r) PROVE Good
    <2>0. \A q \in Requests \ {r} : Waits(q)
      BY <1>8, OneMoves
    <2>1. ASSUME UNCHANGED <<accounts, usedBy>>, ~At(r, "use"),
                 \A c \in Codes : Using(r, c)' => Using(r, c) \/ (usedBy[c] = None /\ MadeWith(c) = {})
          PROVE  Good
      BY <1>5, <1>6, <2>0, <2>1
    <2>2. ASSUME Throw(r), req[r] # None PROVE \A c \in Codes : ~Using(r, c)'
      BY <2>2, Throwing DEF Using
    <2>3. CASE Begin(r)
      BY <2>1, <2>3, Beginning DEF Begin, Using, At
    <2>4. CASE CanSignup(r)
      <3>1. req[r] # None /\ req[r].at = "can" /\ UNCHANGED <<accounts, usedBy>>
        BY <2>4 DEF CanSignup, At
      <3>2. ASSUME NEW c \in Codes, Using(r, c)' PROVE usedBy[c] = None /\ MadeWith(c) = {}
        <4>1. usedBy[c] = None /\ req[r].code = c
          BY <2>2, <2>4, <3>1, <3>2, Asking DEF Using
        <4>2. UnderLock(r)
          BY <3>1, <4>1 DEF UnderLock
        <4>3. \A q \in Requests : ~(At(q, "use") /\ req[q].code = c)
          BY <1>4, <3>1, <4>1, <4>2 DEF At
        <4>4. QED
          BY <1>1, <4>1, <4>3
      <3>3. QED
        BY <2>1, <3>1, <3>2 DEF At
    <2>5. CASE FindAccount(r)
      <3>1. req[r] # None /\ req[r].at = "find" /\ UNCHANGED <<accounts, usedBy>>
        BY <2>5 DEF FindAccount, At
      <3>2. CASE Goto(r, "create")
        BY <2>1, <3>1, <3>2, Moving DEF Using, Places, At
      <3>3. QED
        BY <2>1, <2>2, <2>5, <3>1, <3>2 DEF FindAccount, At
    <2>6. CASE CreateAccount(r)
      <3> DEFINE new == [email |-> req[r].email, code |-> req[r].code, raced |-> req[r].raced]
      <3>1. req[r] # None /\ req[r].at = "create" /\ UNCHANGED usedBy
        BY <2>6 DEF CreateAccount, At
      <3>2. CASE Throw(r) /\ UNCHANGED accounts
        BY <2>1, <2>2, <3>1, <3>2 DEF At
      <3>3. CASE Goto(r, AfterCreate(r)) /\ accounts' = accounts \cup {new}
        <4>1. /\ AfterCreate(r) \in Places /\ AfterCreate(r) \notin {"find", "create"}
              /\ req'[r].at = AfterCreate(r) /\ req'[r] # None /\ req'[r].code = req[r].code
          BY <3>1, <3>3, Moving DEF AfterCreate, Places
        <4>2. new.email = req[r].email /\ new.code = req[r].code
          OBVIOUS
        <4> HIDE DEF new
        <4>3. \A c \in Codes : MadeWith(c)' \subseteq MadeWith(c) \cup {new} /\ MadeWith(c) \subseteq MadeWith(c)'
          BY <3>3 DEF MadeWith
        <4>4. ASSUME NEW c \in Codes, MadeWith(c)' # MadeWith(c)
              PROVE  /\ Using(r, c) /\ At(r, "use")' /\ req'[r].code = c
                     /\ MadeWith(c) = {} /\ MadeWith(c)' = {new}
          <5>1. req[r].code = c /\ Mailbox[req[r].email] \notin Subscribed
            BY <3>3, <4>2, <4>4 DEF MadeWith
          <5>2. req[r].using /\ AfterCreate(r) = "use"
            BY <1>3, <3>1, <5>1 DEF Placed, AfterCreate
          <5>3. Using(r, c)
            BY <3>1, <5>1, <5>2 DEF Using
          <5>4. MadeWith(c) = {}
            BY <1>1, <5>3
          <5>5. QED
            BY <4>1, <4>3, <4>4, <5>1, <5>2, <5>3, <5>4 DEF At
        <4>5. ASSUME NEW q \in Requests, NEW c \in Codes, Using(q, c)'
              PROVE  usedBy'[c] = None /\ MadeWith(c)' = {}
          <5>1. q # r /\ Using(q, c)
            BY <1>6, <2>0, <4>1, <4>5 DEF Using
          <5>2. QED
            BY <1>1, <1>4, <3>1, <4>4, <5>1
        <4>6. ASSUME NEW c \in Codes, MadeWith(c)' # {}
              PROVE  usedBy'[c] # None \/ \E q \in Requests : At(q, "use")' /\ req'[q].code = c
          <5>1. CASE MadeWith(c)' # MadeWith(c)
            BY <4>4, <5>1
          <5>2. CASE MadeWith(c)' = MadeWith(c)
            BY <1>1, <1>6, <2>0, <3>1, <4>6, <5>2 DEF At
          <5>3. QED
            BY <5>1, <5>2
        <4>7. \A c \in Codes : \A x, y \in MadeWith(c)' : x = y
          BY <1>1, <4>4
        <4>8. QED
          BY <4>5, <4>6, <4>7
      <3>4. QED
        BY <2>6, <3>2, <3>3 DEF CreateAccount
    <2>7. CASE UseCode(r)
      <3>1. /\ req[r] # None /\ req[r].at = "use" /\ req[r].code \in Codes /\ req[r].email \in Emails
            /\ UNCHANGED accounts /\ ~Using(r, req[r].code)' /\ \A c \in Codes : ~Using(r, c)'
        BY <1>3, <2>7, Moving, RequestParts DEF UseCode, At, Placed, Using, Places
      <3>2. /\ usedBy'[req[r].code] # None
            /\ \A c \in Codes : c # req[r].code => usedBy'[c] = usedBy[c]
        BY <2>7, <3>1 DEF UseCode, TypeOK
      <3>3. \A c \in Codes : MadeWith(c)' = MadeWith(c)
        BY <3>1 DEF MadeWith
      <3>4. \A q \in Requests, c \in Codes : Using(q, c)' => usedBy'[c] = None /\ MadeWith(c)' = {}
        <4>1. ASSUME NEW q \in Requests, NEW c \in Codes, Using(q, c)' PROVE q # r /\ Using(q, c) /\ c # req[r].code
          BY <1>4, <1>6, <2>0, <3>1, <4>1 DEF At
        <4>2. QED
          BY <1>1, <3>2, <3>3, <4>1
      <3>5. \A c \in Codes : MadeWith(c)' # {} =>
              usedBy'[c] # None \/ \E q \in Requests : At(q, "use")' /\ req'[q].code = c
        BY <1>1, <1>6, <2>0, <3>2, <3>3
      <3>6. QED
        BY <1>1, <3>3, <3>4, <3>5
    <2>8. CASE Release(r)
      <3>1. req[r] # None /\ req[r].at = "release" /\ UNCHANGED <<accounts, usedBy>>
        BY <2>8 DEF Release, At
      <3>2. \A c \in Codes : ~Using(r, c)'
        BY <2>8, <3>1, Moving DEF Release, Using, Places, TypeOK
      <3>3. QED
        BY <2>1, <3>1, <3>2 DEF At
    <2>9. CASE StoreSession(r) \/ CreateWallet(r) \/ CreateWalletAccounts(r)
      BY <2>1, <2>9, Moving DEF StoreSession, CreateWallet, CreateWalletAccounts, Using, Places, At
    <2>10. CASE SendMail(r)
      BY <2>1, <2>10 DEF SendMail, Using, At, TypeOK
    <2>11. QED
      BY <1>8, <2>3, <2>4, <2>5, <2>6, <2>7, <2>8, <2>9, <2>10 DEF Continue
  <1>9. Good
    BY <1>0, <1>7, <1>8 DEF Next, CallFails, UseIsRefused, Crash, LockLost, LockExpires, vars
  <1>10. QED
    BY <1>2, <1>9 DEF CodeInv

-----------------------------------------------------------------------------
(* Signups of one mailbox. *)

(* A request that goes on keeps its address and what it met, and comes to create
   an account only from the lookup. *)
LEMMA RivalMoved ==
  ASSUME TypeOK, NEW r \in Requests, req'[r] # None,
         Continue(r) \/ CallFails(r) \/ UseIsRefused(r) \/ Crash(r)
  PROVE  /\ req[r] # None /\ req'[r].email = req[r].email /\ req'[r].raced = req[r].raced
         /\ At(r, "create")' => /\ UNCHANGED accounts
                                /\ ~\E x \in accounts : SameMailbox(x.email, req[r].email)
  <1> USE DEF At
  <1>1. ASSUME Throw(r), req[r] # None
        PROVE  /\ req'[r].email = req[r].email /\ req'[r].raced = req[r].raced /\ ~At(r, "create")'
    BY <1>1, Throwing
  <1>2. CASE CanSignup(r)
    BY <1>1, <1>2, Asking DEF CanSignup
  <1>3. CASE FindAccount(r)
    BY <1>1, <1>3, Moving DEF FindAccount, Places
  <1>4. CASE CreateAccount(r)
    <2>1. AfterCreate(r) \in Places /\ AfterCreate(r) # "create"
      BY DEF AfterCreate, Places
    <2>2. QED
      BY <1>1, <1>4, <2>1, Moving DEF CreateAccount
  <1>5. CASE UseCode(r) \/ StoreSession(r) \/ CreateWallet(r) \/ CreateWalletAccounts(r) \/ UseIsRefused(r)
    BY <1>5, Moving DEF UseCode, StoreSession, CreateWallet, CreateWalletAccounts, UseIsRefused, Places
  <1>6. CASE Release(r)
    BY <1>6, Moving DEF Release, Places, TypeOK
  <1>7. CASE SendMail(r) \/ Crash(r)
    BY <1>7 DEF SendMail, Crash, TypeOK
  <1>8. CASE CallFails(r)
    BY <1>1, <1>8 DEF CallFails
  <1>9. QED
    BY <1>2, <1>3, <1>4, <1>5, <1>6, <1>7, <1>8 DEF Continue

(* Who adds an account. *)
LEMMA AccountStep ==
  ASSUME [Next]_vars
  PROVE  \/ UNCHANGED accounts
         \/ \E r \in Requests :
              /\ CreateAccount(r) /\ At(r, "create")
              /\ accounts' = accounts \cup {[email |-> req[r].email, code |-> req[r].code, raced |-> req[r].raced]}
  BY DEF Next, Begin, Continue, CanSignup, FindAccount, CreateAccount, UseCode, Release, StoreSession,
     CreateWallet, CreateWalletAccounts, SendMail, CallFails, UseIsRefused, Crash, LockExpires, LockLost, vars

(* Every step keeps the record of who has met a rival for the mailbox. *)
LEMMA RivalStep ==
  ASSUME TypeOK, RivalInv, [Next]_vars
  PROVE  RivalInv'
  <1>1. ASSUME NEW q \in Requests, Waits(q), req'[q] # None
        PROVE  /\ req[q] # None /\ req'[q].email = req[q].email /\ (req[q].raced => req'[q].raced)
               /\ At(q, "create")' => At(q, "create")
    BY <1>1 DEF Waits, At
  <1>2. ASSUME NEW q \in Requests, Waits(q), At(q, "create")', ~req'[q].raced, NEW x \in accounts'
        PROVE  ~SameMailbox(x.email, req'[q].email)
    <2>1. At(q, "create") /\ ~req[q].raced /\ req'[q].email = req[q].email
      BY <1>1, <1>2 DEF At
    <2>2. CASE x \in accounts
      BY <2>1, <2>2 DEF RivalInv
    <2>3. ASSUME NEW r \in Requests, CreateAccount(r), At(r, "create"), x.email = req[r].email, r # q
          PROVE  ~SameMailbox(x.email, req'[q].email)
      BY <2>1, <2>3 DEF RivalInv, SameMailbox, At
    <2>4. ~CreateAccount(q)
      BY <1>2, Moving, Throwing DEF CreateAccount, At, AfterCreate, Places, Waits
    <2>5. QED
      BY <2>2, <2>3, <2>4, AccountStep
  <1>3. CASE UNCHANGED req
    <2>1. \A q \in Requests : Waits(q)
      BY <1>3 DEF Waits
    <2>2. QED
      BY <1>1, <1>2, <1>3, <2>1 DEF RivalInv, At
  <1>4. ASSUME NEW r \in Requests, \A q \in Requests \ {r} : Waits(q),
               Begin(r) \/ Continue(r) \/ CallFails(r) \/ UseIsRefused(r) \/ Crash(r)
        PROVE  RivalInv'
    <2>1. ASSUME NEW p \in Requests, NEW q \in Requests, p # q, req'[p] # None, req'[q] # None,
                 SameMailbox(req'[p].email, req'[q].email)
          PROVE  req'[p].raced
      <3>1. CASE Begin(r)
        <4>1. CASE p # r /\ q # r
          BY <1>1, <1>4, <2>1, <4>1 DEF RivalInv
        <4>2. CASE p = r
          BY <1>1, <1>4, <2>1, <3>1, <4>2, Beginning DEF SameMailbox
        <4>3. CASE q = r
          BY <1>1, <1>4, <2>1, <3>1, <4>3, Beginning
        <4>4. QED
          BY <4>1, <4>2, <4>3
      <3>2. CASE ~Begin(r)
        BY <1>1, <1>4, <2>1, <3>2, RivalMoved DEF RivalInv
      <3>3. QED
        BY <3>1, <3>2
    <2>2. ASSUME NEW q \in Requests, At(q, "create")', ~req'[q].raced, NEW x \in accounts'
          PROVE  ~SameMailbox(x.email, req'[q].email)
      <3>1. CASE q # r
        BY <1>2, <1>4, <2>2, <3>1
      <3>2. CASE q = r /\ ~Begin(r)
        BY <1>4, <2>2, <3>2, RivalMoved DEF At, SameMailbox
      <3>3. CASE q = r /\ Begin(r)
        BY <2>2, <3>3, Beginning DEF At
      <3>4. QED
        BY <3>1, <3>2, <3>3
    <2>3. QED
      BY <2>1, <2>2 DEF RivalInv
  <1>5. QED
    BY <1>3, <1>4, Movers

(* Only an account whose request met a rival can be the second of its mailbox. *)
LEMMA MailboxStep ==
  ASSUME RivalInv, OneAccountPerMailbox, [Next]_vars
  PROVE  OneAccountPerMailbox'
  <1>1. CASE UNCHANGED accounts
    BY <1>1 DEF OneAccountPerMailbox
  <1>2. ASSUME NEW r \in Requests, At(r, "create"),
               accounts' = accounts \cup {[email |-> req[r].email, code |-> req[r].code, raced |-> req[r].raced]}
        PROVE  OneAccountPerMailbox'
    <2> DEFINE new == [email |-> req[r].email, code |-> req[r].code, raced |-> req[r].raced]
    <2>1. /\ accounts' = accounts \cup {new} /\ new.email = req[r].email /\ new.raced = req[r].raced
      BY <1>2
    <2>2. \A x \in accounts : SameMailbox(x.email, new.email) \/ SameMailbox(new.email, x.email) => new.raced
      BY <1>2, <2>1 DEF RivalInv, SameMailbox
    <2> HIDE DEF new
    <2>3. QED
      BY <2>1, <2>2 DEF OneAccountPerMailbox
  <1>3. QED
    BY <1>1, <1>2, AccountStep

-----------------------------------------------------------------------------
(* Used codes and answered signups. *)

LEMMA UsedStep ==
  ASSUME TypeOK, PlaceInv, UsedCodeHasAccount, [Next]_vars
  PROVE  UsedCodeHasAccount'
  <1>1. accounts \subseteq accounts'
    BY Grows
  <1>2. ASSUME NEW c \in Codes, usedBy'[c] # None, usedBy'[c] # usedBy[c]
        PROVE  HasAccount(usedBy'[c])
    <2>1. PICK r \in Requests : UseCode(r) \/ (CallFails(r) /\ At(r, "use"))
      BY <1>2 DEF Next, Begin, Continue, CanSignup, FindAccount, CreateAccount, Release, StoreSession,
         CreateWallet, CreateWalletAccounts, SendMail, CallFails, UseIsRefused, Crash, LockExpires, LockLost, vars
    <2>2. At(r, "use") /\ HasAccount(req[r].email)
      BY <2>1 DEF UseCode, At, PlaceInv, Placed, Created
    <2>3. usedBy'[c] = req[r].email
      BY <1>2, <2>1 DEF UseCode, CallFails, TypeOK
    <2>4. QED
      BY <2>2, <2>3
  <1>3. QED
    BY <1>1, <1>2 DEF UsedCodeHasAccount, HasAccount

(* Every step keeps the answered signups complete. *)
LEMMA AnsweredStep ==
  ASSUME TypeOK, PlaceInv, OnceInv, AnsweredSignupIsComplete, [Next]_vars
  PROVE  AnsweredSignupIsComplete'
  <1>1. ASSUME NEW x \in answered
        PROVE  /\ HasAccount(x.email) /\ x.email \in sessions
               /\ x.wallet => wallets'[x.email] = "ready"
    <2>1. HasAccount(x.email) /\ x.email \in sessions /\ x.email \in Emails
      BY DEF AnsweredSignupIsComplete, HasAccount, TypeOK
    <2>2. QED
      BY <2>1, Grows DEF AnsweredSignupIsComplete, OnceInv
  <1>2. ASSUME NEW r \in Requests, SendMail(r)
        PROVE  /\ HasAccount(req[r].email) /\ req[r].email \in sessions
               /\ req[r].wallet => wallets'[req[r].email] = "ready"
    BY <1>2 DEF SendMail, At, PlaceInv, Placed, Created
  <1>3. \A x \in answered' :
          x \in answered \/ \E r \in Requests : SendMail(r) /\ x = [email |-> req[r].email, wallet |-> req[r].wallet]
    BY DEF Next, Begin, Continue, CanSignup, FindAccount, CreateAccount, UseCode, Release, StoreSession,
       CreateWallet, CreateWalletAccounts, SendMail, CallFails, UseIsRefused, Crash, LockExpires, LockLost, vars
  <1>4. ASSUME NEW x \in answered'
        PROVE  HasAccount(x.email) /\ x.email \in sessions /\ (x.wallet => wallets'[x.email] = "ready")
    BY <1>1, <1>2, <1>3
  <1>5. QED
    BY <1>4, Grows DEF AnsweredSignupIsComplete, HasAccount

-----------------------------------------------------------------------------
(* The invariant, and what follows from it. *)

(* The initial state satisfies the invariant. *)
THEOREM InvInit == Init => IInv
  BY BoundsAssumption
  DEF Init, IInv, TypeOK, PlaceInv, OnceInv, CodeInv, RivalInv, UsedCodeHasAccount, OneAccountPerMailbox,
      AnsweredSignupIsComplete, Created, UnderLock, Using, At, MadeWith

(* Every step keeps it. *)
THEOREM InvStep == IInv /\ [Next]_vars => IInv'
  BY TypeStep, PlaceStep, OnceStep, CodeStep, RivalStep, UsedStep, MailboxStep, AnsweredStep DEF IInv

(* It holds of every state the program can be in. *)
THEOREM InvHolds == Spec => []IInv
  BY InvInit, InvStep, PTL DEF Spec

(* The types of the rows, the locks and the requests. *)
THEOREM TypeCorrect == Spec => []TypeOK
  <1>1. IInv => TypeOK
    BY DEF IInv
  <1>2. QED
    BY <1>1, InvHolds, PTL

(* However many clients sign up with a referral code at once, and whatever call
   fails: no code is used up without an account, no success is answered for half
   a signup, and without a fault a code makes one account. *)
THEOREM SignupAlwaysWhole == Spec => []SignupIsWhole
  <1>1. IInv => CodeMakesOneAccount
    <2> SUFFICES ASSUME IInv, faults = 0, NEW c \in Codes PROVE Cardinality(MadeWith(c)) <= 1
      BY DEF CodeMakesOneAccount
    <2>1. \A x, y \in MadeWith(c) : x = y
      BY DEF IInv, CodeInv
    <2>2. CASE MadeWith(c) = {}
      BY <2>2, FS_EmptySet
    <2>3. CASE MadeWith(c) # {}
      <3>1. PICK x : MadeWith(c) = {x}
        BY <2>1, <2>3
      <3>2. Cardinality(MadeWith(c)) = 1
        BY <3>1, FS_Singleton, Zenon
      <3>3. QED
        BY <3>2
    <2>4. QED
      BY <2>2, <2>3
  <1>2. IInv => SignupIsWhole
    BY <1>1 DEF IInv, SignupIsWhole
  <1>3. QED
    BY <1>2, InvHolds, PTL

(* Two accounts of one mailbox come only from signups in flight together. *)
THEOREM OneAccountUnlessRaced == Spec => []OneAccountPerMailbox
  <1>1. IInv => OneAccountPerMailbox
    BY DEF IInv
  <1>2. QED
    BY <1>1, InvHolds, PTL
=============================================================================
