----------------------------- MODULE TwoFactor ------------------------------
(* Setting up a one-time password as second factor, and checking its codes.  *)
(*                                                                           *)
(* A setup leaves a pending secret in Redis for ten minutes and shows it to  *)
(* the user; a verification reads it, checks a code made from it, inserts a  *)
(* row of account_2fa and deletes the pending secret without waiting for the *)
(* answer.  A code is modelled by the secret it was made from.               *)
EXTENDS Naturals, Sequences

CONSTANTS
  Accounts, Requests,
  Secrets,   \* bound: secrets ever generated
  MaxRows,   \* bound: rows inserted for an account
  None

VARIABLES
  rows,        \* account_2fa: the secrets of the account's OTP rows, oldest first
  pending,     \* Redis: the pending secret of the account, or None
  deletes,     \* deletions of the pending secret sent and not yet executed
  shown,       \* secrets the user has put in an authenticator
  req,
  proven,      \* observed: secrets a code was checked against
  overlapped   \* observed: two requests of the account were in flight together

vars == <<rows, pending, deletes, shown, req, proven, overlapped>>

Request == [op : {"add", "verify"}, at : {"cached", "save", "insert"}, acct : Accounts,
            secret : Secrets \cup {None}]

TypeOK ==
  /\ rows \in [Accounts -> Seq(Secrets)]
  /\ pending \in [Accounts -> Secrets \cup {None}]
  /\ deletes \in [Accounts -> Nat]
  /\ shown \in [Accounts -> SUBSET Secrets] /\ proven \in [Accounts -> SUBSET Secrets]
  /\ req \in [Requests -> Request \cup {None}]
  /\ overlapped \in [Accounts -> BOOLEAN]

Init ==
  /\ rows = [a \in Accounts |-> <<>>]
  /\ pending = [a \in Accounts |-> None]
  /\ deletes = [a \in Accounts |-> 0]
  /\ shown = [a \in Accounts |-> {}] /\ proven = [a \in Accounts |-> {}]
  /\ req = [r \in Requests |-> None]
  /\ overlapped = [a \in Accounts |-> FALSE]

InFlight(a) == {r \in Requests : req[r] # None /\ req[r].acct = a}
At(r, op, at) == req[r] # None /\ req[r].op = op /\ req[r].at = at

Start(r, op, at, a, secret) ==
  /\ req[r] = None
  /\ req' = [req EXCEPT ![r] = [op |-> op, at |-> at, acct |-> a, secret |-> secret]]
  /\ overlapped' = [overlapped EXCEPT ![a] = @ \/ InFlight(a) # {}]

Finish(r) == req' = [req EXCEPT ![r] = None]

Show(a, s) == shown' = [shown EXCEPT ![a] = @ \cup {s}]

(* Secrets that were never generated: generateOtpSecret is random. *)
Unused == Secrets \ (UNION {shown[a] : a \in Accounts}
                      \cup {req[r].secret : r \in {q \in Requests : req[q] # None}})

-----------------------------------------------------------------------------
(* otp.add, setupOTP *)

(* Mutant of AddLookup: the methods of the account are not looked at. *)
AddAnyway(r) ==
  /\ \E a \in Accounts : Start(r, "add", "cached", a, None)
  /\ UNCHANGED <<rows, pending, deletes, shown, proven>>

(* getMethodsByAccount: an OTP row, enabled or not, ends the setup. *)
AddLookup(r) ==
  /\ \E a \in Accounts : rows[a] = <<>> /\ Start(r, "add", "cached", a, None)
  /\ UNCHANGED <<rows, pending, deletes, shown, proven>>

(* A pending secret is shown again; else a new one is generated. *)
AddCached(r) ==
  /\ At(r, "add", "cached")
  /\ LET a == req[r].acct IN
     \/ pending[a] # None /\ Show(a, pending[a]) /\ Finish(r)
     \/ /\ pending[a] = None
        /\ \E s \in Unused : req' = [req EXCEPT ![r].at = "save", ![r].secret = s]
        /\ UNCHANGED shown
  /\ UNCHANGED <<rows, pending, deletes, proven, overlapped>>

(* redis.set, for ten minutes, and the answer to the user. *)
AddSave(r) ==
  /\ At(r, "add", "save")
  /\ pending' = [pending EXCEPT ![req[r].acct] = req[r].secret]
  /\ Show(req[r].acct, req[r].secret)
  /\ Finish(r)
  /\ UNCHANGED <<rows, deletes, proven, overlapped>>

PendingExpires(a) ==
  /\ pending[a] # None
  /\ pending' = [pending EXCEPT ![a] = None]
  /\ UNCHANGED <<rows, deletes, shown, req, proven, overlapped>>

-----------------------------------------------------------------------------
(* otp.verify *)

(* validOTP with the pending secret: the code is one of that secret. *)
ValidOTP(code, secret) == code = secret

(* The pending secret is read and the code checked: without either the request
   fails and nothing has changed. *)
VerifyLookup(r) ==
  /\ \E a \in Accounts : \E code \in shown[a] :
       /\ pending[a] # None /\ ValidOTP(code, pending[a])
       /\ Start(r, "verify", "insert", a, pending[a])
       /\ proven' = [proven EXCEPT ![a] = @ \cup {code}]
  /\ UNCHANGED <<rows, pending, deletes, shown>>

(* Mutant of VerifyInsert: the row takes the secret pending by then. *)
InsertPendingSecret(r) ==
  LET a == req[r].acct IN
  /\ At(r, "verify", "insert") /\ Len(rows[a]) < MaxRows
  /\ pending[a] # None
  /\ rows' = [rows EXCEPT ![a] = Append(@, pending[a])]
  /\ deletes' = [deletes EXCEPT ![a] = @ + 1]
  /\ Finish(r)
  /\ UNCHANGED <<pending, shown, proven, overlapped>>

(* twoFactorRepo.add: no constraint keeps a second OTP row out.  The deletion is
   sent, and the request answers without waiting for it. *)
VerifyInsert(r) ==
  LET a == req[r].acct IN
  /\ At(r, "verify", "insert") /\ Len(rows[a]) < MaxRows
  /\ rows' = [rows EXCEPT ![a] = Append(@, req[r].secret)]
  /\ deletes' = [deletes EXCEPT ![a] = @ + 1]
  /\ Finish(r)
  /\ UNCHANGED <<pending, shown, proven, overlapped>>

(* The deletion is executed, whatever is pending by then, or is lost. *)
DeletePending(a) ==
  /\ deletes[a] > 0
  /\ deletes' = [deletes EXCEPT ![a] = @ - 1]
  /\ pending' \in {pending, [pending EXCEPT ![a] = None]}
  /\ UNCHANGED <<rows, shown, req, proven, overlapped>>

Next == \/ \E r \in Requests : AddLookup(r) \/ AddCached(r) \/ AddSave(r)
                               \/ VerifyLookup(r) \/ VerifyInsert(r)
        \/ \E a \in Accounts : PendingExpires(a) \/ DeletePending(a)

Spec == Init /\ [][Next]_vars

-----------------------------------------------------------------------------
(* The row a later login is checked against: findFirst without an order. *)
LoginSecrets(a) == {rows[a][i] : i \in DOMAIN rows[a]}

(* Every OTP row holds a secret the user has proven to have, however setups,
   verifications, expiries and late deletions interleave: enabling the factor
   never locks the user out. *)
RowIsProven == \A a \in Accounts : LoginSecrets(a) \subseteq proven[a] \cap shown[a]

(* While the requests of an account do not overlap, all its OTP rows hold one
   secret, so that it does not matter which row a login finds, even if a late or
   lost deletion of the pending secret let a code be verified twice. *)
OneSecret ==
  \A a \in Accounts : ~overlapped[a] => \A s, t \in LoginSecrets(a) : s = t

(* Whichever row a login is checked against, its secret is one the user has
   shown to have, and the only one. *)
LoginSecretWorks == RowIsProven /\ OneSecret
=============================================================================
