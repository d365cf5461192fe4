------------------------------ MODULE Passkeys ------------------------------
(* WebAuthn ceremonies: passkeys that log in (PasskeyLoginService) and       *)
(* passkeys that are a second factor (PasskeyTwoFactorService).              *)
(*                                                                           *)
(* Options carry a challenge that Redis keeps for five minutes under a key   *)
(* made of the domain, the ceremony and the account or login session.  The   *)
(* verification reads it, deletes it, and checks what the browser signed in  *)
(* separate awaited calls; requests of one user interleave.  A client may     *)
(* answer any challenge it was shown with any passkey it has: the passkeys   *)
(* that options name are a hint to the browser, which the server never reads *)
(* again, so options are modelled by their challenge and their key alone.    *)
EXTENDS Naturals, Sequences

CONSTANTS
  Accounts, LoginSessions, Requests, SymmetricKeys,
  Passkeys,        \* credentials the authenticators may create
  Owner,           \* Owner[p]: the account passkey p is created for
  Domain,          \* Domain[p]: "login" or "twofactor"
  MaxChallenges,   \* bound: options ever generated
  MaxCounter,      \* bound: signatures of one authenticator
  None

ASSUME MappingAssumption ==
  /\ Owner \in [Passkeys -> Accounts]
  /\ Domain \in [Passkeys -> {"login", "twofactor"}]
ASSUME BoundsAssumption == MaxChallenges \in Nat /\ MaxCounter \in Nat

VARIABLES
  options,   \* the key of all options generated so far; a challenge is its place here
  saved,     \* Redis: the challenge under each key, or None
  row,       \* account_passkey and account_2fa: the row of each passkey, or None
  device,    \* the authenticators: None before the passkey exists, else its counter
  answers,   \* what the clients have signed; may be sent any number of times
  req,       \* the verifications in flight
  accepted   \* observed: the answers a verification has accepted

vars == <<options, saved, row, device, answers, req, accepted>>

Challenges == 1..MaxChallenges
Counters == 0..MaxCounter

(* getLoginRegistrationKey, getLoginAuthenticationKey (of an account or of a
   login session), getTwoFactorRegistrationKey, getTwoFactorAuthenticationKey *)
Key(domain, ceremony, subject) == [domain |-> domain, ceremony |-> ceremony, subject |-> subject]
Keys == {Key(d, c, s) : d \in {"login", "twofactor"}, c \in {"create", "get"}, s \in Accounts}
        \cup {Key("login", "get", s) : s \in LoginSessions}

Rows == [acct : Accounts, counter : Counters, enc : BOOLEAN, symKey : SymmetricKeys \cup {None}]
Answer == [ceremony : {"create", "get"}, pk : Passkeys, ch : Challenges, counter : Counters]

Request == [at : {"lookup", "get", "delete", "write", "key"},
            key : Keys, answer : Answer, ch : Challenges \cup {None},
            counter : Counters, newKey : SymmetricKeys \cup {None},
            seenKey : SymmetricKeys \cup {None},
            late : BOOLEAN]   \* observed: an answer to the challenge was accepted before

ASSUME NoneAssumption == /\ None \notin Challenges /\ None \notin Counters /\ None \notin SymmetricKeys
                         /\ None \notin Rows /\ None \notin Request

TypeOK ==
  /\ options \in Seq(Keys) /\ Len(options) <= MaxChallenges
  /\ saved \in [Keys -> Challenges \cup {None}]
  /\ row \in [Passkeys -> Rows \cup {None}]
  /\ device \in [Passkeys -> Counters \cup {None}]
  /\ answers \subseteq Answer
  /\ req \in [Requests -> Request \cup {None}]
  /\ accepted \subseteq [key : Keys, answer : Answer, late : BOOLEAN]

Init ==
  /\ options = <<>>
  /\ saved = [k \in Keys |-> None]
  /\ row = [p \in Passkeys |-> None]
  /\ device = [p \in Passkeys |-> None]
  /\ answers = {}
  /\ req = [r \in Requests |-> None]
  /\ accepted = {}

-----------------------------------------------------------------------------
(* Options *)

(* redis.set: new options replace the ones under the same key. *)
SaveOptions(key) ==
  /\ Len(options) < MaxChallenges
  /\ options' = Append(options, key)
  /\ saved' = [saved EXCEPT ![key] = Len(options) + 1]
  /\ UNCHANGED <<row, device, answers, req, accepted>>

LoginRegistrationOptions(a) == SaveOptions(Key("login", "create", a))

LoginAuthenticationOptions(a) == SaveOptions(Key("login", "get", a))

(* login.passkey.init: under a session id of its own. *)
LoginSessionOptions(s) ==
  /\ \A c \in 1..Len(options) : options[c].subject # s
  /\ SaveOptions(Key("login", "get", s))

TwoFactorRegistrationOptions(a) == SaveOptions(Key("twofactor", "create", a))

TwoFactorAuthenticationOptions(a) == SaveOptions(Key("twofactor", "get", a))

(* The five minutes are over. *)
ChallengeExpires(k) ==
  /\ saved[k] # None
  /\ saved' = [saved EXCEPT ![k] = None]
  /\ UNCHANGED <<options, row, device, answers, req, accepted>>

-----------------------------------------------------------------------------
(* The clients: a passkey is created for the account and the domain of the
   options shown, and signs any challenge it is given. *)

CreatePasskey(p, c) ==
  /\ c \in 1..Len(options) /\ device[p] = None
  /\ options[c] = Key(Domain[p], "create", Owner[p])
  /\ device' = [device EXCEPT ![p] = 0]
  /\ answers' = answers \cup {[ceremony |-> "create", pk |-> p, ch |-> c, counter |-> 0]}
  /\ UNCHANGED <<options, saved, row, req, accepted>>

Sign(p, c) ==
  /\ c \in 1..Len(options) /\ options[c].ceremony = "get"
  /\ device[p] # None /\ device[p] < MaxCounter
  /\ device' = [device EXCEPT ![p] = @ + 1]
  /\ answers' = answers \cup {[ceremony |-> "get", pk |-> p, ch |-> c, counter |-> device[p] + 1]}
  /\ UNCHANGED <<options, saved, row, req, accepted>>

-----------------------------------------------------------------------------
(* Verification *)

Used(c) == \E x \in accepted : x.answer.ch = c

Start(r, at, key, answer, newKey, seenKey) ==
  /\ req[r] = None
  /\ req' = [req EXCEPT ![r] =
       [at |-> at, key |-> key, answer |-> answer, ch |-> None, counter |-> 0,
        newKey |-> newKey, seenKey |-> seenKey, late |-> Used(answer.ch)]]
  /\ UNCHANGED <<options, saved, row, device, answers, accepted>>

Finish(r) == req' = [req EXCEPT ![r] = None]

(* passkey.verify and two_factor.passkey.verify of a signed-in account *)
VerifyRegistration(r) ==
  \E answer \in answers, d \in {"login", "twofactor"}, a \in Accounts :
    /\ answer.ceremony = "create"
    /\ Start(r, "get", Key(d, "create", a), answer, None, None)

(* passkey.authenticate: the row is read by the user handle, and with it
   whether a symmetric key is stored. *)
Authenticate(r) ==
  \E answer \in answers, k \in SymmetricKeys \cup {None} :
    LET p == answer.pk IN
    /\ answer.ceremony = "get" /\ Domain[p] = "login" /\ row[p] # None
    /\ Start(r, "lookup", Key("login", "get", row[p].acct), answer, k, row[p].symKey)

(* login.passkey.login: the session id is the client's word for it, and an
   account's id has the key its passkey.init_authenticate saves under. *)
PasskeyLogin(r) ==
  \E answer \in answers, s \in LoginSessions \cup Accounts :
    LET p == answer.pk IN
    /\ answer.ceremony = "get" /\ Domain[p] = "login" /\ row[p] # None
    /\ Start(r, "lookup", Key("login", "get", s), answer, None, None)

(* login.two_factor.passkey.login, for the account of the two-factor session *)
TwoFactorLogin(r) ==
  \E answer \in answers, a \in Accounts :
    /\ answer.ceremony = "get"
    /\ Start(r, "get", Key("twofactor", "get", a), answer, None, None)

(* The row with its counter: before the challenge is read in the login domain,
   after it is deleted in the other.  It is found by the passkey alone, in the
   table of the domain, whosever it is. *)
Lookup(r) ==
  /\ req[r] # None /\ req[r].at = "lookup"
  /\ LET p == req[r].answer.pk
         domain == req[r].key.domain IN
     IF row[p] = None \/ Domain[p] # domain THEN Finish(r)
     ELSE req' = [req EXCEPT ![r].counter = row[p].counter,
                             ![r].at = IF domain = "login" THEN "get" ELSE "write"]
  /\ UNCHANGED <<options, saved, row, device, answers, accepted>>

GetChallenge(r) ==
  /\ req[r] # None /\ req[r].at = "get"
  /\ IF saved[req[r].key] = None
     THEN Finish(r)
     ELSE req' = [req EXCEPT ![r].at = "delete", ![r].ch = saved[req[r].key]]
  /\ UNCHANGED <<options, saved, row, device, answers, accepted>>

AfterDelete(r) ==
  IF req[r].key.ceremony = "get" /\ req[r].key.domain = "twofactor" THEN "lookup" ELSE "write"

(* Mutant of DeleteChallenge: the challenge is left to its TTL. *)
KeepChallenge(r) ==
  /\ req[r] # None /\ req[r].at = "delete"
  /\ req' = [req EXCEPT ![r].at = AfterDelete(r)]
  /\ UNCHANGED <<options, saved, row, device, answers, accepted>>

(* redis.delete: whatever is under the key by now. *)
DeleteChallenge(r) ==
  /\ req[r] # None /\ req[r].at = "delete"
  /\ saved' = [saved EXCEPT ![req[r].key] = None]
  /\ req' = [req EXCEPT ![r].at = AfterDelete(r)]
  /\ UNCHANGED <<options, row, device, answers, accepted>>

(* verifyRegistrationResponse and verifyAuthenticationResponse check that the
   challenge signed is the one expected; a counter in use must have grown. *)
CounterGrew(seen, counter) == (seen = 0 /\ counter = 0) \/ counter > seen

Accept(r) ==
  accepted' = accepted \cup {[key |-> req[r].key, answer |-> req[r].answer, late |-> req[r].late]}

(* The id of the row is made from the credential, so that a second insert of
   one credential fails. *)
CanInsert(r) ==
  LET answer == req[r].answer IN
  answer.ceremony = "create" /\ answer.ch = req[r].ch /\ row[answer.pk] = None

InsertPasskey(r) ==
  LET p == req[r].answer.pk IN
  /\ \E prf \in BOOLEAN :
       row' = [row EXCEPT ![p] = [acct |-> req[r].key.subject, counter |-> req[r].answer.counter,
                                  enc |-> prf /\ Domain[p] = "login", symKey |-> None]]
  /\ Accept(r)
  /\ Finish(r)

(* Mutants of Verified: any counter, or any challenge, will do. *)
VerifiedAnyCounter(r) ==
  LET answer == req[r].answer IN
  answer.ceremony = "get" /\ answer.ch = req[r].ch
VerifiedAnyChallenge(r) ==
  LET answer == req[r].answer IN
  answer.ceremony = "get" /\ CounterGrew(req[r].counter, answer.counter)

Verified(r) ==
  LET answer == req[r].answer IN
  answer.ceremony = "get" /\ answer.ch = req[r].ch /\ CounterGrew(req[r].counter, answer.counter)

(* updatePasskeyCounter; then the answer goes to the client, or to the resolver
   that is to store a symmetric key. *)
UpdateCounter(r) ==
  LET answer == req[r].answer IN
  /\ row' = [row EXCEPT ![answer.pk].counter = answer.counter]
  /\ Accept(r)
  /\ IF req[r].newKey # None THEN req' = [req EXCEPT ![r].at = "key"] ELSE Finish(r)

Check(r) ==
  /\ req[r] # None /\ req[r].at = "write"
  /\ \/ CanInsert(r) /\ InsertPasskey(r)
     \/ Verified(r) /\ UpdateCounter(r)
     \/ ~CanInsert(r) /\ ~Verified(r) /\ Finish(r) /\ UNCHANGED <<row, accepted>>
  /\ UNCHANGED <<options, saved, device, answers>>

(* Mutant of StoreSymmetricKey: a key that is there is replaced. *)
ReplaceSymmetricKey(r) ==
  /\ req[r] # None /\ req[r].at = "key"
  /\ row' = [row EXCEPT ![req[r].answer.pk].symKey = req[r].newKey]
  /\ Finish(r)
  /\ UNCHANGED <<options, saved, device, answers, accepted>>

(* passkey.authenticate with a symmetric key: encryption_available and the key
   are those of the row read when the request began. *)
StoreSymmetricKey(r) ==
  /\ req[r] # None /\ req[r].at = "key"
  /\ LET p == req[r].answer.pk IN
     IF row[p].enc /\ req[r].seenKey = None
     THEN row' = [row EXCEPT ![p].symKey = req[r].newKey]
     ELSE UNCHANGED row
  /\ Finish(r)
  /\ UNCHANGED <<options, saved, device, answers, accepted>>

-----------------------------------------------------------------------------
Generate ==
  \/ \E a \in Accounts : \/ LoginRegistrationOptions(a)
                        \/ TwoFactorRegistrationOptions(a)
                        \/ TwoFactorAuthenticationOptions(a)
                        \/ LoginAuthenticationOptions(a)
  \/ \E s \in LoginSessions : LoginSessionOptions(s)

Browser == \E p \in Passkeys, c \in Challenges : CreatePasskey(p, c) \/ Sign(p, c)

Verify(r) == \/ VerifyRegistration(r) \/ Authenticate(r) \/ PasskeyLogin(r) \/ TwoFactorLogin(r)
             \/ Lookup(r) \/ GetChallenge(r) \/ DeleteChallenge(r) \/ Check(r)
             \/ StoreSymmetricKey(r)

Next == \/ Generate \/ Browser
        \/ \E k \in Keys : ChallengeExpires(k)
        \/ \E r \in Requests : Verify(r)

Spec == Init /\ [][Next]_vars

-----------------------------------------------------------------------------
(* An answer is accepted only under the key its options were generated for, of
   the same domain, ceremony and account or session, and of the domain of its
   passkey: what was signed for one never passes for another.  A registration
   so makes a passkey of the account the options were made for, whoever sends
   it.  An authentication says nothing of whose passkey it is: a session takes
   any of its domain, and so does the second factor of an account. *)
AnswerFitsItsOptions ==
  /\ \A x \in accepted : /\ x.key = options[x.answer.ch]
                        /\ x.key.ceremony = x.answer.ceremony
                        /\ x.key.domain = Domain[x.answer.pk]
  /\ \A p \in Passkeys : row[p] # None => row[p].acct = Owner[p]

(* A request that begins after an answer to its challenge was accepted is
   refused, even with a newer signature: two uses of a challenge must overlap. *)
ChallengeUsedUp == \A x \in accepted : ~x.late

(* What verifications accept: each answer for the options it was made for, and
   no challenge a second time. *)
AcceptedAnswerIsDue == AnswerFitsItsOptions /\ ChallengeUsedUp

(* A counter is stored only by an answer that was checked against a smaller
   one: of two answers that do not overlap the older one cannot win. *)
CounterGrows(p) ==
  row'[p].counter < row[p].counter
    => \E r \in Requests : /\ req[r] # None /\ req[r].at = "write" /\ req[r].answer.pk = p
                          /\ req[r].counter < row'[p].counter

(* The symmetric key of a passkey is stored once; only a request that read the
   row before another one stored it can replace it. *)
SymmetricKeyStoredOnce(p) ==
  row[p].symKey # None /\ row'[p].symKey # row[p].symKey
    => \E r \in Requests : /\ req[r] # None /\ req[r].at = "key" /\ req[r].answer.pk = p
                          /\ req[r].seenKey = None

(* Nothing a passkey's row has learned is undone but by a request that read the
   row before it was learned. *)
RowIsNotSetBack ==
  [][\A p \in Passkeys : row[p] # None => CounterGrows(p) /\ SymmetricKeyStoredOnce(p)]_vars
=============================================================================
