------------------------------ MODULE Sessions ------------------------------
(* Logins, two-factor sessions, refresh, logout and password changes.        *)
(*                                                                           *)
(* An account stores the hash of one refresh token.  A login signs a pair of *)
(* tokens and either stores that hash at once or, when the account has a     *)
(* second factor, leaves the pair in Redis until the factor is proven.  A    *)
(* request is a slot that runs one handler, one awaited call at a time; any  *)
(* other request may run in between, and a request may be cut at any await.  *)
EXTENDS Naturals, Sequences, FiniteSets

CONSTANTS
  Accounts, Requests, Passwords,
  MaxTokens,   \* bound: token pairs ever signed by a login
  MaxCuts      \* bound: requests that fail or die between two awaits

ASSUME BoundsAssumption == MaxTokens \in Nat /\ MaxCuts \in Nat
ASSUME RequestsAssumption == IsFiniteSet(Requests)

VARIABLES
  password,    \* account row: the password whose hash is stored
  stored,      \* account row: the refresh token whose hash is stored, or NoToken
  twoFactor,   \* account_2fa: the account has a second factor
  held,        \* Redis: token pairs of two-factor sessions not yet expired
  tok,         \* the token pairs signed so far; a token is its place here
  delivered,   \* refresh tokens some client has received
  access,      \* accounts for which some client holds an unexpired access token
  req,         \* the requests in flight
  cuts,
  lost         \* observer: token pairs whose login was cut once they were stored

vars == <<password, stored, twoFactor, held, tok, delivered, access, req, cuts, lost>>

NoToken == 0
Nobody == 0   \* the fields a request does not use
Tokens == 1..MaxTokens
Ops == {"none", "login", "redeem", "refresh", "logout", "change"}
Places == {"idle", "verify", "methods", "store", "answer", "factor", "issue", "write"}

(* What a token pair was signed for: its account, whether a second factor was
   enabled when its login began, and the checks passed since.  The text is what
   a token looks like: two pairs may have the same. *)
TokenInfo == [acct : Accounts, guarded : BOOLEAN, proofs : SUBSET {"password", "factor", "passkey"},
              text : Nat]

Request == [op : Ops, at : Places, acct : Accounts \cup {Nobody}, tok : Tokens \cup {NoToken},
            pw : Passwords \cup {Nobody}, new : Passwords \cup {Nobody}, guarded : BOOLEAN,
            seen : Passwords \cup Tokens \cup {NoToken}]

Idle == [op |-> "none", at |-> "idle", acct |-> Nobody, tok |-> NoToken,
         pw |-> Nobody, new |-> Nobody, guarded |-> FALSE, seen |-> NoToken]

(* The parts of the state only some actions touch. *)
credentials == <<password, twoFactor>>
clients == <<delivered, access>>
counters == <<cuts, lost>>

TypeOK ==
  /\ password \in [Accounts -> Passwords]
  /\ stored \in [Accounts -> Tokens \cup {NoToken}]
  /\ twoFactor \in [Accounts -> BOOLEAN]
  /\ tok \in Seq(TokenInfo) /\ Len(tok) <= MaxTokens
  /\ held \subseteq 1..Len(tok) /\ delivered \subseteq 1..Len(tok)
  /\ access \subseteq Accounts
  /\ req \in [Requests -> Request]
  /\ cuts \in 0..MaxCuts
  /\ lost \subseteq 1..Len(tok)

Init ==
  /\ password \in [Accounts -> Passwords]
  /\ stored = [a \in Accounts |-> NoToken]
  /\ twoFactor = [a \in Accounts |-> FALSE]
  /\ held = {} /\ tok = <<>> /\ delivered = {} /\ access = {}
  /\ req = [r \in Requests |-> Idle]
  /\ cuts = 0 /\ lost = {}

Free(r) == req[r].op = "none"
At(r, op, at) == req[r].op = op /\ req[r].at = at
Start(r, request) == req' = [req EXCEPT ![r] = request]
Goto(r, at) == req' = [req EXCEPT ![r].at = at]
Finish(r) == req' = [req EXCEPT ![r] = Idle]

(* The bound on token pairs holds back new logins, never one that has begun. *)
LoginAllowed ==
  Len(tok) + Cardinality({r \in Requests : At(r, "login", "verify")}) < MaxTokens

(* authService.getTokens signs the next pair.  All a token holds is the account,
   at times a passkey, and two times in seconds: a pair signed within a second of
   another one of the account may have its text.  Any two may be that close. *)
GetTokens(a, guarded, proof) ==
  \E text \in {Len(tok) + 1} \cup {tok[t].text : t \in {u \in 1..Len(tok) : tok[u].acct = a}} :
    tok' = Append(tok, [acct |-> a, guarded |-> guarded, proofs |-> {proof}, text |-> text])

SameText(t, u) == tok[t].text = tok[u].text

-----------------------------------------------------------------------------
(* login.initial *)

LoginLookup(r) ==
  /\ Free(r) /\ LoginAllowed
  /\ \E a \in Accounts, p \in Passwords :
       Start(r, [Idle EXCEPT !.op = "login", !.at = "verify", !.acct = a, !.pw = p,
                 !.seen = password[a], !.guarded = twoFactor[a]])
  /\ UNCHANGED <<credentials, stored, held, tok, clients, counters>>

(* argon2Verify against the row read before, then both tokens are signed. *)
LoginVerify(r) ==
  /\ At(r, "login", "verify")
  /\ \/ /\ req[r].pw # req[r].seen
        /\ Finish(r)
        /\ UNCHANGED tok
     \/ /\ req[r].pw = req[r].seen
        /\ GetTokens(req[r].acct, req[r].guarded, "password")
        /\ req' = [req EXCEPT ![r].at = "methods", ![r].tok = Len(tok) + 1]
  /\ UNCHANGED <<credentials, stored, held, clients, counters>>

(* Mutant of LoginMethods: the session is stored whatever the methods are. *)
LoginWithoutFactor(r) ==
  /\ At(r, "login", "methods")
  /\ Goto(r, "store")
  /\ UNCHANGED <<credentials, stored, held, tok, clients, counters>>

(* getMethodsByAccount: with a second factor the pair waits in Redis and the
   client only gets the session's id. *)
LoginMethods(r) ==
  /\ At(r, "login", "methods")
  /\ \/ /\ twoFactor[req[r].acct]
        /\ held' = held \cup {req[r].tok}
        /\ Finish(r)
     \/ /\ ~twoFactor[req[r].acct]
        /\ Goto(r, "store")
        /\ UNCHANGED held
  /\ UNCHANGED <<credentials, stored, tok, clients, counters>>

(* A login with a passkey: the methods of the account are not asked for, so it
   needs neither the password nor a second factor the account may have. *)
PasskeyLogin(r) ==
  /\ Free(r) /\ LoginAllowed
  /\ \E a \in Accounts :
       /\ GetTokens(a, twoFactor[a], "passkey")
       /\ Start(r, [Idle EXCEPT !.op = "login", !.at = "store", !.acct = a, !.tok = Len(tok) + 1])
  /\ UNCHANGED <<credentials, stored, held, clients, counters>>

(* setLoginCookies: the hash of the refresh token replaces the one stored. *)
SetLoginCookies(r) ==
  /\ req[r].at = "store"
  /\ stored' = [stored EXCEPT ![req[r].acct] = req[r].tok]
  /\ Goto(r, "answer")
  /\ UNCHANGED <<credentials, held, tok, clients, counters>>

(* Mutant of AnswerLogin: the client gets a pair signed again, never stored. *)
AnswerResigned(r) ==
  /\ req[r].at = "answer"
  /\ access' = access \cup {req[r].acct}
  /\ Finish(r)
  /\ UNCHANGED <<credentials, stored, held, tok, delivered, counters>>

(* ... and then the cookies and the answer reach the client. *)
AnswerLogin(r) ==
  /\ req[r].at = "answer"
  /\ delivered' = delivered \cup {req[r].tok}
  /\ access' = access \cup {req[r].acct}
  /\ Finish(r)
  /\ UNCHANGED <<credentials, stored, held, tok, counters>>

-----------------------------------------------------------------------------
(* login.two_factor: otp and passkey.login.  The session is not deleted. *)

RedeemLookup(r) ==
  /\ Free(r)
  /\ \E t \in held :
       Start(r, [Idle EXCEPT !.op = "redeem", !.at = "factor", !.acct = tok[t].acct, !.tok = t])
  /\ UNCHANGED <<credentials, stored, held, tok, clients, counters>>

(* validOTP or verifyAuthenticationOptions, true or not. *)
RedeemVerify(r) ==
  /\ At(r, "redeem", "factor")
  /\ \/ Finish(r) /\ UNCHANGED tok
     \/ /\ Goto(r, "store")
        /\ tok' = [tok EXCEPT ![req[r].tok].proofs = @ \cup {"factor"}]
  /\ UNCHANGED <<credentials, stored, held, clients, counters>>

(* The ten minutes of the session in Redis are over. *)
SessionExpires(t) ==
  /\ t \in held
  /\ held' = held \ {t}
  /\ UNCHANGED <<credentials, stored, tok, clients, req, counters>>

-----------------------------------------------------------------------------
(* refreshToken: any refresh token a client has received may be presented. *)

RefreshLookup(r) ==
  /\ Free(r)
  /\ \E t \in delivered :
       LET a == tok[t].acct IN
       /\ stored[a] # NoToken
       /\ Start(r, [Idle EXCEPT !.op = "refresh", !.at = "verify", !.acct = a, !.tok = t,
                    !.seen = stored[a]])
  /\ UNCHANGED <<credentials, stored, held, tok, clients, counters>>

RefreshVerify(r) ==
  /\ At(r, "refresh", "verify")
  /\ IF SameText(req[r].seen, req[r].tok) THEN Goto(r, "issue") ELSE Finish(r)
  /\ UNCHANGED <<credentials, stored, held, tok, clients, counters>>

(* Mutant of RefreshIssue: the refresh writes the hash it read back. *)
RefreshRotates(r) ==
  /\ At(r, "refresh", "issue")
  /\ stored' = [stored EXCEPT ![req[r].acct] = req[r].tok]
  /\ access' = access \cup {req[r].acct}
  /\ Finish(r)
  /\ UNCHANGED <<credentials, held, tok, delivered, counters>>

(* A new access token.  The refresh token signed with it is answered too, but
   its hash is stored nowhere: the login's token stays the valid one. *)
RefreshIssue(r) ==
  /\ At(r, "refresh", "issue")
  /\ access' = access \cup {req[r].acct}
  /\ Finish(r)
  /\ UNCHANGED <<credentials, stored, held, tok, delivered, counters>>

-----------------------------------------------------------------------------
(* Handlers behind the access token guard, which reads no row. *)

Authenticated(a) == a \in access

LogoutLookup(r) ==
  /\ Free(r)
  /\ \E a \in Accounts :
       /\ Authenticated(a)
       /\ Start(r, [Idle EXCEPT !.op = "logout", !.at = "write", !.acct = a])
  /\ UNCHANGED <<credentials, stored, held, tok, clients, counters>>

LogoutWrite(r) ==
  /\ At(r, "logout", "write")
  /\ stored' = [stored EXCEPT ![req[r].acct] = NoToken]
  /\ Finish(r)
  /\ UNCHANGED <<credentials, held, tok, clients, counters>>

(* password(): the row every step of the change works with is read here. *)
ChangeLookup(r) ==
  /\ Free(r)
  /\ \E a \in Accounts, p, q \in Passwords :
       /\ Authenticated(a)
       /\ Start(r, [Idle EXCEPT !.op = "change", !.at = "verify", !.acct = a, !.pw = p, !.new = q,
                    !.seen = password[a]])
  /\ UNCHANGED <<credentials, stored, held, tok, clients, counters>>

ChangeVerify(r) ==
  /\ At(r, "change", "verify")
  /\ IF req[r].pw = req[r].seen THEN Goto(r, "write") ELSE Finish(r)
  /\ UNCHANGED <<credentials, stored, held, tok, clients, counters>>

(* updateCredentials: the stored refresh token is left alone. *)
ChangeWrite(r) ==
  /\ At(r, "change", "write")
  /\ password' = [password EXCEPT ![req[r].acct] = req[r].new]
  /\ Finish(r)
  /\ UNCHANGED <<stored, twoFactor, held, tok, clients, counters>>

-----------------------------------------------------------------------------
(* The second factor is added by TwoFactor or Passkeys; nothing removes it. *)
EnableFactor(a) ==
  /\ ~twoFactor[a]
  /\ twoFactor' = [twoFactor EXCEPT ![a] = TRUE]
  /\ UNCHANGED <<password, stored, held, tok, clients, req, counters>>

(* Every access token of the account is ten minutes old. *)
AccessExpires(a) ==
  /\ a \in access
  /\ access' = access \ {a}
  /\ UNCHANGED <<credentials, stored, held, tok, delivered, req, counters>>

(* A database or Redis call fails, or the process stops, between two awaits. *)
Cut(r) ==
  /\ ~Free(r) /\ cuts < MaxCuts
  /\ Finish(r)
  /\ cuts' = cuts + 1
  /\ lost' = IF req[r].at = "answer" THEN lost \cup {req[r].tok} ELSE lost
  /\ UNCHANGED <<credentials, stored, held, tok, clients>>

Begin(r) == LoginLookup(r) \/ PasskeyLogin(r) \/ RedeemLookup(r) \/ RefreshLookup(r)
            \/ LogoutLookup(r) \/ ChangeLookup(r)

Continue(r) == LoginVerify(r) \/ LoginMethods(r) \/ SetLoginCookies(r) \/ AnswerLogin(r)
               \/ RedeemVerify(r) \/ RefreshVerify(r) \/ RefreshIssue(r)
               \/ LogoutWrite(r) \/ ChangeVerify(r) \/ ChangeWrite(r)

Next == \/ \E r \in Requests : Begin(r) \/ Continue(r) \/ Cut(r)
        \/ \E t \in Tokens : SessionExpires(t)
        \/ \E a \in Accounts : EnableFactor(a) \/ AccessExpires(a)

Spec == Init /\ [][Next]_vars

-----------------------------------------------------------------------------
(* A refresh token that is stored or in a client's hands was signed after a
   passkey login, which asks for nothing else, or after a password; and where
   the account had a second factor when that password login began, the factor
   was proven too, whatever ran and whatever was enabled in between. *)
LoginIsProven ==
  \A t \in 1..Len(tok) :
    t \in delivered \/ stored[tok[t].acct] = t
      => \/ "passkey" \in tok[t].proofs
         \/ /\ "password" \in tok[t].proofs
            /\ tok[t].guarded => "factor" \in tok[t].proofs

(* The stored token is in a client's hands or about to be: storing a new one,
   which ends the session before it, never leaves an account whose session
   nobody holds, unless the login that stored this very token was cut between
   storing it and answering. *)
StoredTokenReachesClient ==
  \A a \in Accounts :
    stored[a] \in {NoToken} \cup delivered \cup lost
      \/ \E r \in Requests : req[r].at = "answer" /\ req[r].tok = stored[a]

Revived(a) ==
  /\ stored'[a] \notin {NoToken, stored[a]}
  /\ \E t \in delivered : SameText(t, stored'[a])

Renewed(t) ==
  \E r \in Requests :
    /\ req[r].tok = t
    /\ At(r, "redeem", "store") \/ (At(r, "login", "store") /\ t \notin delivered)

(* A token that was delivered and is no longer stored (a logout, or a later
   login) comes back only through its own two-factor session, proven again, or
   through a new login so soon that it signed the same text: no refresh, logout
   or password change in flight revives it. *)
RevokedStaysRevoked == [][\A a \in Accounts : Revived(a) => Renewed(stored'[a])]_vars

=============================================================================
