--------------------------- MODULE SessionsProofs ---------------------------
(* Proofs about Sessions, for any accounts, passwords, numbers of requests   *)
(* in flight, token pairs and cuts.                                          *)
EXTENDS MCSessions, TLAPS, FiniteSetTheorems, SequenceTheorems

-----------------------------------------------------------------------------
(* The inductive invariant. *)

(* A login between its lookup and its signature: it will need a token pair. *)
Verifying == {r \in Requests : At(r, "login", "verify")}

(* Requests that carry a token pair, and those whose pair is still their own. *)
Fresh(r) == req[r].op = "login" /\ req[r].at \in {"methods", "store", "answer"}
HasToken(r) == Fresh(r) \/ req[r].op = "redeem"

(* What a token pair must have behind it before it is stored or answered. *)
Earned(t) == \/ "passkey" \in tok[t].proofs
             \/ tok[t].guarded => "factor" \in tok[t].proofs

(* Token pairs are never lost, change hands or lose a proof. *)
TokensGrow ==
  /\ Len(tok) <= Len(tok')
  /\ \A t \in 1..Len(tok) : /\ tok'[t].acct = tok[t].acct
                             /\ tok'[t].guarded = tok[t].guarded
                             /\ tok[t].proofs \subseteq tok'[t].proofs

(* The token pairs fit into their bound, with those about to be signed. *)
BoundInv == Len(tok) + Cardinality(Verifying) <= MaxTokens

(* Every token pair was signed after a password or a passkey. *)
SignedInv == \A t \in 1..Len(tok) : tok[t].proofs \cap {"password", "passkey"} # {}

(* Where a request is says what was checked on the way: a login that goes on to
   the second factor has it still to come, one that stores its pair has none, or
   has proven it, or came with a passkey. *)
Placed(r) ==
  /\ req[r].op = "none" => req[r].at = "idle"
  /\ req[r].op # "none" => req[r].acct \in Accounts
  /\ req[r].op = "change" => req[r].new \in Passwords
  /\ (At(r, "login", "verify") /\ req[r].guarded) => twoFactor[req[r].acct]
  /\ req[r].at \in {"methods", "store", "answer"} => HasToken(r)
  /\ HasToken(r) => req[r].tok \in 1..Len(tok) /\ tok[req[r].tok].acct = req[r].acct
  /\ req[r].at = "methods" => req[r].op = "login"
                              /\ (tok[req[r].tok].guarded => twoFactor[req[r].acct])
  /\ req[r].at \in {"store", "answer"} => Earned(req[r].tok)
PlaceInv == \A r \in Requests : Placed(r)

(* A pair that a login has signed and not handed on is known to it alone. *)
FreshInv ==
  \A r \in Requests : Fresh(r) =>
    /\ req[r].tok \notin delivered \cup held
    /\ \A q \in Requests : q # r /\ HasToken(q) => req[q].tok # req[r].tok

(* The tokens that count are whole. *)
StoredInv ==
  /\ \A a \in Accounts : stored[a] # NoToken =>
       stored[a] \in 1..Len(tok) /\ tok[stored[a]].acct = a /\ Earned(stored[a])
  /\ \A t \in delivered : Earned(t)

IInv == /\ TypeOK /\ BoundInv /\ SignedInv /\ PlaceInv /\ FreshInv /\ StoredInv
        /\ StoredTokenReachesClient

-----------------------------------------------------------------------------
(* The token pairs. *)

(* What a pair is. *)
LEMMA TokenTypes ==
  ASSUME TypeOK
  PROVE  /\ Len(tok) \in Nat /\ MaxTokens \in Nat /\ 1..Len(tok) \subseteq Tokens
         /\ \A t \in 1..Len(tok) : /\ tok[t] \in TokenInfo /\ tok[t].acct \in Accounts
                                   /\ tok[t].guarded \in BOOLEAN
  <1>1. tok \in Seq(TokenInfo) /\ Len(tok) <= MaxTokens
    BY DEF TypeOK
  <1>2. Len(tok) \in Nat /\ MaxTokens \in Nat
    BY <1>1, LenProperties, BoundsAssumption
  <1>3. \A t \in 1..Len(tok) : tok[t] \in TokenInfo
    BY <1>1, ElementOfSeq
  <1>4. QED
    BY <1>1, <1>2, <1>3 DEF TokenInfo, Tokens

(* What signing a pair does. *)
LEMMA Signing ==
  ASSUME TypeOK, NEW a \in Accounts, NEW g \in BOOLEAN,
         NEW p \in {"password", "passkey"}, GetTokens(a, g, p)
  PROVE  /\ tok' \in Seq(TokenInfo) /\ Len(tok') = Len(tok) + 1 /\ Len(tok) \in Nat
         /\ \A t \in 1..Len(tok) : tok'[t] = tok[t]
         /\ tok'[Len(tok) + 1].acct = a /\ tok'[Len(tok) + 1].guarded = g
         /\ tok'[Len(tok) + 1].proofs = {p}
         /\ TokensGrow
  <1>1. PICK text \in {Len(tok) + 1} \cup {tok[t].text : t \in {u \in 1..Len(tok) : tok[u].acct = a}} :
          tok' = Append(tok, [acct |-> a, guarded |-> g, proofs |-> {p}, text |-> text])
    BY DEF GetTokens
  <1> DEFINE new == [acct |-> a, guarded |-> g, proofs |-> {p}, text |-> text]
  <1>2. Len(tok) \in Nat /\ \A t \in 1..Len(tok) : tok[t].text \in Nat
    BY TokenTypes DEF TokenInfo
  <1>3. text \in Nat
    BY <1>1, <1>2
  <1>4. new \in TokenInfo
    BY <1>3 DEF TokenInfo
  <1>5. tok \in Seq(TokenInfo) /\ tok' = Append(tok, new)
    BY <1>1 DEF TypeOK
  <1>6. /\ tok' \in Seq(TokenInfo) /\ Len(tok') = Len(tok) + 1
        /\ \A t \in 1..Len(tok) : tok'[t] = tok[t]
        /\ tok'[Len(tok) + 1] = new
    BY <1>2, <1>4, <1>5, AppendProperties
  <1>7. QED
    BY <1>2, <1>6 DEF TokensGrow

(* What proving the second factor of a pair does. *)
LEMMA Proving ==
  ASSUME TypeOK, NEW i \in 1..Len(tok),
         tok' = [tok EXCEPT ![i].proofs = @ \cup {"factor"}]
  PROVE  /\ tok' \in Seq(TokenInfo) /\ Len(tok') = Len(tok) /\ Len(tok) \in Nat
         /\ "factor" \in tok'[i].proofs
         /\ TokensGrow
  <1> DEFINE new == [tok[i] EXCEPT !.proofs = @ \cup {"factor"}]
  <1>1. tok \in Seq(TokenInfo) /\ tok' = [tok EXCEPT ![i] = new]
    BY DEF TypeOK
  <1>2. \A t \in 1..Len(tok) : tok[t] \in TokenInfo
    BY <1>1, ElementOfSeq
  <1>3. new \in TokenInfo
    BY <1>2 DEF TokenInfo
  <1>4. /\ tok' \in Seq(TokenInfo) /\ Len(tok') = Len(tok)
        /\ \A t \in 1..Len(tok) : tok'[t] = IF t = i THEN new ELSE tok[t]
    BY <1>1, <1>3, ExceptSeq
  <1>5. /\ new.acct = tok[i].acct /\ new.guarded = tok[i].guarded
        /\ new.proofs = tok[i].proofs \cup {"factor"}
    BY <1>2 DEF TokenInfo
  <1>6. Len(tok) \in Nat
    BY <1>1, LenProperties
  <1>7. QED
    BY <1>4, <1>5, <1>6 DEF TokensGrow

-----------------------------------------------------------------------------
(* Type correctness, and the bound on the token pairs. *)

(* The logins about to be signed are finitely many: at least one, if there is one. *)
LEMMA VerifyingIsFinite ==
  /\ IsFiniteSet(Verifying) /\ Cardinality(Verifying) \in Nat
  /\ \A r \in Verifying : Cardinality(Verifying) >= 1
  <1>1. IsFiniteSet(Verifying)
    BY RequestsAssumption, FS_Subset DEF Verifying
  <1>2. Cardinality(Verifying) \in Nat
    BY <1>1, FS_CardinalityType
  <1>3. Verifying # {} => Cardinality(Verifying) # 0
    BY <1>1, FS_EmptySet
  <1>4. QED
    BY <1>1, <1>2, <1>3

(* A request that gets on, gets going or gives up stays one. *)
LEMMA RequestTypes ==
  ASSUME TypeOK, NEW r \in Requests
  PROVE  /\ req[r] \in Request /\ Idle \in Request
         /\ Finish(r) => req' \in [Requests -> Request]
         /\ \A at \in Places : Goto(r, at) => req' \in [Requests -> Request]
         /\ \A x \in Request : Start(r, x) => req' \in [Requests -> Request]
  <1>1. req[r] \in Request /\ Idle \in Request
    BY DEF TypeOK, Request, Idle, Ops, Places, NoToken, Nobody
  <1>2. \A at \in Places : [req[r] EXCEPT !.at = at] \in Request
    BY <1>1 DEF Request
  <1>3. QED
    BY <1>1, <1>2 DEF TypeOK, Finish, Goto, Start

(* The step keeps the types. *)
LEMMA TypeStep ==
  ASSUME TypeOK, BoundInv, PlaceInv, [Next]_vars
  PROVE  TypeOK'
  <1> USE DEF TypeOK, credentials, clients, counters
  <1>0. /\ Len(tok) \in Nat /\ MaxTokens \in Nat /\ 1..Len(tok) \subseteq Tokens
        /\ \A r \in Requests : req[r] \in Request
        /\ \A t \in 1..Len(tok) : tok[t].acct \in Accounts
    BY TokenTypes
  <1>1. ASSUME NEW r \in Requests, LoginLookup(r) PROVE TypeOK'
    <2>1. PICK a \in Accounts, p \in Passwords :
            Start(r, [Idle EXCEPT !.op = "login", !.at = "verify", !.acct = a, !.pw = p,
                      !.seen = password[a], !.guarded = twoFactor[a]])
      BY <1>1 DEF LoginLookup
    <2>2. [Idle EXCEPT !.op = "login", !.at = "verify", !.acct = a, !.pw = p,
                      !.seen = password[a], !.guarded = twoFactor[a]] \in Request
      BY DEF Idle, Request, Ops, Places
    <2>3. QED
      BY <1>1, <2>1, <2>2, RequestTypes DEF LoginLookup
  <1>2. ASSUME NEW r \in Requests, PasskeyLogin(r) PROVE TypeOK'
    <2>1. PICK a \in Accounts :
            /\ GetTokens(a, twoFactor[a], "passkey")
            /\ Start(r, [Idle EXCEPT !.op = "login", !.at = "store", !.acct = a, !.tok = Len(tok) + 1])
      BY <1>2 DEF PasskeyLogin
    <2>2. tok' \in Seq(TokenInfo) /\ Len(tok') = Len(tok) + 1
      BY <2>1, Signing
    <2>3. Len(tok) + 1 <= MaxTokens /\ Len(tok) + 1 \in Tokens
      BY <1>0, <1>2, VerifyingIsFinite DEF PasskeyLogin, LoginAllowed, Verifying, Tokens
    <2>4. [Idle EXCEPT !.op = "login", !.at = "store", !.acct = a, !.tok = Len(tok) + 1] \in Request
      BY <2>3 DEF Idle, Request, Ops, Places
    <2>5. QED
      BY <1>0, <1>2, <2>1, <2>2, <2>3, <2>4, RequestTypes DEF PasskeyLogin
  <1>3. ASSUME NEW r \in Requests, RedeemLookup(r) PROVE TypeOK'
    <2>1. PICK t \in held :
            Start(r, [Idle EXCEPT !.op = "redeem", !.at = "factor", !.acct = tok[t].acct, !.tok = t])
      BY <1>3 DEF RedeemLookup
    <2>2. [Idle EXCEPT !.op = "redeem", !.at = "factor", !.acct = tok[t].acct, !.tok = t] \in Request
      BY <1>0 DEF Idle, Request, Ops, Places
    <2>3. QED
      BY <1>3, <2>1, <2>2, RequestTypes DEF RedeemLookup
  <1>4. ASSUME NEW r \in Requests, RefreshLookup(r) PROVE TypeOK'
    <2>1. PICK t \in delivered :
            Start(r, [Idle EXCEPT !.op = "refresh", !.at = "verify", !.acct = tok[t].acct, !.tok = t,
                      !.seen = stored[tok[t].acct]])
      BY <1>4 DEF RefreshLookup
    <2>2. [Idle EXCEPT !.op = "refresh", !.at = "verify", !.acct = tok[t].acct, !.tok = t,
                      !.seen = stored[tok[t].acct]] \in Request
      BY <1>0 DEF Idle, Request, Ops, Places
    <2>3. QED
      BY <1>4, <2>1, <2>2, RequestTypes DEF RefreshLookup
  <1>5. ASSUME NEW r \in Requests, LogoutLookup(r) PROVE TypeOK'
    <2>1. \A a \in Accounts : [Idle EXCEPT !.op = "logout", !.at = "write", !.acct = a] \in Request
      BY DEF Idle, Request, Ops, Places
    <2>2. QED
      BY <1>5, <2>1, RequestTypes DEF LogoutLookup
  <1>6. ASSUME NEW r \in Requests, ChangeLookup(r) PROVE TypeOK'
    <2>1. \A a \in Accounts, p, q \in Passwords :
            [Idle EXCEPT !.op = "change", !.at = "verify", !.acct = a, !.pw = p, !.new = q,
             !.seen = password[a]] \in Request
      BY DEF Idle, Request, Ops, Places
    <2>2. QED
      BY <1>6, <2>1, RequestTypes DEF ChangeLookup
  <1>7. ASSUME NEW r \in Requests, LoginVerify(r) PROVE TypeOK'
    <2>1. CASE Finish(r) /\ UNCHANGED tok
      BY <1>7, <2>1, RequestTypes DEF LoginVerify
    <2>2. CASE /\ GetTokens(req[r].acct, req[r].guarded, "password")
               /\ req' = [req EXCEPT ![r].at = "methods", ![r].tok = Len(tok) + 1]
      <3>1. req[r].acct \in Accounts /\ req[r].guarded \in BOOLEAN
        BY <1>0, <1>7 DEF LoginVerify, At, PlaceInv, Placed, Request
      <3>2. tok' \in Seq(TokenInfo) /\ Len(tok') = Len(tok) + 1
        BY <2>2, <3>1, Signing
      <3>3. Len(tok) + 1 <= MaxTokens /\ Len(tok) + 1 \in Tokens
        BY <1>0, <1>7, VerifyingIsFinite DEF LoginVerify, BoundInv, Verifying, Tokens
      <3>4. [req[r] EXCEPT !.at = "methods", !.tok = Len(tok) + 1] \in Request
        BY <1>0, <3>3 DEF Request, Places
      <3>5. QED
        BY <1>0, <1>7, <2>2, <3>2, <3>3, <3>4 DEF LoginVerify
    <2>3. QED
      BY <1>7, <2>1, <2>2 DEF LoginVerify
  <1>8. ASSUME NEW r \in Requests, LoginMethods(r) PROVE TypeOK'
    BY <1>8, RequestTypes DEF LoginMethods, Places, At, PlaceInv, Placed, HasToken, Fresh
  <1>9. ASSUME NEW r \in Requests, SetLoginCookies(r) PROVE TypeOK'
    BY <1>0, <1>9, RequestTypes DEF SetLoginCookies, Places, At, PlaceInv, Placed, HasToken, Fresh
  <1>10. ASSUME NEW r \in Requests, AnswerLogin(r) PROVE TypeOK'
    BY <1>0, <1>10, RequestTypes DEF AnswerLogin, Places, At, PlaceInv, Placed, HasToken, Fresh
  <1>11. ASSUME NEW r \in Requests, RedeemVerify(r) PROVE TypeOK'
    <2>1. CASE Finish(r) /\ UNCHANGED tok
      BY <1>11, <2>1, RequestTypes DEF RedeemVerify
    <2>2. CASE Goto(r, "store") /\ tok' = [tok EXCEPT ![req[r].tok].proofs = @ \cup {"factor"}]
      <3>1. req[r].tok \in 1..Len(tok)
        BY <1>11 DEF RedeemVerify, At, PlaceInv, Placed, HasToken
      <3>2. tok' \in Seq(TokenInfo) /\ Len(tok') = Len(tok)
        BY <2>2, <3>1, Proving
      <3>3. QED
        BY <1>11, <2>2, <3>2, RequestTypes DEF RedeemVerify, Places
    <2>3. QED
      BY <1>11, <2>1, <2>2 DEF RedeemVerify
  <1>12. ASSUME NEW r \in Requests, RefreshVerify(r) \/ RefreshIssue(r) PROVE TypeOK'
    BY <1>12, RequestTypes DEF RefreshVerify, RefreshIssue, Places, At, PlaceInv, Placed
  <1>13. ASSUME NEW r \in Requests, LogoutWrite(r) PROVE TypeOK'
    BY <1>13, RequestTypes DEF LogoutWrite, At, PlaceInv, Placed
  <1>14. ASSUME NEW r \in Requests, ChangeVerify(r) PROVE TypeOK'
    BY <1>14, RequestTypes DEF ChangeVerify, Places
  <1>15. ASSUME NEW r \in Requests, ChangeWrite(r) PROVE TypeOK'
    BY <1>15, RequestTypes DEF ChangeWrite, At, PlaceInv, Placed
  <1>16. ASSUME NEW r \in Requests, Cut(r) PROVE TypeOK'
    <2>1. req[r].at = "answer" => req[r].tok \in 1..Len(tok)
      BY DEF PlaceInv, Placed
    <2>2. cuts' \in 0..MaxCuts
      BY <1>16, BoundsAssumption DEF Cut
    <2>3. lost' \subseteq 1..Len(tok)
      BY <1>16, <2>1 DEF Cut
    <2>4. QED
      BY <1>16, <2>2, <2>3, RequestTypes DEF Cut
  <1>17. ASSUME NEW t \in Tokens, SessionExpires(t) PROVE TypeOK'
    BY <1>17 DEF SessionExpires
  <1>18. ASSUME NEW a \in Accounts, EnableFactor(a) \/ AccessExpires(a) PROVE TypeOK'
    BY <1>18 DEF EnableFactor, AccessExpires
  <1>19. CASE UNCHANGED vars
    BY <1>19 DEF vars
  <1>20. QED
    BY <1>1, <1>2, <1>3, <1>4, <1>5, <1>6, <1>7, <1>8, <1>9, <1>10, <1>11, <1>12, <1>13,
       <1>14, <1>15, <1>16, <1>17, <1>18, <1>19 DEF Next, Begin, Continue

(* The step signs a pair, adds a proof to one, or leaves the pairs alone. *)
LEMMA TokenStep ==
  ASSUME TypeOK, PlaceInv, [Next]_vars
  PROVE  \/ UNCHANGED tok
         \/ \E a \in Accounts, g \in BOOLEAN, p \in {"password", "passkey"} : GetTokens(a, g, p)
         \/ \E i \in 1..Len(tok) : tok' = [tok EXCEPT ![i].proofs = @ \cup {"factor"}]
  <1> USE DEF credentials, clients, counters
  <1>1. ASSUME NEW r \in Requests, PasskeyLogin(r)
        PROVE  \E a \in Accounts, g \in BOOLEAN : GetTokens(a, g, "passkey")
    BY <1>1 DEF TypeOK, PasskeyLogin
  <1>2. ASSUME NEW r \in Requests, LoginVerify(r), ~UNCHANGED tok
        PROVE  /\ req[r].acct \in Accounts /\ req[r].guarded \in BOOLEAN
               /\ GetTokens(req[r].acct, req[r].guarded, "password")
    <2>1. req[r] \in Request /\ At(r, "login", "verify") /\ Placed(r)
      BY <1>2 DEF TypeOK, LoginVerify, PlaceInv
    <2>2. QED
      BY <1>2, <2>1 DEF LoginVerify, Placed, At, Request
  <1>3. ASSUME NEW r \in Requests, RedeemVerify(r), ~UNCHANGED tok
        PROVE  /\ req[r].tok \in 1..Len(tok)
               /\ tok' = [tok EXCEPT ![req[r].tok].proofs = @ \cup {"factor"}]
    BY <1>3 DEF RedeemVerify, At, PlaceInv, Placed, HasToken
  <1>4. ASSUME NEW r \in Requests, Begin(r) \/ Continue(r) \/ Cut(r),
               ~(PasskeyLogin(r) \/ LoginVerify(r) \/ RedeemVerify(r))
        PROVE  UNCHANGED tok
    BY <1>4 DEF Begin, Continue, LoginLookup, RedeemLookup, RefreshLookup, LogoutLookup,
         ChangeLookup, LoginMethods, SetLoginCookies, AnswerLogin, RefreshVerify, RefreshIssue,
         LogoutWrite, ChangeVerify, ChangeWrite, Cut
  <1>5. ASSUME ~(\E r \in Requests : Begin(r) \/ Continue(r) \/ Cut(r)) PROVE UNCHANGED tok
    BY <1>5 DEF Next, SessionExpires, EnableFactor, AccessExpires, vars
  <1>6. QED
    BY <1>1, <1>2, <1>3, <1>4, <1>5

(* What a pair has behind it stays behind it. *)
LEMMA EarnedKept ==
  ASSUME TokensGrow, NEW t \in 1..Len(tok), Earned(t)
  PROVE  Earned(t)'
  <1>1. tok'[t].guarded = tok[t].guarded /\ tok[t].proofs \subseteq tok'[t].proofs
    BY DEF TokensGrow
  <1>2. CASE "passkey" \in tok[t].proofs
    BY <1>1, <1>2 DEF Earned
  <1>3. CASE tok[t].guarded => "factor" \in tok[t].proofs
    BY <1>1, <1>3 DEF Earned
  <1>4. QED
    BY <1>2, <1>3 DEF Earned

(* So the pairs grow, and each stays signed after a password or a passkey. *)
LEMMA SignedStep ==
  ASSUME TypeOK, SignedInv, PlaceInv, [Next]_vars
  PROVE  TokensGrow /\ SignedInv'
  <1> USE TokenTypes DEF SignedInv
  <1>1. CASE UNCHANGED tok
    BY <1>1 DEF TokensGrow
  <1>2. ASSUME NEW a \in Accounts, NEW g \in BOOLEAN, NEW p \in {"password", "passkey"},
               GetTokens(a, g, p)
        PROVE  TokensGrow /\ SignedInv'
    <2>1. /\ TokensGrow /\ Len(tok') = Len(tok) + 1
          /\ \A t \in 1..Len(tok) : tok'[t] = tok[t]
          /\ tok'[Len(tok) + 1].proofs = {p}
      BY <1>2, Signing, Zenon
    <2>2. \A t \in 1..Len(tok') : t \in 1..Len(tok) \/ t = Len(tok) + 1
      BY <2>1
    <2>3. tok'[Len(tok) + 1].proofs \cap {"password", "passkey"} # {}
      BY <2>1
    <2>4. QED
      BY <2>1, <2>2, <2>3
  <1>3. ASSUME NEW i \in 1..Len(tok), tok' = [tok EXCEPT ![i].proofs = @ \cup {"factor"}]
        PROVE  TokensGrow /\ SignedInv'
    <2>1. TokensGrow /\ Len(tok') = Len(tok)
      BY <1>3, Proving
    <2>2. QED
      BY <2>1 DEF TokensGrow
  <1>4. QED
    BY <1>1, <1>2, <1>3, TokenStep

-----------------------------------------------------------------------------
(* The requests. *)

(* One request moves at a time, and no account loses its second factor. *)
LEMMA OneMoves ==
  ASSUME TypeOK, [Next]_vars
  PROVE  /\ \A a \in Accounts : twoFactor[a] => twoFactor'[a]
         /\ \/ UNCHANGED req
            \/ \E r \in Requests :
                 /\ Begin(r) \/ Continue(r) \/ Cut(r)
                 /\ UNCHANGED twoFactor
                 /\ \A q \in Requests \ {r} : req'[q] = req[q]
  <1> USE DEF credentials, clients, counters
  <1>1. ASSUME NEW r \in Requests, Begin(r)
        PROVE  UNCHANGED twoFactor /\ \A q \in Requests \ {r} : req'[q] = req[q]
    BY <1>1 DEF TypeOK, Begin, LoginLookup, PasskeyLogin, RedeemLookup, RefreshLookup,
         LogoutLookup, ChangeLookup, Start
  <1>2. ASSUME NEW r \in Requests, Continue(r)
        PROVE  UNCHANGED twoFactor /\ \A q \in Requests \ {r} : req'[q] = req[q]
    BY <1>2 DEF TypeOK, Continue, LoginVerify, LoginMethods, SetLoginCookies, AnswerLogin,
         RedeemVerify, RefreshVerify, RefreshIssue, LogoutWrite, ChangeVerify, ChangeWrite,
         Goto, Finish
  <1>3. ASSUME NEW r \in Requests, Cut(r)
        PROVE  UNCHANGED twoFactor /\ \A q \in Requests \ {r} : req'[q] = req[q]
    BY <1>3 DEF TypeOK, Cut, Finish
  <1>4. ASSUME ~(\E r \in Requests : Begin(r) \/ Continue(r) \/ Cut(r))
        PROVE  UNCHANGED req /\ \A a \in Accounts : twoFactor[a] => twoFactor'[a]
    BY <1>4 DEF TypeOK, Next, SessionExpires, EnableFactor, AccessExpires, vars
  <1>5. QED
    BY <1>1, <1>2, <1>3, <1>4

(* A request that goes on keeps what it was begun with; one that ends is idle. *)
LEMMA Going ==
  ASSUME TypeOK, NEW r \in Requests, NEW at, Goto(r, at)
  PROVE  /\ req'[r].op = req[r].op /\ req'[r].at = at /\ req'[r].tok = req[r].tok
         /\ req'[r].acct = req[r].acct
         /\ \A q \in Requests \ {r} : req'[q] = req[q]
  BY DEF TypeOK, Goto, Request

(* A request that starts leaves the others where they are. *)
LEMMA Starting ==
  ASSUME TypeOK, NEW r \in Requests, NEW x, Start(r, x)
  PROVE  req'[r] = x /\ \A q \in Requests \ {r} : req'[q] = req[q]
  BY DEF TypeOK, Start

(* So does one that ends. *)
LEMMA Ending ==
  ASSUME TypeOK, NEW r \in Requests, Finish(r)
  PROVE  /\ req'[r].op = "none" /\ req'[r].at = "idle"
         /\ \A q \in Requests \ {r} : req'[q] = req[q]
  BY DEF TypeOK, Finish, Idle

(* What is true of a request that waits stays true. *)
LEMMA PlaceKept ==
  ASSUME TypeOK, PlaceInv, TokensGrow, TypeOK',
         \A a \in Accounts : twoFactor[a] => twoFactor'[a],
         NEW q \in Requests, req'[q] = req[q]
  PROVE  Placed(q)'
  <1>1. Len(tok) \in Nat /\ Len(tok') \in Nat /\ 1..Len(tok) \subseteq 1..Len(tok')
    BY LenProperties DEF TypeOK, TokensGrow
  <1>2. Placed(q)
    BY DEF PlaceInv
  <1>3. req[q].at \in {"store", "answer"} => Earned(req[q].tok)'
    BY <1>2, EarnedKept DEF Placed
  <1>4. QED
    BY <1>1, <1>2, <1>3 DEF Placed, At, HasToken, Fresh, TokensGrow

(* So it is of one that begins or moves on. *)
LEMMA PlaceMoved ==
  ASSUME TypeOK, PlaceInv, TokensGrow, TypeOK', UNCHANGED twoFactor,
         NEW r \in Requests, Begin(r) \/ Continue(r) \/ Cut(r)
  PROVE  Placed(r)'
  <1> USE DEF At, HasToken, Fresh
  <1>0. /\ Len(tok) \in Nat /\ Len(tok') \in Nat /\ 1..Len(tok) \subseteq 1..Len(tok')
        /\ Placed(r)
    BY LenProperties DEF TypeOK, TokensGrow, PlaceInv
  <1>1. ASSUME Finish(r) PROVE Placed(r)'
    BY <1>1 DEF TypeOK, Finish, Placed, Idle
  <1>2. CASE LoginLookup(r)
    BY <1>2 DEF TypeOK, LoginLookup, Start, Placed, Idle
  <1>3. CASE PasskeyLogin(r)
    <2>1. PICK a \in Accounts :
            /\ GetTokens(a, twoFactor[a], "passkey")
            /\ Start(r, [Idle EXCEPT !.op = "login", !.at = "store", !.acct = a, !.tok = Len(tok) + 1])
      BY <1>3 DEF PasskeyLogin
    <2>2. /\ Len(tok') = Len(tok) + 1 /\ tok'[Len(tok) + 1].acct = a
          /\ tok'[Len(tok) + 1].proofs = {"passkey"}
      BY <2>1, Signing DEF TypeOK
    <2>3. req'[r] = [Idle EXCEPT !.op = "login", !.at = "store", !.acct = a, !.tok = Len(tok) + 1]
      BY <2>1, Starting
    <2>4. Earned(req[r].tok)'
      BY <2>2, <2>3 DEF Earned, Idle
    <2>5. QED
      BY <1>0, <2>2, <2>3, <2>4 DEF Placed, Idle
  <1>4. CASE RedeemLookup(r)
    BY <1>0, <1>4, TokenTypes DEF TypeOK, RedeemLookup, Start, Placed, Idle
  <1>5. CASE RefreshLookup(r)
    BY <1>0, <1>5, TokenTypes DEF TypeOK, RefreshLookup, Start, Placed, Idle
  <1>6. CASE LogoutLookup(r)
    BY <1>6 DEF TypeOK, LogoutLookup, Start, Placed, Idle
  <1>14. CASE ChangeLookup(r)
    BY <1>14 DEF TypeOK, ChangeLookup, Start, Placed, Idle
  <1>7. CASE LoginVerify(r)
    <2>1. CASE /\ GetTokens(req[r].acct, req[r].guarded, "password")
               /\ req' = [req EXCEPT ![r].at = "methods", ![r].tok = Len(tok) + 1]
      <3>1. req[r].acct \in Accounts /\ req[r].guarded \in BOOLEAN /\ req[r] \in Request
        BY <1>0, <1>7 DEF TypeOK, LoginVerify, Placed, Request
      <3>2. /\ Len(tok') = Len(tok) + 1
            /\ tok'[Len(tok) + 1].acct = req[r].acct
            /\ tok'[Len(tok) + 1].guarded = req[r].guarded
        BY <2>1, <3>1, Signing
      <3>3. req'[r] = [req[r] EXCEPT !.at = "methods", !.tok = Len(tok) + 1]
        BY <2>1 DEF TypeOK
      <3>4. QED
        BY <1>0, <1>7, <3>1, <3>2, <3>3 DEF LoginVerify, Placed, Request
    <2>2. QED
      BY <1>1, <1>7, <2>1 DEF LoginVerify
  <1>8. CASE LoginMethods(r)
    <2>1. CASE Goto(r, "store") /\ ~twoFactor[req[r].acct] /\ UNCHANGED tok
      <3>1. req'[r].tok = req[r].tok /\ Earned(req[r].tok)
        BY <1>0, <1>8, <2>1, Going DEF LoginMethods, Placed, Earned
      <3>2. QED
        BY <1>0, <1>8, <2>1, <3>1, Going, EarnedKept DEF LoginMethods, Placed
    <2>2. QED
      BY <1>1, <1>8, <2>1 DEF LoginMethods
  <1>9. CASE SetLoginCookies(r)
    BY <1>0, <1>9 DEF TypeOK, SetLoginCookies, Goto, Placed, Earned, Request
  <1>10. CASE RedeemVerify(r)
    <2>1. CASE Goto(r, "store") /\ tok' = [tok EXCEPT ![req[r].tok].proofs = @ \cup {"factor"}]
      <3>1. req[r].tok \in 1..Len(tok)
        BY <1>0, <1>10 DEF RedeemVerify, Placed
      <3>2. "factor" \in tok'[req[r].tok].proofs
        BY <2>1, <3>1, Proving
      <3>3. QED
        BY <1>0, <1>10, <2>1, <3>1, <3>2 DEF TypeOK, RedeemVerify, Goto, Placed, Earned, Request, TokensGrow
    <2>2. QED
      BY <1>1, <1>10, <2>1 DEF RedeemVerify
  <1>11. CASE RefreshVerify(r)
    <2>1. CASE Goto(r, "issue")
      BY <1>0, <1>11, <2>1 DEF TypeOK, RefreshVerify, Goto, Placed, Request
    <2>2. QED
      BY <1>1, <1>11, <2>1 DEF RefreshVerify
  <1>12. CASE ChangeVerify(r)
    <2>1. CASE Goto(r, "write")
      BY <1>0, <1>12, <2>1 DEF TypeOK, ChangeVerify, Goto, Placed, Request
    <2>2. QED
      BY <1>1, <1>12, <2>1 DEF ChangeVerify
  <1>13. CASE AnswerLogin(r) \/ RefreshIssue(r) \/ LogoutWrite(r) \/ ChangeWrite(r) \/ Cut(r)
    BY <1>1, <1>13 DEF AnswerLogin, RefreshIssue, LogoutWrite, ChangeWrite, Cut
  <1>15. QED
    BY <1>2, <1>3, <1>4, <1>5, <1>6, <1>7, <1>8, <1>9, <1>10, <1>11, <1>12, <1>13, <1>14
    DEF Begin, Continue

(* Every step keeps what the place of a request says of its token pair. *)
LEMMA PlaceStep ==
  ASSUME TypeOK, BoundInv, SignedInv, PlaceInv, [Next]_vars
  PROVE  PlaceInv'
  <1>1. TypeOK' /\ TokensGrow
    BY TypeStep, SignedStep
  <1>2. ASSUME NEW q \in Requests, req'[q] = req[q] PROVE Placed(q)'
    BY <1>1, <1>2, OneMoves, PlaceKept
  <1>3. ASSUME NEW r \in Requests, Begin(r) \/ Continue(r) \/ Cut(r), UNCHANGED twoFactor
        PROVE  Placed(r)'
    BY <1>1, <1>3, PlaceMoved
  <1>4. QED
    BY <1>2, <1>3, OneMoves DEF PlaceInv

-----------------------------------------------------------------------------
(* The bound on the token pairs: a login begins only while there is room. *)

LEMMA BoundStep ==
  ASSUME TypeOK, BoundInv, PlaceInv, [Next]_vars
  PROVE  BoundInv'
  <1> USE DEF credentials, clients, counters, At
  <1> DEFINE N == Cardinality(Verifying)
  <1>0. /\ Len(tok) \in Nat /\ MaxTokens \in Nat /\ IsFiniteSet(Verifying) /\ N \in Nat
        /\ \A r \in Requests : req[r] \in Request
    BY TokenTypes, VerifyingIsFinite DEF TypeOK
  <1>1. ASSUME Verifying' \subseteq Verifying, Len(tok') = Len(tok) PROVE BoundInv'
    <2>1. Cardinality(Verifying') \in Nat /\ Cardinality(Verifying') <= N
      BY <1>0, <1>1, FS_Subset, FS_CardinalityType
    <2>2. QED
      BY <1>0, <1>1, <2>1 DEF BoundInv
  <1>2. ASSUME NEW r \in Requests, LoginLookup(r) PROVE BoundInv'
    <2>1. Verifying' \subseteq Verifying \cup {r}
      BY <1>2 DEF TypeOK, LoginLookup, Start, Verifying
    <2>2. /\ IsFiniteSet(Verifying \cup {r})
          /\ Cardinality(Verifying \cup {r}) \in {N, N + 1}
      BY <1>0, FS_AddElement
    <2>3. Cardinality(Verifying') \in Nat /\ Cardinality(Verifying') <= Cardinality(Verifying \cup {r})
      BY <2>1, <2>2, FS_Subset, FS_CardinalityType
    <2>4. UNCHANGED tok /\ Len(tok) + N < MaxTokens
      BY <1>2 DEF LoginLookup, LoginAllowed, Verifying
    <2>5. QED
      BY <1>0, <2>2, <2>3, <2>4 DEF BoundInv
  <1>3. ASSUME NEW r \in Requests, PasskeyLogin(r) PROVE BoundInv'
    <2>1. Verifying' = Verifying
      BY <1>3 DEF TypeOK, PasskeyLogin, Free, Start, Verifying, Idle
    <2>2. Len(tok') = Len(tok) + 1
      BY <1>3, Signing DEF TypeOK, PasskeyLogin
    <2>3. Len(tok) + N < MaxTokens
      BY <1>3 DEF PasskeyLogin, LoginAllowed, Verifying
    <2>4. QED
      BY <1>0, <2>1, <2>2, <2>3 DEF BoundInv
  <1>4. ASSUME NEW r \in Requests, LoginVerify(r) PROVE BoundInv'
    <2>1. Verifying' = Verifying \ {r} /\ r \in Verifying
      BY <1>0, <1>4, Ending DEF TypeOK, LoginVerify, Verifying, Request
    <2>2. Cardinality(Verifying') = N - 1
      BY <1>0, <2>1, FS_RemoveElement
    <2>3. req[r].acct \in Accounts /\ req[r].guarded \in BOOLEAN
      BY <1>0, <1>4 DEF LoginVerify, PlaceInv, Placed, Request
    <2>4. Len(tok') \in {Len(tok), Len(tok) + 1}
      BY <1>4, <2>3, Signing DEF LoginVerify
    <2>5. QED
      BY <1>0, <2>2, <2>4 DEF BoundInv
  <1>5. ASSUME NEW r \in Requests, RedeemVerify(r) PROVE BoundInv'
    <2>1. Verifying' \subseteq Verifying
      BY <1>5, Ending, Going DEF RedeemVerify, Verifying
    <2>2. req[r].tok \in 1..Len(tok)
      BY <1>5 DEF RedeemVerify, PlaceInv, Placed, HasToken
    <2>3. Len(tok') = Len(tok)
      BY <1>5, <2>2, Proving DEF RedeemVerify
    <2>4. QED
      BY <1>1, <2>1, <2>3
  <1>6. ASSUME NEW r \in Requests,
               RedeemLookup(r) \/ RefreshLookup(r) \/ LogoutLookup(r) \/ ChangeLookup(r)
        PROVE  Verifying' \subseteq Verifying /\ UNCHANGED tok
    BY <1>6 DEF TypeOK, RedeemLookup, RefreshLookup, LogoutLookup, ChangeLookup, Start, Verifying, Idle
  <1>7. ASSUME NEW r \in Requests, LoginMethods(r) \/ SetLoginCookies(r) \/ AnswerLogin(r)
        PROVE  Verifying' \subseteq Verifying /\ UNCHANGED tok
    BY <1>7, Ending, Going DEF LoginMethods, SetLoginCookies, AnswerLogin, Verifying
  <1>8. ASSUME NEW r \in Requests, RefreshVerify(r) \/ RefreshIssue(r) \/ LogoutWrite(r)
                                   \/ ChangeVerify(r) \/ ChangeWrite(r) \/ Cut(r)
        PROVE  Verifying' \subseteq Verifying /\ UNCHANGED tok
    BY <1>8, Ending, Going DEF RefreshVerify, RefreshIssue, LogoutWrite, ChangeVerify, ChangeWrite,
         Cut, Verifying
  <1>9. ASSUME ~(\E r \in Requests : Begin(r) \/ Continue(r) \/ Cut(r))
        PROVE  Verifying' \subseteq Verifying /\ UNCHANGED tok
    BY <1>9 DEF Next, SessionExpires, EnableFactor, AccessExpires, vars, Verifying
  <1>10. QED
    BY <1>1, <1>2, <1>3, <1>4, <1>5, <1>6, <1>7, <1>8, <1>9 DEF Begin, Continue

-----------------------------------------------------------------------------
(* A pair that is still its login's own. *)

(* A request that has no pair afterwards tells at most the pair it had. *)
LEMMA FreshHandedOn ==
  ASSUME TypeOK, PlaceInv, FreshInv, NEW r \in Requests, ~HasToken(r)',
         \A q \in Requests \ {r} : req'[q] = req[q],
         held' \cup delivered' \subseteq held \cup delivered \cup {t \in {req[r].tok} : HasToken(r)}
  PROVE  FreshInv'
  BY DEF FreshInv, Fresh, HasToken

(* One that has a pair has signed it, or had it, or took it from Redis. *)
LEMMA FreshTaken ==
  ASSUME TypeOK, PlaceInv, FreshInv, NEW r \in Requests, HasToken(r)',
         \A q \in Requests \ {r} : req'[q] = req[q],
         UNCHANGED <<held, delivered>>,
         \/ req'[r].tok = Len(tok) + 1
         \/ HasToken(r) /\ req'[r].tok = req[r].tok /\ (Fresh(r)' => Fresh(r))
         \/ ~Fresh(r)' /\ req'[r].tok \in held
  PROVE  FreshInv'
  <1>1. /\ Len(tok) \in Nat /\ Len(tok) + 1 \notin 1..Len(tok)
        /\ held \subseteq 1..Len(tok) /\ delivered \subseteq 1..Len(tok)
        /\ \A q \in Requests : HasToken(q) => req[q].tok \in 1..Len(tok)
    BY TokenTypes DEF TypeOK, PlaceInv, Placed
  <1>2. CASE req'[r].tok = Len(tok) + 1
    BY <1>1, <1>2 DEF FreshInv, Fresh, HasToken
  <1>3. CASE HasToken(r) /\ req'[r].tok = req[r].tok /\ (Fresh(r)' => Fresh(r))
    BY <1>1, <1>3 DEF FreshInv, Fresh, HasToken
  <1>4. CASE ~Fresh(r)' /\ req'[r].tok \in held
    BY <1>1, <1>4 DEF FreshInv, Fresh, HasToken
  <1>5. QED
    BY <1>2, <1>3, <1>4

(* Every step keeps the pairs in flight distinct. *)
LEMMA FreshStep ==
  ASSUME TypeOK, PlaceInv, FreshInv, [Next]_vars
  PROVE  FreshInv'
  <1> USE DEF credentials, clients, counters, At, Fresh, HasToken
  <1>1. ASSUME NEW r \in Requests,
               LoginLookup(r) \/ RefreshLookup(r) \/ LogoutLookup(r) \/ ChangeLookup(r)
        PROVE  /\ ~HasToken(r)' /\ UNCHANGED <<held, delivered>>
               /\ \A q \in Requests \ {r} : req'[q] = req[q]
    <2>1. ASSUME NEW x, Start(r, x), x.op = "login" => x.at = "verify", x.op # "redeem"
          PROVE  ~HasToken(r)' /\ \A q \in Requests \ {r} : req'[q] = req[q]
      BY <2>1, Starting
    <2>2. CASE LoginLookup(r)
      BY <2>1, <2>2 DEF LoginLookup, Idle
    <2>3. CASE RefreshLookup(r)
      BY <2>1, <2>3 DEF RefreshLookup, Idle
    <2>4. CASE LogoutLookup(r)
      BY <2>1, <2>4 DEF LogoutLookup, Idle
    <2>5. CASE ChangeLookup(r)
      BY <2>1, <2>5 DEF ChangeLookup, Idle
    <2>6. QED
      BY <1>1, <2>2, <2>3, <2>4, <2>5
  <1>2. ASSUME NEW r \in Requests, PasskeyLogin(r) PROVE FreshInv'
    <2>1. /\ HasToken(r)' /\ req'[r].tok = Len(tok) + 1 /\ UNCHANGED <<held, delivered>>
          /\ \A q \in Requests \ {r} : req'[q] = req[q]
      BY <1>2 DEF TypeOK, PasskeyLogin, Start, Idle
    <2>2. QED
      BY <2>1, FreshTaken
  <1>3. ASSUME NEW r \in Requests, RedeemLookup(r) PROVE FreshInv'
    <2>1. /\ HasToken(r)' /\ ~Fresh(r)' /\ req'[r].tok \in held /\ UNCHANGED <<held, delivered>>
          /\ \A q \in Requests \ {r} : req'[q] = req[q]
      BY <1>3 DEF TypeOK, RedeemLookup, Start, Idle
    <2>2. QED
      BY <2>1, FreshTaken
  <1>4. ASSUME NEW r \in Requests, LoginVerify(r) PROVE FreshInv'
    <2>1. UNCHANGED <<held, delivered>>
      BY <1>4 DEF LoginVerify
    <2>2. CASE Finish(r)
      BY <2>1, <2>2, Ending, FreshHandedOn
    <2>3. CASE req' = [req EXCEPT ![r].at = "methods", ![r].tok = Len(tok) + 1]
      <3>1. req[r] \in Request /\ req[r].op = "login"
        BY <1>4 DEF TypeOK, LoginVerify
      <3>2. /\ HasToken(r)' /\ req'[r].tok = Len(tok) + 1
            /\ \A q \in Requests \ {r} : req'[q] = req[q]
        BY <2>3, <3>1 DEF TypeOK, Request
      <3>3. QED
        BY <2>1, <3>2, FreshTaken
    <2>4. QED
      BY <1>4, <2>2, <2>3 DEF LoginVerify
  <1>5. ASSUME NEW r \in Requests, LoginMethods(r) PROVE FreshInv'
    <2>1. CASE held' = held \cup {req[r].tok} /\ Finish(r)
      BY <1>5, <2>1, Ending, FreshHandedOn DEF LoginMethods
    <2>2. CASE Goto(r, "store") /\ UNCHANGED held
      BY <1>5, <2>2, Going, FreshTaken DEF LoginMethods
    <2>3. QED
      BY <1>5, <2>1, <2>2 DEF LoginMethods
  <1>6. ASSUME NEW r \in Requests, SetLoginCookies(r) PROVE FreshInv'
    <2>1. HasToken(r) /\ Goto(r, "answer") /\ UNCHANGED <<held, delivered>>
      BY <1>6 DEF SetLoginCookies, PlaceInv, Placed
    <2>2. QED
      BY <1>6, <2>1, Going, FreshTaken DEF SetLoginCookies
  <1>7. ASSUME NEW r \in Requests, AnswerLogin(r) PROVE FreshInv'
    BY <1>7, Ending, FreshHandedOn DEF AnswerLogin, PlaceInv, Placed
  <1>8. ASSUME NEW r \in Requests, RedeemVerify(r) PROVE FreshInv'
    <2>1. CASE Finish(r)
      BY <1>8, <2>1, Ending, FreshHandedOn DEF RedeemVerify
    <2>2. CASE Goto(r, "store")
      BY <1>8, <2>2, Going, FreshTaken DEF RedeemVerify
    <2>3. QED
      BY <1>8, <2>1, <2>2 DEF RedeemVerify
  <1>9. ASSUME NEW r \in Requests, RefreshVerify(r) \/ RefreshIssue(r) \/ LogoutWrite(r)
                                   \/ ChangeVerify(r) \/ ChangeWrite(r)
        PROVE  /\ ~HasToken(r)' /\ UNCHANGED <<held, delivered>>
               /\ \A q \in Requests \ {r} : req'[q] = req[q]
    BY <1>9, Ending, Going DEF RefreshVerify, RefreshIssue, LogoutWrite, ChangeVerify, ChangeWrite
  <1>10. ASSUME NEW r \in Requests, Cut(r) PROVE FreshInv'
    BY <1>10, Ending, FreshHandedOn DEF Cut
  <1>11. ASSUME ~(\E r \in Requests : Begin(r) \/ Continue(r) \/ Cut(r)) PROVE FreshInv'
    <2>1. UNCHANGED <<req, delivered>> /\ held' \subseteq held
      BY <1>11 DEF Next, SessionExpires, EnableFactor, AccessExpires, vars
    <2>2. QED
      BY <2>1 DEF FreshInv
  <1>12. QED
    BY <1>1, <1>2, <1>3, <1>4, <1>5, <1>6, <1>7, <1>8, <1>9, <1>10, <1>11, FreshHandedOn
    DEF Begin, Continue

-----------------------------------------------------------------------------
(* The tokens that are stored or answered. *)

LEMMA StoredStep ==
  ASSUME TypeOK, TypeOK', TokensGrow, PlaceInv, StoredInv, [Next]_vars
  PROVE  StoredInv'
  <1> USE DEF credentials, clients, counters
  <1>0. /\ Len(tok) \in Nat /\ Len(tok') \in Nat /\ 1..Len(tok) \subseteq 1..Len(tok')
        /\ delivered \subseteq 1..Len(tok)
        /\ \A t \in 1..Len(tok) : Earned(t) => Earned(t)'
    BY LenProperties, EarnedKept DEF TypeOK, TokensGrow
  <1>1. ASSUME \A a \in Accounts : \/ stored'[a] \in {NoToken, stored[a]}
                                    \/ /\ stored'[a] \in 1..Len(tok) /\ tok[stored'[a]].acct = a
                                       /\ Earned(stored'[a])
        PROVE  \A a \in Accounts : stored'[a] # NoToken =>
                 stored'[a] \in 1..Len(tok') /\ tok'[stored'[a]].acct = a /\ Earned(stored[a])'
    BY <1>0, <1>1 DEF StoredInv, Earned, TokensGrow
  <1>2. ASSUME \A t \in delivered' : t \in delivered \/ (t \in 1..Len(tok) /\ Earned(t))
        PROVE  \A t \in delivered' : Earned(t)'
    BY <1>0, <1>2 DEF StoredInv
  <1>3. ASSUME NEW r \in Requests, SetLoginCookies(r) PROVE StoredInv'
    <2>1. /\ UNCHANGED delivered /\ stored' = [stored EXCEPT ![req[r].acct] = req[r].tok]
          /\ req[r].tok \in 1..Len(tok) /\ tok[req[r].tok].acct = req[r].acct /\ Earned(req[r].tok)
      BY <1>3 DEF SetLoginCookies, PlaceInv, Placed
    <2>2. QED
      BY <1>1, <1>2, <2>1 DEF StoredInv, TypeOK
  <1>4. ASSUME NEW r \in Requests, AnswerLogin(r) PROVE StoredInv'
    <2>1. /\ UNCHANGED stored /\ delivered' = delivered \cup {req[r].tok}
          /\ req[r].tok \in 1..Len(tok) /\ Earned(req[r].tok)
      BY <1>4 DEF AnswerLogin, PlaceInv, Placed
    <2>2. QED
      BY <1>1, <1>2, <2>1 DEF StoredInv
  <1>5. ASSUME NEW r \in Requests, LogoutWrite(r) PROVE StoredInv'
    BY <1>1, <1>2, <1>5 DEF StoredInv, LogoutWrite, TypeOK
  <1>6. ASSUME NEW r \in Requests, Begin(r) \/ Continue(r) \/ Cut(r),
               ~(SetLoginCookies(r) \/ AnswerLogin(r) \/ LogoutWrite(r))
        PROVE  UNCHANGED <<stored, delivered>>
    BY <1>6 DEF Begin, Continue, LoginLookup, PasskeyLogin, RedeemLookup, RefreshLookup, LogoutLookup,
         ChangeLookup, LoginVerify, LoginMethods, RedeemVerify, RefreshVerify, RefreshIssue,
         ChangeVerify, ChangeWrite, Cut
  <1>7. ASSUME ~(\E r \in Requests : Begin(r) \/ Continue(r) \/ Cut(r))
        PROVE  UNCHANGED <<stored, delivered>>
    BY <1>7 DEF Next, SessionExpires, EnableFactor, AccessExpires, vars
  <1>8. ASSUME UNCHANGED <<stored, delivered>> PROVE StoredInv'
    BY <1>1, <1>2, <1>8 DEF StoredInv
  <1>9. QED
    BY <1>3, <1>4, <1>5, <1>6, <1>7, <1>8

-----------------------------------------------------------------------------
(* The stored token is in a client's hands or about to be. *)

LEMMA ReachesStep ==
  ASSUME TypeOK, PlaceInv, StoredTokenReachesClient, [Next]_vars
  PROVE  StoredTokenReachesClient'
  <1> USE DEF credentials, clients, counters, At, StoredTokenReachesClient
  <1>1. ASSUME NEW r \in Requests, req[r].at # "answer",
               \A q \in Requests \ {r} : req'[q] = req[q], UNCHANGED <<stored, delivered, lost>>
        PROVE  StoredTokenReachesClient'
    BY <1>1
  <1>2. ASSUME NEW r \in Requests, SetLoginCookies(r) PROVE StoredTokenReachesClient'
    <2>1. /\ stored' = [stored EXCEPT ![req[r].acct] = req[r].tok]
          /\ req[r].at = "store" /\ req'[r].at = "answer" /\ req'[r].tok = req[r].tok
          /\ \A q \in Requests \ {r} : req'[q] = req[q]
          /\ UNCHANGED <<delivered, lost>>
      BY <1>2, Going DEF SetLoginCookies
    <2>2. QED
      BY <2>1 DEF TypeOK
  <1>3. ASSUME NEW r \in Requests, AnswerLogin(r) PROVE StoredTokenReachesClient'
    <2>1. /\ delivered' = delivered \cup {req[r].tok} /\ UNCHANGED <<stored, lost>>
          /\ \A q \in Requests \ {r} : req'[q] = req[q]
      BY <1>3, Ending DEF AnswerLogin
    <2>2. QED
      BY <2>1
  <1>4. ASSUME NEW r \in Requests, LogoutWrite(r) PROVE StoredTokenReachesClient'
    <2>1. /\ stored' = [stored EXCEPT ![req[r].acct] = NoToken] /\ UNCHANGED <<delivered, lost>>
          /\ req[r].at = "write" /\ \A q \in Requests \ {r} : req'[q] = req[q]
      BY <1>4, Ending DEF LogoutWrite
    <2>2. QED
      BY <2>1 DEF TypeOK
  <1>5. ASSUME NEW r \in Requests, Cut(r) PROVE StoredTokenReachesClient'
    <2>1. /\ lost' = IF req[r].at = "answer" THEN lost \cup {req[r].tok} ELSE lost
          /\ UNCHANGED <<stored, delivered>>
          /\ \A q \in Requests \ {r} : req'[q] = req[q]
      BY <1>5, Ending DEF Cut
    <2>2. QED
      BY <2>1
  <1>6. ASSUME NEW r \in Requests, Begin(r) PROVE StoredTokenReachesClient'
    <2>1. req[r].at # "answer"
      BY <1>6 DEF Begin, LoginLookup, PasskeyLogin, RedeemLookup, RefreshLookup, LogoutLookup,
           ChangeLookup, Free, PlaceInv, Placed
    <2>2. /\ UNCHANGED <<stored, delivered, lost>>
          /\ \A q \in Requests \ {r} : req'[q] = req[q]
      BY <1>6, Starting DEF Begin, LoginLookup, PasskeyLogin, RedeemLookup, RefreshLookup, LogoutLookup,
           ChangeLookup
    <2>3. QED
      BY <1>1, <2>1, <2>2
  <1>7. ASSUME NEW r \in Requests, Continue(r),
               ~(SetLoginCookies(r) \/ AnswerLogin(r) \/ LogoutWrite(r))
        PROVE  StoredTokenReachesClient'
    <2>1. req[r].at # "answer" /\ UNCHANGED <<stored, delivered, lost>>
      BY <1>7 DEF Continue, LoginVerify, LoginMethods, RedeemVerify, RefreshVerify, RefreshIssue,
           ChangeVerify, ChangeWrite
    <2>2. \A q \in Requests \ {r} : req'[q] = req[q]
      BY <1>7, Going, Ending DEF TypeOK, Continue, LoginVerify, LoginMethods, RedeemVerify,
           RefreshVerify, RefreshIssue, ChangeVerify, ChangeWrite
    <2>3. QED
      BY <1>1, <2>1, <2>2
  <1>8. ASSUME ~(\E r \in Requests : Begin(r) \/ Continue(r) \/ Cut(r))
        PROVE  StoredTokenReachesClient'
    BY <1>8 DEF Next, SessionExpires, EnableFactor, AccessExpires, vars
  <1>9. QED
    BY <1>2, <1>3, <1>4, <1>5, <1>6, <1>7, <1>8

-----------------------------------------------------------------------------
(* The invariant, and what follows from it. *)

(* The initial state satisfies the invariant. *)
THEOREM InvInit == Init => IInv
  <1> SUFFICES ASSUME Init PROVE IInv
    OBVIOUS
  <1> USE DEF Init
  <1>1. /\ tok \in Seq(TokenInfo) /\ Len(tok) = 0 /\ Len(tok) <= MaxTokens /\ 1..Len(tok) = {}
    BY EmptySeq, BoundsAssumption
  <1>2. TypeOK
    BY <1>1, BoundsAssumption DEF TypeOK, Request, Idle, Ops, Places
  <1>3. BoundInv
    <2>1. Verifying = {}
      BY DEF Verifying, At, Idle
    <2>2. Cardinality(Verifying) = 0
      BY <2>1, FS_EmptySet
    <2>3. QED
      BY <1>1, <2>2, BoundsAssumption DEF BoundInv
  <1>4. SignedInv /\ StoredInv /\ StoredTokenReachesClient
    BY <1>1 DEF SignedInv, StoredInv, StoredTokenReachesClient
  <1>5. PlaceInv /\ FreshInv
    BY DEF PlaceInv, Placed, FreshInv, Fresh, HasToken, At, Idle
  <1>6. QED
    BY <1>2, <1>3, <1>4, <1>5 DEF IInv

(* Every step keeps it. *)
THEOREM InvStep == IInv /\ [Next]_vars => IInv'
  BY TypeStep, SignedStep, PlaceStep, BoundStep, FreshStep, StoredStep, ReachesStep DEF IInv

(* It holds of every state the program can be in. *)
THEOREM InvHolds == Spec => []IInv
  BY InvInit, InvStep, PTL DEF Spec

(* Types, and the bound on token pairs, which a login respects from its lookup
   on, however many logins are in flight. *)
THEOREM TypeCorrect == Spec => []TypeOK
  <1>1. IInv => TypeOK
    BY DEF IInv
  <1>2. QED
    BY <1>1, InvHolds, PTL

(* No token pair becomes valid, and none is answered, before every check its
   login called for has passed: a passkey alone, or the password and, when the
   account had a second factor as the login began, that factor. *)
THEOREM LoginIsAlwaysProven == Spec => []LoginIsProven
  <1>1. IInv => LoginIsProven
    <2> SUFFICES ASSUME IInv, NEW t \in 1..Len(tok), t \in delivered \/ stored[tok[t].acct] = t,
                        "passkey" \notin tok[t].proofs
                 PROVE  /\ "password" \in tok[t].proofs
                        /\ tok[t].guarded => "factor" \in tok[t].proofs
      BY DEF LoginIsProven
    <2>1. tok[t].acct \in Accounts /\ t # NoToken
      BY TokenTypes DEF IInv, NoToken
    <2>2. QED
      BY <2>1 DEF IInv, SignedInv, StoredInv, Earned
  <1>2. QED
    BY <1>1, InvHolds, PTL

(* The token an account's row stores is one some client holds or is about to
   receive, unless the login that stored that token was cut before it answered. *)
THEOREM StoredTokenAlwaysReaches == Spec => []StoredTokenReachesClient
  <1>1. IInv => StoredTokenReachesClient
    BY DEF IInv
  <1>2. QED
    BY <1>1, InvHolds, PTL

(* Nothing but its own two-factor session, or a new login that signed the same
   text, makes a token that was delivered, and is no longer stored, valid again. *)
THEOREM RevokedTokensStayRevoked == Spec => RevokedStaysRevoked
  <1>1. IInv /\ [Next]_vars => [\A a \in Accounts : Revived(a) => Renewed(stored'[a])]_vars
    <2> SUFFICES ASSUME IInv, Next, NEW a \in Accounts, Revived(a) PROVE Renewed(stored'[a])
      OBVIOUS
    <2> USE DEF Revived, Renewed
    <2>1. ASSUME NEW r \in Requests, SetLoginCookies(r) PROVE Renewed(stored'[a])
      <3>1. /\ stored' = [stored EXCEPT ![req[r].acct] = req[r].tok] /\ req[r].at = "store"
            /\ \/ req[r].op = "redeem"
               \/ req[r].op = "login" /\ req[r].tok \notin delivered
        BY <2>1 DEF SetLoginCookies, IInv, PlaceInv, Placed, FreshInv, Fresh, HasToken
      <3>2. stored'[a] = req[r].tok
        BY <3>1 DEF IInv, TypeOK
      <3>3. QED
        BY <3>1, <3>2 DEF At
    <2>2. ASSUME NEW r \in Requests, LogoutWrite(r) PROVE stored'[a] \in {NoToken, stored[a]}
      BY <2>2 DEF LogoutWrite, IInv, TypeOK
    <2>3. ASSUME NEW r \in Requests, Begin(r) \/ Continue(r) \/ Cut(r),
                 ~(SetLoginCookies(r) \/ LogoutWrite(r))
          PROVE  UNCHANGED stored
      BY <2>3 DEF Begin, Continue, LoginLookup, PasskeyLogin, RedeemLookup, RefreshLookup,
           LogoutLookup, ChangeLookup, LoginVerify, LoginMethods, AnswerLogin, RedeemVerify,
           RefreshVerify, RefreshIssue, ChangeVerify, ChangeWrite, Cut
    <2>4. ASSUME ~(\E r \in Requests : Begin(r) \/ Continue(r) \/ Cut(r)) PROVE UNCHANGED stored
      BY <2>4 DEF Next, SessionExpires, EnableFactor, AccessExpires
    <2>5. QED
      BY <2>1, <2>2, <2>3, <2>4
  <1>2. QED
    BY <1>1, InvHolds, PTL DEF Spec, RevokedStaysRevoked

-----------------------------------------------------------------------------
(* TwoFactor: the OTP rows of an account.  Its definitions come through Otp,  *)
(* the instance of MCSessions.                                               *)

(* A row is inserted for a secret the user has shown to have. *)
OtpPlaceInv ==
  \A r \in OtpRequests :
    /\ Otp!At(r, "verify", "insert") =>
         otpReq[r].secret \in proven[otpReq[r].acct] \cap shown[otpReq[r].acct]
    /\ Otp!At(r, "add", "save") => otpReq[r].secret \in Secrets

(* As long as the requests of an account have not overlapped, a setup runs only
   while it has no row, and the pending secret, the secret a row is about to be
   inserted for and the secrets of the rows are the same. *)
Serial(a) ==
  /\ \A r, q \in Otp!InFlight(a) : r = q
  /\ \A r \in Otp!InFlight(a) : otpReq[r].op = "add" => rows[a] = <<>>
  /\ \A r \in Otp!InFlight(a) : Otp!At(r, "verify", "insert") =>
       pending[a] \in {None, otpReq[r].secret} /\ Otp!LoginSecrets(a) \subseteq {otpReq[r].secret}
  /\ \A s \in Otp!LoginSecrets(a) : pending[a] \in {None, s}
  /\ \A s, t \in Otp!LoginSecrets(a) : s = t
SerialInv == \A a \in Accounts : ~overlapped[a] => Serial(a)

OtpInv == Otp!TypeOK /\ OtpPlaceInv /\ Otp!RowIsProven /\ SerialInv

(* The secrets of an account with one more row. *)
LEMMA RowAdded ==
  ASSUME NEW old \in Seq(Secrets), NEW s \in Secrets
  PROVE  /\ Append(old, s) \in Seq(Secrets)
         /\ {Append(old, s)[i] : i \in DOMAIN Append(old, s)} = {old[i] : i \in DOMAIN old} \cup {s}
  <1>1. Len(old) \in Nat /\ DOMAIN old = 1..Len(old)
    BY LenProperties
  <1>2. /\ Append(old, s) \in Seq(Secrets) /\ Len(Append(old, s)) = Len(old) + 1
        /\ \A i \in 1..Len(old) : Append(old, s)[i] = old[i]
        /\ Append(old, s)[Len(old) + 1] = s
    BY AppendProperties
  <1>3. DOMAIN Append(old, s) = 1..Len(old) + 1
    BY <1>2, LenProperties
  <1>4. \A i : i \in 1..Len(old) + 1 <=> i \in 1..Len(old) \/ i = Len(old) + 1
    BY <1>1
  <1>5. QED
    BY <1>1, <1>2, <1>3, <1>4

(* An inserted row adds its secret to those a login may be checked against. *)
LEMMA RowInserted ==
  ASSUME Otp!TypeOK, NEW b \in Accounts, NEW s \in Secrets,
         rows' = [rows EXCEPT ![b] = Append(rows[b], s)]
  PROVE  /\ \A a \in Accounts \ {b} : Otp!LoginSecrets(a)' = Otp!LoginSecrets(a)
         /\ Otp!LoginSecrets(b)' = Otp!LoginSecrets(b) \cup {s}
  <1>1. rows[b] \in Seq(Secrets) /\ rows'[b] = Append(rows[b], s)
        /\ \A a \in Accounts \ {b} : rows'[a] = rows[a]
    BY DEF Otp!TypeOK
  <1>2. {Append(rows[b], s)[i] : i \in DOMAIN Append(rows[b], s)}
          = {rows[b][i] : i \in DOMAIN rows[b]} \cup {s}
    BY <1>1, RowAdded
  <1>3. Otp!LoginSecrets(b)' = Otp!LoginSecrets(b) \cup {s}
    BY <1>1, <1>2 DEF Otp!LoginSecrets
  <1>4. \A a \in Accounts \ {b} : Otp!LoginSecrets(a)' = Otp!LoginSecrets(a)
    BY <1>1 DEF Otp!LoginSecrets
  <1>5. QED
    BY <1>3, <1>4

(* A request that begins is alone with its account, or the account is marked. *)
LEMMA OtpStart ==
  ASSUME Otp!TypeOK, NEW r \in OtpRequests, NEW op \in {"add", "verify"}, NEW at \in {"cached", "insert"},
         NEW a \in Accounts, NEW s \in Secrets \cup {None}, Otp!Start(r, op, at, a, s)
  PROVE  /\ otpReq' \in [OtpRequests -> Otp!Request \cup {None}]
         /\ overlapped' \in [Accounts -> BOOLEAN]
         /\ otpReq'[r] = [op |-> op, at |-> at, acct |-> a, secret |-> s]
         /\ \A q \in OtpRequests \ {r} : otpReq'[q] = otpReq[q]
         /\ \A b \in Accounts : ~overlapped'[b] => ~overlapped[b]
         /\ ~overlapped'[a] => Otp!InFlight(a) = {}
  <1> DEFINE new == [op |-> op, at |-> at, acct |-> a, secret |-> s]
  <1>1. new \in Otp!Request
    BY DEF Otp!Request
  <1>2. otpReq' = [otpReq EXCEPT ![r] = new]
    BY DEF Otp!Start
  <1>3. overlapped' = [overlapped EXCEPT ![a] = overlapped[a] \/ Otp!InFlight(a) # {}]
    BY DEF Otp!Start
  <1>4. QED
    BY <1>1, <1>2, <1>3 DEF Otp!TypeOK

(* Every step keeps the types and the rows' proofs. *)
LEMMA OtpTypeStep ==
  ASSUME Otp!TypeOK, OtpPlaceInv, Otp!Next
  PROVE  Otp!TypeOK'
  <1> USE DEF Otp!TypeOK
  <1>0. \A r \in OtpRequests : otpReq[r] # None => otpReq[r] \in Otp!Request
    OBVIOUS
  <1>1. ASSUME NEW r \in OtpRequests, Otp!AddLookup(r) PROVE Otp!TypeOK'
    BY <1>1, OtpStart DEF Otp!AddLookup
  <1>2. ASSUME NEW r \in OtpRequests, Otp!AddCached(r) PROVE Otp!TypeOK'
    <2>1. otpReq[r] \in Otp!Request
      BY <1>0, <1>2 DEF Otp!AddCached, Otp!At
    <2>2. \A s \in Secrets : [otpReq[r] EXCEPT !.at = "save", !.secret = s] \in Otp!Request
      BY <2>1 DEF Otp!Request
    <2>3. ASSUME NEW s \in Secrets, otpReq' = [otpReq EXCEPT ![r].at = "save", ![r].secret = s]
          PROVE  otpReq' \in [OtpRequests -> Otp!Request \cup {None}]
      BY <2>2, <2>3
    <2>4. otpReq' \in [OtpRequests -> Otp!Request \cup {None}]
      BY <1>2, <2>3 DEF Otp!AddCached, Otp!Finish, Otp!Unused
    <2>5. shown' \in [Accounts -> SUBSET Secrets]
      <3>1. ASSUME NEW a \in Accounts, NEW s \in Secrets, shown' = [shown EXCEPT ![a] = @ \cup {s}]
            PROVE  shown' \in [Accounts -> SUBSET Secrets]
        BY <3>1
      <3>2. otpReq[r].acct \in Accounts /\ pending[otpReq[r].acct] \in Secrets \cup {None}
        BY <2>1 DEF Otp!Request
      <3>3. QED
        BY <1>2, <3>1, <3>2 DEF Otp!AddCached, Otp!Show
    <2>6. QED
      BY <1>2, <2>4, <2>5 DEF Otp!AddCached
  <1>3. ASSUME NEW r \in OtpRequests, Otp!AddSave(r) PROVE Otp!TypeOK'
    BY <1>0, <1>3 DEF Otp!AddSave, Otp!At, Otp!Request, Otp!Show, Otp!Finish, OtpPlaceInv
  <1>4. ASSUME NEW r \in OtpRequests, Otp!VerifyLookup(r) PROVE Otp!TypeOK'
    <2>1. PICK a \in Accounts : \E code \in shown[a] :
            /\ Otp!Start(r, "verify", "insert", a, pending[a])
            /\ proven' = [proven EXCEPT ![a] = @ \cup {code}]
      BY <1>4 DEF Otp!VerifyLookup
    <2>2. /\ otpReq' \in [OtpRequests -> Otp!Request \cup {None}]
          /\ overlapped' \in [Accounts -> BOOLEAN]
      BY <2>1, OtpStart
    <2>3. PICK code \in shown[a] : proven' = [proven EXCEPT ![a] = @ \cup {code}]
      BY <2>1
    <2>4. proven' \in [Accounts -> SUBSET Secrets]
      <3>1. code \in Secrets
        OBVIOUS
      <3>2. QED
        BY <2>3, <3>1
    <2>5. QED
      BY <1>4, <2>2, <2>4 DEF Otp!VerifyLookup
  <1>5. ASSUME NEW r \in OtpRequests, Otp!VerifyInsert(r) PROVE Otp!TypeOK'
    <2>1. otpReq[r] \in Otp!Request /\ otpReq[r].secret \in Secrets
      BY <1>0, <1>5 DEF Otp!VerifyInsert, Otp!At, Otp!Request, OtpPlaceInv
    <2>2. QED
      BY <1>5, <2>1, RowAdded DEF Otp!VerifyInsert, Otp!Request, Otp!Finish
  <1>6. ASSUME NEW a \in Accounts, Otp!PendingExpires(a) PROVE Otp!TypeOK'
    BY <1>6 DEF Otp!PendingExpires
  <1>7. ASSUME NEW a \in Accounts, Otp!DeletePending(a) PROVE Otp!TypeOK'
    <2>1. pending' \in [Accounts -> Secrets \cup {None}]
      BY <1>7 DEF Otp!DeletePending
    <2>2. deletes' \in [Accounts -> Nat]
      BY <1>7 DEF Otp!DeletePending
    <2>3. QED
      BY <1>7, <2>1, <2>2 DEF Otp!DeletePending
  <1>8. QED
    BY <1>1, <1>2, <1>3, <1>4, <1>5, <1>6, <1>7 DEF Otp!Next

(* Nothing that was shown or proven is forgotten, and the other requests wait. *)
LEMMA OtpGrows ==
  ASSUME Otp!TypeOK, Otp!Next
  PROVE  /\ \A a \in Accounts : proven[a] \subseteq proven'[a] /\ shown[a] \subseteq shown'[a]
         /\ \/ UNCHANGED otpReq
            \/ \E r \in OtpRequests :
                 /\ \/ Otp!AddLookup(r) \/ Otp!AddCached(r) \/ Otp!AddSave(r)
                    \/ Otp!VerifyLookup(r) \/ Otp!VerifyInsert(r)
                 /\ \A q \in OtpRequests \ {r} : otpReq'[q] = otpReq[q]
  <1> USE DEF Otp!TypeOK
  <1>1. ASSUME NEW r \in OtpRequests, Otp!AddLookup(r) \/ Otp!VerifyLookup(r)
        PROVE  /\ \A a \in Accounts : proven[a] \subseteq proven'[a] /\ shown[a] \subseteq shown'[a]
               /\ \A q \in OtpRequests \ {r} : otpReq'[q] = otpReq[q]
    BY <1>1 DEF Otp!AddLookup, Otp!VerifyLookup, Otp!Start
  <1>2. ASSUME NEW r \in OtpRequests, Otp!AddCached(r) \/ Otp!AddSave(r) \/ Otp!VerifyInsert(r)
        PROVE  /\ \A a \in Accounts : proven[a] \subseteq proven'[a] /\ shown[a] \subseteq shown'[a]
               /\ \A q \in OtpRequests \ {r} : otpReq'[q] = otpReq[q]
    BY <1>2 DEF Otp!AddCached, Otp!AddSave, Otp!VerifyInsert, Otp!Finish, Otp!Show
  <1>3. ASSUME NEW a \in Accounts, Otp!PendingExpires(a) \/ Otp!DeletePending(a)
        PROVE  UNCHANGED <<otpReq, proven, shown>>
    BY <1>3 DEF Otp!PendingExpires, Otp!DeletePending
  <1>4. QED
    BY <1>1, <1>2, <1>3 DEF Otp!Next

(* Every step keeps what the place of a request says of its secret. *)
LEMMA OtpPlaceStep ==
  ASSUME Otp!TypeOK, OtpPlaceInv, Otp!Next
  PROVE  OtpPlaceInv'
  <1> DEFINE P(r) == /\ Otp!At(r, "verify", "insert") =>
                         otpReq[r].secret \in proven[otpReq[r].acct] \cap shown[otpReq[r].acct]
                     /\ Otp!At(r, "add", "save") => otpReq[r].secret \in Secrets
  <1>1. ASSUME NEW q \in OtpRequests, otpReq'[q] = otpReq[q] PROVE P(q)'
    <2>1. otpReq[q] # None => otpReq[q].acct \in Accounts
      BY DEF Otp!TypeOK, Otp!Request
    <2>2. QED
      BY <1>1, <2>1, OtpGrows DEF OtpPlaceInv, Otp!At
  <1>2. ASSUME NEW r \in OtpRequests, Otp!AddLookup(r) PROVE P(r)'
    BY <1>2 DEF Otp!AddLookup, Otp!Start, Otp!At, Otp!TypeOK
  <1>3. ASSUME NEW r \in OtpRequests, Otp!AddCached(r) PROVE P(r)'
    <2>1. ASSUME Otp!Finish(r) PROVE P(r)'
      BY <2>1 DEF Otp!Finish, Otp!At, Otp!TypeOK
    <2>2. ASSUME NEW s \in Secrets, otpReq' = [otpReq EXCEPT ![r].at = "save", ![r].secret = s]
          PROVE  P(r)'
      <3>1. otpReq[r] \in Otp!Request /\ otpReq[r].op = "add"
        BY <1>3 DEF Otp!AddCached, Otp!At, Otp!TypeOK
      <3>2. otpReq'[r].op = "add" /\ otpReq'[r].secret = s
        BY <2>2, <3>1 DEF Otp!TypeOK, Otp!Request
      <3>3. QED
        BY <3>2 DEF Otp!At
    <2>3. QED
      BY <1>3, <2>1, <2>2 DEF Otp!AddCached, Otp!Unused
  <1>4. ASSUME NEW r \in OtpRequests, Otp!AddSave(r) \/ Otp!VerifyInsert(r) PROVE P(r)'
    BY <1>4 DEF Otp!AddSave, Otp!VerifyInsert, Otp!Finish, Otp!At, Otp!TypeOK
  <1>5. ASSUME NEW r \in OtpRequests, Otp!VerifyLookup(r) PROVE P(r)'
    <2>1. PICK a \in Accounts : \E code \in shown[a] :
            /\ Otp!ValidOTP(code, pending[a])
            /\ Otp!Start(r, "verify", "insert", a, pending[a])
            /\ proven' = [proven EXCEPT ![a] = @ \cup {code}]
      BY <1>5 DEF Otp!VerifyLookup
    <2>2. otpReq'[r] = [op |-> "verify", at |-> "insert", acct |-> a, secret |-> pending[a]]
      BY <2>1 DEF Otp!Start, Otp!TypeOK
    <2>3. pending[a] \in proven'[a] \cap shown'[a]
      BY <1>5, <2>1 DEF Otp!VerifyLookup, Otp!ValidOTP, Otp!TypeOK
    <2>4. QED
      BY <2>2, <2>3 DEF Otp!At
  <1>6. QED
    BY <1>1, <1>2, <1>3, <1>4, <1>5, OtpGrows DEF OtpPlaceInv

(* Every step keeps the rows among the secrets that were proven. *)
LEMMA RowsStep ==
  ASSUME Otp!TypeOK, OtpPlaceInv, Otp!RowIsProven, Otp!Next
  PROVE  Otp!RowIsProven'
  <1>1. ASSUME UNCHANGED rows PROVE Otp!RowIsProven'
    BY <1>1, OtpGrows DEF Otp!RowIsProven, Otp!LoginSecrets
  <1>2. ASSUME NEW r \in OtpRequests, Otp!VerifyInsert(r) PROVE Otp!RowIsProven'
    <2>1. PICK b \in Accounts, s \in Secrets :
            /\ s \in proven[b] \cap shown[b] /\ UNCHANGED <<proven, shown>>
            /\ rows' = [rows EXCEPT ![b] = Append(rows[b], s)]
      BY <1>2 DEF Otp!VerifyInsert, Otp!At, Otp!TypeOK, Otp!Request, OtpPlaceInv
    <2>2. /\ \A a \in Accounts \ {b} : Otp!LoginSecrets(a)' = Otp!LoginSecrets(a)
          /\ Otp!LoginSecrets(b)' = Otp!LoginSecrets(b) \cup {s}
      BY <2>1, RowInserted
    <2>3. QED
      BY <2>1, <2>2 DEF Otp!RowIsProven
  <1>3. QED
    BY <1>1, <1>2 DEF Otp!Next, Otp!AddLookup, Otp!AddCached, Otp!AddSave, Otp!VerifyLookup,
         Otp!PendingExpires, Otp!DeletePending

(* An account whose requests wait or end stays serial, whatever is deleted. *)
LEMMA SerialKept ==
  ASSUME NEW a \in Accounts, Serial(a), rows'[a] = rows[a], pending'[a] \in {pending[a], None},
         \A q \in Otp!InFlight(a)' : q \in Otp!InFlight(a) /\ otpReq'[q] = otpReq[q]
  PROVE  Serial(a)'
  <1>1. Otp!LoginSecrets(a)' = Otp!LoginSecrets(a)
    BY DEF Otp!LoginSecrets
  <1>2. QED
    BY <1>1 DEF Serial, Otp!At

(* Every step keeps what is known while the requests do not overlap. *)
LEMMA SerialStep ==
  ASSUME Otp!TypeOK, OtpPlaceInv, SerialInv, Otp!Next
  PROVE  SerialInv'
  <1> USE DEF Otp!TypeOK
  <1>0. ASSUME NEW r \in OtpRequests, NEW a \in Accounts, otpReq[r] = None \/ otpReq'[r] = None,
               \A q \in OtpRequests \ {r} : otpReq'[q] = otpReq[q],
               otpReq'[r] # None => otpReq'[r].acct # a
        PROVE  \A q \in Otp!InFlight(a)' : q \in Otp!InFlight(a) /\ otpReq'[q] = otpReq[q]
    BY <1>0 DEF Otp!InFlight
  <1>1. ASSUME NEW r \in OtpRequests, Otp!AddLookup(r) PROVE SerialInv'
    <2>1. PICK b \in Accounts : rows[b] = <<>> /\ Otp!Start(r, "add", "cached", b, None)
      BY <1>1 DEF Otp!AddLookup
    <2>2. /\ otpReq[r] = None /\ otpReq'[r] = [op |-> "add", at |-> "cached", acct |-> b, secret |-> None]
          /\ \A q \in OtpRequests \ {r} : otpReq'[q] = otpReq[q]
          /\ \A a \in Accounts : ~overlapped'[a] => ~overlapped[a]
          /\ ~overlapped'[b] => Otp!InFlight(b) = {}
          /\ UNCHANGED <<rows, pending>>
      BY <1>1, <2>1, OtpStart DEF Otp!AddLookup, Otp!Start
    <2>3. ASSUME NEW a \in Accounts \ {b}, ~overlapped'[a] PROVE Serial(a)'
      <3>1. \A q \in Otp!InFlight(a)' : q \in Otp!InFlight(a) /\ otpReq'[q] = otpReq[q]
        <4>1. otpReq'[r].acct # a
          BY <2>2
        <4>2. QED
          BY <2>2, <4>1, <1>0
      <3>2. QED
        BY <2>2, <2>3, <3>1, SerialKept DEF SerialInv
    <2>4. ASSUME ~overlapped'[b] PROVE Serial(b)'
      <3>1. Otp!InFlight(b)' \subseteq {r}
        BY <2>2, <2>4 DEF Otp!InFlight
      <3>2. Otp!LoginSecrets(b)' = {}
        BY <2>1, <2>2 DEF Otp!LoginSecrets
      <3>3. QED
        BY <2>1, <2>2, <3>1, <3>2 DEF Serial, Otp!At
    <2>5. QED
      BY <2>3, <2>4 DEF SerialInv
  <1>2. ASSUME NEW r \in OtpRequests, Otp!AddCached(r) PROVE SerialInv'
    <2>1. otpReq[r] \in Otp!Request /\ otpReq[r] # None /\ otpReq[r].op = "add"
      BY <1>2 DEF Otp!AddCached, Otp!At
    <2>2. UNCHANGED <<rows, pending, overlapped>>
      BY <1>2 DEF Otp!AddCached
    <2>3. CASE Otp!Finish(r)
      <3>1. otpReq'[r] = None /\ \A q \in OtpRequests \ {r} : otpReq'[q] = otpReq[q]
        BY <2>3 DEF Otp!Finish
      <3>2. QED
        BY <1>0, <2>2, <3>1, SerialKept DEF SerialInv
    <2>4. ASSUME NEW s \in Secrets, otpReq' = [otpReq EXCEPT ![r].at = "save", ![r].secret = s]
          PROVE  SerialInv'
      <3>1. /\ otpReq'[r].op = "add" /\ otpReq'[r].acct = otpReq[r].acct
            /\ \A q \in OtpRequests \ {r} : otpReq'[q] = otpReq[q]
        BY <2>1, <2>4 DEF Otp!Request
      <3>2. \A a \in Accounts : /\ Otp!InFlight(a)' \subseteq Otp!InFlight(a)
                               /\ Otp!LoginSecrets(a)' = Otp!LoginSecrets(a)
        BY <2>1, <2>2, <3>1 DEF Otp!InFlight, Otp!LoginSecrets
      <3>3. ASSUME NEW a \in Accounts, Serial(a) PROVE Serial(a)'
        <4>1. \A q \in Otp!InFlight(a)' : /\ otpReq'[q].op = otpReq[q].op
                                          /\ Otp!At(q, "verify", "insert")' => otpReq'[q] = otpReq[q]
          BY <2>1, <3>1 DEF Otp!InFlight, Otp!At
        <4>2. QED
          BY <2>2, <3>2, <3>3, <4>1 DEF Serial, Otp!At
      <3>4. QED
        BY <2>2, <3>3 DEF SerialInv
    <2>5. QED
      BY <1>2, <2>3, <2>4 DEF Otp!AddCached, Otp!Unused
  <1>3. ASSUME NEW r \in OtpRequests, Otp!AddSave(r) PROVE SerialInv'
    <2>1. PICK b \in Accounts : otpReq[r] # None /\ otpReq[r].acct = b /\ otpReq[r].op = "add"
      BY <1>3 DEF Otp!AddSave, Otp!At, Otp!Request
    <2>2. /\ UNCHANGED <<rows, overlapped>> /\ \A a \in Accounts \ {b} : pending'[a] = pending[a]
          /\ otpReq'[r] = None /\ \A q \in OtpRequests \ {r} : otpReq'[q] = otpReq[q]
      BY <1>3, <2>1 DEF Otp!AddSave, Otp!Finish
    <2>3. ASSUME NEW a \in Accounts \ {b}, Serial(a) PROVE Serial(a)'
      BY <1>0, <2>2, <2>3, SerialKept
    <2>4. ASSUME Serial(b) PROVE Serial(b)'
      <3>1. rows[b] = <<>> /\ \A q \in Otp!InFlight(b) : q = r
        BY <2>1, <2>4 DEF Serial, Otp!InFlight
      <3>2. Otp!InFlight(b)' = {}
        BY <2>2, <3>1 DEF Otp!InFlight
      <3>3. Otp!LoginSecrets(b)' = {}
        BY <2>2, <3>1 DEF Otp!LoginSecrets
      <3>4. QED
        BY <3>2, <3>3 DEF Serial
    <2>5. QED
      BY <2>2, <2>3, <2>4 DEF SerialInv
  <1>4. ASSUME NEW r \in OtpRequests, Otp!VerifyLookup(r) PROVE SerialInv'
    <2>1. PICK b \in Accounts : pending[b] # None /\ Otp!Start(r, "verify", "insert", b, pending[b])
      BY <1>4 DEF Otp!VerifyLookup
    <2>2. /\ otpReq[r] = None /\ otpReq'[r] = [op |-> "verify", at |-> "insert", acct |-> b, secret |-> pending[b]]
          /\ \A q \in OtpRequests \ {r} : otpReq'[q] = otpReq[q]
          /\ \A a \in Accounts : ~overlapped'[a] => ~overlapped[a]
          /\ ~overlapped'[b] => Otp!InFlight(b) = {}
          /\ UNCHANGED <<rows, pending>>
      <3>1. otpReq[r] = None /\ UNCHANGED <<rows, pending>>
        BY <1>4, <2>1 DEF Otp!VerifyLookup, Otp!Start
      <3>2. pending[b] \in Secrets \cup {None}
        OBVIOUS
      <3>3. QED
        BY <2>1, <3>1, <3>2, OtpStart
    <2>3. ASSUME NEW a \in Accounts \ {b}, ~overlapped'[a] PROVE Serial(a)'
      <3>1. \A q \in Otp!InFlight(a)' : q \in Otp!InFlight(a) /\ otpReq'[q] = otpReq[q]
        <4>1. otpReq'[r].acct # a
          BY <2>2
        <4>2. QED
          BY <2>2, <4>1, <1>0
      <3>2. QED
        BY <2>2, <2>3, <3>1, SerialKept DEF SerialInv
    <2>4. ASSUME ~overlapped'[b] PROVE Serial(b)'
      <3>1. Otp!InFlight(b)' \subseteq {r}
        BY <2>2, <2>4 DEF Otp!InFlight
      <3>2. Otp!LoginSecrets(b)' = Otp!LoginSecrets(b) /\ Serial(b)
        BY <2>2, <2>4 DEF Otp!LoginSecrets, SerialInv
      <3>3. QED
        BY <2>1, <2>2, <3>1, <3>2 DEF Serial
    <2>5. QED
      BY <2>3, <2>4 DEF SerialInv
  <1>5. ASSUME NEW r \in OtpRequests, Otp!VerifyInsert(r) PROVE SerialInv'
    <2>1. PICK b \in Accounts, s \in Secrets :
            /\ Otp!At(r, "verify", "insert") /\ otpReq[r].acct = b /\ otpReq[r].secret = s
            /\ rows' = [rows EXCEPT ![b] = Append(rows[b], s)]
            /\ UNCHANGED <<pending, overlapped>>
            /\ otpReq'[r] = None /\ \A q \in OtpRequests \ {r} : otpReq'[q] = otpReq[q]
      BY <1>5 DEF Otp!VerifyInsert, Otp!At, Otp!Request, Otp!Finish, OtpPlaceInv
    <2>2. ASSUME NEW a \in Accounts \ {b}, Serial(a) PROVE Serial(a)'
      BY <1>0, <2>1, <2>2, SerialKept
    <2>3. ASSUME Serial(b) PROVE Serial(b)'
      <3>1. Otp!InFlight(b) = {r} /\ pending[b] \in {None, s} /\ Otp!LoginSecrets(b) \subseteq {s}
        BY <2>1, <2>3 DEF Serial, Otp!InFlight, Otp!At
      <3>2. Otp!InFlight(b)' = {}
        BY <2>1, <3>1 DEF Otp!InFlight
      <3>3. Otp!LoginSecrets(b)' = {s}
        <4>1. Otp!LoginSecrets(b)' = Otp!LoginSecrets(b) \cup {s}
          BY <2>1, RowInserted
        <4>2. QED
          BY <3>1, <4>1
      <3>4. QED
        BY <2>1, <3>1, <3>2, <3>3 DEF Serial
    <2>4. QED
      BY <2>1, <2>2, <2>3 DEF SerialInv
  <1>6. ASSUME NEW b \in Accounts, Otp!PendingExpires(b) \/ Otp!DeletePending(b) PROVE SerialInv'
    <2>1. UNCHANGED <<rows, otpReq, overlapped>> /\ \A a \in Accounts : pending'[a] \in {pending[a], None}
      BY <1>6 DEF Otp!PendingExpires, Otp!DeletePending
    <2>2. QED
      BY <2>1, SerialKept DEF SerialInv, Otp!InFlight
  <1>7. QED
    BY <1>1, <1>2, <1>3, <1>4, <1>5, <1>6 DEF Otp!Next

(* The OTP rows of every account hold secrets the user has proven to have, and
   one only unless requests of the account overlapped. *)
THEOREM LoginSecretAlwaysWorks == Otp!Spec => []LoginSecretWorks
  <1>1. Otp!Init => OtpInv
    <2> SUFFICES ASSUME Otp!Init PROVE OtpInv
      OBVIOUS
    <2>1. Otp!TypeOK /\ OtpPlaceInv
      BY EmptySeq DEF Otp!Init, Otp!TypeOK, OtpPlaceInv, Otp!At
    <2>2. \A a \in Accounts : Otp!LoginSecrets(a) = {} /\ Otp!InFlight(a) = {}
      BY DEF Otp!Init, Otp!LoginSecrets, Otp!InFlight
    <2>3. QED
      BY <2>1, <2>2 DEF OtpInv, Otp!RowIsProven, SerialInv, Serial
  <1>2. OtpInv /\ [Otp!Next]_(Otp!vars) => OtpInv'
    <2>1. ASSUME OtpInv, Otp!Next PROVE OtpInv'
      BY <2>1, OtpTypeStep, OtpPlaceStep, RowsStep, SerialStep DEF OtpInv
    <2>2. ASSUME OtpInv, UNCHANGED Otp!vars PROVE OtpInv'
      <3>1. UNCHANGED <<rows, pending, deletes, shown, otpReq, proven, overlapped>>
        BY <2>2 DEF Otp!vars
      <3>2. Otp!TypeOK' /\ OtpPlaceInv' /\ Otp!RowIsProven'
        BY <2>2, <3>1 DEF OtpInv, Otp!TypeOK, OtpPlaceInv, Otp!RowIsProven, Otp!LoginSecrets, Otp!At
      <3>3. ASSUME NEW a \in Accounts, Serial(a) PROVE Serial(a)'
        BY <3>1, <3>3, SerialKept DEF Otp!InFlight
      <3>4. QED
        BY <2>2, <3>1, <3>2, <3>3 DEF OtpInv, SerialInv
    <2>3. QED
      BY <2>1, <2>2
  <1>3. OtpInv => LoginSecretWorks
    BY DEF OtpInv, LoginSecretWorks, Otp!LoginSecretWorks, Otp!OneSecret, SerialInv, Serial
  <1>4. QED
    BY <1>1, <1>2, <1>3, PTL DEF Otp!Spec

-----------------------------------------------------------------------------
(* Every execution of the two machines in one run is one of Sessions and one of
   TwoFactor: what is proved of either holds of the run. *)
THEOREM RunOfBoth == MCSpec => Spec /\ Otp!Spec
  <1>1. MCInit => Init /\ Otp!Init
    BY DEF MCInit
  <1>2. [MCNext]_<<vars, otpVars>> => [Next]_vars /\ [Otp!Next]_(Otp!vars)
    BY DEF MCNext, otpVars, Otp!vars
  <1>3. QED
    BY <1>1, <1>2, PTL DEF MCSpec, Spec, Otp!Spec
=============================================================================
