--------------------------- MODULE PasskeysProofs ---------------------------
(* Proofs about Passkeys, for any accounts, sessions, passkeys and requests. *)
EXTENDS Passkeys, TLAPS

-----------------------------------------------------------------------------
(* The inductive invariant. *)

(* An answer was made for options that were generated, a new passkey for those
   of its own account and domain. *)
AnswersInv ==
  \A a \in answers :
    /\ a.ch \in 1..Len(options) /\ a.ceremony = options[a.ch].ceremony
    /\ a.ceremony = "get" => a.counter > 0
    /\ a.ceremony = "create" => /\ options[a.ch].domain = Domain[a.pk]
                                /\ options[a.ch].subject = Owner[a.pk]

(* A challenge is kept only under the key it was generated for. *)
SavedInv ==
  \A k \in Keys : saved[k] # None => saved[k] \in 1..Len(options) /\ options[saved[k]] = k

OwnerInv == \A p \in Passkeys : row[p] # None => row[p].acct = Owner[p]

(* An accepted answer was for its key, was not late, and its challenge is gone. *)
AcceptedInv ==
  \A x \in accepted :
    /\ x.answer \in answers /\ options[x.answer.ch] = x.key /\ ~x.late
    /\ x.key.domain = Domain[x.answer.pk]
    /\ \A k \in Keys : saved[k] # x.answer.ch

(* What a verification is about: its key is that of the ceremony and, once the
   row of the passkey has been found, of the passkey's domain. *)
Meant(x) ==
  /\ x.answer \in answers /\ x.key.ceremony = x.answer.ceremony
  /\ x.answer.ceremony = "create" => x.at \in {"get", "delete", "write"}
  /\ x.answer.ceremony = "get" /\ (x.key.domain = "login" \/ x.at \in {"write", "key"})
       => x.key.domain = Domain[x.answer.pk]

(* The row of the passkey has been read where an assertion needs it. *)
HasRow(x) ==
  /\ x.answer.ceremony = "get" /\ x.at = "write" => row[x.answer.pk] # None
  /\ x.answer.ceremony = "get" /\ x.key.domain = "login" /\ x.at \in {"get", "delete"} => row[x.answer.pk] # None
  /\ x.at = "key" => row[x.answer.pk] # None /\ x.newKey # None

(* The challenge it read was kept under its key; past the deletion it is under no
   key any more, and one that was used before it began is not what it read. *)
Holds(x) ==
  /\ x.ch # None => x.ch \in 1..Len(options) /\ options[x.ch] = x.key
  /\ x.ch # None /\ x.at # "delete" => \A k \in Keys : saved[k] # x.ch
  /\ x.late => Used(x.answer.ch) /\ x.ch # x.answer.ch
RequestInv == \A r \in Requests : req[r] # None => Meant(req[r]) /\ HasRow(req[r]) /\ Holds(req[r])

IInv == TypeOK /\ AnswersInv /\ SavedInv /\ OwnerInv /\ AcceptedInv /\ RequestInv

-----------------------------------------------------------------------------
(* Keys, options and what every step keeps. *)

LEMMA KeyFacts ==
  /\ \A d \in {"login", "twofactor"}, c \in {"create", "get"}, a \in Accounts :
       Key(d, c, a) \in Keys /\ Key(d, c, a).domain = d /\ Key(d, c, a).ceremony = c /\ Key(d, c, a).subject = a
  /\ \A s \in LoginSessions :
       /\ Key("login", "get", s) \in Keys
       /\ Key("login", "get", s).domain = "login" /\ Key("login", "get", s).ceremony = "get"
  /\ \A k \in Keys : /\ k.domain \in {"login", "twofactor"} /\ k.ceremony \in {"create", "get"}
                     /\ k.ceremony = "create" => k.subject \in Accounts
  <1>1. ASSUME NEW d \in {"login", "twofactor"}, NEW c \in {"create", "get"}, NEW a \in Accounts
        PROVE  Key(d, c, a) \in Keys /\ Key(d, c, a).domain = d /\ Key(d, c, a).ceremony = c
               /\ Key(d, c, a).subject = a
    <2>1. Key(d, c, a) \in {Key(e, f, b) : e \in {"login", "twofactor"}, f \in {"create", "get"}, b \in Accounts}
      OBVIOUS
    <2>2. QED
      BY <2>1 DEF Key, Keys
  <1>2. ASSUME NEW s \in LoginSessions
        PROVE  /\ Key("login", "get", s) \in Keys
               /\ Key("login", "get", s).domain = "login" /\ Key("login", "get", s).ceremony = "get"
    <2>1. Key("login", "get", s) \in {Key("login", "get", t) : t \in LoginSessions}
      OBVIOUS
    <2>2. QED
      BY <2>1 DEF Key, Keys
  <1>3. ASSUME NEW k \in Keys
        PROVE  /\ k.domain \in {"login", "twofactor"} /\ k.ceremony \in {"create", "get"}
               /\ k.ceremony = "create" => k.subject \in Accounts
    <2>1. CASE k \in {Key(e, f, b) : e \in {"login", "twofactor"}, f \in {"create", "get"}, b \in Accounts}
      BY <2>1 DEF Key
    <2>2. CASE k \in {Key("login", "get", t) : t \in LoginSessions}
      BY <2>2 DEF Key
    <2>3. QED
      BY <2>1, <2>2 DEF Keys
  <1>4. QED
    BY <1>1, <1>2, <1>3

(* The parts of a request in flight have their types. *)
LEMMA RequestParts ==
  ASSUME TypeOK, NEW r \in Requests, req[r] # None
  PROVE  /\ req[r] \in Request /\ req[r].key \in Keys /\ req[r].answer \in Answer
         /\ req[r].answer.pk \in Passkeys /\ req[r].answer.counter \in Counters /\ req[r].answer.ch \in Challenges
         /\ req[r].ch \in Challenges \cup {None} /\ req[r].counter \in Counters
         /\ req[r].newKey \in SymmetricKeys \cup {None} /\ req[r].seenKey \in SymmetricKeys \cup {None}
         /\ req[r].late \in BOOLEAN
  BY DEF TypeOK, Request, Answer

(* Options, answers and rows stay; a key loses its challenge or gets a new one. *)
Grows ==
  /\ \A c \in 1..Len(options) : c \in 1..Len(options)' /\ options'[c] = options[c]
  /\ answers \subseteq answers' /\ accepted \subseteq accepted'
  /\ \A p \in Passkeys : row[p] # None => row'[p] # None
  /\ \A k \in Keys : saved'[k] = saved[k] \/ saved'[k] = None \/ saved'[k] \notin 1..Len(options)

(* What is known of a request is not disturbed while challenges, answers and
   rows only grow. *)
LEMMA RequestKept ==
  ASSUME TypeOK, AnswersInv, Grows, NEW x \in Request, Meant(x), HasRow(x), Holds(x)
  PROVE  (Meant(x) /\ HasRow(x) /\ Holds(x))'
  <1>1. Meant(x)'
    BY DEF Grows, Meant
  <1>2. HasRow(x)'
    BY DEF Grows, HasRow, Request, Answer
  <1>3. Used(x.answer.ch) => Used(x.answer.ch)'
    BY DEF Grows, Used
  <1>4. Holds(x)'
    BY <1>3, NoneAssumption DEF Grows, Holds, TypeOK, Request
  <1>5. QED
    BY <1>1, <1>2, <1>4

(* Nor is what is known of an answer that was accepted. *)
LEMMA AcceptedKept ==
  ASSUME IInv, Grows, NEW x \in accepted
  PROVE  /\ x.answer \in answers' /\ options'[x.answer.ch] = x.key /\ ~x.late
         /\ x.key.domain = Domain[x.answer.pk]
         /\ \A k \in Keys : saved'[k] # x.answer.ch
  <1>1. x.answer \in answers /\ options[x.answer.ch] = x.key /\ ~x.late
        /\ x.key.domain = Domain[x.answer.pk]
        /\ \A k \in Keys : saved[k] # x.answer.ch
    BY DEF IInv, AcceptedInv
  <1>2. x.answer.ch \in 1..Len(options)
    BY <1>1 DEF IInv, AnswersInv
  <1>3. x.answer.ch # None
    BY <1>1, NoneAssumption DEF IInv, TypeOK, Answer
  <1>4. QED
    BY <1>1, <1>2, <1>3 DEF Grows

(* A step of a browser, of Redis, or that generates options. *)
LEMMA Around ==
  ASSUME IInv, Grows, UNCHANGED <<row, req, accepted>>, TypeOK', AnswersInv', SavedInv'
  PROVE  IInv'
  <1>1. OwnerInv'
    BY DEF IInv, OwnerInv
  <1>2. AcceptedInv'
    BY AcceptedKept DEF AcceptedInv
  <1>3. ASSUME NEW r \in Requests, req'[r] # None
        PROVE  (Meant(req[r]) /\ HasRow(req[r]) /\ Holds(req[r]))'
    <2>1. PICK x \in Request : req[r] = x /\ req'[r] = x /\ Meant(x) /\ HasRow(x) /\ Holds(x)
      BY <1>3 DEF IInv, TypeOK, RequestInv
    <2>2. (Meant(x) /\ HasRow(x) /\ Holds(x))'
      BY <2>1, RequestKept DEF IInv
    <2>3. QED
      BY <2>1, <2>2
  <1>4. QED
    BY <1>1, <1>2, <1>3 DEF IInv, RequestInv

(* A step of a verification: it moves, the others wait. *)
LEMMA Within ==
  ASSUME IInv, Grows, NEW r \in Requests, NEW x \in Request \cup {None}, req' = [req EXCEPT ![r] = x],
         x # None => (Meant(x) /\ HasRow(x) /\ Holds(x))'
  PROVE  RequestInv' /\ req' \in [Requests -> Request \cup {None}]
  <1>1. /\ req' \in [Requests -> Request \cup {None}]
        /\ req'[r] = x /\ \A t \in Requests \ {r} : req'[t] = req[t]
    BY DEF IInv, TypeOK
  <1>2. ASSUME NEW t \in Requests, t # r, req'[t] # None
        PROVE  (Meant(req[t]) /\ HasRow(req[t]) /\ Holds(req[t]))'
    <2>1. PICK y \in Request : req[t] = y /\ req'[t] = y /\ Meant(y) /\ HasRow(y) /\ Holds(y)
      BY <1>1, <1>2 DEF IInv, TypeOK, RequestInv
    <2>2. (Meant(y) /\ HasRow(y) /\ Holds(y))'
      BY <2>1, RequestKept DEF IInv
    <2>3. QED
      BY <2>1, <2>2
  <1>3. QED
    BY <1>1, <1>2 DEF RequestInv

(* No passkey is made and no challenge is out. *)
THEOREM InvInit == Init => IInv
  <1> SUFFICES ASSUME Init PROVE IInv
    OBVIOUS
  <1>1. options \in Seq(Keys) /\ Len(options) = 0 /\ Len(options) <= MaxChallenges
    BY BoundsAssumption DEF Init
  <1>2. TypeOK
    BY <1>1 DEF Init, TypeOK
  <1>3. QED
    BY <1>2 DEF Init, IInv, AnswersInv, SavedInv, OwnerInv, AcceptedInv, RequestInv

-----------------------------------------------------------------------------
(* The steps around the verifications. *)

LEMMA Saving ==
  ASSUME IInv, NEW key \in Keys, SaveOptions(key)
  PROVE  IInv'
  <1> DEFINE n == Len(options) + 1
  <1>1. options' = Append(options, key) /\ options \in Seq(Keys) /\ Len(options) \in Nat /\ Len(options) < MaxChallenges
        /\ saved' = [saved EXCEPT ![key] = n] /\ UNCHANGED <<row, device, answers, req, accepted>>
    BY DEF SaveOptions, IInv, TypeOK
  <1>2. /\ options' \in Seq(Keys) /\ Len(options') = n /\ options'[n] = key
        /\ \A c \in 1..Len(options) : c \in 1..Len(options') /\ options'[c] = options[c]
    BY <1>1
  <1>3. n \in Challenges /\ n \notin 1..Len(options)
    BY <1>1, BoundsAssumption DEF Challenges
  <1>4. /\ saved' \in [Keys -> Challenges \cup {None}] /\ saved'[key] = n
        /\ \A k \in Keys \ {key} : saved'[k] = saved[k]
    BY <1>1, <1>3 DEF IInv, TypeOK
  <1>5. Grows
    BY <1>1, <1>2, <1>3, <1>4 DEF Grows
  <1>6. TypeOK'
    BY <1>1, <1>2, <1>3, <1>4, BoundsAssumption DEF IInv, TypeOK, Challenges
  <1>7. AnswersInv'
    BY <1>1, <1>2 DEF IInv, AnswersInv
  <1>8. SavedInv'
    BY <1>2, <1>3, <1>4, <1>1 DEF IInv, SavedInv
  <1>9. QED
    BY <1>1, <1>5, <1>6, <1>7, <1>8, Around

(* New options replace the pending ones of their key, never an old challenge. *)
LEMMA Generating == ASSUME IInv, Generate PROVE IInv'
  <1>1. ASSUME NEW a \in Accounts, LoginRegistrationOptions(a) \/ TwoFactorRegistrationOptions(a)
        PROVE  IInv'
    BY <1>1, KeyFacts, Saving DEF LoginRegistrationOptions, TwoFactorRegistrationOptions
  <1>2. ASSUME NEW a \in Accounts, TwoFactorAuthenticationOptions(a)
        PROVE  IInv'
    BY <1>2, KeyFacts, Saving DEF TwoFactorAuthenticationOptions
  <1>3. ASSUME NEW a \in Accounts, LoginAuthenticationOptions(a)
        PROVE  IInv'
    BY <1>3, KeyFacts, Saving DEF LoginAuthenticationOptions
  <1>4. ASSUME NEW s \in LoginSessions, LoginSessionOptions(s)
        PROVE  IInv'
    BY <1>4, KeyFacts, Saving DEF LoginSessionOptions
  <1>5. QED
    BY <1>1, <1>2, <1>3, <1>4 DEF Generate

(* A challenge whose TTL is over is gone, the answers to it are not. *)
LEMMA Expiring == ASSUME IInv, NEW k \in Keys, ChallengeExpires(k) PROVE IInv'
  <1>1. saved' = [saved EXCEPT ![k] = None] /\ UNCHANGED <<options, row, device, answers, req, accepted>>
    BY DEF ChallengeExpires
  <1>2. Grows /\ TypeOK'
    BY <1>1 DEF Grows, IInv, TypeOK
  <1>3. AnswersInv' /\ SavedInv'
    BY <1>1 DEF IInv, AnswersInv, SavedInv, TypeOK
  <1>4. QED
    BY <1>1, <1>2, <1>3, Around

(* Browser and authenticator answer the options they were shown. *)
LEMMA Signing ==
  ASSUME IInv, NEW p \in Passkeys, NEW c \in Challenges, CreatePasskey(p, c) \/ Sign(p, c)
  PROVE  IInv'
  <1>1. PICK n \in Counters, a \in Answer :
          /\ device' = [device EXCEPT ![p] = n] /\ answers' = answers \cup {a}
          /\ a.ch \in 1..Len(options) /\ a.ceremony = options[a.ch].ceremony
          /\ a.ceremony = "get" => a.counter > 0
          /\ a.ceremony = "create" => /\ options[a.ch].domain = Domain[a.pk]
                                      /\ options[a.ch].subject = Owner[a.pk]
    <2>1. CASE CreatePasskey(p, c)
      <3> DEFINE b == [ceremony |-> "create", pk |-> p, ch |-> c, counter |-> 0]
      <3>1. 0 \in Counters /\ b \in Answer
        BY BoundsAssumption DEF Counters, Answer
      <3>2. Owner[p] \in Accounts /\ Domain[p] \in {"login", "twofactor"}
        BY MappingAssumption
      <3>3. /\ options[c].ceremony = "create" /\ options[c].domain = Domain[p]
            /\ options[c].subject = Owner[p]
        BY <2>1, <3>2, KeyFacts DEF CreatePasskey
      <3>4. QED
        BY <2>1, <3>1, <3>3 DEF CreatePasskey
    <2>2. CASE Sign(p, c)
      <3> DEFINE n == device[p] + 1
                 b == [ceremony |-> "get", pk |-> p, ch |-> c, counter |-> n]
      <3>1. n \in Counters /\ n > 0
        BY <2>2, BoundsAssumption DEF Sign, IInv, TypeOK, Counters
      <3>2. b \in Answer
        BY <3>1 DEF Answer
      <3>3. QED
        BY <2>2, <3>1, <3>2 DEF Sign
    <2>3. QED
      BY <2>1, <2>2
  <1>2. UNCHANGED <<options, saved, row, req, accepted>>
    BY DEF CreatePasskey, Sign
  <1>3. Grows /\ TypeOK'
    BY <1>1, <1>2 DEF Grows, IInv, TypeOK
  <1>4. AnswersInv' /\ SavedInv'
    BY <1>1, <1>2 DEF IInv, AnswersInv, SavedInv
  <1>5. QED
    BY <1>2, <1>3, <1>4, Around

-----------------------------------------------------------------------------
(* The steps of a verification. *)

LEMMA Starting ==
  ASSUME IInv, NEW r \in Requests, NEW at \in {"lookup", "get"}, NEW key \in Keys, NEW answer \in answers,
         NEW newKey \in SymmetricKeys \cup {None}, NEW seenKey \in SymmetricKeys \cup {None},
         Start(r, at, key, answer, newKey, seenKey),
         key.ceremony = answer.ceremony, answer.ceremony = "create" => at = "get",
         answer.ceremony = "get" /\ key.domain = "login" => at = "lookup" /\ Domain[answer.pk] = "login"
  PROVE  IInv'
  <1> DEFINE z == [at |-> at, key |-> key, answer |-> answer, ch |-> None, counter |-> 0,
                   newKey |-> newKey, seenKey |-> seenKey, late |-> Used(answer.ch)]
  <1>1. PICK x \in Request : x = z
    <2>1. 0 \in Counters /\ answer \in Answer /\ Used(answer.ch) \in BOOLEAN
      BY BoundsAssumption DEF Counters, IInv, TypeOK, Used
    <2>2. QED
      BY <2>1 DEF Request
  <1>2. req' = [req EXCEPT ![r] = x] /\ UNCHANGED <<options, saved, row, device, answers, accepted>>
    BY <1>1 DEF Start
  <1>3. /\ x.at = at /\ x.key = key /\ x.answer = answer /\ x.ch = None /\ x.newKey = newKey
        /\ x.late => Used(answer.ch)
    BY <1>1
  <1>4. Grows
    BY <1>2 DEF Grows
  <1>5. answer.ch # None
    BY NoneAssumption DEF IInv, TypeOK, Answer
  <1>6. Meant(x)' /\ HasRow(x)'
    BY <1>2, <1>3 DEF Meant, HasRow
  <1>7. Holds(x)'
    BY <1>2, <1>3, <1>5 DEF Holds, Used
  <1>8. RequestInv' /\ req' \in [Requests -> Request \cup {None}]
    BY <1>2, <1>4, <1>6, <1>7, Within
  <1>9. QED
    BY <1>2, <1>8 DEF IInv, TypeOK, AnswersInv, SavedInv, OwnerInv, AcceptedInv

(* A request arrives with an answer, meant for its own key or not. *)
LEMMA Opening ==
  ASSUME IInv, NEW r \in Requests,
         VerifyRegistration(r) \/ Authenticate(r) \/ PasskeyLogin(r) \/ TwoFactorLogin(r)
  PROVE  IInv'
  <1>1. \A a \in answers : a.pk \in Passkeys /\ Domain[a.pk] \in {"login", "twofactor"} /\ Owner[a.pk] \in Accounts
    BY MappingAssumption DEF IInv, TypeOK, Answer
  <1>2. \A p \in Passkeys : row[p] # None => row[p].acct \in Accounts /\ row[p].symKey \in SymmetricKeys \cup {None}
    BY DEF IInv, TypeOK, Rows
  <1>3. CASE VerifyRegistration(r)
    <2>1. PICK answer \in answers, d \in {"login", "twofactor"}, a \in Accounts :
            /\ answer.ceremony = "create"
            /\ Start(r, "get", Key(d, "create", a), answer, None, None)
      BY <1>3 DEF VerifyRegistration
    <2>2. Key(d, "create", a) \in Keys /\ Key(d, "create", a).ceremony = "create"
      BY KeyFacts
    <2>3. QED
      BY <2>1, <2>2, Starting
  <1>4. CASE Authenticate(r)
    <2>1. PICK answer \in answers, n \in SymmetricKeys \cup {None} :
            /\ answer.ceremony = "get" /\ Domain[answer.pk] = "login" /\ row[answer.pk] # None
            /\ Start(r, "lookup", Key("login", "get", row[answer.pk].acct), answer, n, row[answer.pk].symKey)
      BY <1>4 DEF Authenticate
    <2> DEFINE k == Key("login", "get", row[answer.pk].acct)
    <2>2. k \in Keys /\ k.domain = "login" /\ k.ceremony = "get" /\ row[answer.pk].symKey \in SymmetricKeys \cup {None}
      BY <1>1, <1>2, <2>1, KeyFacts
    <2> HIDE DEF k
    <2>3. Start(r, "lookup", k, answer, n, row[answer.pk].symKey)
      BY <2>1 DEF k
    <2>4. QED
      BY <2>1, <2>2, <2>3, Starting
  <1>5. CASE PasskeyLogin(r)
    <2>1. PICK answer \in answers, s \in LoginSessions \cup Accounts :
            /\ answer.ceremony = "get" /\ Domain[answer.pk] = "login"
            /\ Start(r, "lookup", Key("login", "get", s), answer, None, None)
      BY <1>5 DEF PasskeyLogin
    <2>2. /\ Key("login", "get", s) \in Keys /\ Key("login", "get", s).domain = "login"
          /\ Key("login", "get", s).ceremony = "get"
      BY KeyFacts
    <2>3. QED
      BY <2>1, <2>2, Starting
  <1>6. CASE TwoFactorLogin(r)
    <2>1. PICK answer \in answers, a \in Accounts :
            /\ answer.ceremony = "get"
            /\ Start(r, "get", Key("twofactor", "get", a), answer, None, None)
      BY <1>6 DEF TwoFactorLogin
    <2>2. /\ Key("twofactor", "get", a) \in Keys /\ Key("twofactor", "get", a).domain = "twofactor"
          /\ Key("twofactor", "get", a).ceremony = "get"
      BY KeyFacts
    <2>3. QED
      BY <2>1, <2>2, Starting
  <1>7. QED
    BY <1>3, <1>4, <1>5, <1>6

(* A request that ends leaves what was accepted. *)
LEMMA Finishing ==
  ASSUME IInv, NEW r \in Requests, Finish(r), UNCHANGED <<options, saved, row, device, answers, accepted>>
  PROVE  IInv'
  <1>1. Grows
    BY DEF Grows
  <1>2. RequestInv' /\ req' \in [Requests -> Request \cup {None}]
    BY <1>1, Within DEF Finish
  <1>3. QED
    BY <1>2 DEF IInv, TypeOK, AnswersInv, SavedInv, OwnerInv, AcceptedInv

(* The read of the challenge, and of the row, before the check. *)
LEMMA Looking == ASSUME IInv, NEW r \in Requests, Lookup(r) PROVE IInv'
  <1> DEFINE p == req[r].answer.pk
  <1>1. /\ req[r] # None /\ req[r].at = "lookup" /\ UNCHANGED <<options, saved, row, device, answers, accepted>>
        /\ req[r] \in Request /\ p \in Passkeys /\ Meant(req[r]) /\ Holds(req[r]) /\ req[r].key \in Keys
    BY RequestParts DEF Lookup, IInv, RequestInv
  <1>2. CASE row[p] = None \/ Domain[p] # req[r].key.domain
    BY <1>1, <1>2, Finishing DEF Lookup
  <1>3. CASE row[p] # None /\ Domain[p] = req[r].key.domain
    <2> DEFINE y == [req[r] EXCEPT !.counter = row[p].counter,
                                   !.at = IF req[r].key.domain = "login" THEN "get" ELSE "write"]
    <2>1. row[p].counter \in Counters
      BY <1>1, <1>3 DEF IInv, TypeOK, Rows
    <2>2. y \in Request
      BY <1>1, <2>1 DEF Request
    <2>3. req' = [req EXCEPT ![r] = y]
      BY <1>1, <1>3 DEF Lookup, IInv, TypeOK
    <2>4. PICK x \in Request : x = y /\ req' = [req EXCEPT ![r] = x]
      BY <2>2, <2>3
    <2>5. /\ x.at = IF req[r].key.domain = "login" THEN "get" ELSE "write"
          /\ x.key = req[r].key /\ x.answer = req[r].answer /\ x.ch = req[r].ch /\ x.late = req[r].late
      BY <1>1, <2>4 DEF Request
    <2>6. req[r].answer.ceremony # "create" /\ req[r].key.ceremony \in {"create", "get"}
      BY <1>1, KeyFacts DEF Meant
    <2>7. Meant(x)' /\ HasRow(x)'
      BY <1>1, <1>3, <2>5, <2>6 DEF Meant, HasRow
    <2>8. Holds(x)'
      BY <1>1, <2>5 DEF Holds, Used
    <2>9. Grows
      BY <1>1 DEF Grows
    <2>10. RequestInv' /\ req' \in [Requests -> Request \cup {None}]
      BY <2>4, <2>7, <2>8, <2>9, Within
    <2>11. QED
      BY <1>1, <2>10 DEF IInv, TypeOK, AnswersInv, SavedInv, OwnerInv, AcceptedInv
  <1>4. QED
    BY <1>2, <1>3

(* The challenge under the key is read: one that was used is under no key. *)
LEMMA Getting == ASSUME IInv, NEW r \in Requests, GetChallenge(r) PROVE IInv'
  <1>1. /\ req[r] # None /\ req[r].at = "get" /\ UNCHANGED <<options, saved, row, device, answers, accepted>>
        /\ req[r] \in Request /\ Meant(req[r]) /\ HasRow(req[r]) /\ Holds(req[r]) /\ req[r].key \in Keys
    BY RequestParts DEF GetChallenge, IInv, RequestInv
  <1>2. CASE saved[req[r].key] = None
    BY <1>1, <1>2, Finishing DEF GetChallenge
  <1>3. CASE saved[req[r].key] # None
    <2>1. PICK c \in Challenges : c = saved[req[r].key] /\ c \in 1..Len(options) /\ options[c] = req[r].key
      BY <1>1, <1>3 DEF IInv, SavedInv, TypeOK
    <2> DEFINE y == [req[r] EXCEPT !.at = "delete", !.ch = c]
    <2>2. y \in Request
      BY <1>1 DEF Request
    <2>3. req' = [req EXCEPT ![r] = y]
      BY <1>1, <1>3, <2>1 DEF GetChallenge, IInv, TypeOK
    <2>4. PICK x \in Request : x = y /\ req' = [req EXCEPT ![r] = x]
      BY <2>2, <2>3
    <2>5. /\ x.at = "delete" /\ x.ch = c
          /\ x.key = req[r].key /\ x.answer = req[r].answer /\ x.late = req[r].late
      BY <1>1, <2>4 DEF Request
    <2>6. Meant(x)' /\ HasRow(x)'
      BY <1>1, <2>5 DEF Meant, HasRow
    <2>7. Used(x.answer.ch) => c # x.answer.ch
      BY <1>1, <2>1 DEF IInv, AcceptedInv, Used
    <2>8. Holds(x)'
      BY <1>1, <2>1, <2>5, <2>7 DEF Holds, Used
    <2>9. Grows
      BY <1>1 DEF Grows
    <2>10. RequestInv' /\ req' \in [Requests -> Request \cup {None}]
      BY <2>4, <2>6, <2>8, <2>9, Within
    <2>11. QED
      BY <1>1, <2>10 DEF IInv, TypeOK, AnswersInv, SavedInv, OwnerInv, AcceptedInv
  <1>4. QED
    BY <1>2, <1>3

(* Once the deletion is done, the challenge that was read is under no key: under
   this one there is nothing, and it was never under another. *)
LEMMA Deleting == ASSUME IInv, NEW r \in Requests, DeleteChallenge(r) PROVE IInv'
  <1>1. /\ req[r] # None /\ req[r].at = "delete" /\ UNCHANGED <<options, row, device, answers, accepted>>
        /\ saved' = [saved EXCEPT ![req[r].key] = None]
        /\ req[r] \in Request /\ Meant(req[r]) /\ HasRow(req[r]) /\ Holds(req[r]) /\ req[r].key \in Keys
    BY RequestParts DEF DeleteChallenge, IInv, RequestInv
  <1> DEFINE y == [req[r] EXCEPT !.at = AfterDelete(r)]
  <1>2. y \in Request
    BY <1>1 DEF Request, AfterDelete
  <1>3. req' = [req EXCEPT ![r] = y]
    BY <1>1 DEF DeleteChallenge, IInv, TypeOK
  <1>4. PICK x \in Request : x = y /\ req' = [req EXCEPT ![r] = x]
    BY <1>2, <1>3
  <1>5. /\ x.at = AfterDelete(r) /\ x.ch = req[r].ch
        /\ x.key = req[r].key /\ x.answer = req[r].answer /\ x.late = req[r].late
    BY <1>1, <1>4 DEF Request
  <1>6. /\ saved' \in [Keys -> Challenges \cup {None}] /\ saved'[req[r].key] = None
        /\ \A k \in Keys \ {req[r].key} : saved'[k] = saved[k]
    BY <1>1 DEF IInv, TypeOK
  <1>7. Grows
    BY <1>1, <1>6 DEF Grows
  <1>8. Meant(x)'
    <2>1. req[r].key.domain \in {"login", "twofactor"}
      BY <1>1, KeyFacts
    <2>2. QED
      BY <1>1, <1>5, <2>1 DEF Meant, AfterDelete
  <1>9. HasRow(x)'
    <2>1. req[r].key.domain \in {"login", "twofactor"}
      BY <1>1, KeyFacts
    <2>2. QED
      BY <1>1, <1>5, <2>1 DEF Meant, HasRow, AfterDelete
  <1>10. Holds(x)'
    <2>1. \A k \in Keys : saved[k] # None /\ saved[k] = x.ch => k = req[r].key
      BY <1>1, <1>5 DEF IInv, SavedInv, Holds
    <2>2. x.ch # None => \A k \in Keys : saved'[k] # x.ch
      BY <1>6, <2>1
    <2>3. QED
      BY <1>1, <1>5, <2>2 DEF Holds, Used
  <1>11. RequestInv' /\ req' \in [Requests -> Request \cup {None}]
    BY <1>4, <1>7, <1>8, <1>9, <1>10, Within
  <1>12. AcceptedInv'
    BY <1>1, <1>7, AcceptedKept DEF AcceptedInv
  <1>13. SavedInv'
    BY <1>1, <1>6 DEF IInv, SavedInv
  <1>14. QED
    BY <1>1, <1>6, <1>11, <1>12, <1>13 DEF IInv, TypeOK, AnswersInv, OwnerInv

(* What is accepted was checked against the challenge that was read. *)
LEMMA Accepting ==
  ASSUME IInv, NEW r \in Requests, req[r] # None, req[r].at = "write", req[r].answer.ch = req[r].ch,
         Grows, UNCHANGED <<options, saved, answers>>, Accept(r)
  PROVE  AcceptedInv' /\ accepted' \subseteq [key : Keys, answer : Answer, late : BOOLEAN]
  <1>1. req[r].answer.ch # None /\ Meant(req[r]) /\ Holds(req[r]) /\ req[r].late \in BOOLEAN
        /\ req[r].key \in Keys /\ req[r].answer \in Answer
    BY RequestParts, NoneAssumption DEF IInv, RequestInv
  <1> DEFINE x == [key |-> req[r].key, answer |-> req[r].answer, late |-> req[r].late]
  <1>2. accepted' = accepted \cup {x}
    BY DEF Accept
  <1>3. options[req[r].answer.ch] = req[r].key /\ req[r].answer \in answers
    BY <1>1 DEF Holds, Meant
  <1>4. req[r].key.domain = Domain[req[r].answer.pk]
    BY <1>1, <1>3 DEF Meant, IInv, AnswersInv, Answer
  <1>5. /\ x.answer \in answers' /\ options'[x.answer.ch] = x.key /\ ~x.late
        /\ x.key.domain = Domain[x.answer.pk]
        /\ \A k \in Keys : saved'[k] # x.answer.ch
    BY <1>1, <1>3, <1>4 DEF Holds
  <1>6. x \in [key : Keys, answer : Answer, late : BOOLEAN]
    BY <1>1
  <1> HIDE DEF x
  <1>7. AcceptedInv'
    BY <1>2, <1>5, AcceptedKept DEF AcceptedInv
  <1>8. QED
    BY <1>2, <1>6, <1>7 DEF IInv, TypeOK

(* A registration that passes its check inserts its row. *)
LEMMA Inserting ==
  ASSUME IInv, NEW r \in Requests, req[r] # None, req[r].at = "write", CanInsert(r), InsertPasskey(r),
         UNCHANGED <<options, saved, device, answers>>
  PROVE  IInv'
  <1> DEFINE p == req[r].answer.pk
  <1>1. /\ p \in Passkeys /\ req[r].answer.counter \in Counters /\ req[r].key \in Keys /\ Meant(req[r])
        /\ req[r].answer.ceremony = "create" /\ req[r].answer.ch = req[r].ch /\ row[p] = None
        /\ req' = [req EXCEPT ![r] = None] /\ Accept(r)
    BY RequestParts DEF IInv, RequestInv, CanInsert, InsertPasskey, Finish
  <1>2. req[r].key.subject \in Accounts /\ req[r].key.subject = Owner[p]
    <2>1. options[req[r].answer.ch] = req[r].key
      BY <1>1, NoneAssumption DEF IInv, RequestInv, Holds, TypeOK, Request, Answer
    <2>2. req[r].key.ceremony = "create" /\ req[r].key.subject = Owner[p]
      BY <1>1, <2>1 DEF Meant, IInv, AnswersInv
    <2>3. QED
      BY <1>1, <2>2, KeyFacts
  <1>3. PICK prf \in BOOLEAN :
          row' = [row EXCEPT ![p] = [acct |-> req[r].key.subject, counter |-> req[r].answer.counter,
                                     enc |-> prf /\ Domain[p] = "login", symKey |-> None]]
    BY DEF InsertPasskey
  <1>4. PICK w \in Rows : w.acct = Owner[p] /\ row' = [row EXCEPT ![p] = w]
    <2> DEFINE v == [acct |-> req[r].key.subject, counter |-> req[r].answer.counter,
                     enc |-> prf /\ Domain[p] = "login", symKey |-> None]
    <2>1. (prf /\ Domain[p] = "login") \in BOOLEAN
      OBVIOUS
    <2>2. v \in Rows /\ v.acct = Owner[p]
      BY <1>1, <1>2, <2>1 DEF Rows
    <2>3. row' = [row EXCEPT ![p] = v]
      BY <1>3
    <2> HIDE DEF v
    <2>4. QED
      BY <2>2, <2>3
  <1>5. /\ row' \in [Passkeys -> Rows \cup {None}] /\ row'[p] = w /\ row'[p] # None
        /\ \A q \in Passkeys \ {p} : row'[q] = row[q]
    BY <1>1, <1>4, NoneAssumption DEF IInv, TypeOK
  <1>6. Grows
    BY <1>1, <1>5 DEF Grows, Accept
  <1>7. AcceptedInv' /\ accepted' \subseteq [key : Keys, answer : Answer, late : BOOLEAN]
    BY <1>1, <1>6, Accepting
  <1>8. RequestInv' /\ req' \in [Requests -> Request \cup {None}]
    BY <1>1, <1>6, Within
  <1>9. OwnerInv'
    BY <1>4, <1>5 DEF IInv, OwnerInv
  <1>10. QED
    BY <1>5, <1>7, <1>8, <1>9 DEF IInv, TypeOK, AnswersInv, SavedInv

(* What an update leaves of a row: all but the field it sets. *)
LEMMA Setting ==
  ASSUME IInv, NEW p \in Passkeys, row[p] # None, NEW w \in Rows, row' = [row EXCEPT ![p] = w],
         w.acct = row[p].acct
  PROVE  /\ row' \in [Passkeys -> Rows \cup {None}] /\ row'[p] = w /\ OwnerInv'
         /\ \A q \in Passkeys : row[q] # None => row'[q] # None
         /\ \A q \in Passkeys \ {p} : row'[q] = row[q]
  BY NoneAssumption DEF IInv, TypeOK, OwnerInv

(* An authentication that passes its check counts in its row. *)
LEMMA Updating ==
  ASSUME IInv, NEW r \in Requests, req[r] # None, req[r].at = "write", Verified(r), UpdateCounter(r),
         UNCHANGED <<options, saved, device, answers>>
  PROVE  IInv'
  <1> DEFINE p == req[r].answer.pk
             v == [row[p] EXCEPT !.counter = req[r].answer.counter]
  <1>1. /\ p \in Passkeys /\ req[r].answer.counter \in Counters /\ req[r].key \in Keys /\ req[r] \in Request
        /\ Meant(req[r]) /\ HasRow(req[r]) /\ Holds(req[r])
        /\ req[r].answer.ceremony = "get" /\ req[r].answer.ch = req[r].ch /\ Accept(r)
    BY RequestParts DEF IInv, RequestInv, Verified, UpdateCounter
  <1>2. row[p] # None /\ row[p] \in Rows
    BY <1>1 DEF HasRow, IInv, TypeOK
  <1>3. v \in Rows /\ v.acct = row[p].acct
    BY <1>1, <1>2 DEF Rows
  <1>4. row' = [row EXCEPT ![p] = v]
    BY <1>1 DEF UpdateCounter, IInv, TypeOK
  <1> HIDE DEF v
  <1>5. /\ row' \in [Passkeys -> Rows \cup {None}] /\ OwnerInv'
        /\ \A q \in Passkeys : row[q] # None => row'[q] # None
    BY <1>1, <1>2, <1>3, <1>4, Setting
  <1>6. Grows
    BY <1>1, <1>5 DEF Grows, Accept
  <1>7. AcceptedInv' /\ accepted' \subseteq [key : Keys, answer : Answer, late : BOOLEAN]
    BY <1>1, <1>6, Accepting
  <1>8. RequestInv' /\ req' \in [Requests -> Request \cup {None}]
    <2>1. CASE req[r].newKey = None
      <3>1. req' = [req EXCEPT ![r] = None]
        BY <2>1 DEF UpdateCounter, Finish
      <3>2. QED
        BY <1>6, <3>1, Within
    <2>2. CASE req[r].newKey # None
      <3>1. [req[r] EXCEPT !.at = "key"] \in Request
        BY <1>1 DEF Request
      <3>2. req' = [req EXCEPT ![r] = [req[r] EXCEPT !.at = "key"]]
        BY <2>2 DEF UpdateCounter, IInv, TypeOK
      <3>3. PICK x \in Request : x = [req[r] EXCEPT !.at = "key"] /\ req' = [req EXCEPT ![r] = x]
        BY <3>1, <3>2
      <3>4. /\ x.at = "key" /\ x.ch = req[r].ch /\ x.newKey = req[r].newKey
            /\ x.key = req[r].key /\ x.answer = req[r].answer /\ x.late = req[r].late
        BY <1>1, <3>3 DEF Request
      <3>5. Meant(x)' /\ HasRow(x)'
        BY <1>1, <1>2, <1>5, <2>2, <3>4 DEF Meant, HasRow
      <3>6. Used(x.answer.ch) => Used(x.answer.ch)'
        BY <1>6 DEF Grows, Used
      <3>7. Holds(x)'
        BY <1>1, <3>4, <3>6 DEF Holds
      <3>8. QED
        BY <1>6, <3>3, <3>5, <3>7, Within
    <2>3. QED
      BY <2>1, <2>2
  <1>9. QED
    BY <1>5, <1>7, <1>8 DEF IInv, TypeOK, AnswersInv, SavedInv

(* The check, whatever its result. *)
LEMMA Checking == ASSUME IInv, NEW r \in Requests, Check(r) PROVE IInv'
  BY Inserting, Updating, Finishing DEF Check

(* The symmetric key is written from the row read earlier. *)
LEMMA Storing == ASSUME IInv, NEW r \in Requests, StoreSymmetricKey(r) PROVE IInv'
  <1> DEFINE p == req[r].answer.pk
             v == [row[p] EXCEPT !.symKey = req[r].newKey]
  <1>1. /\ req[r] # None /\ req[r].at = "key" /\ p \in Passkeys /\ HasRow(req[r])
        /\ req[r].newKey \in SymmetricKeys \cup {None}
        /\ req' = [req EXCEPT ![r] = None] /\ UNCHANGED <<options, saved, device, answers, accepted>>
    BY RequestParts DEF IInv, RequestInv, StoreSymmetricKey, Finish
  <1>2. row[p] # None /\ row[p] \in Rows
    BY <1>1 DEF HasRow, IInv, TypeOK
  <1>3. v \in Rows /\ v.acct = row[p].acct
    BY <1>1, <1>2 DEF Rows
  <1>4. row' = row \/ row' = [row EXCEPT ![p] = v]
    BY <1>1 DEF StoreSymmetricKey, IInv, TypeOK
  <1> HIDE DEF v
  <1>5. /\ row' \in [Passkeys -> Rows \cup {None}] /\ OwnerInv'
        /\ \A q \in Passkeys : row[q] # None => row'[q] # None
    <2>1. CASE row' = row
      BY <2>1 DEF IInv, TypeOK, OwnerInv
    <2>2. CASE row' = [row EXCEPT ![p] = v]
      BY <1>1, <1>2, <1>3, <2>2, Setting
    <2>3. QED
      BY <1>4, <2>1, <2>2
  <1>6. Grows
    BY <1>1, <1>5 DEF Grows
  <1>7. RequestInv' /\ req' \in [Requests -> Request \cup {None}]
    BY <1>1, <1>6, Within
  <1>8. QED
    BY <1>1, <1>5, <1>7 DEF IInv, TypeOK, AnswersInv, SavedInv, AcceptedInv

(* Every step keeps the invariant. *)
THEOREM InvStep == IInv /\ [Next]_vars => IInv'
  <1>1. ASSUME IInv, UNCHANGED vars PROVE IInv'
    BY <1>1 DEF vars, IInv, TypeOK, AnswersInv, SavedInv, OwnerInv, AcceptedInv, RequestInv, Meant, HasRow, Holds, Used
  <1>2. ASSUME IInv, Browser PROVE IInv'
    BY <1>2, Signing DEF Browser
  <1>3. ASSUME IInv, NEW r \in Requests, Verify(r) PROVE IInv'
    BY <1>3, Opening, Looking, Getting, Deleting, Checking, Storing DEF Verify
  <1>4. QED
    BY <1>1, <1>2, <1>3, Generating, Expiring DEF Next

(* It holds of every state the program can be in. *)
THEOREM InvHolds == Spec => []IInv
  BY InvInit, InvStep, PTL DEF Spec

(* The types of rows, challenges and requests, and the bound on challenges, which
   no interleaving of ceremonies passes. *)
THEOREM TypeCorrect == Spec => []TypeOK
  <1>1. IInv => TypeOK
    BY DEF IInv
  <1>2. QED
    BY <1>1, InvHolds, PTL

(* However verifications interleave with each other, with new options and with
   expiry, and whatever passkeys the clients sign with, an answer is accepted
   only under the key its options were made for, by a passkey of that domain,
   and never for a challenge that had been used when its request began. *)
THEOREM AcceptedAnswerIsAlwaysDue == Spec => []AcceptedAnswerIsDue
  <1>1. IInv => AcceptedAnswerIsDue
    BY DEF IInv, AcceptedInv, AnswersInv, OwnerInv, AcceptedAnswerIsDue, AnswerFitsItsOptions, ChallengeUsedUp
  <1>2. QED
    BY <1>1, InvHolds, PTL

(* A counter is set back, or a symmetric key replaced, only by a request that
   read the row before the newer one was stored. *)
THEOREM RowIsNeverSetBack == Spec => RowIsNotSetBack
  <1> DEFINE Forward == \A p \in Passkeys : row[p] # None => CounterGrows(p) /\ SymmetricKeyStoredOnce(p)
  <1>1. IInv /\ [Next]_vars => [Forward]_vars
    <2> SUFFICES ASSUME IInv, Next, NEW p \in Passkeys, row[p] # None
                 PROVE  CounterGrows(p) /\ SymmetricKeyStoredOnce(p)
      OBVIOUS
    <2>1. row[p] \in Rows
      BY DEF IInv, TypeOK
    <2>2. CASE row' = row
      BY <2>1, <2>2 DEF CounterGrows, SymmetricKeyStoredOnce, Rows, Counters
    <2>3. ASSUME NEW r \in Requests, Check(r)
          PROVE  CounterGrows(p) /\ SymmetricKeyStoredOnce(p)
      <3> DEFINE q == req[r].answer.pk
      <3>1. /\ req[r] # None /\ req[r].at = "write" /\ q \in Passkeys /\ req[r].answer.counter \in Counters
            /\ req[r].counter \in Counters /\ req[r].answer \in answers
            /\ row' = row \/ (CanInsert(r) /\ InsertPasskey(r)) \/ (Verified(r) /\ UpdateCounter(r))
        BY <2>3, RequestParts DEF Check, IInv, RequestInv, Meant
      <3>2. CASE CanInsert(r) /\ InsertPasskey(r)
        <4>1. row'[p] = row[p]
          BY <3>1, <3>2 DEF CanInsert, InsertPasskey, IInv, TypeOK
        <4>2. QED
          BY <2>1, <4>1 DEF CounterGrows, SymmetricKeyStoredOnce, Rows, Counters
      <3>3. CASE Verified(r) /\ UpdateCounter(r)
        <4>1. CASE p # q
          <5>1. row'[p] = row[p]
            BY <3>3, <4>1 DEF UpdateCounter, IInv, TypeOK
          <5>2. QED
            BY <2>1, <5>1 DEF CounterGrows, SymmetricKeyStoredOnce, Rows, Counters
        <4>2. CASE p = q
          <5>1. row'[p] = [row[p] EXCEPT !.counter = req[r].answer.counter]
            BY <3>1, <3>3, <4>2 DEF UpdateCounter, IInv, TypeOK
          <5>2. row'[p].counter = req[r].answer.counter /\ row'[p].symKey = row[p].symKey
            BY <2>1, <5>1 DEF Rows
          <5>3. req[r].answer.counter > 0 /\ req[r].counter < req[r].answer.counter
            BY <3>1, <3>3 DEF Verified, CounterGrew, IInv, AnswersInv, Counters
          <5>4. QED
            BY <3>1, <4>2, <5>2, <5>3 DEF CounterGrows, SymmetricKeyStoredOnce
        <4>3. QED
          BY <4>1, <4>2
      <3>4. QED
        BY <2>2, <3>1, <3>2, <3>3
    <2>4. ASSUME NEW r \in Requests, StoreSymmetricKey(r)
          PROVE  CounterGrows(p) /\ SymmetricKeyStoredOnce(p)
      <3> DEFINE q == req[r].answer.pk
      <3>1. /\ req[r] # None /\ req[r].at = "key" /\ q \in Passkeys
            /\ row' # row => req[r].seenKey = None /\ row' = [row EXCEPT ![q].symKey = req[r].newKey]
        BY <2>4, RequestParts DEF StoreSymmetricKey, IInv
      <3>2. CASE row' # row /\ p = q
        <4>1. row'[p] = [row[p] EXCEPT !.symKey = req[r].newKey]
          BY <3>1, <3>2 DEF IInv, TypeOK
        <4>2. row'[p].counter = row[p].counter /\ row[p].counter \in Nat
          BY <2>1, <4>1 DEF Rows, Counters
        <4>3. QED
          BY <3>1, <3>2, <4>2 DEF CounterGrows, SymmetricKeyStoredOnce
      <3>3. CASE row' # row /\ p # q
        <4>1. row'[p] = row[p]
          BY <3>1, <3>3 DEF IInv, TypeOK
        <4>2. QED
          BY <2>1, <4>1 DEF CounterGrows, SymmetricKeyStoredOnce, Rows, Counters
      <3>4. QED
        BY <2>2, <3>2, <3>3
    <2>5. ASSUME ~(\E r \in Requests : Check(r) \/ StoreSymmetricKey(r))
          PROVE  row' = row
      BY <2>5 DEF Next, Generate, Browser, Verify, LoginRegistrationOptions, TwoFactorRegistrationOptions,
           TwoFactorAuthenticationOptions, LoginAuthenticationOptions, LoginSessionOptions, SaveOptions,
           CreatePasskey, Sign, ChallengeExpires, VerifyRegistration, Authenticate, PasskeyLogin,
           TwoFactorLogin, Start, Lookup, GetChallenge, DeleteChallenge
    <2>6. QED
      BY <2>2, <2>3, <2>4, <2>5
  <1>2. QED
    BY <1>1, InvHolds, PTL DEF Spec, RowIsNotSetBack
=============================================================================
