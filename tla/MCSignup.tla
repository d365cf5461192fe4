------------------------------ MODULE MCSignup ------------------------------
(* Model checking Signup on two requests with one referral code: a mailbox in
   two spellings without a subscription, and another one with it.  All but the
   second spelling ask for a wallet. *)
EXTENDS Signup, TLC

CONSTANTS e1, e2, e3

Mailboxes == e1 :> "m1" @@ e2 :> "m1" @@ e3 :> "m2"

SomeInputs == {x \in [email : Emails, code : Codes \cup {None}, wallet : BOOLEAN] :
                 x.wallet = (x.email # e2)}
=============================================================================
