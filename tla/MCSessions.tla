----------------------------- MODULE MCSessions -----------------------------
(* Model checking Sessions on two requests of one account, and TwoFactor on  *)
(* three.  Each of the two moves only while the other is where it began, so  *)
(* that one run explores both and their states add up instead of multiplying.*)
EXTENDS Sessions, TLC

CONSTANTS OtpRequests, Secrets, MaxRows, None
VARIABLES rows, pending, deletes, shown, otpReq, proven, overlapped

otpVars == <<rows, pending, deletes, shown, otpReq, proven, overlapped>>

Otp == INSTANCE TwoFactor WITH Requests <- OtpRequests, req <- otpReq

MCInit == Init /\ Otp!Init
MCNext == \/ Otp!Init /\ Next /\ UNCHANGED otpVars
          \/ Init /\ Otp!Next /\ UNCHANGED vars
MCSpec == MCInit /\ [][MCNext]_<<vars, otpVars>>

(* The property of TwoFactor: whichever OTP row a login is checked against, its
   secret is one the user has shown to have, and the only one. *)
LoginSecretWorks == Otp!LoginSecretWorks

Symmetry == Permutations(Requests) \cup Permutations(Passwords) \cup Permutations(OtpRequests)
=============================================================================
