------------------------------- MODULE MCLnurl ------------------------------
(* Model checking Lnurl: three millisatoshis to a satoshi, limits that        *)
(* overlap in part, another server with limits off the whole satoshi, and a   *)
(* payment or a wallet elsewhere at a time (they meet in the copies of        *)
(* Boltz's limits only, which are there whoever left them);                   *)
(* and Contacts: two users, a domain of this server and another's, two server *)
(* processes.  Each of the two moves only while the other is where it began,  *)
(* so that one run explores both and their states add up.                     *)
EXTENDS Lnurl, FiniteSets, TLC

CONSTANTS Users, Domains, Main, LocalDomains, Messages, Creators, Processes, MaxTries
VARIABLES contact, copy, send, create, tries, told, spelled, listens, heard, queryFaults

contactVars == <<contact, copy, send, create, tries, told, spelled, listens, heard, queryFaults>>

C == INSTANCE Contacts WITH faults <- queryFaults

(* A user's own address is of a domain of this server; attempts are counted. *)
ASSUME ContactsAssumption == Main \in Domains /\ MaxTries \in Nat

SomeBoltzLimits == {[min |-> 2, max |-> 3], [min |-> 1, max |-> 2]}
SomeRemoteLimits == {[min |-> 3, max |-> 6], [min |-> 4, max |-> 8], [min |-> 0, max |-> 6]}

MCInit == Init /\ C!Init
MCNext == \/ C!Init /\ Next /\ UNCHANGED contactVars
          \/ /\ Init /\ account /\ boltz["chain"].min = 1 /\ remote.min = 0
             /\ C!Next /\ UNCHANGED vars
MCSpec == MCInit /\ [][MCNext]_<<vars, contactVars>>

(* The property of Contacts: both sides of a conversation see it, each under
   one contact but for the spellings that messages were addressed in. *)
ConversationsAreWhole == C!ConversationsAreWhole

Apart ==
  \/ \A c \in Callers : caller[c] = None
  \/ /\ \A p \in Payers : payer[p] = None
     /\ \A a \in Addresses : info[a] = None
     /\ remote.min = 0

(* A payment to an address of this server does not depend on the other one. *)
LocalApart ==
  \A p \in Payers :
    payer[p] # None /\ payer[p].address = "local" => remote.min = 0 /\ info["remote"] = None

(* Two contacts are created, or one and a message addressed not in lower case. *)
FewSpellings == Cardinality(spelled) + Cardinality({n \in Creators : create[n] # None}) <= 2

(* One contact at a time is, or is about to be, of another server's address. *)
FewElsewhere ==
  Cardinality({k \in contact : k[2].domain # Main})
    + Cardinality({n \in Creators : /\ create[n] # None /\ create[n].at # "done"
                                    /\ create[n].address.domain # Main}) <= 1

(* One user listens at a time. *)
OneListener == Cardinality({u \in Users : listens[u] # None}) <= 1

Symmetry == Permutations(Users) \cup Permutations(Processes)
=============================================================================
