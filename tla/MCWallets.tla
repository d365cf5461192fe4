------------------------------ MODULE MCWallets -----------------------------
(* Model checking WalletScan on two requests of any kind, and Wallets on two
   creations around the limit of wallets.  Each of the two moves only while the
   other is where it began, so that one run explores both and their states add
   up instead of multiplying. *)
EXTENDS WalletScan, FiniteSets, TLC

CONSTANTS Creations, MaxWallets, WALLET_LIMIT, AccountsAsked
VARIABLES wallet, creation, raced, failedHalf, answered, creationFaults

walletVars == <<wallet, creation, raced, failedHalf, answered, creationFaults>>

W == INSTANCE Wallets WITH Requests <- Creations, req <- creation, faults <- creationFaults

(* The limit is a positive number, and None is none of what is stored or asked. *)
ASSUME CreationsAssumption ==
  /\ IsFiniteSet(Creations) /\ MaxWallets \in Nat /\ WALLET_LIMIT \in Nat \ {0} /\ AccountsAsked \subseteq Nat
  /\ None \notin W!Wallets /\ None \notin W!WalletRow /\ None \notin W!Request

MCInit == Init /\ W!Init
MCNext == \/ W!Init /\ Next /\ UNCHANGED walletVars
          \/ Init /\ W!Next /\ UNCHANGED vars
MCSpec == MCInit /\ [][MCNext]_<<vars, walletVars>>

(* The property of Wallets: wallets made one after the other are as many as
   allowed, told apart by their names, and complete. *)
WalletsAreInOrder == W!WalletsAreInOrder

(* To keep the run small, a call fails only while nobody asks for an address. *)
FaultFreeAddresses ==
  faults > 0 => \A r \in Requests : req[r] = None \/ req[r].goal \notin AddressGoals

(* Nor does a scan that asks for no address meet a blocked one: it neither
   reads nor writes the blocks. *)
BlocksAmongAddresses ==
  blocked # {} => \A r \in Requests : req[r] = None \/ req[r].goal \in AddressGoals

Symmetry == Permutations(Requests)
=============================================================================
