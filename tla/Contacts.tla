------------------------------ MODULE Contacts -----------------------------
(* Contacts, the messages kept under them, and the events that tell a user's *)
(* clients of a new one.                                                     *)
(*                                                                           *)
(* A message is stored twice, under the receiver's contact and then under    *)
(* the sender's, each copy in two awaited steps, the contact and the row,    *)
(* without a transaction.  The event goes to the clients that listen to the  *)
(* process that stored it, between the two copies.                           *)
EXTENDS Naturals, FiniteSets

CONSTANTS
  Users,               \* each with one wallet and its address user@main
  Domains, Main,       \* this server's domains, of which Main is the first, and others
  LocalDomains,
  Messages,            \* messages to send: one client each, which may try again
  Creators,            \* bound: requests that create a contact, one each
  Processes,           \* server processes, each with an emitter of its own
  MaxTries, MaxFaults, \* bounds: attempts at one message, failed calls
  None

Addresses == [user : Users, domain : Domains, lower : BOOLEAN]

(* The address as create stores it. *)
Lower(a) == [a EXCEPT !.lower = TRUE]
AddressOf(u) == [user |-> u, domain |-> Main, lower |-> TRUE]

VARIABLES
  contact,  \* contact rows: the wallet's user and the address
  copy,     \* message rows
  send,     \* messages being sent
  create,   \* contacts being created
  tries,    \* attempts made at each message
  told,     \* observed: messages whose client was answered
  spelled,  \* observed: who addressed a message to a spelling not in lower case
  listens,  \* the process each user's event stream is connected to, or None
  heard,    \* observed: events clients got
  faults

vars == <<contact, copy, send, create, tries, told, spelled, listens, heard, faults>>

Copy == [owner : Users, with : Addresses, received : BOOLEAN, message : Messages, try : Nat,
         shared : BOOLEAN]
Send == [at : {"find", "address", "contact", "row", "event", "ownContact", "ownRow"}, from : Users,
         to : Addresses, shared : BOOLEAN, empty : BOOLEAN, by : Processes]

TypeOK ==
  /\ contact \subseteq Users \X Addresses
  /\ \A c \in copy : c \in [owner : Users, with : Addresses, received : BOOLEAN, message : Messages,
                            try : 1..MaxTries, shared : BOOLEAN]
  /\ send \in [Messages -> Send \cup {None}]
  /\ create \in [Creators -> [at : {"find", "check", "upsert", "done"}, by : Users, address : Addresses] \cup {None}]
  /\ tries \in [Messages -> 0..MaxTries] /\ told \subseteq Messages
  /\ spelled \subseteq Users \X Addresses
  /\ listens \in [Users -> Processes \cup {None}]
  /\ heard \subseteq Users \X Addresses
  /\ faults \in 0..MaxFaults

Init ==
  /\ contact = {} /\ copy = {}
  /\ send = [m \in Messages |-> None] /\ create = [c \in Creators |-> None]
  /\ tries = [m \in Messages |-> 0] /\ told = {} /\ spelled = {}
  /\ listens = [u \in Users |-> None] /\ heard = {}
  /\ faults = 0

IsLocal(a) == a.domain \in LocalDomains

(* getWalletByLnAddress matches the user part as it is written. *)
HasWallet(a) == IsLocal(a) /\ a.lower
-----------------------------------------------------------------------------
(* Creating a contact. *)

Create(c) ==
  /\ create[c] = None
  /\ \E u \in Users, a \in Addresses :
       create' = [create EXCEPT ![c] = [at |-> "find", by |-> u, address |-> a]]
  /\ UNCHANGED <<contact, copy, send, tries, told, spelled, listens, heard, faults>>

(* Mutant of GetContact: the address stays as the client wrote it. *)
GetContactAsWritten(c) ==
  /\ create[c] # None /\ create[c].at = "find"
  /\ create' = [create EXCEPT ![c].at = IF <<create[c].by, create[c].address>> \in contact THEN "done" ELSE "check"]
  /\ UNCHANGED <<contact, copy, send, tries, told, spelled, listens, heard, faults>>

(* The contact is looked for under the address as the client wrote it. *)
GetContact(c) ==
  /\ create[c] # None /\ create[c].at = "find"
  /\ create' = [create EXCEPT ![c].at = IF <<create[c].by, create[c].address>> \in contact THEN "done" ELSE "check",
                               ![c].address = Lower(@)]
  /\ UNCHANGED <<contact, copy, send, tries, told, spelled, listens, heard, faults>>

(* Another server may or may not know the address. *)
CheckAddress(c) ==
  /\ create[c] # None /\ create[c].at = "check"
  /\ \E known \in (IF IsLocal(create[c].address) THEN {HasWallet(create[c].address)} ELSE BOOLEAN) :
       create' = [create EXCEPT ![c].at = IF known THEN "upsert" ELSE "done"]
  /\ UNCHANGED <<contact, copy, send, tries, told, spelled, listens, heard, faults>>

UpsertContactForAccount(c) ==
  /\ create[c] # None /\ create[c].at = "upsert"
  /\ contact' = contact \cup {<<create[c].by, create[c].address>>}
  /\ create' = [create EXCEPT ![c].at = "done"]
  /\ UNCHANGED <<copy, send, tries, told, spelled, listens, heard, faults>>

-----------------------------------------------------------------------------
(* Sending a message. *)

At(m, at) == send[m] # None /\ send[m].at = at
Go(m, at) == send' = [send EXCEPT ![m].at = at]
Stop(m) == send' = [send EXCEPT ![m] = None]

(* A client names one of its contacts, which only says which of its wallets the
   message is from, and an address, which nothing compares with that contact's
   nor puts in lower case.  The message may be for itself only, or its own
   payload empty.  One that was not answered may try again. *)
SendMessage(m) ==
  /\ send[m] = None /\ m \notin told /\ tries[m] < MaxTries
  /\ tries' = [tries EXCEPT ![m] = @ + 1]
  /\ \E k \in contact, a \in Addresses, p \in Processes, shared, empty \in BOOLEAN :
       /\ shared \/ ~empty
       /\ send' = [send EXCEPT ![m] = [at |-> "find", from |-> k[1], to |-> a,
                                       shared |-> shared, empty |-> empty, by |-> p]]
       /\ spelled' = IF a.lower THEN spelled ELSE spelled \cup {<<k[1], a>>}
  /\ UNCHANGED <<contact, copy, create, told, listens, heard, faults>>

GetContactForAccount(m) ==
  /\ At(m, "find") /\ \E k \in contact : k[1] = send[m].from
  /\ Go(m, IF send[m].shared THEN "address" ELSE "ownContact")
  /\ UNCHANGED <<contact, copy, create, tries, told, spelled, listens, heard, faults>>

(* Only an address of this server with a wallet can be written to. *)
FindReceiver(m) ==
  /\ At(m, "address")
  /\ IF HasWallet(send[m].to) THEN Go(m, "contact") ELSE Stop(m)
  /\ UNCHANGED <<contact, copy, create, tries, told, spelled, listens, heard, faults>>

(* The receiver knows the sender by its address on the first domain. *)
UpsertContact(m) ==
  /\ \/ /\ At(m, "contact")
        /\ contact' = contact \cup {<<send[m].to.user, AddressOf(send[m].from)>>} /\ Go(m, "row")
     \/ At(m, "ownContact") /\ contact' = contact \cup {<<send[m].from, send[m].to>>} /\ Go(m, "ownRow")
  /\ UNCHANGED <<copy, create, tries, told, spelled, listens, heard, faults>>

(* Mutant of SaveContactMessage: the client is answered with the receiver's copy. *)
AnswerEarly(m) ==
  /\ At(m, "row")
  /\ copy' = copy \cup {[owner |-> send[m].to.user, with |-> AddressOf(send[m].from), received |-> TRUE,
                         message |-> m, try |-> tries[m], shared |-> send[m].shared]}
  /\ Go(m, "event") /\ told' = told \cup {m}
  /\ UNCHANGED <<contact, create, tries, spelled, listens, heard, faults>>

(* Then the row: the receiver's, and in the end one's own, unless its payload
   is empty, which JSON.parse does not take. *)
SaveContactMessage(m) ==
  /\ \/ /\ At(m, "row")
        /\ copy' = copy \cup {[owner |-> send[m].to.user, with |-> AddressOf(send[m].from),
                               received |-> TRUE, message |-> m, try |-> tries[m], shared |-> send[m].shared]}
        /\ Go(m, "event") /\ UNCHANGED told
     \/ /\ At(m, "ownRow") /\ Stop(m)
        /\ IF send[m].empty
           THEN UNCHANGED <<copy, told>>
           ELSE /\ copy' = copy \cup {[owner |-> send[m].from, with |-> send[m].to, received |-> FALSE,
                                       message |-> m, try |-> tries[m], shared |-> send[m].shared]}
                /\ told' = told \cup {m}
  /\ UNCHANGED <<contact, create, tries, spelled, listens, heard, faults>>

(* Mutant of Emit: the channel of the sender. *)
EmitToSender(m) ==
  /\ At(m, "event")
  /\ heard' = IF listens[send[m].from] = send[m].by
              THEN heard \cup {<<send[m].from, AddressOf(send[m].from)>>} ELSE heard
  /\ Go(m, "ownContact")
  /\ UNCHANGED <<contact, copy, create, tries, told, spelled, listens, faults>>

(* The clients of the receiver that listen to this process get the event. *)
Emit(m) ==
  /\ At(m, "event")
  /\ heard' = IF listens[send[m].to.user] = send[m].by
              THEN heard \cup {<<send[m].to.user, AddressOf(send[m].from)>>} ELSE heard
  /\ Go(m, "ownContact")
  /\ UNCHANGED <<contact, copy, create, tries, told, spelled, listens, faults>>

(* A query fails or the process stops. *)
Fail ==
  /\ faults < MaxFaults /\ faults' = faults + 1
  /\ \/ \E m \in Messages : send[m] # None /\ Stop(m) /\ UNCHANGED create
     \/ \E c \in Creators : /\ create[c] # None /\ create[c].at # "done"
                            /\ create' = [create EXCEPT ![c].at = "done"] /\ UNCHANGED send
  /\ UNCHANGED <<contact, copy, tries, told, spelled, listens, heard>>

Subscribe(u) ==
  /\ \E p \in Processes \cup {None} : p # listens[u] /\ listens' = [listens EXCEPT ![u] = p]
  /\ UNCHANGED <<contact, copy, send, create, tries, told, spelled, heard, faults>>

Next ==
  \/ \E c \in Creators : Create(c) \/ GetContact(c) \/ CheckAddress(c) \/ UpsertContactForAccount(c)
  \/ \E m \in Messages : SendMessage(m) \/ GetContactForAccount(m) \/ FindReceiver(m) \/ UpsertContact(m)
                         \/ SaveContactMessage(m) \/ Emit(m)
  \/ Fail \/ \E u \in Users : Subscribe(u)

Spec == Init /\ [][Next]_vars

-----------------------------------------------------------------------------
(* A client that gets an event finds the message it is about under its own
   contact, and the contact it names. *)
EventHasItsMessage ==
  \A e \in heard : e \in contact /\ \E c \in copy : c.owner = e[1] /\ c.with = e[2] /\ c.received

(* What a sender sees as sent was delivered: its own copy of a shared message has
   beside it a copy of the same attempt that the user it names received from the
   sender; an answered message has its sender's copy. *)
SentMeansDelivered ==
  /\ \A c \in copy : ~c.received /\ c.shared =>
       \E d \in copy : /\ d.received /\ d.message = c.message /\ d.try = c.try
                       /\ d.owner = c.with.user /\ d.with = AddressOf(c.owner)
  /\ \A m \in told : \E c \in copy : c.message = m /\ ~c.received

(* A user has two contacts whose addresses differ only in case only where it
   addressed a message, delivered or not, in such a spelling: `create` lowers
   what a client writes and `send_message` does not. *)
OneContactPerAddress ==
  \A j, k \in contact \ spelled : j[1] = k[1] /\ Lower(j[2]) = Lower(k[2]) => j = k

(* Both sides of a conversation see it, each under one contact but for the
   spellings that messages were addressed in. *)
ConversationsAreWhole == EventHasItsMessage /\ SentMeansDelivered /\ OneContactPerAddress
=============================================================================
