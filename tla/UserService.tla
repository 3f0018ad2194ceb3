----------------------------- MODULE UserService -----------------------------
(***************************************************************************)
(* UserService: registering, logging in and changing one's profile.        *)
(*                                                                         *)
(* A token carries the key, the phone and the role of a user; it is valid  *)
(* at every process and for longer than a run, so that a request can come  *)
(* from any user there is.                                                 *)
(***************************************************************************)
EXTENDS HouseholdStore

CONSTANT MaxUsers   \* bound: registrations stop at this many users

ASSUME MaxUsersAssumption == MaxUsers \in Nat

(* What a field of a profile update may hold; an empty one is not applied. *)
ProfileInputs == Profiles \cup {""}

Receive(c, r) == request' = [request EXCEPT ![c] = r]

(* The request ends, with its result, an error or the death of its server. *)
EndRequest(c) ==
    /\ request[c] # Idle
    /\ Receive(c, Idle)
    /\ UNCHANGED <<schemaVars, users, rosterVars>>

(* The users a request can come from.                                      *)
Authenticated(u) == u \in DOMAIN users

(* The account that a phone logs in to: u's, if u's password is given.     *)
Login(phone, u) == FindByPhone(phone, u)

(* Register, up to the hashing of the password.                            *)
CheckPhone(c, phone) ==
    /\ request[c] = Idle
    /\ HasTable(UsersTable)
    /\ Len(users) < MaxUsers
    /\ ~CountByPhone(phone)
    /\ Receive(c, [op |-> "register", phone |-> phone])
    /\ UNCHANGED <<schemaVars, users, rosterVars>>

(* The rest of Register; a phone that is refused ends the request.         *)
Register(c) ==
    /\ request[c].op = "register"
    /\ PhoneAccepted(request[c].phone)
    /\ CreateUser(request[c].phone, "member")
    /\ Receive(c, Idle)
    /\ UNCHANGED <<schemaVars, rosterVars>>

(* Seeded fault: the row to save is built from the request alone.          *)
MergeProfileAnew(row, input) == [row EXCEPT !.profile = input, !.role = "member"]

(* Seeded fault: empty fields are applied like others.                     *)
MergeProfileVerbatim(row, input) == [row EXCEPT !.profile = input]

MergeProfile(row, input) == IF input = "" THEN row ELSE [row EXCEPT !.profile = input]

(* UpdateProfile reads the row and applies the fields that are given,      *)
FindForProfile(c, u, input) ==
    /\ request[c] = Idle
    /\ Authenticated(u)
    /\ Receive(c, [op |-> "save", user |-> u, row |-> MergeProfile(users[u], input)])
    /\ UNCHANGED <<schemaVars, users, rosterVars>>

(* and writes the whole row back.                                          *)
SaveProfile(c) ==
    /\ request[c].op = "save"
    /\ users' = [users EXCEPT ![request[c].user] = request[c].row]
    /\ Receive(c, Idle)
    /\ UNCHANGED <<schemaVars, rosterVars>>
=============================================================================
