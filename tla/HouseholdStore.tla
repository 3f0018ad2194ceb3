---------------------------- MODULE HouseholdStore ----------------------------
(***************************************************************************)
(* The tables behind accounts and families: users, family_groups and       *)
(* family_members, with the repository calls on them, what has been        *)
(* created and seeded of the database, and the requests under way.         *)
(*                                                                         *)
(* The primary keys of a table are handed out in order and never reused:   *)
(* a table is the sequence of its rows, and a key is an index.  A request  *)
(* is named for the repository call it is about to make; every call is one *)
(* step, a transaction too.                                                *)
(***************************************************************************)
EXTENDS Integers, Sequences

CONSTANTS
    LastTable,    \* number of tables: seven
    Clients,      \* each has one request under way at a time
    OtherPhones,  \* phones people register with, besides those of the seeds
    Profiles,     \* what a profile (name and avatar) may say
    NoProfile     \* the profile of a new account

VARIABLES
    byInitSql,   \* the tables were created by database/init.sql
    tables,      \* how many tables exist: they are created in a fixed order
    phoneIndex,  \* users.phone has its unique index
    seeded,      \* how many of the seed statements have been executed
    users,       \* users
    families,    \* family_groups
    members,     \* family_members
    request      \* the request each client has under way

schemaVars == <<byInitSql, tables, phoneIndex, seeded>>
rosterVars == <<families, members>>
storeVars == <<schemaVars, users, rosterVars, request>>

ASSUME ProfileAssumption == NoProfile \in Profiles

(* The tables in the order AutoMigrate creates them, family_groups being   *)
(* the second; those after them belong to food, notifications and recipes. *)
UsersTable == 1
FamilyMembersTable == 3

ASSUME LastTableAssumption == LastTable \in Nat /\ LastTable >= FamilyMembersTable

HasTable(table) == table <= tables

SeedPhones == <<"13800000001", "13800000002">>
Phones == {SeedPhones[1], SeedPhones[2]} \cup OtherPhones

Roles == {"admin", "member"}

UserRow == [phone: Phones, role: Roles, profile: Profiles]
FamilyRow == [owner: Nat]
MemberRow == [family: Nat, user: Nat, role: Roles]

(* What is left under the key of a deleted membership.                     *)
Gone == [family |-> 0, user |-> 0, role |-> "gone"]

Idle == [op |-> "idle"]

RequestState ==
    {Idle}
      \cup [op: {"register"}, phone: Phones]
      \cup [op: {"save"}, user: Nat, row: UserRow]
      \cup [op: {"invite", "insert"}, family: Nat, user: Nat]
      \cup [op: {"findForRole"}, family: Nat, member: Nat, role: Roles]
      \cup [op: {"update"}, member: Nat, row: MemberRow, role: Roles]
      \cup [op: {"findForRemove"}, family: Nat, member: Nat]
      \cup [op: {"delete"}, member: Nat]

HouseholdTypeOK ==
    /\ byInitSql \in BOOLEAN
    /\ tables \in 0..LastTable
    /\ phoneIndex \in BOOLEAN
    /\ seeded \in Nat
    /\ users \in Seq(UserRow)
    /\ families \in Seq(FamilyRow)
    /\ members \in Seq(MemberRow \cup {Gone})
    /\ request \in [Clients -> RequestState]

-----------------------------------------------------------------------------
(* Queries.  First orders by primary key: the oldest row that matches.     *)

CountByPhone(phone) == \E u \in DOMAIN users : users[u].phone = phone

FindByPhone(phone, u) ==
    /\ u \in DOMAIN users
    /\ users[u].phone = phone
    /\ \A v \in 1..(u - 1) : users[v].phone # phone

IsRow(m) == m \in DOMAIN members /\ members[m] # Gone

Belongs(m, family, user) ==
    IsRow(m) /\ members[m].family = family /\ members[m].user = user

FindByFamilyAndUser(family, user, m) ==
    /\ Belongs(m, family, user)
    /\ \A n \in 1..(m - 1) : ~Belongs(n, family, user)

IsMember(family, user) == \E m \in DOMAIN members : Belongs(m, family, user)

(* The memberships of a user, one entry of his list of families for each.  *)
ListByUser(user) == {m \in DOMAIN members : IsRow(m) /\ members[m].user = user}

-----------------------------------------------------------------------------
(* Writes.                                                                 *)

(* Seeded fault: init.sql without UNIQUE on users.phone.                   *)
PhoneAlwaysAccepted(phone) == TRUE

(* The unique index refuses a phone that is taken, where it exists.        *)
PhoneAccepted(phone) == phoneIndex => ~CountByPhone(phone)

(* Seeded fault: init.sql without uq_family_user.                          *)
MembershipAlwaysAccepted(family, user) == TRUE

(* uq_family_user is declared in init.sql only, not in the models that     *)
(* AutoMigrate works from.                                                 *)
MembershipAccepted(family, user) == byInitSql => ~IsMember(family, user)

CreateUser(phone, role) ==
    users' = Append(users, [phone |-> phone, role |-> role, profile |-> NoProfile])

(* Seeded fault: gorm's Save of the row that was read.                     *)
SaveRole(m, row, role) == members' = [members EXCEPT ![m] = [row EXCEPT !.role = role]]

(* UPDATE of one column by the key of the row that was read: where there   *)
(* is no such row any more, nothing happens.                               *)
UpdateRole(m, row, role) ==
    members' = IF IsRow(m) THEN [members EXCEPT ![m].role = role] ELSE members

DeleteMember(m) == members' = [members EXCEPT ![m] = Gone]
=============================================================================
