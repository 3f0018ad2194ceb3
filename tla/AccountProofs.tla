---------------------------- MODULE AccountProofs ----------------------------
(***************************************************************************)
(* Theorems about accounts and seeds: users are only added, and what a     *)
(* token or a login relies on in their rows does not change.               *)
(***************************************************************************)
EXTENDS HouseholdProofs

(* The rows of a step are those there were, with the phone and the role    *)
(* they had, and possibly new ones.                                        *)
UsersKept ==
    \A u \in DOMAIN users :
        /\ u \in DOMAIN users'
        /\ users'[u].phone = users[u].phone
        /\ users'[u].role = users[u].role

(* A profile that is about to be saved comes from the row it goes to.      *)
SavesKept ==
    \A c \in Clients :
        request[c].op = "save" =>
            /\ request[c].user \in DOMAIN users
            /\ request[c].row.phone = users[request[c].user].phone
            /\ request[c].row.role = users[request[c].user].role

-----------------------------------------------------------------------------
(* Who writes to the table of users, and to the requests.                  *)

LEMMA StartUsers ==
    ASSUME NEW p \in Processes, StartStep(p)
    PROVE  /\ UNCHANGED request
           /\ \/ UNCHANGED users
              \/ /\ PhoneAccepted(SeedPhones[1]) /\ PhoneAccepted(SeedPhones[2])
                 /\ Seeds(p, 1, Len(users) + 1, 0)
                 /\ users' = users \o <<SeedUser(1, "admin"), SeedUser(2, "member")>>
BY DEF StartStep, FindUsersTable, FindTable, CreateTable, CreatePhoneIndex, CountUsers,
       SeedUsers, SeedFamily, SeedMembers, SeedFood, Panic, rosterVars

LEMMA ClientUsers ==
    ASSUME NEW c \in Clients, UserRequest(c) \/ FamilyRequest(c) \/ EndRequest(c)
    PROVE  UNCHANGED schemaVars /\ (UNCHANGED users \/ Register(c) \/ SaveProfile(c))
<1>1. CASE UserRequest(c)
  BY <1>1 DEF UserRequest, CheckPhone, FindForProfile, Register, SaveProfile
<1>2. CASE FamilyRequest(c)
  BY <1>2, FamilyRequestCases
  DEF CreateFamily, JoinByCode, InviteMember, SetMemberRole, RemoveMember, FindInvited,
      InsertMember, FindForRole, ChangeRole, FindForRemove, DeleteMembership
<1>3. CASE EndRequest(c)
  BY <1>3 DEF EndRequest
<1>4. QED
  BY <1>1, <1>2, <1>3

(* Requests of others stay; one that is about to save a profile has just   *)
(* read its row.                                                           *)
LEMMA ClientSaves ==
    ASSUME TypeOK, NEW c \in Clients, UserRequest(c) \/ FamilyRequest(c) \/ EndRequest(c)
    PROVE  /\ \A d \in Clients : d # c => request'[d] = request[d]
           /\ request'[c].op = "save" =>
                 \E u \in DOMAIN users, input \in ProfileInputs : FindForProfile(c, u, input)
<1> USE DEF Receive
<1>1. request \in [Clients -> RequestState]
  BY DEF TypeOK, HouseholdTypeOK
<1>2. CASE UserRequest(c)
  BY <1>1, <1>2 DEF UserRequest, CheckPhone, FindForProfile, Register, SaveProfile, Idle
<1>3. CASE FamilyRequest(c)
  <2>1. CASE \E u \in DOMAIN users : CreateFamily(c, u)
    BY <1>1, <2>1 DEF CreateFamily, Idle
  <2>2. CASE FindInvited(c)
    <3>1. request[c] = [op |-> "invite", family |-> request[c].family, user |-> request[c].user]
      BY <1>1, <2>2, RequestFields DEF FindInvited
    <3>2. [request[c] EXCEPT !.op = "insert"].op = "insert"
      BY <3>1
    <3>3. QED
      BY <1>1, <2>2, <3>2 DEF FindInvited
  <2>3. CASE \E u \in DOMAIN users, family \in DOMAIN families : JoinByCode(c, u, family)
    BY <1>1, <2>3 DEF JoinByCode
  <2>4. CASE \E u, invited \in DOMAIN users, family \in DOMAIN families :
                InviteMember(c, u, family, invited)
    BY <1>1, <2>4 DEF InviteMember
  <2>5. CASE \E u \in DOMAIN users, family \in DOMAIN families, m \in DOMAIN members, role \in Roles :
                SetMemberRole(c, u, family, m, role)
    BY <1>1, <2>5 DEF SetMemberRole
  <2>6. CASE \E u \in DOMAIN users, family \in DOMAIN families, m \in DOMAIN members :
                RemoveMember(c, u, family, m)
    BY <1>1, <2>6 DEF RemoveMember
  <2>7. CASE InsertMember(c) \/ FindForRole(c) \/ ChangeRole(c)
             \/ FindForRemove(c) \/ DeleteMembership(c)
    BY <1>1, <2>7 DEF InsertMember, FindForRole, ChangeRole, FindForRemove, DeleteMembership, Idle
  <2>8. QED
    BY <1>3, FamilyRequestCases, <2>1, <2>2, <2>3, <2>4, <2>5, <2>6, <2>7
<1>4. CASE EndRequest(c)
  BY <1>1, <1>4 DEF EndRequest, Idle
<1>5. QED
  BY <1>2, <1>3, <1>4

-----------------------------------------------------------------------------
(* Rows and tokens.                                                        *)

LEMMA SeedUsersKept ==
    ASSUME TypeOK, users' = users \o <<SeedUser(1, "admin"), SeedUser(2, "member")>>
    PROVE  /\ UsersKept
           /\ DOMAIN users' = 1..(Len(users) + 2)
           /\ users'[Len(users) + 1].phone = SeedPhones[1]
           /\ users'[Len(users) + 2].phone = SeedPhones[2]
           /\ \A u \in DOMAIN users : users'[u] = users[u]
<1>1. SeedUser(1, "admin") \in UserRow /\ SeedUser(2, "member") \in UserRow
  BY SeedUserType, RoleType
<1>2. users \in Seq(UserRow)
  BY DEF TypeOK, HouseholdTypeOK
<1>3. /\ DOMAIN users' = 1..(Len(users) + 2)
      /\ \A u \in DOMAIN users : u \in DOMAIN users' /\ users'[u] = users[u]
      /\ users'[Len(users) + 1] = SeedUser(1, "admin")
      /\ users'[Len(users) + 2] = SeedUser(2, "member")
  BY <1>1, <1>2, RowsAppended
<1>4. QED
  BY <1>3 DEF UsersKept, SeedUser

LEMMA RegisterKept ==
    ASSUME TypeOK, NEW c \in Clients, Register(c)
    PROVE  /\ DOMAIN users' = 1..(Len(users) + 1)
           /\ \A u \in DOMAIN users : u \in DOMAIN users' /\ users'[u] = users[u]
           /\ users'[Len(users) + 1].phone = request[c].phone
<1> DEFINE row == [phone |-> request[c].phone, role |-> "member", profile |-> NoProfile]
<1>1. request[c] \in RequestState /\ users \in Seq(UserRow)
  BY DEF TypeOK, HouseholdTypeOK
<1>2. row \in UserRow
  BY <1>1, RequestFields, RoleType, ProfileAssumption DEF Register, UserRow
<1>3. users' = Append(users, row) /\ row.phone = request[c].phone
  BY DEF Register, CreateUser
<1> HIDE DEF row
<1>4. QED
  BY <1>1, <1>2, <1>3, RowAppended

LEMMA SaveKept ==
    ASSUME TypeOK, SavesKept, NEW c \in Clients, SaveProfile(c)
    PROVE  UsersKept /\ DOMAIN users' = DOMAIN users
<1>1. request[c] \in RequestState /\ users \in Seq(UserRow)
  BY DEF TypeOK, HouseholdTypeOK
<1>2. request[c].row \in UserRow
  BY <1>1, RequestFields DEF SaveProfile
<1>3. /\ DOMAIN users' = DOMAIN users
      /\ \A u \in DOMAIN users :
            users'[u] = IF u = request[c].user THEN request[c].row ELSE users[u]
  BY <1>1, <1>2, RowReplaced DEF SaveProfile
<1>4. QED
  BY <1>3 DEF SavesKept, SaveProfile, UsersKept

LEMMA UsersStep ==
    ASSUME TypeOK, SavesKept, [Next]_vars
    PROVE  UsersKept
<1>1. ASSUME NEW p \in Processes, StartStep(p)
      PROVE  UsersKept
  BY <1>1, StartUsers, SeedUsersKept DEF UsersKept
<1>2. ASSUME NEW p \in Processes, Crash(p)
      PROVE  UsersKept
  BY <1>2 DEF Crash, storeVars, UsersKept
<1>3. ASSUME NEW c \in Clients, UserRequest(c) \/ FamilyRequest(c) \/ EndRequest(c)
      PROVE  UsersKept
  <2>1. CASE UNCHANGED users
    BY <2>1 DEF UsersKept
  <2>2. CASE Register(c)
    BY <2>2, RegisterKept DEF UsersKept
  <2>3. CASE SaveProfile(c)
    BY <2>3, SaveKept
  <2>4. QED
    BY <1>3, <2>1, <2>2, <2>3, ClientUsers
<1>4. CASE UNCHANGED vars
  BY <1>4 DEF vars, storeVars, UsersKept
<1>5. QED
  BY <1>1, <1>2, <1>3, <1>4 DEF Next

LEMMA SavesInit == Init => SavesKept
BY DEF Init, Idle, SavesKept

LEMMA SavesStep ==
    ASSUME TypeOK, SavesKept, [Next]_vars
    PROVE  SavesKept'
<1>1. UsersKept
  BY UsersStep
<1>2. ASSUME UNCHANGED request
      PROVE  SavesKept'
  BY <1>1, <1>2 DEF SavesKept, UsersKept
<1>3. ASSUME NEW c \in Clients, UserRequest(c) \/ FamilyRequest(c) \/ EndRequest(c)
      PROVE  SavesKept'
  <2> SUFFICES ASSUME NEW d \in Clients, request'[d].op = "save"
               PROVE  /\ request'[d].user \in DOMAIN users'
                      /\ request'[d].row.phone = users'[request'[d].user].phone
                      /\ request'[d].row.role = users'[request'[d].user].role
    BY DEF SavesKept
  <2>1. CASE d # c
    BY <1>1, <1>3, <2>1, ClientSaves DEF SavesKept, UsersKept
  <2>2. CASE d = c
    <3>1. PICK u \in DOMAIN users, input \in ProfileInputs : FindForProfile(c, u, input)
      BY <1>3, <2>2, ClientSaves
    <3>2. users[u] \in UserRow
      BY KeysAreNumbers
    <3>3. /\ MergeProfile(users[u], input).phone = users[u].phone
          /\ MergeProfile(users[u], input).role = users[u].role
      BY <3>2 DEF MergeProfile, UserRow
    <3>4. request'[c] = [op |-> "save", user |-> u, row |-> MergeProfile(users[u], input)]
      BY <3>1 DEF FindForProfile, Receive, TypeOK, HouseholdTypeOK
    <3>5. QED
      BY <1>1, <2>2, <3>3, <3>4 DEF UsersKept
  <2>3. QED
    BY <2>1, <2>2
<1>4. CASE UNCHANGED vars
  BY <1>2, <1>4 DEF vars, storeVars
<1>5. QED
  BY <1>2, <1>3, <1>4, StartUsers DEF Next, Crash, storeVars

(* Tokens: what they say of a user stays true.                             *)
THEOREM TokensAlwaysTrue == Spec => TokensStayTrue
<1> DEFINE Inv == TypeOK /\ SavesKept
           Step == \A u \in DOMAIN users :
                      /\ users'[u].phone = users[u].phone
                      /\ users'[u].role = users[u].role
<1>1. Init => Inv
  BY TypeInit, SavesInit
<1>2. Inv /\ [Next]_vars => Inv'
  BY TypeStep, SavesStep
<1>3. Inv /\ [Next]_vars => Step
  BY UsersStep DEF UsersKept
<1>4. Inv /\ [Next]_vars => [Step]_vars
  BY <1>3
<1> HIDE DEF Inv, Step
<1>5. Spec => [][Step]_vars
  BY <1>1, <1>2, <1>4, PTL DEF Spec
<1>6. QED
  BY <1>5 DEF TokensStayTrue, Step

-----------------------------------------------------------------------------
(* Logins.                                                                 *)

(* A database of init.sql is complete, and no process works on it.         *)
Prepared ==
    byInitSql =>
        /\ phoneIndex
        /\ tables = LastTable
        /\ \A p \in Processes : stage[p] \in {Starting, Serving}

LEMMA PreparedInit == Init => Prepared
BY DEF Init, StartupInit, Prepared

(* All that a process does to such a database is to find it complete.      *)
LEMMA PreparedStart ==
    ASSUME Prepared, byInitSql, NEW p \in Processes, StartStep(p)
    PROVE  FindUsersTable(p) /\ Reach(p, Serving)
<1>1. stage[p] = Starting \/ stage[p] = Serving
  BY DEF Prepared
<1>2. stage[p].at \in {"starting", "serving"} /\ stage[p] # Counting
  BY <1>1 DEF Starting, Serving, Counting
<1>3. FindUsersTable(p)
  BY <1>2 DEF StartStep, FindTable, CreateTable, CreatePhoneIndex, CountUsers,
              SeedUsers, SeedFamily, SeedMembers, SeedFood, Seeds
<1>4. HasTable(UsersTable)
  BY LastTableAssumption DEF Prepared, HasTable, UsersTable, FamilyMembersTable
<1>5. QED
  BY <1>3, <1>4 DEF FindUsersTable

LEMMA PreparedStep ==
    ASSUME TypeOK, Prepared, [Next]_vars
    PROVE  Prepared'
<1>1. stage \in [Processes -> Stage]
  BY DEF TypeOK, StartupTypeOK
<1>2. ASSUME NEW p \in Processes, StartStep(p)
      PROVE  Prepared'
  <2>1. UNCHANGED byInitSql
    BY <1>2 DEF StartStep, FindUsersTable, FindTable, CreateTable, CreatePhoneIndex, CountUsers,
                SeedUsers, SeedFamily, SeedMembers, SeedFood, Seeds, Panic, schemaVars
  <2>2. CASE byInitSql
    <3>1. FindUsersTable(p) /\ Reach(p, Serving)
      BY <1>2, <2>2, PreparedStart
    <3>2. QED
      BY <1>1, <3>1 DEF FindUsersTable, Reach, Prepared, schemaVars
  <2>3. QED
    BY <2>1, <2>2 DEF Prepared
<1>3. ASSUME NEW p \in Processes, Crash(p)
      PROVE  Prepared'
  BY <1>1, <1>3 DEF Crash, Reach, storeVars, schemaVars, Prepared
<1>4. ASSUME UNCHANGED schemaVars, UNCHANGED stage
      PROVE  Prepared'
  BY <1>4 DEF schemaVars, Prepared
<1>5. QED
  BY <1>2, <1>3, <1>4, ClientUsers DEF Next, vars, storeVars, startupVars

(* No two users have a phone in common.                                    *)
PhonesDiffer == \A u, v \in DOMAIN users : users[u].phone = users[v].phone => u = v

(* The index is only made over phones that differ, and keeps them so.      *)
DistinctPhones == phoneIndex => PhonesDiffer

LEMMA DistinctInit == Init => DistinctPhones
BY DEF Init, StartupInit, DistinctPhones, PhonesDiffer, SeedPhones

(* A process that comes up leaves the index alone, or makes it over phones *)
(* that differ.                                                            *)
LEMMA StartIndex ==
    ASSUME NEW p \in Processes, StartStep(p)
    PROVE  \/ UNCHANGED phoneIndex
           \/ UNCHANGED users /\ PhonesDiffer
BY DEF StartStep, FindUsersTable, FindTable, CreateTable, CreatePhoneIndex, CountUsers,
       SeedUsers, SeedFamily, SeedMembers, SeedFood, Seeds, Panic, schemaVars, PhonesDiffer

(* The seeds meet the index with both phones.                              *)
LEMMA SeedsDiffer ==
    ASSUME TypeOK, DistinctPhones, phoneIndex,
           PhoneAccepted(SeedPhones[1]), PhoneAccepted(SeedPhones[2]),
           users' = users \o <<SeedUser(1, "admin"), SeedUser(2, "member")>>
    PROVE  PhonesDiffer'
<1>1. /\ DOMAIN users' = 1..(Len(users) + 2)
      /\ \A u \in DOMAIN users : users'[u] = users[u]
      /\ users'[Len(users) + 1].phone = SeedPhones[1]
      /\ users'[Len(users) + 2].phone = SeedPhones[2]
  BY SeedUsersKept
<1>2. \A u \in DOMAIN users : users[u].phone # SeedPhones[1] /\ users[u].phone # SeedPhones[2]
  BY DEF PhoneAccepted, CountByPhone
<1>3. \A u \in DOMAIN users' :
          u \in DOMAIN users \/ u = Len(users) + 1 \/ u = Len(users) + 2
  BY <1>1, KeysAreNumbers
<1>4. SeedPhones[1] # SeedPhones[2]
  BY DEF SeedPhones
<1>5. PhonesDiffer
  BY DEF DistinctPhones
<1>6. QED
  BY <1>1, <1>2, <1>3, <1>4, <1>5 DEF PhonesDiffer

LEMMA DistinctStep ==
    ASSUME TypeOK, SavesKept, DistinctPhones, [Next]_vars
    PROVE  DistinctPhones'
<1>1. ASSUME UNCHANGED users, UNCHANGED phoneIndex
      PROVE  DistinctPhones'
  BY <1>1 DEF DistinctPhones, PhonesDiffer
<1>2. ASSUME NEW p \in Processes, StartStep(p)
      PROVE  DistinctPhones'
  <2>1. CASE UNCHANGED users
    <3>1. CASE UNCHANGED phoneIndex
      BY <1>1, <2>1, <3>1
    <3>2. CASE PhonesDiffer
      BY <2>1, <3>2 DEF DistinctPhones, PhonesDiffer
    <3>3. QED
      BY <1>2, <3>1, <3>2, StartIndex
  <2>2. CASE /\ PhoneAccepted(SeedPhones[1]) /\ PhoneAccepted(SeedPhones[2])
             /\ Seeds(p, 1, Len(users) + 1, 0)
             /\ users' = users \o <<SeedUser(1, "admin"), SeedUser(2, "member")>>
    <3>1. phoneIndex' = phoneIndex
      BY <2>2 DEF Seeds
    <3>2. phoneIndex => PhonesDiffer'
      BY <2>2, SeedsDiffer
    <3>3. QED
      BY <3>1, <3>2 DEF DistinctPhones
  <2>3. QED
    BY <1>2, <2>1, <2>2, StartUsers
<1>3. ASSUME NEW c \in Clients, Register(c)
      PROVE  DistinctPhones'
  <2>1. /\ DOMAIN users' = 1..(Len(users) + 1)
        /\ \A u \in DOMAIN users : users'[u] = users[u]
        /\ users'[Len(users) + 1].phone = request[c].phone
    BY <1>3, RegisterKept
  <2>2. /\ phoneIndex' = phoneIndex
        /\ phoneIndex => \A u \in DOMAIN users : users[u].phone # request[c].phone
    BY <1>3 DEF Register, PhoneAccepted, CountByPhone, schemaVars
  <2>3. \A u \in DOMAIN users' : u \in DOMAIN users \/ u = Len(users) + 1
    BY <2>1, KeysAreNumbers
  <2>4. QED
    BY <2>1, <2>2, <2>3 DEF DistinctPhones, PhonesDiffer
<1>4. ASSUME NEW c \in Clients, SaveProfile(c)
      PROVE  DistinctPhones'
  <2>1. /\ DOMAIN users' = DOMAIN users
        /\ \A u \in DOMAIN users : users'[u].phone = users[u].phone
    BY <1>4, SaveKept DEF UsersKept
  <2>2. phoneIndex' = phoneIndex
    BY <1>4 DEF SaveProfile, schemaVars
  <2>3. QED
    BY <2>1, <2>2 DEF DistinctPhones, PhonesDiffer
<1>5. ASSUME NEW c \in Clients, UserRequest(c) \/ FamilyRequest(c) \/ EndRequest(c)
      PROVE  DistinctPhones'
  BY <1>1, <1>3, <1>4, <1>5, ClientUsers DEF schemaVars
<1>6. QED
  BY <1>1, <1>2, <1>5 DEF Next, Crash, vars, storeVars, schemaVars

(* From the unique index on, whoever has registered reaches his own row    *)
(* when he logs in, also after registrations that overlapped, and while    *)
(* another process still seeds.                                            *)
THEOREM LoginCorrect == Spec => []LoginReachesOwner
<1> DEFINE Inv == TypeOK /\ SavesKept /\ DistinctPhones
<1>1. Init => Inv
  BY TypeInit, SavesInit, DistinctInit
<1>2. Inv /\ [Next]_vars => Inv'
  BY TypeStep, SavesStep, DistinctStep
<1>3. Inv => LoginReachesOwner
  <2>1. ASSUME Inv, phoneIndex, NEW u \in DOMAIN users, NEW v \in 1..(u - 1)
        PROVE  users[v].phone # users[u].phone
    <3>1. v \in DOMAIN users /\ v # u
      BY <2>1, KeysAreNumbers
    <3>2. QED
      BY <2>1, <3>1 DEF DistinctPhones, PhonesDiffer
  <2>2. QED
    BY <2>1 DEF LoginReachesOwner, Login, FindByPhone
<1> HIDE DEF Inv
<1>4. QED
  BY <1>1, <1>2, <1>3, PTL DEF Spec

-----------------------------------------------------------------------------
(* Seeds.                                                                  *)

(* A process on the way from the index on users to the seeds.              *)
PastIndex(s) ==
    \/ s.at \in {"counting", "seeding"}
    \/ s.at \in {"finding", "creating"} /\ s.table > UsersTable

(* A process that has seeded the users and not yet everything.             *)
Filling(s) == s.at = "seeding" /\ s.next > 1

(* The unique index, which is there before any process seeds, lets a       *)
(* single process past the seed of users.                                  *)
SeedProgress ==
    /\ seeded <= LastSeed
    /\ seeded > 0 => CountByPhone(SeedPhones[1])
    /\ \A p \in Processes : PastIndex(stage[p]) => phoneIndex
    /\ \A p \in Processes : Filling(stage[p]) => seeded = stage[p].next - 1
    /\ \A p, q \in Processes : Filling(stage[p]) /\ Filling(stage[q]) => p = q

LEMMA ProgressInit == Init => SeedProgress
<1> SUFFICES ASSUME Init
             PROVE  SeedProgress
  OBVIOUS
<1> USE DEF Init, StartupInit
<1>1. seeded <= LastSeed /\ (seeded > 0 => byInitSql)
  BY LastSeedAssumption
<1>2. byInitSql => CountByPhone(SeedPhones[1])
  BY DEF CountByPhone
<1>3. \A p \in Processes : stage[p].at = "starting"
  BY DEF Starting
<1>4. QED
  BY <1>1, <1>2, <1>3 DEF SeedProgress, PastIndex, Filling

LEMMA PhoneStaysCounted ==
    ASSUME UsersKept, NEW phone, CountByPhone(phone)
    PROVE  CountByPhone(phone)'
BY DEF UsersKept, CountByPhone

(* A process that moves on without a seed.                                 *)
LEMMA UnseededProgress ==
    ASSUME TypeOK, SeedProgress, UsersKept, NEW p \in Processes, NEW s, Reach(p, s),
           ~Filling(s), PastIndex(s) => phoneIndex', phoneIndex => phoneIndex', UNCHANGED seeded
    PROVE  SeedProgress'
<1>1. \A q \in Processes : stage'[q] = IF q = p THEN s ELSE stage[q]
  BY DEF TypeOK, StartupTypeOK, Reach
<1>2. seeded' > 0 => CountByPhone(SeedPhones[1])'
  BY PhoneStaysCounted DEF SeedProgress
<1>3. \A q \in Processes : PastIndex(stage'[q]) => phoneIndex'
  BY <1>1 DEF SeedProgress
<1>4. \A q \in Processes : Filling(stage'[q]) => Filling(stage[q]) /\ stage'[q] = stage[q]
  BY <1>1
<1>5. QED
  BY <1>2, <1>3, <1>4 DEF SeedProgress

(* A process whose next seed goes through.                                 *)
LEMMA SeededProgress ==
    ASSUME TypeOK, SeedProgress, CountByPhone(SeedPhones[1])', NEW p \in Processes,
           NEW owner, NEW family, Seeds(p, stage[p].next, owner, family),
           seeded = stage[p].next - 1, \A q \in Processes : Filling(stage[q]) => q = p
    PROVE  SeedProgress'
<1> DEFINE n == stage[p].next
           s == IF n = LastSeed THEN Serving
                ELSE [at |-> "seeding", next |-> n + 1, owner |-> owner, family |-> family]
<1>1. n \in 1..LastSeed /\ stage[p].at = "seeding"
  BY StageFields DEF Seeds, TypeOK, StartupTypeOK
<1>2. \A q \in Processes : stage'[q] = IF q = p THEN s ELSE stage[q]
  BY DEF TypeOK, StartupTypeOK, Seeds, Reach
<1>3. seeded' = n /\ phoneIndex' = phoneIndex
  BY <1>1 DEF Seeds
<1>4. phoneIndex
  BY <1>1 DEF SeedProgress, PastIndex
<1>5. Filling(s) => s.next = n + 1
  BY DEF Filling, Serving
<1>6. \A q \in Processes : Filling(stage'[q]) => q = p /\ stage'[q] = s
  BY <1>2
<1> HIDE DEF s
<1>7. QED
  <2>1. \A q \in Processes : Filling(stage'[q]) => seeded' = stage'[q].next - 1
    BY <1>1, <1>3, <1>5, <1>6
  <2>2. seeded' <= LastSeed
    BY <1>1, <1>3, LastSeedAssumption
  <2> HIDE DEF n
  <2>3. QED
    BY <1>3, <1>4, <1>6, <2>1, <2>2 DEF SeedProgress

LEMMA StartProgress ==
    ASSUME TypeOK, SeedProgress, UsersKept, NEW p \in Processes, StartStep(p)
    PROVE  SeedProgress'
<1> USE DEF schemaVars
<1>1. stage[p] \in Stage
  BY DEF TypeOK, StartupTypeOK
<1>2. ~Filling(Starting) /\ ~PastIndex(Starting) /\ ~Filling(Serving) /\ ~PastIndex(Serving)
  BY DEF Filling, PastIndex, Starting, Serving
<1>3. \A table \in 1..LastTable :
          /\ ~Filling(AfterTable(table))
          /\ ~Filling([at |-> "finding", table |-> table])
          /\ ~Filling([at |-> "creating", table |-> table])
          /\ ~Filling([at |-> "indexing"]) /\ ~PastIndex([at |-> "indexing"])
  BY DEF Filling, AfterTable, Counting, PastIndex
<1>4. ASSUME Panic(p)
      PROVE  SeedProgress'
  BY <1>2, <1>4, UnseededProgress DEF Panic
<1>5. CASE FindUsersTable(p)
  <2>1. ~PastIndex([at |-> "finding", table |-> UsersTable])
    BY DEF PastIndex, UsersTable
  <2>2. UsersTable \in 1..LastTable
    BY StagesMade
  <2>3. QED
    BY <1>2, <1>3, <1>5, <2>1, <2>2, UnseededProgress DEF FindUsersTable
<1>6. CASE FindTable(p)
  <2> DEFINE table == stage[p].table
  <2>1. table \in 1..LastTable /\ stage[p].at = "finding"
    BY <1>1, <1>6, StageFields DEF FindTable
  <2>2. table # UsersTable => phoneIndex
    BY <2>1 DEF SeedProgress, PastIndex, UsersTable
  <2>3. table = UsersTable => ~PastIndex([at |-> "creating", table |-> table])
    BY DEF PastIndex, UsersTable
  <2>4. PICK s : /\ Reach(p, s)
                 /\ \/ s = [at |-> "creating", table |-> table]
                    \/ table = UsersTable /\ s = [at |-> "indexing"]
                    \/ table # UsersTable /\ s = AfterTable(table)
    BY <1>6 DEF FindTable
  <2>5. UNCHANGED <<seeded, phoneIndex>>
    BY <1>6 DEF FindTable
  <2>6. ~Filling(s) /\ (PastIndex(s) => phoneIndex)
    BY <1>3, <2>1, <2>2, <2>3, <2>4
  <2>7. QED
    BY <2>4, <2>5, <2>6, UnseededProgress
<1>7. CASE CreateTable(p)
  <2> DEFINE table == stage[p].table
  <2>1. table \in 1..LastTable /\ stage[p].at = "creating"
    BY <1>1, <1>7, StageFields DEF CreateTable
  <2>2. table # UsersTable => phoneIndex
    BY <2>1 DEF SeedProgress, PastIndex, UsersTable
  <2>3. CASE HasTable(table)
    BY <1>4, <1>7, <2>3 DEF CreateTable
  <2>4. CASE ~HasTable(table)
    <3>1. PICK s : /\ Reach(p, s)
                   /\ \/ table = UsersTable /\ s = [at |-> "indexing"]
                      \/ table # UsersTable /\ s = AfterTable(table)
      BY <1>7, <2>4 DEF CreateTable
    <3>2. UNCHANGED <<seeded, phoneIndex>>
      BY <1>7, <2>4 DEF CreateTable
    <3>3. ~Filling(s) /\ (PastIndex(s) => phoneIndex)
      BY <1>3, <2>1, <2>2, <3>1
    <3>4. QED
      BY <3>1, <3>2, <3>3, UnseededProgress
  <2>5. QED
    BY <2>3, <2>4
<1>8. CASE CreatePhoneIndex(p)
  <2>1. CASE \E u, v \in DOMAIN users : u # v /\ users[u].phone = users[v].phone
    BY <1>4, <1>8, <2>1 DEF CreatePhoneIndex
  <2>2. CASE ~\E u, v \in DOMAIN users : u # v /\ users[u].phone = users[v].phone
    <3>1. phoneIndex' /\ Reach(p, AfterTable(UsersTable)) /\ UNCHANGED seeded
      BY <1>8, <2>2 DEF CreatePhoneIndex
    <3>2. UsersTable \in 1..LastTable
      BY StagesMade
    <3>3. QED
      BY <1>3, <3>1, <3>2, UnseededProgress
  <2>3. QED
    BY <2>1, <2>2
<1>9. CASE CountUsers(p)
  <2> DEFINE first == [at |-> "seeding", next |-> 1, owner |-> 0, family |-> 0]
  <2>1. phoneIndex
    BY <1>9 DEF CountUsers, SeedProgress, PastIndex, Counting
  <2>2. ~Filling(first)
    BY DEF Filling
  <2>3. UNCHANGED <<seeded, phoneIndex>> /\ (Reach(p, Serving) \/ Reach(p, first))
    BY <1>9 DEF CountUsers
  <2> HIDE DEF first
  <2>4. QED
    BY <1>2, <2>1, <2>2, <2>3, UnseededProgress
<1>10. CASE SeedUsers(p)
  <2>1. CASE PhoneAccepted(SeedPhones[1]) /\ PhoneAccepted(SeedPhones[2])
    <3>1. /\ Seeds(p, 1, Len(users) + 1, 0) /\ stage[p].at = "seeding" /\ stage[p].next = 1
          /\ users' = users \o <<SeedUser(1, "admin"), SeedUser(2, "member")>>
      BY <1>10, <2>1 DEF SeedUsers, Seeds
    <3>2. ~CountByPhone(SeedPhones[1])
      BY <2>1, <3>1 DEF PhoneAccepted, SeedProgress, PastIndex
    <3>3. seeded = 0
      BY <3>2 DEF SeedProgress, TypeOK, HouseholdTypeOK
    <3>4. \A q \in Processes : ~Filling(stage[q])
      <4>1. ASSUME NEW q \in Processes, Filling(stage[q])
            PROVE  FALSE
        <5>1. stage[q].next \in 1..LastSeed /\ stage[q].next > 1
          BY <4>1, StageFields DEF Filling, TypeOK, StartupTypeOK
        <5>2. 0 = stage[q].next - 1
          BY <3>3, <4>1 DEF SeedProgress
        <5>3. QED
          BY <5>1, <5>2, LastSeedAssumption
      <4>2. QED
        BY <4>1
    <3>5. CountByPhone(SeedPhones[1])'
      <4>1. /\ DOMAIN users' = 1..(Len(users) + 2)
            /\ users'[Len(users) + 1].phone = SeedPhones[1]
        BY <3>1, SeedUsersKept
      <4>2. Len(users) + 1 \in DOMAIN users'
        BY <4>1, KeysAreNumbers
      <4>3. QED
        BY <4>1, <4>2 DEF CountByPhone
    <3>6. /\ Seeds(p, stage[p].next, Len(users) + 1, 0)
          /\ seeded = stage[p].next - 1
          /\ \A q \in Processes : Filling(stage[q]) => q = p
      BY <3>1, <3>3, <3>4
    <3>7. QED
      BY <3>5, <3>6, SeededProgress
  <2>2. QED
    BY <1>4, <1>10, <2>1 DEF SeedUsers
<1>11. ASSUME NEW n, NEW owner, NEW family, Seeds(p, n, owner, family), n > 1, n \in Nat
       PROVE  SeedProgress'
  <2>1. Filling(stage[p]) /\ n = stage[p].next
    BY <1>11 DEF Seeds, Filling
  <2>2. seeded = n - 1 /\ \A q \in Processes : Filling(stage[q]) => q = p
    BY <2>1 DEF SeedProgress
  <2>3. seeded > 0
    BY <1>11, <2>2
  <2>4. CountByPhone(SeedPhones[1])'
    BY <2>3, PhoneStaysCounted DEF SeedProgress
  <2>5. QED
    BY <1>11, <2>1, <2>2, <2>4, SeededProgress
<1>12. CASE SeedFamily(p) \/ SeedMembers(p)
  BY <1>11, <1>12 DEF SeedFamily, SeedMembers
<1>13. CASE SeedFood(p)
  <2>1. stage[p].next \in Nat /\ stage[p].next > 1
    BY <1>1, <1>13, StageFields DEF SeedFood
  <2>2. QED
    BY <1>11, <1>13, <2>1 DEF SeedFood
<1>14. QED
  BY <1>5, <1>6, <1>7, <1>8, <1>9, <1>10, <1>12, <1>13 DEF StartStep

LEMMA ProgressStep ==
    ASSUME TypeOK, SavesKept, SeedProgress, [Next]_vars
    PROVE  SeedProgress'
<1>1. UsersKept
  BY UsersStep
<1>2. ASSUME NEW p \in Processes, Crash(p)
      PROVE  SeedProgress'
  <2>1. ~Filling(Starting) /\ ~PastIndex(Starting)
    BY DEF Filling, PastIndex, Starting
  <2>2. QED
    BY <1>1, <1>2, <2>1, UnseededProgress DEF Crash, storeVars, schemaVars
<1>3. ASSUME UNCHANGED schemaVars, UNCHANGED stage
      PROVE  SeedProgress'
  <2>1. seeded' > 0 => CountByPhone(SeedPhones[1])'
    BY <1>1, <1>3, PhoneStaysCounted DEF SeedProgress, schemaVars
  <2>2. QED
    BY <1>3, <2>1 DEF SeedProgress, schemaVars
<1>4. QED
  BY <1>1, <1>2, <1>3, StartProgress, ClientUsers DEF Next, vars, storeVars, startupVars

(* No seed is inserted twice, however many processes start on an empty     *)
(* database and wherever they are killed.                                  *)
THEOREM SeedsCorrect == Spec => []SeededOnce
<1> DEFINE Inv == TypeOK /\ SavesKept /\ SeedProgress
<1>1. Init => Inv
  BY TypeInit, SavesInit, ProgressInit
<1>2. Inv /\ [Next]_vars => Inv'
  BY TypeStep, SavesStep, ProgressStep
<1>3. Inv => SeededOnce
  BY DEF SeedProgress, SeededOnce
<1> HIDE DEF Inv
<1>4. QED
  BY <1>1, <1>2, <1>3, PTL DEF Spec

-----------------------------------------------------------------------------
(* Complete databases.                                                     *)

(* A database of init.sql has had its seeds from the start.                *)
SeedsPrepared == byInitSql => seeded = LastSeed

LEMMA SeedsPreparedStep ==
    ASSUME TypeOK, Prepared, SeedsPrepared, [Next]_vars
    PROVE  SeedsPrepared'
<1>1. ASSUME NEW p \in Processes, StartStep(p)
      PROVE  SeedsPrepared'
  <2>1. UNCHANGED byInitSql
    BY <1>1 DEF StartStep, FindUsersTable, FindTable, CreateTable, CreatePhoneIndex, CountUsers,
                SeedUsers, SeedFamily, SeedMembers, SeedFood, Seeds, Panic, schemaVars
  <2>2. byInitSql => UNCHANGED seeded
    BY <1>1, PreparedStart DEF FindUsersTable, schemaVars
  <2>3. QED
    BY <2>1, <2>2 DEF SeedsPrepared
<1>2. ASSUME UNCHANGED schemaVars
      PROVE  SeedsPrepared'
  BY <1>2 DEF schemaVars, SeedsPrepared
<1>3. QED
  BY <1>1, <1>2, ClientUsers DEF Next, Crash, vars, storeVars

(* However many processes come up on a database of init.sql, and wherever  *)
(* they are killed: once one of them serves, nothing is missing.           *)
THEOREM PreparedServesComplete == Spec => [](byInitSql => ServesComplete)
<1> DEFINE Inv == TypeOK /\ Prepared /\ SeedsPrepared
<1>1. Init => Inv
  BY TypeInit, PreparedInit DEF Init, StartupInit, SeedsPrepared
<1>2. Inv /\ [Next]_vars => Inv'
  BY TypeStep, PreparedStep, SeedsPreparedStep
<1>3. Inv => (byInitSql => ServesComplete)
  BY LastSeedAssumption DEF Prepared, SeedsPrepared, ServesComplete
<1> HIDE DEF Inv
<1>4. QED
  BY <1>1, <1>2, <1>3, PTL DEF Spec

(* What a process that nobody disturbs has left behind it on an empty      *)
(* database.                                                               *)
Advanced(s) ==
    /\ s.at = "starting" => tables = 0
    /\ s.at \in {"finding", "creating"} => tables = s.table - 1
    /\ s.at = "indexing" => tables = UsersTable
    /\ s.at \in {"counting", "seeding", "serving"} => tables = LastTable
    /\ s.at = "seeding" => seeded = s.next - 1
    /\ s.at = "serving" => seeded = LastSeed
    /\ s.at \notin {"seeding", "serving"} => seeded = 0
    /\ s.at # "serving" /\ ~Filling(s) => users = <<>>

AloneInv == ~byInitSql => \A p \in Processes : Advanced(stage[p])

LEMMA AloneInit == Init => AloneInv
BY DEF Init, StartupInit, AloneInv, Advanced, Starting

(* Such a process is never refused anything, and so never starts over.     *)
LEMMA AloneStart ==
    ASSUME TypeOK, NEW p \in Processes, Advanced(stage[p]), StartStep(p)
    PROVE  Advanced(stage[p])'
<1> USE DEF schemaVars
<1>1. stage[p] \in Stage /\ tables \in 0..LastTable
  BY DEF TypeOK, StartupTypeOK, HouseholdTypeOK
<1>2. \A s : Reach(p, s) => stage'[p] = s
  BY DEF TypeOK, StartupTypeOK, Reach
<1>3. \A table \in 1..LastTable :
          /\ AfterTable(table).at \in {"finding", "counting"}
          /\ AfterTable(table).at = "finding" => AfterTable(table).table = table + 1
          /\ AfterTable(table).at = "counting" => table = LastTable
  BY DEF AfterTable, Counting
<1>4. UsersTable \in 1..LastTable /\ UsersTable = 1 /\ LastTable \in Nat
  BY LastTableAssumption, StagesMade DEF UsersTable
<1>5. CASE FindUsersTable(p)
  <2>1. stage[p].at = "starting" /\ tables = 0
    BY <1>5 DEF FindUsersTable, Starting, Advanced
  <2>2. stage'[p] = [at |-> "finding", table |-> UsersTable]
    BY <1>2, <1>4, <1>5, <2>1 DEF FindUsersTable, HasTable
  <2>3. UNCHANGED <<tables, seeded, users>> /\ seeded = 0 /\ users = <<>>
    BY <1>5, <2>1 DEF FindUsersTable, Advanced, Filling
  <2>4. QED
    BY <1>4, <2>1, <2>2, <2>3 DEF Advanced
<1>6. CASE FindTable(p)
  <2> DEFINE table == stage[p].table
  <2>1. table \in 1..LastTable /\ stage[p].at = "finding" /\ tables = table - 1
    BY <1>1, <1>6, StageFields DEF FindTable, Advanced
  <2>2. stage'[p] = [at |-> "creating", table |-> table]
    BY <1>2, <1>6, <2>1 DEF FindTable, HasTable
  <2>3. UNCHANGED <<tables, seeded, users>> /\ seeded = 0 /\ users = <<>>
    BY <1>6, <2>1 DEF FindTable, Advanced, Filling
  <2> HIDE DEF table
  <2>4. QED
    BY <2>1, <2>2, <2>3 DEF Advanced
<1>7. CASE CreateTable(p)
  <2> DEFINE table == stage[p].table
  <2>1. table \in 1..LastTable /\ stage[p].at = "creating" /\ tables = table - 1
    BY <1>1, <1>7, StageFields DEF CreateTable, Advanced
  <2>2. ~HasTable(table)
    BY <2>1 DEF HasTable
  <2>3. /\ tables' = table
        /\ stage'[p] = IF table = UsersTable THEN [at |-> "indexing"] ELSE AfterTable(table)
    BY <1>2, <1>7, <2>2 DEF CreateTable
  <2>4. UNCHANGED <<seeded, users>> /\ seeded = 0 /\ users = <<>>
    BY <1>7, <2>1, <2>2 DEF CreateTable, Advanced, Filling
  <2> HIDE DEF table
  <2>5. QED
    BY <1>3, <2>1, <2>3, <2>4 DEF Advanced
<1>8. CASE CreatePhoneIndex(p)
  <2>1. stage[p].at = "indexing" /\ tables = UsersTable /\ seeded = 0 /\ users = <<>>
    BY <1>8 DEF CreatePhoneIndex, Advanced, Filling
  <2>2. ~\E u, v \in DOMAIN users : u # v /\ users[u].phone = users[v].phone
    BY <2>1
  <2>3. /\ stage'[p] = AfterTable(UsersTable)
        /\ UNCHANGED <<tables, seeded, users>>
    BY <1>2, <1>8, <2>2 DEF CreatePhoneIndex
  <2>4. QED
    BY <1>3, <1>4, <2>1, <2>3 DEF Advanced
<1>9. CASE CountUsers(p)
  <2>1. stage[p].at = "counting" /\ tables = LastTable /\ seeded = 0 /\ users = <<>>
    BY <1>9 DEF CountUsers, Counting, Advanced, Filling
  <2>2. /\ stage'[p] = [at |-> "seeding", next |-> 1, owner |-> 0, family |-> 0]
        /\ UNCHANGED <<tables, seeded, users>>
    BY <1>2, <1>9, <2>1 DEF CountUsers
  <2>3. QED
    BY <2>1, <2>2 DEF Advanced
<1>10. ASSUME NEW n, NEW owner, NEW family, Seeds(p, n, owner, family)
       PROVE  Advanced(stage[p])'
  <2>1. /\ n \in 1..LastSeed
        /\ stage[p].at = "seeding"
        /\ tables = LastTable
        /\ seeded = n - 1
    BY <1>1, <1>10, StageFields DEF Seeds, Advanced
  <2>2. seeded' = n /\ tables' = LastTable
    BY <1>10, <2>1 DEF Seeds
  <2>3. CASE n = LastSeed
    BY <1>2, <1>10, <2>2, <2>3 DEF Seeds, Advanced, Serving
  <2>4. CASE n # LastSeed
    <3>1. stage'[p] = [at |-> "seeding", next |-> n + 1, owner |-> owner, family |-> family]
      BY <1>2, <1>10, <2>4 DEF Seeds
    <3>2. n + 1 > 1
      BY <2>1, LastSeedAssumption
    <3>3. QED
      BY <2>1, <2>2, <3>1, <3>2 DEF Advanced, Filling
  <2>5. QED
    BY <2>3, <2>4
<1>11. CASE SeedUsers(p)
  <2>1. stage[p].at = "seeding" /\ stage[p].next = 1
    BY <1>11 DEF SeedUsers, Seeds
  <2>2. users = <<>>
    BY <2>1 DEF Advanced, Filling
  <2>3. PhoneAccepted(SeedPhones[1]) /\ PhoneAccepted(SeedPhones[2])
    BY <2>2 DEF PhoneAccepted, CountByPhone
  <2>4. QED
    BY <1>10, <1>11, <2>3 DEF SeedUsers
<1>12. CASE SeedFamily(p) \/ SeedMembers(p) \/ SeedFood(p)
  BY <1>10, <1>12 DEF SeedFamily, SeedMembers, SeedFood
<1>13. QED
  BY <1>5, <1>6, <1>7, <1>8, <1>9, <1>11, <1>12 DEF StartStep

LEMMA AloneStep ==
    ASSUME MaxCrashes = 0, \A p, q \in Processes : p = q,
           TypeOK, AloneInv, [Next]_vars
    PROVE  AloneInv'
<1>1. ASSUME NEW p \in Processes, StartStep(p)
      PROVE  AloneInv'
  <2>1. UNCHANGED byInitSql
    BY <1>1 DEF StartStep, FindUsersTable, FindTable, CreateTable, CreatePhoneIndex, CountUsers,
                SeedUsers, SeedFamily, SeedMembers, SeedFood, Seeds, Panic, schemaVars
  <2>2. \A q \in Processes : q = p
    OBVIOUS
  <2>3. ~byInitSql => Advanced(stage[p])'
    BY <1>1, AloneStart DEF AloneInv
  <2>4. QED
    BY <2>1, <2>2, <2>3 DEF AloneInv
<1>2. ASSUME NEW c \in Clients, UserRequest(c) \/ FamilyRequest(c) \/ EndRequest(c),
             IsServed, UNCHANGED startupVars
      PROVE  AloneInv'
  <2>1. \A p \in Processes : stage[p] = Serving
    BY <1>2 DEF IsServed
  <2>2. UNCHANGED <<schemaVars, stage>>
    BY <1>2, ClientUsers DEF startupVars
  <2>3. QED
    BY <2>1, <2>2 DEF AloneInv, Advanced, Serving, schemaVars
<1>3. ASSUME NEW p \in Processes, Crash(p)
      PROVE  FALSE
  BY <1>3 DEF Crash, TypeOK, StartupTypeOK
<1>4. CASE UNCHANGED vars
  BY <1>4 DEF vars, storeVars, startupVars, schemaVars, AloneInv, Advanced, Filling
<1>5. QED
  BY <1>1, <1>2, <1>3, <1>4 DEF Next

(* A process that comes up alone and is not killed serves a complete       *)
(* database, also if it finds an empty one.  The run that refutes this     *)
(* kills one; a second process is as bad as a crash: it finds the first    *)
(* table and serves while the others are made.                             *)
THEOREM AloneServesComplete ==
    ASSUME MaxCrashes = 0, \A p, q \in Processes : p = q
    PROVE  Spec => []ServesComplete
<1> DEFINE Inv == TypeOK /\ Prepared /\ SeedsPrepared /\ AloneInv
<1>1. Init => Inv
  BY TypeInit, PreparedInit, AloneInit DEF Init, StartupInit, SeedsPrepared
<1>2. Inv /\ [Next]_vars => Inv'
  BY TypeStep, PreparedStep, SeedsPreparedStep, AloneStep
<1>3. Inv => ServesComplete
  BY LastSeedAssumption
  DEF Prepared, SeedsPrepared, AloneInv, Advanced, Serving, ServesComplete, TypeOK,
      HouseholdTypeOK
<1> HIDE DEF Inv
<1>4. QED
  BY <1>1, <1>2, <1>3, PTL DEF Spec
=============================================================================
