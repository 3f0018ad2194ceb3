--------------------------- MODULE HouseholdProofs ---------------------------
(***************************************************************************)
(* Theorems of Household, for every set of clients, processes and phones,  *)
(* and every bound.                                                        *)
(***************************************************************************)
EXTENDS Household, SequenceTheorems, TLAPS

-----------------------------------------------------------------------------
(* Tables.                                                                 *)

LEMMA FewRows ==
    ASSUME NEW S, NEW d \in S, NEW e \in S
    PROVE  <<>> \in Seq(S) /\ <<d>> \in Seq(S) /\ <<d, e>> \in Seq(S)
OBVIOUS

(* A new row comes under the next key; the others stay.                    *)
LEMMA RowAppended ==
    ASSUME NEW S, NEW s \in Seq(S), NEW e \in S
    PROVE  /\ Append(s, e) \in Seq(S)
           /\ Len(Append(s, e)) = Len(s) + 1
           /\ DOMAIN Append(s, e) = 1..(Len(s) + 1)
           /\ \A i \in DOMAIN s : i \in DOMAIN Append(s, e) /\ Append(s, e)[i] = s[i]
           /\ Append(s, e)[Len(s) + 1] = e
<1>1. /\ Append(s, e) \in Seq(S)
      /\ Len(Append(s, e)) = Len(s) + 1
      /\ DOMAIN Append(s, e) = 1..(Len(s) + 1)
  OBVIOUS
<1>2. DOMAIN s = 1..Len(s) /\ Len(s) \in Nat
  BY LenProperties
<1>3. ASSUME NEW i \in DOMAIN s
      PROVE  i \in DOMAIN Append(s, e) /\ Append(s, e)[i] = s[i]
  BY <1>1, <1>2
<1>4. Append(s, e)[Len(s) + 1] = e
  OBVIOUS
<1>5. QED
  BY <1>1, <1>3, <1>4

(* Two new rows come under the next keys.                                  *)
LEMMA RowsAppended ==
    ASSUME NEW S, NEW s \in Seq(S), NEW d \in S, NEW e \in S
    PROVE  /\ s \o <<d, e>> \in Seq(S)
           /\ Len(s \o <<d, e>>) = Len(s) + 2
           /\ DOMAIN (s \o <<d, e>>) = 1..(Len(s) + 2)
           /\ \A i \in DOMAIN s : i \in DOMAIN (s \o <<d, e>>) /\ (s \o <<d, e>>)[i] = s[i]
           /\ (s \o <<d, e>>)[Len(s) + 1] = d
           /\ (s \o <<d, e>>)[Len(s) + 2] = e
<1>1. <<d, e>> \in Seq(S) /\ Len(<<d, e>>) = 2 /\ <<d, e>>[1] = d /\ <<d, e>>[2] = e
  OBVIOUS
<1>2. DOMAIN s = 1..Len(s) /\ Len(s) \in Nat
  BY LenProperties
<1>3. /\ s \o <<d, e>> \in Seq(S)
      /\ Len(s \o <<d, e>>) = Len(s) + 2
      /\ \A i \in 1..(Len(s) + 2) : (s \o <<d, e>>)[i] =
             IF i <= Len(s) THEN s[i] ELSE <<d, e>>[i - Len(s)]
  <2>1. /\ s \o <<d, e>> \in Seq(S)
        /\ Len(s \o <<d, e>>) = Len(s) + Len(<<d, e>>)
        /\ \A i \in 1..(Len(s) + Len(<<d, e>>)) : (s \o <<d, e>>)[i] =
               IF i <= Len(s) THEN s[i] ELSE <<d, e>>[i - Len(s)]
    BY <1>1, ConcatProperties, Zenon
  <2>2. QED
    BY <1>1, <2>1
<1> HIDE <1>1
<1>4. DOMAIN (s \o <<d, e>>) = 1..(Len(s) + 2)
  BY <1>3, LenProperties
<1>5. ASSUME NEW i \in DOMAIN s
      PROVE  i \in DOMAIN (s \o <<d, e>>) /\ (s \o <<d, e>>)[i] = s[i]
  BY <1>2, <1>3, <1>4
<1>6. /\ (s \o <<d, e>>)[Len(s) + 1] = <<d, e>>[1]
      /\ (s \o <<d, e>>)[Len(s) + 2] = <<d, e>>[2]
  BY <1>2, <1>3
<1>7. QED
  BY <1>1, <1>3, <1>4, <1>5, <1>6

(* A row is written over; under a key that no row has, nothing happens.    *)
LEMMA RowReplaced ==
    ASSUME NEW S, NEW s \in Seq(S), NEW k, NEW e, k \in DOMAIN s => e \in S
    PROVE  /\ [s EXCEPT ![k] = e] \in Seq(S)
           /\ Len([s EXCEPT ![k] = e]) = Len(s)
           /\ DOMAIN [s EXCEPT ![k] = e] = DOMAIN s
           /\ \A i \in DOMAIN s : [s EXCEPT ![k] = e][i] = IF i = k THEN e ELSE s[i]
<1>1. /\ DOMAIN s = 1..Len(s) /\ Len(s) \in Nat
      /\ s = [i \in DOMAIN s |-> s[i]]
  BY LenProperties
<1>2. CASE k \in DOMAIN s
  BY <1>1, <1>2, ExceptSeq
<1>3. CASE k \notin DOMAIN s
  <2>1. [s EXCEPT ![k] = e] = s
    BY <1>1, <1>3
  <2>2. QED
    BY <1>3, <2>1
<1>4. QED
  BY <1>2, <1>3

-----------------------------------------------------------------------------
(* Types.                                                                  *)

LEMMA SeedUserType ==
    ASSUME NEW n \in {1, 2}, NEW role \in Roles
    PROVE  SeedUser(n, role) \in UserRow
<1>1. SeedPhones[n] \in Phones
  BY DEF Phones
<1>2. QED
  BY <1>1, ProfileAssumption DEF SeedUser, UserRow

LEMMA RoleType == "admin" \in Roles /\ "member" \in Roles
BY DEF Roles

(* What a request carries, by the call it is about to make.                *)
LEMMA RequestFields ==
    ASSUME NEW r \in RequestState
    PROVE  /\ r.op = "register" => r.phone \in Phones
           /\ r.op = "save" => r.user \in Nat /\ r.row \in UserRow
           /\ r.op \in {"invite", "insert"} =>
                r.family \in Nat /\ r.user \in Nat /\ r = [op |-> r.op, family |-> r.family, user |-> r.user]
           /\ r.op = "findForRole" => r.family \in Nat /\ r.member \in Nat /\ r.role \in Roles
           /\ r.op = "update" => r.member \in Nat /\ r.row \in MemberRow /\ r.role \in Roles
           /\ r.op = "findForRemove" => r.family \in Nat /\ r.member \in Nat
           /\ r.op = "delete" => r.member \in Nat
BY DEF RequestState, Idle

(* What the services put under way is a request.                           *)
LEMMA RequestMade ==
    /\ Idle \in RequestState
    /\ \A phone \in Phones : [op |-> "register", phone |-> phone] \in RequestState
    /\ \A u \in Nat, row \in UserRow : [op |-> "save", user |-> u, row |-> row] \in RequestState
    /\ \A family, u \in Nat :
          /\ [op |-> "invite", family |-> family, user |-> u] \in RequestState
          /\ [op |-> "insert", family |-> family, user |-> u] \in RequestState
    /\ \A family, m \in Nat, role \in Roles :
          [op |-> "findForRole", family |-> family, member |-> m, role |-> role] \in RequestState
    /\ \A m \in Nat, row \in MemberRow, role \in Roles :
          [op |-> "update", member |-> m, row |-> row, role |-> role] \in RequestState
    /\ \A family, m \in Nat :
          [op |-> "findForRemove", family |-> family, member |-> m] \in RequestState
    /\ \A m \in Nat : [op |-> "delete", member |-> m] \in RequestState
BY DEF RequestState

LEMMA ReceiveTyped ==
    ASSUME TypeOK, NEW c \in Clients, NEW r \in RequestState, Receive(c, r)
    PROVE  request' \in [Clients -> RequestState]
BY DEF TypeOK, HouseholdTypeOK, Receive

LEMMA ReachTyped ==
    ASSUME TypeOK, NEW p \in Processes, NEW s \in Stage, Reach(p, s)
    PROVE  stage' \in [Processes -> Stage]
BY DEF TypeOK, StartupTypeOK, Reach

(* Keys are numbers.                                                       *)
LEMMA KeysAreNumbers ==
    ASSUME TypeOK
    PROVE  /\ DOMAIN users = 1..Len(users) /\ Len(users) \in Nat
           /\ DOMAIN families = 1..Len(families) /\ Len(families) \in Nat
           /\ DOMAIN members = 1..Len(members) /\ Len(members) \in Nat
           /\ \A u \in DOMAIN users : u \in Nat /\ users[u] \in UserRow
           /\ \A m \in DOMAIN members : m \in Nat /\ members[m] \in MemberRow \cup {Gone}
BY LenProperties, ElementOfSeq DEF TypeOK, HouseholdTypeOK

LEMMA TypeInit == Init => TypeOK
<1> SUFFICES ASSUME Init
             PROVE  TypeOK
  OBVIOUS
<1> USE DEF Init, StartupInit
<1>1. tables \in 0..LastTable /\ seeded \in Nat
  BY LastTableAssumption, LastSeedAssumption
<1>2. stage \in [Processes -> Stage]
  BY DEF Stage
<1>3. request \in [Clients -> RequestState]
  BY RequestMade
<1>4. users \in Seq(UserRow)
  <2> DEFINE first == [phone |-> SeedPhones[1], role |-> "admin", profile |-> NoProfile]
             second == [phone |-> SeedPhones[2], role |-> "member", profile |-> NoProfile]
  <2>1. first \in UserRow /\ second \in UserRow
    BY SeedUserType, RoleType DEF SeedUser
  <2>2. users = <<first, second>> \/ users = <<>>
    OBVIOUS
  <2> HIDE DEF first, second
  <2>3. QED
    BY <2>1, <2>2, FewRows
<1>5. families \in Seq(FamilyRow)
  <2>1. [owner |-> 1] \in FamilyRow
    BY DEF FamilyRow
  <2>2. families = <<[owner |-> 1]>> \/ families = <<>>
    OBVIOUS
  <2>3. QED
    BY <2>1, <2>2, FewRows
<1>6. members \in Seq(MemberRow \cup {Gone})
  <2> DEFINE first == [family |-> 1, user |-> 1, role |-> "admin"]
             second == [family |-> 1, user |-> 2, role |-> "member"]
  <2>1. first \in MemberRow /\ second \in MemberRow
    BY DEF MemberRow, Roles
  <2>2. members = <<first, second>> \/ members = <<>>
    OBVIOUS
  <2> HIDE DEF first, second
  <2>3. QED
    BY <2>1, <2>2, FewRows
<1>7. QED
  BY <1>1, <1>2, <1>3, <1>4, <1>5, <1>6
  DEF TypeOK, HouseholdTypeOK, StartupTypeOK

(* Stages a process reaches.                                               *)
LEMMA StagesMade ==
    /\ Starting \in Stage /\ Serving \in Stage /\ Counting \in Stage
    /\ [at |-> "indexing"] \in Stage
    /\ \A table \in 1..LastTable :
          /\ [at |-> "finding", table |-> table] \in Stage
          /\ [at |-> "creating", table |-> table] \in Stage
          /\ AfterTable(table) \in Stage
    /\ \A next \in 1..LastSeed : \A owner, family \in Nat :
          [at |-> "seeding", next |-> next, owner |-> owner, family |-> family] \in Stage
    /\ UsersTable \in 1..LastTable
BY LastTableAssumption DEF Stage, AfterTable, UsersTable, FamilyMembersTable

LEMMA StageFields ==
    ASSUME NEW s \in Stage
    PROVE  /\ s.at \in {"finding", "creating"} => s.table \in 1..LastTable
           /\ s.at = "seeding" => s.next \in 1..LastSeed /\ s.owner \in Nat /\ s.family \in Nat
BY DEF Stage, Starting, Serving, Counting

(* Coming up leaves the types as they are.                                 *)
LEMMA SeedsTyped ==
    ASSUME TypeOK, NEW p \in Processes, NEW n \in 1..LastSeed,
           NEW owner \in Nat, NEW family \in Nat, Seeds(p, n, owner, family)
    PROVE  /\ stage' \in [Processes -> Stage]
           /\ seeded' \in Nat
           /\ UNCHANGED <<byInitSql, tables, phoneIndex>>
<1> DEFINE next == IF n = LastSeed THEN Serving
                   ELSE [at |-> "seeding", next |-> n + 1, owner |-> owner, family |-> family]
<1>1. n # LastSeed => n + 1 \in 1..LastSeed
  BY LastSeedAssumption
<1>2. next \in Stage
  BY <1>1, StagesMade
<1>3. stage' \in [Processes -> Stage]
  BY <1>2, ReachTyped DEF Seeds
<1>4. QED
  BY <1>3 DEF Seeds, TypeOK, HouseholdTypeOK

LEMMA StartTyped ==
    ASSUME TypeOK, NEW p \in Processes, StartStep(p), UNCHANGED begun
    PROVE  TypeOK'
<1> USE DEF TypeOK, HouseholdTypeOK, StartupTypeOK, schemaVars, rosterVars
<1>1. stage[p] \in Stage
  OBVIOUS
<1>2. UNCHANGED <<request, crashes, begun>>
  BY DEF StartStep
<1>3. CASE FindUsersTable(p)
  <2>1. stage' \in [Processes -> Stage]
    BY <1>3, StagesMade, ReachTyped DEF FindUsersTable
  <2>2. QED
    BY <1>2, <1>3, <2>1 DEF FindUsersTable
<1>4. CASE FindTable(p)
  <2>1. stage[p].table \in 1..LastTable
    BY <1>1, <1>4, StageFields DEF FindTable
  <2>2. stage' \in [Processes -> Stage]
    BY <1>4, <2>1, StagesMade, ReachTyped DEF FindTable
  <2>3. QED
    BY <1>2, <1>4, <2>2 DEF FindTable
<1>5. CASE CreateTable(p)
  <2>1. stage[p].table \in 1..LastTable
    BY <1>1, <1>5, StageFields DEF CreateTable
  <2>2. stage' \in [Processes -> Stage]
    BY <1>5, <2>1, StagesMade, ReachTyped DEF CreateTable, Panic
  <2>3. tables' \in 0..LastTable
    BY <1>5, <2>1, LastTableAssumption DEF CreateTable, Panic
  <2>4. QED
    BY <1>2, <1>5, <2>2, <2>3 DEF CreateTable, Panic
<1>6. CASE CreatePhoneIndex(p)
  <2>1. stage' \in [Processes -> Stage]
    BY <1>6, StagesMade, ReachTyped DEF CreatePhoneIndex, Panic
  <2>2. phoneIndex' \in BOOLEAN
    BY <1>6 DEF CreatePhoneIndex, Panic
  <2>3. QED
    BY <1>2, <1>6, <2>1, <2>2 DEF CreatePhoneIndex, Panic
<1>7. CASE CountUsers(p)
  <2>1. 1 \in 1..LastSeed
    BY LastSeedAssumption
  <2>2. stage' \in [Processes -> Stage]
    BY <1>7, <2>1, StagesMade, ReachTyped DEF CountUsers
  <2>3. QED
    BY <1>2, <1>7, <2>2 DEF CountUsers
<1>8. CASE SeedUsers(p)
  <2>1. CASE PhoneAccepted(SeedPhones[1]) /\ PhoneAccepted(SeedPhones[2])
    <3>1. Seeds(p, 1, Len(users) + 1, 0)
      BY <1>8, <2>1 DEF SeedUsers
    <3>2. 1 \in 1..LastSeed /\ Len(users) + 1 \in Nat
      BY LastSeedAssumption, KeysAreNumbers
    <3>3. stage' \in [Processes -> Stage] /\ seeded' \in Nat
          /\ UNCHANGED <<byInitSql, tables, phoneIndex>>
      BY <3>1, <3>2, SeedsTyped
    <3>4. /\ users' = users \o <<SeedUser(1, "admin"), SeedUser(2, "member")>>
          /\ UNCHANGED <<families, members>>
      BY <1>8, <2>1 DEF SeedUsers
    <3>5. SeedUser(1, "admin") \in UserRow /\ SeedUser(2, "member") \in UserRow
      BY SeedUserType, RoleType
    <3>6. users' \in Seq(UserRow)
      BY <3>4, <3>5, RowsAppended
    <3>7. QED
      BY <1>2, <3>3, <3>4, <3>6
  <2>2. CASE ~(PhoneAccepted(SeedPhones[1]) /\ PhoneAccepted(SeedPhones[2]))
    <3>1. Panic(p)
      BY <1>8, <2>2 DEF SeedUsers
    <3>2. stage' \in [Processes -> Stage]
      BY <3>1, StagesMade, ReachTyped DEF Panic
    <3>3. QED
      BY <1>2, <3>1, <3>2 DEF Panic
  <2>3. QED
    BY <2>1, <2>2
<1>9. CASE SeedFamily(p)
  <2>1. stage[p].at = "seeding" /\ stage[p].owner \in Nat
    BY <1>1, <1>9, StageFields DEF SeedFamily, Seeds
  <2>2. 2 \in 1..LastSeed /\ Len(families) + 1 \in Nat
    BY LastSeedAssumption, KeysAreNumbers
  <2>3. stage' \in [Processes -> Stage] /\ seeded' \in Nat
        /\ UNCHANGED <<byInitSql, tables, phoneIndex>>
    BY <1>9, <2>1, <2>2, SeedsTyped DEF SeedFamily
  <2>4. [owner |-> stage[p].owner] \in FamilyRow
    BY <2>1 DEF FamilyRow
  <2>5. families' \in Seq(FamilyRow) /\ UNCHANGED <<users, members>>
    BY <1>9, <2>4, RowAppended DEF SeedFamily
  <2>6. QED
    BY <1>2, <2>3, <2>5
<1>10. CASE SeedMembers(p)
  <2>1. stage[p].at = "seeding" /\ stage[p].owner \in Nat /\ stage[p].family \in Nat
    BY <1>1, <1>10, StageFields DEF SeedMembers, Seeds
  <2>2. 3 \in 1..LastSeed
    BY LastSeedAssumption
  <2>3. stage' \in [Processes -> Stage] /\ seeded' \in Nat
        /\ UNCHANGED <<byInitSql, tables, phoneIndex>>
    BY <1>10, <2>1, <2>2, SeedsTyped DEF SeedMembers
  <2>4. /\ [family |-> stage[p].family, user |-> stage[p].owner, role |-> "admin"] \in MemberRow
        /\ [family |-> stage[p].family, user |-> stage[p].owner + 1, role |-> "member"] \in MemberRow
    BY <2>1, RoleType DEF MemberRow
  <2>5. members' \in Seq(MemberRow \cup {Gone}) /\ UNCHANGED <<users, families>>
    BY <1>10, <2>4, RowsAppended DEF SeedMembers
  <2>6. QED
    BY <1>2, <2>3, <2>5
<1>11. CASE SeedFood(p)
  <2>1. /\ stage[p].next \in 1..LastSeed
        /\ stage[p].owner \in Nat /\ stage[p].family \in Nat
    BY <1>1, <1>11, StageFields DEF SeedFood
  <2>2. stage' \in [Processes -> Stage] /\ seeded' \in Nat
        /\ UNCHANGED <<byInitSql, tables, phoneIndex>>
    BY <1>11, <2>1, SeedsTyped DEF SeedFood
  <2>3. QED
    BY <1>2, <1>11, <2>2 DEF SeedFood
<1>12. QED
  BY <1>3, <1>4, <1>5, <1>6, <1>7, <1>8, <1>9, <1>10, <1>11 DEF StartStep

LEMMA CrashTyped ==
    ASSUME TypeOK, NEW p \in Processes, Crash(p), UNCHANGED begun
    PROVE  TypeOK'
<1>1. stage' \in [Processes -> Stage]
  BY StagesMade, ReachTyped DEF Crash
<1>2. crashes' \in Nat
  BY DEF Crash, TypeOK, StartupTypeOK
<1>3. QED
  BY <1>1, <1>2 DEF Crash, storeVars, schemaVars, rosterVars,
                    TypeOK, HouseholdTypeOK, StartupTypeOK

(* Serving a request leaves the types as they are.                         *)
LEMMA RequestEnded ==
    ASSUME TypeOK, NEW c \in Clients, EndRequest(c)
    PROVE  /\ request' \in [Clients -> RequestState]
           /\ UNCHANGED <<schemaVars, users, rosterVars>>
BY RequestMade, ReceiveTyped DEF EndRequest

LEMMA UserRequestTyped ==
    ASSUME TypeOK, NEW c \in Clients, UserRequest(c)
    PROVE  HouseholdTypeOK'
<1> USE DEF TypeOK, HouseholdTypeOK, schemaVars, rosterVars
<1>1. request[c] \in RequestState
  OBVIOUS
<1>2. CASE \E phone \in Phones : CheckPhone(c, phone)
  <2>1. PICK phone \in Phones : CheckPhone(c, phone)
    BY <1>2
  <2>2. request' \in [Clients -> RequestState]
    BY <2>1, RequestMade, ReceiveTyped DEF CheckPhone
  <2>3. QED
    BY <2>1, <2>2 DEF CheckPhone
<1>3. CASE Register(c)
  <2>1. request' \in [Clients -> RequestState]
    BY <1>3, RequestMade, ReceiveTyped DEF Register
  <2>2. [phone |-> request[c].phone, role |-> "member", profile |-> NoProfile] \in UserRow
    BY <1>1, <1>3, RequestFields, RoleType, ProfileAssumption DEF Register, UserRow
  <2>3. users' \in Seq(UserRow)
    BY <1>3, <2>2, RowAppended DEF Register, CreateUser
  <2>4. QED
    BY <1>3, <2>1, <2>3 DEF Register
<1>4. CASE \E u \in DOMAIN users, input \in ProfileInputs : FindForProfile(c, u, input)
  <2>1. PICK u \in DOMAIN users, input \in ProfileInputs : FindForProfile(c, u, input)
    BY <1>4
  <2>2. u \in Nat /\ users[u] \in UserRow
    BY KeysAreNumbers
  <2>3. MergeProfile(users[u], input) \in UserRow
    BY <2>2 DEF MergeProfile, ProfileInputs, UserRow
  <2>4. request' \in [Clients -> RequestState]
    BY <2>1, <2>2, <2>3, RequestMade, ReceiveTyped DEF FindForProfile
  <2>5. QED
    BY <2>1, <2>4 DEF FindForProfile
<1>5. CASE SaveProfile(c)
  <2>1. request' \in [Clients -> RequestState]
    BY <1>5, RequestMade, ReceiveTyped DEF SaveProfile
  <2>2. request[c].row \in UserRow
    BY <1>1, <1>5, RequestFields DEF SaveProfile
  <2>3. users' \in Seq(UserRow)
    BY <1>5, <2>2, RowReplaced DEF SaveProfile
  <2>4. QED
    BY <1>5, <2>1, <2>3 DEF SaveProfile
<1>6. QED
  BY <1>2, <1>3, <1>4, <1>5 DEF UserRequest

(* A change of role leaves a membership, or nothing where there was none.  *)
LEMMA UpdateRoleTyped ==
    ASSUME TypeOK, NEW m, NEW row, NEW role \in Roles, UpdateRole(m, row, role)
    PROVE  /\ members' \in Seq(MemberRow \cup {Gone})
           /\ DOMAIN members' = DOMAIN members
           /\ \A n \in DOMAIN members :
                 \/ members'[n] = members[n]
                 \/ /\ n = m /\ IsRow(m)
                    /\ members'[n] = [members[n] EXCEPT !.role = role]
                    /\ members'[n] \in MemberRow
<1>1. CASE IsRow(m)
  <2> DEFINE changed == [members[m] EXCEPT !.role = role]
  <2>1. members[m] \in MemberRow /\ m \in DOMAIN members
    BY <1>1, KeysAreNumbers DEF IsRow
  <2>2. changed \in MemberRow
    BY <2>1 DEF MemberRow
  <2>3. members' = [members EXCEPT ![m] = changed]
    BY <1>1 DEF UpdateRole
  <2> HIDE DEF changed
  <2>4. /\ members' \in Seq(MemberRow \cup {Gone})
        /\ DOMAIN members' = DOMAIN members
        /\ \A n \in DOMAIN members : members'[n] = IF n = m THEN changed ELSE members[n]
    BY <2>2, <2>3, RowReplaced DEF TypeOK, HouseholdTypeOK
  <2>5. QED
    BY <1>1, <2>2, <2>4 DEF changed
<1>2. CASE ~IsRow(m)
  BY <1>2 DEF UpdateRole, TypeOK, HouseholdTypeOK
<1>3. QED
  BY <1>1, <1>2

LEMMA FamilyRequestCases ==
    ASSUME NEW c, FamilyRequest(c)
    PROVE  \/ \E u \in DOMAIN users : CreateFamily(c, u)
           \/ \E u \in DOMAIN users, family \in DOMAIN families : JoinByCode(c, u, family)
           \/ \E u, invited \in DOMAIN users, family \in DOMAIN families :
                 InviteMember(c, u, family, invited)
           \/ \E u \in DOMAIN users, family \in DOMAIN families, m \in DOMAIN members, role \in Roles :
                 SetMemberRole(c, u, family, m, role)
           \/ \E u \in DOMAIN users, family \in DOMAIN families, m \in DOMAIN members :
                 RemoveMember(c, u, family, m)
           \/ FindInvited(c) \/ InsertMember(c)
           \/ FindForRole(c) \/ ChangeRole(c)
           \/ FindForRemove(c) \/ DeleteMembership(c)
BY Zenon DEF FamilyRequest

LEMMA FamilyRequestTyped ==
    ASSUME TypeOK, NEW c \in Clients, FamilyRequest(c)
    PROVE  HouseholdTypeOK'
<1> USE DEF TypeOK, HouseholdTypeOK, schemaVars, rosterVars
<1>1. request[c] \in RequestState
  OBVIOUS
<1>2. DOMAIN users \subseteq Nat /\ DOMAIN families \subseteq Nat /\ DOMAIN members \subseteq Nat
  BY KeysAreNumbers
<1>3. CASE \E u \in DOMAIN users : CreateFamily(c, u)
  <2>1. PICK u \in DOMAIN users : CreateFamily(c, u)
    BY <1>3
  <2>2. [owner |-> u] \in FamilyRow
    BY <1>2 DEF FamilyRow
  <2>3. [family |-> Len(families) + 1, user |-> u, role |-> "admin"] \in MemberRow
    BY <1>2, KeysAreNumbers, RoleType DEF MemberRow
  <2>4. families' \in Seq(FamilyRow)
    BY <2>1, <2>2, RowAppended DEF CreateFamily
  <2>5. members' \in Seq(MemberRow \cup {Gone})
    BY <2>1, <2>3, RowAppended DEF CreateFamily
  <2>6. QED
    BY <2>1, <2>4, <2>5 DEF CreateFamily
<1>4. CASE \E u \in DOMAIN users, family \in DOMAIN families : JoinByCode(c, u, family)
  <2>1. request' \in [Clients -> RequestState]
    BY <1>2, <1>4, RequestMade, ReceiveTyped DEF JoinByCode
  <2>2. QED
    BY <1>4, <2>1 DEF JoinByCode
<1>5. CASE \E u, invited \in DOMAIN users, family \in DOMAIN families :
              InviteMember(c, u, family, invited)
  <2>1. request' \in [Clients -> RequestState]
    BY <1>2, <1>5, RequestMade, ReceiveTyped DEF InviteMember
  <2>2. QED
    BY <1>5, <2>1 DEF InviteMember
<1>6. CASE \E u \in DOMAIN users, family \in DOMAIN families, m \in DOMAIN members, role \in Roles :
              SetMemberRole(c, u, family, m, role)
  <2>1. request' \in [Clients -> RequestState]
    BY <1>2, <1>6, RequestMade, ReceiveTyped DEF SetMemberRole
  <2>2. QED
    BY <1>6, <2>1 DEF SetMemberRole
<1>7. CASE \E u \in DOMAIN users, family \in DOMAIN families, m \in DOMAIN members :
              RemoveMember(c, u, family, m)
  <2>1. request' \in [Clients -> RequestState]
    BY <1>2, <1>7, RequestMade, ReceiveTyped DEF RemoveMember
  <2>2. QED
    BY <1>7, <2>1 DEF RemoveMember
<1>8. CASE FindInvited(c)
  <2>1. /\ request[c] = [op |-> "invite", family |-> request[c].family, user |-> request[c].user]
        /\ request[c].family \in Nat /\ request[c].user \in Nat
    BY <1>1, <1>8, RequestFields DEF FindInvited
  <2>2. [request[c] EXCEPT !.op = "insert"] =
            [op |-> "insert", family |-> request[c].family, user |-> request[c].user]
    BY <2>1
  <2>3. request' \in [Clients -> RequestState]
    BY <1>8, <2>1, <2>2, RequestMade, ReceiveTyped DEF FindInvited
  <2>4. QED
    BY <1>8, <2>3 DEF FindInvited
<1>9. CASE InsertMember(c)
  <2>1. request' \in [Clients -> RequestState]
    BY <1>9, RequestMade, ReceiveTyped DEF InsertMember
  <2>2. [family |-> request[c].family, user |-> request[c].user, role |-> "member"] \in MemberRow
    BY <1>1, <1>9, RequestFields, RoleType DEF InsertMember, MemberRow
  <2>3. members' \in Seq(MemberRow \cup {Gone})
    BY <1>9, <2>2, RowAppended DEF InsertMember
  <2>4. QED
    BY <1>9, <2>1, <2>3 DEF InsertMember
<1>10. CASE FindForRole(c)
  <2>1. /\ request[c].member \in DOMAIN members
        /\ members[request[c].member] \in MemberRow
    BY <1>10, KeysAreNumbers DEF FindForRole, FindMember, IsRow
  <2>2. request[c].member \in Nat /\ request[c].role \in Roles
    BY <1>1, <1>10, RequestFields DEF FindForRole
  <2>3. request' \in [Clients -> RequestState]
    BY <1>10, <2>1, <2>2, RequestMade, ReceiveTyped DEF FindForRole
  <2>4. QED
    BY <1>10, <2>3 DEF FindForRole
<1>11. CASE ChangeRole(c)
  <2>1. request' \in [Clients -> RequestState]
    BY <1>11, RequestMade, ReceiveTyped DEF ChangeRole
  <2>2. request[c].role \in Roles
    BY <1>1, <1>11, RequestFields DEF ChangeRole
  <2>3. members' \in Seq(MemberRow \cup {Gone})
    BY <1>11, <2>2, UpdateRoleTyped DEF ChangeRole
  <2>4. QED
    BY <1>11, <2>1, <2>3 DEF ChangeRole
<1>12. CASE FindForRemove(c)
  <2>1. request[c].member \in Nat
    BY <1>1, <1>12, RequestFields DEF FindForRemove
  <2>2. request' \in [Clients -> RequestState]
    BY <1>12, <2>1, RequestMade, ReceiveTyped DEF FindForRemove
  <2>3. QED
    BY <1>12, <2>2 DEF FindForRemove
<1>13. CASE DeleteMembership(c)
  <2>1. request' \in [Clients -> RequestState]
    BY <1>13, RequestMade, ReceiveTyped DEF DeleteMembership
  <2>2. members' \in Seq(MemberRow \cup {Gone})
    BY <1>13, RowReplaced DEF DeleteMembership, DeleteMember
  <2>3. QED
    BY <1>13, <2>1, <2>2 DEF DeleteMembership
<1>14. QED
  BY FamilyRequestCases, <1>3, <1>4, <1>5, <1>6, <1>7, <1>8, <1>9, <1>10, <1>11, <1>12, <1>13

LEMMA TypeStep == TypeOK /\ [Next]_vars => TypeOK'
<1> SUFFICES ASSUME TypeOK, [Next]_vars
             PROVE  TypeOK'
  OBVIOUS
<1>1. ASSUME NEW p \in Processes, StartStep(p) \/ Crash(p), UNCHANGED begun
      PROVE  TypeOK'
  BY <1>1, StartTyped, CrashTyped
<1>2. ASSUME NEW c \in Clients, UserRequest(c) \/ FamilyRequest(c) \/ EndRequest(c),
             begun' = (IF request[c] = Idle THEN begun + 1 ELSE begun), UNCHANGED startupVars
      PROVE  TypeOK'
  <2>1. HouseholdTypeOK'
    <3>1. CASE EndRequest(c)
      BY <3>1, RequestEnded DEF TypeOK, HouseholdTypeOK, schemaVars, rosterVars
    <3>2. QED
      BY <1>2, <3>1, UserRequestTyped, FamilyRequestTyped
  <2>2. begun' \in Nat /\ StartupTypeOK'
    BY <1>2 DEF TypeOK, StartupTypeOK, startupVars
  <2>3. QED
    BY <2>1, <2>2 DEF TypeOK
<1>3. CASE UNCHANGED vars
  BY <1>3 DEF vars, storeVars, schemaVars, rosterVars, startupVars,
              TypeOK, HouseholdTypeOK, StartupTypeOK
<1>4. QED
  BY <1>1, <1>2, <1>3 DEF Next

(* Tables, requests and stages keep their types.                           *)
THEOREM TypeCorrect == Spec => []TypeOK
<1>1. TypeOK /\ [Next]_vars => TypeOK'
  BY TypeStep
<1>2. QED
  BY TypeInit, <1>1, PTL DEF Spec
=============================================================================
