---------------------------- MODULE FamilyProofs ----------------------------
(***************************************************************************)
(* Theorems about families: memberships neither come back nor double, and  *)
(* nobody makes himself an admin.                                          *)
(***************************************************************************)
EXTENDS AccountProofs

(* A step keeps each membership with its family and its user, or deletes   *)
(* it for good.                                                            *)
MembersKept ==
    \A m \in DOMAIN members :
        /\ m \in DOMAIN members'
        /\ \/ members'[m] = Gone
           \/ /\ members[m] # Gone
              /\ members'[m].family = members[m].family
              /\ members'[m].user = members[m].user

(* Families of memberships, of requests for one and of seeds are there.    *)
FamiliesKnown ==
    /\ \A m \in DOMAIN members : IsRow(m) => members[m].family \in DOMAIN families
    /\ \A c \in Clients :
          request[c].op \in {"invite", "insert"} => request[c].family \in DOMAIN families
    /\ \A p \in Processes :
          stage[p].at = "seeding" /\ stage[p].next = 3 => stage[p].family \in DOMAIN families

(* uq_family_user.                                                         *)
MembersDiffer ==
    \A m, n \in DOMAIN members :
        /\ IsRow(m) /\ IsRow(n)
        /\ members[m].family = members[n].family
        /\ members[m].user = members[n].user
        => m = n

DistinctMembers == byInitSql => MembersDiffer

(* The membership that is about to get a role is in the family where it    *)
(* was found.                                                              *)
UpdatesKept ==
    \A c \in Clients :
        request[c].op = "update" =>
            /\ request[c].member \in DOMAIN members
            /\ \/ members[request[c].member] = Gone
               \/ members[request[c].member].family = request[c].row.family

-----------------------------------------------------------------------------
(* Who writes memberships, and which requests follow on which.             *)

LEMMA StartMembers ==
    ASSUME NEW p \in Processes, StartStep(p)
    PROVE  UNCHANGED <<byInitSql, request>> /\ (UNCHANGED members \/ SeedMembers(p))
BY DEF StartStep, FindUsersTable, FindTable, CreateTable, CreatePhoneIndex, CountUsers,
       SeedUsers, SeedFamily, SeedMembers, SeedFood, Seeds, Panic, schemaVars, rosterVars

LEMMA ClientMembers ==
    ASSUME NEW c \in Clients, UserRequest(c) \/ FamilyRequest(c) \/ EndRequest(c)
    PROVE  \/ UNCHANGED rosterVars
           \/ \E u \in DOMAIN users : CreateFamily(c, u)
           \/ UNCHANGED families /\ (InsertMember(c) \/ ChangeRole(c) \/ DeleteMembership(c))
<1>1. CASE UserRequest(c)
  BY <1>1 DEF UserRequest, CheckPhone, FindForProfile, Register, SaveProfile
<1>2. CASE FamilyRequest(c)
  BY <1>2, FamilyRequestCases
  DEF JoinByCode, InviteMember, SetMemberRole, RemoveMember, FindInvited, FindForRole,
      FindForRemove, InsertMember, ChangeRole, DeleteMembership
<1>3. CASE EndRequest(c)
  BY <1>3 DEF EndRequest
<1>4. QED
  BY <1>1, <1>2, <1>3

LEMMA ClientRequests ==
    ASSUME TypeOK, NEW c \in Clients, UserRequest(c) \/ FamilyRequest(c) \/ EndRequest(c)
    PROVE  /\ request'[c].op \in {"invite", "insert"} =>
                 \/ \E u \in DOMAIN users, family \in DOMAIN families : JoinByCode(c, u, family)
                 \/ \E u, invited \in DOMAIN users, family \in DOMAIN families :
                       InviteMember(c, u, family, invited)
                 \/ FindInvited(c)
           /\ request'[c].op = "findForRole" =>
                 \E u \in DOMAIN users, family \in DOMAIN families, m \in DOMAIN members,
                    role \in Roles : SetMemberRole(c, u, family, m, role)
           /\ request'[c].op = "update" => FindForRole(c)
<1> USE DEF Receive
<1>1. request \in [Clients -> RequestState]
  BY DEF TypeOK, HouseholdTypeOK
<1>2. CASE UserRequest(c)
  BY <1>1, <1>2 DEF UserRequest, CheckPhone, FindForProfile, Register, SaveProfile, Idle
<1>3. CASE FamilyRequest(c)
  <2>1. CASE \E u \in DOMAIN users : CreateFamily(c, u)
    BY <1>1, <2>1 DEF CreateFamily, Idle
  <2>2. CASE FindInvited(c)
    <3>1. request[c] = [op |-> "invite", family |-> request[c].family, user |-> request[c].user]
      BY <1>1, <2>2, RequestFields DEF FindInvited
    <3>2. [request[c] EXCEPT !.op = "insert"].op = "insert"
      BY <3>1
    <3>3. request'[c].op = "insert"
      BY <1>1, <2>2, <3>2 DEF FindInvited
    <3>4. QED
      BY <2>2, <3>3
  <2>3. CASE \E u \in DOMAIN users, family \in DOMAIN families : JoinByCode(c, u, family)
    <3>1. request'[c].op = "insert"
      BY <1>1, <2>3 DEF JoinByCode
    <3>2. QED
      BY <2>3, <3>1
  <2>4. CASE \E u, invited \in DOMAIN users, family \in DOMAIN families :
                InviteMember(c, u, family, invited)
    <3>1. request'[c].op = "invite"
      BY <1>1, <2>4 DEF InviteMember
    <3>2. QED
      BY <2>4, <3>1
  <2>5. CASE \E u \in DOMAIN users, family \in DOMAIN families, m \in DOMAIN members, role \in Roles :
                SetMemberRole(c, u, family, m, role)
    <3>1. request'[c].op = "findForRole"
      BY <1>1, <2>5 DEF SetMemberRole
    <3>2. QED
      BY <2>5, <3>1
  <2>6. CASE \E u \in DOMAIN users, family \in DOMAIN families, m \in DOMAIN members :
                RemoveMember(c, u, family, m)
    BY <1>1, <2>6 DEF RemoveMember
  <2>7. CASE FindForRole(c)
    BY <1>1, <2>7 DEF FindForRole
  <2>8. CASE InsertMember(c) \/ ChangeRole(c) \/ FindForRemove(c) \/ DeleteMembership(c)
    BY <1>1, <2>8 DEF InsertMember, ChangeRole, FindForRemove, DeleteMembership, Idle
  <2>9. QED
    BY <1>3, FamilyRequestCases, <2>1, <2>2, <2>3, <2>4, <2>5, <2>6, <2>7, <2>8
<1>4. CASE EndRequest(c)
  BY <1>1, <1>4 DEF EndRequest, Idle
<1>5. QED
  BY <1>2, <1>3, <1>4

-----------------------------------------------------------------------------
(* What the writes do.                                                     *)

LEMMA RowsAreNotGone == Gone \notin MemberRow
BY DEF Gone, MemberRow, Roles

LEMMA CreateKept ==
    ASSUME TypeOK, NEW c, NEW u \in DOMAIN users, CreateFamily(c, u)
    PROVE  /\ DOMAIN members' = 1..(Len(members) + 1)
           /\ \A m \in DOMAIN members : m \in DOMAIN members' /\ members'[m] = members[m]
           /\ members'[Len(members) + 1].family = Len(families) + 1
           /\ DOMAIN families' = 1..(Len(families) + 1)
<1> DEFINE row == [family |-> Len(families) + 1, user |-> u, role |-> "admin"]
           group == [owner |-> u]
<1>1. row \in MemberRow /\ group \in FamilyRow
  BY KeysAreNumbers, RoleType DEF MemberRow, FamilyRow
<1>2. /\ members' = Append(members, row) /\ families' = Append(families, group)
      /\ row.family = Len(families) + 1
  BY DEF CreateFamily
<1>3. members \in Seq(MemberRow \cup {Gone}) /\ families \in Seq(FamilyRow)
  BY DEF TypeOK, HouseholdTypeOK
<1> HIDE DEF row, group
<1>4. QED
  BY <1>1, <1>2, <1>3, RowAppended

LEMMA InsertKept ==
    ASSUME TypeOK, NEW c \in Clients, InsertMember(c)
    PROVE  /\ DOMAIN members' = 1..(Len(members) + 1)
           /\ \A m \in DOMAIN members : m \in DOMAIN members' /\ members'[m] = members[m]
           /\ members'[Len(members) + 1].family = request[c].family
           /\ members'[Len(members) + 1].user = request[c].user
           /\ members'[Len(members) + 1].role = "member"
<1> DEFINE row == [family |-> request[c].family, user |-> request[c].user, role |-> "member"]
<1>1. request[c] \in RequestState /\ members \in Seq(MemberRow \cup {Gone})
  BY DEF TypeOK, HouseholdTypeOK
<1>2. row \in MemberRow
  BY <1>1, RequestFields, RoleType DEF InsertMember, MemberRow
<1>3. members' = Append(members, row)
  BY DEF InsertMember
<1> HIDE DEF row
<1>4. /\ DOMAIN members' = 1..(Len(members) + 1)
      /\ \A m \in DOMAIN members : m \in DOMAIN members' /\ members'[m] = members[m]
      /\ members'[Len(members) + 1] = row
  BY <1>1, <1>2, <1>3, RowAppended
<1>5. QED
  BY <1>4 DEF row

LEMMA SeedMembersKept ==
    ASSUME TypeOK, NEW p \in Processes, SeedMembers(p)
    PROVE  /\ stage[p].at = "seeding" /\ stage[p].next = 3
           /\ DOMAIN members' = 1..(Len(members) + 2)
           /\ \A m \in DOMAIN members : m \in DOMAIN members' /\ members'[m] = members[m]
           /\ members'[Len(members) + 1].family = stage[p].family
           /\ members'[Len(members) + 2].family = stage[p].family
           /\ members'[Len(members) + 1].user # members'[Len(members) + 2].user
<1> DEFINE first == [family |-> stage[p].family, user |-> stage[p].owner, role |-> "admin"]
           second == [family |-> stage[p].family, user |-> stage[p].owner + 1, role |-> "member"]
<1>1. stage[p] \in Stage /\ members \in Seq(MemberRow \cup {Gone})
  BY DEF TypeOK, StartupTypeOK, HouseholdTypeOK
<1>2. stage[p].at = "seeding" /\ stage[p].next = 3
  BY DEF SeedMembers, Seeds
<1>3. first \in MemberRow /\ second \in MemberRow
  BY <1>1, <1>2, StageFields, RoleType DEF MemberRow
<1>4. /\ members' = members \o <<first, second>>
      /\ first.family = stage[p].family /\ second.family = stage[p].family
      /\ first.user # second.user
  BY <1>1, <1>2, StageFields DEF SeedMembers
<1> HIDE DEF first, second
<1>5. QED
  BY <1>1, <1>2, <1>3, <1>4, RowsAppended

(* A process that is about to seed members was so before, or has just      *)
(* seeded their family.                                                    *)
LEMMA ThirdSeed ==
    ASSUME TypeOK, [Next]_vars, NEW q \in Processes,
           stage'[q].at = "seeding", stage'[q].next = 3
    PROVE  \/ stage'[q] = stage[q]
           \/ SeedFamily(q) /\ stage'[q].family = Len(families) + 1
<1> DEFINE Done == \/ stage'[q] = stage[q]
                   \/ SeedFamily(q) /\ stage'[q].family = Len(families) + 1
<1>1. ASSUME NEW p \in Processes, NEW s, Reach(p, s), s.at # "seeding" \/ s.next # 3
      PROVE  Done
  <2>1. stage'[q] = IF q = p THEN s ELSE stage[q]
    BY <1>1 DEF Reach, TypeOK, StartupTypeOK
  <2>2. QED
    BY <1>1, <2>1
<1>2. Starting.at # "seeding" /\ Serving.at # "seeding" /\ Counting.at # "seeding"
      /\ \A table : AfterTable(table).at # "seeding"
  BY DEF Starting, Serving, Counting, AfterTable
<1>3. ASSUME NEW p \in Processes, StartStep(p)
      PROVE  Done
  <2>1. CASE FindUsersTable(p)
    BY <1>1, <1>2, <2>1 DEF FindUsersTable
  <2>2. CASE FindTable(p)
    <3>1. PICK s : /\ Reach(p, s)
                   /\ \/ s = [at |-> "creating", table |-> stage[p].table]
                      \/ s = [at |-> "indexing"]
                      \/ s = AfterTable(stage[p].table)
      BY <2>2 DEF FindTable
    <3>2. s.at # "seeding"
      BY <1>2, <3>1
    <3>3. QED
      BY <1>1, <3>1, <3>2
  <2>3. CASE CreateTable(p)
    <3>1. PICK s : /\ Reach(p, s)
                   /\ \/ s = Starting
                      \/ s = [at |-> "indexing"]
                      \/ s = AfterTable(stage[p].table)
      BY <2>3 DEF CreateTable, Panic
    <3>2. s.at # "seeding"
      BY <1>2, <3>1
    <3>3. QED
      BY <1>1, <3>1, <3>2
  <2>4. CASE CreatePhoneIndex(p)
    BY <1>1, <1>2, <2>4 DEF CreatePhoneIndex, Panic
  <2>5. CASE CountUsers(p)
    <3>1. PICK s : /\ Reach(p, s)
                   /\ s = Serving \/ s = [at |-> "seeding", next |-> 1, owner |-> 0, family |-> 0]
      BY <2>5 DEF CountUsers
    <3>2. s.at # "seeding" \/ s.next # 3
      BY <1>2, <3>1
    <3>3. QED
      BY <1>1, <3>1, <3>2
  <2>6. ASSUME NEW n \in Nat, NEW owner, NEW new, Seeds(p, n, owner, new), n # 2
        PROVE  Done
    <3>1. PICK s : /\ Reach(p, s)
                   /\ \/ s = Serving
                      \/ s = [at |-> "seeding", next |-> n + 1, owner |-> owner, family |-> new]
      BY <2>6 DEF Seeds
    <3>2. s.at # "seeding" \/ s.next # 3
      BY <1>2, <2>6, <3>1
    <3>3. QED
      BY <1>1, <3>1, <3>2
  <2>7. CASE SeedUsers(p)
    <3>1. Seeds(p, 1, Len(users) + 1, 0) \/ Panic(p)
      BY <2>7 DEF SeedUsers
    <3>2. CASE Seeds(p, 1, Len(users) + 1, 0)
      BY <2>6, <3>2
    <3>3. CASE Panic(p)
      BY <1>1, <1>2, <3>3 DEF Panic
    <3>4. QED
      BY <3>1, <3>2, <3>3
  <2>8. CASE SeedFamily(p)
    <3>1. PICK s : /\ Reach(p, s)
                   /\ \/ s = Serving
                      \/ /\ s = [at |-> "seeding", next |-> 3, owner |-> stage[p].owner,
                                 family |-> Len(families) + 1]
      BY <2>8 DEF SeedFamily, Seeds
    <3>2. stage'[q] = IF q = p THEN s ELSE stage[q]
      BY <3>1 DEF Reach, TypeOK, StartupTypeOK
    <3>3. QED
      BY <1>2, <2>8, <3>1, <3>2
  <2>9. CASE SeedMembers(p)
    BY <2>6, <2>9 DEF SeedMembers
  <2>10. CASE SeedFood(p)
    <3>1. stage[p].next \in Nat /\ stage[p].next > 3
      BY <2>10, StageFields DEF SeedFood, TypeOK, StartupTypeOK
    <3>2. QED
      BY <2>6, <2>10, <3>1 DEF SeedFood
  <2>11. QED
    BY <1>3, <2>1, <2>2, <2>3, <2>4, <2>5, <2>7, <2>8, <2>9, <2>10 DEF StartStep
<1>4. ASSUME NEW p \in Processes, Crash(p)
      PROVE  Done
  BY <1>1, <1>2, <1>4 DEF Crash
<1>5. QED
  BY <1>3, <1>4 DEF Next, vars, startupVars

LEMMA SeedFamilyKept ==
    ASSUME TypeOK, NEW p \in Processes, SeedFamily(p)
    PROVE  DOMAIN families' = 1..(Len(families) + 1)
<1> DEFINE group == [owner |-> stage[p].owner]
<1>1. stage[p] \in Stage /\ stage[p].at = "seeding" /\ families \in Seq(FamilyRow)
  BY DEF SeedFamily, Seeds, TypeOK, StartupTypeOK, HouseholdTypeOK
<1>2. group \in FamilyRow /\ families' = Append(families, group)
  BY <1>1, StageFields DEF SeedFamily, FamilyRow
<1> HIDE DEF group
<1>3. QED
  BY <1>1, <1>2, RowAppended

(* Changing a role and deleting leave the keys as they are.                *)
LEMMA ChangeKept ==
    ASSUME TypeOK, NEW c \in Clients, ChangeRole(c)
    PROVE  /\ DOMAIN members' = DOMAIN members
           /\ \A m \in DOMAIN members :
                 \/ members'[m] = members[m]
                 \/ /\ m = request[c].member /\ members[m] # Gone /\ members'[m] # Gone
                    /\ members'[m].family = members[m].family
                    /\ members'[m].user = members[m].user
<1>1. request[c].role \in Roles
  BY RequestFields DEF ChangeRole, TypeOK, HouseholdTypeOK
<1>2. /\ DOMAIN members' = DOMAIN members
      /\ \A m \in DOMAIN members :
            \/ members'[m] = members[m]
            \/ /\ m = request[c].member /\ IsRow(m)
               /\ members'[m] = [members[m] EXCEPT !.role = request[c].role]
               /\ members'[m] \in MemberRow
  BY <1>1, UpdateRoleTyped DEF ChangeRole
<1>3. ASSUME NEW m \in DOMAIN members, IsRow(m),
             members'[m] = [members[m] EXCEPT !.role = request[c].role]
      PROVE  members'[m].family = members[m].family /\ members'[m].user = members[m].user
  <2>1. members[m] \in MemberRow
    BY <1>3, KeysAreNumbers DEF IsRow
  <2>2. QED
    BY <1>3, <2>1 DEF MemberRow
<1>4. QED
  BY <1>2, <1>3, RowsAreNotGone DEF IsRow

LEMMA DeleteKept ==
    ASSUME TypeOK, NEW c \in Clients, DeleteMembership(c)
    PROVE  /\ DOMAIN members' = DOMAIN members
           /\ \A m \in DOMAIN members : members'[m] = members[m] \/ members'[m] = Gone
BY RowReplaced DEF DeleteMembership, DeleteMember, TypeOK, HouseholdTypeOK

LEMMA MembersStep ==
    ASSUME TypeOK, [Next]_vars
    PROVE  MembersKept
<1>1. ASSUME \A m \in DOMAIN members : m \in DOMAIN members' /\ members'[m] = members[m]
      PROVE  MembersKept
  BY <1>1 DEF MembersKept
<1>2. ASSUME NEW p \in Processes, StartStep(p)
      PROVE  MembersKept
  BY <1>1, <1>2, StartMembers, SeedMembersKept
<1>3. ASSUME NEW c \in Clients, UserRequest(c) \/ FamilyRequest(c) \/ EndRequest(c)
      PROVE  MembersKept
  <2>1. CASE UNCHANGED rosterVars
    BY <1>1, <2>1 DEF rosterVars
  <2>2. CASE \E u \in DOMAIN users : CreateFamily(c, u)
    BY <1>1, <2>2, CreateKept
  <2>3. CASE InsertMember(c)
    BY <1>1, <2>3, InsertKept
  <2>4. CASE ChangeRole(c)
    BY <2>4, ChangeKept DEF MembersKept
  <2>5. CASE DeleteMembership(c)
    BY <2>5, DeleteKept DEF MembersKept
  <2>6. QED
    BY <1>3, <2>1, <2>2, <2>3, <2>4, <2>5, ClientMembers
<1>4. QED
  BY <1>1, <1>2, <1>3 DEF Next, Crash, vars, storeVars, rosterVars

(* A membership that has been removed stays removed, whatever is under way *)
(* for it.                                                                 *)
THEOREM RemovalsLast == Spec => RemovedStaysRemoved
<1> DEFINE Step == \A m \in DOMAIN members : members[m] = Gone => members'[m] = Gone
<1>1. TypeOK /\ [Next]_vars => TypeOK'
  BY TypeStep
<1>2. TypeOK /\ [Next]_vars => [Step]_vars
  BY MembersStep DEF MembersKept
<1> HIDE DEF Step
<1>3. Spec => [][Step]_vars
  BY TypeInit, <1>1, <1>2, PTL DEF Spec
<1>4. QED
  BY <1>3 DEF RemovedStaysRemoved, Step

-----------------------------------------------------------------------------
(* Memberships are distinct.                                               *)

LEMMA FamiliesInit == Init => FamiliesKnown
<1> SUFFICES ASSUME Init
             PROVE  FamiliesKnown
  OBVIOUS
<1>1. /\ \A c \in Clients : request[c].op = "idle"
      /\ \A p \in Processes : stage[p].at = "starting"
  BY DEF Init, StartupInit, Idle, Starting
<1>2. \/ members = <<>>
      \/ /\ members = <<[family |-> 1, user |-> 1, role |-> "admin"],
                        [family |-> 1, user |-> 2, role |-> "member"]>>
         /\ families = <<[owner |-> 1]>>
  BY DEF Init, StartupInit
<1>3. \A m \in DOMAIN members : members[m].family \in DOMAIN families
  BY <1>2
<1>4. QED
  BY <1>1, <1>3 DEF FamiliesKnown

(* No step takes a family away.                                            *)
LEMMA FamiliesStay ==
    ASSUME TypeOK, [Next]_vars
    PROVE  DOMAIN families \subseteq DOMAIN families'
<1>1. ASSUME NEW p \in Processes, StartStep(p)
      PROVE  DOMAIN families \subseteq DOMAIN families'
  <2>1. CASE SeedFamily(p)
    BY <2>1, SeedFamilyKept, KeysAreNumbers
  <2>2. UNCHANGED families \/ SeedFamily(p)
    BY <1>1 DEF StartStep, FindUsersTable, FindTable, CreateTable, CreatePhoneIndex, CountUsers,
                SeedUsers, SeedMembers, SeedFood, Panic, rosterVars
  <2>3. QED
    BY <2>1, <2>2
<1>2. ASSUME NEW c \in Clients, UserRequest(c) \/ FamilyRequest(c) \/ EndRequest(c)
      PROVE  DOMAIN families \subseteq DOMAIN families'
  <2>1. \A u \in DOMAIN users : CreateFamily(c, u) => DOMAIN families \subseteq DOMAIN families'
    BY CreateKept, KeysAreNumbers
  <2>2. QED
    BY <1>2, <2>1, ClientMembers DEF rosterVars
<1>3. QED
  BY <1>1, <1>2 DEF Next, Crash, vars, storeVars, rosterVars

(* The members' families that a process is about to seed are those it has  *)
(* seeded before.                                                          *)
LEMMA SeedFamiliesStep ==
    ASSUME TypeOK, FamiliesKnown, [Next]_vars, NEW p \in Processes,
           stage'[p].at = "seeding", stage'[p].next = 3
    PROVE  stage'[p].family \in DOMAIN families'
<1>1. CASE stage'[p] = stage[p]
  BY <1>1, FamiliesStay DEF FamiliesKnown
<1>2. CASE SeedFamily(p) /\ stage'[p].family = Len(families) + 1
  BY <1>2, SeedFamilyKept, KeysAreNumbers
<1>3. QED
  BY <1>1, <1>2, ThirdSeed

LEMMA FamiliesStep ==
    ASSUME TypeOK, FamiliesKnown, [Next]_vars
    PROVE  FamiliesKnown'
<1>1. DOMAIN families \subseteq DOMAIN families'
  BY FamiliesStay
<1>2. \A p \in Processes :
         stage'[p].at = "seeding" /\ stage'[p].next = 3 => stage'[p].family \in DOMAIN families'
  BY SeedFamiliesStep
<1>3. ASSUME \A m \in DOMAIN members' : IsRow(m)' =>
                m \in DOMAIN members \/ members'[m].family \in DOMAIN families',
             \A c \in Clients : request'[c].op \in {"invite", "insert"} =>
                request'[c].family \in DOMAIN families'
      PROVE  FamiliesKnown'
  BY <1>1, <1>2, <1>3, MembersStep DEF FamiliesKnown, MembersKept, IsRow
<1>4. ASSUME UNCHANGED request
      PROVE  \A c \in Clients : request'[c].op \in {"invite", "insert"} =>
                request'[c].family \in DOMAIN families'
  BY <1>1, <1>4 DEF FamiliesKnown
<1>5. ASSUME NEW p \in Processes, StartStep(p)
      PROVE  FamiliesKnown'
  <2>1. CASE UNCHANGED members
    BY <1>3, <1>4, <1>5, <2>1, StartMembers
  <2>2. CASE SeedMembers(p)
    <3>1. /\ DOMAIN members' = 1..(Len(members) + 2)
          /\ members'[Len(members) + 1].family = stage[p].family
          /\ members'[Len(members) + 2].family = stage[p].family
          /\ stage[p].family \in DOMAIN families
      BY <2>2, SeedMembersKept DEF FamiliesKnown
    <3>2. \A m \in DOMAIN members' :
             m \in DOMAIN members \/ m = Len(members) + 1 \/ m = Len(members) + 2
      BY <3>1, KeysAreNumbers
    <3>3. QED
      BY <1>1, <1>3, <1>4, <1>5, <3>1, <3>2, StartMembers
  <2>3. QED
    BY <1>5, <2>1, <2>2, StartMembers
<1>6. ASSUME NEW c \in Clients, UserRequest(c) \/ FamilyRequest(c) \/ EndRequest(c)
      PROVE  FamiliesKnown'
  <2>1. \A d \in Clients : request'[d].op \in {"invite", "insert"} =>
                              request'[d].family \in DOMAIN families'
    <3>1. CASE FindInvited(c)
      <4>1. request'[c].family = request[c].family /\ request[c].op = "invite"
        BY <3>1 DEF FindInvited, Receive, TypeOK, HouseholdTypeOK
      <4>2. QED
        BY <1>1, <1>6, <4>1, ClientSaves DEF FamiliesKnown
    <3>2. CASE \E u \in DOMAIN users, family \in DOMAIN families : JoinByCode(c, u, family)
      <4>1. request'[c].family \in DOMAIN families
        BY <3>2 DEF JoinByCode, Receive, TypeOK, HouseholdTypeOK
      <4>2. QED
        BY <1>1, <1>6, <4>1, ClientSaves DEF FamiliesKnown
    <3>3. CASE \E u, invited \in DOMAIN users, family \in DOMAIN families :
                  InviteMember(c, u, family, invited)
      <4>1. request'[c].family \in DOMAIN families
        BY <3>3 DEF InviteMember, Receive, TypeOK, HouseholdTypeOK
      <4>2. QED
        BY <1>1, <1>6, <4>1, ClientSaves DEF FamiliesKnown
    <3>4. CASE request'[c].op \notin {"invite", "insert"}
      BY <1>1, <1>6, <3>4, ClientSaves DEF FamiliesKnown
    <3>5. QED
      BY <1>6, <3>1, <3>2, <3>3, <3>4, ClientRequests
  <2>2. CASE UNCHANGED rosterVars
    BY <1>3, <2>1, <2>2 DEF rosterVars
  <2>3. CASE \E u \in DOMAIN users : CreateFamily(c, u)
    <3>1. /\ DOMAIN members' = 1..(Len(members) + 1)
          /\ members'[Len(members) + 1].family \in DOMAIN families'
      BY <2>3, CreateKept, KeysAreNumbers
    <3>2. \A m \in DOMAIN members' : m \in DOMAIN members \/ m = Len(members) + 1
      BY <3>1, KeysAreNumbers
    <3>3. QED
      BY <1>3, <2>1, <3>1, <3>2
  <2>4. CASE InsertMember(c)
    <3>1. /\ DOMAIN members' = 1..(Len(members) + 1)
          /\ members'[Len(members) + 1].family = request[c].family
      BY <2>4, InsertKept
    <3>2. \A m \in DOMAIN members' : m \in DOMAIN members \/ m = Len(members) + 1
      BY <3>1, KeysAreNumbers
    <3>3. request[c].family \in DOMAIN families
      BY <2>4 DEF InsertMember, FamiliesKnown
    <3>4. QED
      BY <1>1, <1>3, <2>1, <3>1, <3>2, <3>3
  <2>5. CASE ChangeRole(c) \/ DeleteMembership(c)
    BY <1>3, <2>1, <2>5, ChangeKept, DeleteKept
  <2>6. QED
    BY <1>6, <2>2, <2>3, <2>4, <2>5, ClientMembers
<1>7. QED
  BY <1>3, <1>4, <1>5, <1>6 DEF Next, Crash, vars, storeVars, rosterVars

(* Memberships stay distinct as long as nobody inserts one that is there,  *)
(* and members are seeded before there are any.                            *)
LEMMA MembersDifferStep ==
    ASSUME TypeOK, FamiliesKnown, MembersDiffer, [Next]_vars,
           \A c \in Clients : InsertMember(c) => ~IsMember(request[c].family, request[c].user),
           \A p \in Processes : SeedMembers(p) => members = <<>>
    PROVE  MembersDiffer'
<1>1. ASSUME DOMAIN members' = DOMAIN members
      PROVE  MembersDiffer'
  BY <1>1, MembersStep DEF MembersDiffer, MembersKept, IsRow
(* A new membership is none that was there.                                *)
<1>2. ASSUME DOMAIN members' = 1..(Len(members) + 1),
             \A m \in DOMAIN members : members'[m] = members[m],
             \A m \in DOMAIN members :
                IsRow(m) => \/ members[m].family # members'[Len(members) + 1].family
                            \/ members[m].user # members'[Len(members) + 1].user
      PROVE  MembersDiffer'
  <2>1. \A m \in DOMAIN members' : m \in DOMAIN members \/ m = Len(members) + 1
    BY <1>2, KeysAreNumbers
  <2>2. QED
    BY <1>2, <2>1 DEF MembersDiffer, IsRow
<1>3. ASSUME NEW p \in Processes, StartStep(p)
      PROVE  MembersDiffer'
  <2>1. CASE SeedMembers(p)
    <3>1. /\ DOMAIN members' = 1..(Len(members) + 2)
          /\ members'[Len(members) + 1].user # members'[Len(members) + 2].user
          /\ Len(members) = 0
      BY <2>1, SeedMembersKept
    <3>2. \A m \in DOMAIN members' : m = Len(members) + 1 \/ m = Len(members) + 2
      BY <3>1
    <3>3. QED
      BY <3>1, <3>2 DEF MembersDiffer
  <2>2. QED
    BY <1>1, <1>3, <2>1, StartMembers
<1>4. ASSUME NEW c \in Clients, UserRequest(c) \/ FamilyRequest(c) \/ EndRequest(c)
      PROVE  MembersDiffer'
  <2>1. ASSUME NEW u \in DOMAIN users, CreateFamily(c, u)
        PROVE  MembersDiffer'
    <3>1. \A m \in DOMAIN members : IsRow(m) => members[m].family # Len(families) + 1
      BY KeysAreNumbers DEF FamiliesKnown
    <3>2. QED
      BY <1>2, <2>1, <3>1, CreateKept
  <2>2. CASE InsertMember(c)
    <3>1. \A m \in DOMAIN members :
             IsRow(m) => \/ members[m].family # request[c].family
                         \/ members[m].user # request[c].user
      BY <2>2 DEF IsMember, Belongs
    <3>2. QED
      BY <1>2, <2>2, <3>1, InsertKept
  <2>3. CASE UNCHANGED rosterVars \/ ChangeRole(c) \/ DeleteMembership(c)
    BY <1>1, <2>3, ChangeKept, DeleteKept DEF rosterVars
  <2>4. QED
    BY <1>4, <2>1, <2>2, <2>3, ClientMembers
<1>5. QED
  BY <1>1, <1>3, <1>4 DEF Next, Crash, vars, storeVars, rosterVars

LEMMA MembersInit == Init => MembersDiffer
<1> SUFFICES ASSUME Init
             PROVE  MembersDiffer
  OBVIOUS
<1>1. \/ members = <<>>
      \/ members = <<[family |-> 1, user |-> 1, role |-> "admin"],
                     [family |-> 1, user |-> 2, role |-> "member"]>>
  BY DEF Init, StartupInit
<1>2. CASE members = <<>>
  BY <1>2 DEF MembersDiffer
<1>3. CASE members = <<[family |-> 1, user |-> 1, role |-> "admin"],
                       [family |-> 1, user |-> 2, role |-> "member"]>>
  BY <1>3 DEF MembersDiffer
<1>4. QED
  BY <1>1, <1>2, <1>3

LEMMA DistinctMembersStep ==
    ASSUME TypeOK, Prepared, FamiliesKnown, DistinctMembers, [Next]_vars
    PROVE  DistinctMembers'
<1>1. UNCHANGED byInitSql
  BY StartMembers, ClientUsers DEF Next, Crash, vars, storeVars, schemaVars
<1>2. CASE ~byInitSql
  BY <1>1, <1>2 DEF DistinctMembers
<1>3. CASE byInitSql
  <2>1. \A c \in Clients : InsertMember(c) => ~IsMember(request[c].family, request[c].user)
    BY <1>3 DEF InsertMember, MembershipAccepted
  <2>2. ASSUME NEW p \in Processes, SeedMembers(p)
        PROVE  FALSE
    <3>1. stage[p] = Starting \/ stage[p] = Serving
      BY <1>3 DEF Prepared
    <3>2. stage[p].at = "seeding"
      BY <2>2 DEF SeedMembers, Seeds
    <3>3. QED
      BY <3>1, <3>2 DEF Starting, Serving
  <2>3. MembersDiffer
    BY <1>3 DEF DistinctMembers
  <2>4. MembersDiffer'
    BY <2>1, <2>2, <2>3, MembersDifferStep
  <2>5. QED
    BY <2>4 DEF DistinctMembers
<1>4. QED
  BY <1>2, <1>3

(* On a database of init.sql nobody is in a family twice, although         *)
(* inviting and joining look first and insert later.                       *)
THEOREM MembershipCorrect == Spec => []OneMembership
<1> DEFINE Inv == TypeOK /\ Prepared /\ FamiliesKnown /\ DistinctMembers
<1>1. Init => Inv
  BY TypeInit, PreparedInit, FamiliesInit, MembersInit DEF DistinctMembers
<1>2. Inv /\ [Next]_vars => Inv'
  BY TypeStep, PreparedStep, FamiliesStep, DistinctMembersStep
<1>3. Inv => OneMembership
  BY DEF DistinctMembers, MembersDiffer, OneMembership, MemberOnce, ListByUser
<1> HIDE DEF Inv
<1>4. QED
  BY <1>1, <1>2, <1>3, PTL DEF Spec

-----------------------------------------------------------------------------
(* Joining one after the other.                                            *)

(* A process that has not seeded the members, nor found that others did.   *)
Bare(s) ==
    \/ s.at \in {"finding", "creating", "indexing", "counting"}
    \/ s.at = "seeding" /\ s.next <= 3
    \/ s.at = "starting" /\ tables = 0

(* Until a process serves there are no requests, and no members but those  *)
(* it seeds.                                                               *)
Closed(s) ==
    /\ Bare(s) => members = <<>>
    /\ Bare(s) \/ s.at = "seeding" => \A c \in Clients : request[c] = Idle
    /\ s.at \in {"indexing", "counting", "seeding", "serving"} => tables > 0

ClosedInv == \A p \in Processes : Closed(stage[p])

LEMMA ClosedInit == Init => ClosedInv
BY LastTableAssumption DEF Init, StartupInit, ClosedInv, Closed, Bare, Starting, FamilyMembersTable

(* A process on its own leaves its database as closed as it found it.      *)
LEMMA ClosedStart ==
    ASSUME TypeOK, NEW p \in Processes, Closed(stage[p]), StartStep(p)
    PROVE  Closed(stage[p])'
<1> USE DEF schemaVars, rosterVars
<1>1. stage[p] \in Stage /\ tables \in 0..LastTable /\ LastTable \in Nat
  BY LastTableAssumption DEF TypeOK, StartupTypeOK, HouseholdTypeOK
<1>2. \A s : Reach(p, s) => stage'[p] = s
  BY DEF TypeOK, StartupTypeOK, Reach
<1>3. \A table \in 1..LastTable : AfterTable(table).at \in {"finding", "counting"}
  BY DEF AfterTable, Counting
<1>4. UNCHANGED request
  BY DEF StartStep
<1>5. ASSUME Bare(stage[p]), UNCHANGED members, stage'[p].at \in {"finding", "creating"}
      PROVE  Closed(stage[p])'
  BY <1>4, <1>5 DEF Closed
<1>6. ASSUME Bare(stage[p]), UNCHANGED members, tables' > 0
      PROVE  Closed(stage[p])'
  BY <1>4, <1>6 DEF Closed
<1>7. ASSUME tables > 0, tables' = tables, stage'[p] = Starting \/ stage'[p] = Serving
      PROVE  Closed(stage[p])'
  BY <1>7 DEF Closed, Bare, Starting, Serving
<1>8. CASE FindUsersTable(p)
  <2>1. CASE tables > 0
    BY <1>1, <1>2, <1>7, <1>8, <2>1 DEF FindUsersTable, HasTable, UsersTable
  <2>2. CASE tables = 0
    <3>1. Bare(stage[p])
      BY <1>8, <2>2 DEF FindUsersTable, Bare, Starting
    <3>2. stage'[p] = [at |-> "finding", table |-> UsersTable] /\ UNCHANGED members
      BY <1>2, <1>8, <2>2 DEF FindUsersTable, HasTable, UsersTable
    <3>3. QED
      BY <1>5, <3>1, <3>2
  <2>3. QED
    BY <1>1, <2>1, <2>2
<1>9. CASE FindTable(p)
  <2> DEFINE table == stage[p].table
  <2>1. table \in 1..LastTable /\ Bare(stage[p]) /\ UNCHANGED <<members, tables>>
    BY <1>1, <1>9, StageFields DEF FindTable, Bare
  <2>2. CASE HasTable(table)
    BY <1>1, <1>6, <2>1, <2>2 DEF HasTable
  <2>3. CASE ~HasTable(table)
    <3>1. stage'[p] = [at |-> "creating", table |-> table]
      BY <1>2, <1>9, <2>3 DEF FindTable
    <3>2. QED
      BY <1>5, <2>1, <3>1
  <2>4. QED
    BY <2>2, <2>3
<1>10. CASE CreateTable(p)
  <2> DEFINE table == stage[p].table
  <2>1. table \in 1..LastTable /\ Bare(stage[p])
    BY <1>1, <1>10, StageFields DEF CreateTable, Bare
  <2>2. UNCHANGED members /\ tables' > 0
    <3>1. CASE HasTable(table)
      BY <1>1, <1>10, <2>1, <3>1 DEF CreateTable, Panic, HasTable
    <3>2. CASE ~HasTable(table)
      BY <1>10, <2>1, <3>2 DEF CreateTable
    <3>3. QED
      BY <3>1, <3>2
  <2>3. QED
    BY <1>6, <2>1, <2>2
<1>11. CASE CreatePhoneIndex(p) \/ CountUsers(p)
  <2>1. Bare(stage[p]) /\ tables > 0
    BY <1>11 DEF CreatePhoneIndex, CountUsers, Bare, Closed, Counting
  <2>2. UNCHANGED <<members, tables>>
    BY <1>11 DEF CreatePhoneIndex, CountUsers, Panic
  <2>3. QED
    BY <1>6, <2>1, <2>2
<1>12. CASE SeedUsers(p) \/ SeedFamily(p)
  <2>1. stage[p].at = "seeding" /\ stage[p].next <= 3
    BY <1>12 DEF SeedUsers, SeedFamily, Seeds
  <2>2. Bare(stage[p]) /\ tables > 0
    BY <2>1 DEF Bare, Closed
  <2>3. UNCHANGED <<members, tables>>
    BY <1>12 DEF SeedUsers, SeedFamily, Seeds, Panic
  <2>4. QED
    BY <1>6, <2>2, <2>3
<1>13. CASE SeedMembers(p) \/ SeedFood(p)
  <2>1. PICK n, owner, family : Seeds(p, n, owner, family) /\ n \in Nat /\ n >= 3
    <3>1. CASE SeedMembers(p)
      BY <3>1 DEF SeedMembers
    <3>2. CASE SeedFood(p)
      <4>1. stage[p].next \in Nat /\ stage[p].next >= 3
        BY <1>1, <3>2, StageFields DEF SeedFood
      <4>2. QED
        BY <3>2, <4>1 DEF SeedFood
    <3>3. QED
      BY <1>13, <3>1, <3>2
  <2>2. /\ tables > 0 /\ tables' = tables
        /\ \A c \in Clients : request[c] = Idle
    BY <2>1 DEF Seeds, Closed
  <2>3. CASE n = LastSeed
    BY <1>2, <1>7, <2>1, <2>2, <2>3 DEF Seeds
  <2>4. CASE n # LastSeed
    <3>1. stage'[p] = [at |-> "seeding", next |-> n + 1, owner |-> owner, family |-> family]
      BY <1>2, <2>1, <2>4 DEF Seeds
    <3>2. ~Bare(stage[p])'
      BY <2>1, <3>1 DEF Bare
    <3>3. QED
      BY <1>4, <2>2, <3>2 DEF Closed
  <2>5. QED
    BY <2>3, <2>4
<1>14. QED
  BY <1>8, <1>9, <1>10, <1>11, <1>12, <1>13 DEF StartStep

LEMMA ClosedStep ==
    ASSUME \A p, q \in Processes : p = q, TypeOK, ClosedInv, [Next]_vars
    PROVE  ClosedInv'
<1>1. ASSUME NEW p \in Processes, StartStep(p)
      PROVE  ClosedInv'
  <2>1. Closed(stage[p])'
    BY <1>1, ClosedStart DEF ClosedInv
  <2>2. \A q \in Processes : q = p
    OBVIOUS
  <2>3. QED
    BY <2>1, <2>2 DEF ClosedInv
<1>2. ASSUME NEW p \in Processes, Crash(p)
      PROVE  ClosedInv'
  <2>1. /\ stage'[p] = Starting
        /\ stage[p] # Starting
        /\ stage[p] \in Stage
        /\ tables \in Nat
        /\ UNCHANGED <<tables, members, request>>
    BY <1>2 DEF Crash, Reach, TypeOK, StartupTypeOK, HouseholdTypeOK, storeVars, schemaVars,
                rosterVars
  <2>2. tables = 0 => Bare(stage[p])
    <3>1. stage[p].at \in {"finding", "creating", "indexing", "counting", "seeding", "serving"}
      BY <2>1 DEF Stage, Serving, Counting
    <3>2. QED
      BY <3>1 DEF ClosedInv, Closed, Bare
  <2>3. Closed(stage[p])'
    BY <2>1, <2>2 DEF ClosedInv, Closed, Bare, Starting
  <2>4. \A q \in Processes : q = p
    OBVIOUS
  <2>5. QED
    BY <2>3, <2>4 DEF ClosedInv
<1>3. ASSUME NEW c \in Clients, UserRequest(c) \/ FamilyRequest(c) \/ EndRequest(c),
             IsServed, UNCHANGED startupVars
      PROVE  ClosedInv'
  <2>1. \A p \in Processes : stage[p] = Serving
    BY <1>3 DEF IsServed
  <2>2. UNCHANGED <<tables, stage>>
    BY <1>3, ClientUsers DEF startupVars, schemaVars
  <2>3. QED
    BY <2>1, <2>2 DEF ClosedInv, Closed, Bare, Serving
<1>4. CASE UNCHANGED vars
  BY <1>4 DEF vars, storeVars, startupVars, schemaVars, rosterVars, ClosedInv, Closed, Bare
<1>5. QED
  BY <1>1, <1>2, <1>3, <1>4 DEF Next

(* A membership that is about to be inserted is not there.                 *)
JoinsNew ==
    \A c \in Clients :
        request[c].op = "insert" => ~IsMember(request[c].family, request[c].user)

LEMMA JoinsStep ==
    ASSUME \A c, d \in Clients : c = d, ~ReadErrors,
           TypeOK, ClosedInv, JoinsNew, [Next]_vars
    PROVE  JoinsNew'
<1>1. ASSUME UNCHANGED <<members, request>>
      PROVE  JoinsNew'
  BY <1>1 DEF JoinsNew, IsMember, Belongs, IsRow
<1>2. ASSUME NEW p \in Processes, StartStep(p)
      PROVE  JoinsNew'
  <2>1. CASE SeedMembers(p)
    <3>1. \A c \in Clients : request[c] = Idle
      BY <2>1 DEF SeedMembers, Seeds, ClosedInv, Closed
    <3>2. QED
      BY <1>2, <3>1, StartMembers DEF JoinsNew, Idle
  <2>2. QED
    BY <1>1, <1>2, <2>1, StartMembers
<1>3. ASSUME NEW c \in Clients, UserRequest(c) \/ FamilyRequest(c) \/ EndRequest(c)
      PROVE  JoinsNew'
  <2> SUFFICES ASSUME request'[c].op = "insert"
               PROVE  (~IsMember(request[c].family, request[c].user))'
    BY DEF JoinsNew
  <2>1. CASE FindInvited(c)
    <3>1. /\ request'[c].family = request[c].family
          /\ request'[c].user = request[c].user
          /\ UNCHANGED members
      BY <2>1 DEF FindInvited, Receive, TypeOK, HouseholdTypeOK, rosterVars
    <3>2. QED
      BY <2>1, <3>1 DEF FindInvited, IsMember, Belongs, IsRow
  <2>2. ASSUME NEW u \in DOMAIN users, NEW family \in DOMAIN families, JoinByCode(c, u, family)
        PROVE  (~IsMember(request[c].family, request[c].user))'
    <3>1. request'[c].family = family /\ request'[c].user = u /\ UNCHANGED members
      BY <2>2 DEF JoinByCode, Receive, TypeOK, HouseholdTypeOK, rosterVars
    <3>2. ~IsMember(family, u)
      BY <2>2 DEF JoinByCode
    <3>3. QED
      BY <3>1, <3>2 DEF IsMember, Belongs, IsRow
  <2>3. ASSUME NEW u, NEW invited, NEW family, InviteMember(c, u, family, invited)
        PROVE  FALSE
    BY <2>3 DEF InviteMember, Receive, TypeOK, HouseholdTypeOK
  <2>4. QED
    BY <1>3, <2>1, <2>2, <2>3, ClientRequests
<1>4. QED
  BY <1>1, <1>2, <1>3 DEF Next, Crash, vars, storeVars, rosterVars

(* With one process, and requests that do not overlap, a second joining is *)
(* refused on any database, also after crashes: it takes two requests, or  *)
(* one that runs into the seeds of another process, to join twice.         *)
THEOREM JoinsInTurnRefused ==
    ASSUME \A c, d \in Clients : c = d, \A p, q \in Processes : p = q, ~ReadErrors
    PROVE  Spec => []DuplicateJoinRefused
<1> DEFINE Inv == TypeOK /\ FamiliesKnown /\ MembersDiffer /\ ClosedInv /\ JoinsNew
<1>1. Init => Inv
  BY TypeInit, FamiliesInit, MembersInit, ClosedInit DEF Init, JoinsNew, Idle
<1>2. Inv /\ [Next]_vars => Inv'
  <2> SUFFICES ASSUME Inv, [Next]_vars
               PROVE  Inv'
    OBVIOUS
  <2>1. \A c \in Clients : InsertMember(c) => ~IsMember(request[c].family, request[c].user)
    BY DEF JoinsNew, InsertMember
  <2>2. \A p \in Processes : SeedMembers(p) => members = <<>>
    BY DEF ClosedInv, Closed, Bare, SeedMembers, Seeds
  <2>3. MembersDiffer'
    BY <2>1, <2>2, MembersDifferStep
  <2>4. QED
    BY <2>3, TypeStep, FamiliesStep, ClosedStep, JoinsStep
<1>3. Inv => DuplicateJoinRefused
  BY DEF MembersDiffer, DuplicateJoinRefused, MemberOnce, ListByUser
<1> HIDE DEF Inv
<1>4. QED
  BY <1>1, <1>2, <1>3, PTL DEF Spec

-----------------------------------------------------------------------------
(* Admins.                                                                 *)

LEMMA UpdatesInit == Init => UpdatesKept
BY DEF Init, Idle, UpdatesKept

LEMMA UpdatesStep ==
    ASSUME TypeOK, UpdatesKept, [Next]_vars
    PROVE  UpdatesKept'
<1>1. ASSUME NEW c \in Clients, UNCHANGED request[c],
             request[c].op = "update"
      PROVE  /\ request[c].member \in DOMAIN members'
             /\ \/ members'[request[c].member] = Gone
                \/ members'[request[c].member].family = request[c].row.family
  BY <1>1, MembersStep DEF UpdatesKept, MembersKept
<1>2. ASSUME UNCHANGED request
      PROVE  UpdatesKept'
  BY <1>1, <1>2 DEF UpdatesKept
<1>3. ASSUME NEW c \in Clients, UserRequest(c) \/ FamilyRequest(c) \/ EndRequest(c)
      PROVE  UpdatesKept'
  <2>1. ASSUME request'[c].op = "update"
        PROVE  /\ request'[c].member \in DOMAIN members'
               /\ \/ members'[request'[c].member] = Gone
                  \/ members'[request'[c].member].family = request'[c].row.family
    <3>1. FindForRole(c)
      BY <1>3, <2>1, ClientRequests
    <3>2. /\ request'[c].member = request[c].member
          /\ request'[c].row = members[request[c].member]
      BY <3>1 DEF FindForRole, Receive, TypeOK, HouseholdTypeOK
    <3>3. request[c].member \in DOMAIN members /\ UNCHANGED members
      BY <3>1 DEF FindForRole, FindMember, IsRow, rosterVars
    <3>4. QED
      BY <3>2, <3>3
  <2>2. ASSUME NEW d \in Clients, d # c, request'[d].op = "update"
        PROVE  /\ request'[d].member \in DOMAIN members'
               /\ \/ members'[request'[d].member] = Gone
                  \/ members'[request'[d].member].family = request'[d].row.family
    <3>1. request'[d] = request[d]
      BY <1>3, <2>2, ClientSaves
    <3>2. QED
      BY <1>1, <2>2, <3>1
  <2>3. QED
    BY <2>1, <2>2 DEF UpdatesKept
<1>4. QED
  BY <1>2, <1>3, StartMembers DEF Next, Crash, vars, storeVars

NoAdmin(family) ==
    \A m \in DOMAIN members :
        IsRow(m) /\ members[m].family = family => members[m].role # "admin"

(* No step makes an admin of an orphaned family,                           *)
LEMMA NoAdminStep ==
    ASSUME TypeOK, UpdatesKept, [Next]_vars, NEW family \in DOMAIN families, Orphaned(family)
    PROVE  NoAdmin(family)'
<1>1. NoAdmin(family)
  BY DEF Orphaned, NoAdmin
<1>2. ASSUME UNCHANGED members
      PROVE  NoAdmin(family)'
  BY <1>1, <1>2 DEF NoAdmin, IsRow
<1>3. ASSUME \A m \in DOMAIN members : members'[m] = members[m],
             \A m \in DOMAIN members' :
                m \notin DOMAIN members =>
                   members'[m].family # family \/ members'[m].role # "admin"
      PROVE  NoAdmin(family)'
  BY <1>1, <1>3 DEF NoAdmin, IsRow
<1>4. ASSUME NEW p \in Processes, StartStep(p)
      PROVE  NoAdmin(family)'
  <2>1. CASE SeedMembers(p)
    <3>1. /\ DOMAIN members' = 1..(Len(members) + 2)
          /\ \A m \in DOMAIN members : members'[m] = members[m]
          /\ members'[Len(members) + 1].family = stage[p].family
          /\ members'[Len(members) + 2].family = stage[p].family
          /\ stage[p].at = "seeding" /\ stage[p].next = 3
      BY <2>1, SeedMembersKept
    <3>2. stage[p].family # family
      BY <3>1 DEF Orphaned
    <3>3. \A m \in DOMAIN members' :
             m \in DOMAIN members \/ m = Len(members) + 1 \/ m = Len(members) + 2
      BY <3>1, KeysAreNumbers
    <3>4. QED
      BY <1>3, <3>1, <3>2, <3>3
  <2>2. QED
    BY <1>2, <1>4, <2>1, StartMembers
<1>5. ASSUME NEW c \in Clients, UserRequest(c) \/ FamilyRequest(c) \/ EndRequest(c)
      PROVE  NoAdmin(family)'
  <2>1. ASSUME NEW u \in DOMAIN users, CreateFamily(c, u)
        PROVE  NoAdmin(family)'
    <3>1. /\ DOMAIN members' = 1..(Len(members) + 1)
          /\ \A m \in DOMAIN members : members'[m] = members[m]
          /\ members'[Len(members) + 1].family # family
      BY <2>1, CreateKept, KeysAreNumbers
    <3>2. \A m \in DOMAIN members' : m \in DOMAIN members \/ m = Len(members) + 1
      BY <3>1, KeysAreNumbers
    <3>3. QED
      BY <1>3, <3>1, <3>2
  <2>2. CASE InsertMember(c)
    <3>1. /\ DOMAIN members' = 1..(Len(members) + 1)
          /\ \A m \in DOMAIN members : members'[m] = members[m]
          /\ members'[Len(members) + 1].role # "admin"
      BY <2>2, InsertKept
    <3>2. \A m \in DOMAIN members' : m \in DOMAIN members \/ m = Len(members) + 1
      BY <3>1, KeysAreNumbers
    <3>3. QED
      BY <1>3, <3>1, <3>2
  <2>3. CASE ChangeRole(c)
    <3>1. /\ request[c].member \in DOMAIN members
          /\ \/ members[request[c].member] = Gone
             \/ members[request[c].member].family # family
      BY <2>3 DEF ChangeRole, UpdatesKept, Orphaned
    <3>2. QED
      BY <1>1, <2>3, <3>1, ChangeKept DEF NoAdmin, IsRow
  <2>4. CASE DeleteMembership(c)
    BY <1>1, <2>4, DeleteKept DEF NoAdmin, IsRow
  <2>5. QED
    BY <1>2, <1>5, <2>1, <2>2, <2>3, <2>4, ClientMembers DEF rosterVars
<1>6. QED
  BY <1>2, <1>4, <1>5 DEF Next, Crash, vars, storeVars, rosterVars

(* no member of it sets about it,                                          *)
LEMMA NoRoleStep ==
    ASSUME TypeOK, [Next]_vars, NEW family \in DOMAIN families, Orphaned(family),
           NEW d \in Clients
    PROVE  /\ request'[d].op = "findForRole" => request'[d].family # family
           /\ request'[d].op = "update" => request'[d].row.family # family
<1>1. ASSUME request'[d] = request[d]
      PROVE  /\ request'[d].op = "findForRole" => request'[d].family # family
             /\ request'[d].op = "update" => request'[d].row.family # family
  BY <1>1 DEF Orphaned
<1>2. ASSUME UserRequest(d) \/ FamilyRequest(d) \/ EndRequest(d), request'[d].op = "findForRole"
      PROVE  request'[d].family # family
  <2>1. PICK u \in DOMAIN users, own \in DOMAIN families, m \in DOMAIN members, role \in Roles :
              SetMemberRole(d, u, own, m, role)
    BY <1>2, ClientRequests
  <2>2. request'[d].family = own
    BY <2>1 DEF SetMemberRole, Receive, TypeOK, HouseholdTypeOK
  <2>3. \E n \in DOMAIN members : IsRow(n) /\ members[n].family = own /\ members[n].role = "admin"
    BY <2>1 DEF SetMemberRole, RequireAdmin, FindByFamilyAndUser, Belongs
  <2>4. QED
    BY <2>2, <2>3 DEF Orphaned
<1>3. ASSUME UserRequest(d) \/ FamilyRequest(d) \/ EndRequest(d), request'[d].op = "update"
      PROVE  request'[d].row.family # family
  <2>1. FindForRole(d)
    BY <1>3, ClientRequests
  <2>2. request'[d].row = members[request[d].member]
    BY <2>1 DEF FindForRole, Receive, TypeOK, HouseholdTypeOK
  <2>3. members[request[d].member].family = request[d].family /\ request[d].family # family
    BY <2>1 DEF FindForRole, FindMember, Orphaned
  <2>4. QED
    BY <2>2, <2>3
<1>4. ASSUME NEW c \in Clients, UserRequest(c) \/ FamilyRequest(c) \/ EndRequest(c)
      PROVE  /\ request'[d].op = "findForRole" => request'[d].family # family
             /\ request'[d].op = "update" => request'[d].row.family # family
  <2>1. CASE d = c
    BY <1>2, <1>3, <1>4, <2>1
  <2>2. CASE d # c
    BY <1>1, <1>4, <2>2, ClientSaves
  <2>3. QED
    BY <2>1, <2>2
<1>5. CASE UNCHANGED request
  BY <1>1, <1>5
<1>6. QED
  BY <1>4, <1>5, StartMembers DEF Next, Crash, vars, storeVars

(* and no process seeds the members of it.                                 *)
LEMMA NoSeedStep ==
    ASSUME TypeOK, [Next]_vars, NEW family \in DOMAIN families, Orphaned(family)
    PROVE  \A p \in Processes :
              stage'[p].at = "seeding" /\ stage'[p].next = 3 => stage'[p].family # family
<1>1. Len(families) + 1 # family
  BY KeysAreNumbers
<1>2. QED
  BY <1>1, ThirdSeed DEF Orphaned

(* Only admins make admins: without one, and without a change of role that *)
(* one has begun, a family stays without.                                  *)
THEOREM OrphansStay == Spec => OrphanStaysOrphan
<1> DEFINE Inv == TypeOK /\ UpdatesKept
           Step == \A family \in DOMAIN families : Orphaned(family) => Orphaned(family)'
<1>1. Init => Inv
  BY TypeInit, UpdatesInit
<1>2. Inv /\ [Next]_vars => Inv'
  BY TypeStep, UpdatesStep
<1>3. Inv /\ [Next]_vars => Step
  BY NoAdminStep, NoRoleStep, NoSeedStep DEF NoAdmin, Orphaned, IsRow
<1>4. Inv /\ [Next]_vars => [Step]_vars
  BY <1>3
<1> HIDE DEF Inv, Step
<1>5. Spec => [][Step]_vars
  BY <1>1, <1>2, <1>4, PTL DEF Spec
<1>6. QED
  BY <1>5 DEF OrphanStaysOrphan, Step
=============================================================================
