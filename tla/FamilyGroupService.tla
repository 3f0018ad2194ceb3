-------------------------- MODULE FamilyGroupService --------------------------
(***************************************************************************)
(* FamilyGroupService: creating families, inviting and joining, roles and  *)
(* removals.  Each of its checks and its write is a call of its own, with  *)
(* the requests of others in between.                                      *)
(***************************************************************************)
EXTENDS UserService

CONSTANTS
    MaxFamilies,   \* bound: no more families are created
    MaxMembers,    \* bound: no more memberships are created
    ReadErrors     \* may the query for an existing membership fail?

ASSUME MaxFamiliesAssumption == MaxFamilies \in Nat
ASSUME MaxMembersAssumption == MaxMembers \in Nat
ASSUME ReadErrorsAssumption == ReadErrors \in BOOLEAN

(* A code is generated for each family and never changes: a code that is   *)
(* in use names its family.                                                *)
FindByInviteCode(family) == family \in DOMAIN families

(* Seeded fault: any member will do.                                       *)
RequireMember(family, user) == IsMember(family, user)

RequireAdmin(family, user) ==
    \E m \in DOMAIN members :
        FindByFamilyAndUser(family, user, m) /\ members[m].role = "admin"

(* Create: the group and its first member in one transaction.              *)
CreateFamily(c, u) ==
    /\ request[c] = Idle
    /\ HasTable(FamilyMembersTable)
    /\ Authenticated(u)
    /\ Len(families) < MaxFamilies /\ Len(members) < MaxMembers
    /\ families' = Append(families, [owner |-> u])
    /\ members' = Append(members,
          [family |-> Len(families) + 1, user |-> u, role |-> "admin"])
    /\ UNCHANGED <<schemaVars, users, request>>

InviteMember(c, u, family, invited) ==
    /\ request[c] = Idle
    /\ Authenticated(u)
    /\ RequireAdmin(family, u)
    /\ Receive(c, [op |-> "invite", family |-> family, user |-> invited])
    /\ UNCHANGED <<schemaVars, users, rosterVars>>

(* Only "not found" lets the invitation go on.                             *)
FindInvited(c) ==
    /\ request[c].op = "invite"
    /\ ~IsMember(request[c].family, request[c].user)
    /\ Receive(c, [request[c] EXCEPT !.op = "insert"])
    /\ UNCHANGED <<schemaVars, users, rosterVars>>

(* Whatever error the query for the membership returns is taken for "not   *)
(* found".                                                                 *)
JoinByCode(c, u, family) ==
    /\ request[c] = Idle
    /\ Authenticated(u)
    /\ FindByInviteCode(family)
    /\ HasTable(FamilyMembersTable)
    /\ IsMember(family, u) => ReadErrors
    /\ Receive(c, [op |-> "insert", family |-> family, user |-> u])
    /\ UNCHANGED <<schemaVars, users, rosterVars>>

(* The INSERT of both; a user who does not exist is refused by the foreign *)
(* key, a membership that exists by uq_family_user.                        *)
InsertMember(c) ==
    /\ request[c].op = "insert"
    /\ LET family == request[c].family  user == request[c].user IN
          /\ user \in DOMAIN users
          /\ MembershipAccepted(family, user)
          /\ members' = Append(members, [family |-> family, user |-> user, role |-> "member"])
    /\ Len(members) < MaxMembers
    /\ Receive(c, Idle)
    /\ UNCHANGED <<schemaVars, users, families>>

SetMemberRole(c, u, family, m, role) ==
    /\ request[c] = Idle
    /\ Authenticated(u)
    /\ RequireAdmin(family, u)
    /\ Receive(c, [op |-> "findForRole", family |-> family, member |-> m, role |-> role])
    /\ UNCHANGED <<schemaVars, users, rosterVars>>

(* The membership named by the request must be one of the same family.     *)
FindMember(m, family) == IsRow(m) /\ members[m].family = family

FindForRole(c) ==
    /\ request[c].op = "findForRole"
    /\ FindMember(request[c].member, request[c].family)
    /\ Receive(c, [op |-> "update", member |-> request[c].member,
                   row |-> members[request[c].member], role |-> request[c].role])
    /\ UNCHANGED <<schemaVars, users, rosterVars>>

ChangeRole(c) ==
    /\ request[c].op = "update"
    /\ UpdateRole(request[c].member, request[c].row, request[c].role)
    /\ Receive(c, Idle)
    /\ UNCHANGED <<schemaVars, users, families>>

RemoveMember(c, u, family, m) ==
    /\ request[c] = Idle
    /\ Authenticated(u)
    /\ RequireAdmin(family, u)
    /\ Receive(c, [op |-> "findForRemove", family |-> family, member |-> m])
    /\ UNCHANGED <<schemaVars, users, rosterVars>>

FindForRemove(c) ==
    /\ request[c].op = "findForRemove"
    /\ FindMember(request[c].member, request[c].family)
    /\ Receive(c, [op |-> "delete", member |-> request[c].member])
    /\ UNCHANGED <<schemaVars, users, rosterVars>>

DeleteMembership(c) ==
    /\ request[c].op = "delete"
    /\ DeleteMember(request[c].member)
    /\ Receive(c, Idle)
    /\ UNCHANGED <<schemaVars, users, families>>
=============================================================================
