------------------------------ MODULE Household ------------------------------
(***************************************************************************)
(* Accounts and families at work while server processes come up, on a      *)
(* database that init.sql has set up or on one the first process has to    *)
(* migrate and seed.  As soon as one process serves, clients are served.   *)
(***************************************************************************)
EXTENDS Startup, FamilyGroupService

CONSTANT MaxRequests   \* bound: requests on a database of init.sql, and else

VARIABLE begun   \* requests so far

vars == <<storeVars, startupVars, begun>>

ASSUME MaxRequestsAssumption == MaxRequests \in [BOOLEAN -> Nat]

Init ==
    /\ StartupInit
    /\ request = [c \in Clients |-> Idle]
    /\ begun = 0

IsServed == \E p \in Processes : stage[p] = Serving

(* UserHandler: the user of a profile update comes from the token.         *)
UserRequest(c) ==
    \/ \E phone \in Phones : CheckPhone(c, phone)
    \/ Register(c)
    \/ \E u \in DOMAIN users, input \in ProfileInputs : FindForProfile(c, u, input)
    \/ SaveProfile(c)

(* FamilyGroupHandler: the user comes from the token, the family and the   *)
(* membership from the path, the rest from the body.                       *)
FamilyRequest(c) ==
    \/ \E u \in DOMAIN users :
          \/ CreateFamily(c, u)
          \/ \E family \in DOMAIN families :
                \/ JoinByCode(c, u, family)
                \/ \E invited \in DOMAIN users : InviteMember(c, u, family, invited)
                \/ \E m \in DOMAIN members, role \in Roles : SetMemberRole(c, u, family, m, role)
                \/ \E m \in DOMAIN members : RemoveMember(c, u, family, m)
    \/ FindInvited(c)
    \/ InsertMember(c)
    \/ FindForRole(c)
    \/ ChangeRole(c)
    \/ FindForRemove(c)
    \/ DeleteMembership(c)

Next ==
    \/ \E p \in Processes : (StartStep(p) \/ Crash(p)) /\ UNCHANGED begun
    \/ \E c \in Clients :
          /\ IsServed
          /\ UserRequest(c) \/ FamilyRequest(c) \/ EndRequest(c)
          /\ request[c] = Idle => begun < MaxRequests[byInitSql]
          /\ begun' = IF request[c] = Idle THEN begun + 1 ELSE begun
          /\ UNCHANGED startupVars

Spec == Init /\ [][Next]_vars

(* A process that is not killed goes on; nothing is assumed of clients.    *)
FairSpec == Spec /\ \A p \in Processes : WF_vars(StartStep(p) /\ UNCHANGED begun)

TypeOK == HouseholdTypeOK /\ StartupTypeOK /\ begun \in Nat

-----------------------------------------------------------------------------
(* Accounts.                                                               *)

(* From the unique index on, whoever has registered can log in to his own  *)
(* account, also when registrations of one phone overlap, or a process     *)
(* still migrates and seeds while another one lets people register: the    *)
(* phone leads to his row and to no older one                              *)
(* (user_service.go:32-44, init.sql:4, main.go:117-153).                   *)
LoginReachesOwner ==
    phoneIndex => \A u \in DOMAIN users : Login(users[u].phone, u)

(* What the tokens of a user say of him stays true: his phone and his role *)
(* survive whole rows that are written back late                           *)
(* (user_service.go:88-99, jwt.go:19-32).                                  *)
TokensStayTrue ==
    [][\A u \in DOMAIN users :
          /\ users'[u].phone = users[u].phone
          /\ users'[u].role = users[u].role]_vars

-----------------------------------------------------------------------------
(* Families.                                                               *)

(* Nobody is in a family twice, although inviting and joining look first   *)
(* and insert later, and although joining takes an error of its look for   *)
(* "not a member" (family_group_service.go:92-100, :116-120).              *)
MemberOnce ==
    \A u \in DOMAIN users : \A m, n \in ListByUser(u) :
        members[m].family = members[n].family => m = n

OneMembership == byInitSql => MemberOnce

(* A second joining of a family is refused                                 *)
(* (family_group_service_test.go:46-51).                                   *)
DuplicateJoinRefused == MemberOnce

(* A removed membership does not come back with a role that is set late    *)
(* (family_group_service.go:132-142, :154-164).                            *)
RemovedStaysRemoved ==
    [][\A m \in DOMAIN members : members[m] = Gone => members'[m] = Gone]_vars

(* A family without admin, and without a change of role under way that an  *)
(* admin has begun.                                                        *)
Orphaned(family) ==
    /\ \A m \in DOMAIN members :
          IsRow(m) /\ members[m].family = family => members[m].role # "admin"
    /\ \A c \in Clients :
          /\ request[c].op = "findForRole" => request[c].family # family
          /\ request[c].op = "update" => request[c].row.family # family
    /\ \A p \in Processes :
          stage[p].at = "seeding" /\ stage[p].next = 3 => stage[p].family # family

(* Only an admin makes admins, directly or by a request that he began      *)
(* before he lost the role: an orphaned family stays orphaned              *)
(* (family_group_service.go:128-147, :172-184).                            *)
OrphanStaysOrphan ==
    [][\A family \in DOMAIN families : Orphaned(family) => Orphaned(family)']_vars

-----------------------------------------------------------------------------
(* Startup.                                                                *)

(* However many processes come up on an empty database, and wherever they  *)
(* are killed, no seed is inserted twice (main.go:123-184).                *)
SeededOnce == seeded <= LastSeed

(* In the end every process serves: one that finds its tables or its seeds *)
(* taken by another starts over and is content (main.go:109-127).          *)
EventuallyServes == \A p \in Processes : <>[](stage[p] = Serving)

(* A process that serves has migrated and seeded the database              *)
(* (main.go:107).                                                          *)
ServesComplete ==
    (\E p \in Processes : stage[p] = Serving) => tables = LastTable /\ seeded >= LastSeed
=============================================================================
