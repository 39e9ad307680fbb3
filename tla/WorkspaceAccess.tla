-------------------------- MODULE WorkspaceAccess --------------------------
(***************************************************************************)
(* Who may do what in a workspace: AuthService.register (a new             *)
(* organization and its owner), UsersService (accounts and their roles),   *)
(* RolesService (an organization's own roles) and the seeding and          *)
(* self-healing that every server instance runs when it boots              *)
(* (RbacBootstrapService, reconcileRolelessOwners).                        *)
(*                                                                         *)
(* Permissions are reduced to "manage" (users and roles) and the wildcard. *)
(* Members are numbered in the order of their createdAt.  E-mails, slugs   *)
(* and passwords are left out: a request they make fail is one that stops. *)
(***************************************************************************)
EXTENDS Handlers, Integers, FiniteSets, FiniteSetsExt

CONSTANTS
  MaxMembers,   \* bound: accounts
  Workspaces,   \* ids of organizations, created on demand
  CustomRoles,  \* ids of an organization's own roles, created on demand
  RoleChoices,  \* the role sets that assignments choose from
  LegacyOrg     \* a workspace of the time before roles existed

ASSUME AccessAssumption ==
  /\ MaxMembers \in Nat \ {0, 1} /\ LegacyOrg \in Workspaces
  /\ CustomRoles \cap {"OWNER", "SUPER"} = {} /\ None \notin Workspaces
  /\ RoleChoices \subseteq SUBSET ({"OWNER", "SUPER"} \cup CustomRoles)

SystemRoles == {"OWNER", "SUPER"}
RoleIds == SystemRoles \cup CustomRoles
Permissions == {"manage", "*"}
Members == 1..MaxMembers
WorkspaceOrNone == Workspaces \cup {None}

VARIABLES
  member,     \* [Members -> [state, org, roles, founder, bySuper]]; history: founder, made by
              \* signup and not assigned other roles since; bySuper, its roles were chosen by
              \* a super-admin
  role,       \* [RoleIds -> [state, org, permissions, active]]
  workspace,  \* the organizations created
  accessReq   \* [Requests -> the handler, or the booting instance, in flight]

accessVars == <<member, role, workspace, accessReq>>

NoMember == [state |-> "absent", org |-> None, roles |-> {}, founder |-> FALSE, bySuper |-> FALSE]
NoRole == [state |-> "absent", org |-> None, permissions |-> {}, active |-> FALSE]

\* ROLE_DEFINITIONS, as the upserts write them.
SystemRole(x) ==
  [state |-> "stored", org |-> None, active |-> TRUE,
   permissions |-> IF x = "SUPER" THEN {"*"} ELSE {"manage"}]

\* Account 1 is the platform's super-admin, account 2 was left without roles by an old signup.
AccessInit ==
  /\ member = [u \in Members |->
       IF u = 1 THEN [NoMember EXCEPT !.state = "stored", !.roles = {"SUPER"}, !.bySuper = TRUE]
       ELSE IF u = 2 THEN [NoMember EXCEPT !.state = "stored", !.org = LegacyOrg]
       ELSE NoMember]
  /\ role = [x \in RoleIds |-> IF x = "SUPER" THEN SystemRole(x) ELSE NoRole]
  /\ workspace = {LegacyOrg}
  /\ accessReq = [r \in Requests |-> Idle]

-----------------------------------------------------------------------------
(* Authority *)

StoredMember(u) == member[u].state = "stored"

\* resolveAuthority: removed and inactive roles grant nothing.
Authority(roles) ==
  UNION {role[x].permissions : x \in {y \in roles : role[y].state = "stored" /\ role[y].active}}

IsSuper(actor) == "*" \in Authority(member[actor].roles)

\* The guards of the users and roles endpoints.
MayManage(actor) ==
  StoredMember(actor) /\ Authority(member[actor].roles) \cap Permissions # {}

\* tenantFilter: a super-admin sees every workspace, others their own.
InScope(actor, org) == IsSuper(actor) \/ (member[actor].org # None /\ org = member[actor].org)

\* Mutant: the look-up of a role forgets the workspace.
VisibleRoleAnywhere(actor, x) == role[x].state = "stored"

\* isVisibleTo
VisibleRole(actor, x) ==
  role[x].state = "stored" /\ (x \in SystemRoles \/ InScope(actor, role[x].org))

\* assertRolesVisible
Assignable(actor, roles) ==
  /\ \A x \in roles : VisibleRole(actor, x)
  /\ IsSuper(actor) \/ "*" \notin Authority(roles)

-----------------------------------------------------------------------------
(* Signup *)

BeginSignup(r) ==
  /\ At(accessReq, r, "idle")
  /\ accessReq' = Continue(accessReq, r, [pc |-> "createWorkspace"])
  /\ UNCHANGED <<member, role, workspace>>

CreateWorkspace(r) ==
  /\ At(accessReq, r, "createWorkspace")
  /\ \E o \in Workspaces \ workspace :
       /\ workspace' = workspace \cup {o}
       /\ accessReq' = Continue(accessReq, r, [pc |-> "ensureOwnerRole", org |-> o])
  /\ UNCHANGED <<member, role>>

\* Mutant: the owner role is looked up, not upserted.
EnsureOwnerRoleFound(r) ==
  /\ At(accessReq, r, "ensureOwnerRole")
  /\ accessReq' = Continue(accessReq, r,
       [pc |-> "createMember", org |-> accessReq[r].org,
        roles |-> IF role["OWNER"].state = "stored" THEN {"OWNER"} ELSE {},
        founder |-> TRUE, bySuper |-> FALSE])
  /\ UNCHANGED <<member, role, workspace>>

\* An upsert, then a read of the role, which nothing can remove in between.
EnsureOwnerRole(r) ==
  /\ At(accessReq, r, "ensureOwnerRole")
  /\ role' = [role EXCEPT !["OWNER"] = SystemRole("OWNER")]
  /\ accessReq' = Continue(accessReq, r,
       [pc |-> "createMember", org |-> accessReq[r].org, roles |-> {"OWNER"},
        founder |-> TRUE, bySuper |-> FALSE])
  /\ UNCHANGED <<member, workspace>>

\* UsersService.createUser
CreateMember(r) ==
  LET q == accessReq[r]
      absent == {u \in Members : member[u].state = "absent"}
  IN
  /\ At(accessReq, r, "createMember")
  /\ absent # {}
  /\ member' = [member EXCEPT ![Min(absent)] =
                  [state |-> "stored", org |-> q.org, roles |-> q.roles,
                   founder |-> q.founder, bySuper |-> q.bySuper]]
  /\ accessReq' = Finish(accessReq, r)
  /\ UNCHANGED <<role, workspace>>

-----------------------------------------------------------------------------
(* Accounts and roles, by a member who may manage them *)

\* A super-admin may name the organization; the others' is their own.
InviteMember(r, actor) ==
  /\ At(accessReq, r, "idle")
  /\ MayManage(actor)
  /\ \E roles \in RoleChoices, o \in workspace :
       /\ InScope(actor, o)
       /\ Assignable(actor, roles)
       /\ accessReq' = Continue(accessReq, r,
            [pc |-> "createMember", org |-> o, roles |-> roles,
             founder |-> FALSE, bySuper |-> IsSuper(actor)])
  /\ UNCHANGED <<member, role, workspace>>

AssignRolesRead(r, actor, u) ==
  /\ At(accessReq, r, "idle")
  /\ MayManage(actor)
  /\ StoredMember(u) /\ InScope(actor, member[u].org)
  /\ \E roles \in RoleChoices :
       /\ Assignable(actor, roles)
       /\ accessReq' = Continue(accessReq, r,
            [pc |-> "assignRoles", member |-> u, roles |-> roles, bySuper |-> IsSuper(actor)])
  /\ UNCHANGED <<member, role, workspace>>

\* The write filters by id and workspace, which never change.
AssignRolesWrite(r) ==
  LET q == accessReq[r] IN
  /\ At(accessReq, r, "assignRoles")
  /\ member' = [member EXCEPT ![q.member].roles = q.roles, ![q.member].founder = FALSE,
                              ![q.member].bySuper = q.bySuper]
  /\ accessReq' = Finish(accessReq, r)
  /\ UNCHANGED <<role, workspace>>

RemoveMemberRead(r, actor, u) ==
  /\ At(accessReq, r, "idle")
  /\ MayManage(actor) /\ u # actor
  /\ StoredMember(u) /\ InScope(actor, member[u].org)
  /\ accessReq' = Continue(accessReq, r, [pc |-> "removeMember", member |-> u])
  /\ UNCHANGED <<member, role, workspace>>

RemoveMemberWrite(r) ==
  /\ At(accessReq, r, "removeMember")
  /\ member' = [member EXCEPT ![accessReq[r].member].state = "removed"]
  /\ accessReq' = Finish(accessReq, r)
  /\ UNCHANGED <<role, workspace>>

\* Mutant: the wildcard is let through.
SanitizedLoosely(permissions) == permissions

\* sanitizePermissions, of whatever permissions a request names.
Sanitized(permissions) == permissions \ {"*"}

RequestedPermissions == {Sanitized(permissions) : permissions \in SUBSET Permissions}

\* The checks of RolesService look at what never changes (the workspace, isSystem), so each
\* operation is its write.
CreateRole(actor, x) ==
  /\ MayManage(actor) /\ member[actor].org # None
  /\ role[x].state = "absent"
  /\ \E permissions \in RequestedPermissions :
       role' = [role EXCEPT ![x] = [state |-> "stored", org |-> member[actor].org,
                                    permissions |-> permissions, active |-> TRUE]]
  /\ UNCHANGED <<member, workspace, accessReq>>

UpdateRole(actor, x) ==
  /\ MayManage(actor)
  /\ VisibleRole(actor, x) /\ x \notin SystemRoles
  /\ \E permissions \in RequestedPermissions, active \in BOOLEAN :
       role' = [role EXCEPT ![x].permissions = permissions, ![x].active = active]
  /\ UNCHANGED <<member, workspace, accessReq>>

RemoveRole(actor, x) ==
  /\ MayManage(actor)
  /\ VisibleRole(actor, x) /\ x \notin SystemRoles
  /\ role' = [role EXCEPT ![x].state = "removed"]
  /\ UNCHANGED <<member, workspace, accessReq>>

-----------------------------------------------------------------------------
(* An instance boots *)

Boot(r) ==
  /\ At(accessReq, r, "idle")
  /\ accessReq' = Continue(accessReq, r, [pc |-> "seedRoles", left |-> SystemRoles])
  /\ UNCHANGED <<member, role, workspace>>

\* An unordered bulkWrite of upserts.
SeedRole(r, x) ==
  LET left == accessReq[r].left IN
  /\ At(accessReq, r, "seedRoles")
  /\ x \in left
  /\ role' = [role EXCEPT ![x] = SystemRole(x)]
  /\ accessReq' = Continue(accessReq, r,
       IF left = {x} THEN [pc |-> "readOwned"] ELSE [pc |-> "seedRoles", left |-> left \ {x}])
  /\ UNCHANGED <<member, workspace>>

\* reconcileRolelessOwners reads the workspaces that have an owner, then the roleless accounts.
ReadOwned(r) ==
  /\ At(accessReq, r, "readOwned")
  /\ accessReq' = Continue(accessReq, r,
       [pc |-> "readRoleless",
        owned |-> {member[u].org : u \in {v \in Members : StoredMember(v)
                                                          /\ "OWNER" \in member[v].roles}}])
  /\ UNCHANGED <<member, role, workspace>>

ReadRoleless(r) ==
  /\ At(accessReq, r, "readRoleless")
  /\ accessReq' = Continue(accessReq, r,
       [pc |-> "heal", owned |-> accessReq[r].owned,
        candidates |-> {u \in Members : StoredMember(u) /\ member[u].org # None
                                        /\ member[u].roles = {}}])
  /\ UNCHANGED <<member, role, workspace>>

\* The oldest candidate of a workspace without an owner gets the role; the write is by id.
Heal(r) ==
  LET q == accessReq[r]
      eligible == {u \in q.candidates : member[u].org \notin q.owned}
      u == Min(eligible)
  IN
  /\ At(accessReq, r, "heal")
  /\ IF eligible = {}
       THEN accessReq' = Finish(accessReq, r) /\ UNCHANGED member
       ELSE /\ member' = [member EXCEPT ![u].roles = {"OWNER"}, ![u].bySuper = FALSE]
            /\ accessReq' = Continue(accessReq, r, [q EXCEPT !.owned = @ \cup {member[u].org}])
  /\ UNCHANGED <<role, workspace>>

\* A request or a boot fails or dies; none of them undoes what it wrote.
AccessAbandon(r) ==
  /\ ~At(accessReq, r, "idle")
  /\ accessReq' = Finish(accessReq, r)
  /\ UNCHANGED <<member, role, workspace>>

-----------------------------------------------------------------------------
AccessNext ==
  \/ \E r \in Requests :
       \/ BeginSignup(r) \/ CreateWorkspace(r) \/ EnsureOwnerRole(r) \/ CreateMember(r)
       \/ \E a \in Members :
            \/ InviteMember(r, a)
            \/ \E u \in Members : AssignRolesRead(r, a, u) \/ RemoveMemberRead(r, a, u)
       \/ AssignRolesWrite(r) \/ RemoveMemberWrite(r)
       \/ Boot(r) \/ ReadOwned(r) \/ ReadRoleless(r) \/ Heal(r)
       \/ \E x \in SystemRoles : SeedRole(r, x)
       \/ AccessAbandon(r)
  \/ \E a \in Members, x \in CustomRoles : CreateRole(a, x)
  \/ \E a \in Members, x \in RoleIds : UpdateRole(a, x) \/ RemoveRole(a, x)

AccessSpec == AccessInit /\ [][AccessNext]_accessVars

-----------------------------------------------------------------------------
(* Properties *)

AccessRequest ==
  {Idle}
    \cup [pc : {"createWorkspace", "readOwned"}]
    \cup [pc : {"ensureOwnerRole"}, org : Workspaces]
    \cup [pc : {"createMember"}, org : Workspaces, roles : SUBSET RoleIds,
          founder : BOOLEAN, bySuper : BOOLEAN]
    \cup [pc : {"assignRoles"}, member : Members, roles : SUBSET RoleIds, bySuper : BOOLEAN]
    \cup [pc : {"removeMember"}, member : Members]
    \cup [pc : {"seedRoles"}, left : SUBSET SystemRoles]
    \cup [pc : {"readRoleless"}, owned : SUBSET WorkspaceOrNone]
    \cup [pc : {"heal"}, owned : SUBSET WorkspaceOrNone, candidates : SUBSET Members]

\* Every value has the type its schema gives it (user, role, organization).
AccessTypeOK ==
  /\ member \in [Members -> [state : {"absent", "stored", "removed"}, org : WorkspaceOrNone,
                             roles : SUBSET RoleIds, founder : BOOLEAN, bySuper : BOOLEAN]]
  /\ role \in [RoleIds -> [state : {"absent", "stored", "removed"}, org : WorkspaceOrNone,
                           permissions : SUBSET Permissions, active : BOOLEAN]]
  /\ workspace \subseteq Workspaces
  /\ accessReq \in [Requests -> AccessRequest]

\* "An owner is never created without the owner role" (auth.service.ts:88): whoever signed up
\* can manage the workspace until somebody assigns other roles, whatever roles are seeded,
\* changed or removed meanwhile and whichever instances boot and heal.
FoundersCanWork ==
  \A u \in Members : member[u].founder => "manage" \in Authority(member[u].roles)

\* Full authority comes from a super-admin alone: no sequence of role creations, changes,
\* assignments, invitations and healings gives a member the wildcard otherwise, not even when
\* a role is changed after it was checked and before it is assigned.
WildcardFromSuper ==
  \A u \in Members : "*" \in Authority(member[u].roles) => member[u].bySuper

\* A member's roles are system roles or the member's own workspace's, unless a super-admin
\* chose them: checking the role and the member apart never mixes two workspaces.
RolesOfOwnWorkspace ==
  \A u \in Members : ~member[u].bySuper =>
    \A x \in member[u].roles : x \in SystemRoles \/ role[x].org = member[u].org

=============================================================================
