----------------------- MODULE WorkspaceAccess_proofs -----------------------
(***************************************************************************)
(* Theorems about WorkspaceAccess, for any number of accounts, workspaces, *)
(* roles, requests and booting instances.                                  *)
(*                                                                         *)
(* Roles and members are checked in one query and written in another.  The *)
(* checks stay good because of what never changes: a stored role keeps its *)
(* workspace and a stored account its own, the system roles are only ever  *)
(* written as they are defined, and no request writes the wildcard into    *)
(* another role (AccessPersists, RolesSound).                              *)
(***************************************************************************)
EXTENDS WorkspaceAccess, WellFoundedInduction, TLAPS

MemberDoc == [state : {"absent", "stored", "removed"}, org : WorkspaceOrNone,
              roles : SUBSET RoleIds, founder : BOOLEAN, bySuper : BOOLEAN]
RoleDoc == [state : {"absent", "stored", "removed"}, org : WorkspaceOrNone,
            permissions : SUBSET Permissions, active : BOOLEAN]

\* The super-admin's role is as defined, and alone has the wildcard.
RolesSound(ro) ==
  /\ ro["SUPER"] = SystemRole("SUPER")
  /\ \A x \in RoleIds : "*" \in ro[x].permissions => x = "SUPER"

\* What anyone but a super-admin can give: roles of the workspace, of those that exist.
Granted(ro, org, roles, bySuper) ==
  ~bySuper => /\ "SUPER" \notin roles
              /\ \A x \in roles : \/ x \in SystemRoles
                                  \/ ro[x].state # "absent" /\ ro[x].org = org

\* A founder has the owner role, which has been defined.
Founded(ro, roles, founder) ==
  founder => "OWNER" \in roles /\ ro["OWNER"] = SystemRole("OWNER")

MemberSound(ro, d) ==
  /\ Granted(ro, d.org, d.roles, d.bySuper)
  /\ Founded(ro, d.roles, d.founder)

\* What a request q carries, over the members m and roles ro.
AccessCarries(m, ro, q) ==
  /\ q.pc = "createMember" => MemberSound(ro, q)
  /\ q.pc = "assignRoles" => /\ m[q.member].state # "absent"
                             /\ Granted(ro, m[q.member].org, q.roles, q.bySuper)
  /\ q.pc = "removeMember" => m[q.member].state # "absent"
  /\ q.pc = "heal" => \A u \in q.candidates : m[u].state # "absent"

\* The inductive invariant.
AccessInv ==
  /\ member \in [Members -> MemberDoc]
  /\ role \in [RoleIds -> RoleDoc]
  /\ workspace \subseteq Workspaces
  /\ accessReq \in [Requests -> AccessRequest]
  /\ RolesSound(role)
  /\ \A u \in Members : MemberSound(role, member[u])
  /\ \A r \in Requests : AccessCarries(member, role, accessReq[r])

\* What no step changes.
AccessPersists(m, ro, m2, ro2) ==
  /\ \A u \in Members : m[u].state # "absent" =>
       m2[u].state # "absent" /\ m2[u].org = m[u].org
  /\ \A x \in CustomRoles : ro[x].state # "absent" =>
       ro2[x].state # "absent" /\ ro2[x].org = ro[x].org
  /\ ro["OWNER"] = SystemRole("OWNER") => ro2["OWNER"] = SystemRole("OWNER")

-----------------------------------------------------------------------------
(* The least of a set of accounts, which Min chooses, is one of them *)

LEMMA MinChooses ==
  ASSUME NEW S, S \subseteq Nat, S # {}
  PROVE  Min(S) \in S
<1> DEFINE R == {ss \in Nat \X Nat : ss[1] < ss[2]}
<1>1. IsWellFoundedOn(R, Nat)
  BY NatLessThanWellFounded DEF OpToRel
<1> HIDE DEF R
<1>2. PICK x \in S : \A y \in S : ~(<<y, x>> \in R)
  BY <1>1, WFMin
<1>3. \A y \in S : x <= y
  <2> TAKE y \in S
  <2>1. y < x => <<y, x>> \in R
    BY DEF R
  <2>2. QED
    BY <1>2, <2>1
<1>4. QED
  BY <1>3 DEF Min

-----------------------------------------------------------------------------
(* What persists keeps what is granted and carried *)

LEMMA RoleSets ==
  /\ RoleIds = {"OWNER", "SUPER"} \cup CustomRoles /\ SystemRoles = {"OWNER", "SUPER"}
  /\ {"OWNER", "SUPER"} \cap CustomRoles = {}
  BY AccessAssumption DEF RoleIds, SystemRoles

LEMMA GrantedOn ==
  ASSUME NEW m, NEW ro, NEW m2, NEW ro2, AccessPersists(m, ro, m2, ro2),
         NEW org, NEW roles \in SUBSET RoleIds, NEW bySuper, Granted(ro, org, roles, bySuper)
  PROVE  Granted(ro2, org, roles, bySuper)
  BY RoleSets DEF AccessPersists, Granted

LEMMA FoundedOn ==
  ASSUME NEW m, NEW ro, NEW m2, NEW ro2, AccessPersists(m, ro, m2, ro2),
         NEW roles, NEW founder, Founded(ro, roles, founder)
  PROVE  Founded(ro2, roles, founder)
  BY DEF AccessPersists, Founded

\* The fields of a request, by the point it has reached.
LEMMA AccessRequestFields ==
  ASSUME NEW q \in AccessRequest
  PROVE  /\ q.pc = "ensureOwnerRole" => q.org \in Workspaces
         /\ q.pc = "createMember" => /\ q.org \in Workspaces /\ q.roles \in SUBSET RoleIds
                                     /\ q.founder \in BOOLEAN /\ q.bySuper \in BOOLEAN
         /\ q.pc = "assignRoles" => /\ q.member \in Members /\ q.roles \in SUBSET RoleIds
                                    /\ q.bySuper \in BOOLEAN
         /\ q.pc = "removeMember" => q.member \in Members
         /\ q.pc = "seedRoles" => q.left \in SUBSET SystemRoles
         /\ q.pc = "readRoleless" => q.owned \in SUBSET WorkspaceOrNone
         /\ q.pc = "heal" => /\ q.owned \in SUBSET WorkspaceOrNone
                             /\ q.candidates \in SUBSET Members
  BY DEF AccessRequest, Idle

LEMMA AccessRequested ==
  /\ Idle \in AccessRequest
  /\ \A x \in {"createWorkspace", "readOwned"} : [pc |-> x] \in AccessRequest
  /\ \A o \in Workspaces : [pc |-> "ensureOwnerRole", org |-> o] \in AccessRequest
  /\ \A o \in Workspaces, s \in SUBSET RoleIds, f \in BOOLEAN, b \in BOOLEAN :
       [pc |-> "createMember", org |-> o, roles |-> s, founder |-> f, bySuper |-> b]
         \in AccessRequest
  /\ \A u \in Members, s \in SUBSET RoleIds, b \in BOOLEAN :
       [pc |-> "assignRoles", member |-> u, roles |-> s, bySuper |-> b] \in AccessRequest
  /\ \A u \in Members : [pc |-> "removeMember", member |-> u] \in AccessRequest
  /\ \A s \in SUBSET SystemRoles : [pc |-> "seedRoles", left |-> s] \in AccessRequest
  /\ \A w \in SUBSET WorkspaceOrNone : [pc |-> "readRoleless", owned |-> w] \in AccessRequest
  /\ \A w \in SUBSET WorkspaceOrNone, c \in SUBSET Members :
       [pc |-> "heal", owned |-> w, candidates |-> c] \in AccessRequest
  BY DEF AccessRequest, Idle

LEMMA AccessCarriesOn ==
  ASSUME NEW m, NEW ro, NEW m2, NEW ro2, AccessPersists(m, ro, m2, ro2),
         NEW q \in AccessRequest, AccessCarries(m, ro, q)
  PROVE  AccessCarries(m2, ro2, q)
<1>1. q.pc = "createMember" => MemberSound(ro2, q)
  BY AccessRequestFields, GrantedOn, FoundedOn DEF AccessCarries, MemberSound
<1>2. q.pc = "assignRoles" => /\ m2[q.member].state # "absent"
                              /\ Granted(ro2, m2[q.member].org, q.roles, q.bySuper)
  <2> SUFFICES ASSUME q.pc = "assignRoles"
               PROVE  /\ m2[q.member].state # "absent"
                      /\ Granted(ro2, m2[q.member].org, q.roles, q.bySuper)
    OBVIOUS
  <2>1. /\ q.member \in Members /\ q.roles \in SUBSET RoleIds
        /\ m[q.member].state # "absent" /\ Granted(ro, m[q.member].org, q.roles, q.bySuper)
    BY AccessRequestFields DEF AccessCarries
  <2>2. m2[q.member].state # "absent" /\ m2[q.member].org = m[q.member].org
    BY <2>1 DEF AccessPersists
  <2>3. Granted(ro2, m[q.member].org, q.roles, q.bySuper)
    BY <2>1, GrantedOn
  <2>4. QED
    BY <2>2, <2>3
<1>3. /\ q.pc = "removeMember" => m2[q.member].state # "absent"
      /\ q.pc = "heal" => \A u \in q.candidates : m2[u].state # "absent"
  BY AccessRequestFields DEF AccessCarries, AccessPersists
<1>4. QED
  BY <1>1, <1>2, <1>3 DEF AccessCarries

\* The one argument behind every step: documents stay sound, what persists persists, and the
\* request that moves carries what it should.
LEMMA AccessStepSound ==
  ASSUME AccessInv, NEW r \in Requests, NEW next \in AccessRequest,
         accessReq' = Continue(accessReq, r, next),
         member' \in [Members -> MemberDoc], role' \in [RoleIds -> RoleDoc],
         workspace' \subseteq Workspaces, RolesSound(role'),
         \A u \in Members : MemberSound(role', member'[u]),
         AccessPersists(member, role, member', role'), AccessCarries(member', role', next)
  PROVE  AccessInv'
<1>1. \A x \in Requests : /\ accessReq'[x] \in AccessRequest
                           /\ AccessCarries(member', role', accessReq'[x])
  <2> TAKE x \in Requests
  <2>1. CASE x = r
    BY <2>1 DEF AccessInv, Continue
  <2>2. CASE x # r
    <3>1. PICK q \in AccessRequest : /\ q = accessReq[x] /\ q = accessReq'[x]
                                     /\ AccessCarries(member, role, q)
      BY <2>2 DEF AccessInv, Continue
    <3>2. QED
      BY <3>1, AccessCarriesOn
  <2>3. QED
    BY <2>1, <2>2
<1>2. accessReq' \in [Requests -> AccessRequest]
  BY DEF AccessInv, Continue
<1>3. QED
  BY <1>1, <1>2 DEF AccessInv

LEMMA PersistsItself == \A m, ro : AccessPersists(m, ro, m, ro)
  BY DEF AccessPersists

\* Steps that only move a request.
LEMMA AccessStepMoves ==
  ASSUME AccessInv, NEW r \in Requests, NEW next \in AccessRequest,
         accessReq' = Continue(accessReq, r, next), member' = member, role' = role,
         workspace' \subseteq Workspaces, AccessCarries(member, role, next)
  PROVE  AccessInv'
<1>1. /\ member' \in [Members -> MemberDoc] /\ role' \in [RoleIds -> RoleDoc]
      /\ RolesSound(role') /\ \A u \in Members : MemberSound(role', member'[u])
      /\ AccessPersists(member, role, member', role') /\ AccessCarries(member', role', next)
  BY PersistsItself DEF AccessInv
<1>2. QED
  BY <1>1, AccessStepSound

LEMMA InitAccessInv == AccessInit => AccessInv
<1> SUFFICES ASSUME AccessInit PROVE AccessInv
  OBVIOUS
<1>1. /\ NoMember \in MemberDoc /\ NoRole \in RoleDoc
      /\ \A x \in SystemRoles : SystemRole(x) \in RoleDoc
      /\ "SUPER" \in RoleIds /\ LegacyOrg \in WorkspaceOrNone
  BY AccessAssumption, RoleSets
  DEF NoMember, NoRole, SystemRole, MemberDoc, RoleDoc, WorkspaceOrNone, Permissions
<1>2. /\ member \in [Members -> MemberDoc]
      /\ \A u \in Members : /\ ~member[u].founder
                            /\ member[u].bySuper \/ member[u].roles = {}
  BY <1>1 DEF AccessInit, MemberDoc, NoMember
<1>3. role \in [RoleIds -> RoleDoc] /\ RolesSound(role)
  BY <1>1, RoleSets DEF AccessInit, RolesSound, NoRole, SystemRole
<1>4. \A u \in Members : MemberSound(role, member[u])
  BY <1>2 DEF MemberSound, Granted, Founded
<1>5. /\ workspace \subseteq Workspaces
      /\ accessReq \in [Requests -> AccessRequest]
      /\ \A r \in Requests : AccessCarries(member, role, accessReq[r])
  BY AccessAssumption, AccessRequested DEF AccessInit, AccessCarries, Idle
<1>6. QED
  BY <1>2, <1>3, <1>4, <1>5 DEF AccessInv

-----------------------------------------------------------------------------
(* What the checks establish *)

\* The wildcard comes with the super-admin's role alone, and always with it.
LEMMA WildcardIsSuper ==
  ASSUME role \in [RoleIds -> RoleDoc], RolesSound(role), NEW roles \in SUBSET RoleIds
  PROVE  "*" \in Authority(roles) <=> "SUPER" \in roles
<1>1. role["SUPER"].state = "stored" /\ role["SUPER"].active /\ "*" \in role["SUPER"].permissions
  BY DEF RolesSound, SystemRole
<1>2. "SUPER" \in roles => "*" \in Authority(roles)
  BY <1>1 DEF Authority
<1>3. "*" \in Authority(roles) => "SUPER" \in roles
  BY DEF Authority, RolesSound
<1>4. QED
  BY <1>2, <1>3

\* Roles that passed assertRolesVisible, for a workspace in the actor's scope.
LEMMA AssignableGranted ==
  ASSUME AccessInv, NEW actor \in Members, NEW roles \in RoleChoices, Assignable(actor, roles),
         NEW org, InScope(actor, org)
  PROVE  roles \in SUBSET RoleIds /\ Granted(role, org, roles, IsSuper(actor))
<1>1. roles \in SUBSET RoleIds
  BY AccessAssumption DEF RoleIds, SystemRoles
<1>2. SUFFICES ASSUME ~IsSuper(actor)
               PROVE  /\ "SUPER" \notin roles
                      /\ \A x \in roles : \/ x \in SystemRoles
                                          \/ role[x].state # "absent" /\ role[x].org = org
  BY <1>1 DEF Granted
<1>3. "SUPER" \notin roles
  BY <1>1, <1>2, WildcardIsSuper DEF Assignable, AccessInv
<1>4. \A x \in roles : x \in SystemRoles \/ (role[x].state # "absent" /\ role[x].org = org)
  BY <1>2 DEF Assignable, VisibleRole, InScope
<1>5. QED
  BY <1>3, <1>4

-----------------------------------------------------------------------------
(* Signup *)

LEMMA StepSignup ==
  ASSUME AccessInv, NEW r \in Requests, BeginSignup(r) \/ CreateWorkspace(r)
  PROVE  AccessInv'
<1>1. CASE BeginSignup(r)
  <2>1. [pc |-> "createWorkspace"] \in AccessRequest
    BY AccessRequested
  <2>2. QED
    BY <1>1, <2>1, AccessStepMoves DEF BeginSignup, AccessCarries, AccessInv
<1>2. CASE CreateWorkspace(r)
  <2>1. PICK o \in Workspaces :
          /\ workspace' = workspace \cup {o}
          /\ accessReq' = Continue(accessReq, r, [pc |-> "ensureOwnerRole", org |-> o])
    BY <1>2 DEF CreateWorkspace
  <2>2. [pc |-> "ensureOwnerRole", org |-> o] \in AccessRequest
    BY AccessRequested
  <2>3. QED
    BY <1>2, <2>1, <2>2, AccessStepMoves DEF CreateWorkspace, AccessCarries, AccessInv
<1>3. QED
  BY <1>1, <1>2

\* A system role is written as it is defined, whatever it was.
LEMMA SystemRoleWritten ==
  ASSUME AccessInv, NEW x \in SystemRoles, role' = [role EXCEPT ![x] = SystemRole(x)],
         member' = member
  PROVE  /\ role' \in [RoleIds -> RoleDoc] /\ RolesSound(role')
         /\ AccessPersists(member, role, member', role')
         /\ \A u \in Members : MemberSound(role', member'[u])
         /\ role'[x] = SystemRole(x)
<1>1. SystemRole(x) \in RoleDoc /\ x \in RoleIds
  BY RoleSets DEF SystemRole, RoleDoc, WorkspaceOrNone, Permissions
<1>2. /\ role' \in [RoleIds -> RoleDoc] /\ role'[x] = SystemRole(x)
      /\ \A y \in RoleIds \ {x} : role'[y] = role[y]
  BY <1>1 DEF AccessInv
<1>3. RolesSound(role')
  BY <1>1, <1>2, RoleSets DEF AccessInv, RolesSound, SystemRole
<1>4. AccessPersists(member, role, member', role')
  BY <1>2, RoleSets DEF AccessPersists
<1>5. \A u \in Members : MemberSound(role', member'[u])
  <2> TAKE u \in Members
  <2>1. member[u].roles \in SUBSET RoleIds /\ MemberSound(role, member[u])
    BY DEF AccessInv, MemberDoc
  <2>2. QED
    BY <1>4, <2>1, GrantedOn, FoundedOn DEF MemberSound
<1>6. QED
  BY <1>2, <1>3, <1>4, <1>5

LEMMA StepEnsureOwnerRole ==
  ASSUME AccessInv, NEW r \in Requests, EnsureOwnerRole(r)
  PROVE  AccessInv'
<1> DEFINE next == [pc |-> "createMember", org |-> accessReq[r].org, roles |-> {"OWNER"},
                    founder |-> TRUE, bySuper |-> FALSE]
<1>1. accessReq[r].org \in Workspaces
  BY AccessRequestFields DEF AccessInv, EnsureOwnerRole, At
<1>2. next \in AccessRequest
  BY <1>1, AccessRequested, RoleSets
<1>3. /\ role' \in [RoleIds -> RoleDoc] /\ RolesSound(role')
      /\ AccessPersists(member, role, member', role')
      /\ \A u \in Members : MemberSound(role', member'[u])
      /\ role'["OWNER"] = SystemRole("OWNER")
  BY RoleSets, SystemRoleWritten DEF EnsureOwnerRole
<1>4. AccessCarries(member', role', next)
  BY <1>3, RoleSets DEF AccessCarries, MemberSound, Granted, Founded
<1>5. QED
  BY <1>2, <1>3, <1>4, AccessStepSound DEF EnsureOwnerRole, AccessInv

\* The account is written where there is none, so nothing rests on what was there.
LEMMA StepCreateMember ==
  ASSUME AccessInv, NEW r \in Requests, CreateMember(r)
  PROVE  AccessInv'
<1> DEFINE absent == {u \in Members : member[u].state = "absent"}
<1>1. PICK q \in AccessRequest : q = accessReq[r] /\ q.pc = "createMember"
  BY DEF AccessInv, CreateMember, At
<1>2. PICK new \in Members : new = Min(absent) /\ member[new].state = "absent"
  <2>1. absent \subseteq Nat /\ absent # {}
    BY DEF CreateMember, Members
  <2>2. Min(absent) \in absent
    BY <2>1, MinChooses
  <2>3. QED
    BY <2>2
<1>3. PICK d : d = [state |-> "stored", org |-> q.org, roles |-> q.roles,
                    founder |-> q.founder, bySuper |-> q.bySuper]
  OBVIOUS
<1>4. /\ member' = [member EXCEPT ![new] = d] /\ role' = role /\ workspace' = workspace
      /\ accessReq' = Continue(accessReq, r, Idle)
  BY <1>1, <1>2, <1>3 DEF CreateMember, Finish
<1>5. d \in MemberDoc /\ d.state # "absent"
  BY <1>1, <1>3, AccessRequestFields DEF MemberDoc, WorkspaceOrNone
<1>6. MemberSound(role, d)
  BY <1>1, <1>3 DEF AccessInv, AccessCarries, MemberSound
<1>7. /\ member' \in [Members -> MemberDoc]
      /\ \A u \in Members : MemberSound(role', member'[u])
      /\ AccessPersists(member, role, member', role')
  BY <1>2, <1>4, <1>5, <1>6 DEF AccessInv, AccessPersists
<1>8. AccessCarries(member', role', Idle)
  BY DEF AccessCarries, Idle
<1>9. QED
  BY <1>4, <1>7, <1>8, AccessRequested, AccessStepSound DEF AccessInv

-----------------------------------------------------------------------------
(* Accounts *)

LEMMA StepInviteMember ==
  ASSUME AccessInv, NEW r \in Requests, NEW actor \in Members, InviteMember(r, actor)
  PROVE  AccessInv'
<1>1. PICK roles \in RoleChoices, o \in workspace :
        /\ InScope(actor, o) /\ Assignable(actor, roles)
        /\ accessReq' = Continue(accessReq, r,
             [pc |-> "createMember", org |-> o, roles |-> roles,
              founder |-> FALSE, bySuper |-> IsSuper(actor)])
  BY DEF InviteMember
<1>2. PICK b \in BOOLEAN : b = IsSuper(actor)
  <2>1. IsSuper(actor) \in BOOLEAN
    BY SMT DEF IsSuper
  <2>2. QED
    BY <2>1, Zenon
<1>3. roles \in SUBSET RoleIds /\ Granted(role, o, roles, b) /\ o \in Workspaces
  BY <1>1, <1>2, AssignableGranted DEF AccessInv
<1>4. PICK next \in AccessRequest :
        next = [pc |-> "createMember", org |-> o, roles |-> roles, founder |-> FALSE, bySuper |-> b]
  BY <1>3, AccessRequested
<1>5. AccessCarries(member, role, next)
  BY <1>3, <1>4 DEF AccessCarries, MemberSound, Founded
<1>6. accessReq' = Continue(accessReq, r, next)
  <2>1. [pc |-> "createMember", org |-> o, roles |-> roles,
         founder |-> FALSE, bySuper |-> IsSuper(actor)] = next
    BY <1>2, <1>4, Zenon
  <2>2. QED
    BY <1>1, <2>1, Zenon
<1>7. QED
  BY <1>5, <1>6, AccessStepMoves DEF InviteMember, AccessInv

LEMMA StepAssignRolesRead ==
  ASSUME AccessInv, NEW r \in Requests, NEW actor \in Members, NEW u \in Members,
         AssignRolesRead(r, actor, u)
  PROVE  AccessInv'
<1>1. PICK roles \in RoleChoices :
        /\ Assignable(actor, roles)
        /\ accessReq' = Continue(accessReq, r,
             [pc |-> "assignRoles", member |-> u, roles |-> roles, bySuper |-> IsSuper(actor)])
  BY DEF AssignRolesRead
<1>2. PICK b \in BOOLEAN : b = IsSuper(actor)
  <2>1. IsSuper(actor) \in BOOLEAN
    BY SMT DEF IsSuper
  <2>2. QED
    BY <2>1, Zenon
<1>3. roles \in SUBSET RoleIds /\ Granted(role, member[u].org, roles, b)
  BY <1>1, <1>2, AssignableGranted DEF AssignRolesRead
<1>4. PICK next \in AccessRequest :
        next = [pc |-> "assignRoles", member |-> u, roles |-> roles, bySuper |-> b]
  BY <1>3, AccessRequested
<1>5. AccessCarries(member, role, next)
  BY <1>3, <1>4 DEF AccessCarries, AssignRolesRead, StoredMember
<1>6. accessReq' = Continue(accessReq, r, next)
  <2>1. [pc |-> "assignRoles", member |-> u, roles |-> roles, bySuper |-> IsSuper(actor)] = next
    BY <1>2, <1>4, Zenon
  <2>2. QED
    BY <1>1, <2>1, Zenon
<1>7. QED
  BY <1>5, <1>6, AccessStepMoves DEF AssignRolesRead, AccessInv

LEMMA StepAssignRolesWrite ==
  ASSUME AccessInv, NEW r \in Requests, AssignRolesWrite(r)
  PROVE  AccessInv'
<1>1. PICK q \in AccessRequest : q = accessReq[r] /\ q.pc = "assignRoles"
  BY DEF AccessInv, AssignRolesWrite, At
<1>2. /\ q.member \in Members /\ q.roles \in SUBSET RoleIds /\ q.bySuper \in BOOLEAN
      /\ member[q.member].state # "absent"
      /\ Granted(role, member[q.member].org, q.roles, q.bySuper)
  BY <1>1, AccessRequestFields DEF AccessInv, AccessCarries
<1>3. PICK d : d = [member[q.member] EXCEPT !.roles = q.roles, !.founder = FALSE,
                                            !.bySuper = q.bySuper]
  OBVIOUS
<1>4. /\ d \in MemberDoc /\ d.org = member[q.member].org /\ d.state = member[q.member].state
      /\ d.roles = q.roles /\ d.founder = FALSE /\ d.bySuper = q.bySuper
  <2>1. member[q.member] \in MemberDoc
    BY <1>2 DEF AccessInv
  <2>2. d \in MemberDoc
    BY <1>2, <1>3, <2>1 DEF MemberDoc
  <2>3. /\ d.org = member[q.member].org /\ d.state = member[q.member].state
        /\ d.roles = q.roles /\ d.founder = FALSE /\ d.bySuper = q.bySuper
    BY <1>3, <2>1 DEF MemberDoc
  <2>4. QED
    BY <2>2, <2>3
<1>5. /\ member' = [member EXCEPT ![q.member] = d] /\ role' = role /\ workspace' = workspace
      /\ accessReq' = Continue(accessReq, r, Idle)
  <2>1. member' = [member EXCEPT ![q.member].roles = q.roles, ![q.member].founder = FALSE,
                                 ![q.member].bySuper = q.bySuper]
    BY <1>1 DEF AssignRolesWrite
  <2>2. member' = [member EXCEPT ![q.member] = d]
    BY <1>2, <1>3, <2>1 DEF AccessInv
  <2>3. QED
    BY <1>1, <2>2 DEF AssignRolesWrite, Finish
<1>6. /\ member' \in [Members -> MemberDoc]
      /\ \A u \in Members : MemberSound(role', member'[u])
      /\ AccessPersists(member, role, member', role')
  BY <1>2, <1>4, <1>5 DEF AccessInv, AccessPersists, MemberSound, Founded
<1>7. AccessCarries(member', role', Idle)
  BY DEF AccessCarries, Idle
<1>8. QED
  BY <1>5, <1>6, <1>7, AccessRequested, AccessStepSound DEF AccessInv

LEMMA StepRemoveMember ==
  ASSUME AccessInv, NEW r \in Requests,
         \/ \E a \in Members, u \in Members : RemoveMemberRead(r, a, u)
         \/ RemoveMemberWrite(r)
  PROVE  AccessInv'
<1>1. ASSUME NEW a \in Members, NEW u \in Members, RemoveMemberRead(r, a, u) PROVE AccessInv'
  <2>1. [pc |-> "removeMember", member |-> u] \in AccessRequest
    BY AccessRequested
  <2>2. AccessCarries(member, role, [pc |-> "removeMember", member |-> u])
    BY <1>1 DEF AccessCarries, RemoveMemberRead, StoredMember
  <2>3. QED
    BY <1>1, <2>1, <2>2, AccessStepMoves DEF RemoveMemberRead, AccessInv
<1>2. CASE RemoveMemberWrite(r)
  <2>1. PICK q \in AccessRequest : q = accessReq[r] /\ q.pc = "removeMember"
    BY <1>2 DEF AccessInv, RemoveMemberWrite, At
  <2>2. q.member \in Members
    BY <2>1, AccessRequestFields
  <2>3. PICK d : d = [member[q.member] EXCEPT !.state = "removed"]
    OBVIOUS
  <2>4. /\ d \in MemberDoc /\ d.org = member[q.member].org /\ d.state = "removed"
        /\ d.roles = member[q.member].roles /\ d.founder = member[q.member].founder
        /\ d.bySuper = member[q.member].bySuper
    BY <2>2, <2>3 DEF AccessInv, MemberDoc
  <2>5. /\ member' = [member EXCEPT ![q.member] = d] /\ role' = role /\ workspace' = workspace
        /\ accessReq' = Continue(accessReq, r, Idle)
    BY <1>2, <2>1, <2>2, <2>3 DEF RemoveMemberWrite, Finish, AccessInv
  <2>6. /\ member' \in [Members -> MemberDoc]
        /\ \A u \in Members : MemberSound(role', member'[u])
        /\ AccessPersists(member, role, member', role')
    BY <2>2, <2>4, <2>5 DEF AccessInv, AccessPersists, MemberSound
  <2>7. AccessCarries(member', role', Idle)
    BY DEF AccessCarries, Idle
  <2>8. QED
    BY <2>5, <2>6, <2>7, AccessRequested, AccessStepSound DEF AccessInv
<1>3. QED
  BY <1>1, <1>2

-----------------------------------------------------------------------------
(* Roles of an organization, written without a request being under way *)

LEMMA StepRoles ==
  ASSUME AccessInv, member' = member, workspace' = workspace, accessReq' = accessReq,
         role' \in [RoleIds -> RoleDoc], RolesSound(role'),
         AccessPersists(member, role, member', role')
  PROVE  AccessInv'
<1>1. \A u \in Members : MemberSound(role', member'[u])
  <2> TAKE u \in Members
  <2>1. member[u].roles \in SUBSET RoleIds /\ MemberSound(role, member[u])
    BY DEF AccessInv, MemberDoc
  <2>2. QED
    BY <2>1, GrantedOn, FoundedOn DEF MemberSound
<1>2. \A r \in Requests : AccessCarries(member', role', accessReq'[r])
  <2> TAKE r \in Requests
  <2>1. PICK q \in AccessRequest : q = accessReq[r] /\ AccessCarries(member, role, q)
    BY DEF AccessInv
  <2>2. QED
    BY <2>1, AccessCarriesOn
<1>3. QED
  BY <1>1, <1>2 DEF AccessInv

\* What RolesService writes at an organization's own role, whatever was there.
LEMMA OwnRoleWritten ==
  ASSUME AccessInv, NEW x \in CustomRoles, NEW d \in RoleDoc, role' = [role EXCEPT ![x] = d],
         member' = member, workspace' = workspace, accessReq' = accessReq,
         "*" \notin d.permissions,
         role[x].state # "absent" => d.state # "absent" /\ d.org = role[x].org
  PROVE  AccessInv'
<1>1. /\ role' \in [RoleIds -> RoleDoc] /\ role'[x] = d
      /\ \A y \in RoleIds \ {x} : role'[y] = role[y]
      /\ x \notin SystemRoles
  BY RoleSets DEF AccessInv
<1>2. RolesSound(role')
  BY <1>1, RoleSets DEF AccessInv, RolesSound
<1>3. AccessPersists(member, role, member', role')
  BY <1>1, RoleSets DEF AccessPersists
<1>4. QED
  BY <1>1, <1>2, <1>3, StepRoles

LEMMA SanitizedPermissions ==
  ASSUME NEW permissions \in RequestedPermissions
  PROVE  permissions \in SUBSET Permissions /\ "*" \notin permissions
  BY DEF RequestedPermissions, Sanitized

LEMMA StepCreateRole ==
  ASSUME AccessInv, NEW actor \in Members, NEW x \in CustomRoles, CreateRole(actor, x)
  PROVE  AccessInv'
<1>1. PICK permissions \in RequestedPermissions :
        role' = [role EXCEPT ![x] = [state |-> "stored", org |-> member[actor].org,
                                     permissions |-> permissions, active |-> TRUE]]
  BY DEF CreateRole
<1>2. PICK d : d = [state |-> "stored", org |-> member[actor].org,
                    permissions |-> permissions, active |-> TRUE]
  OBVIOUS
<1>3. member[actor].org \in WorkspaceOrNone
  BY DEF AccessInv, MemberDoc
<1>4. d \in RoleDoc /\ "*" \notin d.permissions
  BY <1>2, <1>3, SanitizedPermissions DEF RoleDoc
<1>5. role' = [role EXCEPT ![x] = d] /\ role[x].state = "absent"
  BY <1>1, <1>2 DEF CreateRole
<1>6. member' = member /\ workspace' = workspace /\ accessReq' = accessReq
  BY DEF CreateRole
<1>7. QED
  BY <1>4, <1>5, <1>6, OwnRoleWritten

LEMMA StepUpdateRole ==
  ASSUME AccessInv, NEW actor \in Members, NEW x \in RoleIds,
         UpdateRole(actor, x) \/ RemoveRole(actor, x)
  PROVE  AccessInv'
<1>1. /\ x \in CustomRoles /\ role[x] \in RoleDoc /\ role[x].state = "stored"
      /\ "*" \notin role[x].permissions
      /\ member' = member /\ workspace' = workspace /\ accessReq' = accessReq
  BY RoleSets DEF UpdateRole, RemoveRole, VisibleRole, AccessInv, RolesSound
<1>2. CASE UpdateRole(actor, x)
  <2>1. PICK permissions \in RequestedPermissions, active \in BOOLEAN :
          role' = [role EXCEPT ![x].permissions = permissions, ![x].active = active]
    BY <1>2 DEF UpdateRole
  <2>2. PICK d : d = [role[x] EXCEPT !.permissions = permissions, !.active = active]
    OBVIOUS
  <2>3. d \in RoleDoc /\ "*" \notin d.permissions /\ d.state = "stored" /\ d.org = role[x].org
    BY <1>1, <2>2, SanitizedPermissions DEF RoleDoc
  <2>4. role' = [role EXCEPT ![x] = d]
    BY <2>1, <2>2 DEF AccessInv
  <2>5. QED
    BY <1>1, <2>3, <2>4, OwnRoleWritten
<1>3. CASE RemoveRole(actor, x)
  <2>1. PICK d : d = [role[x] EXCEPT !.state = "removed"]
    OBVIOUS
  <2>2. d \in RoleDoc /\ "*" \notin d.permissions /\ d.state = "removed" /\ d.org = role[x].org
    BY <1>1, <2>1 DEF RoleDoc
  <2>3. role' = [role EXCEPT ![x] = d]
    BY <1>3, <2>1 DEF RemoveRole, AccessInv
  <2>4. QED
    BY <1>1, <2>2, <2>3, OwnRoleWritten
<1>4. QED
  BY <1>2, <1>3

-----------------------------------------------------------------------------
(* Instances that boot *)

LEMMA StepSeedRole ==
  ASSUME AccessInv, NEW r \in Requests, NEW x \in SystemRoles, SeedRole(r, x)
  PROVE  AccessInv'
<1>1. PICK q \in AccessRequest : q = accessReq[r] /\ q.pc = "seedRoles"
  BY DEF AccessInv, SeedRole, At
<1>2. q.left \in SUBSET SystemRoles
  BY <1>1, AccessRequestFields
<1>3. PICK next \in AccessRequest :
        /\ accessReq' = Continue(accessReq, r, next)
        /\ next.pc \in {"readOwned", "seedRoles"}
  <2>1. [pc |-> "readOwned"] \in AccessRequest
        /\ [pc |-> "seedRoles", left |-> q.left \ {x}] \in AccessRequest
    BY <1>2, AccessRequested
  <2>2. \/ accessReq' = Continue(accessReq, r, [pc |-> "readOwned"])
        \/ accessReq' = Continue(accessReq, r, [pc |-> "seedRoles", left |-> q.left \ {x}])
    BY <1>1 DEF SeedRole
  <2>3. QED
    BY <2>1, <2>2
<1>4. /\ role' \in [RoleIds -> RoleDoc] /\ RolesSound(role')
      /\ AccessPersists(member, role, member', role')
      /\ \A u \in Members : MemberSound(role', member'[u])
  BY SystemRoleWritten DEF SeedRole
<1>5. AccessCarries(member', role', next)
  BY <1>3 DEF AccessCarries
<1>6. QED
  BY <1>3, <1>4, <1>5, AccessStepSound DEF SeedRole, AccessInv

\* The reads of a boot.
LEMMA StepBootReads ==
  ASSUME AccessInv, NEW r \in Requests, Boot(r) \/ ReadOwned(r) \/ ReadRoleless(r)
  PROVE  AccessInv'
<1>1. CASE Boot(r)
  <2>1. [pc |-> "seedRoles", left |-> SystemRoles] \in AccessRequest
    BY AccessRequested
  <2>2. QED
    BY <1>1, <2>1, AccessStepMoves DEF Boot, AccessCarries, AccessInv
<1>2. CASE ReadOwned(r)
  <2>1. PICK owned : owned = {member[u].org : u \in {v \in Members : StoredMember(v)
                                                        /\ "OWNER" \in member[v].roles}}
    OBVIOUS
  <2>2. owned \in SUBSET WorkspaceOrNone
    BY <2>1 DEF AccessInv, MemberDoc
  <2>3. [pc |-> "readRoleless", owned |-> owned] \in AccessRequest
    BY <2>2, AccessRequested
  <2>4. accessReq' = Continue(accessReq, r, [pc |-> "readRoleless", owned |-> owned])
    BY <1>2, <2>1 DEF ReadOwned
  <2>5. QED
    BY <1>2, <2>3, <2>4, AccessStepMoves DEF ReadOwned, AccessCarries, AccessInv
<1>3. CASE ReadRoleless(r)
  <2>1. PICK q \in AccessRequest : q = accessReq[r] /\ q.pc = "readRoleless"
    BY <1>3 DEF AccessInv, ReadRoleless, At
  <2>2. PICK found : found = {u \in Members : StoredMember(u) /\ member[u].org # None
                                              /\ member[u].roles = {}}
    OBVIOUS
  <2>3. [pc |-> "heal", owned |-> q.owned, candidates |-> found] \in AccessRequest
    BY <2>1, <2>2, AccessRequestFields, AccessRequested
  <2>4. accessReq' = Continue(accessReq, r,
                              [pc |-> "heal", owned |-> q.owned, candidates |-> found])
    BY <1>3, <2>1, <2>2 DEF ReadRoleless
  <2>5. AccessCarries(member, role, [pc |-> "heal", owned |-> q.owned, candidates |-> found])
    BY <2>2 DEF AccessCarries, StoredMember
  <2>6. QED
    BY <1>3, <2>3, <2>4, <2>5, AccessStepMoves DEF ReadRoleless, AccessInv
<1>4. QED
  BY <1>1, <1>2, <1>3

\* An account is healed whatever its roles have become; it keeps its workspace, and a founder
\* has the owner role again.
LEMMA StepHeal ==
  ASSUME AccessInv, NEW r \in Requests, Heal(r)
  PROVE  AccessInv'
<1>1. PICK q \in AccessRequest : q = accessReq[r] /\ q.pc = "heal"
  BY DEF AccessInv, Heal, At
<1>2. q.owned \in SUBSET WorkspaceOrNone /\ q.candidates \in SUBSET Members
  BY <1>1, AccessRequestFields
<1>3. PICK eligible : eligible = {u \in q.candidates : member[u].org \notin q.owned}
  OBVIOUS
<1>4. CASE eligible = {}
  <2>1. accessReq' = Continue(accessReq, r, Idle) /\ member' = member
    BY <1>1, <1>3, <1>4 DEF Heal, Finish
  <2>2. AccessCarries(member, role, Idle)
    BY DEF AccessCarries, Idle
  <2>3. QED
    BY <2>1, <2>2, AccessRequested, AccessStepMoves DEF Heal, AccessInv
<1>5. CASE eligible # {}
  <2>1. PICK u \in Members : u = Min(eligible) /\ u \in q.candidates
    <3>1. eligible \subseteq Nat
      BY <1>2, <1>3 DEF Members
    <3>2. Min(eligible) \in eligible
      BY <1>5, <3>1, MinChooses
    <3>3. QED
      BY <1>2, <1>3, <3>2
  <2>2. /\ member' = [member EXCEPT ![u].roles = {"OWNER"}, ![u].bySuper = FALSE]
        /\ accessReq' = Continue(accessReq, r, [q EXCEPT !.owned = @ \cup {member[u].org}])
    BY <1>1, <1>3, <1>5, <2>1 DEF Heal
  <2>3. PICK d : d = [member[u] EXCEPT !.roles = {"OWNER"}, !.bySuper = FALSE]
    OBVIOUS
  <2>4. member[u] \in MemberDoc /\ MemberSound(role, member[u])
    BY DEF AccessInv
  <2>5. /\ d \in MemberDoc /\ d.org = member[u].org /\ d.state = member[u].state
        /\ d.roles = {"OWNER"} /\ d.founder = member[u].founder /\ d.bySuper = FALSE
    BY <2>3, <2>4, RoleSets DEF MemberDoc
  <2>6. MemberSound(role, d)
    BY <2>4, <2>5, RoleSets DEF MemberSound, Granted, Founded
  <2>7. member' = [member EXCEPT ![u] = d]
    BY <2>2, <2>3 DEF AccessInv
  <2>8. /\ member' \in [Members -> MemberDoc] /\ role' = role
        /\ \A v \in Members : MemberSound(role', member'[v])
        /\ AccessPersists(member, role, member', role')
    BY <2>5, <2>6, <2>7 DEF AccessInv, AccessPersists, Heal
  <2>9. PICK next \in AccessRequest :
          /\ accessReq' = Continue(accessReq, r, next)
          /\ next.pc = "heal" /\ next.candidates = q.candidates
    <3>1. PICK owned \in SUBSET WorkspaceOrNone : owned = q.owned \cup {member[u].org}
      BY <1>2, <2>4 DEF MemberDoc
    <3>2. [pc |-> "heal", owned |-> owned, candidates |-> q.candidates] \in AccessRequest
      BY <1>2, <3>1, AccessRequested
    <3>3. [q EXCEPT !.owned = @ \cup {member[u].org}]
            = [pc |-> "heal", owned |-> owned, candidates |-> q.candidates]
      BY <1>1, <3>1 DEF AccessRequest, Idle
    <3>4. QED
      BY <2>2, <3>2, <3>3
  <2>10. \A v \in q.candidates : member'[v].state # "absent"
    BY <1>1, <1>2, <2>8 DEF AccessInv, AccessCarries, AccessPersists
  <2>11. AccessCarries(member', role', next)
    BY <2>9, <2>10 DEF AccessCarries
  <2>12. QED
    BY <2>8, <2>9, <2>11, AccessStepSound DEF Heal, AccessInv
<1>6. QED
  BY <1>4, <1>5

LEMMA StepAccessAbandon ==
  ASSUME AccessInv, NEW r \in Requests, AccessAbandon(r)
  PROVE  AccessInv'
<1>1. AccessCarries(member, role, Idle)
  BY DEF AccessCarries, Idle
<1>2. QED
  BY <1>1, AccessRequested, AccessStepMoves DEF AccessAbandon, Finish, AccessInv

-----------------------------------------------------------------------------
LEMMA StepAccessInv == AccessInv /\ [AccessNext]_accessVars => AccessInv'
<1> SUFFICES ASSUME AccessInv, [AccessNext]_accessVars PROVE AccessInv'
  OBVIOUS
<1>1. ASSUME NEW r \in Requests, BeginSignup(r) \/ CreateWorkspace(r) \/ EnsureOwnerRole(r)
                                 \/ CreateMember(r) \/ AssignRolesWrite(r)
                                 \/ RemoveMemberWrite(r) \/ AccessAbandon(r)
      PROVE  AccessInv'
  BY <1>1, StepSignup, StepEnsureOwnerRole, StepCreateMember, StepAssignRolesWrite,
     StepRemoveMember, StepAccessAbandon
<1>2. ASSUME NEW r \in Requests, NEW a \in Members, NEW u \in Members,
             InviteMember(r, a) \/ AssignRolesRead(r, a, u) \/ RemoveMemberRead(r, a, u)
      PROVE  AccessInv'
  BY <1>2, StepInviteMember, StepAssignRolesRead, StepRemoveMember
<1>3. ASSUME NEW r \in Requests, Boot(r) \/ ReadOwned(r) \/ ReadRoleless(r) \/ Heal(r)
      PROVE  AccessInv'
  BY <1>3, StepBootReads, StepHeal
<1>4. ASSUME NEW r \in Requests, NEW x \in SystemRoles, SeedRole(r, x) PROVE AccessInv'
  BY <1>4, StepSeedRole
<1>5. ASSUME NEW a \in Members, NEW x \in CustomRoles, CreateRole(a, x) PROVE AccessInv'
  BY <1>5, StepCreateRole
<1>6. ASSUME NEW a \in Members, NEW x \in RoleIds, UpdateRole(a, x) \/ RemoveRole(a, x)
      PROVE  AccessInv'
  BY <1>6, StepUpdateRole
<1>7. CASE UNCHANGED accessVars
  BY <1>7, PersistsItself, StepRoles DEF accessVars, AccessInv
<1>8. QED
  BY <1>1, <1>2, <1>3, <1>4, <1>5, <1>6, <1>7 DEF AccessNext

LEMMA AccessInvariant == AccessSpec => []AccessInv
<1>1. AccessInit => AccessInv
  BY InitAccessInv
<1>2. AccessInv /\ [AccessNext]_accessVars => AccessInv'
  BY StepAccessInv
<1>3. QED
  BY <1>1, <1>2, PTL DEF AccessSpec

-----------------------------------------------------------------------------
(* The theorems *)

\* Accounts, roles, workspaces and the requests under way (user.schema.ts, role.schema.ts,
\* organization.schema.ts) always have the type their schema gives them.
THEOREM AccessTypeCorrect == AccessSpec => []AccessTypeOK
<1>1. AccessInv => AccessTypeOK
  BY DEF AccessInv, AccessTypeOK, MemberDoc, RoleDoc
<1>2. QED
  BY <1>1, AccessInvariant, PTL

\* An account made by signup (auth.service.ts:88) can manage its workspace until somebody
\* assigns it other roles, whatever is seeded, changed, removed or healed meanwhile.
THEOREM SignupGivesAuthority == AccessSpec => []FoundersCanWork
<1>1. AccessInv => FoundersCanWork
  <2> SUFFICES ASSUME AccessInv, NEW u \in Members, member[u].founder
               PROVE  "manage" \in Authority(member[u].roles)
    BY DEF FoundersCanWork
  <2>1. "OWNER" \in member[u].roles /\ role["OWNER"] = SystemRole("OWNER")
    BY DEF AccessInv, MemberSound, Founded
  <2>2. role["OWNER"].state = "stored" /\ role["OWNER"].active
        /\ "manage" \in role["OWNER"].permissions
    BY <2>1 DEF SystemRole
  <2>3. QED
    BY <2>1, <2>2 DEF Authority
<1>2. QED
  BY <1>1, AccessInvariant, PTL

\* Only a super-admin ever gives full authority away (assertRolesVisible and
\* sanitizePermissions): no sequence of the other endpoints does.
THEOREM OnlySupersGiveWildcard == AccessSpec => []WildcardFromSuper
<1>1. AccessInv => WildcardFromSuper
  <2> SUFFICES ASSUME AccessInv, NEW u \in Members, "*" \in Authority(member[u].roles)
               PROVE  member[u].bySuper
    BY DEF WildcardFromSuper
  <2>1. /\ member[u].roles \in SUBSET RoleIds
        /\ Granted(role, member[u].org, member[u].roles, member[u].bySuper)
        /\ role \in [RoleIds -> RoleDoc] /\ RolesSound(role)
    BY DEF AccessInv, MemberDoc, MemberSound
  <2>2. "SUPER" \in member[u].roles
    BY <2>1, WildcardIsSuper
  <2>3. QED
    BY <2>1, <2>2 DEF Granted
<1>2. QED
  BY <1>1, AccessInvariant, PTL

\* A member has only roles of the own workspace or of the system, unless a super-admin chose
\* them (isVisibleTo): the role and the account are checked apart and never mixed up.
THEOREM RolesStayInWorkspace == AccessSpec => []RolesOfOwnWorkspace
<1>1. AccessInv => RolesOfOwnWorkspace
  BY DEF AccessInv, MemberSound, Granted, RolesOfOwnWorkspace
<1>2. QED
  BY <1>1, AccessInvariant, PTL
=============================================================================
