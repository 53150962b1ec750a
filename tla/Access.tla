------------------------------- MODULE Access -------------------------------
(***************************************************************************)
(* Who may call a method: AuthInterceptor with the RBACAuthorizer of       *)
(* auth/ ("user": a user's own permissions and those of his roles), or the *)
(* RBACAuthorizer of auth/authorization/ ("role": the role named in the    *)
(* metadata, against the permissions a method or its service is mapped     *)
(* to), while the policy is changed.  A decision takes several critical    *)
(* sections, each of them a step.  There is one method; a permission All   *)
(* stands for "*", or for "admin" on the resource.                         *)
(***************************************************************************)
EXTENDS Integers, FiniteSets, Sequences

CONSTANTS
    Authorizers,    \* a subset of {"user", "role"}
    RoleNames, Permissions,
    Guests,         \* the calls that are decided
    MaxChanges      \* bound: changes of the policy

All == "*"
Default == "resource:action"    \* the permission of a resource and an action nobody mapped
Unparsed == "resource"          \* what MapServiceToResource maps a service to
Perms == Permissions \cup {All, Default}

ASSUME AccessAssumption ==
    /\ Authorizers \subseteq {"user", "role"} /\ IsFiniteSet(Guests) /\ MaxChanges \in Nat
    /\ Permissions \cap {All, Default, Unparsed} = {}

VARIABLES
    authorizer,
    roles,          \* the role object each name is bound to, 0 without one
    rolePermissions,\* the permissions of every role object
    mapped,         \* the permissions the method is mapped to
    serviceMapped,  \* MapServiceToResource was called for the method's service
    guest,          \* every call: where it is, its roles, its own permissions, what it has read
    changes,        \* history: changes of the policy
    since           \* history: the changes there were when each call began

accessVars == <<authorizer, roles, rolePermissions, mapped, serviceMapped, guest, changes, since>>

Objects == 1 .. MaxChanges
NewObject == changes + 1
NoGuest == [at |-> "new", roles |-> <<>>, own |-> {}, role |-> 0, needs |-> {}]

AccessTypeOK ==
    /\ authorizer \in Authorizers /\ roles \in [RoleNames -> {0} \cup Objects]
    /\ rolePermissions \in [Objects -> SUBSET Perms] /\ mapped \subseteq Permissions
    /\ \A g \in Guests :
          /\ guest[g].at \in {"new", "role", "needs", "decide", "allowed", "denied"}
          /\ guest[g].needs \subseteq Perms \cup {Unparsed} /\ guest[g].role \in {0} \cup Objects

NewRBACAuthorizer(a) ==
    /\ authorizer = a /\ roles = [r \in RoleNames |-> 0]
    /\ rolePermissions = [o \in Objects |-> {}] /\ mapped = {} /\ serviceMapped = FALSE
    /\ guest = [g \in Guests |-> NoGuest] /\ changes = 0 /\ since = [g \in Guests |-> 0]

Change == changes < MaxChanges /\ changes' = changes + 1 /\ UNCHANGED <<authorizer, guest, since>>

(* The policy.                                                             *)
AddRole(r, S) ==
    /\ Change
    /\ roles' = [roles EXCEPT ![r] = NewObject]
    /\ rolePermissions' = [rolePermissions EXCEPT ![NewObject] = S]
    /\ UNCHANGED <<mapped, serviceMapped>>
RemoveRole(r) ==
    /\ Change /\ roles[r] # 0 /\ roles' = [roles EXCEPT ![r] = 0]
    /\ UNCHANGED <<rolePermissions, mapped, serviceMapped>>
AddPermission(r, p) ==
    /\ Change /\ roles[r] # 0 /\ p \notin rolePermissions[roles[r]]
    /\ rolePermissions' = [rolePermissions EXCEPT ![roles[r]] = @ \cup {p}]
    /\ UNCHANGED <<roles, mapped, serviceMapped>>
RemovePermission(r, p) ==
    /\ Change /\ roles[r] # 0 /\ p \in rolePermissions[roles[r]]
    /\ rolePermissions' = [rolePermissions EXCEPT ![roles[r]] = @ \ {p}]
    /\ UNCHANGED <<roles, mapped, serviceMapped>>
(* MapResourceAction replaces, MapMethodToPermission appends.              *)
MapPermission(p) ==
    /\ Change /\ p \notin mapped
    /\ mapped' = IF authorizer = "user" THEN {p} ELSE mapped \cup {p}
    /\ UNCHANGED <<roles, rolePermissions, serviceMapped>>
MapServiceToResource ==
    /\ Change /\ authorizer = "role" /\ ~serviceMapped /\ serviceMapped' = TRUE
    /\ UNCHANGED <<roles, rolePermissions, mapped>>

StepTo(g, step) == guest' = [guest EXCEPT ![g].at = step]
Policy == <<authorizer, roles, rolePermissions, mapped, serviceMapped, changes>>

(* authenticate: the token manager's user, or none.  Public methods skip   *)
(* all of this.                                                            *)
Authenticate(g, rs, own) ==
    /\ guest[g].at = "new"
    /\ authorizer = "role" => Len(rs) = 1 /\ own = {}
    /\ guest' = [guest EXCEPT ![g] = [NoGuest EXCEPT !.roles = rs, !.own = own,
                                      !.at = IF authorizer = "role" THEN "role" ELSE "needs"]]
    /\ since' = [since EXCEPT ![g] = changes] /\ UNCHANGED Policy
Unauthenticated(g) ==
    /\ guest[g].at = "new" /\ StepTo(g, "denied")
    /\ since' = [since EXCEPT ![g] = changes] /\ UNCHANGED Policy

(* getRoleFromContext                                                      *)
GetRole(g) ==
    /\ guest[g].at = "role"
    /\ LET o == roles[guest[g].roles[1]] IN
       guest' = [guest EXCEPT ![g].role = o, ![g].at = IF o = 0 THEN "denied" ELSE "needs"]
    /\ UNCHANGED <<Policy, since>>
(* getPermissionForResourceAction, getPermissionsForMethod                 *)
Needs ==
    IF mapped # {} THEN mapped
    ELSE IF authorizer = "user" THEN {Default}
    ELSE IF serviceMapped THEN {Unparsed} ELSE {}
GetPermissions(g) ==
    /\ guest[g].at = "needs"
    /\ guest' = [guest EXCEPT ![g].needs = Needs, ![g].at = "decide"]
    /\ UNCHANGED <<Policy, since>>

HasPermission(S, p) == p # Unparsed /\ (p \in S \/ All \in S)
(* The roles of a user that are looked at: a role that is gone is passed   *)
(* over.                                                                   *)
LookedAtToGap(rs) ==
    {roles[rs[i]] : i \in {j \in DOMAIN rs : \A k \in 1 .. j : roles[rs[k]] # 0}}
LookedAt(rs) == {roles[rs[i]] : i \in DOMAIN rs} \ {0}
UserGrants(q) ==
    \E p \in q.needs :
        \/ HasPermission(q.own, p)
        \/ \E o \in LookedAt(q.roles) : HasPermission(rolePermissions[o], p)
RoleGrants(q) == q.needs = {} \/ \E p \in q.needs : HasPermission(rolePermissions[q.role], p)
Grants(g) == IF authorizer = "user" THEN UserGrants(guest[g]) ELSE RoleGrants(guest[g])
CheckPermission(g) ==
    /\ guest[g].at = "decide" /\ StepTo(g, IF Grants(g) THEN "allowed" ELSE "denied")
    /\ UNCHANGED <<Policy, since>>

RoleLists == {<<>>} \cup {<<r>> : r \in RoleNames} \cup {<<r, s>> : r, s \in RoleNames}
AccessInit == \E a \in Authorizers : NewRBACAuthorizer(a)
AccessNext ==
    \/ \E r \in RoleNames :
          \/ RemoveRole(r) \/ \E S \in SUBSET (Permissions \cup {All}) : AddRole(r, S)
          \/ \E p \in Permissions \cup {All} : AddPermission(r, p) \/ RemovePermission(r, p)
    \/ MapServiceToResource \/ \E p \in Permissions : MapPermission(p)
    \/ \E g \in Guests :
          \/ \E rs \in RoleLists, own \in SUBSET (Permissions \cup {Default}) : Authenticate(g, rs, own)
          \/ Unauthenticated(g) \/ GetRole(g) \/ GetPermissions(g) \/ CheckPermission(g)
AccessSpec == AccessInit /\ [][AccessNext]_accessVars

-----------------------------------------------------------------------------
(* What the policy of this moment says of a call, all at once.             *)
Entitled(g) ==
    LET names == {guest[g].roles[i] : i \in DOMAIN guest[g].roles}
        held == guest[g].own \cup UNION {rolePermissions[roles[r]] : r \in {n \in names : roles[n] # 0}}
        need == IF mapped # {} THEN mapped ELSE {Default}
    IN IF authorizer = "user" THEN held \cap (need \cup {All}) # {}
       ELSE /\ \E r \in names : roles[r] # 0
            /\ IF mapped # {} THEN held \cap (mapped \cup {All}) # {} ELSE ~serviceMapped

(* A call during which nobody changed the policy gets the decision of that *)
(* policy, although it read it in two or three critical sections.          *)
UndisturbedDecision ==
    [][\A g \in Guests :
          guest[g].at \in {"role", "needs", "decide"} /\ guest'[g].at \in {"allowed", "denied"}
              /\ since[g] = changes
          => (guest'[g].at = "allowed") = Entitled(g)]_accessVars

(* The same, and roles, permissions and what a call has read stay well     *)
(* formed while they change under it (CheckPermission, AddRole, ...).      *)
DecisionsRight == []AccessTypeOK /\ UndisturbedDecision
=============================================================================
