------------------------------- MODULE Access -------------------------------
(* Roles, their grants to users, the permissions of the roles, the users and  *)
(* the contacts they stand for, and the two cache tables of the ACL system    *)
(* (migrations/003_acls.sql, 004_users.sql; generated/acls.sql.go,            *)
(* users.sql.go, permissions.sql.go).  All permissions are for one table, the *)
(* unique e-mail of a user is taken to be its unique username, and the name    *)
(* of a match that of its user; labels, passwords, times and the order and     *)
(* paging of listings are left out.                                            *)
EXTENDS Contacts

CONSTANTS RoleIds, AclIds, GrantIds, UserIds, MatchIds, CacheIds,
          RoleNames, UserNames, Operations,
          Objects      \* ids of rows of groups, cases, campaigns, contributions and memberships

(* gen_random_uuid() gives no row the id of another, and there are finitely many uuids. *)
ASSUME ObjectsAssumption == Objects \cap ContactIds = {} /\ IsFiniteSet(Objects) /\ IsFiniteSet(UserIds)

VARIABLES acl_roles, acls, acl_entity_roles, users, uf_match, acl_cache, acl_contact_cache

roleTables == <<acl_roles, acls, acl_entity_roles>>
cacheTables == <<acl_cache, acl_contact_cache>>
accessVars == <<contacts, roleTables, users, uf_match, cacheTables>>

AclRole == [name : RoleNames, is_active : Flag]
(* entity_id names a role here, as entity_table says; no constraint ties it to one. *)
Acl == [deny : BOOLEAN, entity_id : RoleIds, operation : Operations, object_id : Objects \cup {NULL}, is_active : Flag]
AclEntityRole == [acl_role_id : RoleIds, entity_id : UserIds, is_active : Flag]
User == [username : UserNames, is_active : Flag, is_admin : Flag]
UfMatch == [uf_id : UserIds, contact_id : ContactIds \cup {NULL}]
AclCache == [contact_id : ContactIds \cup {NULL}, acl_id : AclIds]
AclContactCache == [user_id : ContactIds \cup {NULL}, contact_id : ContactIds, operation : Operations]

AccessTypeOK ==
  /\ IsTable(acl_roles, RoleIds, AclRole) /\ IsTable(acls, AclIds, Acl)
  /\ IsTable(acl_entity_roles, GrantIds, AclEntityRole)
  /\ IsTable(users, UserIds, User) /\ IsTable(uf_match, MatchIds, UfMatch)
  /\ IsTable(acl_cache, CacheIds, AclCache) /\ IsTable(acl_contact_cache, CacheIds, AclContactCache)

-----------------------------------------------------------------------------
(* Roles.  To delete a role, a permission, a grant or a user is to deactivate *)
(* it: what refers to it stays as it is.                                      *)

CreateACLRole(r, n, act) ==
  /\ r \in RoleIds \ DOMAIN acl_roles
  /\ \A q \in DOMAIN acl_roles : acl_roles[q].name # n
  /\ acl_roles' = Insert(acl_roles, r, [name |-> n, is_active |-> act])
  /\ UNCHANGED <<contacts, acls, acl_entity_roles, users, uf_match, cacheTables>>

UpdateACLRole(r, act) ==
  /\ r \in DOMAIN acl_roles
  /\ acl_roles' = [acl_roles EXCEPT ![r].is_active = act]
  /\ UNCHANGED <<contacts, acls, acl_entity_roles, users, uf_match, cacheTables>>

DeleteACLRole(r) == UpdateACLRole(r, FALSE)

CreateACL(a, row) ==
  /\ a \in AclIds \ DOMAIN acls
  /\ acls' = Insert(acls, a, row)
  /\ UNCHANGED <<contacts, acl_roles, acl_entity_roles, users, uf_match, cacheTables>>

UpdateACL(a, row) ==
  /\ a \in DOMAIN acls /\ row.entity_id = acls[a].entity_id
  /\ acls' = [acls EXCEPT ![a] = row]
  /\ UNCHANGED <<contacts, acl_roles, acl_entity_roles, users, uf_match, cacheTables>>

DeleteACL(a) ==
  /\ a \in DOMAIN acls
  /\ acls' = [acls EXCEPT ![a].is_active = FALSE]
  /\ UNCHANGED <<contacts, acl_roles, acl_entity_roles, users, uf_match, cacheTables>>

-----------------------------------------------------------------------------
(* Grants.  Nothing is unique in acl_entity_roles: a user may have several     *)
(* grants of one role, active or not.                                          *)

CreateACLEntityRole(g, r, u, act) ==
  /\ g \in GrantIds \ DOMAIN acl_entity_roles
  /\ r \in DOMAIN acl_roles
  /\ acl_entity_roles' = Insert(acl_entity_roles, g, [acl_role_id |-> r, entity_id |-> u, is_active |-> act])
  /\ UNCHANGED <<contacts, acl_roles, acls, users, uf_match, cacheTables>>

UpdateACLEntityRole(g, act) ==
  /\ g \in DOMAIN acl_entity_roles
  /\ acl_entity_roles' = [acl_entity_roles EXCEPT ![g].is_active = act]
  /\ UNCHANGED <<contacts, acl_roles, acls, users, uf_match, cacheTables>>

DeleteACLEntityRole(g) == UpdateACLEntityRole(g, FALSE)

(* The subquery finds the role also when it is not active. *)
RoleNamed(n) == {r \in DOMAIN acl_roles : acl_roles[r].name = n}
GrantsOf(u, n) == {g \in DOMAIN acl_entity_roles : /\ acl_entity_roles[g].entity_id = u
                                                   /\ acl_entity_roles[g].acl_role_id \in RoleNamed(n)}

AssignUserToRole(g, n, u) == \E r \in RoleNamed(n) : CreateACLEntityRole(g, r, u, TRUE)

(* A mutated form, which ends one grant of the role. *)
RemoveUserFromRoleOnce(n, u) ==
  /\ \E g \in GrantsOf(u, n) : acl_entity_roles' = [acl_entity_roles EXCEPT ![g].is_active = FALSE]
  /\ UNCHANGED <<contacts, acl_roles, acls, users, uf_match, cacheTables>>

RemoveUserFromRole(n, u) ==
  /\ acl_entity_roles' = [g \in DOMAIN acl_entity_roles |->
       IF g \in GrantsOf(u, n) THEN [acl_entity_roles[g] EXCEPT !.is_active = FALSE] ELSE acl_entity_roles[g]]
  /\ UNCHANGED <<contacts, acl_roles, acls, users, uf_match, cacheTables>>

-----------------------------------------------------------------------------
(* Users; the username and the e-mail, which are UNIQUE, are one here. *)

CreateUser(u, row) ==
  /\ u \in UserIds \ DOMAIN users
  /\ \A v \in DOMAIN users : users[v].username # row.username
  /\ users' = Insert(users, u, row)
  /\ UNCHANGED <<contacts, roleTables, uf_match, cacheTables>>

UpdateUser(u, row) ==
  /\ u \in DOMAIN users
  /\ \A v \in DOMAIN users \ {u} : users[v].username # row.username
  /\ users' = [users EXCEPT ![u] = row]
  /\ UNCHANGED <<contacts, roleTables, uf_match, cacheTables>>

DeleteUser(u) ==
  /\ u \in DOMAIN users
  /\ users' = [users EXCEPT ![u].is_active = FALSE]
  /\ UNCHANGED <<contacts, roleTables, uf_match, cacheTables>>

CreateUFMatch(m, u, c) ==
  /\ m \in MatchIds \ DOMAIN uf_match
  /\ c \in DOMAIN contacts \cup {NULL}
  /\ uf_match' = Insert(uf_match, m, [uf_id |-> u, contact_id |-> c])
  /\ UNCHANGED <<contacts, roleTables, users, cacheTables>>

UpdateUFMatch(m, c) ==
  /\ m \in DOMAIN uf_match
  /\ c \in DOMAIN contacts \cup {NULL}
  /\ uf_match' = [uf_match EXCEPT ![m].contact_id = c]
  /\ UNCHANGED <<contacts, roleTables, users, cacheTables>>

DeleteUFMatch(m) ==
  /\ m \in DOMAIN uf_match
  /\ uf_match' = Without(uf_match, {m})
  /\ UNCHANGED <<contacts, roleTables, users, cacheTables>>

-----------------------------------------------------------------------------
(* The caches: tables that only these statements fill and empty.  user_id     *)
(* refers to contacts, not to users.                                          *)

CreateACLCache(k, c, a) ==
  /\ k \in CacheIds \ DOMAIN acl_cache
  /\ c \in DOMAIN contacts \cup {NULL} /\ a \in DOMAIN acls
  /\ acl_cache' = Insert(acl_cache, k, [contact_id |-> c, acl_id |-> a])
  /\ UNCHANGED <<contacts, roleTables, users, uf_match, acl_contact_cache>>

CreateACLContactCache(k, u, c, op) ==
  /\ k \in CacheIds \ DOMAIN acl_contact_cache
  /\ u \in DOMAIN contacts \cup {NULL} /\ c \in DOMAIN contacts
  /\ acl_contact_cache' = Insert(acl_contact_cache, k, [user_id |-> u, contact_id |-> c, operation |-> op])
  /\ UNCHANGED <<contacts, roleTables, users, uf_match, acl_cache>>

GetACLCache(c) == {k \in DOMAIN acl_cache : Eq(acl_cache[k].contact_id, c)}
GetACLContactCache(u, op) ==
  {k \in DOMAIN acl_contact_cache : Eq(acl_contact_cache[k].user_id, u) /\ acl_contact_cache[k].operation = op}
GetACLContactCacheByContact(c, op) ==
  {k \in DOMAIN acl_contact_cache : acl_contact_cache[k].contact_id = c /\ acl_contact_cache[k].operation = op}

DeleteACLCache(c) ==
  /\ acl_cache' = Without(acl_cache, GetACLCache(c))
  /\ UNCHANGED <<contacts, roleTables, users, uf_match, acl_contact_cache>>

DeleteACLContactCache(u, op) ==
  /\ acl_contact_cache' = Without(acl_contact_cache, GetACLContactCache(u, op))
  /\ UNCHANGED <<contacts, roleTables, users, uf_match, acl_cache>>

DeleteACLContactCacheByContact(c, op) ==
  /\ acl_contact_cache' = Without(acl_contact_cache, GetACLContactCacheByContact(c, op))
  /\ UNCHANGED <<contacts, roleTables, users, uf_match, acl_cache>>

CreateMatchedContact(c) ==
  /\ CreateContact(c, SomeContact)
  /\ UNCHANGED <<roleTables, users, uf_match, cacheTables>>

(* Both columns of acl_contact_cache cascade. *)
DeleteMatchedContact(c) ==
  /\ DeleteContact(c)
  /\ uf_match' = Without(uf_match, {m \in DOMAIN uf_match : uf_match[m].contact_id = c})
  /\ acl_cache' = Without(acl_cache, GetACLCache(c))
  /\ acl_contact_cache' = Without(acl_contact_cache,
       {k \in DOMAIN acl_contact_cache : c \in {acl_contact_cache[k].user_id, acl_contact_cache[k].contact_id}})
  /\ UNCHANGED <<roleTables, users>>

-----------------------------------------------------------------------------
(* Queries on roles, permissions and grants. *)

GetACLRole(r) == {q \in DOMAIN acl_roles : q = r /\ acl_roles[q].is_active = TRUE}
GetACLRoleByName(n) == {r \in RoleNamed(n) : acl_roles[r].is_active = TRUE}
ListACLRoles == {r \in DOMAIN acl_roles : acl_roles[r].is_active = TRUE}
GetACL(a) == {b \in DOMAIN acls : b = a /\ acls[b].is_active = TRUE}
ActiveACLs == {a \in DOMAIN acls : acls[a].is_active = TRUE}
(* A search takes the texts of its pattern: hits are the rows they match. *)
SearchACLs(hits) == hits \cap ActiveACLs
ListACLsByEntity(r) == {a \in DOMAIN acls : acls[a].entity_id = r /\ acls[a].is_active = TRUE}
ListACLsByRole(r) == {a \in DOMAIN acls : acls[a].entity_id = r /\ acls[a].is_active = TRUE}
ListACLsByOperation(op) == {a \in DOMAIN acls : acls[a].operation = op /\ acls[a].is_active = TRUE}
GetRolePermissionMatrix(r) == {a \in DOMAIN acls : acls[a].entity_id = r /\ acls[a].is_active = TRUE}
GetACLEntityRole(g) == {h \in DOMAIN acl_entity_roles : h = g /\ acl_entity_roles[h].is_active = TRUE}
ListACLEntityRolesByEntity(u) ==
  {g \in DOMAIN acl_entity_roles : acl_entity_roles[g].entity_id = u /\ acl_entity_roles[g].is_active = TRUE}
ListACLEntityRolesByRole(r) ==
  {g \in DOMAIN acl_entity_roles : acl_entity_roles[g].acl_role_id = r /\ acl_entity_roles[g].is_active = TRUE}

GetACLStats ==
  [total_acls |-> Cardinality(ActiveACLs),
   deny_rules |-> Cardinality({a \in ActiveACLs : acls[a].deny}),
   allow_rules |-> Cardinality({a \in ActiveACLs : ~acls[a].deny})]

(* One group of rows per operation and deny, with the number of its objects; *)
(* a permission for all objects, whose object_id is NULL, adds none.         *)
Summary(A) ==
  {[operation |-> acls[a].operation, deny |-> acls[a].deny,
    object_count |-> Cardinality({acls[b].object_id : b \in {b \in A : acls[b].operation = acls[a].operation
                                                                       /\ acls[b].deny = acls[a].deny}} \ {NULL})]
   : a \in A}

(* The join gives a row per permission and grant: a permission comes twice   *)
(* when the role was granted twice.  Whether the role is active is not asked. *)
GetUserPermissions(u) ==
  {p \in (DOMAIN acls) \X (DOMAIN acl_entity_roles) :
     /\ acls[p[1]].entity_id = acl_entity_roles[p[2]].acl_role_id /\ acl_entity_roles[p[2]].entity_id = u
     /\ acls[p[1]].is_active = TRUE /\ acl_entity_roles[p[2]].is_active = TRUE}
GetUserPermissionMatrix(u) ==
  {p \in GetUserPermissions(u) : acl_entity_roles[p[2]].acl_role_id \in DOMAIN acl_roles}
(* A row per role and grant of it. *)
GetUserRoles(u) ==
  {p \in (DOMAIN acl_roles) \X (DOMAIN acl_entity_roles) :
     /\ p[1] = acl_entity_roles[p[2]].acl_role_id /\ acl_entity_roles[p[2]].entity_id = u
     /\ acl_roles[p[1]].is_active = TRUE /\ acl_entity_roles[p[2]].is_active = TRUE}
GetRolePermissionSummary(r) == Summary(ListACLsByRole(r))
GetUserPermissionSummary(u) == Summary({p[1] : p \in GetUserPermissions(u)})
GetUserPermissionSummaryByType(u) == Summary({p[1] : p \in GetUserPermissions(u)})

(* An aggregate and ORDER BY a.priority without GROUP BY: no check answers. *)
CheckUserPermission(u, op, o) == Refused
CheckContactPermission(u, op, o) == Refused
CheckEventPermission(u, op, o) == Refused
CheckGroupPermission(u, op, o) == Refused
CheckCasePermission(u, op, o) == Refused
CheckCampaignPermission(u, op, o) == Refused
CheckContributionPermission(u, op, o) == Refused
CheckMembershipPermission(u, op, o) == Refused

-----------------------------------------------------------------------------
(* Queries on users. *)

ListUsers == {u \in DOMAIN users : users[u].is_active = TRUE}
SearchUsers(hits) == {u \in hits \cap DOMAIN users : users[u].is_active = TRUE}
GetUser(u) == {v \in DOMAIN users : v = u /\ users[v].is_active = TRUE}
GetUserByUsername(n) == {u \in DOMAIN users : users[u].username = n /\ users[u].is_active = TRUE}
GetUserByEmail(n) == {u \in DOMAIN users : users[u].username = n /\ users[u].is_active = TRUE}
GetUserStats ==
  [total_users |-> Cardinality(DOMAIN users),
   admin_users |-> Cardinality({u \in DOMAIN users : users[u].is_admin = TRUE}),
   active_users |-> Cardinality({u \in DOMAIN users : users[u].is_active = TRUE})]

ListUsersByRole(n) ==
  {p \in (DOMAIN users) \X (DOMAIN acl_entity_roles) :
     p[2] \in GrantsOf(p[1], n) /\ users[p[1]].is_active = TRUE /\ acl_entity_roles[p[2]].is_active = TRUE}
(* A mutated form, which also looks at permissions that were deleted. *)
GetUsersByPermissionEver(op, o) ==
  {t \in (DOMAIN users) \X (DOMAIN acl_entity_roles) \X (DOMAIN acls) :
     LET u == t[1]  g == t[2]  a == t[3] IN
     /\ users[u].is_active = TRUE /\ acl_entity_roles[g].is_active = TRUE
     /\ acl_entity_roles[g].entity_id = u /\ acls[a].entity_id = acl_entity_roles[g].acl_role_id
     /\ acls[a].operation = op /\ ~acls[a].deny /\ acls[a].object_id \in {o, NULL}}

(* A user who is also denied the operation is listed all the same. *)
GetUsersByPermission(op, o) ==
  {t \in (DOMAIN users) \X (DOMAIN acl_entity_roles) \X (DOMAIN acls) :
     LET u == t[1]  g == t[2]  a == t[3] IN
     /\ users[u].is_active = TRUE /\ acl_entity_roles[g].is_active = TRUE /\ acls[a].is_active = TRUE
     /\ acl_entity_roles[g].entity_id = u /\ acls[a].entity_id = acl_entity_roles[g].acl_role_id
     /\ acls[a].operation = op /\ ~acls[a].deny /\ acls[a].object_id \in {o, NULL}}

ListUFMatches == DOMAIN uf_match
GetUFMatch(m) == DOMAIN uf_match \cap {m}
GetUFMatchByUserID(u) == {m \in DOMAIN uf_match : uf_match[m].uf_id = u}
GetUFMatchByUsername(u) == {m \in DOMAIN uf_match : uf_match[m].uf_id = u}
GetUFMatchByContactID(c) == {m \in DOMAIN uf_match : Eq(uf_match[m].contact_id, c)}

(* LEFT JOINs: a user comes once per match, with its contact, or once without. *)
GetUsersWithContacts ==
  {p \in ListUsers \X (ContactIds \cup {NULL}) :
     IF GetUFMatchByUserID(p[1]) = {} THEN p[2] = NULL
     ELSE \E m \in GetUFMatchByUserID(p[1]) : uf_match[m].contact_id = p[2]}
GetUserWithContact(u) == {p \in GetUsersWithContacts : p[1] = u}
GetUserByUsernameWithContact(n) == {p \in GetUsersWithContacts : users[p[1]].username = n}
GetUserByEmailWithContact(n) == {p \in GetUsersWithContacts : users[p[1]].username = n}
GetUsersByRoleWithContacts(n) == {p \in GetUsersWithContacts : \E g \in GrantIds : <<p[1], g>> \in ListUsersByRole(n)}

(* contacts and events have no column is_active. *)
GetContactsForUser(u, op) == Refused
GetEventsForUser(u, op) == Refused
GetUserAccessibleContacts(u, op) == Refused
GetUserAccessibleEvents(u, op) == Refused
SearchUserAccessibleContacts(u, op) == Refused
SearchUserAccessibleEvents(u, op) == Refused
CountUserAccessibleContacts(u, op) == Refused
CountUserAccessibleEvents(u, op) == Refused

(* The other tables are joined by the id of a contact. *)
Accessible(u, op) == {x \in Objects : \E k \in GetACLContactCache(u, op) : acl_contact_cache[k].contact_id = x}
GetGroupsForUser(u, op) == Accessible(u, op)
GetUserAccessibleGroups(u, op) == Accessible(u, op)
GetUserAccessibleCases(u, op) == Accessible(u, op)
GetUserAccessibleCampaigns(u, op) == Accessible(u, op)
GetUserAccessibleContributions(u, op) == Accessible(u, op)
GetUserAccessibleMemberships(u, op) == Accessible(u, op)
SearchUserAccessibleGroups(u, op) == Accessible(u, op)
CountUserAccessibleGroups(u, op) == Cardinality(Accessible(u, op))
CountUserAccessibleCases(u, op) == Cardinality(Accessible(u, op))
CountUserAccessibleCampaigns(u, op) == Cardinality(Accessible(u, op))
CountUserAccessibleContributions(u, op) == Cardinality(Accessible(u, op))
CountUserAccessibleMemberships(u, op) == Cardinality(Accessible(u, op))

-----------------------------------------------------------------------------
AccessInit == /\ acl_roles = NoRows /\ acls = NoRows /\ acl_entity_roles = NoRows
              /\ users = NoRows /\ uf_match = NoRows /\ acl_cache = NoRows /\ acl_contact_cache = NoRows

SomeAcl(r, op, o) == [deny |-> FALSE, entity_id |-> r, operation |-> op, object_id |-> o, is_active |-> TRUE]
SomeUser(n) == [username |-> n, is_active |-> TRUE, is_admin |-> NULL]

AccessNext ==
  \/ \E r \in RoleIds : \/ DeleteACLRole(r)
                        \/ \E act \in Flags : UpdateACLRole(r, act) \/ \E n \in RoleNames : CreateACLRole(r, n, act)
  \/ \E a \in AclIds : \/ DeleteACL(a)
                       \/ \E r \in RoleIds, op \in Operations, o \in Objects \cup {NULL} :
                            \/ CreateACL(a, SomeAcl(r, op, o))
                            \/ \E dn \in BOOLEAN : UpdateACL(a, [SomeAcl(r, op, o) EXCEPT !.deny = dn])
  \/ \E g \in GrantIds, u \in DOMAIN users :
       \/ \E n \in RoleNames : AssignUserToRole(g, n, u)
       \/ \E r \in RoleIds : CreateACLEntityRole(g, r, u, NULL)
  \/ \E g \in GrantIds : DeleteACLEntityRole(g) \/ \E act \in Flags : UpdateACLEntityRole(g, act)
  \/ \E n \in RoleNames, u \in DOMAIN users : RemoveUserFromRole(n, u)
  \/ \E u \in UserIds, n \in UserNames : CreateUser(u, SomeUser(n)) \/ DeleteUser(u)

UsersNext ==
  \/ \E c \in ContactIds : CreateMatchedContact(c) \/ DeleteMatchedContact(c)
  \/ \E u \in UserIds : \/ DeleteUser(u)
                        \/ \E n \in UserNames, act, adm \in Flags :
                             LET row == [username |-> n, is_active |-> act, is_admin |-> adm]
                             IN  CreateUser(u, row) \/ UpdateUser(u, row)
  \/ \E m \in MatchIds : \/ DeleteUFMatch(m)
                         \/ \E c \in ContactIds \cup {NULL} :
                              \/ UpdateUFMatch(m, c)
                              \/ \E u \in DOMAIN users : CreateUFMatch(m, u, c)

AclCacheNext ==
  \/ \E c \in ContactIds : CreateMatchedContact(c) \/ DeleteMatchedContact(c) \/ DeleteACLCache(c)
  \/ \E a \in AclIds, r \in RoleIds, op \in Operations : CreateACL(a, SomeAcl(r, op, NULL))
  \/ \E k \in CacheIds, c \in ContactIds \cup {NULL}, a \in AclIds : CreateACLCache(k, c, a)
  \/ \E k \in CacheIds, u \in ContactIds \cup {NULL}, c \in ContactIds, op \in Operations :
       CreateACLContactCache(k, u, c, op)
  \/ \E c \in ContactIds, op \in Operations :
       DeleteACLContactCache(c, op) \/ DeleteACLContactCacheByContact(c, op)

AccessSpec == ContactsInit /\ AccessInit /\ [][AccessNext \/ UsersNext \/ AclCacheNext]_accessVars

-----------------------------------------------------------------------------
(* After contacts are deleted no match and no row of the caches refers to one  *)
(* that is gone.  Roles, permissions and grants only become inactive, so what   *)
(* the grants and the cache refer to is there; no two users share a name.       *)
AccessRefs ==
  /\ \A g \in DOMAIN acl_entity_roles : acl_entity_roles[g].acl_role_id \in DOMAIN acl_roles
  /\ \A m \in DOMAIN uf_match : uf_match[m].contact_id \in DOMAIN contacts \cup {NULL}
  /\ \A k \in DOMAIN acl_cache : /\ acl_cache[k].contact_id \in DOMAIN contacts \cup {NULL}
                                 /\ acl_cache[k].acl_id \in DOMAIN acls
  /\ \A k \in DOMAIN acl_contact_cache :
       {acl_contact_cache[k].user_id, acl_contact_cache[k].contact_id} \subseteq DOMAIN contacts \cup {NULL}
  /\ \A u, v \in DOMAIN users : u # v => users[u].username # users[v].username

(* RemoveUserFromRole (users.sql:192-197) takes the role away even when the     *)
(* user was assigned to it several times, and with it every permission that no  *)
(* other role of the user has; the other grants stay.                           *)
RemovedRoleStaysRemoved ==
  [][\A n \in RoleNames, u \in DOMAIN users : RemoveUserFromRole(n, u) =>
       (/\ \A p \in GetUserRoles(u)' : p[1] \notin RoleNamed(n)
        /\ \A p \in GetUserPermissions(u)' : acls[p[1]].entity_id \notin RoleNamed(n)
        /\ \A v \in DOMAIN users \ {u} : GetUserPermissions(v)' = GetUserPermissions(v))]_accessVars

(* The queries that answer who may do what agree: a user listed for a          *)
(* permission has it among its permissions, the permissions come from the      *)
(* active grants whether or not the role is active, the roles of a user are    *)
(* the granted ones that are active, the summaries count the permissions, and   *)
(* the queries over the contact cache never find anything but contacts.        *)
PermissionAnswersAgree ==
  /\ \A op \in Operations, o \in Objects : \A t \in GetUsersByPermission(op, o) :
       <<t[3], t[2]>> \in GetUserPermissions(t[1]) /\ t[3] \in ListACLsByOperation(op) /\ GetUser(t[1]) # {}
  /\ \A u \in DOMAIN users :
       /\ {acl_entity_roles[g].acl_role_id : g \in ListACLEntityRolesByEntity(u)} \cap ListACLRoles
            = {p[1] : p \in GetUserRoles(u)}
       /\ {p[1] : p \in GetUserPermissions(u)}
            = UNION {ListACLsByRole(acl_entity_roles[g].acl_role_id) : g \in ListACLEntityRolesByEntity(u)}
       /\ GetUserPermissionMatrix(u) = GetUserPermissions(u)
       /\ \A s \in GetUserPermissionSummary(u) : s.object_count <= Cardinality(Objects)
       /\ GetUserPermissionSummaryByType(u) = GetUserPermissionSummary(u)
  /\ \A r \in DOMAIN acl_roles : /\ GetRolePermissionMatrix(r) = ListACLsByRole(r) /\ ListACLsByEntity(r) = ListACLsByRole(r)
                                 /\ GetACLRole(r) = {} <=> r \notin ListACLRoles
                                 /\ GetRolePermissionSummary(r) = {} <=> ListACLsByRole(r) = {}
                                 /\ \A g \in ListACLEntityRolesByRole(r) : GetACLEntityRole(g) = {g}
  /\ \A n \in RoleNames : GetACLRoleByName(n) \subseteq ListACLRoles /\ Cardinality(RoleNamed(n)) <= 1
  /\ GetACLStats.total_acls = GetACLStats.deny_rules + GetACLStats.allow_rules
  /\ \A c \in ContactIds, op \in Operations : Accessible(c, op) = {}

(* The joins with the contacts that users stand for lose no user, a user that  *)
(* is found by name comes with the contacts it is listed with, and neither a    *)
(* match nor the contact cache names a contact that is gone.                    *)
UserAnswersAgree ==
  /\ {p[1] : p \in GetUsersWithContacts} = ListUsers
  /\ GetUserStats.admin_users <= GetUserStats.total_users
  /\ \A u \in UserIds, n \in UserNames : u \in GetUserByUsername(n) => GetUserByUsernameWithContact(n) = GetUserWithContact(u)
  /\ \A n \in RoleNames : {p[1] : p \in GetUsersByRoleWithContacts(n)} = {p[1] : p \in ListUsersByRole(n)}
  /\ \A c \in ContactIds : GetUFMatchByContactID(c) # {} => c \in DOMAIN contacts
  /\ \A c \in ContactIds, op \in Operations : GetACLContactCache(c, op) # {} => c \in DOMAIN contacts
=============================================================================
