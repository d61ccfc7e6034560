----------------------------- MODULE Activities ------------------------------
(* Activities, their types and the contacts they involve                     *)
(* (migrations/014_activity_system.sql; generated/activities.sql.go,          *)
(* activity_types.sql.go, activity_contacts.sql.go).  An activity refers to a  *)
(* parent; original_id, which refers to activities likewise, the status, the   *)
(* date and the texts are left out.                                           *)
EXTENDS Contacts

CONSTANTS ActivityIds, ActivityTypeIds, InvolvedIds, ActivityNames,
          Parts         \* the roles, any texts, of contacts in activities and cases

(* There are finitely many uuids, and no role is NULL. *)
ASSUME ActivitiesAssumption == IsFiniteSet(ActivityIds) /\ IsFiniteSet(InvolvedIds) /\ NULL \notin Parts

VARIABLES activities, activity_types, activity_contacts

activityTables == <<activities, activity_types, activity_contacts>>
activityVars == <<contacts, activityTables>>

Activity == [activity_type_id : ActivityTypeIds, parent_id : ActivityIds \cup {NULL}, is_deleted : Flag]
ActivityType == [name : ActivityNames, is_active : Flag, is_reserved : Flag]
ActivityContact == [activity_id : ActivityIds, contact_id : ContactIds,
                    role : Parts \cup {NULL}, is_deleted : Flag]

ActivitiesTypeOK ==
  /\ IsTable(activities, ActivityIds, Activity)
  /\ IsTable(activity_types, ActivityTypeIds, ActivityType)
  /\ IsTable(activity_contacts, InvolvedIds, ActivityContact)

-----------------------------------------------------------------------------
CreateActivityType(t, row) ==
  /\ t \in ActivityTypeIds \ DOMAIN activity_types
  /\ \A u \in DOMAIN activity_types : activity_types[u].name # row.name
  /\ activity_types' = Insert(activity_types, t, row)
  /\ UNCHANGED <<contacts, activities, activity_contacts>>

UpdateActivityType(t, row) ==
  /\ t \in DOMAIN activity_types
  /\ \A u \in DOMAIN activity_types \ {t} : activity_types[u].name # row.name
  /\ activity_types' = [activity_types EXCEPT ![t] = row]
  /\ UNCHANGED <<contacts, activities, activity_contacts>>

(* Also a deleted activity keeps its type in place. *)
DeleteActivityType(t) ==
  /\ \A a \in DOMAIN activities : activities[a].activity_type_id # t
  /\ activity_types' = Without(activity_types, {t})
  /\ UNCHANGED <<contacts, activities, activity_contacts>>

ActivityFits(row) ==
  row.activity_type_id \in DOMAIN activity_types /\ row.parent_id \in DOMAIN activities \cup {NULL}

CreateActivity(a, row) ==
  /\ a \in ActivityIds \ DOMAIN activities /\ ActivityFits(row)
  /\ activities' = Insert(activities, a, row)
  /\ UNCHANGED <<contacts, activity_types, activity_contacts>>

(* An activity may be made its own ancestor, and a deleted one brought back. *)
UpdateActivity(a, row) ==
  /\ a \in DOMAIN activities /\ ActivityFits(row)
  /\ activities' = [activities EXCEPT ![a] = row]
  /\ UNCHANGED <<contacts, activity_types, activity_contacts>>

DeleteActivity(a) ==
  a \in DOMAIN activities /\ UpdateActivity(a, [activities[a] EXCEPT !.is_deleted = TRUE])

InvolvedIn(a) == {i \in DOMAIN activity_contacts : activity_contacts[i].activity_id = a}

(* A mutated form, which leaves the contacts involved. *)
HardDeleteActivityAlone(a) ==
  /\ \A b \in DOMAIN activities \ {a} : activities[b].parent_id # a
  /\ activities' = Without(activities, {a})
  /\ UNCHANGED <<contacts, activity_types, activity_contacts>>

(* The children, deleted ones too, keep their parent in place. *)
HardDeleteActivity(a) ==
  /\ \A b \in DOMAIN activities \ {a} : activities[b].parent_id # a
  /\ activities' = Without(activities, {a})
  /\ activity_contacts' = Without(activity_contacts, InvolvedIn(a))
  /\ UNCHANGED <<contacts, activity_types>>

CreateActivityContact(i, row) ==
  /\ i \in InvolvedIds \ DOMAIN activity_contacts
  /\ row.activity_id \in DOMAIN activities /\ row.contact_id \in DOMAIN contacts
  /\ activity_contacts' = Insert(activity_contacts, i, row)
  /\ UNCHANGED <<contacts, activities, activity_types>>

UpdateActivityContact(i, row) ==
  /\ i \in DOMAIN activity_contacts
  /\ row.activity_id \in DOMAIN activities /\ row.contact_id \in DOMAIN contacts
  /\ activity_contacts' = [activity_contacts EXCEPT ![i] = row]
  /\ UNCHANGED <<contacts, activities, activity_types>>

DeleteActivityContact(i) ==
  i \in DOMAIN activity_contacts /\ UpdateActivityContact(i, [activity_contacts[i] EXCEPT !.is_deleted = TRUE])

HardDeleteActivityContact(i) ==
  /\ activity_contacts' = Without(activity_contacts, {i})
  /\ UNCHANGED <<contacts, activities, activity_types>>

CreateActor(c) == CreateContact(c, SomeContact) /\ UNCHANGED activityTables

DeleteActor(c) ==
  /\ DeleteContact(c)
  /\ activity_contacts' = Without(activity_contacts, {i \in DOMAIN activity_contacts : activity_contacts[i].contact_id = c})
  /\ UNCHANGED <<activities, activity_types>>

-----------------------------------------------------------------------------
(* Queries.  A lookup by id, by name or by label finds deleted rows too.  A     *)
(* search takes the texts of its pattern: hits are the rows they match.         *)

GetActivityType(t) == DOMAIN activity_types \cap {t}
GetActivityTypeByName(n) == {t \in DOMAIN activity_types : activity_types[t].name = n}
SearchActivityTypes(hits) == DOMAIN activity_types \cap hits
ListActivityTypes == DOMAIN activity_types
ListActiveActivityTypes == {t \in DOMAIN activity_types : activity_types[t].is_active = TRUE}
ListReservedActivityTypes == {t \in DOMAIN activity_types : activity_types[t].is_reserved = TRUE}
CountActivityTypes == Cardinality(DOMAIN activity_types)
CountActiveActivityTypes == Cardinality({t \in DOMAIN activity_types : activity_types[t].is_active = TRUE})
CountReservedActivityTypes == Cardinality({t \in DOMAIN activity_types : activity_types[t].is_reserved = TRUE})

GetActivity(a) == DOMAIN activities \cap {a}
ListAllActivities == {a \in DOMAIN activities : activities[a].is_deleted = FALSE}
SearchActivities(hits) == {a \in hits \cap DOMAIN activities : activities[a].is_deleted = FALSE}
CountActivities == Cardinality({a \in DOMAIN activities : activities[a].is_deleted = FALSE})
GetActivitiesByType(t) == {a \in ListAllActivities : activities[a].activity_type_id = t}
CountActivitiesByType(t) == Cardinality({a \in ListAllActivities : activities[a].activity_type_id = t})
(* A row per involvement, whether or not that is deleted: an activity that      *)
(* involves a contact in two roles comes twice and counts twice.                *)
GetActivitiesByContact(c) ==
  {x \in ListAllActivities \X (DOMAIN activity_contacts) :
     activity_contacts[x[2]].activity_id = x[1] /\ activity_contacts[x[2]].contact_id = c}
CountActivitiesByContact(c) == Cardinality(GetActivitiesByContact(c))

GetActivityContact(i) == DOMAIN activity_contacts \cap {i}
ListAllActivityContacts == {i \in DOMAIN activity_contacts : activity_contacts[i].is_deleted = FALSE}
GetActivityContactsByActivity(a) == {i \in ListAllActivityContacts : activity_contacts[i].activity_id = a}
GetActivityContactsByContact(c) == {i \in ListAllActivityContacts : activity_contacts[i].contact_id = c}
GetActivityContactsByRole(r) == {i \in ListAllActivityContacts : Eq(activity_contacts[i].role, r)}
SearchActivityContacts(R) == {i \in ListAllActivityContacts : activity_contacts[i].role \in R \ {NULL}}
CountActivityContacts == Cardinality({i \in DOMAIN activity_contacts : activity_contacts[i].is_deleted = FALSE})
CountActivityContactsByActivity(a) == Cardinality({i \in ListAllActivityContacts : activity_contacts[i].activity_id = a})
CountActivityContactsByContact(c) == Cardinality({i \in ListAllActivityContacts : activity_contacts[i].contact_id = c})
CountActivityContactsByRole(r) == Cardinality({i \in ListAllActivityContacts : Eq(activity_contacts[i].role, r)})

-----------------------------------------------------------------------------
ActivitiesInit == activities = NoRows /\ activity_types = NoRows /\ activity_contacts = NoRows

ActivitiesNext ==
  \/ \E c \in ContactIds : CreateActor(c) \/ DeleteActor(c)
  \/ \E t \in ActivityTypeIds : \/ DeleteActivityType(t)
                                \/ \E n \in ActivityNames, act \in Flags :
                                     LET row == [name |-> n, is_active |-> act, is_reserved |-> act]
                                     IN  CreateActivityType(t, row) \/ UpdateActivityType(t, row)
  \/ \E a \in ActivityIds : \/ DeleteActivity(a) \/ HardDeleteActivity(a)
                            \/ \E t \in ActivityTypeIds, p \in ActivityIds \cup {NULL}, del \in Flags \cup {FALSE} :
                                 LET row == [activity_type_id |-> t, parent_id |-> p, is_deleted |-> del]
                                 IN  CreateActivity(a, row) \/ UpdateActivity(a, row)
  \/ \E i \in InvolvedIds : \/ DeleteActivityContact(i) \/ HardDeleteActivityContact(i)
                            \/ \E a \in ActivityIds, c \in ContactIds, r \in Parts \cup {NULL}, del \in Flags \cup {FALSE} :
                                 LET row == [activity_id |-> a, contact_id |-> c, role |-> r, is_deleted |-> del]
                                 IN  CreateActivityContact(i, row) \/ UpdateActivityContact(i, row)

ActivitiesSpec == ContactsInit /\ ActivitiesInit /\ [][ActivitiesNext]_activityVars

-----------------------------------------------------------------------------
(* Marking as deleted, deleting for good and deleting contacts leave no         *)
(* activity without its type or its parent and no involvement without either    *)
(* side, also when an update has made activities each other's parents.          *)
ActivityRefs ==
  /\ \A a \in DOMAIN activities : ActivityFits(activities[a])
  /\ \A i \in DOMAIN activity_contacts : /\ activity_contacts[i].activity_id \in DOMAIN activities
                                         /\ activity_contacts[i].contact_id \in DOMAIN contacts
  /\ \A t, u \in DOMAIN activity_types : t # u => activity_types[t].name # activity_types[u].name

(* The listings by type, by activity, by contact and by role hold what the      *)
(* listings of all hold, but for an involvement without a role, which no role   *)
(* finds; what two types or two roles count is no more than all count; parents  *)
(* and types are found; what is listed of a contact is listed by contact, an    *)
(* activity whose involvement was deleted too; and a name finds one type.       *)
ActivityAnswersAgree ==
  /\ ListAllActivities = UNION {GetActivitiesByType(t) : t \in ListActivityTypes}
  /\ \A t, u \in ActivityTypeIds :
       t # u => CountActivitiesByType(t) + CountActivitiesByType(u) <= CountActivities
  /\ \A a \in ListAllActivities : /\ GetActivityType(activities[a].activity_type_id) # {}
                                  /\ activities[a].parent_id # NULL => GetActivity(activities[a].parent_id) # {}
  /\ \A c \in ContactIds :
       /\ {activity_contacts[i].activity_id : i \in GetActivityContactsByContact(c)} \cap ListAllActivities
            \subseteq {p[1] : p \in GetActivitiesByContact(c)}
       /\ CountActivitiesByContact(c) # 0 => c \in ListAllContacts
  /\ ListAllActivityContacts = UNION {GetActivityContactsByActivity(a) : a \in DOMAIN activities}
  /\ ListAllActivityContacts = UNION {GetActivityContactsByContact(c) : c \in ListAllContacts}
  /\ {i \in ListAllActivityContacts : activity_contacts[i].role # NULL} = UNION {GetActivityContactsByRole(r) : r \in Parts}
  /\ \A r, q \in Parts : r # q => CountActivityContactsByRole(r) + CountActivityContactsByRole(q) <= CountActivityContacts
  /\ \A n \in ActivityNames : Cardinality(GetActivityTypeByName(n)) <= 1
=============================================================================
