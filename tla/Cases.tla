-------------------------------- MODULE Cases --------------------------------
(* Cases, their types and statuses, the contacts that take part and the       *)
(* activities that belong to them (migrations/018_case_management.sql;        *)
(* generated/cases.sql.go, case_types, case_status, case_contacts,            *)
(* case_activities).  Dates, weights and texts are left out.                  *)
EXTENDS Activities

CONSTANTS CaseIds, CaseTypeIds, CaseStatusIds, PartyIds, CaseActivityIds, CaseNames,
          StatusNames, Groupings     \* the names and the groups, any texts, of statuses

(* There are finitely many uuids, no text is NULL, and a client may write the  *)
(* texts that the statements look for.                                         *)
ASSUME CasesAssumption ==
  /\ IsFiniteSet(CaseIds) /\ IsFiniteSet(PartyIds) /\ IsFiniteSet(CaseActivityIds)
  /\ {"Open", "Closed"} \subseteq Groupings \cap StatusNames /\ NULL \notin Groupings

VARIABLES cases, case_types, case_status, case_contacts, case_activities

caseTables == <<cases, case_types, case_status, case_contacts, case_activities>>
caseVars == <<activityVars, caseTables>>

CaseType == [name : CaseNames, is_active : Flag]
CaseStatus == [name : StatusNames, grouping : Groupings \cup {NULL}, is_active : Flag]
Case == [case_type_id : CaseTypeIds, status_id : CaseStatusIds, is_deleted : Flag]
CaseContact == [case_id : CaseIds, contact_id : ContactIds, role : Parts, is_active : Flag]
CaseActivity == [case_id : CaseIds, activity_id : ActivityIds, is_deleted : Flag]

CasesTypeOK ==
  /\ IsTable(cases, CaseIds, Case)
  /\ IsTable(case_types, CaseTypeIds, CaseType) /\ IsTable(case_status, CaseStatusIds, CaseStatus)
  /\ IsTable(case_contacts, PartyIds, CaseContact) /\ IsTable(case_activities, CaseActivityIds, CaseActivity)

-----------------------------------------------------------------------------
(* Types and statuses; the names are UNIQUE. *)

CreateCaseType(t, n, act) ==
  /\ t \in CaseTypeIds \ DOMAIN case_types
  /\ \A u \in DOMAIN case_types : case_types[u].name # n
  /\ case_types' = Insert(case_types, t, [name |-> n, is_active |-> act])
  /\ UNCHANGED <<activityVars, cases, case_status, case_contacts, case_activities>>

UpdateCaseType(t, n, act) ==
  /\ t \in DOMAIN case_types
  /\ \A u \in DOMAIN case_types \ {t} : case_types[u].name # n
  /\ case_types' = [case_types EXCEPT ![t] = [name |-> n, is_active |-> act]]
  /\ UNCHANGED <<activityVars, cases, case_status, case_contacts, case_activities>>

ActivateCaseType(t) == t \in DOMAIN case_types /\ UpdateCaseType(t, case_types[t].name, TRUE)
DeactivateCaseType(t) == t \in DOMAIN case_types /\ UpdateCaseType(t, case_types[t].name, FALSE)

DeleteCaseType(t) ==
  /\ \A c \in DOMAIN cases : cases[c].case_type_id # t
  /\ case_types' = Without(case_types, {t})
  /\ UNCHANGED <<activityVars, cases, case_status, case_contacts, case_activities>>

CreateCaseStatus(s, row) ==
  /\ s \in CaseStatusIds \ DOMAIN case_status
  /\ \A u \in DOMAIN case_status : case_status[u].name # row.name
  /\ case_status' = Insert(case_status, s, row)
  /\ UNCHANGED <<activityVars, cases, case_types, case_contacts, case_activities>>

UpdateCaseStatus(s, row) ==
  /\ s \in DOMAIN case_status
  /\ \A u \in DOMAIN case_status \ {s} : case_status[u].name # row.name
  /\ case_status' = [case_status EXCEPT ![s] = row]
  /\ UNCHANGED <<activityVars, cases, case_types, case_contacts, case_activities>>

ActivateCaseStatus(s) == s \in DOMAIN case_status /\ UpdateCaseStatus(s, [case_status[s] EXCEPT !.is_active = TRUE])
DeactivateCaseStatus(s) == s \in DOMAIN case_status /\ UpdateCaseStatus(s, [case_status[s] EXCEPT !.is_active = FALSE])

DeleteCaseStatus(s) ==
  /\ \A c \in DOMAIN cases : cases[c].status_id # s
  /\ case_status' = Without(case_status, {s})
  /\ UNCHANGED <<activityVars, cases, case_types, case_contacts, case_activities>>

-----------------------------------------------------------------------------
(* Cases. *)

CreateCase(c, row) ==
  /\ c \in CaseIds \ DOMAIN cases
  /\ row.case_type_id \in DOMAIN case_types /\ row.status_id \in DOMAIN case_status
  /\ cases' = Insert(cases, c, row)
  /\ UNCHANGED <<activityVars, case_types, case_status, case_contacts, case_activities>>

UpdateCase(c, row) ==
  /\ c \in DOMAIN cases
  /\ row.case_type_id \in DOMAIN case_types /\ row.status_id \in DOMAIN case_status
  /\ cases' = [cases EXCEPT ![c] = row]
  /\ UNCHANGED <<activityVars, case_types, case_status, case_contacts, case_activities>>

UpdateCaseStatusById(c, s) == c \in DOMAIN cases /\ UpdateCase(c, [cases[c] EXCEPT !.status_id = s])
DeleteCase(c) == c \in DOMAIN cases /\ UpdateCase(c, [cases[c] EXCEPT !.is_deleted = TRUE])

(* A mutated form, which looks at the name alone. *)
ClosedStatusByName == {s \in DOMAIN case_status : case_status[s].name = "Closed"}

(* Without the status called Closed in the group Closed, which may have been  *)
(* renamed or deleted, the subquery is NULL and the statement fails.          *)
ClosedStatus == {s \in DOMAIN case_status : case_status[s].grouping = "Closed" /\ case_status[s].name = "Closed"}
CloseCase(c) == \E s \in ClosedStatus : UpdateCaseStatusById(c, s)

PartiesOf(c) == {p \in DOMAIN case_contacts : case_contacts[p].case_id = c}
FiledIn(c) == {f \in DOMAIN case_activities : case_activities[f].case_id = c}

(* A mutated form, which forgets what is filed in the case. *)
HardDeleteCaseKeepingFiles(c) ==
  /\ cases' = Without(cases, {c})
  /\ case_contacts' = Without(case_contacts, PartiesOf(c))
  /\ UNCHANGED <<activityVars, case_types, case_status, case_activities>>

HardDeleteCase(c) ==
  /\ cases' = Without(cases, {c})
  /\ case_contacts' = Without(case_contacts, PartiesOf(c))
  /\ case_activities' = Without(case_activities, FiledIn(c))
  /\ UNCHANGED <<activityVars, case_types, case_status>>

-----------------------------------------------------------------------------
(* Contacts and activities of cases; a contact may take part in a case, and an *)
(* activity be filed in it, any number of times.                               *)

CreateCaseContact(p, row) ==
  /\ p \in PartyIds \ DOMAIN case_contacts
  /\ row.case_id \in DOMAIN cases /\ row.contact_id \in DOMAIN contacts
  /\ case_contacts' = Insert(case_contacts, p, row)
  /\ UNCHANGED <<activityVars, cases, case_types, case_status, case_activities>>

UpdateCaseContact(p, row) ==
  /\ p \in DOMAIN case_contacts
  /\ row.case_id \in DOMAIN cases /\ row.contact_id \in DOMAIN contacts
  /\ case_contacts' = [case_contacts EXCEPT ![p] = row]
  /\ UNCHANGED <<activityVars, cases, case_types, case_status, case_activities>>

UpdateCaseContactRole(p, r) == p \in DOMAIN case_contacts /\ UpdateCaseContact(p, [case_contacts[p] EXCEPT !.role = r])
ActivateCaseContact(p) == p \in DOMAIN case_contacts /\ UpdateCaseContact(p, [case_contacts[p] EXCEPT !.is_active = TRUE])
DeactivateCaseContact(p) == p \in DOMAIN case_contacts /\ UpdateCaseContact(p, [case_contacts[p] EXCEPT !.is_active = FALSE])

DeleteCaseContact(p) ==
  /\ case_contacts' = Without(case_contacts, {p})
  /\ UNCHANGED <<activityVars, cases, case_types, case_status, case_activities>>

CreateCaseActivity(f, row) ==
  /\ f \in CaseActivityIds \ DOMAIN case_activities
  /\ row.case_id \in DOMAIN cases /\ row.activity_id \in DOMAIN activities
  /\ case_activities' = Insert(case_activities, f, row)
  /\ UNCHANGED <<activityVars, cases, case_types, case_status, case_contacts>>

UpdateCaseActivity(f, row) ==
  /\ f \in DOMAIN case_activities
  /\ row.case_id \in DOMAIN cases /\ row.activity_id \in DOMAIN activities
  /\ case_activities' = [case_activities EXCEPT ![f] = row]
  /\ UNCHANGED <<activityVars, cases, case_types, case_status, case_contacts>>

DeleteCaseActivity(f) ==
  f \in DOMAIN case_activities /\ UpdateCaseActivity(f, [case_activities[f] EXCEPT !.is_deleted = TRUE])

HardDeleteCaseActivity(f) ==
  /\ case_activities' = Without(case_activities, {f})
  /\ UNCHANGED <<activityVars, cases, case_types, case_status, case_contacts>>

(* What the activities' own statements do to the cases. *)
HardDeleteFiledActivity(a) ==
  /\ HardDeleteActivity(a)
  /\ case_activities' = Without(case_activities, {f \in DOMAIN case_activities : case_activities[f].activity_id = a})
  /\ UNCHANGED <<cases, case_types, case_status, case_contacts>>

DeleteParty(k) ==
  /\ DeleteActor(k)
  /\ case_contacts' = Without(case_contacts, {p \in DOMAIN case_contacts : case_contacts[p].contact_id = k})
  /\ UNCHANGED <<cases, case_types, case_status, case_activities>>

-----------------------------------------------------------------------------
(* Queries.  Only a case whose is_deleted is FALSE is listed.  A search takes    *)
(* texts: hits are the rows, and names the type names, that they match.          *)

GetCaseType(t) == DOMAIN case_types \cap {t}
GetCaseTypeByName(n) == {t \in DOMAIN case_types : case_types[t].name = n}
ListCaseTypes(act) == {t \in DOMAIN case_types : Eq(case_types[t].is_active, act)}
ListActiveCaseTypes == {t \in DOMAIN case_types : case_types[t].is_active = TRUE}
SearchCaseTypes(hits, act) == {t \in hits \cap DOMAIN case_types : Eq(case_types[t].is_active, act)}
GetCaseStatus(s) == DOMAIN case_status \cap {s}
GetCaseStatusByName(n) == {s \in DOMAIN case_status : case_status[s].name = n}
ListCaseStatus(act) == {s \in DOMAIN case_status : Eq(case_status[s].is_active, act)}
ListActiveCaseStatus == {s \in DOMAIN case_status : case_status[s].is_active = TRUE}
ListCaseStatusByGrouping(g, act) ==
  {s \in DOMAIN case_status : Eq(case_status[s].grouping, g) /\ Eq(case_status[s].is_active, act)}
ListOpenCaseStatus(act) == {s \in DOMAIN case_status : case_status[s].grouping = "Open" /\ Eq(case_status[s].is_active, act)}
ListClosedCaseStatus(act) ==
  {s \in DOMAIN case_status : case_status[s].grouping = "Closed" /\ Eq(case_status[s].is_active, act)}
SearchCaseStatus(hits, act) == {s \in hits \cap DOMAIN case_status : Eq(case_status[s].is_active, act)}

ListCases == {c \in DOMAIN cases : cases[c].is_deleted = FALSE}
GetCase(c) == {d \in DOMAIN cases : d = c /\ cases[d].is_deleted = FALSE}
GetCaseCount == Cardinality({c \in DOMAIN cases : cases[c].is_deleted = FALSE})
GetCaseWithDetails(c) == {d \in ListCases : /\ d = c /\ cases[d].case_type_id \in DOMAIN case_types
                                            /\ cases[d].status_id \in DOMAIN case_status}
ListCasesByType(t) == {c \in ListCases : cases[c].case_type_id = t}
ListCasesByStatus(s) == {c \in ListCases : cases[c].status_id = s}
ListCasesByStatusGrouping(g) == {c \in ListCases : Eq(case_status[cases[c].status_id].grouping, g)}
ListOpenCases == {c \in ListCases : case_status[cases[c].status_id].grouping = "Open"}
ListClosedCases == {c \in ListCases : case_status[cases[c].status_id].grouping = "Closed"}
SearchCases(hits, names) == {c \in ListCases : c \in hits \/ case_types[cases[c].case_type_id].name \in names}
ListCasesByContact(k) == {x \in ListCases \X (DOMAIN case_contacts) :
                            case_contacts[x[2]].case_id = x[1] /\ case_contacts[x[2]].contact_id = k}
ListCasesByContactRole(k, r) == {q \in ListCasesByContact(k) : case_contacts[q[2]].role = r}
GetCaseTypeStats(act) == [t \in ListCaseTypes(act) |-> Cardinality(ListCasesByType(t))]
GetCaseStatusStats(act) == [s \in ListCaseStatus(act) |-> Cardinality(ListCasesByStatus(s))]
GetCaseStats(act) == [p \in ListCaseTypes(act) \X ListCaseStatus(act) |->
                        Cardinality(ListCasesByType(p[1]) \cap ListCasesByStatus(p[2]))]

GetCaseContact(p) == DOMAIN case_contacts \cap {p}
ListCaseContacts == DOMAIN case_contacts
ListActiveCaseContacts == {p \in DOMAIN case_contacts : case_contacts[p].is_active = TRUE}
ListCaseContactsByRole(r) == {p \in DOMAIN case_contacts : case_contacts[p].role = r}
GetActiveCaseContacts(c) == {p \in PartiesOf(c) : case_contacts[p].is_active = TRUE}
GetCaseContactsByCase(c) == {p \in DOMAIN case_contacts : case_contacts[p].case_id = c}
GetCaseContactsByContact(k) == {p \in DOMAIN case_contacts : case_contacts[p].contact_id = k}
GetCaseContactsByRole(c, r) == {p \in PartiesOf(c) : case_contacts[p].role = r}
GetCaseContactByCaseAndContact(c, k) == {p \in PartiesOf(c) : case_contacts[p].contact_id = k}
SearchCaseContacts(hits) == {p \in DOMAIN case_contacts : case_contacts[p].contact_id \in hits \cap DOMAIN contacts}
GetCaseContactStats(act) ==
  LET Asked == {p \in DOMAIN case_contacts : Eq(case_contacts[p].is_active, act)}
  IN  [r \in {case_contacts[p].role : p \in Asked} |-> Cardinality({p \in Asked : case_contacts[p].role = r})]
GetCaseParticipantSummary == [c \in ListCases |-> Cardinality(GetActiveCaseContacts(c))]

(* The joins with activities do not ask whether the activity is deleted. *)
ListCaseActivities == {f \in DOMAIN case_activities : case_activities[f].is_deleted = FALSE}
GetCaseActivity(f) == {g \in ListCaseActivities : g = f}
GetCaseActivitiesByCase(c) == {f \in ListCaseActivities : case_activities[f].case_id = c}
GetCaseActivitiesByActivity(a) == {f \in ListCaseActivities : case_activities[f].activity_id = a}
GetCaseActivityCount(c) == Cardinality({f \in FiledIn(c) : case_activities[f].is_deleted = FALSE})
GetCaseActivitiesWithDetails(c) ==
  {f \in ListCaseActivities : /\ case_activities[f].case_id = c /\ case_activities[f].activity_id \in DOMAIN activities
                              /\ activities[case_activities[f].activity_id].activity_type_id \in DOMAIN activity_types}
ListCaseActivitiesByType(t) == {f \in ListCaseActivities : activities[case_activities[f].activity_id].activity_type_id = t}
GetCaseActivityStats(c) ==
  [t \in {activities[case_activities[f].activity_id].activity_type_id : f \in GetCaseActivitiesByCase(c)} |->
     Cardinality(GetCaseActivitiesByCase(c) \cap ListCaseActivitiesByType(t))]
SearchCaseActivities(hits) == {f \in ListCaseActivities : case_activities[f].activity_id \in hits \cap DOMAIN activities}
(* activity_contacts has no column record_type. *)
GetCaseTimeline(c) == Refused

-----------------------------------------------------------------------------
CasesInit == /\ cases = NoRows /\ case_types = NoRows /\ case_status = NoRows
             /\ case_contacts = NoRows /\ case_activities = NoRows

CaseStatusNext ==
  \/ \E t \in CaseTypeIds : \/ ActivateCaseType(t) \/ DeactivateCaseType(t) \/ DeleteCaseType(t)
                            \/ \E n \in CaseNames, act \in Flags : CreateCaseType(t, n, act) \/ UpdateCaseType(t, n, act)
  \/ \E s \in CaseStatusIds : \/ ActivateCaseStatus(s) \/ DeactivateCaseStatus(s) \/ DeleteCaseStatus(s)
                              \/ \E n \in StatusNames, g \in Groupings \cup {NULL}, act \in Flags :
                                   LET row == [name |-> n, grouping |-> g, is_active |-> act]
                                   IN  CreateCaseStatus(s, row) \/ UpdateCaseStatus(s, row)
  \/ \E c \in CaseIds : \/ CloseCase(c) \/ DeleteCase(c) \/ HardDeleteCase(c)
                        \/ \E s \in CaseStatusIds : UpdateCaseStatusById(c, s)
                        \/ \E t \in CaseTypeIds, s \in CaseStatusIds, del \in Flags \cup {FALSE} :
                             LET row == [case_type_id |-> t, status_id |-> s, is_deleted |-> del]
                             IN  CreateCase(c, row) \/ UpdateCase(c, row)

OpenCase(c) == \E t \in CaseTypeIds, s \in CaseStatusIds :
  CreateCase(c, [case_type_id |-> t, status_id |-> s, is_deleted |-> FALSE])
CaseSetUp == \/ \E t \in CaseTypeIds, n \in CaseNames : CreateCaseType(t, n, TRUE)
             \/ \E s \in CaseStatusIds : CreateCaseStatus(s, [name |-> "Open", grouping |-> "Open", is_active |-> TRUE])

PartiesNext ==
  \/ CaseSetUp
  \/ \E k \in ContactIds : DeleteParty(k) \/ (CreateActor(k) /\ UNCHANGED caseTables)
  \/ \E c \in CaseIds : OpenCase(c) \/ DeleteCase(c) \/ HardDeleteCase(c)
  \/ \E p \in PartyIds : \/ ActivateCaseContact(p) \/ DeactivateCaseContact(p) \/ DeleteCaseContact(p)
                         \/ \E r \in Parts : UpdateCaseContactRole(p, r)
                         \/ \E c \in CaseIds, k \in ContactIds, r \in Parts, act \in Flags :
                              LET row == [case_id |-> c, contact_id |-> k, role |-> r, is_active |-> act]
                              IN  CreateCaseContact(p, row) \/ UpdateCaseContact(p, row)

FilingNext ==
  \/ CaseSetUp
  \/ UNCHANGED caseTables /\ \E t \in ActivityTypeIds, n \in ActivityNames :
       CreateActivityType(t, [name |-> n, is_active |-> TRUE, is_reserved |-> NULL]) \/ DeleteActivityType(t)
  \/ UNCHANGED caseTables /\ \E a \in ActivityIds, t \in ActivityTypeIds, p \in ActivityIds \cup {NULL} :
       CreateActivity(a, [activity_type_id |-> t, parent_id |-> p, is_deleted |-> FALSE]) \/ DeleteActivity(a)
  \/ \E a \in ActivityIds : HardDeleteFiledActivity(a)
  \/ \E c \in CaseIds : OpenCase(c) \/ DeleteCase(c) \/ HardDeleteCase(c)
  \/ \E f \in CaseActivityIds : \/ DeleteCaseActivity(f) \/ HardDeleteCaseActivity(f)
                                \/ \E c \in CaseIds, a \in ActivityIds, del \in Flags \cup {FALSE} :
                                     LET row == [case_id |-> c, activity_id |-> a, is_deleted |-> del]
                                     IN  CreateCaseActivity(f, row) \/ UpdateCaseActivity(f, row)

(* The activities' own statements, but for those that delete what cases refer *)
(* to: for these the cascades above stand.                                    *)
ActivitiesAround ==
  /\ ActivitiesNext /\ UNCHANGED caseTables
  /\ DOMAIN contacts \subseteq DOMAIN contacts' /\ DOMAIN activities \subseteq DOMAIN activities'

CasesNext == CaseStatusNext \/ PartiesNext \/ FilingNext \/ ActivitiesAround
CasesSpec == ContactsInit /\ ActivitiesInit /\ CasesInit /\ [][CasesNext]_caseVars

-----------------------------------------------------------------------------
(* Cases, activities and contacts are deleted for good or only marked, in any   *)
(* order, from either side of what joins them: no row refers to one that is     *)
(* gone, and a type or a status that a marked case still has stays.             *)
CaseRefs ==
  /\ \A c \in DOMAIN cases : cases[c].case_type_id \in DOMAIN case_types /\ cases[c].status_id \in DOMAIN case_status
  /\ \A p \in DOMAIN case_contacts : /\ case_contacts[p].case_id \in DOMAIN cases
                                     /\ case_contacts[p].contact_id \in DOMAIN contacts
  /\ \A f \in DOMAIN case_activities : /\ case_activities[f].case_id \in DOMAIN cases
                                       /\ case_activities[f].activity_id \in DOMAIN activities
  /\ \A s, t \in DOMAIN case_status : s # t => case_status[s].name # case_status[t].name
  /\ \A s, t \in DOMAIN case_types : s # t => case_types[s].name # case_types[t].name

(* CloseCase (cases.sql:98-102) looks the status up when it is called.  Unless  *)
(* it fails, the case it closes is listed among the closed ones and no longer   *)
(* among the open ones, however the statuses were renamed, regrouped or         *)
(* deactivated before; a case marked as deleted is listed nowhere.              *)
CloseCaseCloses ==
  [][\A c \in DOMAIN cases : CloseCase(c) =>
       IF c \in ListCases THEN c \in ListClosedCases' /\ c \notin ListOpenCases'
       ELSE c \notin ListClosedCases' \cup ListOpenCases']_caseVars

(* The queries on cases agree: the listings by status, by type and by a search  *)
(* for the type's name with the listing of all, the open and the closed cases    *)
(* with the statuses listed as such, the statistics with the listings, the       *)
(* joins with what they join, and the parties from either side; a name finds     *)
(* one type and one status, so that CloseCase has no choice.                     *)
CaseAnswersAgree ==
  /\ ListCases = UNION {ListCasesByStatus(s) : s \in DOMAIN case_status}
  /\ ListCases = UNION {ListCasesByType(t) : t \in DOMAIN case_types}
  /\ \A n \in CaseNames : /\ SearchCases({}, {n}) = UNION {ListCasesByType(t) : t \in GetCaseTypeByName(n)}
                          /\ Cardinality(GetCaseTypeByName(n)) <= 1
  /\ \A n \in StatusNames : Cardinality(GetCaseStatusByName(n)) <= 1
  /\ \A c \in CaseIds : GetCaseWithDetails(c) = GetCase(c)
  /\ \A act \in BOOLEAN :
       /\ UNION {ListCasesByStatus(s) : s \in ListOpenCaseStatus(act)} \subseteq ListOpenCases \ ListClosedCases
       /\ UNION {ListCasesByStatus(s) : s \in ListClosedCaseStatus(act)} \subseteq ListClosedCases \ ListOpenCases
  /\ \A p \in DOMAIN GetCaseStats(TRUE) : /\ GetCaseStats(TRUE)[p] <= GetCaseTypeStats(TRUE)[p[1]]
                                          /\ GetCaseStats(TRUE)[p] <= GetCaseStatusStats(TRUE)[p[2]]
  /\ \A k \in ContactIds : ListCasesByContact(k) = UNION {ListCasesByContactRole(k, r) : r \in Parts}
  /\ \A K \in SUBSET ContactIds : SearchCaseContacts(K) = UNION {GetCaseContactsByContact(k) : k \in K}
  /\ ListCaseContacts = UNION {GetCaseContactsByCase(c) : c \in DOMAIN cases}
  /\ \A c \in ListCases : GetCaseParticipantSummary[c] <= Cardinality(GetCaseContactsByCase(c))
  /\ \A r \in DOMAIN GetCaseContactStats(TRUE) :
       GetCaseContactStats(TRUE)[r] \in 1..Cardinality(ListCaseContactsByRole(r))

(* What is filed in cases is listed alike with its details, by type, by          *)
(* activity and by a search, for an activity that is marked as deleted too, and  *)
(* no type is counted that nothing filed has.                                    *)
FilingAnswersAgree ==
  /\ \A c \in CaseIds :
       /\ GetCaseActivitiesWithDetails(c) = GetCaseActivitiesByCase(c)
       /\ \A t \in DOMAIN GetCaseActivityStats(c) : GetCaseActivityStats(c)[t] \in 1..GetCaseActivityCount(c)
  /\ ListCaseActivities = UNION {ListCaseActivitiesByType(t) : t \in DOMAIN activity_types}
  /\ ListCaseActivities = UNION {GetCaseActivitiesByActivity(a) : a \in DOMAIN activities}
  /\ \A S \in SUBSET ActivityIds : SearchCaseActivities(S) = UNION {GetCaseActivitiesByActivity(a) : a \in S}
=============================================================================
