------------------------------ MODULE Campaigns ------------------------------
(* Campaigns, their types and statuses, and the contacts that take part      *)
(* (migrations/020_campaign_management.sql, generated/campaigns.sql.go,      *)
(* campaign_types.sql.go, campaign_status.sql.go, campaign_contacts.sql.go). *)
(* Left out: dates, revenues, weights and external identifiers.              *)
EXTENDS Contacts

CONSTANTS CampaignIds, CampaignTypeIds, CampaignStatusIds, ParticipantIds,
          CampaignNames,   \* the names of types and statuses
          CampaignRoles,   \* what a participant is to a campaign
          CampaignGroupings   \* the groups, any texts, of statuses

(* There are finitely many uuids, and NULL is neither one nor a text. *)
ASSUME CampaignsAssumption ==
  /\ IsFiniteSet(CampaignIds) /\ IsFiniteSet(ParticipantIds)
  /\ NULL \notin CampaignIds \cup CampaignGroupings \cup {"Planned", "Active", "Completed", "Cancelled"}

VARIABLES campaigns, campaign_types, campaign_status, campaign_contacts

campaignKinds == <<campaign_types, campaign_status>>
campaignTables == <<campaigns, campaignKinds, campaign_contacts>>
campaignVars == <<contacts, campaignTables>>

(* No constraint ties campaign_type_id and status_id to a type or a status. *)
Campaign == [parent_id : CampaignIds \cup {NULL}, campaign_type_id : CampaignTypeIds \cup {NULL},
             status_id : CampaignStatusIds \cup {NULL}, is_active : Flag]
CampaignType == [name : CampaignNames, is_active : Flag]
CampaignStatus == [name : CampaignNames, grouping : CampaignGroupings \cup {NULL}, is_active : Flag]
CampaignContact == [campaign_id : CampaignIds, contact_id : ContactIds, role : CampaignRoles, is_active : Flag]

CampaignsTypeOK ==
  /\ IsTable(campaigns, CampaignIds, Campaign)
  /\ IsTable(campaign_types, CampaignTypeIds, CampaignType)
  /\ IsTable(campaign_status, CampaignStatusIds, CampaignStatus)
  /\ IsTable(campaign_contacts, ParticipantIds, CampaignContact)

-----------------------------------------------------------------------------
CreateCampaign(c, row) ==
  /\ c \in CampaignIds \ DOMAIN campaigns
  /\ row.parent_id \in DOMAIN campaigns \cup {NULL}
  /\ campaigns' = Insert(campaigns, c, row)
  /\ UNCHANGED <<contacts, campaignKinds, campaign_contacts>>

(* The parent may be the campaign itself or one of its descendants. *)
UpdateCampaign(c, row) ==
  /\ c \in DOMAIN campaigns
  /\ row.parent_id \in DOMAIN campaigns \cup {NULL}
  /\ campaigns' = [campaigns EXCEPT ![c] = row]
  /\ UNCHANGED <<contacts, campaignKinds, campaign_contacts>>

UpdateCampaignStatusById(c, s) ==
  /\ c \in DOMAIN campaigns
  /\ campaigns' = [campaigns EXCEPT ![c].status_id = s]
  /\ UNCHANGED <<contacts, campaignKinds, campaign_contacts>>

ActivateCampaign(c) ==
  /\ c \in DOMAIN campaigns
  /\ campaigns' = [campaigns EXCEPT ![c].is_active = TRUE]
  /\ UNCHANGED <<contacts, campaignKinds, campaign_contacts>>

DeactivateCampaign(c) ==
  /\ c \in DOMAIN campaigns
  /\ campaigns' = [campaigns EXCEPT ![c].is_active = FALSE]
  /\ UNCHANGED <<contacts, campaignKinds, campaign_contacts>>

(* A mutated form, which leaves the campaigns below it. *)
DeleteCampaignAbove(c) ==
  /\ c \in DOMAIN campaigns
  /\ campaigns' = Without(campaigns, {c})
  /\ campaign_contacts' = Without(campaign_contacts,
       {p \in DOMAIN campaign_contacts : campaign_contacts[p].campaign_id = c})
  /\ UNCHANGED <<contacts, campaignKinds>>

(* A campaign below it prevents it; its participants go with it. *)
DeleteCampaign(c) ==
  /\ c \in DOMAIN campaigns
  /\ \A d \in DOMAIN campaigns \ {c} : campaigns[d].parent_id # c
  /\ campaigns' = Without(campaigns, {c})
  /\ campaign_contacts' = Without(campaign_contacts,
       {p \in DOMAIN campaign_contacts : campaign_contacts[p].campaign_id = c})
  /\ UNCHANGED <<contacts, campaignKinds>>

CampaignTypeTaken(n, t) == \E u \in DOMAIN campaign_types \ {t} : campaign_types[u].name = n
CampaignStatusTaken(n, s) == \E u \in DOMAIN campaign_status \ {s} : campaign_status[u].name = n

CreateCampaignType(t, row) ==
  /\ t \in CampaignTypeIds \ DOMAIN campaign_types
  /\ ~CampaignTypeTaken(row.name, t)
  /\ campaign_types' = Insert(campaign_types, t, row)
  /\ UNCHANGED <<contacts, campaigns, campaign_status, campaign_contacts>>

UpdateCampaignType(t, row) ==
  /\ t \in DOMAIN campaign_types
  /\ ~CampaignTypeTaken(row.name, t)
  /\ campaign_types' = [campaign_types EXCEPT ![t] = row]
  /\ UNCHANGED <<contacts, campaigns, campaign_status, campaign_contacts>>

ActivateCampaignType(t) ==
  /\ t \in DOMAIN campaign_types
  /\ campaign_types' = [campaign_types EXCEPT ![t].is_active = TRUE]
  /\ UNCHANGED <<contacts, campaigns, campaign_status, campaign_contacts>>

DeactivateCampaignType(t) ==
  /\ t \in DOMAIN campaign_types
  /\ campaign_types' = [campaign_types EXCEPT ![t].is_active = FALSE]
  /\ UNCHANGED <<contacts, campaigns, campaign_status, campaign_contacts>>

(* Campaigns of the type keep its id. *)
DeleteCampaignType(t) ==
  /\ t \in DOMAIN campaign_types
  /\ campaign_types' = Without(campaign_types, {t})
  /\ UNCHANGED <<contacts, campaigns, campaign_status, campaign_contacts>>

CreateCampaignStatus(s, row) ==
  /\ s \in CampaignStatusIds \ DOMAIN campaign_status
  /\ ~CampaignStatusTaken(row.name, s)
  /\ campaign_status' = Insert(campaign_status, s, row)
  /\ UNCHANGED <<contacts, campaigns, campaign_types, campaign_contacts>>

UpdateCampaignStatus(s, row) ==
  /\ s \in DOMAIN campaign_status
  /\ ~CampaignStatusTaken(row.name, s)
  /\ campaign_status' = [campaign_status EXCEPT ![s] = row]
  /\ UNCHANGED <<contacts, campaigns, campaign_types, campaign_contacts>>

ActivateCampaignStatus(s) ==
  /\ s \in DOMAIN campaign_status
  /\ campaign_status' = [campaign_status EXCEPT ![s].is_active = TRUE]
  /\ UNCHANGED <<contacts, campaigns, campaign_types, campaign_contacts>>

DeactivateCampaignStatus(s) ==
  /\ s \in DOMAIN campaign_status
  /\ campaign_status' = [campaign_status EXCEPT ![s].is_active = FALSE]
  /\ UNCHANGED <<contacts, campaigns, campaign_types, campaign_contacts>>

DeleteCampaignStatus(s) ==
  /\ s \in DOMAIN campaign_status
  /\ campaign_status' = Without(campaign_status, {s})
  /\ UNCHANGED <<contacts, campaigns, campaign_types, campaign_contacts>>

-----------------------------------------------------------------------------
(* Participants: a contact may take part in a campaign more than once. *)

CreateCampaignContact(p, row) ==
  /\ p \in ParticipantIds \ DOMAIN campaign_contacts
  /\ row.campaign_id \in DOMAIN campaigns /\ row.contact_id \in DOMAIN contacts
  /\ campaign_contacts' = Insert(campaign_contacts, p, row)
  /\ UNCHANGED <<contacts, campaigns, campaignKinds>>

UpdateCampaignContact(p, row) ==
  /\ p \in DOMAIN campaign_contacts
  /\ row.campaign_id \in DOMAIN campaigns /\ row.contact_id \in DOMAIN contacts
  /\ campaign_contacts' = [campaign_contacts EXCEPT ![p] = row]
  /\ UNCHANGED <<contacts, campaigns, campaignKinds>>

UpdateCampaignContactRole(p, r) ==
  /\ p \in DOMAIN campaign_contacts
  /\ campaign_contacts' = [campaign_contacts EXCEPT ![p].role = r]
  /\ UNCHANGED <<contacts, campaigns, campaignKinds>>

ActivateCampaignContact(p) ==
  /\ p \in DOMAIN campaign_contacts
  /\ campaign_contacts' = [campaign_contacts EXCEPT ![p].is_active = TRUE]
  /\ UNCHANGED <<contacts, campaigns, campaignKinds>>

DeactivateCampaignContact(p) ==
  /\ p \in DOMAIN campaign_contacts
  /\ campaign_contacts' = [campaign_contacts EXCEPT ![p].is_active = FALSE]
  /\ UNCHANGED <<contacts, campaigns, campaignKinds>>

DeleteCampaignContact(p) ==
  /\ p \in DOMAIN campaign_contacts
  /\ campaign_contacts' = Without(campaign_contacts, {p})
  /\ UNCHANGED <<contacts, campaigns, campaignKinds>>

CreateSupporter(k) ==
  /\ CreateContact(k, SomeContact)
  /\ UNCHANGED <<campaigns, campaignKinds, campaign_contacts>>

DeleteSupporter(k) ==
  /\ DeleteContact(k)
  /\ campaign_contacts' = Without(campaign_contacts,
       {p \in DOMAIN campaign_contacts : campaign_contacts[p].contact_id = k})
  /\ UNCHANGED <<campaigns, campaignKinds>>

-----------------------------------------------------------------------------
(* Queries.  A search takes texts: hits are the rows that they match. *)

GetCampaign(c) == DOMAIN campaigns \cap {c}
ListCampaigns == DOMAIN campaigns
ListActiveCampaigns == {c \in DOMAIN campaigns : campaigns[c].is_active = TRUE}
GetCampaignsByParent(c) == {d \in DOMAIN campaigns : Eq(campaigns[d].parent_id, c)}
GetCampaignsByType(t) == {c \in DOMAIN campaigns : Eq(campaigns[c].campaign_type_id, t)}
GetCampaignsByStatus(s) == {c \in DOMAIN campaigns : Eq(campaigns[c].status_id, s)}
(* Scans SUM(goal_revenue), a DECIMAL(15,2), into an int64, once per group. *)
GetCampaignStats(act) ==
  IF \E c \in DOMAIN campaigns : Eq(campaigns[c].is_active, act) THEN Refused ELSE {}

(* A mutated form, which starts from every active campaign. *)
HierarchyRootsAnywhere == {c \in DOMAIN campaigns : campaigns[c].is_active = TRUE}
HierarchyRoots == {c \in DOMAIN campaigns : campaigns[c].parent_id = NULL /\ campaigns[c].is_active = TRUE}

(* The recursive query starts from the active roots and adds, level by level,  *)
(* the active campaigns below those of the level before.  UNION ALL keeps what *)
(* it meets again: the query ends when a level is empty.                       *)
HierarchyLevel[n \in Nat] ==
  IF n = 0 THEN HierarchyRoots
  ELSE {c \in DOMAIN campaigns : campaigns[c].parent_id \in HierarchyLevel[n - 1] /\ campaigns[c].is_active = TRUE}
GetCampaignHierarchy ==
  {x \in (DOMAIN campaigns) \X (0..Cardinality(DOMAIN campaigns)) : x[1] \in HierarchyLevel[x[2]]}

GetCampaignType(t) == DOMAIN campaign_types \cap {t}
GetCampaignTypeByName(n) == {t \in DOMAIN campaign_types : campaign_types[t].name = n}
ListCampaignTypes(act) == {t \in DOMAIN campaign_types : Eq(campaign_types[t].is_active, act)}
ListActiveCampaignTypes == {t \in DOMAIN campaign_types : campaign_types[t].is_active = TRUE}
SearchCampaignTypes(hits, act) == {t \in hits \cap DOMAIN campaign_types : Eq(campaign_types[t].is_active, act)}
GetCampaignTypeStats(act) ==
  [t \in ListCampaignTypes(act) |-> Cardinality({c \in DOMAIN campaigns : Eq(campaigns[c].campaign_type_id, t)
                                                                          /\ campaigns[c].is_active = TRUE})]

GetCampaignStatus(s) == DOMAIN campaign_status \cap {s}
GetCampaignStatusByName(n) == {s \in DOMAIN campaign_status : campaign_status[s].name = n}
ListCampaignStatus(act) == {s \in DOMAIN campaign_status : Eq(campaign_status[s].is_active, act)}
ListActiveCampaignStatus == {s \in DOMAIN campaign_status : campaign_status[s].is_active = TRUE}
ListCampaignStatusByGrouping(g, act) ==
  {s \in DOMAIN campaign_status : Eq(campaign_status[s].grouping, g) /\ Eq(campaign_status[s].is_active, act)}
ListPlannedCampaignStatus(act) == {s \in ListCampaignStatus(act) : campaign_status[s].grouping = "Planned"}
ListActiveCampaignStatuses(act) == {s \in ListCampaignStatus(act) : campaign_status[s].grouping = "Active"}
ListCompletedCampaignStatus(act) == {s \in ListCampaignStatus(act) : campaign_status[s].grouping = "Completed"}
ListCancelledCampaignStatus(act) == {s \in ListCampaignStatus(act) : campaign_status[s].grouping = "Cancelled"}
SearchCampaignStatus(hits, act) == {s \in hits \cap DOMAIN campaign_status : Eq(campaign_status[s].is_active, act)}
GetCampaignStatusStats(act) ==
  [s \in ListCampaignStatus(act) |-> Cardinality({c \in DOMAIN campaigns : Eq(campaigns[c].status_id, s)
                                                                           /\ campaigns[c].is_active = TRUE})]

GetCampaignContact(p) == DOMAIN campaign_contacts \cap {p}
ListCampaignContacts == DOMAIN campaign_contacts
ListActiveCampaignContacts == {p \in DOMAIN campaign_contacts : campaign_contacts[p].is_active = TRUE}
ListCampaignContactsByRole(r) == {p \in DOMAIN campaign_contacts : campaign_contacts[p].role = r}
GetCampaignContactsByCampaign(c) == {p \in DOMAIN campaign_contacts : campaign_contacts[p].campaign_id = c}
GetCampaignContactsByContact(k) == {p \in DOMAIN campaign_contacts : campaign_contacts[p].contact_id = k}
GetCampaignContactsByRole(c, r) == {p \in GetCampaignContactsByCampaign(c) : campaign_contacts[p].role = r}
GetActiveCampaignContacts(c) == {p \in GetCampaignContactsByCampaign(c) : campaign_contacts[p].is_active = TRUE}
GetCampaignContactByCampaignAndContact(c, k) == {p \in GetCampaignContactsByCampaign(c) : campaign_contacts[p].contact_id = k}
SearchCampaignContacts(hits) == {p \in DOMAIN campaign_contacts : campaign_contacts[p].contact_id \in hits \cap DOMAIN contacts}
GetCampaignContactStats(act) ==
  LET Asked == {p \in DOMAIN campaign_contacts : Eq(campaign_contacts[p].is_active, act)}
  IN  [r \in {campaign_contacts[p].role : p \in Asked} |-> Cardinality({p \in Asked : campaign_contacts[p].role = r})]
GetCampaignParticipantSummary(act) ==
  [c \in {d \in DOMAIN campaigns : Eq(campaigns[d].is_active, act)} |-> Cardinality(GetActiveCampaignContacts(c))]

-----------------------------------------------------------------------------
CampaignsInit == /\ campaigns = NoRows /\ campaign_types = NoRows
                 /\ campaign_status = NoRows /\ campaign_contacts = NoRows

SomeCampaign == [parent_id |-> NULL, campaign_type_id |-> NULL, status_id |-> NULL, is_active |-> TRUE]

HierarchyNext == \E c \in CampaignIds :
  \/ ActivateCampaign(c) \/ DeactivateCampaign(c) \/ DeleteCampaign(c)
  \/ \E p \in CampaignIds \cup {NULL}, t \in CampaignTypeIds \cup {NULL}, s \in CampaignStatusIds \cup {NULL}, act \in Flags :
       LET row == [parent_id |-> p, campaign_type_id |-> t, status_id |-> s, is_active |-> act]
       IN  CreateCampaign(c, row) \/ UpdateCampaign(c, row)

CampaignKindsNext ==
  \/ \E c \in CampaignIds, t \in CampaignTypeIds \cup {NULL} :
       \/ CreateCampaign(c, [parent_id |-> NULL, campaign_type_id |-> t, status_id |-> NULL, is_active |-> TRUE])
       \/ \E s \in CampaignStatusIds \cup {NULL} : t = NULL /\ UpdateCampaignStatusById(c, s)
  \/ \E t \in CampaignTypeIds : \/ ActivateCampaignType(t) \/ DeactivateCampaignType(t) \/ DeleteCampaignType(t)
                                \/ \E n \in CampaignNames, act \in Flags :
                                     LET row == [name |-> n, is_active |-> act]
                                     IN  CreateCampaignType(t, row) \/ UpdateCampaignType(t, row)
  \/ \E s \in CampaignStatusIds : \/ ActivateCampaignStatus(s) \/ DeactivateCampaignStatus(s) \/ DeleteCampaignStatus(s)
                                  \/ \E n \in CampaignNames, g \in CampaignGroupings \cup {NULL}, act \in Flags :
                                       LET row == [name |-> n, grouping |-> g, is_active |-> act]
                                       IN  CreateCampaignStatus(s, row) \/ UpdateCampaignStatus(s, row)

ParticipantsNext ==
  \/ \E k \in ContactIds : CreateSupporter(k) \/ DeleteSupporter(k)
  \/ \E c \in CampaignIds : DeactivateCampaign(c) \/ DeleteCampaign(c) \/ CreateCampaign(c, SomeCampaign)
  \/ \E p \in ParticipantIds : \/ ActivateCampaignContact(p) \/ DeactivateCampaignContact(p) \/ DeleteCampaignContact(p)
                               \/ \E r \in CampaignRoles : UpdateCampaignContactRole(p, r)
                               \/ \E c \in CampaignIds, k \in ContactIds, r \in CampaignRoles, act \in Flags :
                                    LET row == [campaign_id |-> c, contact_id |-> k, role |-> r, is_active |-> act]
                                    IN  CreateCampaignContact(p, row) \/ UpdateCampaignContact(p, row)

CampaignsNext == HierarchyNext \/ CampaignKindsNext \/ ParticipantsNext
CampaignsSpec == ContactsInit /\ CampaignsInit /\ [][CampaignsNext]_campaignVars

-----------------------------------------------------------------------------
(* A campaign is kept while another has it as its parent, and participants go  *)
(* with either of the two rows they tie together: however the statements are   *)
(* mixed, no row of the two tables refers to a row that is gone.               *)
CampaignRefs ==
  /\ \A c \in DOMAIN campaigns : campaigns[c].parent_id \in DOMAIN campaigns \cup {NULL}
  /\ \A p \in DOMAIN campaign_contacts : /\ campaign_contacts[p].campaign_id \in DOMAIN campaigns
                                         /\ campaign_contacts[p].contact_id \in DOMAIN contacts

(* UpdateCampaign may close a cycle of parents (campaigns.sql:54), but the      *)
(* recursive GetCampaignHierarchy (campaigns.sql:96) comes down from the roots: *)
(* it ends, meets each campaign once, at the level after its parent's, and      *)
(* answers with no campaign of a cycle nor, active or not, with one below an    *)
(* inactive campaign.                                                           *)
HierarchyIsTree ==
  /\ HierarchyLevel[Cardinality(DOMAIN campaigns)] = {}
  /\ \A x, y \in GetCampaignHierarchy : x[1] = y[1] => x = y
  /\ \A x \in GetCampaignHierarchy :
       \/ x[2] = 0 /\ campaigns[x[1]].parent_id = NULL
       \/ \E y \in GetCampaignHierarchy : y[1] = campaigns[x[1]].parent_id /\ x[2] = y[2] + 1
  /\ \A x \in GetCampaignHierarchy : GetCampaign(x[1]) \subseteq ListActiveCampaigns
  /\ \A c \in ListActiveCampaigns \ {x[1] : x \in GetCampaignHierarchy} :
       campaigns[c].parent_id \in ListCampaigns \ {x[1] : x \in GetCampaignHierarchy}

(* A name finds one type and one status, and the statistics count no active     *)
(* campaign under two of them, also while campaigns name types and statuses     *)
(* that are gone.  The four listings by grouping miss the active statuses of    *)
(* any other group, which their own listings have, and those without a group,   *)
(* which no listing by grouping has.  Campaigns below another are found from    *)
(* it, participants alike by campaign, by contact and by role, and statistics   *)
(* by role count none as both active and not.                                   *)
CampaignAnswersAgree ==
  /\ \A t \in DOMAIN campaign_types : GetCampaignType(t) = GetCampaignTypeByName(campaign_types[t].name)
  /\ \A s \in DOMAIN campaign_status : GetCampaignStatus(s) = GetCampaignStatusByName(campaign_status[s].name)
  /\ \A t, u \in ListCampaignTypes(TRUE) : t # u =>
       GetCampaignTypeStats(TRUE)[t] + GetCampaignTypeStats(TRUE)[u] <= Cardinality(ListActiveCampaigns)
  /\ \A s, u \in ListCampaignStatus(TRUE) : s # u =>
       GetCampaignStatusStats(TRUE)[s] + GetCampaignStatusStats(TRUE)[u] <= Cardinality(ListActiveCampaigns)
  /\ ListActiveCampaignStatus \ (ListPlannedCampaignStatus(TRUE) \cup ListActiveCampaignStatuses(TRUE)
                                   \cup ListCompletedCampaignStatus(TRUE) \cup ListCancelledCampaignStatus(TRUE))
       = {s \in ListActiveCampaignStatus : campaign_status[s].grouping = NULL}
         \cup UNION {ListCampaignStatusByGrouping(g, TRUE) : g \in CampaignGroupings \ {"Planned", "Active", "Completed", "Cancelled"}}
  /\ {d \in ListCampaigns : campaigns[d].parent_id # NULL} = UNION {GetCampaignsByParent(c) : c \in ListCampaigns}
  /\ \A c \in ListActiveCampaigns :
       GetCampaignParticipantSummary(TRUE)[c] <= Cardinality(GetCampaignContactsByCampaign(c))
  /\ \A r \in CampaignRoles : ListCampaignContactsByRole(r) = UNION {GetCampaignContactsByRole(c, r) : c \in ListCampaigns}
  /\ \A r \in (DOMAIN GetCampaignContactStats(TRUE)) \cap DOMAIN GetCampaignContactStats(FALSE) :
       GetCampaignContactStats(TRUE)[r] + GetCampaignContactStats(FALSE)[r] <= Cardinality(ListCampaignContactsByRole(r))
  /\ \A K \in SUBSET ContactIds : SearchCampaignContacts(K) = UNION {GetCampaignContactsByContact(k) : k \in K}
=============================================================================
