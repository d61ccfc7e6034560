---------------------------- MODULE RecordsProofs -----------------------------
(* Campaigns, events and surveys keep their types and their references, and *)
(* their queries answer alike, for any ids, names, contacts and Boolean     *)
(* values that clients pass.  Each section has the inductive invariant of   *)
(* one module, a lemma for each group of its statements, and the theorems.  *)
(* The last sections put all modules of the data layer side by side.        *)
EXTENDS MCRecords, PledgesProofs, WellFoundedInduction

-----------------------------------------------------------------------------
(* Campaigns: the references need no more than the types. *)

CampaignInv == CampaignsTypeOK /\ CampaignRefs

LEMMA CampaignWritten ==
  ASSUME CampaignInv, NEW c \in CampaignIds, NEW row \in Campaign, row.parent_id \in DOMAIN campaigns \cup {NULL},
         Writes(campaigns, campaigns', c, row), UNCHANGED <<contacts, campaignKinds, campaign_contacts>>
  PROVE  CampaignInv'
  <1>1. IsTable(campaigns, CampaignIds, Campaign)
    BY DEF CampaignInv, CampaignsTypeOK
  <1>2. /\ IsTable(campaigns', CampaignIds, Campaign)
        /\ DOMAIN campaigns \cup {c} = DOMAIN campaigns'
        /\ campaigns'[c] = row
        /\ \A j \in DOMAIN campaigns \ {c} : campaigns'[j] = campaigns[j]
    BY <1>1 DEF IsTable, Insert, Writes
  <1>3. CampaignRefs'
    BY <1>2 DEF CampaignInv, CampaignRefs
  <1> QED BY <1>2, <1>3 DEF CampaignInv, CampaignsTypeOK, campaignKinds

LEMMA CampaignFieldWritten ==
  ASSUME CampaignInv, NEW c \in CampaignIds, NEW s \in CampaignStatusIds \cup {NULL},
         UpdateCampaignStatusById(c, s) \/ ActivateCampaign(c) \/ DeactivateCampaign(c)
  PROVE  CampaignInv'
  <1>1. IsTable(campaigns, CampaignIds, Campaign) /\ c \in DOMAIN campaigns
    BY DEF CampaignInv, CampaignsTypeOK, UpdateCampaignStatusById, ActivateCampaign, DeactivateCampaign
  <1>2. campaigns[c] \in Campaign /\ campaigns[c].parent_id \in DOMAIN campaigns \cup {NULL}
    BY <1>1 DEF IsTable, CampaignInv, CampaignRefs
  <1>3. PICK row : \/ row = [campaigns[c] EXCEPT !.status_id = s] /\ UpdateCampaignStatusById(c, s)
                   \/ row = [campaigns[c] EXCEPT !.is_active = TRUE] /\ ActivateCampaign(c)
                   \/ row = [campaigns[c] EXCEPT !.is_active = FALSE] /\ DeactivateCampaign(c)
    OBVIOUS
  <1>4. row \in Campaign /\ row.parent_id = campaigns[c].parent_id
    BY <1>2, <1>3 DEF Campaign, Flag
  <1>5. Writes(campaigns, campaigns', c, row) /\ UNCHANGED <<contacts, campaignKinds, campaign_contacts>>
    BY <1>1, <1>3 DEF UpdateCampaignStatusById, ActivateCampaign, DeactivateCampaign, Writes
  <1> QED BY <1>2, <1>4, <1>5, CampaignWritten

LEMMA CampaignDeleted ==
  ASSUME CampaignInv, NEW c \in CampaignIds, DeleteCampaign(c)
  PROVE  CampaignInv'
  <1>0. PICK P : P = {p \in DOMAIN campaign_contacts : campaign_contacts[p].campaign_id = c}
    OBVIOUS
  <1>1. /\ IsTable(campaigns, CampaignIds, Campaign) /\ IsTable(campaign_contacts, ParticipantIds, CampaignContact)
        /\ campaigns' = Without(campaigns, {c}) /\ campaign_contacts' = Without(campaign_contacts, P)
    BY <1>0 DEF CampaignInv, CampaignsTypeOK, DeleteCampaign
  <1>2. /\ IsTable(campaigns', CampaignIds, Campaign)
        /\ DOMAIN campaigns' = DOMAIN campaigns \ {c}
        /\ \A j \in DOMAIN campaigns \ {c} : campaigns'[j] = campaigns[j]
    BY <1>1 DEF IsTable, Without
  <1>3. /\ IsTable(campaign_contacts', ParticipantIds, CampaignContact)
        /\ DOMAIN campaign_contacts' = DOMAIN campaign_contacts \ P
        /\ \A p \in DOMAIN campaign_contacts \ P : campaign_contacts'[p] = campaign_contacts[p]
    BY <1>1 DEF IsTable, Without
  <1>4. contacts' = contacts /\ \A d \in DOMAIN campaigns \ {c} : campaigns[d].parent_id # c
    BY DEF DeleteCampaign
  <1>5. \A d \in DOMAIN campaigns' : campaigns'[d].parent_id \in DOMAIN campaigns' \cup {NULL}
    BY <1>2, <1>4 DEF CampaignInv, CampaignRefs
  <1>6. \A p \in DOMAIN campaign_contacts' : /\ campaign_contacts'[p].campaign_id \in DOMAIN campaigns'
                                             /\ campaign_contacts'[p].contact_id \in DOMAIN contacts'
    BY <1>0, <1>2, <1>3, <1>4 DEF CampaignInv, CampaignRefs
  <1> QED BY <1>2, <1>3, <1>5, <1>6 DEF CampaignRefs, CampaignInv, CampaignsTypeOK, DeleteCampaign, campaignKinds

(* Nothing refers to types and statuses. *)
LEMMA CampaignKindsKept ==
  ASSUME CampaignInv, UNCHANGED <<contacts, campaigns, campaign_contacts>>,
         IsTable(campaign_types', CampaignTypeIds, CampaignType),
         IsTable(campaign_status', CampaignStatusIds, CampaignStatus)
  PROVE  CampaignInv'
  BY DEF CampaignInv, CampaignsTypeOK, CampaignRefs

LEMMA CampaignTypeKeeps ==
  ASSUME CampaignInv, NEW t \in CampaignTypeIds,
         \/ \E row \in CampaignType : CreateCampaignType(t, row) \/ UpdateCampaignType(t, row)
         \/ ActivateCampaignType(t) \/ DeactivateCampaignType(t) \/ DeleteCampaignType(t)
  PROVE  CampaignInv'
  <1>1. IsTable(campaign_types, CampaignTypeIds, CampaignType) /\ IsTable(campaign_status, CampaignStatusIds, CampaignStatus)
    BY DEF CampaignInv, CampaignsTypeOK
  <1>2. UNCHANGED <<contacts, campaigns, campaign_status, campaign_contacts>>
    BY DEF CreateCampaignType, UpdateCampaignType, ActivateCampaignType, DeactivateCampaignType, DeleteCampaignType
  <1>3. IsTable(campaign_types', CampaignTypeIds, CampaignType)
    <2>1. CASE \E row \in CampaignType : CreateCampaignType(t, row) \/ UpdateCampaignType(t, row)
      BY <1>1, <2>1 DEF CreateCampaignType, UpdateCampaignType, IsTable, Insert
    <2>2. CASE ActivateCampaignType(t) \/ DeactivateCampaignType(t)
      BY <1>1, <2>2 DEF ActivateCampaignType, DeactivateCampaignType, IsTable, CampaignType, Flag
    <2>3. CASE DeleteCampaignType(t)
      BY <1>1, <2>3 DEF DeleteCampaignType, IsTable, Without
    <2> QED BY <2>1, <2>2, <2>3
  <1> QED BY <1>1, <1>2, <1>3, CampaignKindsKept

LEMMA CampaignStatusKeeps ==
  ASSUME CampaignInv, NEW s \in CampaignStatusIds,
         \/ \E row \in CampaignStatus : CreateCampaignStatus(s, row) \/ UpdateCampaignStatus(s, row)
         \/ ActivateCampaignStatus(s) \/ DeactivateCampaignStatus(s) \/ DeleteCampaignStatus(s)
  PROVE  CampaignInv'
  <1>1. IsTable(campaign_types, CampaignTypeIds, CampaignType) /\ IsTable(campaign_status, CampaignStatusIds, CampaignStatus)
    BY DEF CampaignInv, CampaignsTypeOK
  <1>2. UNCHANGED <<contacts, campaigns, campaign_types, campaign_contacts>>
    BY DEF CreateCampaignStatus, UpdateCampaignStatus, ActivateCampaignStatus, DeactivateCampaignStatus, DeleteCampaignStatus
  <1>3. IsTable(campaign_status', CampaignStatusIds, CampaignStatus)
    <2>1. CASE \E row \in CampaignStatus : CreateCampaignStatus(s, row) \/ UpdateCampaignStatus(s, row)
      BY <1>1, <2>1 DEF CreateCampaignStatus, UpdateCampaignStatus, IsTable, Insert
    <2>2. CASE ActivateCampaignStatus(s) \/ DeactivateCampaignStatus(s)
      BY <1>1, <2>2 DEF ActivateCampaignStatus, DeactivateCampaignStatus, IsTable, CampaignStatus, Flag
    <2>3. CASE DeleteCampaignStatus(s)
      BY <1>1, <2>3 DEF DeleteCampaignStatus, IsTable, Without
    <2> QED BY <2>1, <2>2, <2>3
  <1> QED BY <1>1, <1>2, <1>3, CampaignKindsKept

(* Participants that are written tie rows that are there. *)
LEMMA ParticipantWritten ==
  ASSUME CampaignInv, NEW p \in ParticipantIds, NEW row \in CampaignContact,
         row.campaign_id \in DOMAIN campaigns, row.contact_id \in DOMAIN contacts,
         Writes(campaign_contacts, campaign_contacts', p, row), UNCHANGED <<contacts, campaigns, campaignKinds>>
  PROVE  CampaignInv'
  <1>1. IsTable(campaign_contacts, ParticipantIds, CampaignContact)
    BY DEF CampaignInv, CampaignsTypeOK
  <1>2. /\ IsTable(campaign_contacts', ParticipantIds, CampaignContact)
        /\ DOMAIN campaign_contacts' = DOMAIN campaign_contacts \cup {p}
        /\ campaign_contacts'[p] = row
        /\ \A q \in DOMAIN campaign_contacts \ {p} : campaign_contacts'[q] = campaign_contacts[q]
    BY <1>1 DEF IsTable, Insert, Writes
  <1>3. CampaignRefs'
    BY <1>2 DEF CampaignInv, CampaignRefs
  <1> QED BY <1>2, <1>3 DEF CampaignInv, CampaignsTypeOK, campaignKinds

LEMMA ParticipantFieldWritten ==
  ASSUME CampaignInv, NEW p \in ParticipantIds,
         (\E r \in CampaignRoles : UpdateCampaignContactRole(p, r)) \/ ActivateCampaignContact(p) \/ DeactivateCampaignContact(p)
  PROVE  CampaignInv'
  <1>1. IsTable(campaign_contacts, ParticipantIds, CampaignContact) /\ p \in DOMAIN campaign_contacts
    BY DEF CampaignInv, CampaignsTypeOK, UpdateCampaignContactRole, ActivateCampaignContact, DeactivateCampaignContact
  <1>2. /\ campaign_contacts[p] \in CampaignContact
        /\ campaign_contacts[p].campaign_id \in DOMAIN campaigns /\ campaign_contacts[p].contact_id \in DOMAIN contacts
    BY <1>1 DEF IsTable, CampaignInv, CampaignRefs
  <1>3. PICK row : \/ \E r \in CampaignRoles : /\ row = [campaign_contacts[p] EXCEPT !.role = r]
                                                /\ UpdateCampaignContactRole(p, r)
                   \/ row = [campaign_contacts[p] EXCEPT !.is_active = TRUE] /\ ActivateCampaignContact(p)
                   \/ row = [campaign_contacts[p] EXCEPT !.is_active = FALSE] /\ DeactivateCampaignContact(p)
    OBVIOUS
  <1>4. /\ row \in CampaignContact
        /\ row.campaign_id = campaign_contacts[p].campaign_id /\ row.contact_id = campaign_contacts[p].contact_id
    BY <1>2, <1>3 DEF CampaignContact, Flag
  <1>5. Writes(campaign_contacts, campaign_contacts', p, row) /\ UNCHANGED <<contacts, campaigns, campaignKinds>>
    BY <1>1, <1>3 DEF UpdateCampaignContactRole, ActivateCampaignContact, DeactivateCampaignContact, Writes
  <1> QED BY <1>2, <1>4, <1>5, ParticipantWritten

(* Participants go, of one row or with a contact, and no more. *)
LEMMA ParticipantsDeleted ==
  ASSUME CampaignInv, NEW P, campaign_contacts' = Without(campaign_contacts, P), UNCHANGED <<campaigns, campaignKinds>>,
         \A p \in DOMAIN campaign_contacts \ P : campaign_contacts[p].contact_id \in DOMAIN contacts'
  PROVE  CampaignInv'
  <1>1. IsTable(campaign_contacts, ParticipantIds, CampaignContact)
    BY DEF CampaignInv, CampaignsTypeOK
  <1>2. /\ IsTable(campaign_contacts', ParticipantIds, CampaignContact)
        /\ DOMAIN campaign_contacts' = DOMAIN campaign_contacts \ P
        /\ \A p \in DOMAIN campaign_contacts \ P : campaign_contacts'[p] = campaign_contacts[p]
    BY <1>1 DEF IsTable, Without
  <1>3. CampaignRefs'
    BY <1>2 DEF CampaignInv, CampaignRefs
  <1> QED BY <1>2, <1>3 DEF CampaignInv, CampaignsTypeOK, campaignKinds

LEMMA SupporterKeeps ==
  ASSUME CampaignInv, NEW k \in ContactIds, CreateSupporter(k) \/ DeleteSupporter(k)
  PROVE  CampaignInv'
  <1>1. CASE CreateSupporter(k)
    <2>1. DOMAIN contacts \subseteq DOMAIN contacts' /\ UNCHANGED <<campaigns, campaignKinds, campaign_contacts>>
      BY <1>1 DEF CreateSupporter, CreateContact, Insert
    <2> QED BY <2>1 DEF CampaignInv, CampaignsTypeOK, CampaignRefs, campaignKinds
  <1>2. CASE DeleteSupporter(k)
    <2>1. PICK P : P = {p \in DOMAIN campaign_contacts : campaign_contacts[p].contact_id = k}
      OBVIOUS
    <2>2. /\ DOMAIN contacts' = DOMAIN contacts \ {k} /\ UNCHANGED <<campaigns, campaignKinds>>
          /\ campaign_contacts' = Without(campaign_contacts, P)
      BY <1>2, <2>1 DEF DeleteSupporter, DeleteContact, Without
    <2>3. \A p \in DOMAIN campaign_contacts \ P : campaign_contacts[p].contact_id \in DOMAIN contacts'
      BY <2>1, <2>2 DEF CampaignInv, CampaignRefs
    <2> QED BY <2>2, <2>3, ParticipantsDeleted
  <1> QED BY <1>1, <1>2

LEMMA CampaignInitInv == ContactsInit /\ CampaignsInit => CampaignInv
  BY DEF ContactsInit, CampaignsInit, CampaignInv, CampaignsTypeOK, CampaignRefs, IsTable, NoRows

LEMMA HierarchyKeeps == CampaignInv /\ HierarchyNext => CampaignInv'
  <1> SUFFICES ASSUME CampaignInv, HierarchyNext PROVE CampaignInv'
    OBVIOUS
  <1>1. PICK c \in CampaignIds :
          \/ ActivateCampaign(c) \/ DeactivateCampaign(c) \/ DeleteCampaign(c)
          \/ \E p \in CampaignIds \cup {NULL}, t \in CampaignTypeIds \cup {NULL}, s \in CampaignStatusIds \cup {NULL}, act \in Flags :
               LET row == [parent_id |-> p, campaign_type_id |-> t, status_id |-> s, is_active |-> act]
               IN  CreateCampaign(c, row) \/ UpdateCampaign(c, row)
    BY DEF HierarchyNext
  <1>2. CASE ActivateCampaign(c) \/ DeactivateCampaign(c)
    BY <1>2, CampaignFieldWritten
  <1>3. CASE DeleteCampaign(c)
    BY <1>3, CampaignDeleted
  <1>4. ASSUME NEW p \in CampaignIds \cup {NULL}, NEW t \in CampaignTypeIds \cup {NULL},
               NEW s \in CampaignStatusIds \cup {NULL}, NEW act \in Flags, NEW row,
               row = [parent_id |-> p, campaign_type_id |-> t, status_id |-> s, is_active |-> act],
               CreateCampaign(c, row) \/ UpdateCampaign(c, row)
        PROVE  CampaignInv'
    <2>1. row \in Campaign
      BY <1>4, RelationalAssumption DEF Campaign
    <2> QED BY <1>4, <2>1, CampaignWritten DEF CreateCampaign, UpdateCampaign, Writes
  <1> QED BY <1>1, <1>2, <1>3, <1>4

LEMMA CampaignKindsKeep == CampaignInv /\ CampaignKindsNext => CampaignInv'
  <1> SUFFICES ASSUME CampaignInv, CampaignKindsNext PROVE CampaignInv'
    OBVIOUS
  <1>1. ASSUME NEW c \in CampaignIds, NEW t \in CampaignTypeIds \cup {NULL}, NEW row,
               row = [parent_id |-> NULL, campaign_type_id |-> t, status_id |-> NULL, is_active |-> TRUE],
               CreateCampaign(c, row)
        PROVE  CampaignInv'
    <2>1. row \in Campaign
      BY <1>1 DEF Campaign, Flag
    <2> QED BY <1>1, <2>1, CampaignWritten DEF CreateCampaign, Writes
  <1>2. ASSUME NEW c \in CampaignIds, NEW s \in CampaignStatusIds \cup {NULL}, UpdateCampaignStatusById(c, s)
        PROVE  CampaignInv'
    BY <1>2, CampaignFieldWritten
  <1>3. ASSUME NEW t \in CampaignTypeIds,
               \/ ActivateCampaignType(t) \/ DeactivateCampaignType(t) \/ DeleteCampaignType(t)
               \/ \E n \in CampaignNames, act \in Flags :
                    LET row == [name |-> n, is_active |-> act]
                    IN  CreateCampaignType(t, row) \/ UpdateCampaignType(t, row)
        PROVE  CampaignInv'
    <2>1. \A n \in CampaignNames, act \in Flags : [name |-> n, is_active |-> act] \in CampaignType
      BY RelationalAssumption DEF CampaignType
    <2> QED BY <1>3, <2>1, CampaignTypeKeeps
  <1>4. ASSUME NEW s \in CampaignStatusIds,
               \/ ActivateCampaignStatus(s) \/ DeactivateCampaignStatus(s) \/ DeleteCampaignStatus(s)
               \/ \E n \in CampaignNames, g \in CampaignGroupings \cup {NULL}, act \in Flags :
                    LET row == [name |-> n, grouping |-> g, is_active |-> act]
                    IN  CreateCampaignStatus(s, row) \/ UpdateCampaignStatus(s, row)
        PROVE  CampaignInv'
    <2>1. \A n \in CampaignNames, g \in CampaignGroupings \cup {NULL}, act \in Flags :
            [name |-> n, grouping |-> g, is_active |-> act] \in CampaignStatus
      BY RelationalAssumption DEF CampaignStatus
    <2> QED BY <1>4, <2>1, CampaignStatusKeeps
  <1> QED BY <1>1, <1>2, <1>3, <1>4 DEF CampaignKindsNext

LEMMA ParticipantsKeep == CampaignInv /\ ParticipantsNext => CampaignInv'
  <1> SUFFICES ASSUME CampaignInv, ParticipantsNext PROVE CampaignInv'
    OBVIOUS
  <1>1. ASSUME NEW k \in ContactIds, CreateSupporter(k) \/ DeleteSupporter(k)
        PROVE  CampaignInv'
    BY <1>1, SupporterKeeps
  <1>2. ASSUME NEW c \in CampaignIds, DeactivateCampaign(c) \/ DeleteCampaign(c) \/ CreateCampaign(c, SomeCampaign)
        PROVE  CampaignInv'
    <2>1. SomeCampaign \in Campaign /\ SomeCampaign.parent_id = NULL
      BY DEF SomeCampaign, Campaign, Flag
    <2>2. CASE CreateCampaign(c, SomeCampaign)
      BY <2>1, <2>2, CampaignWritten DEF CreateCampaign, Writes
    <2> QED BY <1>2, <2>2, CampaignFieldWritten, CampaignDeleted
  <1>3. ASSUME NEW p \in ParticipantIds,
               \/ ActivateCampaignContact(p) \/ DeactivateCampaignContact(p)
               \/ \E r \in CampaignRoles : UpdateCampaignContactRole(p, r)
        PROVE  CampaignInv'
    BY <1>3, ParticipantFieldWritten
  <1>4. ASSUME NEW p \in ParticipantIds, DeleteCampaignContact(p)
        PROVE  CampaignInv'
    <2>1. /\ campaign_contacts' = Without(campaign_contacts, {p}) /\ UNCHANGED <<contacts, campaigns, campaignKinds>>
          /\ \A q \in DOMAIN campaign_contacts \ {p} : campaign_contacts[q].contact_id \in DOMAIN contacts'
      BY <1>4 DEF DeleteCampaignContact, CampaignInv, CampaignRefs
    <2> QED BY <2>1, ParticipantsDeleted
  <1>5. ASSUME NEW p \in ParticipantIds, NEW c \in CampaignIds, NEW k \in ContactIds, NEW r \in CampaignRoles,
               NEW act \in Flags, NEW row,
               row = [campaign_id |-> c, contact_id |-> k, role |-> r, is_active |-> act],
               CreateCampaignContact(p, row) \/ UpdateCampaignContact(p, row)
        PROVE  CampaignInv'
    <2>1. row \in CampaignContact
      BY <1>5, RelationalAssumption DEF CampaignContact
    <2> QED BY <1>5, <2>1, ParticipantWritten DEF CreateCampaignContact, UpdateCampaignContact, Writes
  <1> QED BY <1>1, <1>2, <1>3, <1>4, <1>5 DEF ParticipantsNext

LEMMA CampaignsNextKeeps == CampaignInv /\ [CampaignsNext]_campaignVars => CampaignInv'
  <1>1. CampaignInv /\ UNCHANGED campaignVars => CampaignInv'
    BY DEF campaignVars, campaignTables, campaignKinds, CampaignInv, CampaignsTypeOK, CampaignRefs
  <1> QED BY <1>1, HierarchyKeeps, CampaignKindsKeep, ParticipantsKeep DEF CampaignsNext

(* Campaigns, their kinds and their participants keep rows of their types     *)
(* under ids of their own (migrations/020_campaign_management.sql).           *)
THEOREM CampaignTypeCorrect == CampaignsSpec => []CampaignsTypeOK
  <1>1. CampaignInv => CampaignsTypeOK
    BY DEF CampaignInv
  <1> QED BY <1>1, CampaignInitInv, CampaignsNextKeeps, PTL DEF CampaignsSpec

(* No campaign outlives its parent, whatever cycles UpdateCampaign closes, and *)
(* no participant its campaign or its contact (campaigns.sql.go,               *)
(* campaign_contacts.sql.go, and the cascades behind DeleteCampaign and        *)
(* DeleteContact).                                                             *)
THEOREM CampaignReferences == CampaignsSpec => []CampaignRefs
  <1>1. CampaignInv => CampaignRefs
    BY DEF CampaignInv
  <1> QED BY <1>1, CampaignInitInv, CampaignsNextKeeps, PTL DEF CampaignsSpec

(* What the queries of campaigns answer, where the names of types and of      *)
(* statuses are UNIQUE.                                                       *)
CampaignKindsDiffer == NamesDiffer(campaign_types) /\ NamesDiffer(campaign_status)

LEMMA CampaignKindsStayDifferent ==
  ASSUME CampaignsTypeOK, CampaignKindsDiffer, CampaignsNext
  PROVE  CampaignKindsDiffer'
  <1>1. IsTable(campaign_types, CampaignTypeIds, CampaignType) /\ IsTable(campaign_status, CampaignStatusIds, CampaignStatus)
    BY DEF CampaignsTypeOK
  <1>2. ASSUME NEW t, NEW row, CreateCampaignType(t, row) \/ UpdateCampaignType(t, row) PROVE CampaignKindsDiffer'
    <2>1. Writes(campaign_types, campaign_types', t, row) /\ \A u \in DOMAIN campaign_types \ {t} : campaign_types[u].name # row.name
      BY <1>2 DEF CreateCampaignType, UpdateCampaignType, Writes, CampaignTypeTaken
    <2>2. UNCHANGED campaign_status
      BY <1>2 DEF CreateCampaignType, UpdateCampaignType
    <2> QED BY <1>1, <2>1, <2>2, NamesStayDifferent DEF CampaignKindsDiffer
  <1>3. ASSUME NEW s, NEW row, CreateCampaignStatus(s, row) \/ UpdateCampaignStatus(s, row) PROVE CampaignKindsDiffer'
    <2>1. Writes(campaign_status, campaign_status', s, row) /\ \A u \in DOMAIN campaign_status \ {s} : campaign_status[u].name # row.name
      BY <1>3 DEF CreateCampaignStatus, UpdateCampaignStatus, Writes, CampaignStatusTaken
    <2>2. UNCHANGED campaign_types
      BY <1>3 DEF CreateCampaignStatus, UpdateCampaignStatus
    <2> QED BY <1>1, <2>1, <2>2, NamesStayDifferent DEF CampaignKindsDiffer
  <1>4. ASSUME NEW t, ActivateCampaignType(t) \/ DeactivateCampaignType(t) PROVE CampaignKindsDiffer'
    <2>1. /\ DOMAIN campaign_types' = DOMAIN campaign_types
          /\ \A u \in DOMAIN campaign_types : campaign_types'[u].name = campaign_types[u].name
      BY <1>1, <1>4 DEF ActivateCampaignType, DeactivateCampaignType, IsTable, CampaignType
    <2>2. UNCHANGED campaign_status
      BY <1>4 DEF ActivateCampaignType, DeactivateCampaignType
    <2> QED BY <2>1, <2>2, NamesKept DEF CampaignKindsDiffer
  <1>5. ASSUME NEW s, ActivateCampaignStatus(s) \/ DeactivateCampaignStatus(s) PROVE CampaignKindsDiffer'
    <2>1. /\ DOMAIN campaign_status' = DOMAIN campaign_status
          /\ \A u \in DOMAIN campaign_status : campaign_status'[u].name = campaign_status[u].name
      BY <1>1, <1>5 DEF ActivateCampaignStatus, DeactivateCampaignStatus, IsTable, CampaignStatus
    <2>2. UNCHANGED campaign_types
      BY <1>5 DEF ActivateCampaignStatus, DeactivateCampaignStatus
    <2> QED BY <2>1, <2>2, NamesKept DEF CampaignKindsDiffer
  <1>6. ASSUME NEW k, DeleteCampaignType(k) \/ DeleteCampaignStatus(k) PROVE CampaignKindsDiffer'
    BY <1>6, NamesLeft DEF DeleteCampaignType, DeleteCampaignStatus, CampaignKindsDiffer
  <1>7. ASSUME UNCHANGED campaignKinds PROVE CampaignKindsDiffer'
    BY <1>7 DEF campaignKinds, CampaignKindsDiffer
  <1>8. HierarchyNext => UNCHANGED campaignKinds
    BY DEF HierarchyNext, ActivateCampaign, DeactivateCampaign, DeleteCampaign, CreateCampaign, UpdateCampaign
  <1>9. ParticipantsNext => UNCHANGED campaignKinds
    <2>1. \A k : CreateSupporter(k) \/ DeleteSupporter(k) => UNCHANGED campaignKinds
      BY DEF CreateSupporter, DeleteSupporter
    <2>2. \A c, row : DeactivateCampaign(c) \/ DeleteCampaign(c) \/ CreateCampaign(c, row) => UNCHANGED campaignKinds
      BY DEF DeactivateCampaign, DeleteCampaign, CreateCampaign
    <2>3. \A p, r, row : \/ ActivateCampaignContact(p) \/ DeactivateCampaignContact(p) \/ DeleteCampaignContact(p)
                         \/ UpdateCampaignContactRole(p, r) \/ CreateCampaignContact(p, row) \/ UpdateCampaignContact(p, row)
                         => UNCHANGED campaignKinds
      BY DEF ActivateCampaignContact, DeactivateCampaignContact, DeleteCampaignContact, UpdateCampaignContactRole,
             CreateCampaignContact, UpdateCampaignContact
    <2> QED BY <2>1, <2>2, <2>3 DEF ParticipantsNext
  <1>10. \A c, row, s : CreateCampaign(c, row) \/ UpdateCampaignStatusById(c, s) => UNCHANGED campaignKinds
    BY DEF CreateCampaign, UpdateCampaignStatusById
  <1>11. CASE CampaignKindsNext
    BY <1>2, <1>3, <1>4, <1>5, <1>6, <1>7, <1>10, <1>11 DEF CampaignKindsNext
  <1> QED BY <1>7, <1>8, <1>9, <1>11 DEF CampaignsNext

(* Campaigns that differ are counted apart, under each type and each status. *)
LEMMA ActiveCampaignsCounted ==
  ASSUME CampaignsTypeOK, NEW S, NEW T, S \subseteq ListActiveCampaigns, T \subseteq ListActiveCampaigns, S \cap T = {}
  PROVE  Cardinality(S) + Cardinality(T) <= Cardinality(ListActiveCampaigns)
  <1>1. ListActiveCampaigns \in SUBSET CampaignIds
    BY DEF CampaignsTypeOK, IsTable, ListActiveCampaigns
  <1>2. IsFiniteSet(ListActiveCampaigns)
    BY <1>1, CampaignsAssumption, FS_Subset
  <1> QED BY <1>2, ApartCount

LEMMA CampaignAnswers ==
  ASSUME CampaignsTypeOK, CampaignRefs, CampaignKindsDiffer PROVE CampaignAnswersAgree
  <1>1. /\ \A c \in DOMAIN campaigns : campaigns[c].is_active \in Flag
        /\ \A s \in DOMAIN campaign_status : campaign_status[s].grouping \in CampaignGroupings \cup {NULL}
        /\ \A p \in DOMAIN campaign_contacts : campaign_contacts[p].role \in CampaignRoles
    BY DEF CampaignsTypeOK, IsTable, Campaign, CampaignStatus, CampaignContact
  <1>2. \A p \in DOMAIN campaign_contacts : /\ campaign_contacts[p].campaign_id \in DOMAIN campaigns
                                            /\ campaign_contacts[p].contact_id \in DOMAIN contacts
    BY DEF CampaignRefs
  <1>3. \A t \in DOMAIN campaign_types : GetCampaignType(t) = GetCampaignTypeByName(campaign_types[t].name)
    BY DEF GetCampaignType, GetCampaignTypeByName, CampaignKindsDiffer, NamesDiffer
  <1>4. \A s \in DOMAIN campaign_status : GetCampaignStatus(s) = GetCampaignStatusByName(campaign_status[s].name)
    BY DEF GetCampaignStatus, GetCampaignStatusByName, CampaignKindsDiffer, NamesDiffer
  <1>5. ASSUME NEW t \in ListCampaignTypes(TRUE), NEW u \in ListCampaignTypes(TRUE), t # u
        PROVE  GetCampaignTypeStats(TRUE)[t] + GetCampaignTypeStats(TRUE)[u] <= Cardinality(ListActiveCampaigns)
    <2> DEFINE Of(k) == {c \in DOMAIN campaigns : Eq(campaigns[c].campaign_type_id, k) /\ campaigns[c].is_active = TRUE}
    <2>1. GetCampaignTypeStats(TRUE)[t] = Cardinality(Of(t)) /\ GetCampaignTypeStats(TRUE)[u] = Cardinality(Of(u))
      BY DEF GetCampaignTypeStats
    <2>2. Of(t) \subseteq ListActiveCampaigns /\ Of(u) \subseteq ListActiveCampaigns /\ Of(t) \cap Of(u) = {}
      BY <1>5 DEF ListActiveCampaigns, Eq
    <2> QED BY <2>1, <2>2, ActiveCampaignsCounted
  <1>6. ASSUME NEW s \in ListCampaignStatus(TRUE), NEW u \in ListCampaignStatus(TRUE), s # u
        PROVE  GetCampaignStatusStats(TRUE)[s] + GetCampaignStatusStats(TRUE)[u] <= Cardinality(ListActiveCampaigns)
    <2> DEFINE Of(k) == {c \in DOMAIN campaigns : Eq(campaigns[c].status_id, k) /\ campaigns[c].is_active = TRUE}
    <2>1. GetCampaignStatusStats(TRUE)[s] = Cardinality(Of(s)) /\ GetCampaignStatusStats(TRUE)[u] = Cardinality(Of(u))
      BY DEF GetCampaignStatusStats
    <2>2. Of(s) \subseteq ListActiveCampaigns /\ Of(u) \subseteq ListActiveCampaigns /\ Of(s) \cap Of(u) = {}
      BY <1>6 DEF ListActiveCampaigns, Eq
    <2> QED BY <2>1, <2>2, ActiveCampaignsCounted
  <1>7. ListActiveCampaignStatus \ (ListPlannedCampaignStatus(TRUE) \cup ListActiveCampaignStatuses(TRUE)
                                      \cup ListCompletedCampaignStatus(TRUE) \cup ListCancelledCampaignStatus(TRUE))
          = {s \in ListActiveCampaignStatus : campaign_status[s].grouping = NULL}
            \cup UNION {ListCampaignStatusByGrouping(g, TRUE) : g \in CampaignGroupings \ {"Planned", "Active", "Completed", "Cancelled"}}
    <2> DEFINE Four == {"Planned", "Active", "Completed", "Cancelled"}
               InGroup(g) == ListCampaignStatusByGrouping(g, TRUE)
               Listed == ListPlannedCampaignStatus(TRUE) \cup ListActiveCampaignStatuses(TRUE)
                           \cup ListCompletedCampaignStatus(TRUE) \cup ListCancelledCampaignStatus(TRUE)
    <2>1. \A s : s \in ListActiveCampaignStatus <=> s \in ListCampaignStatus(TRUE)
      BY RelationalAssumption DEF ListActiveCampaignStatus, ListCampaignStatus, Eq
    <2>2. \A s : s \in Listed <=> s \in ListActiveCampaignStatus /\ campaign_status[s].grouping \in Four
      BY <2>1 DEF ListPlannedCampaignStatus, ListActiveCampaignStatuses, ListCompletedCampaignStatus, ListCancelledCampaignStatus
    <2>3. \A g \in CampaignGroupings : \A s : s \in InGroup(g) <=> s \in ListActiveCampaignStatus /\ campaign_status[s].grouping = g
      BY <2>1, RelationalAssumption, CampaignsAssumption DEF ListCampaignStatusByGrouping, ListCampaignStatus, Eq
    <2>4. \A s \in ListActiveCampaignStatus : campaign_status[s].grouping \in CampaignGroupings \cup {NULL}
      BY <1>1 DEF ListActiveCampaignStatus
    <2>5. NULL \notin Four
      BY CampaignsAssumption
    <2> HIDE DEF Four, InGroup, Listed
    <2>6. ListActiveCampaignStatus \ Listed
            = {s \in ListActiveCampaignStatus : campaign_status[s].grouping = NULL} \cup UNION {InGroup(g) : g \in CampaignGroupings \ Four}
      BY <2>2, <2>3, <2>4, <2>5
    <2> QED BY <2>6 DEF Four, InGroup, Listed
  <1>8. {d \in ListCampaigns : campaigns[d].parent_id # NULL} = UNION {GetCampaignsByParent(c) : c \in ListCampaigns}
    <2> DEFINE Below(c) == GetCampaignsByParent(c)
               Placed == {d \in ListCampaigns : campaigns[d].parent_id # NULL}
    <2>1. \A d : d \in Placed <=> \E c \in ListCampaigns : d \in Below(c)
      BY CampaignsAssumption DEF CampaignsTypeOK, IsTable, CampaignRefs, ListCampaigns, GetCampaignsByParent, Eq
    <2> HIDE DEF Below, Placed
    <2>2. Placed = UNION {Below(c) : c \in ListCampaigns}
      BY <2>1
    <2> QED BY <2>2 DEF Below, Placed
  <1>9. ASSUME NEW c \in ListActiveCampaigns
        PROVE  GetCampaignParticipantSummary(TRUE)[c] <= Cardinality(GetCampaignContactsByCampaign(c))
    <2>1. c \in {d \in DOMAIN campaigns : Eq(campaigns[d].is_active, TRUE)}
      BY RelationalAssumption DEF ListActiveCampaigns, Eq
    <2>2. GetCampaignParticipantSummary(TRUE)[c] = Cardinality(GetActiveCampaignContacts(c))
      BY <2>1 DEF GetCampaignParticipantSummary
    <2>3. GetCampaignContactsByCampaign(c) \in SUBSET ParticipantIds
      BY DEF GetCampaignContactsByCampaign, CampaignsTypeOK, IsTable
    <2>4. IsFiniteSet(GetCampaignContactsByCampaign(c))
      BY <2>3, CampaignsAssumption, FS_Subset
    <2>5. GetActiveCampaignContacts(c) \in SUBSET GetCampaignContactsByCampaign(c)
      BY DEF GetActiveCampaignContacts
    <2>6. Cardinality(GetActiveCampaignContacts(c)) <= Cardinality(GetCampaignContactsByCampaign(c))
      BY <2>4, <2>5, FS_Subset
    <2> QED BY <2>2, <2>6
  <1>10. ASSUME NEW r \in CampaignRoles
         PROVE  ListCampaignContactsByRole(r) = UNION {GetCampaignContactsByRole(c, r) : c \in ListCampaigns}
    <2> DEFINE InRole(c) == GetCampaignContactsByRole(c, r)
    <2>1. \A p : p \in ListCampaignContactsByRole(r) <=> \E c \in ListCampaigns : p \in InRole(c)
      BY <1>2 DEF ListCampaigns, ListCampaignContactsByRole, GetCampaignContactsByRole, GetCampaignContactsByCampaign
    <2> HIDE DEF InRole
    <2>2. ListCampaignContactsByRole(r) = UNION {InRole(c) : c \in ListCampaigns}
      BY <2>1
    <2> QED BY <2>2 DEF InRole
  <1>11. ASSUME NEW r \in (DOMAIN GetCampaignContactStats(TRUE)) \cap DOMAIN GetCampaignContactStats(FALSE)
         PROVE  GetCampaignContactStats(TRUE)[r] + GetCampaignContactStats(FALSE)[r] <= Cardinality(ListCampaignContactsByRole(r))
    <2> DEFINE All == ListCampaignContactsByRole(r)
               Now == {p \in All : Eq(campaign_contacts[p].is_active, TRUE)}
               Past == {p \in All : Eq(campaign_contacts[p].is_active, FALSE)}
    <2>1. ASSUME NEW act PROVE {p \in {q \in DOMAIN campaign_contacts : Eq(campaign_contacts[q].is_active, act)} : campaign_contacts[p].role = r}
                                 = {p \in All : Eq(campaign_contacts[p].is_active, act)}
      BY DEF ListCampaignContactsByRole
    <2>2. GetCampaignContactStats(TRUE)[r] = Cardinality(Now) /\ GetCampaignContactStats(FALSE)[r] = Cardinality(Past)
      BY <1>11, <2>1 DEF GetCampaignContactStats
    <2>3. All \in SUBSET ParticipantIds
      BY DEF ListCampaignContactsByRole, CampaignsTypeOK, IsTable
    <2>4. Now \subseteq All /\ Past \subseteq All /\ Now \cap Past = {}
      BY DEF Eq
    <2> HIDE DEF All, Now, Past
    <2>5. IsFiniteSet(All)
      BY <2>3, CampaignsAssumption, FS_Subset
    <2>6. Cardinality(Now) + Cardinality(Past) <= Cardinality(All)
      BY <2>4, <2>5, ApartCount
    <2> QED BY <2>2, <2>6 DEF All
  <1>12. ASSUME NEW K \in SUBSET ContactIds
         PROVE  SearchCampaignContacts(K) = UNION {GetCampaignContactsByContact(k) : k \in K}
    <2> DEFINE Taking(k) == GetCampaignContactsByContact(k)
    <2>1. \A p : p \in SearchCampaignContacts(K) <=> \E k \in K : p \in Taking(k)
      BY <1>2 DEF SearchCampaignContacts, GetCampaignContactsByContact
    <2> HIDE DEF Taking
    <2>2. SearchCampaignContacts(K) = UNION {Taking(k) : k \in K}
      BY <2>1
    <2> QED BY <2>2 DEF Taking
  <1> QED
    BY <1>3, <1>4, <1>5, <1>6, <1>7, <1>8, <1>9, <1>10, <1>11, <1>12 DEF CampaignAnswersAgree

(* The hierarchy.  Level n of the listing holds the campaigns to which a path  *)
(* of n steps leads from a root; a root has no parent and every other campaign *)
(* has one, so that a campaign is on one level at most.  A level below the     *)
(* last would give a path longer than there are campaigns, hence a campaign on *)
(* two levels.                                                                 *)
LEMMA LeastNatural ==
  ASSUME NEW S \in SUBSET Nat, S # {}
  PROVE  \E n \in S : \A m \in S : n <= m
  <1>1. PICK n \in S : \A m \in S : ~ (<<m, n>> \in OpToRel(<, Nat))
    BY NatLessThanWellFounded, WFMin, Zenon
  <1>2. \A m \in S : ~ (m < n)
    BY <1>1 DEF OpToRel
  <1> QED BY <1>2

(* A path of n steps from p[0] down to p[n], through active campaigns. *)
Descends(p, n) == \A i \in 0..(n - 1) : campaigns[p[i + 1]].parent_id = p[i] /\ campaigns[p[i + 1]].is_active = TRUE

ActiveBelow(S) == {c \in DOMAIN campaigns : campaigns[c].parent_id \in S /\ campaigns[c].is_active = TRUE}

ReachedIn(n) ==
  {c \in DOMAIN campaigns : \E p \in [0..n -> DOMAIN campaigns] : p[0] \in HierarchyRoots /\ p[n] = c /\ Descends(p, n)}

LEMMA ReachedAtOnce == ReachedIn(0) = HierarchyRoots
  <1>1. ASSUME NEW c \in HierarchyRoots PROVE c \in ReachedIn(0)
    <2>1. c \in DOMAIN campaigns
      BY DEF HierarchyRoots
    <2> DEFINE p == [i \in 0..0 |-> c]
    <2>2. p \in [0..0 -> DOMAIN campaigns] /\ p[0] = c /\ Descends(p, 0)
      BY <2>1 DEF Descends
    <2> QED BY <2>1, <2>2 DEF ReachedIn
  <1>2. ASSUME NEW c \in ReachedIn(0) PROVE c \in HierarchyRoots
    BY DEF ReachedIn
  <1> QED BY <1>1, <1>2

LEMMA ReachedNext == ASSUME NEW n \in Nat PROVE ReachedIn(n + 1) = ActiveBelow(ReachedIn(n))
  <1>1. ASSUME NEW c \in ReachedIn(n + 1) PROVE c \in ActiveBelow(ReachedIn(n))
    <2>1. PICK p \in [0..(n + 1) -> DOMAIN campaigns] : p[0] \in HierarchyRoots /\ p[n + 1] = c /\ Descends(p, n + 1)
      BY DEF ReachedIn
    <2> DEFINE q == [i \in 0..n |-> p[i]]
    <2>2. q \in [0..n -> DOMAIN campaigns] /\ q[0] \in HierarchyRoots /\ q[n] = p[n]
      BY <2>1
    <2>3. ASSUME NEW i \in 0..(n - 1)
          PROVE  campaigns[q[i + 1]].parent_id = q[i] /\ campaigns[q[i + 1]].is_active = TRUE
      <3>1. i \in 0..((n + 1) - 1) /\ q[i] = p[i] /\ q[i + 1] = p[i + 1]
        OBVIOUS
      <3> QED BY <2>1, <3>1 DEF Descends
    <2>4. Descends(q, n)
      BY <2>3 DEF Descends
    <2> HIDE DEF q
    <2>5. p[n] \in ReachedIn(n)
      BY <2>2, <2>4 DEF ReachedIn
    <2>6. c \in DOMAIN campaigns /\ campaigns[c].parent_id = p[n] /\ campaigns[c].is_active = TRUE
      BY <2>1 DEF Descends
    <2> QED BY <2>5, <2>6 DEF ActiveBelow
  <1>2. ASSUME NEW c \in ActiveBelow(ReachedIn(n)) PROVE c \in ReachedIn(n + 1)
    <2>1. /\ c \in DOMAIN campaigns /\ campaigns[c].is_active = TRUE
          /\ campaigns[c].parent_id \in ReachedIn(n)
      BY DEF ActiveBelow
    <2>2. PICK p \in [0..n -> DOMAIN campaigns] :
            p[0] \in HierarchyRoots /\ p[n] = campaigns[c].parent_id /\ Descends(p, n)
      BY <2>1 DEF ReachedIn
    <2> DEFINE q == [i \in 0..(n + 1) |-> IF i = n + 1 THEN c ELSE p[i]]
    <2>3. q \in [0..(n + 1) -> DOMAIN campaigns] /\ q[0] \in HierarchyRoots /\ q[n + 1] = c
      BY <2>1, <2>2
    <2>4. ASSUME NEW i \in 0..n
          PROVE  campaigns[q[i + 1]].parent_id = q[i] /\ campaigns[q[i + 1]].is_active = TRUE
      <3>1. CASE i = n
        BY <2>1, <2>2, <3>1
      <3>2. CASE i # n
        <4>1. i \in 0..(n - 1) /\ i + 1 # n + 1 /\ q[i] = p[i] /\ q[i + 1] = p[i + 1]
          BY <3>2
        <4> QED BY <2>2, <4>1 DEF Descends
      <3> QED BY <3>1, <3>2
    <2>5. Descends(q, n + 1)
      <3>1. (n + 1) - 1 = n
        OBVIOUS
      <3> HIDE DEF q
      <3> QED BY <2>4, <3>1 DEF Descends
    <2> HIDE DEF q
    <2> QED BY <2>1, <2>3, <2>5 DEF ReachedIn
  <1> QED BY <1>1, <1>2

LEMMA HierarchyLevels ==
  /\ HierarchyLevel[0] = HierarchyRoots
  /\ \A n \in Nat : HierarchyLevel[n + 1] = ActiveBelow(HierarchyLevel[n])
  <1> DEFINE Unfolds(f) == f = [n \in Nat |-> IF n = 0 THEN HierarchyRoots
                                             ELSE {c \in DOMAIN campaigns : campaigns[c].parent_id \in f[n - 1]
                                                                            /\ campaigns[c].is_active = TRUE}]
             reached == [n \in Nat |-> ReachedIn(n)]
  <1>1. ASSUME NEW n \in Nat, n # 0
        PROVE  ReachedIn(n) = {c \in DOMAIN campaigns : campaigns[c].parent_id \in reached[n - 1] /\ campaigns[c].is_active = TRUE}
    <2>1. n - 1 \in Nat /\ (n - 1) + 1 = n
      BY <1>1
    <2>2. reached[n - 1] = ReachedIn(n - 1)
      BY <2>1
    <2> QED BY <2>1, <2>2, ReachedNext DEF ActiveBelow
  <1>2. Unfolds(reached)
    BY <1>1, ReachedAtOnce
  <1>3. HierarchyLevel = CHOOSE f : Unfolds(f)
    BY DEF HierarchyLevel
  <1>4. Unfolds(HierarchyLevel)
    <2> HIDE DEF Unfolds
    <2> QED BY <1>2, <1>3, Zenon
  <1>5. HierarchyLevel[0] = HierarchyRoots
    BY <1>4
  <1>6. ASSUME NEW n \in Nat PROVE HierarchyLevel[n + 1] = ActiveBelow(HierarchyLevel[n])
    <2>1. n + 1 \in Nat /\ n + 1 # 0 /\ (n + 1) - 1 = n
      OBVIOUS
    <2> QED BY <1>4, <2>1 DEF ActiveBelow
  <1> QED BY <1>5, <1>6

LEMMA LevelReached == ASSUME NEW n \in Nat PROVE HierarchyLevel[n] = ReachedIn(n)
  <1> DEFINE S == {m \in Nat : HierarchyLevel[m] # ReachedIn(m)}
  <1>1. SUFFICES ASSUME S # {} PROVE FALSE
    OBVIOUS
  <1>2. PICK m \in S : \A l \in S : m <= l
    <2>1. S \in SUBSET Nat
      OBVIOUS
    <2> HIDE DEF S
    <2> QED BY <1>1, <2>1, LeastNatural
  <1>3. m \in Nat /\ m # 0
    BY HierarchyLevels, ReachedAtOnce
  <1>4. PICK l \in Nat : m = l + 1
    BY <1>3, m - 1 \in Nat
  <1>5. l \notin S
    BY <1>2, <1>4, ~(l + 1 <= l)
  <1>6. HierarchyLevel[l + 1] = ReachedIn(l + 1)
    BY <1>5, HierarchyLevels, ReachedNext
  <1> QED BY <1>4, <1>6

(* No row of a level is a row of a level after it. *)
LEMMA LevelIsUnique ==
  ASSUME CampaignsTypeOK, NEW n \in Nat, NEW k \in Nat, NEW c, c \in HierarchyLevel[n], c \in HierarchyLevel[k]
  PROVE  n = k
  <1> DEFINE Met(m, d) == \E j \in Nat : j # m /\ d \in HierarchyLevel[m] /\ d \in HierarchyLevel[j]
             S == {m \in Nat : \E d : Met(m, d)}
  <1>1. SUFFICES ASSUME S # {} PROVE FALSE
    <2>1. n # k => n \in S
      OBVIOUS
    <2> QED BY <2>1
  <1>2. PICK m \in S : \A l \in S : m <= l
    <2>1. S \in SUBSET Nat
      OBVIOUS
    <2> HIDE DEF S
    <2> QED BY <1>1, <2>1, LeastNatural
  <1>3. PICK d : Met(m, d)
    OBVIOUS
  <1>4. PICK j \in Nat : j # m /\ d \in HierarchyLevel[m] /\ d \in HierarchyLevel[j]
    BY <1>3
  <1>5. \A i \in Nat : NULL \notin HierarchyLevel[i]
    <2>1. \A i \in Nat : HierarchyLevel[i] \subseteq DOMAIN campaigns
      BY LevelReached DEF ReachedIn
    <2> QED BY <2>1, CampaignsAssumption DEF CampaignsTypeOK, IsTable
  <1>6. campaigns[d].parent_id = NULL <=> m = 0
    <2>1. m = 0 => campaigns[d].parent_id = NULL
      BY <1>4, HierarchyLevels DEF HierarchyRoots
    <2>2. ASSUME m # 0 PROVE campaigns[d].parent_id # NULL
      <3>1. m - 1 \in Nat /\ (m - 1) + 1 = m
        BY <2>2
      <3> QED BY <1>4, <1>5, <3>1, HierarchyLevels DEF ActiveBelow
    <2> QED BY <2>1, <2>2
  <1>7. campaigns[d].parent_id = NULL <=> j = 0
    <2>1. j = 0 => campaigns[d].parent_id = NULL
      BY <1>4, HierarchyLevels DEF HierarchyRoots
    <2>2. ASSUME j # 0 PROVE campaigns[d].parent_id # NULL
      <3>1. j - 1 \in Nat /\ (j - 1) + 1 = j
        BY <2>2
      <3> QED BY <1>4, <1>5, <3>1, HierarchyLevels DEF ActiveBelow
    <2> QED BY <2>1, <2>2
  <1>8. m - 1 \in Nat /\ j - 1 \in Nat /\ (m - 1) + 1 = m /\ (j - 1) + 1 = j /\ m - 1 # j - 1
    BY <1>4, <1>6, <1>7
  <1>9. campaigns[d].parent_id \in HierarchyLevel[m - 1] /\ campaigns[d].parent_id \in HierarchyLevel[j - 1]
    BY <1>4, <1>8, HierarchyLevels DEF ActiveBelow
  <1>10. m - 1 \in S
    BY <1>8, <1>9
  <1> QED BY <1>2, <1>8, <1>10, ~(m <= m - 1)

LEMMA LevelsEnd == ASSUME CampaignsTypeOK PROVE HierarchyLevel[Cardinality(DOMAIN campaigns)] = {}
  <1> DEFINE Held == DOMAIN campaigns
             N == Cardinality(Held)
  <1>1. IsFiniteSet(Held)
    BY CampaignsAssumption, FS_Subset DEF CampaignsTypeOK, IsTable
  <1>2. N \in Nat
    BY <1>1, FS_CardinalityType
  <1>3. SUFFICES ASSUME NEW c \in HierarchyLevel[N] PROVE FALSE
    OBVIOUS
  <1>4. PICK p \in [0..N -> Held] : p[0] \in HierarchyRoots /\ p[N] = c /\ Descends(p, N)
    BY <1>2, LevelReached DEF ReachedIn
  <1>5. IsFiniteSet(0..N) /\ Cardinality(0..N) = N + 1
    BY <1>2, FS_Interval
  <1>6. N < Cardinality(0..N)
    BY <1>2, <1>5
  <1> HIDE DEF Held, N
  <1>7. PICK m \in 0..N, k \in 0..N : m # k /\ p[m] = p[k]
    BY <1>1, <1>4, <1>5, <1>6, FS_PigeonHole DEF N
  <1>8. ASSUME NEW i \in 0..N PROVE p[i] \in HierarchyLevel[i]
    <2> DEFINE q == [j \in 0..i |-> p[j]]
    <2>1. q \in [0..i -> Held] /\ q[0] \in HierarchyRoots /\ q[i] = p[i]
      BY <1>2, <1>4
    <2>2. ASSUME NEW j \in 0..(i - 1)
          PROVE  campaigns[q[j + 1]].parent_id = q[j] /\ campaigns[q[j + 1]].is_active = TRUE
      <3>1. j \in 0..(N - 1) /\ q[j] = p[j] /\ q[j + 1] = p[j + 1]
        BY <1>2
      <3> QED BY <1>4, <3>1 DEF Descends
    <2>3. Descends(q, i)
      BY <2>2 DEF Descends
    <2> HIDE DEF q
    <2>4. i \in Nat /\ p[i] \in Held
      BY <1>2
    <2>5. p[i] \in ReachedIn(i)
      BY <2>1, <2>3, <2>4 DEF ReachedIn, Held
    <2> QED BY <2>4, <2>5, LevelReached
  <1> QED BY <1>2, <1>7, <1>8, LevelIsUnique

LEMMA HierarchyDescends == ASSUME CampaignsTypeOK, CampaignRefs PROVE HierarchyIsTree
  <1> DEFINE Held == DOMAIN campaigns
             N == Cardinality(Held)
  <1>1. N \in Nat
    BY CampaignsAssumption, FS_Subset, FS_CardinalityType DEF CampaignsTypeOK, IsTable
  <1>2. HierarchyLevel[N] = {}
    BY LevelsEnd
  <1> HIDE DEF N
  <1>3. \A c, n : c \in Held /\ n \in 0..N /\ c \in HierarchyLevel[n] <=> <<c, n>> \in GetCampaignHierarchy
    BY DEF GetCampaignHierarchy, N
  <1>4. \A x \in GetCampaignHierarchy :
          x = <<x[1], x[2]>> /\ x[1] \in Held /\ x[2] \in 0..N /\ x[1] \in HierarchyLevel[x[2]]
    BY DEF GetCampaignHierarchy, N
  <1>5. ASSUME NEW x \in GetCampaignHierarchy, NEW y \in GetCampaignHierarchy, x[1] = y[1] PROVE x = y
    <2>1. x[2] = y[2]
      BY <1>1, <1>4, <1>5, LevelIsUnique
    <2> QED BY <1>4, <1>5, <2>1
  <1>6. ASSUME NEW x \in GetCampaignHierarchy
        PROVE  \/ x[2] = 0 /\ campaigns[x[1]].parent_id = NULL
               \/ \E y \in GetCampaignHierarchy : y[1] = campaigns[x[1]].parent_id /\ x[2] = y[2] + 1
    <2> DEFINE c == x[1]
               n == x[2]
               u == campaigns[c].parent_id
    <2>1. c \in HierarchyLevel[n] /\ n \in 0..N
      BY <1>4
    <2>2. CASE n = 0
      BY <2>1, <2>2, HierarchyLevels DEF HierarchyRoots
    <2>3. CASE n # 0
      <3>1. n - 1 \in Nat /\ n - 1 \in 0..N /\ (n - 1) + 1 = n
        BY <1>1, <2>1, <2>3
      <3>2. u \in HierarchyLevel[n - 1]
        BY <2>1, <3>1, HierarchyLevels DEF ActiveBelow
      <3>3. u \in Held
        BY <3>1, <3>2, LevelReached DEF ReachedIn
      <3>4. <<u, n - 1>> \in GetCampaignHierarchy
        BY <1>3, <3>1, <3>2, <3>3
      <3> HIDE DEF c, n, u
      <3>5. \E y \in GetCampaignHierarchy : y[1] = u /\ n = y[2] + 1
        BY <3>1, <3>4
      <3> QED BY <3>5 DEF c, n, u
    <2> QED BY <2>2, <2>3
  <1>7. ASSUME NEW n \in Nat, NEW c \in HierarchyLevel[n] PROVE c \in Held /\ campaigns[c].is_active = TRUE
    <2>1. CASE n = 0
      BY <1>7, <2>1, HierarchyLevels DEF HierarchyRoots
    <2>2. CASE n # 0
      <3>1. n - 1 \in Nat /\ (n - 1) + 1 = n
        BY <2>2
      <3> QED BY <1>7, <3>1, HierarchyLevels DEF ActiveBelow
    <2> QED BY <2>1, <2>2
  <1>8. ASSUME NEW x \in GetCampaignHierarchy PROVE GetCampaign(x[1]) \subseteq ListActiveCampaigns
    <2>1. x[2] \in Nat /\ x[1] \in HierarchyLevel[x[2]]
      BY <1>1, <1>4
    <2>2. x[1] \in Held /\ campaigns[x[1]].is_active = TRUE
      BY <1>7, <2>1
    <2> QED BY <2>2 DEF GetCampaign, ListActiveCampaigns
  <1> DEFINE Met == {x[1] : x \in GetCampaignHierarchy}
  <1>9. ASSUME NEW c \in ListActiveCampaigns \ Met PROVE campaigns[c].parent_id \in ListCampaigns \ Met
    <2> DEFINE u == campaigns[c].parent_id
    <2>1. c \in Held /\ campaigns[c].is_active = TRUE
      BY DEF ListActiveCampaigns
    <2>2. \A n \in 0..N : c \notin HierarchyLevel[n]
      <3>1. ASSUME NEW n \in 0..N, c \in HierarchyLevel[n] PROVE c \in Met
        <4>1. <<c, n>> \in GetCampaignHierarchy
          BY <1>3, <2>1, <3>1
        <4> QED BY <4>1
      <3> QED BY <3>1
    <2>3. u # NULL
      BY <1>1, <2>1, <2>2, HierarchyLevels DEF HierarchyRoots
    <2>4. u \in Held
      BY <2>1, <2>3 DEF CampaignRefs
    <2>5. ASSUME NEW x \in GetCampaignHierarchy, u = x[1] PROVE FALSE
      <3>1. x[2] \in 0..N /\ u \in HierarchyLevel[x[2]] /\ x[2] # N
        BY <1>2, <1>4, <2>5
      <3>2. x[2] \in Nat /\ x[2] + 1 \in 0..N
        BY <1>1, <3>1
      <3>3. c \in HierarchyLevel[x[2] + 1]
        BY <2>1, <3>1, <3>2, HierarchyLevels DEF ActiveBelow
      <3> QED BY <2>2, <3>2, <3>3
    <2> QED BY <2>4, <2>5 DEF ListCampaigns
  <1> QED BY <1>2, <1>5, <1>6, <1>8, <1>9 DEF HierarchyIsTree, N

(* GetCampaignHierarchy (campaigns.sql.go) goes down from the roots one level  *)
(* at a time, with nothing that stops it at a cycle: whatever parents updates  *)
(* have given to campaigns, it ends, and it lists a campaign at most once, at  *)
(* the level below its parent's.                                               *)
THEOREM HierarchyTree == CampaignsSpec => []HierarchyIsTree
  <1>1. CampaignInv => HierarchyIsTree
    BY HierarchyDescends DEF CampaignInv
  <1> QED BY <1>1, CampaignInitInv, CampaignsNextKeeps, PTL DEF CampaignsSpec

-----------------------------------------------------------------------------
(* Events and the campaigns they belong to: the references are inductive with *)
(* the types and with what holds of the campaigns.                            *)

EventInv == ContactsTypeOK /\ CampaignInv /\ EventsTypeOK /\ EventRefs

LEMMA EventInitInv == ContactsInit /\ CampaignsInit /\ EventsInit => EventInv
  <1>1. ContactsInit => ContactsTypeOK
    BY DEF ContactsInit, ContactsTypeOK, IsTable, NoRows
  <1>2. EventsInit => EventsTypeOK /\ EventRefs
    BY EventAssumption DEF EventsInit, EventsTypeOK, EventRefs, IsTable, NoRows
  <1> QED BY <1>1, <1>2, CampaignInitInv DEF EventInv

(* Statements on events leave contacts and campaigns as they are. *)
LEMMA CampaignsStay ==
  ASSUME ContactsTypeOK, CampaignInv, UNCHANGED <<contacts, campaignTables>>
  PROVE  ContactsTypeOK' /\ CampaignInv' /\ UNCHANGED campaigns
  BY DEF ContactsTypeOK, CampaignInv, CampaignsTypeOK, CampaignRefs, campaignTables, campaignKinds

LEMMA EventKeeps ==
  ASSUME EventInv, NEW e \in EventIds, NEW row \in Event, CreateEvent(e, row) \/ UpdateEvent(e, row)
  PROVE  EventInv'
  <1>1. IsTable(events', EventIds, Event) /\ DOMAIN events' = DOMAIN events \cup {e}
    BY DEF CreateEvent, UpdateEvent, EventInv, EventsTypeOK, IsTable, Insert
  <1>2. UNCHANGED <<contacts, campaignTables, event_registrations, participants, event_fees, discounts, campaign_events, date>>
    BY DEF CreateEvent, UpdateEvent, pricing
  <1>3. ContactsTypeOK' /\ CampaignInv' /\ UNCHANGED campaigns
    BY <1>2, CampaignsStay DEF EventInv
  <1>4. EventRefs'
    BY <1>1, <1>2, <1>3 DEF EventInv, EventRefs, ParticipantFits
  <1> QED BY <1>1, <1>2, <1>3, <1>4 DEF EventInv, EventsTypeOK

LEMMA RegistrationWritten ==
  ASSUME EventInv, NEW r \in RegistrationIds, NEW row \in EventRegistration,
         row.event_id \in DOMAIN events, row.contact_id \in DOMAIN contacts,
         Writes(event_registrations, event_registrations', r, row),
         UNCHANGED <<contacts, campaignTables, events, participants, pricing, campaign_events, date>>
  PROVE  EventInv'
  <1>1. /\ IsTable(event_registrations', RegistrationIds, EventRegistration)
        /\ DOMAIN event_registrations' = DOMAIN event_registrations \cup {r}
        /\ event_registrations'[r] = row
        /\ \A k \in DOMAIN event_registrations \ {r} : event_registrations'[k] = event_registrations[k]
    BY DEF EventInv, EventsTypeOK, IsTable, Insert, Writes
  <1>2. ContactsTypeOK' /\ CampaignInv' /\ UNCHANGED campaigns
    BY CampaignsStay DEF EventInv
  <1>3. EventRefs'
    BY <1>1, <1>2 DEF EventInv, EventRefs, ParticipantFits, pricing
  <1> QED BY <1>1, <1>2, <1>3 DEF EventInv, EventsTypeOK, pricing

LEMMA RegistrationKeeps ==
  ASSUME EventInv, NEW r \in RegistrationIds,
         \/ \E st \in RegistrationStatuses \cup {NULL} : UpdateEventRegistration(r, st)
         \/ \E row \in EventRegistration : CreateEventRegistration(r, row)
  PROVE  EventInv'
  <1>1. ASSUME NEW st \in RegistrationStatuses \cup {NULL}, UpdateEventRegistration(r, st) PROVE EventInv'
    <2>1. /\ r \in DOMAIN event_registrations /\ event_registrations[r] \in EventRegistration
          /\ event_registrations[r].event_id \in DOMAIN events /\ event_registrations[r].contact_id \in DOMAIN contacts
      BY <1>1 DEF UpdateEventRegistration, EventInv, EventsTypeOK, IsTable, EventRefs
    <2>2. PICK row : row = [event_registrations[r] EXCEPT !.status = st]
      OBVIOUS
    <2>3. /\ row \in EventRegistration
          /\ row.event_id = event_registrations[r].event_id /\ row.contact_id = event_registrations[r].contact_id
      BY <2>1, <2>2 DEF EventRegistration
    <2>4. Writes(event_registrations, event_registrations', r, row)
      BY <1>1, <2>1, <2>2 DEF UpdateEventRegistration, Writes
    <2> QED BY <1>1, <2>1, <2>3, <2>4, RegistrationWritten DEF UpdateEventRegistration
  <1>2. ASSUME NEW row \in EventRegistration, CreateEventRegistration(r, row) PROVE EventInv'
    <2>1. Writes(event_registrations, event_registrations', r, row)
      BY <1>2 DEF CreateEventRegistration, Writes
    <2> QED BY <1>2, <2>1, RegistrationWritten DEF CreateEventRegistration
  <1> QED BY <1>1, <1>2

LEMMA AttendeeKeeps ==
  ASSUME EventInv, NEW p \in AttendeeIds, NEW row \in Participant, CreateParticipant(p, row) \/ UpdateParticipant(p, row)
  PROVE  EventInv'
  <1>1. /\ Writes(participants, participants', p, row) /\ ParticipantFits(row)
        /\ UNCHANGED <<contacts, campaignTables, events, event_registrations, event_fees, discounts, campaign_events, date>>
    BY DEF CreateParticipant, UpdateParticipant, Writes, pricing
  <1>2. /\ IsTable(participants', AttendeeIds, Participant)
        /\ DOMAIN participants' = DOMAIN participants \cup {p}
        /\ participants'[p] = row
        /\ \A q \in DOMAIN participants \ {p} : participants'[q] = participants[q]
    BY <1>1 DEF EventInv, EventsTypeOK, IsTable, Insert, Writes
  <1>3. ContactsTypeOK' /\ CampaignInv' /\ UNCHANGED campaigns
    BY <1>1, CampaignsStay DEF EventInv
  <1>4. EventRefs'
    BY <1>1, <1>2, <1>3 DEF EventInv, EventRefs, ParticipantFits
  <1> QED BY <1>1, <1>2, <1>3, <1>4 DEF EventInv, EventsTypeOK

LEMMA FeeKeeps ==
  ASSUME EventInv, NEW f \in FeeIds, NEW row \in EventFee, CreateEventFee(f, row) \/ UpdateEventFee(f, row)
  PROVE  EventInv'
  <1>1. /\ Writes(event_fees, event_fees', f, row) /\ row.event_id \in DOMAIN events
        /\ UNCHANGED <<contacts, campaignTables, events, event_registrations, participants, discounts, campaign_events, date>>
    BY DEF CreateEventFee, UpdateEventFee, Writes
  <1>2. /\ IsTable(event_fees', FeeIds, EventFee)
        /\ DOMAIN event_fees' = DOMAIN event_fees \cup {f}
        /\ event_fees'[f] = row
        /\ \A k \in DOMAIN event_fees \ {f} : event_fees'[k] = event_fees[k]
    BY <1>1 DEF EventInv, EventsTypeOK, IsTable, Insert, Writes
  <1>3. ContactsTypeOK' /\ CampaignInv' /\ UNCHANGED campaigns
    BY <1>1, CampaignsStay DEF EventInv
  <1>4. EventRefs'
    BY <1>1, <1>2, <1>3 DEF EventInv, EventRefs, ParticipantFits
  <1> QED BY <1>1, <1>2, <1>3, <1>4 DEF EventInv, EventsTypeOK

LEMMA DiscountKeeps ==
  ASSUME EventInv, NEW d \in DiscountIds, DeleteDiscount(d) \/ \E row \in Discount : CreateDiscount(d, row) \/ UpdateDiscount(d, row)
  PROVE  EventInv'
  <1>1. IsTable(discounts', DiscountIds, Discount)
    BY DEF DeleteDiscount, CreateDiscount, UpdateDiscount, EventInv, EventsTypeOK, IsTable, Insert, Without
  <1>2. UNCHANGED <<contacts, campaignTables, events, event_registrations, participants, event_fees, campaign_events, date>>
    BY DEF DeleteDiscount, CreateDiscount, UpdateDiscount
  <1>3. ContactsTypeOK' /\ CampaignInv' /\ UNCHANGED campaigns
    BY <1>2, CampaignsStay DEF EventInv
  <1>4. EventRefs'
    BY <1>2, <1>3 DEF EventInv, EventRefs, ParticipantFits
  <1> QED BY <1>1, <1>2, <1>3, <1>4 DEF EventInv, EventsTypeOK

LEMMA PromotionWritten ==
  ASSUME EventInv, NEW l \in CampaignEventIds, NEW row \in CampaignEvent, CreateCampaignEvent(l, row) \/ UpdateCampaignEvent(l, row)
  PROVE  EventInv'
  <1>1. /\ Writes(campaign_events, campaign_events', l, row)
        /\ row.campaign_id \in DOMAIN campaigns /\ row.event_id \in DOMAIN events
        /\ UNCHANGED <<contacts, campaignTables, events, event_registrations, participants, event_fees, discounts, date>>
    BY DEF CreateCampaignEvent, UpdateCampaignEvent, Writes, pricing
  <1>2. /\ IsTable(campaign_events', CampaignEventIds, CampaignEvent)
        /\ DOMAIN campaign_events' = DOMAIN campaign_events \cup {l}
        /\ campaign_events'[l] = row
        /\ \A k \in DOMAIN campaign_events \ {l} : campaign_events'[k] = campaign_events[k]
    BY <1>1 DEF EventInv, EventsTypeOK, IsTable, Insert, Writes
  <1>3. ContactsTypeOK' /\ CampaignInv' /\ UNCHANGED campaigns
    BY <1>1, CampaignsStay DEF EventInv
  <1>4. EventRefs'
    BY <1>1, <1>2, <1>3 DEF EventInv, EventRefs, ParticipantFits
  <1> QED BY <1>1, <1>2, <1>3, <1>4 DEF EventInv, EventsTypeOK

LEMMA PromotionMarked == ASSUME EventInv, NEW l \in CampaignEventIds, DeleteCampaignEvent(l) PROVE EventInv'
  <1>1. PICK row : row = [campaign_events[l] EXCEPT !.is_deleted = TRUE]
    OBVIOUS
  <1>2. UpdateCampaignEvent(l, row) /\ campaign_events[l] \in CampaignEvent
    BY <1>1 DEF DeleteCampaignEvent, EventInv, EventsTypeOK, IsTable
  <1>3. row \in CampaignEvent
    BY <1>1, <1>2, FlagsAreFlags DEF CampaignEvent
  <1> QED BY <1>2, <1>3, PromotionWritten

(* Whatever goes, nothing may stay that refers to it. *)
LEMMA EventRowsLeft ==
  ASSUME EventInv, ContactsTypeOK', CampaignInv', NEW E, NEW R, NEW P, NEW F, NEW L, UNCHANGED <<discounts, date>>,
         events' = Without(events, E), event_registrations' = Without(event_registrations, R),
         participants' = Without(participants, P), event_fees' = Without(event_fees, F),
         campaign_events' = Without(campaign_events, L),
         \A r \in DOMAIN event_registrations \ R : /\ event_registrations[r].event_id \notin E
                                                   /\ event_registrations[r].contact_id \in DOMAIN contacts',
         \A p \in DOMAIN participants \ P : /\ participants[p].event_id \notin E
                                            /\ participants[p].contact_id \in DOMAIN contacts'
                                            /\ participants[p].registered_by_id \in DOMAIN contacts' \cup {NULL},
         \A f \in DOMAIN event_fees \ F : event_fees[f].event_id \notin E,
         \A l \in DOMAIN campaign_events \ L : /\ campaign_events[l].event_id \notin E
                                               /\ campaign_events[l].campaign_id \in DOMAIN campaigns'
  PROVE  EventInv'
  <1>1. IsTable(events', EventIds, Event) /\ DOMAIN events' = DOMAIN events \ E
    BY DEF EventInv, EventsTypeOK, IsTable, Without
  <1>2. /\ IsTable(event_registrations', RegistrationIds, EventRegistration)
        /\ DOMAIN event_registrations' = DOMAIN event_registrations \ R
        /\ \A r \in DOMAIN event_registrations' : event_registrations'[r] = event_registrations[r]
    BY DEF EventInv, EventsTypeOK, IsTable, Without
  <1>3. /\ IsTable(participants', AttendeeIds, Participant)
        /\ DOMAIN participants' = DOMAIN participants \ P
        /\ \A p \in DOMAIN participants' : participants'[p] = participants[p]
    BY DEF EventInv, EventsTypeOK, IsTable, Without
  <1>4. /\ IsTable(event_fees', FeeIds, EventFee)
        /\ DOMAIN event_fees' = DOMAIN event_fees \ F
        /\ \A f \in DOMAIN event_fees' : event_fees'[f] = event_fees[f]
    BY DEF EventInv, EventsTypeOK, IsTable, Without
  <1>5. /\ IsTable(campaign_events', CampaignEventIds, CampaignEvent)
        /\ DOMAIN campaign_events' = DOMAIN campaign_events \ L
        /\ \A l \in DOMAIN campaign_events' : campaign_events'[l] = campaign_events[l]
    BY DEF EventInv, EventsTypeOK, IsTable, Without
  <1>6. EventRefs'
    BY <1>1, <1>2, <1>3, <1>4, <1>5 DEF EventInv, EventRefs, ParticipantFits
  <1> QED BY <1>1, <1>2, <1>3, <1>4, <1>5, <1>6 DEF EventInv, EventsTypeOK

LEMMA NoEventRowDropped ==
  ASSUME EventInv
  PROVE  /\ events = Without(events, {}) /\ event_registrations = Without(event_registrations, {})
         /\ participants = Without(participants, {}) /\ event_fees = Without(event_fees, {})
         /\ campaign_events = Without(campaign_events, {})
  BY DEF EventInv, EventsTypeOK, IsTable, Without

(* What EventInv says of the rows that refer to others. *)
LEMMA EventRowsFit ==
  ASSUME EventInv
  PROVE  /\ \A r \in DOMAIN event_registrations : /\ event_registrations[r].event_id \in DOMAIN events
                                                  /\ event_registrations[r].contact_id \in DOMAIN contacts
         /\ \A p \in DOMAIN participants : /\ participants[p].event_id \in DOMAIN events
                                           /\ participants[p].contact_id \in DOMAIN contacts
                                           /\ participants[p].registered_by_id \in DOMAIN contacts \cup {NULL}
         /\ \A l \in DOMAIN campaign_events : campaign_events[l].campaign_id \in DOMAIN campaigns
  BY DEF EventInv, EventRefs, ParticipantFits

LEMMA EventDropped == ASSUME EventInv, NEW e \in EventIds, DeleteEvent(e) PROVE EventInv'
  <1>1. ContactsTypeOK' /\ CampaignInv' /\ UNCHANGED <<contacts, campaigns, discounts, date>>
    BY CampaignsStay DEF DeleteEvent, EventInv
  <1>2. PICK R, P, F, L : R = RegistrationsOf({e}, {}) /\ P = AttendeesOf({e}, {}) /\ F = FeesOf({e}) /\ L = PromotionsOf({e}, {})
    OBVIOUS
  <1>3. /\ events' = Without(events, {e}) /\ event_registrations' = Without(event_registrations, R)
        /\ participants' = Without(participants, P) /\ event_fees' = Without(event_fees, F)
        /\ campaign_events' = Without(campaign_events, L)
    BY <1>2 DEF DeleteEvent
  <1>4. /\ \A r \in DOMAIN event_registrations \ R : event_registrations[r].event_id \notin {e}
        /\ \A p \in DOMAIN participants \ P : participants[p].event_id \notin {e}
        /\ \A f \in DOMAIN event_fees \ F : event_fees[f].event_id \notin {e}
        /\ \A l \in DOMAIN campaign_events \ L : campaign_events[l].event_id \notin {e}
    BY <1>2 DEF RegistrationsOf, AttendeesOf, FeesOf, PromotionsOf
  <1> QED BY <1>1, <1>3, <1>4, EventRowsFit, EventRowsLeft

LEMMA EventRowDropped ==
  ASSUME EventInv,
         \/ \E r \in RegistrationIds : DeleteEventRegistration(r)
         \/ \E p \in AttendeeIds : DeleteParticipant(p)
         \/ \E f \in FeeIds : DeleteEventFee(f)
         \/ \E l \in CampaignEventIds : HardDeleteCampaignEvent(l)
  PROVE  EventInv'
  <1>1. UNCHANGED <<contacts, campaignTables, discounts, date>>
    BY DEF DeleteEventRegistration, DeleteParticipant, DeleteEventFee, HardDeleteCampaignEvent, pricing
  <1>2. ContactsTypeOK' /\ CampaignInv' /\ UNCHANGED <<contacts, campaigns>>
    BY <1>1, CampaignsStay DEF EventInv
  <1>3. PICK R, P, F, L : /\ events' = Without(events, {}) /\ event_registrations' = Without(event_registrations, R)
                          /\ participants' = Without(participants, P) /\ event_fees' = Without(event_fees, F)
                          /\ campaign_events' = Without(campaign_events, L)
    <2>1. CASE \E r \in RegistrationIds : DeleteEventRegistration(r)
      BY <2>1, NoEventRowDropped DEF DeleteEventRegistration, pricing
    <2>2. CASE \E p \in AttendeeIds : DeleteParticipant(p)
      BY <2>2, NoEventRowDropped DEF DeleteParticipant, pricing
    <2>3. CASE \E f \in FeeIds : DeleteEventFee(f)
      BY <2>3, NoEventRowDropped DEF DeleteEventFee, pricing
    <2>4. CASE \E l \in CampaignEventIds : HardDeleteCampaignEvent(l)
      BY <2>4, NoEventRowDropped DEF HardDeleteCampaignEvent, pricing
    <2> QED BY <2>1, <2>2, <2>3, <2>4
  <1> QED BY <1>1, <1>2, <1>3, EventRowsFit, EventRowsLeft

LEMMA AttendeeGone == ASSUME EventInv, NEW c \in ContactIds, CreateAttendee(c) \/ DeleteAttendee(c) PROVE EventInv'
  <1>1. CASE CreateAttendee(c)
    <2>1. /\ ContactsTypeOK' /\ DOMAIN contacts \subseteq DOMAIN contacts'
          /\ UNCHANGED <<campaignTables, events, event_registrations, participants, event_fees, discounts, campaign_events, date>>
      BY <1>1, ActorCreated DEF CreateAttendee, EventInv, eventTables, pricing
    <2>2. UNCHANGED <<campaigns, campaignKinds, campaign_contacts>>
      BY <2>1 DEF campaignTables
    <2>3. CampaignInv'
      BY <1>1, <2>2, SupporterKeeps DEF CreateAttendee, CreateSupporter, EventInv
    <2>4. EventRefs'
      BY <2>1, <2>2 DEF EventInv, EventRefs, ParticipantFits
    <2> QED BY <2>1, <2>3, <2>4 DEF EventInv, EventsTypeOK
  <1>2. CASE DeleteAttendee(c)
    <2>1. ContactsTypeOK' /\ DOMAIN contacts' = DOMAIN contacts \ {c}
      BY <1>2, ContactDeleted DEF DeleteAttendee, DeleteSupporter, EventInv
    <2>2. CampaignInv' /\ UNCHANGED <<campaigns, discounts, date>>
      BY <1>2, SupporterKeeps DEF DeleteAttendee, DeleteSupporter, EventInv, pricing
    <2>3. PICK R, P : R = RegistrationsOf({}, {c}) /\ P = AttendeesOf({}, {c})
      OBVIOUS
    <2>4. /\ events' = Without(events, {}) /\ event_registrations' = Without(event_registrations, R)
          /\ participants' = Without(participants, P) /\ event_fees' = Without(event_fees, {})
          /\ campaign_events' = Without(campaign_events, {})
      BY <1>2, <2>3, NoEventRowDropped DEF DeleteAttendee, pricing
    <2>5. \A p \in DOMAIN participants \ P : participants[p].contact_id # c /\ participants[p].registered_by_id # c
      BY <1>2, <2>3 DEF DeleteAttendee, AttendeesOf
    <2>6. \A r \in DOMAIN event_registrations \ R : event_registrations[r].contact_id # c
      BY <2>3 DEF RegistrationsOf
    <2> QED BY <2>1, <2>2, <2>4, <2>5, <2>6, EventRowsFit, EventRowsLeft
  <1> QED BY <1>1, <1>2

LEMMA SomeCampaignWritten ==
  ASSUME CampaignInv, NEW c \in CampaignIds, CreateCampaign(c, SomeCampaign)
  PROVE  CampaignInv' /\ DOMAIN campaigns \subseteq DOMAIN campaigns'
  <1>1. SomeCampaign \in Campaign /\ SomeCampaign.parent_id = NULL
    BY FlagsAreFlags DEF SomeCampaign, Campaign
  <1>2. PICK row \in Campaign : row = SomeCampaign
    BY <1>1
  <1>3. Writes(campaigns, campaigns', c, row) /\ DOMAIN campaigns \subseteq DOMAIN campaigns'
    BY <1>2 DEF CreateCampaign, Writes, Insert
  <1> QED BY <1>1, <1>2, <1>3, CampaignWritten DEF CreateCampaign

LEMMA PromoterKeeps ==
  ASSUME EventInv, NEW c \in CampaignIds, CreatePromoter(c, SomeCampaign) \/ DeletePromoter(c)
  PROVE  EventInv'
  <1>1. CASE CreatePromoter(c, SomeCampaign)
    <2>1. /\ CampaignInv' /\ DOMAIN campaigns \subseteq DOMAIN campaigns'
          /\ UNCHANGED <<contacts, events, event_registrations, participants, event_fees, discounts, campaign_events, date>>
      BY <1>1, SomeCampaignWritten DEF CreatePromoter, CreateCampaign, EventInv, eventTables, pricing
    <2>2. ContactsTypeOK' /\ EventRefs'
      BY <2>1 DEF EventInv, EventRefs, ParticipantFits, ContactsTypeOK
    <2> QED BY <2>1, <2>2 DEF EventInv, EventsTypeOK
  <1>2. CASE DeletePromoter(c)
    <2>1. CampaignInv' /\ DOMAIN campaigns' = DOMAIN campaigns \ {c} /\ UNCHANGED <<contacts, discounts, date>>
      BY <1>2, CampaignDeleted DEF DeletePromoter, DeleteCampaign, EventInv, Without, pricing
    <2>2. ContactsTypeOK'
      BY <2>1 DEF EventInv, ContactsTypeOK
    <2>3. PICK L : L = PromotionsOf({}, {c})
      OBVIOUS
    <2>4. /\ events' = Without(events, {}) /\ event_registrations' = Without(event_registrations, {})
          /\ participants' = Without(participants, {}) /\ event_fees' = Without(event_fees, {})
          /\ campaign_events' = Without(campaign_events, L)
      BY <1>2, <2>3, NoEventRowDropped DEF DeletePromoter, pricing
    <2>5. \A l \in DOMAIN campaign_events \ L : campaign_events[l].campaign_id # c
      BY <2>3 DEF PromotionsOf
    <2> QED BY <2>1, <2>2, <2>4, <2>5, EventRowsFit, EventRowsLeft
  <1> QED BY <1>1, <1>2

LEMMA NextDateKeeps == ASSUME EventInv, NextDate PROVE EventInv'
  <1>1. UNCHANGED <<contacts, campaignTables, events, event_registrations, participants, event_fees, discounts, campaign_events>>
    BY DEF NextDate, pricing
  <1>2. ContactsTypeOK' /\ CampaignInv' /\ UNCHANGED campaigns
    BY <1>1, CampaignsStay DEF EventInv
  <1>3. date' \in 0..MaxDate
    BY EventAssumption DEF NextDate, EventInv, EventsTypeOK
  <1>4. EventRefs'
    BY <1>1, <1>2 DEF EventInv, EventRefs, ParticipantFits
  <1> QED BY <1>1, <1>2, <1>3, <1>4 DEF EventInv, EventsTypeOK

LEMMA SomeEventsFit == SomeEvents \subseteq Event
  BY DEF SomeEvents

LEMMA CalendarKeeps == ASSUME EventInv, CalendarNext PROVE EventInv'
  BY NextDateKeeps, AttendeeGone, EventDropped, EventKeeps, EventRowDropped, RegistrationKeeps DEF CalendarNext

LEMMA AttendanceKeeps == ASSUME EventInv, AttendanceNext PROVE EventInv'
  <1>1. ASSUME NEW p \in AttendeeIds, NEW e \in EventIds, NEW c \in ContactIds, NEW st \in ParticipantStatusIds,
               NEW by \in ContactIds \cup {NULL}, NEW k \in DOMAIN campaigns \cup {NULL},
               LET row == [event_id |-> e, contact_id |-> c, status_id |-> st, registered_by_id |-> by,
                           campaign_id |-> k, is_test |-> k = NULL]
               IN  CreateParticipant(p, row) \/ UpdateParticipant(p, row)
        PROVE  EventInv'
    <2>0. PICK row : row = [event_id |-> e, contact_id |-> c, status_id |-> st, registered_by_id |-> by,
                            campaign_id |-> k, is_test |-> k = NULL]
      OBVIOUS
    <2>1. k \in CampaignIds \cup {NULL}
      BY DEF EventInv, CampaignInv, CampaignsTypeOK, IsTable
    <2>2. (k = NULL) \in Flag
      BY FlagsAreFlags DEF Flag
    <2>3. row \in Participant
      BY <2>0, <2>1, <2>2 DEF Participant
    <2> QED BY <1>1, <2>0, <2>3, AttendeeKeeps
  <1>2. CASE \E c \in ContactIds : CreateAttendee(c) \/ DeleteAttendee(c)
    BY <1>2, AttendeeGone
  <1>3. CASE \E e \in EventIds : DeleteEvent(e) \/ \E row \in SomeEvents : CreateEvent(e, row)
    BY <1>3, EventDropped, EventKeeps, SomeEventsFit
  <1>4. CASE \E c \in CampaignIds : CreatePromoter(c, SomeCampaign) \/ DeletePromoter(c)
    BY <1>4, PromoterKeeps
  <1>5. ASSUME NEW p \in AttendeeIds,
               \/ DeleteParticipant(p)
               \/ \E e \in EventIds, c \in ContactIds, st \in ParticipantStatusIds, by \in ContactIds \cup {NULL},
                    k \in DOMAIN campaigns \cup {NULL} :
                    LET row == [event_id |-> e, contact_id |-> c, status_id |-> st, registered_by_id |-> by,
                                campaign_id |-> k, is_test |-> k = NULL]
                    IN  CreateParticipant(p, row) \/ UpdateParticipant(p, row)
        PROVE  EventInv'
    <2>1. CASE DeleteParticipant(p)
      BY <2>1, EventRowDropped
    <2> QED BY <1>1, <1>5, <2>1, Zenon
  <1> QED BY <1>2, <1>3, <1>4, <1>5, Zenon DEF AttendanceNext

LEMMA FeesKeep == ASSUME EventInv, FeesNext PROVE EventInv'
  <1>1. ASSUME NEW f \in FeeIds, NEW e \in EventIds, NEW n \in EventNames, NEW act \in Flags, NEW def \in Flags, NEW row,
               row = [event_id |-> e, name |-> n, is_active |-> act, is_default |-> def],
               CreateEventFee(f, row) \/ UpdateEventFee(f, row)
        PROVE  EventInv'
    <2>1. row \in EventFee
      BY <1>1, FlagsAreFlags DEF EventFee
    <2> QED BY <1>1, <2>1, FeeKeeps
  <1>2. ASSUME NEW d \in DiscountIds, NEW n \in EventNames, NEW act \in Flags, NEW row, row = [name |-> n, is_active |-> act],
               CreateDiscount(d, row) \/ UpdateDiscount(d, row)
        PROVE  EventInv'
    <2>1. row \in Discount
      BY <1>2, FlagsAreFlags DEF Discount
    <2> QED BY <1>2, <2>1, DiscountKeeps
  <1> QED BY <1>1, <1>2, EventDropped, EventKeeps, SomeEventsFit, EventRowDropped, DiscountKeeps DEF FeesNext

LEMMA PromotionsKeep == ASSUME EventInv, PromotionsNext PROVE EventInv'
  BY EventDropped, EventKeeps, SomeEventsFit, PromoterKeeps, PromotionMarked, EventRowDropped, PromotionWritten DEF PromotionsNext

LEMMA EventsNextKeeps == EventInv /\ [EventsNext]_eventVars => EventInv'
  <1>1. ASSUME EventInv, UNCHANGED eventVars PROVE EventInv'
    <2>1. ContactsTypeOK' /\ CampaignInv' /\ UNCHANGED campaigns
      BY <1>1, CampaignsStay DEF EventInv, eventVars
    <2> QED BY <1>1, <2>1 DEF eventVars, eventTables, pricing, EventInv, EventsTypeOK, EventRefs, ParticipantFits
  <1> QED BY <1>1, CalendarKeeps, AttendanceKeeps, FeesKeep, PromotionsKeep DEF EventsNext

(* Events, registrations, participants, fees, discounts and the events of *)
(* campaigns keep rows of their types (005_events.sql,                    *)
(* 013_event_enhancement.sql).                                            *)
THEOREM EventTypeCorrect == EventsSpec => []EventsTypeOK
  <1>1. EventInv => EventsTypeOK
    BY DEF EventInv
  <1> QED BY <1>1, EventInitInv, EventsNextKeeps, PTL DEF EventsSpec

(* Deleting an event, a contact or a campaign leaves no registration,  *)
(* participant, fee or link to one that is gone, and a contact who     *)
(* registered another stays while the other takes part (events.sql.go, *)
(* participants.sql.go).                                               *)
THEOREM EventReferences == EventsSpec => []EventRefs
  <1>1. EventInv => EventRefs
    BY DEF EventInv
  <1> QED BY <1>1, EventInitInv, EventsNextKeeps, PTL DEF EventsSpec

(* What the queries of events answer follows from the references. *)
LEMMA EventListingsAgree ==
  ASSUME EventsTypeOK, EventRefs
  PROVE  /\ \A e \in ListUpcomingEvents \cap ListPastEvents : events[e].end_date < events[e].start_date
         /\ \A a, b \in EventDays : b < date => GetEventsByDateRange(a, b) \subseteq ListPastEvents
         /\ \A e \in ListEvents : CountRegistrationsByEvent(e) = Cardinality(GetRegistrationsByEvent(e))
  <1>1. /\ \A e \in DOMAIN events : events[e].start_date \in Nat /\ events[e].end_date \in Nat
        /\ date \in Nat /\ EventDays \subseteq Nat
    BY EventAssumption DEF EventsTypeOK, IsTable, Event
  <1>2. \A e \in ListUpcomingEvents \cap ListPastEvents : events[e].end_date < events[e].start_date
    BY <1>1 DEF ListUpcomingEvents, ListPastEvents
  <1>3. \A a, b \in EventDays : b < date => GetEventsByDateRange(a, b) \subseteq ListPastEvents
    BY <1>1 DEF GetEventsByDateRange, ListPastEvents
  <1>4. ASSUME NEW e \in ListEvents
        PROVE  CountRegistrationsByEvent(e) = Cardinality(GetRegistrationsByEvent(e))
    <2>1. {r \in DOMAIN event_registrations : event_registrations[r].event_id = e} = GetRegistrationsByEvent(e)
      BY DEF GetRegistrationsByEvent, RegisteredTo, ListEvents, EventRefs
    <2> QED BY <2>1 DEF CountRegistrationsByEvent
  <1> QED BY <1>2, <1>3, <1>4

LEMMA RegistrationsAgree ==
  ASSUME EventRefs
  PROVE  /\ CountRegistrations = Cardinality(ListAllRegistrations)
         /\ \A st \in RegistrationStatuses : CountRegistrationsByStatus(st) = Cardinality(ListRegistrationsByStatus(st))
  <1>1. \A r \in DOMAIN event_registrations : /\ event_registrations[r].event_id \in DOMAIN events
                                              /\ event_registrations[r].contact_id \in DOMAIN contacts
    BY DEF EventRefs
  <1>2. ListAllRegistrations = DOMAIN event_registrations
    BY <1>1 DEF ListAllRegistrations, RegisteredTo
  <1>3. ASSUME NEW st \in RegistrationStatuses
        PROVE  CountRegistrationsByStatus(st) = Cardinality(ListRegistrationsByStatus(st))
    <2>1. {r \in DOMAIN event_registrations : Eq(event_registrations[r].status, st)} = ListRegistrationsByStatus(st)
      BY <1>1 DEF ListRegistrationsByStatus, RegisteredTo
    <2> QED BY <2>1 DEF CountRegistrationsByStatus
  <1> QED BY <1>2, <1>3 DEF CountRegistrations

LEMMA AttendanceAgrees ==
  ASSUME EventRefs
  PROVE  /\ \A c \in DOMAIN contacts :
              /\ CountRegistrationsByContact(c) = Cardinality(GetRegistrationsByContact(c))
              /\ GetRegistrationsByContact(c) = UNION {GetEventRegistrationByEventAndContact(e, c) : e \in DOMAIN events}
              /\ GetParticipantsByContact(c) = UNION {GetParticipantByEventAndContact(e, c) : e \in DOMAIN events}
         /\ ListAllParticipants = UNION {GetParticipantsByContact(c) : c \in DOMAIN contacts}
  <1>1. /\ \A r \in DOMAIN event_registrations : event_registrations[r].event_id \in DOMAIN events
        /\ \A p \in DOMAIN participants : participants[p].event_id \in DOMAIN events /\ participants[p].contact_id \in DOMAIN contacts
    BY DEF EventRefs, ParticipantFits
  <1>2. ASSUME NEW c \in DOMAIN contacts
        PROVE  /\ CountRegistrationsByContact(c) = Cardinality(GetRegistrationsByContact(c))
               /\ GetRegistrationsByContact(c) = UNION {GetEventRegistrationByEventAndContact(e, c) : e \in DOMAIN events}
               /\ GetParticipantsByContact(c) = UNION {GetParticipantByEventAndContact(e, c) : e \in DOMAIN events}
    <2>1. {r \in DOMAIN event_registrations : event_registrations[r].contact_id = c} = GetRegistrationsByContact(c)
      BY <1>1 DEF GetRegistrationsByContact
    <2>2. \A r : r \in GetRegistrationsByContact(c) <=> \E e \in DOMAIN events : r \in GetEventRegistrationByEventAndContact(e, c)
      BY <1>1 DEF GetRegistrationsByContact, GetEventRegistrationByEventAndContact
    <2>3. \A p : p \in GetParticipantsByContact(c) <=> \E e \in DOMAIN events : p \in GetParticipantByEventAndContact(e, c)
      BY <1>1 DEF GetParticipantsByContact, GetParticipantByEventAndContact
    <2>4. CountRegistrationsByContact(c) = Cardinality(GetRegistrationsByContact(c))
      BY <2>1 DEF CountRegistrationsByContact
    <2> QED BY <2>2, <2>3, <2>4
  <1>3. \A p : p \in ListAllParticipants <=> \E c \in DOMAIN contacts : p \in GetParticipantsByContact(c)
    BY <1>1 DEF ListAllParticipants, GetParticipantsByContact
  <1> QED BY <1>2, <1>3

LEMMA PromotionsAgree ==
  ASSUME EventsTypeOK, EventRefs
  PROVE  /\ ListCampaignEventsByType = ListCampaignEvents
         /\ \A c \in CampaignIds : GetCampaignEventStats(c) = {} <=> GetCampaignEventsWithDetails(c) = {}
         /\ \A l \in ListCampaignEvents : LET e == campaign_events[l].event_id IN
              l \in ListCampaignEventsByDateRange(events[e].start_date, events[e].start_date)
  <1>1. /\ \A l \in DOMAIN campaign_events : campaign_events[l].event_id \in DOMAIN events
        /\ \A e \in DOMAIN events : events[e].start_date \in Nat
    BY EventAssumption DEF EventRefs, EventsTypeOK, IsTable, Event
  <1>2. \A l \in ListCampaignEvents : l \in DOMAIN campaign_events
    BY DEF ListCampaignEvents
  <1>3. ListCampaignEventsByType = ListCampaignEvents
    BY <1>1, <1>2 DEF ListCampaignEventsByType
  <1>4. ASSUME NEW c \in CampaignIds
        PROVE  GetCampaignEventStats(c) = {} <=> GetCampaignEventsWithDetails(c) = {}
    <2>1. GetCampaignEventsWithDetails(c) = GetCampaignEventsByCampaign(c)
      BY <1>1, <1>2 DEF GetCampaignEventsWithDetails, GetCampaignEventsByCampaign
    <2>2. GetCampaignEventsByCampaign(c) \in SUBSET CampaignEventIds
      BY <1>2 DEF GetCampaignEventsByCampaign, EventsTypeOK, IsTable
    <2>3. IsFiniteSet(GetCampaignEventsByCampaign(c))
      BY <2>2, EventAssumption, FS_Subset
    <2>4. Cardinality(GetCampaignEventsByCampaign(c)) = 0 <=> GetCampaignEventsByCampaign(c) = {}
      BY <2>3, FS_EmptySet
    <2> QED BY <2>1, <2>4 DEF GetCampaignEventStats
  <1>5. ASSUME NEW l \in ListCampaignEvents, NEW e, e = campaign_events[l].event_id
        PROVE  l \in ListCampaignEventsByDateRange(events[e].start_date, events[e].start_date)
    <2>1. e \in DOMAIN events /\ events[e].start_date \in Nat
      BY <1>1, <1>2, <1>5
    <2>2. events[e].start_date \in events[e].start_date..events[e].start_date
      BY <2>1
    <2> QED BY <1>5, <2>1, <2>2 DEF ListCampaignEventsByDateRange
  <1> QED BY <1>3, <1>4, <1>5

LEMMA EventAnswers == ASSUME EventsTypeOK, EventRefs PROVE EventAnswersAgree
  BY EventListingsAgree, RegistrationsAgree, AttendanceAgrees, PromotionsAgree, Zenon DEF EventAnswersAgree

-----------------------------------------------------------------------------
(* Surveys, the responses of contacts and the campaigns surveys belong to, in *)
(* the same way.                                                               *)

SurveyInv == ContactsTypeOK /\ CampaignInv /\ SurveysTypeOK /\ SurveyRefs

LEMMA SurveyInitInv == ContactsInit /\ CampaignsInit /\ SurveysInit => SurveyInv
  <1>1. ContactsInit => ContactsTypeOK
    BY DEF ContactsInit, ContactsTypeOK, IsTable, NoRows
  <1>2. SurveysInit => SurveysTypeOK /\ SurveyRefs
    BY DEF SurveysInit, SurveysTypeOK, SurveyRefs, IsTable, NoRows
  <1> QED BY <1>1, <1>2, CampaignInitInv DEF SurveyInv

LEMMA SurveyWritten ==
  ASSUME SurveyInv, NEW s \in SurveyIds, NEW row \in Survey, Writes(surveys, surveys', s, row),
         UNCHANGED <<contacts, campaignTables, survey_questions, survey_responses, survey_response_answers, survey_campaigns>>
  PROVE  SurveyInv'
  <1>1. IsTable(surveys', SurveyIds, Survey) /\ DOMAIN surveys' = DOMAIN surveys \cup {s}
    BY DEF SurveyInv, SurveysTypeOK, IsTable, Insert, Writes
  <1>2. ContactsTypeOK' /\ CampaignInv' /\ UNCHANGED campaigns
    BY CampaignsStay DEF SurveyInv
  <1>3. SurveyRefs'
    BY <1>1, <1>2 DEF SurveyInv, SurveyRefs
  <1> QED BY <1>1, <1>2, <1>3 DEF SurveyInv, SurveysTypeOK

LEMMA SurveyKeeps ==
  ASSUME SurveyInv, NEW s \in SurveyIds,
         \/ ActivateSurvey(s) \/ DeactivateSurvey(s)
         \/ \E row \in Survey : CreateSurvey(s, row) \/ UpdateSurvey(s, row)
  PROVE  SurveyInv'
  <1>1. ASSUME NEW row \in Survey, CreateSurvey(s, row) \/ UpdateSurvey(s, row) PROVE SurveyInv'
    <2>1. Writes(surveys, surveys', s, row)
      BY <1>1 DEF CreateSurvey, UpdateSurvey, Writes
    <2> QED BY <1>1, <2>1, SurveyWritten DEF CreateSurvey, UpdateSurvey
  <1>2. ASSUME NEW act \in Flag, s \in DOMAIN surveys, UpdateSurvey(s, [surveys[s] EXCEPT !.is_active = act]) PROVE SurveyInv'
    <2>1. PICK row : row = [surveys[s] EXCEPT !.is_active = act]
      OBVIOUS
    <2>2. surveys[s] \in Survey
      BY <1>2 DEF SurveyInv, SurveysTypeOK, IsTable
    <2>3. row \in Survey
      BY <2>1, <2>2 DEF Survey
    <2> QED BY <1>1, <1>2, <2>1, <2>3
  <1> QED BY <1>1, <1>2, FlagsAreFlags DEF ActivateSurvey, DeactivateSurvey

LEMMA DefaultSurveyKeeps == ASSUME SurveyInv, SetDefaultSurvey PROVE SurveyInv'
  <1>1. UNCHANGED <<contacts, campaignTables, survey_questions, survey_responses, survey_response_answers, survey_campaigns>>
    BY DEF SetDefaultSurvey
  <1>2. \A s \in DOMAIN surveys : [surveys[s] EXCEPT !.is_default = FALSE] \in Survey
    BY FlagsAreFlags DEF SurveyInv, SurveysTypeOK, IsTable, Survey
  <1>3. IsTable(surveys', SurveyIds, Survey) /\ DOMAIN surveys' = DOMAIN surveys
    BY <1>2 DEF SetDefaultSurvey, SurveyInv, SurveysTypeOK, IsTable
  <1>4. ContactsTypeOK' /\ CampaignInv' /\ UNCHANGED campaigns
    BY <1>1, CampaignsStay DEF SurveyInv
  <1>5. SurveyRefs'
    BY <1>1, <1>3, <1>4 DEF SurveyInv, SurveyRefs
  <1> QED BY <1>1, <1>3, <1>4, <1>5 DEF SurveyInv, SurveysTypeOK

LEMMA QuestionWritten ==
  ASSUME SurveyInv, NEW q \in QuestionIds, NEW row \in SurveyQuestion,
         CreateSurveyQuestion(q, row) \/ UpdateSurveyQuestion(q, row)
  PROVE  SurveyInv'
  <1>1. /\ Writes(survey_questions, survey_questions', q, row) /\ row.survey_id \in DOMAIN surveys
        /\ UNCHANGED <<contacts, campaignTables, surveys, survey_responses, survey_response_answers, survey_campaigns>>
    BY DEF CreateSurveyQuestion, UpdateSurveyQuestion, Writes
  <1>2. /\ IsTable(survey_questions', QuestionIds, SurveyQuestion)
        /\ DOMAIN survey_questions' = DOMAIN survey_questions \cup {q}
        /\ survey_questions'[q] = row
        /\ \A k \in DOMAIN survey_questions \ {q} : survey_questions'[k] = survey_questions[k]
    BY <1>1 DEF SurveyInv, SurveysTypeOK, IsTable, Insert, Writes
  <1>3. ContactsTypeOK' /\ CampaignInv' /\ UNCHANGED campaigns
    BY <1>1, CampaignsStay DEF SurveyInv
  <1>4. SurveyRefs'
    BY <1>1, <1>2, <1>3 DEF SurveyInv, SurveyRefs
  <1> QED BY <1>1, <1>2, <1>3, <1>4 DEF SurveyInv, SurveysTypeOK

LEMMA QuestionSwitched ==
  ASSUME SurveyInv, NEW q \in QuestionIds, ActivateSurveyQuestion(q) \/ DeactivateSurveyQuestion(q)
  PROVE  SurveyInv'
  <1>1. PICK act \in Flag : /\ q \in DOMAIN survey_questions
                            /\ UpdateSurveyQuestion(q, [survey_questions[q] EXCEPT !.is_active = act])
    BY FlagsAreFlags DEF ActivateSurveyQuestion, DeactivateSurveyQuestion
  <1>2. PICK row : row = [survey_questions[q] EXCEPT !.is_active = act]
    OBVIOUS
  <1>3. survey_questions[q] \in SurveyQuestion
    BY <1>1 DEF SurveyInv, SurveysTypeOK, IsTable
  <1>4. row \in SurveyQuestion
    BY <1>2, <1>3 DEF SurveyQuestion
  <1> QED BY <1>1, <1>2, <1>4, QuestionWritten

LEMMA ResponseWritten ==
  ASSUME SurveyInv, NEW r \in ResponseIds, NEW row \in SurveyResponse,
         CreateSurveyResponse(r, row) \/ UpdateSurveyResponse(r, row)
  PROVE  SurveyInv'
  <1>1. /\ Writes(survey_responses, survey_responses', r, row)
        /\ row.survey_id \in DOMAIN surveys /\ row.contact_id \in DOMAIN contacts
        /\ UNCHANGED <<contacts, campaignTables, surveys, survey_questions, survey_response_answers, survey_campaigns>>
    BY DEF CreateSurveyResponse, UpdateSurveyResponse, Writes
  <1>2. /\ IsTable(survey_responses', ResponseIds, SurveyResponse)
        /\ DOMAIN survey_responses' = DOMAIN survey_responses \cup {r}
        /\ survey_responses'[r] = row
        /\ \A k \in DOMAIN survey_responses \ {r} : survey_responses'[k] = survey_responses[k]
    BY <1>1 DEF SurveyInv, SurveysTypeOK, IsTable, Insert, Writes
  <1>3. ContactsTypeOK' /\ CampaignInv' /\ UNCHANGED campaigns
    BY <1>1, CampaignsStay DEF SurveyInv
  <1>4. SurveyRefs'
    BY <1>1, <1>2, <1>3 DEF SurveyInv, SurveyRefs
  <1> QED BY <1>1, <1>2, <1>3, <1>4 DEF SurveyInv, SurveysTypeOK

LEMMA ResponseStatusWritten ==
  ASSUME SurveyInv, NEW r \in ResponseIds, NEW st \in ResponseStatuses \cup {NULL}, UpdateSurveyResponseStatus(r, st)
  PROVE  SurveyInv'
  <1>1. r \in DOMAIN survey_responses /\ UpdateSurveyResponse(r, [survey_responses[r] EXCEPT !.status = st])
    BY DEF UpdateSurveyResponseStatus
  <1>2. PICK row : row = [survey_responses[r] EXCEPT !.status = st]
    OBVIOUS
  <1>3. survey_responses[r] \in SurveyResponse
    BY <1>1 DEF SurveyInv, SurveysTypeOK, IsTable
  <1>4. row \in SurveyResponse
    BY <1>2, <1>3 DEF SurveyResponse
  <1> QED BY <1>1, <1>2, <1>4, ResponseWritten

LEMMA ResponseMarked ==
  ASSUME SurveyInv, NEW r \in ResponseIds,
         MarkSurveyResponseCompleted(r) \/ MarkSurveyResponsePartial(r) \/ MarkSurveyResponseAbandoned(r)
  PROVE  SurveyInv'
  <1>1. PICK st \in ResponseStatuses : UpdateSurveyResponseStatus(r, st)
    BY SurveyAssumption DEF MarkSurveyResponseCompleted, MarkSurveyResponsePartial, MarkSurveyResponseAbandoned
  <1> QED BY <1>1, ResponseStatusWritten

LEMMA AnswerWritten ==
  ASSUME SurveyInv, NEW a \in AnswerIds, NEW row \in SurveyResponseAnswer,
         CreateSurveyResponseAnswer(a, row) \/ UpdateSurveyResponseAnswer(a, row)
  PROVE  SurveyInv'
  <1>1. /\ Writes(survey_response_answers, survey_response_answers', a, row)
        /\ row.survey_response_id \in DOMAIN survey_responses /\ row.survey_question_id \in DOMAIN survey_questions
        /\ UNCHANGED <<contacts, campaignTables, surveys, survey_questions, survey_responses, survey_campaigns>>
    BY DEF CreateSurveyResponseAnswer, UpdateSurveyResponseAnswer, Writes
  <1>2. /\ IsTable(survey_response_answers', AnswerIds, SurveyResponseAnswer)
        /\ DOMAIN survey_response_answers' = DOMAIN survey_response_answers \cup {a}
        /\ survey_response_answers'[a] = row
        /\ \A k \in DOMAIN survey_response_answers \ {a} : survey_response_answers'[k] = survey_response_answers[k]
    BY <1>1 DEF SurveyInv, SurveysTypeOK, IsTable, Insert, Writes
  <1>3. ContactsTypeOK' /\ CampaignInv' /\ UNCHANGED campaigns
    BY <1>1, CampaignsStay DEF SurveyInv
  <1>4. SurveyRefs'
    BY <1>1, <1>2, <1>3 DEF SurveyInv, SurveyRefs
  <1> QED BY <1>1, <1>2, <1>3, <1>4 DEF SurveyInv, SurveysTypeOK

LEMMA LinkWritten ==
  ASSUME SurveyInv, NEW l \in SurveyCampaignIds, NEW row \in SurveyCampaign,
         CreateSurveyCampaign(l, row) \/ UpdateSurveyCampaign(l, row)
  PROVE  SurveyInv'
  <1>1. /\ Writes(survey_campaigns, survey_campaigns', l, row)
        /\ row.survey_id \in DOMAIN surveys /\ row.campaign_id \in DOMAIN campaigns
        /\ UNCHANGED <<contacts, campaignTables, surveys, survey_questions, survey_responses, survey_response_answers>>
    BY DEF CreateSurveyCampaign, UpdateSurveyCampaign, Writes
  <1>2. /\ IsTable(survey_campaigns', SurveyCampaignIds, SurveyCampaign)
        /\ DOMAIN survey_campaigns' = DOMAIN survey_campaigns \cup {l}
        /\ survey_campaigns'[l] = row
        /\ \A k \in DOMAIN survey_campaigns \ {l} : survey_campaigns'[k] = survey_campaigns[k]
    BY <1>1 DEF SurveyInv, SurveysTypeOK, IsTable, Insert, Writes
  <1>3. ContactsTypeOK' /\ CampaignInv' /\ UNCHANGED campaigns
    BY <1>1, CampaignsStay DEF SurveyInv
  <1>4. SurveyRefs'
    BY <1>1, <1>2, <1>3 DEF SurveyInv, SurveyRefs
  <1> QED BY <1>1, <1>2, <1>3, <1>4 DEF SurveyInv, SurveysTypeOK

LEMMA LinkSwitched ==
  ASSUME SurveyInv, NEW l \in SurveyCampaignIds, ActivateSurveyCampaign(l) \/ DeactivateSurveyCampaign(l)
  PROVE  SurveyInv'
  <1>1. PICK act \in Flag : /\ l \in DOMAIN survey_campaigns
                            /\ UpdateSurveyCampaign(l, [survey_campaigns[l] EXCEPT !.is_active = act])
    BY FlagsAreFlags DEF ActivateSurveyCampaign, DeactivateSurveyCampaign
  <1>2. PICK row : row = [survey_campaigns[l] EXCEPT !.is_active = act]
    OBVIOUS
  <1>3. survey_campaigns[l] \in SurveyCampaign
    BY <1>1 DEF SurveyInv, SurveysTypeOK, IsTable
  <1>4. row \in SurveyCampaign
    BY <1>2, <1>3 DEF SurveyCampaign
  <1> QED BY <1>1, <1>2, <1>4, LinkWritten

(* An answer must go with its response and with its question. *)
LEMMA SurveyRowsLeft ==
  ASSUME SurveyInv, ContactsTypeOK', CampaignInv', NEW S, NEW Q, NEW R, NEW N, NEW L,
         surveys' = Without(surveys, S), survey_questions' = Without(survey_questions, Q),
         survey_responses' = Without(survey_responses, R),
         survey_response_answers' = Without(survey_response_answers, N),
         survey_campaigns' = Without(survey_campaigns, L),
         \A q \in DOMAIN survey_questions \ Q : survey_questions[q].survey_id \notin S,
         \A r \in DOMAIN survey_responses \ R : /\ survey_responses[r].survey_id \notin S
                                                /\ survey_responses[r].contact_id \in DOMAIN contacts',
         \A a \in DOMAIN survey_response_answers \ N : /\ survey_response_answers[a].survey_response_id \notin R
                                                       /\ survey_response_answers[a].survey_question_id \notin Q,
         \A l \in DOMAIN survey_campaigns \ L : /\ survey_campaigns[l].survey_id \notin S
                                                /\ survey_campaigns[l].campaign_id \in DOMAIN campaigns'
  PROVE  SurveyInv'
  <1>1. IsTable(surveys', SurveyIds, Survey) /\ DOMAIN surveys' = DOMAIN surveys \ S
    BY DEF SurveyInv, SurveysTypeOK, IsTable, Without
  <1>2. /\ IsTable(survey_questions', QuestionIds, SurveyQuestion)
        /\ DOMAIN survey_questions' = DOMAIN survey_questions \ Q
        /\ \A q \in DOMAIN survey_questions' : survey_questions'[q] = survey_questions[q]
    BY DEF SurveyInv, SurveysTypeOK, IsTable, Without
  <1>3. /\ IsTable(survey_responses', ResponseIds, SurveyResponse)
        /\ DOMAIN survey_responses' = DOMAIN survey_responses \ R
        /\ \A r \in DOMAIN survey_responses' : survey_responses'[r] = survey_responses[r]
    BY DEF SurveyInv, SurveysTypeOK, IsTable, Without
  <1>4. /\ IsTable(survey_response_answers', AnswerIds, SurveyResponseAnswer)
        /\ DOMAIN survey_response_answers' = DOMAIN survey_response_answers \ N
        /\ \A a \in DOMAIN survey_response_answers' : survey_response_answers'[a] = survey_response_answers[a]
    BY DEF SurveyInv, SurveysTypeOK, IsTable, Without
  <1>5. /\ IsTable(survey_campaigns', SurveyCampaignIds, SurveyCampaign)
        /\ DOMAIN survey_campaigns' = DOMAIN survey_campaigns \ L
        /\ \A l \in DOMAIN survey_campaigns' : survey_campaigns'[l] = survey_campaigns[l]
    BY DEF SurveyInv, SurveysTypeOK, IsTable, Without
  <1>6. SurveyRefs'
    BY <1>1, <1>2, <1>3, <1>4, <1>5 DEF SurveyInv, SurveyRefs
  <1> QED BY <1>1, <1>2, <1>3, <1>4, <1>5, <1>6 DEF SurveyInv, SurveysTypeOK

LEMMA NoSurveyRowDropped ==
  ASSUME SurveyInv
  PROVE  /\ surveys = Without(surveys, {}) /\ survey_questions = Without(survey_questions, {})
         /\ survey_responses = Without(survey_responses, {})
         /\ survey_response_answers = Without(survey_response_answers, {})
         /\ survey_campaigns = Without(survey_campaigns, {})
  BY DEF SurveyInv, SurveysTypeOK, IsTable, Without

LEMMA SurveyRowsFit ==
  ASSUME SurveyInv
  PROVE  /\ \A r \in DOMAIN survey_responses : survey_responses[r].contact_id \in DOMAIN contacts
         /\ \A l \in DOMAIN survey_campaigns : survey_campaigns[l].campaign_id \in DOMAIN campaigns
  BY DEF SurveyInv, SurveyRefs

LEMMA SurveyDropped == ASSUME SurveyInv, NEW s \in SurveyIds, DeleteSurvey(s) PROVE SurveyInv'
  <1>1. ContactsTypeOK' /\ CampaignInv' /\ UNCHANGED <<contacts, campaigns>>
    BY CampaignsStay DEF DeleteSurvey, SurveyInv
  <1>2. PICK Q, R, L : Q = QuestionsOf({s}) /\ R = ResponsesOf({s}, {}) /\ L = LinksOf({s}, {})
    OBVIOUS
  <1>3. PICK N : N = AnswersOf(R, Q)
    OBVIOUS
  <1>4. /\ surveys' = Without(surveys, {s}) /\ survey_questions' = Without(survey_questions, Q)
        /\ survey_responses' = Without(survey_responses, R)
        /\ survey_response_answers' = Without(survey_response_answers, N)
        /\ survey_campaigns' = Without(survey_campaigns, L)
    BY <1>2, <1>3 DEF DeleteSurvey, DropResponses
  <1>5. /\ \A q \in DOMAIN survey_questions \ Q : survey_questions[q].survey_id \notin {s}
        /\ \A r \in DOMAIN survey_responses \ R : survey_responses[r].survey_id \notin {s}
        /\ \A a \in DOMAIN survey_response_answers \ N : /\ survey_response_answers[a].survey_response_id \notin R
                                                         /\ survey_response_answers[a].survey_question_id \notin Q
        /\ \A l \in DOMAIN survey_campaigns \ L : survey_campaigns[l].survey_id \notin {s}
    BY <1>2, <1>3 DEF QuestionsOf, ResponsesOf, LinksOf, AnswersOf
  <1> QED BY <1>1, <1>4, <1>5, SurveyRowsFit, SurveyRowsLeft

LEMMA ResponsesDropped ==
  ASSUME SurveyInv, ContactsTypeOK', CampaignInv', UNCHANGED <<campaigns, surveys, survey_campaigns>>, NEW R, NEW Q,
         survey_questions' = Without(survey_questions, Q), DropResponses(R, Q),
         \A r \in DOMAIN survey_responses \ R : survey_responses[r].contact_id \in DOMAIN contacts'
  PROVE  SurveyInv'
  <1>1. PICK N : N = AnswersOf(R, Q)
    OBVIOUS
  <1>2. /\ surveys' = Without(surveys, {}) /\ survey_responses' = Without(survey_responses, R)
        /\ survey_response_answers' = Without(survey_response_answers, N)
        /\ survey_campaigns' = Without(survey_campaigns, {})
    BY <1>1, NoSurveyRowDropped DEF DropResponses
  <1>3. \A a \in DOMAIN survey_response_answers \ N : /\ survey_response_answers[a].survey_response_id \notin R
                                                      /\ survey_response_answers[a].survey_question_id \notin Q
    BY <1>1 DEF AnswersOf
  <1> QED BY <1>2, <1>3, SurveyRowsFit, SurveyRowsLeft

LEMMA QuestionOrResponseDeleted ==
  ASSUME SurveyInv, (\E q \in QuestionIds : DeleteSurveyQuestion(q)) \/ (\E r \in ResponseIds : DeleteSurveyResponse(r))
  PROVE  SurveyInv'
  <1>1. UNCHANGED <<contacts, campaignTables, surveys, survey_campaigns>>
    BY DEF DeleteSurveyQuestion, DeleteSurveyResponse
  <1>2. ContactsTypeOK' /\ CampaignInv' /\ UNCHANGED <<contacts, campaigns>>
    BY <1>1, CampaignsStay DEF SurveyInv
  <1>3. PICK R, Q : survey_questions' = Without(survey_questions, Q) /\ DropResponses(R, Q)
    <2>1. ASSUME NEW q \in QuestionIds, DeleteSurveyQuestion(q)
          PROVE  survey_questions' = Without(survey_questions, {q}) /\ DropResponses({}, {q})
      BY <2>1 DEF DeleteSurveyQuestion
    <2>2. ASSUME NEW r \in ResponseIds, DeleteSurveyResponse(r)
          PROVE  survey_questions' = Without(survey_questions, {}) /\ DropResponses({r}, {})
      BY <2>2, NoSurveyRowDropped DEF DeleteSurveyResponse
    <2> QED BY <2>1, <2>2
  <1> QED BY <1>1, <1>2, <1>3, SurveyRowsFit, ResponsesDropped

LEMMA AnswerOrLinkDeleted ==
  ASSUME SurveyInv,
         \/ \E a \in AnswerIds : DeleteSurveyResponseAnswer(a)
         \/ \E r \in ResponseIds : DeleteSurveyResponseAnswersByResponse(r)
         \/ \E l \in SurveyCampaignIds : DeleteSurveyCampaign(l)
  PROVE  SurveyInv'
  <1>1. UNCHANGED <<contacts, campaignTables, surveys, survey_questions, survey_responses>>
    BY DEF DeleteSurveyResponseAnswer, DeleteSurveyResponseAnswersByResponse, DeleteSurveyCampaign
  <1>2. ContactsTypeOK' /\ CampaignInv' /\ UNCHANGED <<contacts, campaigns>>
    BY <1>1, CampaignsStay DEF SurveyInv
  <1>3. PICK N, L : /\ survey_response_answers' = Without(survey_response_answers, N)
                    /\ survey_campaigns' = Without(survey_campaigns, L)
    <2>1. CASE \E a \in AnswerIds : DeleteSurveyResponseAnswer(a)
      BY <2>1, NoSurveyRowDropped DEF DeleteSurveyResponseAnswer
    <2>2. CASE \E r \in ResponseIds : DeleteSurveyResponseAnswersByResponse(r)
      BY <2>2, NoSurveyRowDropped DEF DeleteSurveyResponseAnswersByResponse
    <2>3. CASE \E l \in SurveyCampaignIds : DeleteSurveyCampaign(l)
      BY <2>3, NoSurveyRowDropped DEF DeleteSurveyCampaign
    <2> QED BY <2>1, <2>2, <2>3
  <1>4. /\ surveys' = Without(surveys, {}) /\ survey_questions' = Without(survey_questions, {})
        /\ survey_responses' = Without(survey_responses, {})
    BY <1>1, NoSurveyRowDropped
  <1> QED BY <1>2, <1>3, <1>4, SurveyRowsFit, SurveyRowsLeft

LEMMA RespondentKeeps == ASSUME SurveyInv, NEW c \in ContactIds, CreateRespondent(c) \/ DeleteRespondent(c) PROVE SurveyInv'
  <1>1. CASE CreateRespondent(c)
    <2>1. /\ ContactsTypeOK' /\ DOMAIN contacts \subseteq DOMAIN contacts' /\ UNCHANGED <<campaignTables, surveyTables>>
      BY <1>1, ActorCreated DEF CreateRespondent, SurveyInv
    <2>2. UNCHANGED <<campaigns, campaignKinds, campaign_contacts>>
      BY <2>1 DEF campaignTables
    <2>3. CampaignInv'
      BY <1>1, <2>2, SupporterKeeps DEF CreateRespondent, CreateSupporter, SurveyInv
    <2>4. SurveyRefs' /\ SurveysTypeOK'
      BY <2>1, <2>2 DEF SurveyInv, SurveyRefs, SurveysTypeOK, surveyTables
    <2> QED BY <2>1, <2>3, <2>4 DEF SurveyInv
  <1>2. CASE DeleteRespondent(c)
    <2>1. ContactsTypeOK' /\ DOMAIN contacts' = DOMAIN contacts \ {c}
      BY <1>2, ContactDeleted DEF DeleteRespondent, DeleteSupporter, SurveyInv
    <2>2. CampaignInv' /\ UNCHANGED <<campaigns, surveys, survey_campaigns>>
      BY <1>2, SupporterKeeps DEF DeleteRespondent, DeleteSupporter, SurveyInv
    <2>3. PICK R : R = ResponsesOf({}, {c})
      OBVIOUS
    <2>4. \A r \in DOMAIN survey_responses \ R : survey_responses[r].contact_id # c
      BY <2>3 DEF ResponsesOf
    <2>5. survey_questions' = Without(survey_questions, {}) /\ DropResponses(R, {})
      BY <1>2, <2>3, NoSurveyRowDropped DEF DeleteRespondent
    <2> QED BY <2>1, <2>2, <2>4, <2>5, SurveyRowsFit, ResponsesDropped
  <1> QED BY <1>1, <1>2

LEMMA SurveyedCampaignKeeps ==
  ASSUME SurveyInv, NEW c \in CampaignIds, CreateSurveyedCampaign(c, SomeCampaign) \/ DeleteSurveyedCampaign(c)
  PROVE  SurveyInv'
  <1>1. CASE CreateSurveyedCampaign(c, SomeCampaign)
    <2>1. CampaignInv' /\ DOMAIN campaigns \subseteq DOMAIN campaigns' /\ UNCHANGED <<contacts, surveyTables>>
      BY <1>1, SomeCampaignWritten DEF CreateSurveyedCampaign, CreateCampaign, SurveyInv
    <2>2. ContactsTypeOK' /\ SurveyRefs' /\ SurveysTypeOK'
      BY <2>1 DEF SurveyInv, SurveyRefs, SurveysTypeOK, surveyTables, ContactsTypeOK
    <2> QED BY <2>1, <2>2 DEF SurveyInv
  <1>2. CASE DeleteSurveyedCampaign(c)
    <2>1. CampaignInv' /\ DOMAIN campaigns' = DOMAIN campaigns \ {c} /\ UNCHANGED contacts
      BY <1>2, CampaignDeleted DEF DeleteSurveyedCampaign, DeleteCampaign, SurveyInv, Without
    <2>2. ContactsTypeOK'
      BY <2>1 DEF SurveyInv, ContactsTypeOK
    <2>3. PICK L : L = LinksOf({}, {c})
      OBVIOUS
    <2>4. /\ surveys' = Without(surveys, {}) /\ survey_questions' = Without(survey_questions, {})
          /\ survey_responses' = Without(survey_responses, {})
          /\ survey_response_answers' = Without(survey_response_answers, {})
          /\ survey_campaigns' = Without(survey_campaigns, L)
      BY <1>2, <2>3, NoSurveyRowDropped DEF DeleteSurveyedCampaign
    <2>5. \A l \in DOMAIN survey_campaigns \ L : survey_campaigns[l].campaign_id # c
      BY <2>3 DEF LinksOf
    <2> QED BY <2>1, <2>2, <2>4, <2>5, SurveyRowsFit, SurveyRowsLeft
  <1> QED BY <1>1, <1>2

LEMMA SomeSurveyFits == SomeSurvey \in Survey
  BY FlagsAreFlags DEF SomeSurvey, Survey

LEMMA AskedKeeps ==
  ASSUME SurveyInv, NEW q \in QuestionIds, NEW s \in SurveyIds, NEW ty \in QuestionTypes, NEW req \in Flag, NEW act \in Flag, NEW row,
         row = [survey_id |-> s, question_type |-> ty, is_required |-> req, is_active |-> act],
         CreateSurveyQuestion(q, row) \/ UpdateSurveyQuestion(q, row)
  PROVE  SurveyInv'
  <1>1. row \in SurveyQuestion
    BY FlagsAreFlags DEF SurveyQuestion
  <1> QED BY <1>1, QuestionWritten

LEMMA QuestionnaireNextKeeps == ASSUME SurveyInv, QuestionnaireNext PROVE SurveyInv'
  <1>1. ASSUME NEW s \in SurveyIds, NEW act \in Flag, NEW def \in Flag, NEW row,
               row = [is_active |-> act, is_default |-> def], CreateSurvey(s, row) \/ UpdateSurvey(s, row)
        PROVE  SurveyInv'
    <2>1. row \in Survey
      BY <1>1 DEF Survey
    <2> QED BY <1>1, <2>1, SurveyKeeps
  <1> QED
    BY <1>1, FlagsAreFlags, DefaultSurveyKeeps, SurveyKeeps, SurveyDropped, QuestionSwitched, QuestionOrResponseDeleted,
       AskedKeeps DEF QuestionnaireNext

LEMMA CampaignedNextKeeps == ASSUME SurveyInv, CampaignedNext PROVE SurveyInv'
  <1>1. ASSUME NEW l \in SurveyCampaignIds, NEW s \in SurveyIds, NEW c \in CampaignIds, NEW act \in Flags, NEW row,
               row = [survey_id |-> s, campaign_id |-> c, is_active |-> act],
               CreateSurveyCampaign(l, row) \/ UpdateSurveyCampaign(l, row)
        PROVE  SurveyInv'
    <2>1. row \in SurveyCampaign
      BY <1>1, FlagsAreFlags DEF SurveyCampaign
    <2> QED BY <1>1, <2>1, LinkWritten
  <1> QED
    BY <1>1, SomeSurveyFits, SurveyKeeps, SurveyDropped, SurveyedCampaignKeeps, LinkSwitched, AnswerOrLinkDeleted
       DEF CampaignedNext

LEMMA ResponsesNextKeeps == ASSUME SurveyInv, ResponsesNext PROVE SurveyInv'
  <1>1. ASSUME NEW r \in ResponseIds, NEW s \in SurveyIds, NEW c \in ContactIds, NEW d \in ResponseDays \cup {NULL}, NEW row,
               row = [survey_id |-> s, contact_id |-> c, status |-> "Partial", response_date |-> d, is_test |-> NULL],
               CreateSurveyResponse(r, row) \/ UpdateSurveyResponse(r, row)
        PROVE  SurveyInv'
    <2>1. row \in SurveyResponse
      BY <1>1, FlagsAreFlags, SurveyAssumption DEF SurveyResponse
    <2> QED BY <1>1, <2>1, ResponseWritten
  <1> QED
    BY <1>1, RespondentKeeps, SomeSurveyFits, SurveyKeeps, SurveyDropped, ResponseMarked, ResponseStatusWritten,
       QuestionOrResponseDeleted DEF ResponsesNext

LEMMA AnswersNextKeeps == ASSUME SurveyInv, AnswersNext PROVE SurveyInv'
  <1>1. ASSUME NEW r \in ResponseIds, NEW s \in SurveyIds, NEW c \in ContactIds,
               CreateSurveyResponse(r, [survey_id |-> s, contact_id |-> c, status |-> NULL, response_date |-> NULL, is_test |-> TRUE])
        PROVE  SurveyInv'
    <2>1. PICK row : row = [survey_id |-> s, contact_id |-> c, status |-> NULL, response_date |-> NULL, is_test |-> TRUE]
      OBVIOUS
    <2>2. row \in SurveyResponse
      BY <2>1, FlagsAreFlags DEF SurveyResponse
    <2> QED BY <1>1, <2>1, <2>2, ResponseWritten
  <1> QED
    BY <1>1, FlagsAreFlags, RespondentKeeps, SomeSurveyFits, SurveyKeeps, SurveyDropped, QuestionSwitched,
       QuestionOrResponseDeleted, AskedKeeps, ResponseMarked, AnswerOrLinkDeleted, AnswerWritten DEF AnswersNext

LEMMA SurveysNextKeeps == SurveyInv /\ [SurveysNext]_surveyVars => SurveyInv'
  <1>1. ASSUME SurveyInv, UNCHANGED surveyVars PROVE SurveyInv'
    <2>1. ContactsTypeOK' /\ CampaignInv' /\ UNCHANGED campaigns
      BY <1>1, CampaignsStay DEF SurveyInv, surveyVars
    <2> QED BY <1>1, <2>1 DEF surveyVars, surveyTables, SurveyInv, SurveysTypeOK, SurveyRefs
  <1> QED BY <1>1, QuestionnaireNextKeeps, CampaignedNextKeeps, ResponsesNextKeeps, AnswersNextKeeps DEF SurveysNext

(* Surveys, questions, responses, answers and the surveys of campaigns *)
(* keep rows of their types (023_survey_system.sql).                   *)
THEOREM SurveyTypeCorrect == SurveysSpec => []SurveysTypeOK
  <1>1. SurveyInv => SurveysTypeOK
    BY DEF SurveyInv
  <1> QED BY <1>1, SurveyInitInv, SurveysNextKeeps, PTL DEF SurveysSpec

(* Whichever of survey, question, response, contact and campaign is      *)
(* deleted first, no answer, response or link refers to one that is gone *)
(* (surveys.sql.go, survey_response_answers.sql.go).                     *)
THEOREM SurveyReferences == SurveysSpec => []SurveyRefs
  <1>1. SurveyInv => SurveyRefs
    BY DEF SurveyInv
  <1> QED BY <1>1, SurveyInitInv, SurveysNextKeeps, PTL DEF SurveysSpec

(* What the queries of surveys answer follows from the references. *)
LEMMA Rounding ==
  ASSUME NEW n \in Nat, NEW m \in Nat, m > 0, n <= m
  PROVE  /\ Percentage(n, m) \in 0..Whole
         /\ n = m => Percentage(n, m) = Whole
         /\ n = 0 => Percentage(n, m) = 0
  <1> DEFINE d == 2 * m
             q == (2 * Whole * n + m) \div d
  <1>1. d \in Nat /\ d > 0 /\ d = 2 * m
    OBVIOUS
  <1>2. Percentage(n, m) = q
    BY DEF Percentage
  <1> USE DEF Whole
  <1> HIDE DEF d
  <1>3. q \in Int /\ d * q <= 2 * Whole * n + m /\ 2 * Whole * n + m < d * q + d
    BY <1>1
  <1> HIDE DEF q
  <1>4. 0 < d * (q + 1) /\ d * q < d * 10001
    BY <1>1, <1>3
  <1>5. q + 1 > 0 /\ q < 10001
    BY <1>1, <1>3, <1>4
  <1>6. n = m => d * (Whole - 1) < d * q
    BY <1>1, <1>3
  <1>7. n = m => Whole - 1 < q
    BY <1>1, <1>3, <1>6
  <1>8. n = 0 => d * q < d * 1
    BY <1>1, <1>3
  <1>9. n = 0 => q < 1
    BY <1>1, <1>3, <1>8
  <1> QED BY <1>2, <1>3, <1>5, <1>7, <1>9

(* Among finitely many elements with natural numbers, one has the greatest. *)
LEMMA GreatestOf ==
  ASSUME NEW S, IsFiniteSet(S), S # {}, NEW f \in [S -> Nat]
  PROVE  \E x \in S : \A y \in S : f[y] <= f[x]
  <1> DEFINE Below(x) == {y \in S : f[y] <= f[x]}
             Rest(x) == Cardinality(S) - Cardinality(Below(x))
             N == {Rest(x) : x \in S}
  <1>1. \A x : IsFiniteSet(Below(x)) /\ Cardinality(Below(x)) \in Nat /\ Cardinality(Below(x)) <= Cardinality(S)
    <2>1. \A x : Below(x) \in SUBSET S
      OBVIOUS
    <2> HIDE DEF Below
    <2>2. \A x : IsFiniteSet(Below(x)) /\ Cardinality(Below(x)) <= Cardinality(S)
      BY <2>1, FS_Subset
    <2> QED BY <2>2, FS_CardinalityType
  <1>2. Cardinality(S) \in Nat
    BY FS_CardinalityType
  <1>3. \A x : Rest(x) \in Nat
    <2> HIDE DEF Below
    <2> QED BY <1>1, <1>2
  <1>4. N \in SUBSET Nat /\ N # {}
    <2> HIDE DEF Rest
    <2> QED BY <1>3
  <1>5. PICK x \in S : \A y \in S : Rest(x) <= Rest(y)
    <2> HIDE DEF Rest
    <2>1. \E n \in N : \A m \in N : n <= m
      BY <1>4, LeastNatural
    <2> QED BY <2>1
  <1>6. ASSUME NEW y \in S, ~ (f[y] <= f[x]) PROVE FALSE
    <2>1. f[x] \in Nat /\ f[y] \in Nat /\ \A z \in S : f[z] \in Nat
      OBVIOUS
    <2>2. Below(x) \in SUBSET Below(y) /\ y \in Below(y) /\ y \notin Below(x)
      BY <1>6, <2>1
    <2>3. Cardinality(Below(x)) <= Cardinality(Below(y)) /\ Cardinality(Below(x)) # Cardinality(Below(y))
      <3> HIDE DEF Below
      <3> QED BY <2>2, <1>1, FS_Subset
    <2> HIDE DEF Below
    <2> QED BY <2>3, <1>1, <1>2, <1>5
  <1> QED BY <1>6

LEMMA SurveyedFinite ==
  ASSUME SurveysTypeOK
  PROVE  /\ IsFiniteSet(DOMAIN survey_questions) /\ IsFiniteSet(DOMAIN survey_responses)
         /\ IsFiniteSet(DOMAIN survey_response_answers) /\ IsFiniteSet(DOMAIN survey_campaigns)
  BY SurveyAssumption, FS_Subset DEF SurveysTypeOK, IsTable

(* The statistics of a survey, by status and in all. *)
LEMMA StatusesAgree ==
  ASSUME SurveysTypeOK, NEW s \in ListActiveSurveys
  PROVE  LET n == GetSurveyStats(TRUE)[s]
             Others == {r \in GetSurveyResponsesBySurvey(s) : survey_responses[r].status \notin SummedStatuses}
         IN  n.by_status["Completed"] + n.by_status["Partial"] + n.by_status["Abandoned"] + Cardinality(Others) = n.responses
  <1> DEFINE All == GetSurveyResponsesBySurvey(s)
             In(st) == GetSurveyResponsesByStatus(s, st)
             Others == {r \in All : survey_responses[r].status \notin SummedStatuses}
  <1>1. s \in DOMAIN surveys /\ Eq(surveys[s].is_active, TRUE)
    BY RelationalAssumption DEF ListActiveSurveys, Eq
  <1>2. /\ GetSurveyStats(TRUE)[s].responses = Cardinality(All)
        /\ GetSurveyStats(TRUE)[s].by_status["Completed"] = Cardinality(In("Completed"))
        /\ GetSurveyStats(TRUE)[s].by_status["Partial"] = Cardinality(In("Partial"))
        /\ GetSurveyStats(TRUE)[s].by_status["Abandoned"] = Cardinality(In("Abandoned"))
    BY <1>1 DEF GetSurveyStats, SummedStatuses
  <1>3. "Completed" # NULL /\ "Partial" # NULL /\ "Abandoned" # NULL
    BY SurveyAssumption
  <1>4. /\ In("Completed") \cap In("Partial") = {} /\ In("Completed") \cap In("Abandoned") = {}
        /\ In("Partial") \cap In("Abandoned") = {}
    BY DEF GetSurveyResponsesByStatus, Eq
  <1>5. \A st \in SummedStatuses : In(st) \cap Others = {}
    BY DEF GetSurveyResponsesByStatus, Eq
  <1>6. All = In("Completed") \cup In("Partial") \cup In("Abandoned") \cup Others
    BY <1>3 DEF GetSurveyResponsesByStatus, Eq, SummedStatuses
  <1>7. Others \in SUBSET DOMAIN survey_responses /\ \A st : In(st) \in SUBSET DOMAIN survey_responses
    BY DEF GetSurveyResponsesByStatus, GetSurveyResponsesBySurvey
  <1> HIDE DEF All, In, Others
  <1>8. IsFiniteSet(Others) /\ \A st : IsFiniteSet(In(st))
    BY <1>7, SurveyedFinite, FS_Subset
  <1>9. /\ In("Completed") \cap Others = {} /\ In("Partial") \cap Others = {} /\ In("Abandoned") \cap Others = {}
    BY <1>5 DEF SummedStatuses
  <1>10. Cardinality(All) = Cardinality(In("Completed")) + Cardinality(In("Partial")) + Cardinality(In("Abandoned"))
                              + Cardinality(Others)
    BY <1>4, <1>6, <1>8, <1>9, FourCount
  <1> QED BY <1>2, <1>10 DEF Others, All

(* The share of completed responses. *)
LEMMA RatesAgree ==
  ASSUME SurveysTypeOK, NEW s \in ListActiveSurveys, ~Unrated(TRUE)
  PROVE  /\ GetSurveyResponseRate(TRUE)[s] \in 0..Whole
         /\ GetCompletedSurveyResponses(s) = GetSurveyResponsesBySurvey(s) => GetSurveyResponseRate(TRUE)[s] = Whole
         /\ GetCompletedSurveyResponses(s) = {} => GetSurveyResponseRate(TRUE)[s] = 0
  <1> DEFINE All == GetSurveyResponsesBySurvey(s)
             Done == GetCompletedSurveyResponses(s)
             rate == GetSurveyResponseRate(TRUE)[s]
  <1>1. s \in DOMAIN surveys /\ Eq(surveys[s].is_active, TRUE)
    BY RelationalAssumption DEF ListActiveSurveys, Eq
  <1>2. rate = Percentage(Cardinality(Done), Cardinality(All))
    BY <1>1 DEF GetSurveyResponseRate, Rated
  <1>3. All # {}
    BY <1>1 DEF Unrated, Rated
  <1>4. All \in SUBSET DOMAIN survey_responses /\ Done \in SUBSET All
    BY DEF GetSurveyResponsesBySurvey, GetCompletedSurveyResponses
  <1> HIDE DEF All, Done, rate
  <1>5. IsFiniteSet(All) /\ IsFiniteSet(Done)
    BY <1>4, SurveyedFinite, FS_Subset
  <1>6. Cardinality(Done) <= Cardinality(All)
    BY <1>4, <1>5, FS_Subset
  <1>7. Cardinality(Done) \in Nat /\ Cardinality(All) \in Nat /\ Cardinality(All) > 0
    BY <1>3, <1>5, FS_CardinalityType, FS_EmptySet
  <1>8. Done = {} => Cardinality(Done) = 0
    BY FS_EmptySet
  <1>9. PICK n, m : n = Cardinality(Done) /\ m = Cardinality(All)
    OBVIOUS
  <1>10. n \in Nat /\ m \in Nat /\ m > 0 /\ n <= m
    BY <1>6, <1>7, <1>9
  <1>11. rate \in 0..Whole /\ (n = m => rate = Whole) /\ (n = 0 => rate = 0)
    BY <1>2, <1>9, <1>10, Rounding
  <1>12. /\ rate \in 0..Whole
         /\ Done = All => rate = Whole
         /\ Done = {} => rate = 0
    BY <1>8, <1>9, <1>11
  <1> QED BY <1>12 DEF All, Done, rate

(* The pairs the summary of responses joins are all answers with all active *)
(* questions, whichever question an answer is to.                           *)
LEMMA JoinedCounts ==
  ASSUME SurveysTypeOK, NEW s, NEW r \in GetSurveyResponsesBySurvey(s), ~Unsummed(s)
  PROVE  /\ GetSurveyResponseSummary(s)[r].percentage = IF GetSurveyResponseAnswerCount(r) = 0 THEN 0 ELSE Whole
         /\ GetSurveyResponseSummary(s)[r].answered =
              GetSurveyResponseAnswerCount(r) * Cardinality(GetActiveSurveyQuestionsBySurvey(s))
  <1> DEFINE Replies == GetSurveyResponseAnswersByResponse(r)
             Q == GetActiveSurveyQuestionsBySurvey(s)
  <1>1. survey_responses[r].survey_id = s
    BY DEF GetSurveyResponsesBySurvey
  <1>2. Replies \in SUBSET DOMAIN survey_response_answers /\ Q \in SUBSET DOMAIN survey_questions
    BY DEF GetSurveyResponseAnswersByResponse, GetActiveSurveyQuestionsBySurvey, QuestionsOf
  <1>3. NULL \notin Replies /\ NULL \notin Q
    BY <1>2, SurveyAssumption DEF SurveysTypeOK, IsTable
  <1>4. /\ GetSurveyResponseSummary(s)[r].answered = AnsweredQuestions(r)
        /\ GetSurveyResponseSummary(s)[r].percentage = Percentage(AnsweredQuestions(r), TotalQuestions(r))
        /\ TotalQuestions(r) # 0
    BY DEF GetSurveyResponseSummary, Unsummed
  <1>5. JoinedRows(r) = OrNull(Replies) \X OrNull(Q)
    BY <1>1 DEF JoinedRows
  <1> HIDE DEF Replies, Q
  <1>6. IsFiniteSet(Replies) /\ IsFiniteSet(Q) /\ Cardinality(Replies) \in Nat /\ Cardinality(Q) \in Nat
    BY <1>2, SurveyedFinite, FS_Subset, FS_CardinalityType
  <1>7. Q # {}
    <2> SUFFICES ASSUME Q = {} PROVE FALSE
      OBVIOUS
    <2>1. {p \in JoinedRows(r) : p[2] # NULL} = {}
      BY <1>5 DEF OrNull
    <2> QED BY <1>4, <2>1, FS_EmptySet DEF TotalQuestions
  <1>8. {p \in JoinedRows(r) : p[1] # NULL} = Replies \X Q
    BY <1>3, <1>5, <1>7 DEF OrNull
  <1>9. AnsweredQuestions(r) = Cardinality(Replies) * Cardinality(Q)
    BY <1>6, <1>8, FS_Product DEF AnsweredQuestions
  <1>10. {p \in JoinedRows(r) : p[2] # NULL} = OrNull(Replies) \X Q
    BY <1>3, <1>5, <1>7 DEF OrNull
  <1>11. CASE Replies = {}
    <2>1. Cardinality(Replies) = 0
      BY <1>11, FS_EmptySet
    <2>2. AnsweredQuestions(r) = 0
      BY <1>6, <1>9, <2>1
    <2>3. IsFiniteSet({NULL}) /\ OrNull(Replies) = {NULL}
      BY <1>11, FS_Singleton DEF OrNull
    <2>4. TotalQuestions(r) \in Nat
      BY <1>6, <1>10, <2>3, FS_Product, FS_CardinalityType DEF TotalQuestions
    <2>5. Percentage(0, TotalQuestions(r)) = 0
      BY <1>4, <2>4, Rounding
    <2> QED BY <1>4, <1>9, <2>1, <2>2, <2>5 DEF GetSurveyResponseAnswerCount, Replies, Q
  <1>12. CASE Replies # {}
    <2>1. TotalQuestions(r) = Cardinality(Replies) * Cardinality(Q)
      BY <1>6, <1>10, <1>12, FS_Product DEF OrNull, TotalQuestions
    <2>2. Cardinality(Replies) # 0
      BY <1>6, <1>12, FS_EmptySet
    <2>3. Cardinality(Replies) * Cardinality(Q) \in Nat
      BY <1>6
    <2>4. Percentage(AnsweredQuestions(r), TotalQuestions(r)) = Whole
      BY <1>4, <1>9, <2>1, <2>3, Rounding
    <2> QED BY <1>4, <1>9, <2>2, <2>4 DEF GetSurveyResponseAnswerCount, Replies, Q
  <1> QED BY <1>11, <1>12

(* A contact with a response to a survey has a latest one, and no other of the *)
(* contact's has a later date.                                                 *)
LEMMA LatestResponse ==
  ASSUME SurveysTypeOK, NEW s, NEW c
  PROVE  LET Own == GetSurveyResponsesBySurvey(s) \cap GetSurveyResponsesByContact(c) IN
           /\ (Own = {}) = (GetSurveyResponseBySurveyAndContact(s, c) = {})
           /\ \A r \in GetSurveyResponseBySurveyAndContact(s, c), d \in ResponseDays :
                survey_responses[r].response_date = d => Own \subseteq ListSurveyResponsesByDateRange(0, d)
  <1> DEFINE Own == GetSurveyResponsesBySurvey(s) \cap GetSurveyResponsesByContact(c)
             Date(r) == survey_responses[r].response_date
             Last == GetSurveyResponseBySurveyAndContact(s, c)
  <1>1. Own \in SUBSET DOMAIN survey_responses
    BY DEF GetSurveyResponsesBySurvey
  <1>2. \A r \in Own : Date(r) \in ResponseDays \cup {NULL}
    BY <1>1 DEF SurveysTypeOK, IsTable, SurveyResponse
  <1>3. ResponseDays \subseteq Nat /\ NULL \notin ResponseDays
    BY SurveyAssumption
  <1>4. \A r : r \in Last <=> /\ r \in Own
                              /\ \/ Date(r) = NULL
                                 \/ \A o \in Own : Date(o) # NULL /\ Date(o) <= Date(r)
    BY DEF GetSurveyResponseBySurveyAndContact
  <1>5. IsFiniteSet(Own)
    BY <1>1, SurveyedFinite, FS_Subset
  <1>6. \A r : r \in ListSurveyResponsesByDateRange(0, Date(r)) <=> r \in DOMAIN survey_responses /\ Date(r) \in 0..Date(r)
    BY DEF ListSurveyResponsesByDateRange
  <1>7. \A d \in ResponseDays : \A o \in DOMAIN survey_responses : Date(o) \in 0..d => o \in ListSurveyResponsesByDateRange(0, d)
    BY DEF ListSurveyResponsesByDateRange
  <1> HIDE DEF Own, Date, Last
  <1>8. ASSUME NEW r \in Last, NEW d \in ResponseDays, Date(r) = d PROVE Own \subseteq ListSurveyResponsesByDateRange(0, d)
    <2>1. \A o \in Own : Date(o) # NULL /\ Date(o) <= d
      BY <1>3, <1>4, <1>8
    <2>2. \A o \in Own : Date(o) \in Nat
      BY <1>2, <1>3, <2>1
    <2>3. \A o \in Own : Date(o) \in 0..d
      BY <1>3, <2>1, <2>2
    <2> QED BY <1>1, <1>7, <2>3
  <1>9. ASSUME Own # {} PROVE Last # {}
    <2>1. CASE \E r \in Own : Date(r) = NULL
      BY <1>4, <2>1
    <2>2. CASE \A r \in Own : Date(r) # NULL
      <3> DEFINE f == [r \in Own |-> Date(r)]
      <3>1. f \in [Own -> Nat]
        BY <1>2, <1>3, <2>2
      <3>2. \A r \in Own : f[r] = Date(r)
        OBVIOUS
      <3> HIDE DEF f
      <3>3. \E r \in Own : \A o \in Own : f[o] <= f[r]
        BY <1>5, <1>9, <3>1, GreatestOf
      <3> QED BY <1>4, <2>2, <3>2, <3>3
    <2> QED BY <2>1, <2>2
  <1>10. Own = {} => Last = {}
    BY <1>4
  <1>11. \A r \in Last, d \in ResponseDays : Date(r) = d => Own \subseteq ListSurveyResponsesByDateRange(0, d)
    BY <1>8
  <1>12. (Own = {}) = (Last = {})
    BY <1>9, <1>10
  <1> QED BY <1>11, <1>12 DEF Own, Last, Date

LEMMA ResponsesAnswered ==
  ASSUME SurveysTypeOK, SurveyRefs, NEW r \in ListSurveyResponses
  PROVE  /\ GetSurveyResponseTrends(survey_responses[r].survey_id, 0) = {} => survey_responses[r].response_date = NULL
         /\ GetSurveyResponseAnswersWithDetails(r) = GetSurveyResponseAnswersByResponse(r)
  <1>1. r \in DOMAIN survey_responses
    BY DEF ListSurveyResponses
  <1>2. survey_responses[r].response_date \in ResponseDays \cup {NULL} /\ ResponseDays \subseteq Nat
    BY <1>1, SurveyAssumption DEF SurveysTypeOK, IsTable, SurveyResponse
  <1>3. GetSurveyResponseTrends(survey_responses[r].survey_id, 0) = {} => survey_responses[r].response_date = NULL
    <2> SUFFICES ASSUME survey_responses[r].response_date \in ResponseDays
                 PROVE  GetSurveyResponseTrends(survey_responses[r].survey_id, 0) = Refused
      BY <1>2 DEF Refused
    <2>1. r \in GetSurveyResponsesBySurvey(survey_responses[r].survey_id)
      BY <1>1 DEF GetSurveyResponsesBySurvey
    <2>2. \A e \in ResponseDays : e >= 0
      BY <1>2
    <2> QED BY <2>1, <2>2, Zenon DEF GetSurveyResponseTrends
  <1>4. GetSurveyResponseAnswersWithDetails(r) = GetSurveyResponseAnswersByResponse(r)
    BY DEF GetSurveyResponseAnswersWithDetails, GetSurveyResponseAnswersByResponse, SurveyRefs
  <1> QED BY <1>3, <1>4

(* What refers to a row is found from the row. *)
LEMMA SurveyRowsFound ==
  ASSUME SurveyRefs
  PROVE  /\ ListSurveyResponseAnswers = UNION {GetSurveyResponseAnswersByResponse(r) : r \in ListSurveyResponses}
         /\ ListSurveyResponseAnswers = UNION {GetSurveyResponseAnswersByQuestion(q) : q \in ListSurveyQuestions}
         /\ ListSurveyCampaigns = UNION {GetSurveyCampaignsBySurvey(s) : s \in ListSurveys}
  <1> DEFINE To(r) == GetSurveyResponseAnswersByResponse(r)
             On(q) == GetSurveyResponseAnswersByQuestion(q)
             In(s) == GetSurveyCampaignsBySurvey(s)
  <1>1. \A a : a \in ListSurveyResponseAnswers <=> \E r \in ListSurveyResponses : a \in To(r)
    BY DEF SurveyRefs, ListSurveyResponseAnswers, ListSurveyResponses, GetSurveyResponseAnswersByResponse
  <1>2. \A a : a \in ListSurveyResponseAnswers <=> \E q \in ListSurveyQuestions : a \in On(q)
    BY DEF SurveyRefs, ListSurveyResponseAnswers, ListSurveyQuestions, GetSurveyResponseAnswersByQuestion
  <1>3. \A l : l \in ListSurveyCampaigns <=> \E s \in ListSurveys : l \in In(s)
    BY DEF SurveyRefs, ListSurveyCampaigns, ListSurveys, GetSurveyCampaignsBySurvey
  <1> HIDE DEF To, On, In
  <1>4. ListSurveyResponseAnswers = UNION {To(r) : r \in ListSurveyResponses}
    BY <1>1
  <1>5. ListSurveyResponseAnswers = UNION {On(q) : q \in ListSurveyQuestions}
    BY <1>2
  <1>6. ListSurveyCampaigns = UNION {In(s) : s \in ListSurveys}
    BY <1>3
  <1> QED BY <1>4, <1>5, <1>6 DEF To, On, In

LEMMA SurveyAnswers == ASSUME SurveysTypeOK, SurveyRefs PROVE SurveyAnswersAgree
  <1>1. \A q \in ListSurveyQuestions : GetSurvey(survey_questions[q].survey_id) # {}
    BY DEF ListSurveyQuestions, GetSurvey, SurveyRefs
  <1>2. \A s \in ListActiveSurveys :
          LET n == GetSurveyStats(TRUE)[s]
              Others == {r \in GetSurveyResponsesBySurvey(s) : survey_responses[r].status \notin SummedStatuses}
          IN  n.by_status["Completed"] + n.by_status["Partial"] + n.by_status["Abandoned"] + Cardinality(Others) = n.responses
    BY StatusesAgree
  <1>3. \A s \in ListActiveSurveys : ~Unrated(TRUE) =>
          LET rate == GetSurveyResponseRate(TRUE)[s] IN
            /\ rate \in 0..Whole
            /\ GetCompletedSurveyResponses(s) = GetSurveyResponsesBySurvey(s) => rate = Whole
            /\ GetCompletedSurveyResponses(s) = {} => rate = 0
    BY RatesAgree
  <1>4. \A s \in ListSurveys : ~Unsummed(s) =>
          \A r \in GetSurveyResponsesBySurvey(s) :
            /\ GetSurveyResponseSummary(s)[r].percentage = IF GetSurveyResponseAnswerCount(r) = 0 THEN 0 ELSE Whole
            /\ GetSurveyResponseSummary(s)[r].answered =
                 GetSurveyResponseAnswerCount(r) * Cardinality(GetActiveSurveyQuestionsBySurvey(s))
    BY JoinedCounts
  <1>5. \A s \in ListSurveys, c \in ContactIds :
          LET Own == GetSurveyResponsesBySurvey(s) \cap GetSurveyResponsesByContact(c) IN
            /\ (Own = {}) = (GetSurveyResponseBySurveyAndContact(s, c) = {})
            /\ \A r \in GetSurveyResponseBySurveyAndContact(s, c), d \in ResponseDays :
                 survey_responses[r].response_date = d => Own \subseteq ListSurveyResponsesByDateRange(0, d)
    BY LatestResponse
  <1>6. \A r \in ListSurveyResponses :
          /\ GetSurveyResponseTrends(survey_responses[r].survey_id, 0) = {} => survey_responses[r].response_date = NULL
          /\ GetSurveyResponseAnswersWithDetails(r) = GetSurveyResponseAnswersByResponse(r)
    BY ResponsesAnswered
  <1> QED BY <1>1, <1>2, <1>3, <1>4, <1>5, <1>6, SurveyRowsFound DEF SurveyAnswersAgree

-----------------------------------------------------------------------------
(* The domains side by side.  In the areas of a module its inductive           *)
(* invariant holds; in all others its tables are as empty as they began.       *)

PledgeAreas == {"schedule", "pledged", "groups"}
JobAreas == {"jobs", "queues"}
SiteAreas == {"settings", "navigation"} \cup JobAreas
AccessAreas == {"access", "users", "cache"}
MemberAreas == {"members", "contributions"}
CaseAreas == {"status", "parties", "filing"}
CampaignAreas == {"hierarchy", "kinds", "participants"}
MailingAreas == {"lists", "tracking", "preferences"}
EventAreas == {"calendar", "attendance", "fees", "promotions"}
SurveyAreas == {"questionnaires", "campaigned", "responses", "answers"}
TagAreas == {"tag sets", "tagging"}

PledgesHold == IF area \in PledgeAreas THEN PledgesInv ELSE PledgesInit
SiteHolds == IF area \in SiteAreas THEN SiteInv ELSE SiteInit
JobsHold == IF area \in JobAreas THEN JobInv ELSE JobsInit
AccessHolds == IF area \in AccessAreas THEN AccessInv ELSE AccessInit
MembershipsHold == IF area \in MemberAreas THEN MembershipInv ELSE MembershipsInit
ActivitiesHold == IF area \in CaseAreas \cup {"activities"} THEN ActivityInv ELSE ActivitiesInit
CasesHold == IF area \in CaseAreas THEN CaseInv ELSE CasesInit
CampaignsHold == IF area \in PledgeAreas \cup CampaignAreas \cup EventAreas \cup SurveyAreas THEN CampaignInv ELSE CampaignsInit
MailingsHold == IF area \in MailingAreas THEN MailingInv ELSE MailingsInit
CustomHolds == IF area = "custom" THEN CustomInv ELSE CustomDataInit
DashboardsHold == IF area = "dashboards" THEN DashboardInv ELSE DashboardsInit
EventsHold == IF area \in EventAreas THEN EventInv ELSE EventsInit
SurveysHold == IF area \in SurveyAreas THEN SurveyInv ELSE SurveysInit
TagsHold == IF area \in TagAreas THEN TagInv ELSE TagsInit

RecordsInv ==
  /\ area \in Areas /\ ContactsTypeOK
  /\ PledgesHold /\ SiteHolds /\ JobsHold /\ AccessHolds /\ MembershipsHold /\ ActivitiesHold /\ CasesHold /\ CampaignsHold
  /\ MailingsHold /\ CustomHolds /\ DashboardsHold /\ EventsHold /\ SurveysHold /\ TagsHold

LEMMA RecordsInitInv == Init => RecordsInv
  <1> SUFFICES ASSUME Init PROVE RecordsInv
    OBVIOUS
  <1>1. /\ area \in Areas /\ ContactsInit
        /\ PledgesInit /\ SiteInit /\ JobsInit /\ AccessInit /\ MembershipsInit /\ ActivitiesInit /\ CasesInit
        /\ CampaignsInit /\ MailingsInit /\ CustomDataInit /\ DashboardsInit /\ EventsInit /\ SurveysInit /\ TagsInit
    BY DEF Init
  <1>2. ContactsTypeOK
    BY <1>1 DEF ContactsInit, ContactsTypeOK, IsTable, NoRows
  <1>3. PledgesHold /\ SiteHolds /\ JobsHold /\ AccessHolds /\ MembershipsHold
    BY <1>1, PledgesInitInv, SiteInitInv, JobInitInv, AccessInitInv, MembershipInitInv DEF PledgesHold, SiteHolds, JobsHold, AccessHolds, MembershipsHold
  <1>4. ActivitiesHold /\ CasesHold /\ CampaignsHold /\ MailingsHold
    BY <1>1, ActivityInitInv, CaseInitInv, CampaignInitInv, MailingInitInv DEF ActivitiesHold, CasesHold, CampaignsHold, MailingsHold
  <1>5. CustomHolds /\ DashboardsHold /\ EventsHold /\ SurveysHold /\ TagsHold
    BY <1>1, CustomInitInv, DashboardInitInv, EventInitInv, SurveyInitInv, TagInitInv
       DEF CustomHolds, DashboardsHold, EventsHold, SurveysHold, TagsHold
  <1> QED BY <1>1, <1>2, <1>3, <1>4, <1>5 DEF RecordsInv

(* What no statement touches stays empty. *)
LEMMA PledgesKept == ASSUME PledgesHold, area \notin PledgeAreas, UNCHANGED <<area, pledging>> PROVE PledgesHold'
  BY DEF PledgesHold, PledgesInit, pledging, pledgeTables, groupTables, editing

LEMMA SiteKept == ASSUME SiteHolds, area \notin SiteAreas, UNCHANGED <<area, site>> PROVE SiteHolds'
  BY DEF SiteHolds, SiteInit, site, siteVars

LEMMA JobsKept == ASSUME JobsHold, area \notin JobAreas, UNCHANGED <<area, labour>> PROVE JobsHold'
  BY DEF JobsHold, JobsInit, labour, working

LEMMA AccessKept == ASSUME AccessHolds, area \notin AccessAreas, UNCHANGED <<area, access>> PROVE AccessHolds'
  BY DEF AccessHolds, AccessInit, access, roleTables, cacheTables

LEMMA MembershipsKept == ASSUME MembershipsHold, area \notin MemberAreas, UNCHANGED <<area, members>> PROVE MembershipsHold'
  BY DEF MembershipsHold, MembershipsInit, members, memberTables

LEMMA ActivitiesKept ==
  ASSUME ActivitiesHold, area \notin CaseAreas \cup {"activities"}, UNCHANGED <<area, activity>>
  PROVE  ActivitiesHold'
  BY DEF ActivitiesHold, ActivitiesInit, activity, activityTables

LEMMA CasesKept == ASSUME CasesHold, area \notin CaseAreas, UNCHANGED <<area, casework>> PROVE CasesHold'
  BY DEF CasesHold, CasesInit, casework, caseTables

LEMMA CampaignsKept ==
  ASSUME CampaignsHold, area \notin PledgeAreas \cup CampaignAreas \cup EventAreas \cup SurveyAreas, UNCHANGED <<area, campaignTables>>
  PROVE  CampaignsHold'
  BY DEF CampaignsHold, CampaignsInit, campaignTables, campaignKinds

LEMMA MailingsKept == ASSUME MailingsHold, area \notin MailingAreas, UNCHANGED <<area, mailing>> PROVE MailingsHold'
  BY DEF MailingsHold, MailingsInit, mailing, listTables, tracking, messaging

LEMMA CustomKept == ASSUME CustomHolds, area # "custom", UNCHANGED <<area, custom>> PROVE CustomHolds'
  BY DEF CustomHolds, CustomDataInit, custom, customVars

LEMMA DashboardsKept == ASSUME DashboardsHold, area # "dashboards", UNCHANGED <<area, boards>> PROVE DashboardsHold'
  BY DEF DashboardsHold, DashboardsInit, boards

LEMMA EventsKept == ASSUME EventsHold, area \notin EventAreas, UNCHANGED <<area, eventTables>> PROVE EventsHold'
  BY DEF EventsHold, EventsInit, eventTables, pricing

LEMMA SurveysKept == ASSUME SurveysHold, area \notin SurveyAreas, UNCHANGED <<area, surveyTables>> PROVE SurveysHold'
  BY DEF SurveysHold, SurveysInit, surveyTables

LEMMA TagsKept == ASSUME TagsHold, area \notin TagAreas, UNCHANGED <<area, tagVars>> PROVE TagsHold'
  BY DEF TagsHold, TagsInit, tagVars

(* The contacts are those of an area's actors, or are not written at all. *)
ActorStep == UNCHANGED contacts \/ \E c \in ContactIds : CreateContact(c, SomeContact) \/ DeleteContact(c)

LEMMA ActorStepKeeps == ContactsTypeOK /\ ActorStep => ContactsTypeOK'
  BY ActorCreated, ContactDeleted DEF ActorStep, ContactsTypeOK

(* A statement on pledges writes a contact, a campaign, or neither. *)
LEMMA PledgesWriters ==
  PledgesNext => \/ \E c \in ContactIds : CreatePledgingContact(c) \/ DeletePledgingContact(c)
                 \/ \E k \in CampaignIds : CreatePledgedCampaign(k) \/ DeletePledgedCampaign(k)
                 \/ UNCHANGED <<contacts, campaignTables>>
  <1>1. \A p, st, row : DeletePledge(p) \/ UpdatePledge(p, st) \/ UpdatePledgeStatus(p, st) \/ CreatePledge(p, row)
                        => UNCHANGED <<contacts, campaignTables>>
    BY DEF DeletePledge, UpdatePledge, UpdatePledgeStatus, CreatePledge
  <1>2. \A b, row : DeletePledgeBlock(b) \/ CreatePledgeBlock(b, row) \/ UpdatePledgeBlock(b, row)
                    => UNCHANGED <<contacts, campaignTables>>
    BY DEF DeletePledgeBlock, CreatePledgeBlock, UpdatePledgeBlock
  <1>3. \A i, d, st, row : \/ UpdatePledgePayment(i, d, st) \/ UpdatePledgePaymentStatus(i, d, st)
                           \/ DeletePledgePayment(i) \/ CreatePledgePayment(i, row)
                           => UNCHANGED <<contacts, campaignTables>>
    BY DEF UpdatePledgePayment, UpdatePledgePaymentStatus, DeletePledgePayment, CreatePledgePayment
  <1>4. \A r, p, i, d, st : DeletePledgeReminder(r) \/ UpdateReminderStatus(r, st) \/ CreatePledgeReminder(r, p, i, d)
                            => UNCHANGED <<contacts, campaignTables>>
    BY DEF DeletePledgeReminder, UpdateReminderStatus, CreatePledgeReminder
  <1>5. \A g, e, c, act : \/ CreatePledgeGroup(g, act) \/ DeletePledgeGroup(g) \/ GetPledgeGroup(e, g)
                          \/ UpdatePledgeGroupAmount(e, g) \/ UpdatePledgeGroup(e, g, act)
                          \/ UpdatePledgeGroupMember(g, c, act)
                          => UNCHANGED <<contacts, campaignTables>>
    BY DEF CreatePledgeGroup, DeletePledgeGroup, GetPledgeGroup, UpdatePledgeGroupAmount, UpdatePledgeGroup,
           UpdatePledgeGroupMember, WriteGroup
  <1>6. \A m, g, c, p : DeletePledgeGroupMember(m) \/ CreatePledgeGroupMember(m, g, c, p) => UNCHANGED <<contacts, campaignTables>>
    BY DEF DeletePledgeGroupMember, CreatePledgeGroupMember
  <1>7. CASE ScheduleNext
    BY <1>1, <1>2, <1>3, <1>4, <1>7 DEF ScheduleNext
  <1>8. CASE PledgedNext
    BY <1>1, <1>2, <1>8 DEF PledgedNext
  <1>9. CASE PledgeGroupNext
    BY <1>1, <1>5, <1>6, <1>9 DEF PledgeGroupNext
  <1> QED BY <1>7, <1>8, <1>9 DEF PledgesNext

(* Pledges, events and surveys write contacts and campaigns, and no types or statuses of campaigns. *)
LEMMA PledgesActors == PledgesNext => ActorStep /\ UNCHANGED campaignKinds
  <1>1. \A c : CreatePledgingContact(c) \/ DeletePledgingContact(c)
               => (CreateContact(c, SomeContact) \/ DeleteContact(c)) /\ UNCHANGED campaignKinds
    BY DEF CreatePledgingContact, DeletePledgingContact, DeleteSupporter, campaignTables
  <1>2. \A k : CreatePledgedCampaign(k) \/ DeletePledgedCampaign(k) => UNCHANGED <<contacts, campaignKinds>>
    BY DEF CreatePledgedCampaign, DeletePledgedCampaign, CreateCampaign, DeleteCampaign
  <1>3. UNCHANGED campaignTables => UNCHANGED campaignKinds
    BY DEF campaignTables
  <1>4. ASSUME NEW c \in ContactIds, CreatePledgingContact(c) \/ DeletePledgingContact(c)
        PROVE  ActorStep /\ UNCHANGED campaignKinds
    BY <1>1, <1>4 DEF ActorStep
  <1>5. ASSUME UNCHANGED contacts PROVE ActorStep
    BY <1>5 DEF ActorStep
  <1>6. ASSUME NEW k \in CampaignIds, CreatePledgedCampaign(k) \/ DeletePledgedCampaign(k)
        PROVE  ActorStep /\ UNCHANGED campaignKinds
    BY <1>2, <1>5, <1>6
  <1>7. CASE UNCHANGED <<contacts, campaignTables>>
    BY <1>3, <1>5, <1>7
  <1> QED BY <1>4, <1>6, <1>7, PledgesWriters

LEMMA PledgesKeepCampaigns == ASSUME CampaignInv, ContactsTypeOK, PledgesNext PROVE CampaignInv'
  <1>1. ASSUME NEW c \in ContactIds, CreatePledgingContact(c) PROVE CampaignInv'
    <2>1. CreateSupporter(c)
      BY <1>1 DEF CreatePledgingContact, CreateSupporter, campaignTables
    <2> QED BY <2>1, SupporterKeeps
  <1>2. ASSUME NEW c \in ContactIds, DeletePledgingContact(c) PROVE CampaignInv'
    BY <1>2, SupporterKeeps DEF DeletePledgingContact
  <1>3. ASSUME NEW k \in CampaignIds, CreatePledgedCampaign(k) PROVE CampaignInv'
    BY <1>3, SomeCampaignWritten DEF CreatePledgedCampaign
  <1>4. ASSUME NEW k \in CampaignIds, DeletePledgedCampaign(k) PROVE CampaignInv'
    BY <1>4, CampaignDeleted DEF DeletePledgedCampaign
  <1>5. CASE UNCHANGED <<contacts, campaignTables>>
    BY <1>5, CampaignsStay
  <1> QED BY <1>1, <1>2, <1>3, <1>4, <1>5, PledgesWriters

LEMMA MembershipsActors == MembershipsNext => ActorStep
  <1>1. MembersNext => ActorStep
    <2>1. \A c : CreateMember(c) \/ DeleteMember(c) => CreateContact(c, SomeContact) \/ DeleteContact(c)
      BY DEF CreateMember, DeleteMember
    <2>2. \A t, row : \/ ActivateMembershipType(t) \/ DeactivateMembershipType(t) \/ DeleteMembershipType(t)
                      \/ CreateMembershipType(t, row) \/ UpdateMembershipType(t, row)
                      => UNCHANGED contacts
      BY DEF ActivateMembershipType, DeactivateMembershipType, SetTypeActive, DeleteMembershipType, CreateMembershipType,
             UpdateMembershipType
    <2>3. \A s, row : \/ ActivateMembershipStatus(s) \/ DeactivateMembershipStatus(s) \/ DeleteMembershipStatus(s)
                      \/ CreateMembershipStatus(s, row) \/ UpdateMembershipStatus(s, row)
                      => UNCHANGED contacts
      BY DEF ActivateMembershipStatus, DeactivateMembershipStatus, SetStatusActive, DeleteMembershipStatus,
             CreateMembershipStatus, UpdateMembershipStatus
    <2>4. \A m, s, d, row : \/ DeleteMembership(m) \/ UpdateMembershipStatusById(m, s) \/ ExtendMembership(m, d)
                            \/ CreateMembership(m, row) \/ UpdateMembership(m, row)
                            => UNCHANGED contacts
      BY DEF DeleteMembership, UpdateMembershipStatusById, ExtendMembership, CreateMembership, UpdateMembership
    <2>5. \A l, row : DeleteMembershipLog(l) \/ CreateMembershipLog(l, row) \/ UpdateMembershipLog(l, row) => UNCHANGED contacts
      BY DEF DeleteMembershipLog, CreateMembershipLog, UpdateMembershipLog
    <2> QED BY <2>1, <2>2, <2>3, <2>4, <2>5 DEF MembersNext, ActorStep
  <1>2. ContributionsNext => ActorStep
    <2>1. \A c : CreateMember(c) \/ DeleteMember(c) => CreateContact(c, SomeContact) \/ DeleteContact(c)
      BY DEF CreateMember, DeleteMember
    <2>2. \A t, s, row : CreateMembershipType(t, row) \/ CreateMembershipStatus(s, row) => UNCHANGED contacts
      BY DEF CreateMembershipType, CreateMembershipStatus
    <2>3. \A m, row : DeleteMembership(m) \/ CreateMembership(m, row) => UNCHANGED contacts
      BY DEF DeleteMembership, CreateMembership
    <2>4. \A k, st, row : DeleteContribution(k) \/ UpdateContribution(k, st) \/ CreateContribution(k, row) => UNCHANGED contacts
      BY DEF DeleteContribution, UpdateContribution, CreateContribution
    <2>5. \A p, st, row : \/ DeleteMembershipPayment(p) \/ UpdatePaymentStatus(p, st)
                         \/ CreateMembershipPayment(p, row) \/ UpdateMembershipPayment(p, row)
                         => UNCHANGED contacts
      BY DEF DeleteMembershipPayment, UpdatePaymentStatus, CreateMembershipPayment, UpdateMembershipPayment
    <2> QED BY <2>1, <2>2, <2>3, <2>4, <2>5 DEF ContributionsNext, ActorStep
  <1> QED BY <1>1, <1>2 DEF MembershipsNext

LEMMA CampaignsActors == CampaignsNext => ActorStep
  <1>1. HierarchyNext => ActorStep
    BY DEF HierarchyNext, ActorStep, ActivateCampaign, DeactivateCampaign, DeleteCampaign, CreateCampaign, UpdateCampaign
  <1>2. CampaignKindsNext => ActorStep
    BY DEF CampaignKindsNext, ActorStep, CreateCampaign, UpdateCampaignStatusById, ActivateCampaignType, DeactivateCampaignType,
           DeleteCampaignType, CreateCampaignType, UpdateCampaignType, ActivateCampaignStatus, DeactivateCampaignStatus,
           DeleteCampaignStatus, CreateCampaignStatus, UpdateCampaignStatus
  <1>3. ParticipantsNext => ActorStep
    <2>1. \A k : CreateSupporter(k) \/ DeleteSupporter(k) => CreateContact(k, SomeContact) \/ DeleteContact(k)
      BY DEF CreateSupporter, DeleteSupporter
    <2>2. \A c, row : DeactivateCampaign(c) \/ DeleteCampaign(c) \/ CreateCampaign(c, row) => UNCHANGED contacts
      BY DEF DeactivateCampaign, DeleteCampaign, CreateCampaign
    <2>3. \A p, r, row : \/ ActivateCampaignContact(p) \/ DeactivateCampaignContact(p) \/ DeleteCampaignContact(p)
                         \/ UpdateCampaignContactRole(p, r) \/ CreateCampaignContact(p, row) \/ UpdateCampaignContact(p, row)
                         => UNCHANGED contacts
      BY DEF ActivateCampaignContact, DeactivateCampaignContact, DeleteCampaignContact, UpdateCampaignContactRole,
             CreateCampaignContact, UpdateCampaignContact
    <2> QED BY <2>1, <2>2, <2>3 DEF ParticipantsNext, ActorStep
  <1> QED BY <1>1, <1>2, <1>3 DEF CampaignsNext

LEMMA MailingsActors == MailingsNext => ActorStep
  <1>1. ListsNext => ActorStep
    <2>1. \A c : CreateAddressee(c) \/ DeleteAddressee(c) => CreateContact(c, SomeContact) \/ DeleteContact(c)
      BY DEF CreateAddressee, DeleteAddressee
    <2>2. \A t, row, act : DeleteMessageTemplate(t) \/ CreateMessageTemplate(t, row) \/ UpdateMessageTemplate(t, act)
                           => UNCHANGED contacts
      BY DEF DeleteMessageTemplate, CreateMessageTemplate, UpdateMessageTemplate
    <2>3. \A l, row, act, hid : DeleteMailingList(l) \/ CreateMailingList(l, row) \/ UpdateMailingList(l, act, hid)
                                => UNCHANGED contacts
      BY DEF DeleteMailingList, CreateMailingList, UpdateMailingList
    <2>4. \A l, c, s, st, row : \/ UpdateSubscriptionStatus(l, c, st) \/ CreateMailingListSubscription(s, row)
                                \/ DeleteMailingListSubscription(s)
                                => UNCHANGED contacts
      BY DEF UpdateSubscriptionStatus, CreateMailingListSubscription, DeleteMailingListSubscription
    <2>5. \A m, row : DeleteMailing(m) \/ CreateMailing(m, row) => UNCHANGED contacts
      BY DEF DeleteMailing, CreateMailing
    <2> QED BY <2>1, <2>2, <2>3, <2>4, <2>5 DEF ListsNext, ActorStep
  <1>2. TrackingNext => ActorStep
    BY DEF TrackingNext, ActorStep, CreateAddressee, DeleteAddressee, CreateMailing, UpdateMailingStatus, DeleteMailing,
           CreateTrackableUrl, CreateMailingRecipient, UpdateRecipientStatus, DeleteMailingRecipient, CreateUrlClick, CreateMailingOpen
  <1>3. PreferencesNext => ActorStep
    BY DEF PreferencesNext, ActorStep, CreateAddressee, DeleteAddressee, DeleteCommunicationPreferences, CreateSmsMessage,
           UpdateCommunicationPreferences, CreateCommunicationPreferences, UpdateSmsStatus, DeleteSmsMessage
  <1> QED BY <1>1, <1>2, <1>3 DEF MailingsNext
LEMMA AccessActors == AccessNext \/ UsersNext \/ AclCacheNext => ActorStep
  <1>1. AccessNext => ActorStep
    <2>1. \A r, n, act : UpdateACLRole(r, act) \/ CreateACLRole(r, n, act) \/ DeleteACLRole(r) => UNCHANGED contacts
      BY DEF UpdateACLRole, CreateACLRole, DeleteACLRole
    <2>2. \A a, row : CreateACL(a, row) \/ UpdateACL(a, row) \/ DeleteACL(a) => UNCHANGED contacts
      BY DEF CreateACL, UpdateACL, DeleteACL
    <2>3. \A g, r, u, act : CreateACLEntityRole(g, r, u, act) \/ UpdateACLEntityRole(g, act) \/ DeleteACLEntityRole(g)
                            => UNCHANGED contacts
      BY DEF CreateACLEntityRole, UpdateACLEntityRole, DeleteACLEntityRole
    <2>4. \A g, n, u : AssignUserToRole(g, n, u) \/ RemoveUserFromRole(n, u) => UNCHANGED contacts
      BY <2>3 DEF AssignUserToRole, RemoveUserFromRole
    <2>5. \A u, row : CreateUser(u, row) \/ DeleteUser(u) => UNCHANGED contacts
      BY DEF CreateUser, DeleteUser
    <2> QED BY <2>1, <2>2, <2>3, <2>4, <2>5 DEF AccessNext, ActorStep
  <1>2. UsersNext => ActorStep
    BY DEF UsersNext, ActorStep, CreateMatchedContact, DeleteMatchedContact, CreateUser, UpdateUser, DeleteUser, CreateUFMatch,
           UpdateUFMatch, DeleteUFMatch
  <1>3. AclCacheNext => ActorStep
    BY DEF AclCacheNext, ActorStep, CreateMatchedContact, DeleteMatchedContact, DeleteACLCache, CreateACL, CreateACLCache,
           CreateACLContactCache, DeleteACLContactCache, DeleteACLContactCacheByContact
  <1> QED BY <1>1, <1>2, <1>3

LEMMA ActivitiesActors == ActivitiesNext => ActorStep
  <1>1. \A c : CreateActor(c) \/ DeleteActor(c) => CreateContact(c, SomeContact) \/ DeleteContact(c)
    BY DEF CreateActor, DeleteActor
  <1>2. \A t, row : DeleteActivityType(t) \/ CreateActivityType(t, row) \/ UpdateActivityType(t, row) => UNCHANGED contacts
    BY DEF DeleteActivityType, CreateActivityType, UpdateActivityType
  <1>3. \A a, row : DeleteActivity(a) \/ HardDeleteActivity(a) \/ CreateActivity(a, row) \/ UpdateActivity(a, row)
                    => UNCHANGED contacts
    BY DEF DeleteActivity, HardDeleteActivity, CreateActivity, UpdateActivity
  <1>4. \A i, row : \/ DeleteActivityContact(i) \/ HardDeleteActivityContact(i)
                    \/ CreateActivityContact(i, row) \/ UpdateActivityContact(i, row)
                    => UNCHANGED contacts
    BY DEF DeleteActivityContact, HardDeleteActivityContact, CreateActivityContact, UpdateActivityContact
  <1> QED BY <1>1, <1>2, <1>3, <1>4 DEF ActivitiesNext, ActorStep

LEMMA CasesActors == CaseStatusNext \/ PartiesNext \/ FilingNext => ActorStep
  <1>1. \A t, n, act : \/ CreateCaseType(t, n, act) \/ UpdateCaseType(t, n, act) \/ ActivateCaseType(t) \/ DeactivateCaseType(t)
                       \/ DeleteCaseType(t)
                       => UNCHANGED contacts
    BY DEF CreateCaseType, UpdateCaseType, ActivateCaseType, DeactivateCaseType, DeleteCaseType, activityVars
  <1>2. \A s, row : \/ CreateCaseStatus(s, row) \/ UpdateCaseStatus(s, row) \/ ActivateCaseStatus(s) \/ DeactivateCaseStatus(s)
                    \/ DeleteCaseStatus(s)
                    => UNCHANGED contacts
    BY DEF CreateCaseStatus, UpdateCaseStatus, ActivateCaseStatus, DeactivateCaseStatus, DeleteCaseStatus, activityVars
  <1>3. \A c, s, row : \/ CreateCase(c, row) \/ UpdateCase(c, row) \/ UpdateCaseStatusById(c, s) \/ DeleteCase(c) \/ HardDeleteCase(c)
                       => UNCHANGED contacts
    BY DEF CreateCase, UpdateCase, UpdateCaseStatusById, DeleteCase, HardDeleteCase, activityVars
  <1>4. \A c : CloseCase(c) \/ OpenCase(c) => UNCHANGED contacts
    BY <1>3 DEF CloseCase, OpenCase
  <1>5. \A p, r, row : \/ CreateCaseContact(p, row) \/ UpdateCaseContact(p, row) \/ UpdateCaseContactRole(p, r)
                       \/ ActivateCaseContact(p) \/ DeactivateCaseContact(p) \/ DeleteCaseContact(p)
                       => UNCHANGED contacts
    BY DEF CreateCaseContact, UpdateCaseContact, UpdateCaseContactRole, ActivateCaseContact, DeactivateCaseContact,
           DeleteCaseContact, activityVars
  <1>6. \A f, row : \/ CreateCaseActivity(f, row) \/ UpdateCaseActivity(f, row) \/ DeleteCaseActivity(f) \/ HardDeleteCaseActivity(f)
                    => UNCHANGED contacts
    BY DEF CreateCaseActivity, UpdateCaseActivity, DeleteCaseActivity, HardDeleteCaseActivity, activityVars
  <1>7. \A t, row : CreateActivityType(t, row) \/ DeleteActivityType(t) => UNCHANGED contacts
    BY DEF CreateActivityType, DeleteActivityType
  <1>8. \A a, row : CreateActivity(a, row) \/ DeleteActivity(a) \/ HardDeleteFiledActivity(a) => UNCHANGED contacts
    BY DEF CreateActivity, DeleteActivity, UpdateActivity, HardDeleteFiledActivity, HardDeleteActivity
  <1>9. \A k : CreateActor(k) \/ DeleteParty(k) => CreateContact(k, SomeContact) \/ DeleteContact(k)
    BY DEF CreateActor, DeleteParty, DeleteActor
  <1>10. CaseSetUp => UNCHANGED contacts
    BY <1>1, <1>2 DEF CaseSetUp
  <1>11. CaseStatusNext => ActorStep
    BY <1>1, <1>2, <1>3, <1>4 DEF CaseStatusNext, ActorStep
  <1>12. PartiesNext => ActorStep
    BY <1>3, <1>4, <1>5, <1>9, <1>10 DEF PartiesNext, ActorStep
  <1>13. FilingNext => ActorStep
    BY <1>3, <1>4, <1>6, <1>7, <1>8, <1>10 DEF FilingNext, ActorStep
  <1> QED BY <1>11, <1>12, <1>13

LEMMA DashboardsActors == DashboardsNext => ActorStep
  BY DEF DashboardsNext, ActorStep, CreateDesigner, DeleteDesigner, ActivateDashboard, DeactivateDashboard, SetDefaultDashboard,
         DeleteDashboard, UpdateDashboard, CreateDashboard, ActivateDashboardWidget, DeactivateDashboardWidget,
         DeleteDashboardWidget, CreateDashboardWidget, UpdateDashboardWidget

LEMMA EventsActors == CalendarNext \/ AttendanceNext \/ FeesNext \/ PromotionsNext => ActorStep /\ UNCHANGED campaignKinds
  <1>1. \A c : CreateAttendee(c) \/ DeleteAttendee(c)
               => (CreateContact(c, SomeContact) \/ DeleteContact(c)) /\ UNCHANGED campaignKinds
    BY DEF CreateAttendee, DeleteAttendee, DeleteSupporter, campaignTables
  <1>2. \A c, row : CreatePromoter(c, row) \/ DeletePromoter(c) => UNCHANGED <<contacts, campaignKinds>>
    BY DEF CreatePromoter, DeletePromoter, CreateCampaign, DeleteCampaign
  <1>3. \A e, row : CreateEvent(e, row) \/ UpdateEvent(e, row) \/ DeleteEvent(e) => UNCHANGED <<contacts, campaignKinds>>
    BY DEF CreateEvent, UpdateEvent, DeleteEvent, campaignTables
  <1>4. \A r, st, row : CreateEventRegistration(r, row) \/ UpdateEventRegistration(r, st) \/ DeleteEventRegistration(r)
                        => UNCHANGED <<contacts, campaignKinds>>
    BY DEF CreateEventRegistration, UpdateEventRegistration, DeleteEventRegistration, campaignTables
  <1>5. \A p, row : CreateParticipant(p, row) \/ UpdateParticipant(p, row) \/ DeleteParticipant(p) => UNCHANGED <<contacts, campaignKinds>>
    BY DEF CreateParticipant, UpdateParticipant, DeleteParticipant, campaignTables
  <1>6. \A f, row : CreateEventFee(f, row) \/ UpdateEventFee(f, row) \/ DeleteEventFee(f) => UNCHANGED <<contacts, campaignKinds>>
    BY DEF CreateEventFee, UpdateEventFee, DeleteEventFee, campaignTables
  <1>7. \A d, row : CreateDiscount(d, row) \/ UpdateDiscount(d, row) \/ DeleteDiscount(d) => UNCHANGED <<contacts, campaignKinds>>
    BY DEF CreateDiscount, UpdateDiscount, DeleteDiscount, campaignTables
  <1>8. \A l, row : \/ CreateCampaignEvent(l, row) \/ UpdateCampaignEvent(l, row) \/ DeleteCampaignEvent(l)
                    \/ HardDeleteCampaignEvent(l)
                    => UNCHANGED <<contacts, campaignKinds>>
    BY DEF CreateCampaignEvent, UpdateCampaignEvent, DeleteCampaignEvent, HardDeleteCampaignEvent, campaignTables
  <1>9. NextDate => UNCHANGED <<contacts, campaignKinds>>
    BY DEF NextDate, campaignTables
  <1>10. CalendarNext => ActorStep /\ UNCHANGED campaignKinds
    BY <1>1, <1>3, <1>4, <1>9 DEF CalendarNext, ActorStep
  <1>11. AttendanceNext => ActorStep /\ UNCHANGED campaignKinds
    BY <1>1, <1>2, <1>3, <1>5 DEF AttendanceNext, ActorStep
  <1>12. FeesNext \/ PromotionsNext => ActorStep /\ UNCHANGED campaignKinds
    BY <1>2, <1>3, <1>6, <1>7, <1>8 DEF FeesNext, PromotionsNext, ActorStep
  <1> QED BY <1>10, <1>11, <1>12

LEMMA SurveysActors == QuestionnaireNext \/ CampaignedNext \/ ResponsesNext \/ AnswersNext => ActorStep /\ UNCHANGED campaignKinds
  <1>1. \A c : CreateRespondent(c) \/ DeleteRespondent(c)
               => (CreateContact(c, SomeContact) \/ DeleteContact(c)) /\ UNCHANGED campaignKinds
    BY DEF CreateRespondent, DeleteRespondent, DeleteSupporter, campaignTables
  <1>2. \A c, row : CreateSurveyedCampaign(c, row) \/ DeleteSurveyedCampaign(c) => UNCHANGED <<contacts, campaignKinds>>
    BY DEF CreateSurveyedCampaign, DeleteSurveyedCampaign, CreateCampaign, DeleteCampaign
  <1>3. \A s, row : \/ CreateSurvey(s, row) \/ UpdateSurvey(s, row) \/ DeleteSurvey(s) \/ ActivateSurvey(s) \/ DeactivateSurvey(s)
                    \/ SetDefaultSurvey
                    => UNCHANGED <<contacts, campaignKinds>>
    BY DEF CreateSurvey, UpdateSurvey, DeleteSurvey, ActivateSurvey, DeactivateSurvey, SetDefaultSurvey, campaignTables
  <1>4. \A q, row : \/ CreateSurveyQuestion(q, row) \/ UpdateSurveyQuestion(q, row) \/ DeleteSurveyQuestion(q)
                    \/ ActivateSurveyQuestion(q) \/ DeactivateSurveyQuestion(q)
                    => UNCHANGED <<contacts, campaignKinds>>
    BY DEF CreateSurveyQuestion, UpdateSurveyQuestion, DeleteSurveyQuestion, ActivateSurveyQuestion, DeactivateSurveyQuestion,
           campaignTables
  <1>5. \A r, st, row : \/ CreateSurveyResponse(r, row) \/ UpdateSurveyResponse(r, row) \/ UpdateSurveyResponseStatus(r, st)
                        \/ MarkSurveyResponseCompleted(r) \/ MarkSurveyResponsePartial(r) \/ MarkSurveyResponseAbandoned(r)
                        \/ DeleteSurveyResponse(r) \/ DeleteSurveyResponseAnswersByResponse(r)
                        => UNCHANGED <<contacts, campaignKinds>>
    BY DEF CreateSurveyResponse, UpdateSurveyResponse, UpdateSurveyResponseStatus, MarkSurveyResponseCompleted,
           MarkSurveyResponsePartial, MarkSurveyResponseAbandoned, DeleteSurveyResponse, DeleteSurveyResponseAnswersByResponse,
           campaignTables
  <1>6. \A a, row : CreateSurveyResponseAnswer(a, row) \/ UpdateSurveyResponseAnswer(a, row) \/ DeleteSurveyResponseAnswer(a)
                    => UNCHANGED <<contacts, campaignKinds>>
    BY DEF CreateSurveyResponseAnswer, UpdateSurveyResponseAnswer, DeleteSurveyResponseAnswer, campaignTables
  <1>7. \A l, row : \/ CreateSurveyCampaign(l, row) \/ UpdateSurveyCampaign(l, row) \/ DeleteSurveyCampaign(l)
                    \/ ActivateSurveyCampaign(l) \/ DeactivateSurveyCampaign(l)
                    => UNCHANGED <<contacts, campaignKinds>>
    BY DEF CreateSurveyCampaign, UpdateSurveyCampaign, DeleteSurveyCampaign, ActivateSurveyCampaign, DeactivateSurveyCampaign,
           campaignTables
  <1>8. QuestionnaireNext => ActorStep /\ UNCHANGED campaignKinds
    BY <1>3, <1>4 DEF QuestionnaireNext, ActorStep
  <1>9. CampaignedNext => ActorStep /\ UNCHANGED campaignKinds
    BY <1>2, <1>3, <1>7 DEF CampaignedNext, ActorStep
  <1>10. ResponsesNext => ActorStep /\ UNCHANGED campaignKinds
    BY <1>1, <1>3, <1>5 DEF ResponsesNext, ActorStep
  <1>11. AnswersNext => ActorStep /\ UNCHANGED campaignKinds
    BY <1>1, <1>3, <1>4, <1>5, <1>6 DEF AnswersNext, ActorStep
  <1> QED BY <1>8, <1>9, <1>10, <1>11

LEMMA EmailsStayDifferent ==
  ASSUME ContactsTypeOK, EmailsDiffer, ContactsNext \/ ActorStep
  PROVE  EmailsDiffer'
  <1>1. ASSUME NEW c, NEW row, CreateContact(c, row) \/ UpdateContact(c, row) PROVE EmailsDiffer'
    <2>1. Writes(contacts, contacts', c, row)
      BY <1>1 DEF CreateContact, UpdateContact, Writes
    <2>2. DOMAIN contacts' = DOMAIN contacts \cup {c} /\ contacts'[c] = row /\ \A d \in DOMAIN contacts \ {c} : contacts'[d] = contacts[d]
      BY <2>1 DEF Writes, Insert, ContactsTypeOK, IsTable
    <2>3. \A d \in DOMAIN contacts \ {c} : ~Eq(contacts[d].email, row.email)
      BY <1>1 DEF CreateContact, UpdateContact, EmailTaken
    <2> QED BY <2>2, <2>3 DEF EmailsDiffer, Eq
  <1>2. ASSUME NEW c, DeleteContact(c) PROVE EmailsDiffer'
    BY <1>2 DEF DeleteContact, Without, EmailsDiffer
  <1>3. UNCHANGED contacts => EmailsDiffer'
    BY DEF EmailsDiffer
  <1> QED BY <1>1, <1>2, <1>3 DEF ContactsNext, ActorStep

-----------------------------------------------------------------------------
(* A statement of one area writes the tables of its module, and contacts; the  *)
(* tables of the other modules are as they were.                               *)

AllButContacts == <<area, pledging, site, labour, access, members, activity, casework, campaignTables, mailing, custom, boards, further>>

LEMMA RecordsAroundContacts ==
  ASSUME RecordsInv, area = "contacts", UNCHANGED AllButContacts, ContactsTypeOK'
  PROVE  RecordsInv'
  <1>1. /\ area \notin PledgeAreas
        /\ area \notin SiteAreas
        /\ area \notin JobAreas
        /\ area \notin AccessAreas
        /\ area \notin MemberAreas
        /\ area \notin CaseAreas \cup {"activities"}
        /\ area \notin CaseAreas
        /\ area \notin PledgeAreas \cup CampaignAreas \cup EventAreas \cup SurveyAreas
        /\ area \notin MailingAreas
        /\ area # "custom"
        /\ area # "dashboards"
        /\ area \notin EventAreas
        /\ area \notin SurveyAreas
        /\ area \notin TagAreas
    BY DEF PledgeAreas, SiteAreas, JobAreas, AccessAreas, MemberAreas, CaseAreas, CampaignAreas, MailingAreas,
            EventAreas, SurveyAreas, TagAreas
  <1>2. UNCHANGED <<area, pledging, site, labour, access, members, activity, casework, campaignTables, mailing, custom, boards, eventTables, surveyTables, tagVars>>
    BY DEF AllButContacts, further
  <1>3. PledgesHold /\ SiteHolds /\ JobsHold /\ AccessHolds /\ MembershipsHold /\ ActivitiesHold
        /\ CasesHold /\ CampaignsHold /\ MailingsHold /\ CustomHolds /\ DashboardsHold /\ EventsHold /\ SurveysHold /\ TagsHold
    BY DEF RecordsInv
  <1>4. PledgesHold' /\ SiteHolds' /\ JobsHold' /\ AccessHolds' /\ MembershipsHold' /\ ActivitiesHold' /\ CasesHold'
    BY <1>1, <1>2, <1>3, PledgesKept, SiteKept, JobsKept, AccessKept, MembershipsKept, ActivitiesKept, CasesKept
  <1>5. CampaignsHold' /\ MailingsHold' /\ CustomHolds' /\ DashboardsHold' /\ EventsHold' /\ SurveysHold' /\ TagsHold'
    BY <1>1, <1>2, <1>3, CampaignsKept, MailingsKept, CustomKept, DashboardsKept, EventsKept, SurveysKept, TagsKept
  <1>6. area' \in Areas /\ ContactsTypeOK'
    BY <1>2 DEF RecordsInv
  <1> QED BY <1>4, <1>5, <1>6 DEF RecordsInv

LEMMA RecordsAroundPledges ==
  ASSUME RecordsInv, area \in PledgeAreas, UNCHANGED NotPledges, ContactsTypeOK', CampaignInv', PledgesInv'
  PROVE  RecordsInv'
  <1>1. /\ area \notin SiteAreas
        /\ area \notin JobAreas
        /\ area \notin AccessAreas
        /\ area \notin MemberAreas
        /\ area \notin CaseAreas \cup {"activities"}
        /\ area \notin CaseAreas
        /\ area \notin MailingAreas
        /\ area # "custom"
        /\ area # "dashboards"
        /\ area \notin EventAreas
        /\ area \notin SurveyAreas
        /\ area \notin TagAreas
    BY DEF PledgeAreas, SiteAreas, JobAreas, AccessAreas, MemberAreas, CaseAreas, CampaignAreas, MailingAreas,
            EventAreas, SurveyAreas, TagAreas
  <1>2. UNCHANGED <<area, site, labour, access, members, activity, casework, mailing, custom, boards, eventTables, surveyTables, tagVars>>
    BY DEF NotPledges, further
  <1>3. SiteHolds /\ JobsHold /\ AccessHolds /\ MembershipsHold /\ ActivitiesHold /\ CasesHold
        /\ MailingsHold /\ CustomHolds /\ DashboardsHold /\ EventsHold /\ SurveysHold /\ TagsHold
    BY DEF RecordsInv
  <1>4. SiteHolds' /\ JobsHold' /\ AccessHolds' /\ MembershipsHold' /\ ActivitiesHold' /\ CasesHold'
    BY <1>1, <1>2, <1>3, SiteKept, JobsKept, AccessKept, MembershipsKept, ActivitiesKept, CasesKept
  <1>5. MailingsHold' /\ CustomHolds' /\ DashboardsHold' /\ EventsHold' /\ SurveysHold' /\ TagsHold'
    BY <1>1, <1>2, <1>3, MailingsKept, CustomKept, DashboardsKept, EventsKept, SurveysKept, TagsKept
  <1>6. area' \in Areas /\ ContactsTypeOK'
    BY <1>2 DEF RecordsInv
  <1>7. CampaignsHold' /\ PledgesHold'
    BY <1>2 DEF CampaignsHold, PledgesHold
  <1> QED BY <1>4, <1>5, <1>6, <1>7 DEF RecordsInv

LEMMA RecordsAroundSite ==
  ASSUME RecordsInv, area \in SiteAreas \ JobAreas, UNCHANGED NotSite, SiteInv'
  PROVE  RecordsInv'
  <1>1. /\ area \notin PledgeAreas
        /\ area \notin JobAreas
        /\ area \notin AccessAreas
        /\ area \notin MemberAreas
        /\ area \notin CaseAreas \cup {"activities"}
        /\ area \notin CaseAreas
        /\ area \notin PledgeAreas \cup CampaignAreas \cup EventAreas \cup SurveyAreas
        /\ area \notin MailingAreas
        /\ area # "custom"
        /\ area # "dashboards"
        /\ area \notin EventAreas
        /\ area \notin SurveyAreas
        /\ area \notin TagAreas
    BY DEF PledgeAreas, SiteAreas, JobAreas, AccessAreas, MemberAreas, CaseAreas, CampaignAreas, MailingAreas,
            EventAreas, SurveyAreas, TagAreas
  <1>2. UNCHANGED <<area, pledging, labour, access, members, activity, casework, campaignTables, mailing, custom, boards, eventTables, surveyTables, tagVars>>
    BY DEF NotSite, further
  <1>3. PledgesHold /\ JobsHold /\ AccessHolds /\ MembershipsHold /\ ActivitiesHold /\ CasesHold
        /\ CampaignsHold /\ MailingsHold /\ CustomHolds /\ DashboardsHold /\ EventsHold /\ SurveysHold /\ TagsHold
    BY DEF RecordsInv
  <1>4. PledgesHold' /\ JobsHold' /\ AccessHolds' /\ MembershipsHold' /\ ActivitiesHold' /\ CasesHold' /\ CampaignsHold'
    BY <1>1, <1>2, <1>3, PledgesKept, JobsKept, AccessKept, MembershipsKept, ActivitiesKept, CasesKept, CampaignsKept
  <1>5. MailingsHold' /\ CustomHolds' /\ DashboardsHold' /\ EventsHold' /\ SurveysHold' /\ TagsHold'
    BY <1>1, <1>2, <1>3, MailingsKept, CustomKept, DashboardsKept, EventsKept, SurveysKept, TagsKept
  <1>6. area' \in Areas /\ ContactsTypeOK'
    BY <1>2 DEF RecordsInv, ContactsTypeOK, IsTable, NotSite
  <1>7. SiteHolds'
    BY <1>2 DEF SiteHolds
  <1> QED BY <1>4, <1>5, <1>6, <1>7 DEF RecordsInv

LEMMA RecordsAroundJobs ==
  ASSUME RecordsInv, area \in JobAreas, UNCHANGED NotJobs, JobInv'
  PROVE  RecordsInv'
  <1>1. /\ area \notin PledgeAreas
        /\ area \notin AccessAreas
        /\ area \notin MemberAreas
        /\ area \notin CaseAreas \cup {"activities"}
        /\ area \notin CaseAreas
        /\ area \notin PledgeAreas \cup CampaignAreas \cup EventAreas \cup SurveyAreas
        /\ area \notin MailingAreas
        /\ area # "custom"
        /\ area # "dashboards"
        /\ area \notin EventAreas
        /\ area \notin SurveyAreas
        /\ area \notin TagAreas
    BY DEF PledgeAreas, SiteAreas, JobAreas, AccessAreas, MemberAreas, CaseAreas, CampaignAreas, MailingAreas,
            EventAreas, SurveyAreas, TagAreas
  <1>2. UNCHANGED <<area, pledging, access, members, activity, casework, campaignTables, mailing, custom, boards, eventTables, surveyTables, tagVars>>
    BY DEF NotJobs, further
  <1>3. PledgesHold /\ AccessHolds /\ MembershipsHold /\ ActivitiesHold /\ CasesHold /\ CampaignsHold
        /\ MailingsHold /\ CustomHolds /\ DashboardsHold /\ EventsHold /\ SurveysHold /\ TagsHold
    BY DEF RecordsInv
  <1>4. PledgesHold' /\ AccessHolds' /\ MembershipsHold' /\ ActivitiesHold' /\ CasesHold' /\ CampaignsHold' /\ MailingsHold'
    BY <1>1, <1>2, <1>3, PledgesKept, AccessKept, MembershipsKept, ActivitiesKept, CasesKept, CampaignsKept, MailingsKept
  <1>5. CustomHolds' /\ DashboardsHold' /\ EventsHold' /\ SurveysHold' /\ TagsHold'
    BY <1>1, <1>2, <1>3, CustomKept, DashboardsKept, EventsKept, SurveysKept, TagsKept
  <1>6. area' \in Areas /\ ContactsTypeOK'
    BY <1>2 DEF RecordsInv, ContactsTypeOK, IsTable, NotJobs
  <1>7. SiteInv' /\ JobInv'
    BY DEF JobInv
  <1>8. SiteHolds'
    BY <1>2, <1>7 DEF SiteHolds, SiteAreas
  <1>9. JobsHold'
    BY <1>2, <1>7 DEF JobsHold
  <1> QED BY <1>4, <1>5, <1>6, <1>8, <1>9 DEF RecordsInv

LEMMA RecordsAroundAccess ==
  ASSUME RecordsInv, area \in AccessAreas, UNCHANGED NotAccess, AccessInv'
  PROVE  RecordsInv'
  <1>1. /\ area \notin PledgeAreas
        /\ area \notin SiteAreas
        /\ area \notin JobAreas
        /\ area \notin MemberAreas
        /\ area \notin CaseAreas \cup {"activities"}
        /\ area \notin CaseAreas
        /\ area \notin PledgeAreas \cup CampaignAreas \cup EventAreas \cup SurveyAreas
        /\ area \notin MailingAreas
        /\ area # "custom"
        /\ area # "dashboards"
        /\ area \notin EventAreas
        /\ area \notin SurveyAreas
        /\ area \notin TagAreas
    BY DEF PledgeAreas, SiteAreas, JobAreas, AccessAreas, MemberAreas, CaseAreas, CampaignAreas, MailingAreas,
            EventAreas, SurveyAreas, TagAreas
  <1>2. UNCHANGED <<area, pledging, site, labour, members, activity, casework, campaignTables, mailing, custom, boards, eventTables, surveyTables, tagVars>>
    BY DEF NotAccess, further
  <1>3. PledgesHold /\ SiteHolds /\ JobsHold /\ MembershipsHold /\ ActivitiesHold /\ CasesHold
        /\ CampaignsHold /\ MailingsHold /\ CustomHolds /\ DashboardsHold /\ EventsHold /\ SurveysHold /\ TagsHold
    BY DEF RecordsInv
  <1>4. PledgesHold' /\ SiteHolds' /\ JobsHold' /\ MembershipsHold' /\ ActivitiesHold' /\ CasesHold' /\ CampaignsHold'
    BY <1>1, <1>2, <1>3, PledgesKept, SiteKept, JobsKept, MembershipsKept, ActivitiesKept, CasesKept, CampaignsKept
  <1>5. MailingsHold' /\ CustomHolds' /\ DashboardsHold' /\ EventsHold' /\ SurveysHold' /\ TagsHold'
    BY <1>1, <1>2, <1>3, MailingsKept, CustomKept, DashboardsKept, EventsKept, SurveysKept, TagsKept
  <1>6. area' \in Areas /\ ContactsTypeOK'
    BY <1>2 DEF RecordsInv, AccessInv
  <1>7. AccessHolds'
    BY <1>2 DEF AccessHolds
  <1> QED BY <1>4, <1>5, <1>6, <1>7 DEF RecordsInv

LEMMA RecordsAroundMemberships ==
  ASSUME RecordsInv, area \in MemberAreas, UNCHANGED NotMembers, ContactsTypeOK', MembershipInv'
  PROVE  RecordsInv'
  <1>1. /\ area \notin PledgeAreas
        /\ area \notin SiteAreas
        /\ area \notin JobAreas
        /\ area \notin AccessAreas
        /\ area \notin CaseAreas \cup {"activities"}
        /\ area \notin CaseAreas
        /\ area \notin PledgeAreas \cup CampaignAreas \cup EventAreas \cup SurveyAreas
        /\ area \notin MailingAreas
        /\ area # "custom"
        /\ area # "dashboards"
        /\ area \notin EventAreas
        /\ area \notin SurveyAreas
        /\ area \notin TagAreas
    BY DEF PledgeAreas, SiteAreas, JobAreas, AccessAreas, MemberAreas, CaseAreas, CampaignAreas, MailingAreas,
            EventAreas, SurveyAreas, TagAreas
  <1>2. UNCHANGED <<area, pledging, site, labour, access, activity, casework, campaignTables, mailing, custom, boards, eventTables, surveyTables, tagVars>>
    BY DEF NotMembers, further
  <1>3. PledgesHold /\ SiteHolds /\ JobsHold /\ AccessHolds /\ ActivitiesHold /\ CasesHold
        /\ CampaignsHold /\ MailingsHold /\ CustomHolds /\ DashboardsHold /\ EventsHold /\ SurveysHold /\ TagsHold
    BY DEF RecordsInv
  <1>4. PledgesHold' /\ SiteHolds' /\ JobsHold' /\ AccessHolds' /\ ActivitiesHold' /\ CasesHold' /\ CampaignsHold'
    BY <1>1, <1>2, <1>3, PledgesKept, SiteKept, JobsKept, AccessKept, ActivitiesKept, CasesKept, CampaignsKept
  <1>5. MailingsHold' /\ CustomHolds' /\ DashboardsHold' /\ EventsHold' /\ SurveysHold' /\ TagsHold'
    BY <1>1, <1>2, <1>3, MailingsKept, CustomKept, DashboardsKept, EventsKept, SurveysKept, TagsKept
  <1>6. area' \in Areas /\ ContactsTypeOK'
    BY <1>2 DEF RecordsInv
  <1>7. MembershipsHold'
    BY <1>2 DEF MembershipsHold
  <1> QED BY <1>4, <1>5, <1>6, <1>7 DEF RecordsInv

LEMMA RecordsAroundActivities ==
  ASSUME RecordsInv, area = "activities", UNCHANGED <<NotCases, casework>>, ActivityInv'
  PROVE  RecordsInv'
  <1>1. /\ area \notin PledgeAreas
        /\ area \notin SiteAreas
        /\ area \notin JobAreas
        /\ area \notin AccessAreas
        /\ area \notin MemberAreas
        /\ area \notin CaseAreas
        /\ area \notin PledgeAreas \cup CampaignAreas \cup EventAreas \cup SurveyAreas
        /\ area \notin MailingAreas
        /\ area # "custom"
        /\ area # "dashboards"
        /\ area \notin EventAreas
        /\ area \notin SurveyAreas
        /\ area \notin TagAreas
    BY DEF PledgeAreas, SiteAreas, JobAreas, AccessAreas, MemberAreas, CaseAreas, CampaignAreas, MailingAreas,
            EventAreas, SurveyAreas, TagAreas
  <1>2. UNCHANGED <<area, pledging, site, labour, access, members, casework, campaignTables, mailing, custom, boards, eventTables, surveyTables, tagVars>>
    BY DEF NotCases, further
  <1>3. PledgesHold /\ SiteHolds /\ JobsHold /\ AccessHolds /\ MembershipsHold /\ CasesHold
        /\ CampaignsHold /\ MailingsHold /\ CustomHolds /\ DashboardsHold /\ EventsHold /\ SurveysHold /\ TagsHold
    BY DEF RecordsInv
  <1>4. PledgesHold' /\ SiteHolds' /\ JobsHold' /\ AccessHolds' /\ MembershipsHold' /\ CasesHold' /\ CampaignsHold'
    BY <1>1, <1>2, <1>3, PledgesKept, SiteKept, JobsKept, AccessKept, MembershipsKept, CasesKept, CampaignsKept
  <1>5. MailingsHold' /\ CustomHolds' /\ DashboardsHold' /\ EventsHold' /\ SurveysHold' /\ TagsHold'
    BY <1>1, <1>2, <1>3, MailingsKept, CustomKept, DashboardsKept, EventsKept, SurveysKept, TagsKept
  <1>6. area' \in Areas /\ ContactsTypeOK'
    BY <1>2 DEF RecordsInv, ActivityInv
  <1>7. ActivitiesHold'
    BY <1>2 DEF ActivitiesHold
  <1> QED BY <1>4, <1>5, <1>6, <1>7 DEF RecordsInv

LEMMA RecordsAroundCases ==
  ASSUME RecordsInv, area \in CaseAreas, UNCHANGED NotCases, CaseInv'
  PROVE  RecordsInv'
  <1>1. /\ area \notin PledgeAreas
        /\ area \notin SiteAreas
        /\ area \notin JobAreas
        /\ area \notin AccessAreas
        /\ area \notin MemberAreas
        /\ area \notin PledgeAreas \cup CampaignAreas \cup EventAreas \cup SurveyAreas
        /\ area \notin MailingAreas
        /\ area # "custom"
        /\ area # "dashboards"
        /\ area \notin EventAreas
        /\ area \notin SurveyAreas
        /\ area \notin TagAreas
    BY DEF PledgeAreas, SiteAreas, JobAreas, AccessAreas, MemberAreas, CaseAreas, CampaignAreas, MailingAreas,
            EventAreas, SurveyAreas, TagAreas
  <1>2. UNCHANGED <<area, pledging, site, labour, access, members, campaignTables, mailing, custom, boards, eventTables, surveyTables, tagVars>>
    BY DEF NotCases, further
  <1>3. PledgesHold /\ SiteHolds /\ JobsHold /\ AccessHolds /\ MembershipsHold /\ CampaignsHold
        /\ MailingsHold /\ CustomHolds /\ DashboardsHold /\ EventsHold /\ SurveysHold /\ TagsHold
    BY DEF RecordsInv
  <1>4. PledgesHold' /\ SiteHolds' /\ JobsHold' /\ AccessHolds' /\ MembershipsHold' /\ CampaignsHold' /\ MailingsHold'
    BY <1>1, <1>2, <1>3, PledgesKept, SiteKept, JobsKept, AccessKept, MembershipsKept, CampaignsKept, MailingsKept
  <1>5. CustomHolds' /\ DashboardsHold' /\ EventsHold' /\ SurveysHold' /\ TagsHold'
    BY <1>1, <1>2, <1>3, CustomKept, DashboardsKept, EventsKept, SurveysKept, TagsKept
  <1>6. area' \in Areas /\ ContactsTypeOK'
    BY <1>2 DEF RecordsInv, CaseInv, ActivityInv
  <1>7. ActivityInv' /\ CaseInv'
    BY DEF CaseInv
  <1>8. ActivitiesHold'
    BY <1>2, <1>7 DEF ActivitiesHold
  <1>9. CasesHold'
    BY <1>2, <1>7 DEF CasesHold
  <1> QED BY <1>4, <1>5, <1>6, <1>8, <1>9 DEF RecordsInv

LEMMA RecordsAroundCampaigns ==
  ASSUME RecordsInv, area \in CampaignAreas, UNCHANGED NotCampaigns, ContactsTypeOK', CampaignInv'
  PROVE  RecordsInv'
  <1>1. /\ area \notin PledgeAreas
        /\ area \notin SiteAreas
        /\ area \notin JobAreas
        /\ area \notin AccessAreas
        /\ area \notin MemberAreas
        /\ area \notin CaseAreas \cup {"activities"}
        /\ area \notin CaseAreas
        /\ area \notin MailingAreas
        /\ area # "custom"
        /\ area # "dashboards"
        /\ area \notin EventAreas
        /\ area \notin SurveyAreas
        /\ area \notin TagAreas
    BY DEF PledgeAreas, SiteAreas, JobAreas, AccessAreas, MemberAreas, CaseAreas, CampaignAreas, MailingAreas,
            EventAreas, SurveyAreas, TagAreas
  <1>2. UNCHANGED <<area, pledging, site, labour, access, members, activity, casework, mailing, custom, boards, eventTables, surveyTables, tagVars>>
    BY DEF NotCampaigns, further
  <1>3. PledgesHold /\ SiteHolds /\ JobsHold /\ AccessHolds /\ MembershipsHold /\ ActivitiesHold
        /\ CasesHold /\ MailingsHold /\ CustomHolds /\ DashboardsHold /\ EventsHold /\ SurveysHold /\ TagsHold
    BY DEF RecordsInv
  <1>4. PledgesHold' /\ SiteHolds' /\ JobsHold' /\ AccessHolds' /\ MembershipsHold' /\ ActivitiesHold' /\ CasesHold'
    BY <1>1, <1>2, <1>3, PledgesKept, SiteKept, JobsKept, AccessKept, MembershipsKept, ActivitiesKept, CasesKept
  <1>5. MailingsHold' /\ CustomHolds' /\ DashboardsHold' /\ EventsHold' /\ SurveysHold' /\ TagsHold'
    BY <1>1, <1>2, <1>3, MailingsKept, CustomKept, DashboardsKept, EventsKept, SurveysKept, TagsKept
  <1>6. area' \in Areas /\ ContactsTypeOK'
    BY <1>2 DEF RecordsInv
  <1>7. CampaignsHold'
    BY <1>2 DEF CampaignsHold
  <1> QED BY <1>4, <1>5, <1>6, <1>7 DEF RecordsInv

LEMMA RecordsAroundMailings ==
  ASSUME RecordsInv, area \in MailingAreas, UNCHANGED NotMailings, ContactsTypeOK', MailingInv'
  PROVE  RecordsInv'
  <1>1. /\ area \notin PledgeAreas
        /\ area \notin SiteAreas
        /\ area \notin JobAreas
        /\ area \notin AccessAreas
        /\ area \notin MemberAreas
        /\ area \notin CaseAreas \cup {"activities"}
        /\ area \notin CaseAreas
        /\ area \notin PledgeAreas \cup CampaignAreas \cup EventAreas \cup SurveyAreas
        /\ area # "custom"
        /\ area # "dashboards"
        /\ area \notin EventAreas
        /\ area \notin SurveyAreas
        /\ area \notin TagAreas
    BY DEF PledgeAreas, SiteAreas, JobAreas, AccessAreas, MemberAreas, CaseAreas, CampaignAreas, MailingAreas,
            EventAreas, SurveyAreas, TagAreas
  <1>2. UNCHANGED <<area, pledging, site, labour, access, members, activity, casework, campaignTables, custom, boards, eventTables, surveyTables, tagVars>>
    BY DEF NotMailings, further
  <1>3. PledgesHold /\ SiteHolds /\ JobsHold /\ AccessHolds /\ MembershipsHold /\ ActivitiesHold
        /\ CasesHold /\ CampaignsHold /\ CustomHolds /\ DashboardsHold /\ EventsHold /\ SurveysHold /\ TagsHold
    BY DEF RecordsInv
  <1>4. PledgesHold' /\ SiteHolds' /\ JobsHold' /\ AccessHolds' /\ MembershipsHold' /\ ActivitiesHold' /\ CasesHold'
    BY <1>1, <1>2, <1>3, PledgesKept, SiteKept, JobsKept, AccessKept, MembershipsKept, ActivitiesKept, CasesKept
  <1>5. CampaignsHold' /\ CustomHolds' /\ DashboardsHold' /\ EventsHold' /\ SurveysHold' /\ TagsHold'
    BY <1>1, <1>2, <1>3, CampaignsKept, CustomKept, DashboardsKept, EventsKept, SurveysKept, TagsKept
  <1>6. area' \in Areas /\ ContactsTypeOK'
    BY <1>2 DEF RecordsInv
  <1>7. MailingsHold'
    BY <1>2 DEF MailingsHold
  <1> QED BY <1>4, <1>5, <1>6, <1>7 DEF RecordsInv

LEMMA RecordsAroundCustom ==
  ASSUME RecordsInv, area = "custom", UNCHANGED NotCustom, CustomInv'
  PROVE  RecordsInv'
  <1>1. /\ area \notin PledgeAreas
        /\ area \notin SiteAreas
        /\ area \notin JobAreas
        /\ area \notin AccessAreas
        /\ area \notin MemberAreas
        /\ area \notin CaseAreas \cup {"activities"}
        /\ area \notin CaseAreas
        /\ area \notin PledgeAreas \cup CampaignAreas \cup EventAreas \cup SurveyAreas
        /\ area \notin MailingAreas
        /\ area # "dashboards"
        /\ area \notin EventAreas
        /\ area \notin SurveyAreas
        /\ area \notin TagAreas
    BY DEF PledgeAreas, SiteAreas, JobAreas, AccessAreas, MemberAreas, CaseAreas, CampaignAreas, MailingAreas,
            EventAreas, SurveyAreas, TagAreas
  <1>2. UNCHANGED <<area, pledging, site, labour, access, members, activity, casework, campaignTables, mailing, boards, eventTables, surveyTables, tagVars>>
    BY DEF NotCustom, further
  <1>3. PledgesHold /\ SiteHolds /\ JobsHold /\ AccessHolds /\ MembershipsHold /\ ActivitiesHold
        /\ CasesHold /\ CampaignsHold /\ MailingsHold /\ DashboardsHold /\ EventsHold /\ SurveysHold /\ TagsHold
    BY DEF RecordsInv
  <1>4. PledgesHold' /\ SiteHolds' /\ JobsHold' /\ AccessHolds' /\ MembershipsHold' /\ ActivitiesHold' /\ CasesHold'
    BY <1>1, <1>2, <1>3, PledgesKept, SiteKept, JobsKept, AccessKept, MembershipsKept, ActivitiesKept, CasesKept
  <1>5. CampaignsHold' /\ MailingsHold' /\ DashboardsHold' /\ EventsHold' /\ SurveysHold' /\ TagsHold'
    BY <1>1, <1>2, <1>3, CampaignsKept, MailingsKept, DashboardsKept, EventsKept, SurveysKept, TagsKept
  <1>6. area' \in Areas /\ ContactsTypeOK'
    BY <1>2 DEF RecordsInv, ContactsTypeOK, IsTable, NotCustom
  <1>7. CustomHolds'
    BY <1>2 DEF CustomHolds
  <1> QED BY <1>4, <1>5, <1>6, <1>7 DEF RecordsInv

LEMMA RecordsAroundDashboards ==
  ASSUME RecordsInv, area = "dashboards", UNCHANGED NotDashboards, DashboardInv'
  PROVE  RecordsInv'
  <1>1. /\ area \notin PledgeAreas
        /\ area \notin SiteAreas
        /\ area \notin JobAreas
        /\ area \notin AccessAreas
        /\ area \notin MemberAreas
        /\ area \notin CaseAreas \cup {"activities"}
        /\ area \notin CaseAreas
        /\ area \notin PledgeAreas \cup CampaignAreas \cup EventAreas \cup SurveyAreas
        /\ area \notin MailingAreas
        /\ area # "custom"
        /\ area \notin EventAreas
        /\ area \notin SurveyAreas
        /\ area \notin TagAreas
    BY DEF PledgeAreas, SiteAreas, JobAreas, AccessAreas, MemberAreas, CaseAreas, CampaignAreas, MailingAreas,
            EventAreas, SurveyAreas, TagAreas
  <1>2. UNCHANGED <<area, pledging, site, labour, access, members, activity, casework, campaignTables, mailing, custom, eventTables, surveyTables, tagVars>>
    BY DEF NotDashboards, further
  <1>3. PledgesHold /\ SiteHolds /\ JobsHold /\ AccessHolds /\ MembershipsHold /\ ActivitiesHold
        /\ CasesHold /\ CampaignsHold /\ MailingsHold /\ CustomHolds /\ EventsHold /\ SurveysHold /\ TagsHold
    BY DEF RecordsInv
  <1>4. PledgesHold' /\ SiteHolds' /\ JobsHold' /\ AccessHolds' /\ MembershipsHold' /\ ActivitiesHold' /\ CasesHold'
    BY <1>1, <1>2, <1>3, PledgesKept, SiteKept, JobsKept, AccessKept, MembershipsKept, ActivitiesKept, CasesKept
  <1>5. CampaignsHold' /\ MailingsHold' /\ CustomHolds' /\ EventsHold' /\ SurveysHold' /\ TagsHold'
    BY <1>1, <1>2, <1>3, CampaignsKept, MailingsKept, CustomKept, EventsKept, SurveysKept, TagsKept
  <1>6. area' \in Areas /\ ContactsTypeOK'
    BY <1>2 DEF RecordsInv, DashboardInv
  <1>7. DashboardsHold'
    BY <1>2 DEF DashboardsHold
  <1> QED BY <1>4, <1>5, <1>6, <1>7 DEF RecordsInv

LEMMA RecordsAroundEvents ==
  ASSUME RecordsInv, area \in EventAreas, UNCHANGED NotEvents, EventInv'
  PROVE  RecordsInv'
  <1>1. /\ area \notin PledgeAreas
        /\ area \notin SiteAreas
        /\ area \notin JobAreas
        /\ area \notin AccessAreas
        /\ area \notin MemberAreas
        /\ area \notin CaseAreas \cup {"activities"}
        /\ area \notin CaseAreas
        /\ area \notin MailingAreas
        /\ area # "custom"
        /\ area # "dashboards"
        /\ area \notin SurveyAreas
        /\ area \notin TagAreas
    BY DEF PledgeAreas, SiteAreas, JobAreas, AccessAreas, MemberAreas, CaseAreas, CampaignAreas, MailingAreas,
            EventAreas, SurveyAreas, TagAreas
  <1>2. UNCHANGED <<area, pledging, site, labour, access, members, activity, casework, mailing, custom, boards, surveyTables, tagVars>>
    BY DEF NotEvents
  <1>3. PledgesHold /\ SiteHolds /\ JobsHold /\ AccessHolds /\ MembershipsHold /\ ActivitiesHold
        /\ CasesHold /\ MailingsHold /\ CustomHolds /\ DashboardsHold /\ SurveysHold /\ TagsHold
    BY DEF RecordsInv
  <1>4. PledgesHold' /\ SiteHolds' /\ JobsHold' /\ AccessHolds' /\ MembershipsHold' /\ ActivitiesHold' /\ CasesHold'
    BY <1>1, <1>2, <1>3, PledgesKept, SiteKept, JobsKept, AccessKept, MembershipsKept, ActivitiesKept, CasesKept
  <1>5. MailingsHold' /\ CustomHolds' /\ DashboardsHold' /\ SurveysHold' /\ TagsHold'
    BY <1>1, <1>2, <1>3, MailingsKept, CustomKept, DashboardsKept, SurveysKept, TagsKept
  <1>6. area' \in Areas /\ ContactsTypeOK'
    BY <1>2 DEF RecordsInv, EventInv
  <1>7. CampaignsHold' /\ EventsHold'
    BY <1>2 DEF CampaignsHold, EventsHold, EventInv
  <1> QED BY <1>4, <1>5, <1>6, <1>7 DEF RecordsInv

LEMMA RecordsAroundSurveys ==
  ASSUME RecordsInv, area \in SurveyAreas, UNCHANGED NotSurveys, SurveyInv'
  PROVE  RecordsInv'
  <1>1. /\ area \notin PledgeAreas
        /\ area \notin SiteAreas
        /\ area \notin JobAreas
        /\ area \notin AccessAreas
        /\ area \notin MemberAreas
        /\ area \notin CaseAreas \cup {"activities"}
        /\ area \notin CaseAreas
        /\ area \notin MailingAreas
        /\ area # "custom"
        /\ area # "dashboards"
        /\ area \notin EventAreas
        /\ area \notin TagAreas
    BY DEF PledgeAreas, SiteAreas, JobAreas, AccessAreas, MemberAreas, CaseAreas, CampaignAreas, MailingAreas,
            EventAreas, SurveyAreas, TagAreas
  <1>2. UNCHANGED <<area, pledging, site, labour, access, members, activity, casework, mailing, custom, boards, eventTables, tagVars>>
    BY DEF NotSurveys
  <1>3. PledgesHold /\ SiteHolds /\ JobsHold /\ AccessHolds /\ MembershipsHold /\ ActivitiesHold
        /\ CasesHold /\ MailingsHold /\ CustomHolds /\ DashboardsHold /\ EventsHold /\ TagsHold
    BY DEF RecordsInv
  <1>4. PledgesHold' /\ SiteHolds' /\ JobsHold' /\ AccessHolds' /\ MembershipsHold' /\ ActivitiesHold' /\ CasesHold'
    BY <1>1, <1>2, <1>3, PledgesKept, SiteKept, JobsKept, AccessKept, MembershipsKept, ActivitiesKept, CasesKept
  <1>5. MailingsHold' /\ CustomHolds' /\ DashboardsHold' /\ EventsHold' /\ TagsHold'
    BY <1>1, <1>2, <1>3, MailingsKept, CustomKept, DashboardsKept, EventsKept, TagsKept
  <1>6. area' \in Areas /\ ContactsTypeOK'
    BY <1>2 DEF RecordsInv, SurveyInv
  <1>7. CampaignsHold' /\ SurveysHold'
    BY <1>2 DEF CampaignsHold, SurveysHold, SurveyInv
  <1> QED BY <1>4, <1>5, <1>6, <1>7 DEF RecordsInv

LEMMA RecordsAroundTags ==
  ASSUME RecordsInv, area \in TagAreas, UNCHANGED NotTags, TagInv'
  PROVE  RecordsInv'
  <1>1. /\ area \notin PledgeAreas
        /\ area \notin SiteAreas
        /\ area \notin JobAreas
        /\ area \notin AccessAreas
        /\ area \notin MemberAreas
        /\ area \notin CaseAreas \cup {"activities"}
        /\ area \notin CaseAreas
        /\ area \notin PledgeAreas \cup CampaignAreas \cup EventAreas \cup SurveyAreas
        /\ area \notin MailingAreas
        /\ area # "custom"
        /\ area # "dashboards"
        /\ area \notin EventAreas
        /\ area \notin SurveyAreas
    BY DEF PledgeAreas, SiteAreas, JobAreas, AccessAreas, MemberAreas, CaseAreas, CampaignAreas, MailingAreas,
            EventAreas, SurveyAreas, TagAreas
  <1>2. UNCHANGED <<area, pledging, site, labour, access, members, activity, casework, campaignTables, mailing, custom, boards, eventTables, surveyTables>>
    BY DEF NotTags
  <1>3. PledgesHold /\ SiteHolds /\ JobsHold /\ AccessHolds /\ MembershipsHold /\ ActivitiesHold
        /\ CasesHold /\ CampaignsHold /\ MailingsHold /\ CustomHolds /\ DashboardsHold /\ EventsHold /\ SurveysHold
    BY DEF RecordsInv
  <1>4. PledgesHold' /\ SiteHolds' /\ JobsHold' /\ AccessHolds' /\ MembershipsHold' /\ ActivitiesHold' /\ CasesHold'
    BY <1>1, <1>2, <1>3, PledgesKept, SiteKept, JobsKept, AccessKept, MembershipsKept, ActivitiesKept, CasesKept
  <1>5. CampaignsHold' /\ MailingsHold' /\ CustomHolds' /\ DashboardsHold' /\ EventsHold' /\ SurveysHold'
    BY <1>1, <1>2, <1>3, CampaignsKept, MailingsKept, CustomKept, DashboardsKept, EventsKept, SurveysKept
  <1>6. area' \in Areas /\ ContactsTypeOK'
    BY <1>2 DEF RecordsInv, ContactsTypeOK, IsTable, NotTags
  <1>7. TagsHold'
    BY <1>2 DEF TagsHold
  <1> QED BY <1>4, <1>5, <1>6, <1>7 DEF RecordsInv
-----------------------------------------------------------------------------
(* Every statement of an area keeps the invariant of all of them. *)

LEMMA ContactAreaKeeps == ASSUME RecordsInv, area = "contacts", ContactsNext, UNCHANGED AllButContacts PROVE RecordsInv'
  <1>1. ContactsTypeOK
    BY DEF RecordsInv
  <1>2. ASSUME NEW c \in ContactIds, NEW row \in Contact, CreateContact(c, row) \/ UpdateContact(c, row) PROVE ContactsTypeOK'
    BY <1>1, <1>2 DEF CreateContact, UpdateContact, ContactsTypeOK, IsTable, Insert
  <1>3. ContactsTypeOK'
    BY <1>1, <1>2, ContactDeleted DEF ContactsNext
  <1> QED BY <1>3, RecordsAroundContacts

LEMMA PledgeAreaKeeps == ASSUME RecordsInv, area \in PledgeAreas, PledgesNext, UNCHANGED NotPledges PROVE RecordsInv'
  <1>1. PledgesInv /\ CampaignInv /\ ContactsTypeOK
    BY DEF RecordsInv, PledgesHold, CampaignsHold
  <1>2. PledgesInv' /\ CampaignInv' /\ ContactsTypeOK'
    BY <1>1, PledgesNextKeeps, PledgesKeepCampaigns, PledgesActors, ActorStepKeeps
  <1> QED BY <1>2, RecordsAroundPledges

LEMMA SiteAreaKeeps ==
  ASSUME RecordsInv, area \in {"settings", "navigation"}, UNCHANGED NotSite,
         \/ DomainNext \/ SettingsNext \/ NavigationNext
         \/ \E d \in DomainIds, n \in Names : CreateDomain(d, n, TRUE) \/ DeleteDomain(d)
  PROVE  RecordsInv'
  <1>1. area \in SiteAreas \ JobAreas
    BY DEF SiteAreas, JobAreas
  <1>2. SiteInv
    BY <1>1 DEF RecordsInv, SiteHolds
  <1>3. TRUE \in Flag
    BY DEF Flag
  <1>4. SiteInv'
    BY <1>2, <1>3, DomainNextKeeps, SettingsNextKeeps, NavigationNextKeeps, WriteDomainKeeps, DeleteDomainKeeps
  <1> QED BY <1>1, <1>4, RecordsAroundSite

LEMMA JobAreaKeeps == ASSUME RecordsInv, area \in JobAreas, JobsNext \/ QueuesNext, UNCHANGED NotJobs PROVE RecordsInv'
  <1>1. JobInv
    BY DEF RecordsInv, JobsHold
  <1>2. JobInv'
    BY <1>1, JobsNextKeeps, QueuesNextKeeps
  <1> QED BY <1>2, RecordsAroundJobs

LEMMA AccessAreaKeeps ==
  ASSUME RecordsInv, area \in AccessAreas, AccessNext \/ UsersNext \/ AclCacheNext, UNCHANGED NotAccess
  PROVE  RecordsInv'
  <1>1. AccessInv
    BY DEF RecordsInv, AccessHolds
  <1>2. AccessInv'
    BY <1>1, AccessNextKeeps, UsersNextKeeps, AclCacheNextKeeps
  <1> QED BY <1>2, RecordsAroundAccess

LEMMA MemberAreaKeeps == ASSUME RecordsInv, area \in MemberAreas, MembershipsNext, UNCHANGED NotMembers PROVE RecordsInv'
  <1>1. MembershipInv /\ ContactsTypeOK
    BY DEF RecordsInv, MembershipsHold
  <1>2. MembershipInv' /\ ContactsTypeOK'
    BY <1>1, MembershipsNextKeeps, MembershipsActors, ActorStepKeeps
  <1> QED BY <1>2, RecordsAroundMemberships

LEMMA ActivityAreaKeeps ==
  ASSUME RecordsInv, area = "activities", ActivitiesNext, UNCHANGED <<NotCases, casework>> PROVE RecordsInv'
  <1>1. ActivityInv
    BY DEF RecordsInv, ActivitiesHold
  <1>2. ActivityInv'
    BY <1>1, ActivitiesNextKeeps
  <1> QED BY <1>2, RecordsAroundActivities

LEMMA CaseAreaKeeps ==
  ASSUME RecordsInv, area \in CaseAreas, CaseStatusNext \/ PartiesNext \/ FilingNext, UNCHANGED NotCases PROVE RecordsInv'
  <1>1. CaseInv
    BY DEF RecordsInv, CasesHold
  <1>2. CaseInv'
    BY <1>1, CaseStatusNextKeeps, PartiesNextKeeps, FilingNextKeeps
  <1> QED BY <1>2, RecordsAroundCases

LEMMA CampaignAreaKeeps ==
  ASSUME RecordsInv, area \in CampaignAreas, CampaignsNext, UNCHANGED NotCampaigns PROVE RecordsInv'
  <1>1. CampaignInv /\ ContactsTypeOK
    BY DEF RecordsInv, CampaignsHold
  <1>2. CampaignInv' /\ ContactsTypeOK'
    BY <1>1, CampaignsNextKeeps, CampaignsActors, ActorStepKeeps
  <1> QED BY <1>2, RecordsAroundCampaigns

LEMMA MailingAreaKeeps == ASSUME RecordsInv, area \in MailingAreas, MailingsNext, UNCHANGED NotMailings PROVE RecordsInv'
  <1>1. MailingInv /\ ContactsTypeOK
    BY DEF RecordsInv, MailingsHold
  <1>2. MailingInv' /\ ContactsTypeOK'
    BY <1>1, MailingsNextKeeps, MailingsActors, ActorStepKeeps
  <1> QED BY <1>2, RecordsAroundMailings

LEMMA CustomAreaKeeps == ASSUME RecordsInv, area = "custom", CustomDataNext, UNCHANGED NotCustom PROVE RecordsInv'
  BY CustomNextKeeps, RecordsAroundCustom DEF RecordsInv, CustomHolds

LEMMA DashboardAreaKeeps ==
  ASSUME RecordsInv, area = "dashboards", DashboardsNext, UNCHANGED NotDashboards PROVE RecordsInv'
  BY DashboardsNextKeeps, RecordsAroundDashboards DEF RecordsInv, DashboardsHold

LEMMA EventAreaKeeps ==
  ASSUME RecordsInv, area \in EventAreas, UNCHANGED NotEvents, CalendarNext \/ AttendanceNext \/ FeesNext \/ PromotionsNext
  PROVE  RecordsInv'
  <1>1. EventInv
    BY DEF RecordsInv, EventsHold
  <1>2. EventInv'
    BY <1>1, CalendarKeeps, AttendanceKeeps, FeesKeep, PromotionsKeep
  <1> QED BY <1>2, RecordsAroundEvents

LEMMA SurveyAreaKeeps ==
  ASSUME RecordsInv, area \in SurveyAreas, UNCHANGED NotSurveys,
         QuestionnaireNext \/ CampaignedNext \/ ResponsesNext \/ AnswersNext
  PROVE  RecordsInv'
  <1>1. SurveyInv
    BY DEF RecordsInv, SurveysHold
  <1>2. SurveyInv'
    BY <1>1, QuestionnaireNextKeeps, CampaignedNextKeeps, ResponsesNextKeeps, AnswersNextKeeps
  <1> QED BY <1>2, RecordsAroundSurveys

LEMMA TagAreaKeeps == ASSUME RecordsInv, area \in TagAreas, TagSetsNext \/ TaggingNext, UNCHANGED NotTags PROVE RecordsInv'
  BY TagSetsNextKeeps, TaggingNextKeeps, RecordsAroundTags DEF RecordsInv, TagsHold

LEMMA RecordsNextKeeps == RecordsInv /\ [Next]_recordVars => RecordsInv'
  <1>1. ASSUME RecordsInv, Next PROVE RecordsInv'
    <2>1. CASE area = "contacts" /\ ContactsNext /\ UNCHANGED AllButContacts
      BY <1>1, <2>1, ContactAreaKeeps
    <2>2. CASE area \in {"schedule", "pledged", "groups"} /\ PledgesNext /\ UNCHANGED NotPledges
      BY <1>1, <2>2, PledgeAreaKeeps DEF PledgeAreas
    <2>3. CASE /\ area \in {"settings", "navigation"} /\ UNCHANGED NotSite
               /\ \/ DomainNext \/ SettingsNext \/ NavigationNext
                  \/ \E d \in DomainIds, n \in Names : CreateDomain(d, n, TRUE) \/ DeleteDomain(d)
      BY <1>1, <2>3, SiteAreaKeeps
    <2>4. CASE area \in {"jobs", "queues"} /\ (JobsNext \/ QueuesNext) /\ UNCHANGED NotJobs
      BY <1>1, <2>4, JobAreaKeeps DEF JobAreas
    <2>5. CASE area \in {"access", "users", "cache"} /\ (AccessNext \/ UsersNext \/ AclCacheNext) /\ UNCHANGED NotAccess
      BY <1>1, <2>5, AccessAreaKeeps DEF AccessAreas
    <2>6. CASE area \in {"members", "contributions"} /\ MembershipsNext /\ UNCHANGED NotMembers
      BY <1>1, <2>6, MemberAreaKeeps DEF MemberAreas
    <2>7. CASE area = "activities" /\ ActivitiesNext /\ UNCHANGED <<NotCases, casework>>
      BY <1>1, <2>7, ActivityAreaKeeps
    <2>8. CASE area \in {"status", "parties", "filing"} /\ (CaseStatusNext \/ PartiesNext \/ FilingNext) /\ UNCHANGED NotCases
      BY <1>1, <2>8, CaseAreaKeeps DEF CaseAreas
    <2>9. CASE area \in {"hierarchy", "kinds", "participants"} /\ CampaignsNext /\ UNCHANGED NotCampaigns
      BY <1>1, <2>9, CampaignAreaKeeps DEF CampaignAreas
    <2>10. CASE area \in {"lists", "tracking", "preferences"} /\ MailingsNext /\ UNCHANGED NotMailings
      BY <1>1, <2>10, MailingAreaKeeps DEF MailingAreas
    <2>11. CASE area = "custom" /\ CustomDataNext /\ UNCHANGED NotCustom
      BY <1>1, <2>11, CustomAreaKeeps
    <2>12. CASE area = "dashboards" /\ DashboardsNext /\ UNCHANGED NotDashboards
      BY <1>1, <2>12, DashboardAreaKeeps
    <2>13. CASE /\ area \in {"calendar", "attendance", "fees", "promotions"} /\ UNCHANGED NotEvents
                /\ CalendarNext \/ AttendanceNext \/ FeesNext \/ PromotionsNext
      BY <1>1, <2>13, EventAreaKeeps DEF EventAreas
    <2>14. CASE /\ area \in {"questionnaires", "campaigned", "responses", "answers"} /\ UNCHANGED NotSurveys
                /\ QuestionnaireNext \/ CampaignedNext \/ ResponsesNext \/ AnswersNext
      BY <1>1, <2>14, SurveyAreaKeeps DEF SurveyAreas
    <2>15. CASE area \in {"tag sets", "tagging"} /\ (TagSetsNext \/ TaggingNext) /\ UNCHANGED NotTags
      BY <1>1, <2>15, TagAreaKeeps DEF TagAreas
    <2> QED
      BY <1>1, <2>1, <2>2, <2>3, <2>4, <2>5, <2>6, <2>7, <2>8, <2>9, <2>10, <2>11, <2>12, <2>13, <2>14, <2>15
         DEF Next, AllButContacts, PledgesNext, MembershipsNext, CampaignsNext, MailingsNext
  <1>2. ASSUME RecordsInv, UNCHANGED recordVars PROVE RecordsInv'
    <2>1. UNCHANGED <<area, contacts, pledging, site, labour, access, members, activity, casework, campaignTables, mailing,
                      custom, boards, eventTables, surveyTables, tagVars>>
      BY <1>2 DEF recordVars, further
    <2>2. PledgesInv => PledgesInv'
      BY <2>1, PledgesNextKeeps DEF pledging, pledgeVars
    <2>3. (SiteInv => SiteInv') /\ (JobInv => JobInv')
      BY <2>1, SiteNextKeeps, JobsStepKeeps DEF site, labour, working, jobVars, siteVars
    <2>4. (AccessInv => AccessInv') /\ (MembershipInv => MembershipInv')
      BY <2>1, AccessStepKeeps, MembershipsNextKeeps DEF access, accessVars, members, membershipVars
    <2>5. (ActivityInv => ActivityInv') /\ (CaseInv => CaseInv')
      BY <2>1, ActivitiesNextKeeps, CasesNextKeeps DEF activity, activityVars, casework, caseVars
    <2>6. (CampaignInv => CampaignInv') /\ (MailingInv => MailingInv')
      BY <2>1, CampaignsNextKeeps, MailingsNextKeeps DEF campaignVars, mailing, mailingVars
    <2>7. (CustomInv => CustomInv') /\ (DashboardInv => DashboardInv')
      BY <2>1, CustomNextKeeps, DashboardsNextKeeps DEF custom, boards, dashboardVars
    <2>8. (EventInv => EventInv') /\ (SurveyInv => SurveyInv') /\ (TagInv => TagInv')
      BY <2>1, EventsNextKeeps, SurveysNextKeeps, TagsNextKeeps DEF eventVars, surveyVars
    <2>9. ContactsTypeOK' /\ area' \in Areas
      BY <1>2, <2>1 DEF RecordsInv, ContactsTypeOK
    <2>10. PledgesHold' /\ SiteHolds' /\ JobsHold' /\ AccessHolds' /\ MembershipsHold'
      BY <1>2, <2>1, <2>2, <2>3, <2>4, PledgesKept, SiteKept, JobsKept, AccessKept, MembershipsKept
         DEF RecordsInv, PledgesHold, SiteHolds, JobsHold, AccessHolds, MembershipsHold
    <2>11. ActivitiesHold' /\ CasesHold' /\ CampaignsHold' /\ MailingsHold'
      BY <1>2, <2>1, <2>5, <2>6, ActivitiesKept, CasesKept, CampaignsKept, MailingsKept
         DEF RecordsInv, ActivitiesHold, CasesHold, CampaignsHold, MailingsHold
    <2>12. CustomHolds' /\ DashboardsHold' /\ EventsHold' /\ SurveysHold' /\ TagsHold'
      BY <1>2, <2>1, <2>7, <2>8, CustomKept, DashboardsKept, EventsKept, SurveysKept, TagsKept
         DEF RecordsInv, CustomHolds, DashboardsHold, EventsHold, SurveysHold, TagsHold
    <2> QED BY <2>9, <2>10, <2>11, <2>12 DEF RecordsInv
  <1> QED BY <1>1, <1>2

(* What holds of tables without rows, for the areas a behaviour leaves alone. *)
LEMMA EmptyPledges == PledgesInit => PledgesTypeOK /\ PledgeRefs
  <1> SUFFICES ASSUME PledgesInit PROVE PledgesTypeOK /\ PledgeRefs
    OBVIOUS
  <1>1. PledgeRefs /\ ScheduleTyped /\ MembersTyped
    BY DEF PledgesInit, ScheduleTyped, MembersTyped, PledgeRefs, IsTable, NoRows
  <1>2. EditingTyped
    BY UnreadTyped DEF PledgesInit, EditingTyped, IsTable, NoRows
  <1> QED BY <1>1, <1>2, TypedInParts
LEMMA EmptyAccess == AccessInit => AccessTypeOK /\ AccessRefs
  BY DEF AccessInit, AccessTypeOK, AccessRefs, IsTable, NoRows
LEMMA EmptyMemberships == MembershipsInit => MembershipsTypeOK /\ MembershipRefs
  BY DEF MembershipsInit, MembershipsTypeOK, MembershipRefs, IsTable, NoRows
LEMMA EmptyActivities == ActivitiesInit => ActivitiesTypeOK /\ ActivityRefs
  BY DEF ActivitiesInit, ActivitiesTypeOK, ActivityRefs, IsTable, NoRows
LEMMA EmptyCases == CasesInit => CasesTypeOK /\ CaseRefs
  BY DEF CasesInit, CasesTypeOK, CaseRefs, IsTable, NoRows
LEMMA EmptyCampaigns == CampaignsInit => CampaignsTypeOK /\ CampaignRefs
  BY DEF CampaignsInit, CampaignsTypeOK, CampaignRefs, IsTable, NoRows
LEMMA EmptyMailings == MailingsInit => MailingsTypeOK /\ MailingRefs
  BY DEF MailingsInit, MailingsTypeOK, MailingRefs, IsTable, NoRows
LEMMA EmptyDashboards == DashboardsInit => DashboardsTypeOK
  BY DEF DashboardsInit, DashboardsTypeOK, IsTable, NoRows
LEMMA EmptyEvents == EventsInit => EventsTypeOK /\ EventRefs
  BY EventAssumption DEF EventsInit, EventsTypeOK, EventRefs, IsTable, NoRows
LEMMA EmptySurveys == SurveysInit => SurveysTypeOK /\ SurveyRefs
  BY DEF SurveysInit, SurveysTypeOK, SurveyRefs, IsTable, NoRows

LEMMA RecordsInvTypes == RecordsInv => RecordsTypeOK
  <1> SUFFICES ASSUME RecordsInv PROVE RecordsTypeOK
    OBVIOUS
  <1>1. ContactsTypeOK
    BY DEF RecordsInv
  <1>2. PledgesTypeOK /\ SiteTypeOK /\ JobsTypeOK
    BY EmptyPledges, TypedInParts, SiteInitInv, JobsEmpty
       DEF RecordsInv, PledgesHold, PledgesInv, EditingInv, SiteHolds, SiteInv, JobsHold, JobInv
  <1>3. AccessTypeOK /\ MembershipsTypeOK
    BY EmptyAccess, EmptyMemberships DEF RecordsInv, AccessHolds, AccessInv, MembershipsHold, MembershipInv
  <1>4. ActivitiesTypeOK /\ CasesTypeOK
    BY EmptyActivities, EmptyCases DEF RecordsInv, ActivitiesHold, ActivityInv, CasesHold, CaseInv
  <1>5. CampaignsTypeOK /\ MailingsTypeOK
    BY EmptyCampaigns, EmptyMailings DEF RecordsInv, CampaignsHold, CampaignInv, MailingsHold, MailingInv
  <1>6. CustomDataTypeOK /\ DashboardsTypeOK
    BY CustomInitInv, EmptyDashboards DEF RecordsInv, CustomHolds, CustomInv, DashboardsHold, DashboardInv
  <1>7. EventsTypeOK /\ SurveysTypeOK /\ TagsTypeOK
    BY EmptyEvents, EmptySurveys, TagInitInv DEF RecordsInv, EventsHold, EventInv, SurveysHold, SurveyInv, TagsHold, TagInv
  <1> QED BY <1>1, <1>2, <1>3, <1>4, <1>5, <1>6, <1>7 DEF RecordsTypeOK

LEMMA RecordsInvRefs ==
  RecordsInv => PledgeRefs /\ SiteRefs /\ MembershipRefs /\ CaseRefs /\ CampaignRefs /\ MailingRefs /\ CustomRefs /\ OtherRefs
  <1> SUFFICES ASSUME RecordsInv
               PROVE  PledgeRefs /\ SiteRefs /\ MembershipRefs /\ CaseRefs /\ CampaignRefs /\ MailingRefs /\ CustomRefs /\ OtherRefs
    OBVIOUS
  <1>1. PledgeRefs /\ SiteRefs /\ JobRefs
    BY EmptyPledges, SiteInitInv, JobsEmpty DEF RecordsInv, PledgesHold, PledgesInv, SiteHolds, SiteInv, JobsHold, JobInv
  <1>2. AccessRefs /\ MembershipRefs
    BY EmptyAccess, EmptyMemberships DEF RecordsInv, AccessHolds, AccessInv, MembershipsHold, MembershipInv
  <1>3. ActivityRefs /\ CaseRefs
    BY EmptyActivities, EmptyCases DEF RecordsInv, ActivitiesHold, ActivityInv, CasesHold, CaseInv
  <1>4. CampaignRefs /\ MailingRefs
    BY EmptyCampaigns, EmptyMailings, SubscribersAndRecipientsFound DEF RecordsInv, CampaignsHold, CampaignInv, MailingsHold
  <1>5. CustomRefs /\ EventRefs
    BY CustomInitInv, FieldsAndValuesFound, EmptyEvents DEF RecordsInv, CustomHolds, EventsHold, EventInv
  <1>6. SurveyRefs /\ TagRefs
    BY EmptySurveys, TagInitInv, TagsCounted DEF RecordsInv, SurveysHold, SurveyInv, TagsHold
  <1> QED BY <1>1, <1>2, <1>3, <1>4, <1>5, <1>6 DEF OtherRefs

(* The domains side by side, as clients of one database: in no area does a     *)
(* statement of internal/database/generated leave a row that is not of its     *)
(* table's type, in the tables of that area or of another.                     *)
THEOREM RecordsTypeCorrect == RecordsSpec => []RecordsTypeOK
  BY RecordsInvTypes, RecordsInitInv, RecordsNextKeeps, PTL DEF RecordsSpec

(* Nor does any statement leave a reference to a row that is gone, or two rows *)
(* that a unique index forbids, in any of the areas: what jobs and queues,     *)
(* grants and caches, activities, registrations and fees, answers and tagged   *)
(* entities refer to is there, and so it is in the areas with a property of    *)
(* their own: what memberships and their logs say of types and statuses        *)
(* (016:44-95), pledges and blocks of campaigns (031:8-40), and the rest that  *)
(* the migrations' foreign keys and the cascades of their DELETEs decide.      *)
THEOREM RecordsReferences ==
  RecordsSpec =>
    [](PledgeRefs /\ SiteRefs /\ MembershipRefs /\ CaseRefs /\ CampaignRefs /\ MailingRefs /\ CustomRefs /\ OtherRefs)
  BY RecordsInvRefs, RecordsInitInv, RecordsNextKeeps, PTL DEF RecordsSpec

-----------------------------------------------------------------------------
(* The answers of the queries in all areas.  A query by a UNIQUE column finds  *)
(* one row, and the statements of an area write no names but their own.        *)
KeysDiffer == EmailsDiffer /\ TagSetsDiffer /\ CampaignKindsDiffer /\ NamesOfMailingDiffer

LEMMA KeysInit == Init => KeysDiffer
  BY DEF Init, ContactsInit, TagsInit, CampaignsInit, MailingsInit, NoRows,
         KeysDiffer, EmailsDiffer, TagSetsDiffer, CampaignKindsDiffer, NamesOfMailingDiffer, NamesDiffer

(* Who writes the columns that are UNIQUE. *)
WritersOfKeys ==
  /\ ContactsNext \/ ActorStep
  /\ TagSetsNext \/ TaggingNext \/ UNCHANGED tag_sets
  /\ CampaignsNext \/ UNCHANGED campaignKinds
  /\ MailingsNext \/ UNCHANGED <<message_templates, mailing_lists>>

LEMMA KeysWritten == [Next]_recordVars => WritersOfKeys
  <1> USE DEF WritersOfKeys
  <1>1. UNCHANGED further => UNCHANGED tag_sets
    BY DEF further, tagVars
  <1>2. UNCHANGED campaignTables => UNCHANGED campaignKinds
    BY DEF campaignTables
  <1>3. UNCHANGED mailing => UNCHANGED <<message_templates, mailing_lists>>
    BY DEF mailing, listTables
  <1>4. UNCHANGED contacts => ActorStep
    BY DEF ActorStep
  <1>5. ContactsNext /\ UNCHANGED AllButContacts => WritersOfKeys
    BY <1>1, <1>2, <1>3 DEF AllButContacts
  <1>6. PledgesNext /\ UNCHANGED NotPledges => WritersOfKeys
    BY <1>1, <1>3, PledgesActors DEF NotPledges
  <1>7. UNCHANGED NotSite \/ UNCHANGED NotJobs \/ UNCHANGED NotCustom => WritersOfKeys
    BY <1>1, <1>2, <1>3, <1>4 DEF NotSite, NotJobs, NotCustom
  <1>8. (AccessNext \/ UsersNext \/ AclCacheNext) /\ UNCHANGED NotAccess => WritersOfKeys
    BY <1>1, <1>2, <1>3, AccessActors DEF NotAccess
  <1>9. MembershipsNext /\ UNCHANGED NotMembers => WritersOfKeys
    BY <1>1, <1>2, <1>3, MembershipsActors DEF NotMembers
  <1>10. (ActivitiesNext \/ CaseStatusNext \/ PartiesNext \/ FilingNext) /\ UNCHANGED NotCases => WritersOfKeys
    BY <1>1, <1>2, <1>3, ActivitiesActors, CasesActors DEF NotCases
  <1>11. CampaignsNext /\ UNCHANGED NotCampaigns => WritersOfKeys
    BY <1>1, <1>3, CampaignsActors DEF NotCampaigns
  <1>12. MailingsNext /\ UNCHANGED NotMailings => WritersOfKeys
    BY <1>1, <1>2, MailingsActors DEF NotMailings
  <1>13. DashboardsNext /\ UNCHANGED NotDashboards => WritersOfKeys
    BY <1>1, <1>2, <1>3, DashboardsActors DEF NotDashboards
  <1>14. (CalendarNext \/ AttendanceNext \/ FeesNext \/ PromotionsNext) /\ UNCHANGED NotEvents => WritersOfKeys
    BY <1>3, EventsActors DEF NotEvents, tagVars
  <1>15. (QuestionnaireNext \/ CampaignedNext \/ ResponsesNext \/ AnswersNext) /\ UNCHANGED NotSurveys => WritersOfKeys
    BY <1>3, SurveysActors DEF NotSurveys, tagVars
  <1>16. (TagSetsNext \/ TaggingNext) /\ UNCHANGED NotTags => WritersOfKeys
    BY <1>2, <1>3, <1>4 DEF NotTags
  <1>17. UNCHANGED recordVars => WritersOfKeys
    BY <1>1, <1>2, <1>3, <1>4 DEF recordVars
  <1> HIDE DEF WritersOfKeys
  <1> QED
    BY <1>5, <1>6, <1>7, <1>8, <1>9, <1>10, <1>11, <1>12, <1>13, <1>14, <1>15, <1>16, <1>17
       DEF Next, AllButContacts, PledgesNext, MembershipsNext, CampaignsNext, MailingsNext

LEMMA KeysStayDifferent == RecordsInv /\ KeysDiffer /\ [Next]_recordVars => KeysDiffer'
  <1> SUFFICES ASSUME RecordsInv, KeysDiffer, [Next]_recordVars PROVE KeysDiffer'
    OBVIOUS
  <1>1. ContactsTypeOK /\ TagsTypeOK /\ CampaignsTypeOK /\ MailingsTypeOK
    BY RecordsInvTypes DEF RecordsTypeOK
  <1>2. EmailsDiffer'
    BY <1>1, KeysWritten, EmailsStayDifferent DEF WritersOfKeys, KeysDiffer
  <1>3. TagSetsDiffer'
    <2>1. UNCHANGED tag_sets => TagSetsDiffer'
      BY DEF KeysDiffer, TagSetsDiffer, NamesDiffer
    <2> QED BY <1>1, <2>1, KeysWritten, TagSetsStayDifferent DEF WritersOfKeys, KeysDiffer
  <1>4. CampaignKindsDiffer'
    <2>1. UNCHANGED campaignKinds => CampaignKindsDiffer'
      BY DEF KeysDiffer, campaignKinds, CampaignKindsDiffer, NamesDiffer
    <2> QED BY <1>1, <2>1, KeysWritten, CampaignKindsStayDifferent DEF WritersOfKeys, KeysDiffer
  <1>5. NamesOfMailingDiffer'
    <2>1. UNCHANGED <<message_templates, mailing_lists>> => NamesOfMailingDiffer'
      BY DEF KeysDiffer, NamesOfMailingDiffer, NamesDiffer
    <2> QED BY <1>1, <2>1, KeysWritten, NamesOfMailingStayDifferent DEF WritersOfKeys, KeysDiffer
  <1> QED BY <1>2, <1>3, <1>4, <1>5 DEF KeysDiffer

LEMMA RecordsAnswers == RecordsInv /\ KeysDiffer => OtherAnswersAgree
  <1> SUFFICES ASSUME RecordsInv, KeysDiffer PROVE OtherAnswersAgree
    OBVIOUS
  <1>1. ContactsTypeOK
    BY DEF RecordsInv
  <1>2. RecordsTypeOK /\ MembershipRefs /\ CaseRefs /\ CampaignRefs /\ MailingRefs /\ OtherRefs
    BY RecordsInvTypes, RecordsInvRefs
  <1>3. ContactAnswersAgree
    BY <1>1, ContactAnswers DEF KeysDiffer
  <1>4. JobAnswersAgree
    <2>1. SiteInv
      BY SiteInitInv DEF RecordsInv, SiteHolds
    <2> QED BY <2>1, JobsEmpty, JobAnswers DEF RecordsInv, JobsHold, JobInv
  <1>5. UserAnswersAgree
    BY <1>1, EmptyAccess, UserAnswers DEF RecordsInv, AccessHolds, AccessInv
  <1>6. MembershipAnswersAgree
    BY <1>2, MembershipAnswers DEF RecordsTypeOK
  <1>7. ActivityAnswersAgree
    BY <1>1, EmptyActivities, ActivityAnswers DEF RecordsInv, ActivitiesHold, ActivityInv
  <1>8. CaseAnswersAgree /\ FilingAnswersAgree
    BY <1>2, CaseAnswers, FilingAnswers DEF RecordsTypeOK, OtherRefs
  <1>9. CampaignAnswersAgree
    BY <1>2, CampaignAnswers DEF RecordsTypeOK, KeysDiffer
  <1>10. MailingAnswersAgree
    BY <1>2, MailingAnswers DEF RecordsTypeOK, KeysDiffer
  <1>11. CustomAnswersAgree
    BY CustomInitInv, CustomAnswers DEF RecordsInv, CustomHolds
  <1>12. DashboardAnswersAgree
    <2>1. DashboardsInit => BoardsFit
      BY FS_EmptySet DEF DashboardsInit, BoardsFit, NoRows
    <2>2. DashboardsInit => DashboardInv
      BY <1>1, <2>1, EmptyDashboards DEF DashboardInv
    <2> QED BY <2>2, BoardsAnswer DEF RecordsInv, DashboardsHold
  <1>13. EventAnswersAgree /\ SurveyAnswersAgree
    BY <1>2, EventAnswers, SurveyAnswers DEF RecordsTypeOK, OtherRefs
  <1>14. TagAnswersAgree
    BY TagInitInv, TagAnswers DEF RecordsInv, TagsHold, KeysDiffer
  <1> QED
    BY <1>3, <1>4, <1>5, <1>6, <1>7, <1>8, <1>9, <1>10, <1>11, <1>12, <1>13, <1>14 DEF OtherAnswersAgree

(* In every area the :one and :many queries of internal/database/generated fit *)
(* together, whatever the statements did before: a lookup by a UNIQUE column   *)
(* finds the row that the lookup by id finds, what refers to a row is found    *)
(* from it, joins lose no row and repeat none, rates stay between none and     *)
(* all, and where counts or listings by status, grouping or role leave rows    *)
(* out, these are exactly the rows with no value, or with one that no query    *)
(* asks for.                                                                   *)
THEOREM RecordsAnswer == RecordsSpec => []OtherAnswersAgree
  BY RecordsAnswers, KeysInit, KeysStayDifferent, RecordsInitInv, RecordsNextKeeps, PTL DEF RecordsSpec
=============================================================================
