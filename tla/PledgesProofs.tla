---------------------------- MODULE PledgesProofs -----------------------------
(* Pledges keep their types and references, and a group's total is what *)
(* was contributed as long as no editor wrote over another, for any     *)
(* contacts, pledges, groups and editors.  PledgeRefs is inductive with *)
(* the types; the total needs what each editor knows: a group that was  *)
(* read and not written since still has the amount that was read.  The  *)
(* sections on activities, cases, memberships and communication have    *)
(* the same for their references.                                       *)
EXTENDS Pledges, Cases, Memberships, Mailings, SiteProofs

ScheduleTyped ==
  /\ IsTable(pledges, PledgeIds, Pledge)
  /\ IsTable(pledge_blocks, BlockIds, PledgeBlock)
  /\ IsTable(pledge_payments, PaymentIds, PledgePayment)
  /\ IsTable(pledge_reminders, ReminderIds, PledgeReminder)

MembersTyped == IsTable(pledge_group_members, MemberIds, PledgeGroupMember)

EditingTyped ==
  /\ IsTable(pledge_groups, PledgeGroupIds, PledgeGroup)
  /\ groupView \in [Editors -> [PledgeGroupIds -> GroupRead]]
  /\ contributed \in [PledgeGroupIds -> 0..MaxAmount]
  /\ overlapped \in BOOLEAN

ViewsCurrent == overlapped \/ \A e \in Editors, g \in DOMAIN pledge_groups :
  groupView[e][g].reading /\ ~groupView[e][g].stale => groupView[e][g].amount = pledge_groups[g].current_amount

EditingInv == EditingTyped /\ LoneEditorExact /\ ViewsCurrent
PledgesInv == ScheduleTyped /\ MembersTyped /\ PledgeRefs /\ EditingInv /\ DOMAIN campaigns \subseteq CampaignIds

LEMMA TypedInParts == PledgesTypeOK <=> ScheduleTyped /\ MembersTyped /\ EditingTyped
  BY DEF PledgesTypeOK, ScheduleTyped, MembersTyped, EditingTyped

LEMMA UnreadTyped == Unread \in GroupRead /\ 0 \in 0..MaxAmount /\ Unread.reading = FALSE
  <1>1. MaxAmount \in Nat
    BY PledgesAssumption
  <1>2. 0 \in 0..MaxAmount
    BY <1>1
  <1> QED BY <1>2 DEF Unread, GroupRead

LEMMA PledgesInitInv == ContactsInit /\ CampaignsInit /\ PledgesInit => PledgesInv
  <1> SUFFICES ASSUME ContactsInit, CampaignsInit, PledgesInit PROVE PledgesInv
    OBVIOUS
  <1>1. ScheduleTyped /\ MembersTyped
    BY DEF PledgesInit, ScheduleTyped, MembersTyped, IsTable, NoRows
  <1>2. PledgeRefs
    BY DEF PledgesInit, PledgeRefs, NoRows
  <1>3. Unread \in GroupRead /\ 0 \in 0..MaxAmount
    BY UnreadTyped
  <1>4. IsTable(pledge_groups, PledgeGroupIds, PledgeGroup) /\ DOMAIN pledge_groups = {}
    BY DEF PledgesInit, IsTable, NoRows
  <1>5. EditingInv
    BY <1>3, <1>4 DEF PledgesInit, EditingInv, EditingTyped, LoneEditorExact, ViewsCurrent
  <1>6. DOMAIN campaigns = {}
    BY DEF CampaignsInit, NoRows
  <1> QED BY <1>1, <1>2, <1>5, <1>6 DEF PledgesInv

-----------------------------------------------------------------------------
(* Steps that leave the groups alone leave what is known of their amounts. *)

LEMMA EditingKept == ASSUME EditingInv, UNCHANGED <<pledge_groups, editing>> PROVE EditingInv'
  BY DEF EditingInv, EditingTyped, LoneEditorExact, ViewsCurrent, editing

LEMMA CreateContactKeeps ==
  ASSUME PledgesInv, NEW c \in ContactIds, CreatePledgingContact(c)
  PROVE  PledgesInv'
  <1>1. /\ UNCHANGED <<campaigns, pledgeTables, groupTables, editing>>
        /\ DOMAIN contacts \subseteq DOMAIN contacts'
    BY DEF CreatePledgingContact, CreateContact, Insert, campaignTables
  <1>2. UNCHANGED <<pledges, pledge_blocks, pledge_payments, pledge_reminders, pledge_groups, pledge_group_members>>
    BY <1>1 DEF pledgeTables, groupTables
  <1>3. PledgeRefs'
    BY <1>1, <1>2 DEF PledgeRefs, PledgesInv
  <1> QED
    BY <1>1, <1>2, <1>3, EditingKept DEF PledgesInv, ScheduleTyped, MembersTyped

(* What the cascades of a deleted pledge leave. *)
LEMMA DeletePledgesLeaves ==
  ASSUME PledgesInv, NEW P, NEW gone, DeletePledges(P, gone), UNCHANGED pledge_blocks
  PROVE  /\ ScheduleTyped'
         /\ DOMAIN pledges' = DOMAIN pledges \ P
         /\ \A p \in DOMAIN pledges' : pledges'[p] = pledges[p]
         /\ \A i \in DOMAIN pledge_payments' : pledge_payments'[i].pledge_id \in DOMAIN pledges'
         /\ \A r \in DOMAIN pledge_reminders' :
              /\ pledge_reminders'[r].pledge_id \in DOMAIN pledges'
              /\ pledge_reminders'[r].pledge_payment_id \in DOMAIN pledge_payments' \cup {NULL}
  <1>1. /\ IsTable(pledges', PledgeIds, Pledge)
        /\ DOMAIN pledges' = DOMAIN pledges \ P
        /\ \A p \in DOMAIN pledges' : pledges'[p] = pledges[p]
    BY DEF DeletePledges, PledgesInv, ScheduleTyped, IsTable, Without
  <1>2. /\ IsTable(pledge_payments', PaymentIds, PledgePayment)
        /\ DOMAIN pledge_payments' = DOMAIN pledge_payments \ PaymentsOf(P)
        /\ \A i \in DOMAIN pledge_payments' : pledge_payments'[i] = pledge_payments[i]
    BY DEF DeletePledges, PledgesInv, ScheduleTyped, IsTable, Without
  <1>3. /\ IsTable(pledge_reminders', ReminderIds, PledgeReminder)
        /\ DOMAIN pledge_reminders' = DOMAIN pledge_reminders \ RemindersOf(P)
        /\ \A r \in DOMAIN pledge_reminders' : pledge_reminders'[r] = pledge_reminders[r]
    BY DEF DeletePledges, PledgesInv, ScheduleTyped, IsTable, Without
  <1>4. \A r \in DOMAIN pledge_reminders' : pledge_reminders[r].pledge_payment_id \notin PaymentsOf(P)
    BY <1>3 DEF DeletePledges
  <1>5. \A i \in DOMAIN pledge_payments' : pledge_payments'[i].pledge_id \in DOMAIN pledges'
    BY <1>1, <1>2 DEF PledgesInv, PledgeRefs, PaymentsOf
  <1>6. \A r \in DOMAIN pledge_reminders' : pledge_reminders'[r].pledge_id \in DOMAIN pledges'
    BY <1>1, <1>3 DEF PledgesInv, PledgeRefs, RemindersOf
  <1>7. \A r \in DOMAIN pledge_reminders' : pledge_reminders'[r].pledge_payment_id \in DOMAIN pledge_payments' \cup {NULL}
    BY <1>2, <1>3, <1>4 DEF PledgesInv, PledgeRefs
  <1>8. IsTable(pledge_blocks', BlockIds, PledgeBlock)
    BY DEF PledgesInv, ScheduleTyped
  <1> QED
    BY <1>1, <1>2, <1>3, <1>5, <1>6, <1>7, <1>8 DEF ScheduleTyped

LEMMA DeletePledgeKeeps ==
  ASSUME PledgesInv, NEW p \in PledgeIds, DeletePledge(p)
  PROVE  PledgesInv'
  <1>1. DeletePledges({p}, {}) /\ UNCHANGED <<contacts, campaigns, pledge_blocks, groupTables, editing>>
    BY DEF DeletePledge, campaignTables
  <1>2. UNCHANGED <<contacts, campaigns, pledge_blocks, pledge_groups, pledge_group_members, editing>>
    BY <1>1 DEF groupTables
  <1>3. \A m \in DOMAIN pledge_group_members : pledge_group_members[m].pledge_id # p
    BY <1>1 DEF DeletePledges
  <1>4. /\ ScheduleTyped'
        /\ DOMAIN pledges' = DOMAIN pledges \ {p}
        /\ \A q \in DOMAIN pledges' : pledges'[q] = pledges[q]
        /\ \A i \in DOMAIN pledge_payments' : pledge_payments'[i].pledge_id \in DOMAIN pledges'
        /\ \A r \in DOMAIN pledge_reminders' :
             /\ pledge_reminders'[r].pledge_id \in DOMAIN pledges'
             /\ pledge_reminders'[r].pledge_payment_id \in DOMAIN pledge_payments' \cup {NULL}
    BY <1>1, <1>2, DeletePledgesLeaves
  <1>5. PledgeRefs'
    BY <1>2, <1>3, <1>4 DEF PledgeRefs, PledgesInv
  <1> QED
    BY <1>2, <1>4, <1>5, EditingKept DEF PledgesInv, MembersTyped

LEMMA DeleteContactKeeps ==
  ASSUME PledgesInv, NEW c \in ContactIds, DeletePledgingContact(c)
  PROVE  PledgesInv'
  <1> DEFINE P == {p \in DOMAIN pledges : pledges[p].contact_id = c}
  <1>1. DeletePledges(P, MembersOf({c})) /\ UNCHANGED <<campaigns, pledge_blocks, pledge_groups, editing>>
    BY DEF DeletePledgingContact, DeleteSupporter
  <1>2. DOMAIN contacts' = DOMAIN contacts \ {c}
    BY DEF DeletePledgingContact, DeleteSupporter, DeleteContact, Without
  <1>3. /\ MembersTyped'
        /\ DOMAIN pledge_group_members' = DOMAIN pledge_group_members \ MembersOf({c})
        /\ \A m \in DOMAIN pledge_group_members' : pledge_group_members'[m] = pledge_group_members[m]
    BY DEF DeletePledgingContact, PledgesInv, MembersTyped, IsTable, Without
  <1>4. \A m \in DOMAIN pledge_group_members' : /\ pledge_group_members[m].pledge_id \notin P
                                                /\ pledge_group_members[m].contact_id # c
    BY <1>1, <1>3 DEF DeletePledges, MembersOf
  <1>5. /\ ScheduleTyped'
        /\ DOMAIN pledges' = DOMAIN pledges \ P
        /\ \A q \in DOMAIN pledges' : pledges'[q] = pledges[q]
        /\ \A i \in DOMAIN pledge_payments' : pledge_payments'[i].pledge_id \in DOMAIN pledges'
        /\ \A r \in DOMAIN pledge_reminders' :
             /\ pledge_reminders'[r].pledge_id \in DOMAIN pledges'
             /\ pledge_reminders'[r].pledge_payment_id \in DOMAIN pledge_payments' \cup {NULL}
    BY <1>1, DeletePledgesLeaves
  <1>6. \A q \in DOMAIN pledges' : pledges'[q].contact_id \in DOMAIN contacts'
    BY <1>2, <1>5 DEF PledgeRefs, PledgesInv
  <1> HIDE DEF P
  <1>7. PledgeRefs'
    <2>1. \A m \in DOMAIN pledge_group_members' :
            /\ m \in DOMAIN pledge_group_members
            /\ pledge_group_members'[m] = pledge_group_members[m]
            /\ pledge_group_members[m].contact_id \in DOMAIN contacts \ {c}
            /\ pledge_group_members[m].pledge_id \in (DOMAIN pledges \ P) \cup {NULL}
      BY <1>3, <1>4 DEF PledgeRefs, PledgesInv
    <2>2. \A m \in DOMAIN pledge_group_members' :
            /\ pledge_group_members'[m].pledge_group_id \in DOMAIN pledge_groups'
            /\ pledge_group_members'[m].contact_id \in DOMAIN contacts'
            /\ pledge_group_members'[m].pledge_id \in DOMAIN pledges' \cup {NULL}
      BY <1>1, <1>2, <1>5, <2>1 DEF PledgeRefs, PledgesInv
    <2>3. \A m, n \in DOMAIN pledge_group_members' : m # n =>
            \/ pledge_group_members'[n].pledge_group_id # pledge_group_members'[m].pledge_group_id
            \/ pledge_group_members'[n].contact_id # pledge_group_members'[m].contact_id
      BY <2>1 DEF PledgeRefs, PledgesInv
    <2>4. /\ \A q \in DOMAIN pledges' : /\ pledges'[q].pledge_block_id \in DOMAIN pledge_blocks' \cup {NULL}
                                        /\ pledges'[q].campaign_id \in DOMAIN campaigns' \cup {NULL}
          /\ \A b \in DOMAIN pledge_blocks' : pledge_blocks'[b].campaign_id \in DOMAIN campaigns' \cup {NULL}
      BY <1>1, <1>5 DEF PledgeRefs, PledgesInv
    <2> QED BY <1>5, <1>6, <2>2, <2>3, <2>4 DEF PledgeRefs
  <1> QED
    BY <1>1, <1>3, <1>5, <1>7, EditingKept DEF PledgesInv

LEMMA CreatePledgeKeeps ==
  ASSUME PledgesInv, NEW p \in PledgeIds, NEW row \in Pledge, CreatePledge(p, row)
  PROVE  PledgesInv'
  <1>1. UNCHANGED <<contacts, campaigns, pledge_blocks, pledge_payments, pledge_reminders, pledge_groups, pledge_group_members, editing>>
    BY DEF CreatePledge, groupTables, campaignTables
  <1>2. /\ row.contact_id \in DOMAIN contacts /\ row.pledge_block_id \in DOMAIN pledge_blocks \cup {NULL}
        /\ row.campaign_id \in DOMAIN campaigns \cup {NULL}
    BY DEF CreatePledge
  <1>3. /\ ScheduleTyped'
        /\ DOMAIN pledges' = DOMAIN pledges \cup {p}
        /\ pledges'[p] = row /\ \A q \in DOMAIN pledges : pledges'[q] = pledges[q]
    BY <1>1 DEF CreatePledge, PledgesInv, ScheduleTyped, IsTable, Insert
  <1>4. PledgeRefs'
    BY <1>1, <1>2, <1>3 DEF PledgeRefs, PledgesInv
  <1> QED
    BY <1>1, <1>3, <1>4, EditingKept DEF PledgesInv, MembersTyped

(* The row that the model writes for a pledge is one of the table. *)
LEMMA SomePledgeTyped ==
  ASSUME NEW c \in ContactIds, NEW k \in CampaignIds \cup {NULL}, NEW b \in BlockIds \cup {NULL}, NEW st \in PledgeStatuses \cup {NULL}
  PROVE  SomePledge(c, k, b, st) \in Pledge
  BY DEF SomePledge, Pledge

LEMMA UpdatePledgeKeeps ==
  ASSUME PledgesInv, NEW p \in PledgeIds, NEW st \in PledgeStatuses \cup {NULL}, UpdatePledge(p, st)
  PROVE  PledgesInv'
  <1>1. UNCHANGED <<contacts, campaigns, pledge_blocks, pledge_payments, pledge_reminders, pledge_groups, pledge_group_members, editing>>
    BY DEF UpdatePledge, groupTables, campaignTables
  <1>2. /\ ScheduleTyped'
        /\ DOMAIN pledges' = DOMAIN pledges
        /\ \A q \in DOMAIN pledges : /\ pledges'[q].contact_id = pledges[q].contact_id
                                     /\ pledges'[q].campaign_id = pledges[q].campaign_id
                                     /\ pledges'[q].pledge_block_id = pledges[q].pledge_block_id
    BY <1>1 DEF UpdatePledge, PledgesInv, ScheduleTyped, IsTable, Pledge
  <1>3. PledgeRefs'
    BY <1>1, <1>2 DEF PledgeRefs, PledgesInv
  <1> QED
    BY <1>1, <1>2, <1>3, EditingKept DEF PledgesInv, MembersTyped

LEMMA BlockKeeps ==
  ASSUME PledgesInv, NEW b \in BlockIds, NEW row \in PledgeBlock,
         CreatePledgeBlock(b, row) \/ UpdatePledgeBlock(b, row) \/ DeletePledgeBlock(b)
  PROVE  PledgesInv'
  <1>1. UNCHANGED <<contacts, campaigns, pledges, pledge_payments, pledge_reminders, pledge_groups, pledge_group_members, editing>>
    BY DEF CreatePledgeBlock, UpdatePledgeBlock, DeletePledgeBlock, groupTables, campaignTables
  <1>2. /\ IsTable(pledge_blocks', BlockIds, PledgeBlock)
        /\ \A p \in DOMAIN pledges : pledges[p].pledge_block_id \in DOMAIN pledge_blocks' \cup {NULL}
        /\ \A a \in DOMAIN pledge_blocks' : pledge_blocks'[a].campaign_id \in DOMAIN campaigns \cup {NULL}
    <2>1. CASE CreatePledgeBlock(b, row)
      BY <2>1 DEF CreatePledgeBlock, PledgesInv, ScheduleTyped, IsTable, Insert, PledgeRefs
    <2>2. CASE UpdatePledgeBlock(b, row)
      BY <2>2 DEF UpdatePledgeBlock, PledgesInv, ScheduleTyped, IsTable, PledgeRefs
    <2>3. CASE DeletePledgeBlock(b)
      BY <2>3 DEF DeletePledgeBlock, PledgesInv, ScheduleTyped, IsTable, Without, PledgeRefs
    <2> QED BY <2>1, <2>2, <2>3
  <1>3. ScheduleTyped' /\ MembersTyped'
    BY <1>1, <1>2 DEF PledgesInv, ScheduleTyped, MembersTyped
  <1>4. PledgeRefs'
    BY <1>1, <1>2 DEF PledgeRefs, PledgesInv
  <1> QED
    BY <1>1, <1>3, <1>4, EditingKept DEF PledgesInv

(* A campaign that pledges and blocks are made for cannot be deleted. *)
LEMMA CampaignKeepsPledges ==
  ASSUME PledgesInv, NEW k \in CampaignIds, CreatePledgedCampaign(k) \/ DeletePledgedCampaign(k)
  PROVE  PledgesInv'
  <1>1. /\ UNCHANGED <<contacts, pledges, pledge_blocks, pledge_payments, pledge_reminders>>
        /\ UNCHANGED <<pledge_groups, pledge_group_members, editing>>
    BY DEF CreatePledgedCampaign, CreateCampaign, DeletePledgedCampaign, DeleteCampaign, pledgeTables, groupTables
  <1>2. /\ \A p \in DOMAIN pledges : pledges[p].campaign_id \in DOMAIN campaigns' \cup {NULL}
        /\ \A b \in DOMAIN pledge_blocks : pledge_blocks[b].campaign_id \in DOMAIN campaigns' \cup {NULL}
        /\ DOMAIN campaigns' \subseteq CampaignIds
    <2>1. CASE CreatePledgedCampaign(k)
      <3>1. DOMAIN campaigns' = DOMAIN campaigns \cup {k}
        BY <2>1 DEF CreatePledgedCampaign, CreateCampaign, Insert
      <3> QED BY <3>1 DEF PledgesInv, PledgeRefs
    <2>2. CASE DeletePledgedCampaign(k)
      <3>1. DOMAIN campaigns' = DOMAIN campaigns \ {k}
        BY <2>2 DEF DeletePledgedCampaign, DeleteCampaign, Without
      <3>2. /\ \A p \in DOMAIN pledges : pledges[p].campaign_id # k
            /\ \A b \in DOMAIN pledge_blocks : pledge_blocks[b].campaign_id # k
        BY <2>2 DEF DeletePledgedCampaign
      <3> QED BY <3>1, <3>2 DEF PledgesInv, PledgeRefs
    <2> QED BY <2>1, <2>2
  <1>3. PledgeRefs'
    BY <1>1, <1>2 DEF PledgeRefs, PledgesInv
  <1> QED
    BY <1>1, <1>2, <1>3, EditingKept DEF PledgesInv, ScheduleTyped, MembersTyped

LEMMA PaymentKeeps ==
  ASSUME PledgesInv, NEW i \in PaymentIds, NEW row \in PledgePayment,
         NEW p \in PledgeIds, NEW d \in Days, NEW st \in DueStatuses \cup {NULL},
         CreatePledgePayment(i, row) \/ UpdatePledgePayment(p, d, st) \/ DeletePledgePayment(i)
  PROVE  PledgesInv'
  <1>1. UNCHANGED <<contacts, campaigns, pledges, pledge_blocks, pledge_reminders, pledge_groups, pledge_group_members, editing>>
    BY DEF CreatePledgePayment, UpdatePledgePayment, DeletePledgePayment, groupTables, campaignTables
  <1>2. /\ IsTable(pledge_payments', PaymentIds, PledgePayment)
        /\ \A j \in DOMAIN pledge_payments' : pledge_payments'[j].pledge_id \in DOMAIN pledges
        /\ \A r \in DOMAIN pledge_reminders : pledge_reminders[r].pledge_payment_id \in DOMAIN pledge_payments' \cup {NULL}
    <2>1. CASE CreatePledgePayment(i, row)
      BY <2>1 DEF CreatePledgePayment, PledgesInv, ScheduleTyped, IsTable, Insert, PledgeRefs
    <2>2. CASE UpdatePledgePayment(p, d, st)
      <3>1. \A j \in DOMAIN pledge_payments :
              /\ [pledge_payments[j] EXCEPT !.status = st] \in PledgePayment
              /\ [pledge_payments[j] EXCEPT !.status = st].pledge_id = pledge_payments[j].pledge_id
        BY DEF PledgesInv, ScheduleTyped, IsTable, PledgePayment
      <3>2. /\ IsTable(pledge_payments', PaymentIds, PledgePayment)
            /\ DOMAIN pledge_payments' = DOMAIN pledge_payments
            /\ \A j \in DOMAIN pledge_payments : pledge_payments'[j].pledge_id = pledge_payments[j].pledge_id
        BY <2>2, <3>1 DEF UpdatePledgePayment, PledgesInv, ScheduleTyped, IsTable
      <3> QED BY <3>2 DEF PledgesInv, PledgeRefs
    <2>3. CASE DeletePledgePayment(i)
      BY <2>3 DEF DeletePledgePayment, PledgesInv, ScheduleTyped, IsTable, Without, PledgeRefs
    <2> QED BY <2>1, <2>2, <2>3
  <1>3. ScheduleTyped' /\ MembersTyped'
    BY <1>1, <1>2 DEF PledgesInv, ScheduleTyped, MembersTyped
  <1>4. PledgeRefs'
    BY <1>1, <1>2 DEF PledgeRefs, PledgesInv
  <1> QED
    BY <1>1, <1>3, <1>4, EditingKept DEF PledgesInv

LEMMA CreateReminderKeeps ==
  ASSUME PledgesInv, NEW r \in ReminderIds, NEW p \in PledgeIds, NEW i \in PaymentIds \cup {NULL}, NEW d \in Days,
         CreatePledgeReminder(r, p, i, d)
  PROVE  PledgesInv'
  <1>1. UNCHANGED <<contacts, campaigns, pledges, pledge_blocks, pledge_payments, pledge_groups, pledge_group_members, editing>>
    BY DEF CreatePledgeReminder, groupTables, campaignTables
  <1>2. PICK row \in PledgeReminder :
          row = [pledge_id |-> p, pledge_payment_id |-> i, scheduled_date |-> d, status |-> "Scheduled"]
    BY PledgesAssumption DEF PledgeReminder
  <1>3. row.pledge_id \in DOMAIN pledges /\ row.pledge_payment_id \in DOMAIN pledge_payments \cup {NULL}
    BY <1>2 DEF CreatePledgeReminder
  <1>4. /\ IsTable(pledge_reminders', ReminderIds, PledgeReminder)
        /\ DOMAIN pledge_reminders' = DOMAIN pledge_reminders \cup {r}
        /\ pledge_reminders'[r] = row
        /\ \A q \in DOMAIN pledge_reminders : pledge_reminders'[q] = pledge_reminders[q]
    BY <1>2 DEF CreatePledgeReminder, PledgesInv, ScheduleTyped, IsTable, Insert
  <1>5. PledgeRefs'
    BY <1>1, <1>3, <1>4 DEF PledgeRefs, PledgesInv
  <1> QED
    BY <1>1, <1>4, <1>5, EditingKept DEF PledgesInv, ScheduleTyped, MembersTyped

LEMMA ReminderKeeps ==
  ASSUME PledgesInv, NEW r \in ReminderIds, NEW st \in DueStatuses \cup {NULL},
         UpdateReminderStatus(r, st) \/ DeletePledgeReminder(r)
  PROVE  PledgesInv'
  <1>1. UNCHANGED <<contacts, campaigns, pledges, pledge_blocks, pledge_payments, pledge_groups, pledge_group_members, editing>>
    BY DEF UpdateReminderStatus, DeletePledgeReminder, groupTables, campaignTables
  <1>2. /\ IsTable(pledge_reminders', ReminderIds, PledgeReminder)
        /\ DOMAIN pledge_reminders' \subseteq DOMAIN pledge_reminders
        /\ \A q \in DOMAIN pledge_reminders' :
             /\ pledge_reminders'[q].pledge_id = pledge_reminders[q].pledge_id
             /\ pledge_reminders'[q].pledge_payment_id = pledge_reminders[q].pledge_payment_id
    <2>1. CASE UpdateReminderStatus(r, st)
      BY <2>1 DEF UpdateReminderStatus, PledgesInv, ScheduleTyped, IsTable, PledgeReminder
    <2>2. CASE DeletePledgeReminder(r)
      BY <2>2 DEF DeletePledgeReminder, PledgesInv, ScheduleTyped, IsTable, Without
    <2> QED BY <2>1, <2>2
  <1>3. PledgeRefs'
    BY <1>1, <1>2 DEF PledgeRefs, PledgesInv
  <1> QED
    BY <1>1, <1>2, <1>3, EditingKept DEF PledgesInv, ScheduleTyped, MembersTyped

-----------------------------------------------------------------------------
(* Groups and what their editors know. *)

(* Steps that touch no schedule and leave the groups that are there. *)
LEMMA OnlyGroups ==
  ASSUME PledgesInv, UNCHANGED <<contacts, campaignTables, pledgeTables, pledge_group_members>>,
         DOMAIN pledge_groups \subseteq DOMAIN pledge_groups'
  PROVE  ScheduleTyped' /\ MembersTyped' /\ PledgeRefs' /\ DOMAIN campaigns' \subseteq CampaignIds
  <1>1. UNCHANGED <<contacts, campaigns, pledges, pledge_blocks, pledge_payments, pledge_reminders, pledge_group_members>>
    BY DEF pledgeTables, campaignTables
  <1>2. ScheduleTyped' /\ MembersTyped'
    BY <1>1 DEF PledgesInv, ScheduleTyped, MembersTyped
  <1>3. PledgeRefs'
    BY <1>1 DEF PledgesInv, PledgeRefs
  <1> QED BY <1>1, <1>2, <1>3 DEF PledgesInv

LEMMA CreateGroupKeeps ==
  ASSUME PledgesInv, NEW g \in PledgeGroupIds, NEW row \in PledgeGroup, CreatePledgeGroup(g, row)
  PROVE  PledgesInv'
  <1>1. PICK a \in 0..MaxAmount : a = row.current_amount
    BY DEF PledgeGroup
  <1>2. /\ IsTable(pledge_groups', PledgeGroupIds, PledgeGroup)
        /\ DOMAIN pledge_groups' = DOMAIN pledge_groups \cup {g}
        /\ pledge_groups'[g].current_amount = a
        /\ \A h \in DOMAIN pledge_groups : h # g /\ pledge_groups'[h] = pledge_groups[h]
    BY <1>1 DEF CreatePledgeGroup, PledgesInv, EditingInv, EditingTyped, IsTable, Insert
  <1>3. Unread \in GroupRead /\ 0 \in 0..MaxAmount /\ Unread.reading = FALSE
    BY UnreadTyped
  <1>4. /\ groupView' \in [Editors -> [PledgeGroupIds -> GroupRead]]
        /\ \A e \in Editors : /\ groupView'[e][g] = Unread
                              /\ \A h \in PledgeGroupIds \ {g} : groupView'[e][h] = groupView[e][h]
    BY <1>3 DEF CreatePledgeGroup, PledgesInv, EditingInv, EditingTyped
  <1>5. /\ contributed' \in [PledgeGroupIds -> 0..MaxAmount] /\ contributed'[g] = a
        /\ \A h \in PledgeGroupIds \ {g} : contributed'[h] = contributed[h]
        /\ overlapped' = overlapped /\ overlapped' \in BOOLEAN
    BY <1>1, <1>3 DEF CreatePledgeGroup, PledgesInv, EditingInv, EditingTyped
  <1>6. DOMAIN pledge_groups \subseteq PledgeGroupIds \ {g}
    BY <1>2 DEF PledgesInv, EditingInv, EditingTyped, IsTable
  <1>7. LoneEditorExact'
    BY <1>2, <1>5, <1>6 DEF LoneEditorExact, PledgesInv, EditingInv
  <1>8. ViewsCurrent'
    BY <1>2, <1>3, <1>4, <1>5, <1>6 DEF ViewsCurrent, PledgesInv, EditingInv
  <1>9. ScheduleTyped' /\ MembersTyped' /\ PledgeRefs' /\ DOMAIN campaigns' \subseteq CampaignIds
    BY <1>2, OnlyGroups DEF CreatePledgeGroup
  <1> QED
    BY <1>2, <1>4, <1>5, <1>7, <1>8, <1>9 DEF PledgesInv, EditingInv, EditingTyped

LEMMA ReadGroupKeeps ==
  ASSUME PledgesInv, NEW e \in Editors, NEW g \in PledgeGroupIds, GetPledgeGroup(e, g)
  PROVE  PledgesInv'
  <1>1. PICK row \in GroupRead : row = [amount |-> pledge_groups[g].current_amount, reading |-> TRUE, stale |-> FALSE]
    BY DEF GetPledgeGroup, PledgesInv, EditingInv, EditingTyped, IsTable, PledgeGroup, GroupRead
  <1>2. row.amount = pledge_groups[g].current_amount
    BY <1>1
  <1>3. groupView' = [groupView EXCEPT ![e][g] = row]
    BY <1>1 DEF GetPledgeGroup
  <1>4. /\ groupView' \in [Editors -> [PledgeGroupIds -> GroupRead]]
        /\ groupView'[e][g] = row
        /\ \A f \in Editors, h \in PledgeGroupIds : <<f, h>> # <<e, g>> => groupView'[f][h] = groupView[f][h]
    BY <1>3 DEF PledgesInv, EditingInv, EditingTyped
  <1>5. UNCHANGED <<contacts, campaignTables, pledgeTables, pledge_groups, pledge_group_members, contributed, overlapped>>
    BY DEF GetPledgeGroup, groupTables
  <1>6. DOMAIN pledge_groups \subseteq PledgeGroupIds
    BY DEF PledgesInv, EditingInv, EditingTyped, IsTable
  <1>7. ViewsCurrent'
    BY <1>2, <1>4, <1>5, <1>6 DEF ViewsCurrent, PledgesInv, EditingInv
  <1>8. LoneEditorExact'
    BY <1>5 DEF LoneEditorExact, PledgesInv, EditingInv
  <1>9. ScheduleTyped' /\ MembersTyped' /\ PledgeRefs' /\ DOMAIN campaigns' \subseteq CampaignIds
    BY <1>5, OnlyGroups
  <1> QED
    BY <1>4, <1>5, <1>7, <1>8, <1>9 DEF PledgesInv, EditingInv, EditingTyped

(* What a write of the total a leaves: the writer knows nothing, and whoever   *)
(* had read the group is out of date.                                          *)
LEMMA WriteKeeps ==
  ASSUME PledgesInv, NEW e \in Editors, NEW g \in PledgeGroupIds, NEW add \in Nat, WriteGroup(e, g, add),
         NEW act \in Flag, pledge_groups' = [pledge_groups EXCEPT ![g] =
                                               [current_amount |-> groupView[e][g].amount + add, is_active |-> act]]
  PROVE  PledgesInv'
  <1>1. /\ g \in DOMAIN pledge_groups /\ groupView[e][g].reading
        /\ groupView[e][g].amount + add <= MaxAmount /\ contributed[g] + add <= MaxAmount
        /\ groupView[e][g] \in GroupRead /\ contributed[g] \in 0..MaxAmount /\ MaxAmount \in Nat
    BY PledgesAssumption DEF WriteGroup, PledgesInv, EditingInv, EditingTyped
  <1>2. groupView[e][g].amount \in 0..MaxAmount
    BY <1>1 DEF GroupRead
  <1>3. groupView[e][g].amount + add \in 0..MaxAmount /\ contributed[g] + add \in 0..MaxAmount
    BY <1>1, <1>2
  <1>4. PICK row \in PledgeGroup : row = [current_amount |-> groupView[e][g].amount + add, is_active |-> act]
    BY <1>3 DEF PledgeGroup
  <1>5. /\ IsTable(pledge_groups', PledgeGroupIds, PledgeGroup)
        /\ DOMAIN pledge_groups' = DOMAIN pledge_groups
        /\ pledge_groups'[g].current_amount = groupView[e][g].amount + add
        /\ \A h \in DOMAIN pledge_groups \ {g} : pledge_groups'[h] = pledge_groups[h]
    BY <1>1, <1>4 DEF PledgesInv, EditingInv, EditingTyped, IsTable
  <1>6. \A f \in Editors : [groupView[f][g] EXCEPT !.stale = groupView[f][g].reading] \in GroupRead
    BY DEF PledgesInv, EditingInv, EditingTyped, GroupRead
  <1>7. /\ groupView' \in [Editors -> [PledgeGroupIds -> GroupRead]]
        /\ groupView'[e][g] = Unread
        /\ \A f \in Editors \ {e} : groupView'[f][g] = [groupView[f][g] EXCEPT !.stale = groupView[f][g].reading]
        /\ \A f \in Editors, h \in PledgeGroupIds \ {g} : groupView'[f][h] = groupView[f][h]
    BY <1>6, UnreadTyped DEF WriteGroup, PledgesInv, EditingInv, EditingTyped
  <1>8. \A f \in Editors : ~ (groupView'[f][g].reading /\ ~ groupView'[f][g].stale)
    <2>1. \A f \in Editors \ {e} : groupView'[f][g].reading => groupView'[f][g].stale
      <3> TAKE f \in Editors \ {e}
      <3>1. groupView[f][g] \in GroupRead
        BY DEF PledgesInv, EditingInv, EditingTyped
      <3>2. /\ groupView'[f][g].reading = groupView[f][g].reading
            /\ groupView'[f][g].stale = groupView[f][g].reading
        BY <1>7, <3>1 DEF GroupRead
      <3> QED BY <3>2
    <2> QED BY <1>7, <2>1, UnreadTyped
  <1>9. /\ contributed' \in [PledgeGroupIds -> 0..MaxAmount] /\ contributed'[g] = contributed[g] + add
        /\ \A h \in PledgeGroupIds \ {g} : contributed'[h] = contributed[h]
    BY <1>3 DEF WriteGroup, PledgesInv, EditingInv, EditingTyped
  <1>10. /\ overlapped' \in BOOLEAN /\ (overlapped => overlapped')
         /\ ~ overlapped' => ~ overlapped /\ ~ groupView[e][g].stale
    BY <1>1, Zenon DEF WriteGroup, PledgesInv, EditingInv, EditingTyped
  <1>11. DOMAIN pledge_groups \subseteq PledgeGroupIds
    BY DEF PledgesInv, EditingInv, EditingTyped, IsTable
  <1>12. LoneEditorExact'
    <2> SUFFICES ASSUME ~ overlapped', NEW h \in DOMAIN pledge_groups'
                 PROVE  pledge_groups'[h].current_amount = contributed'[h]
      BY DEF LoneEditorExact
    <2>1. ~ overlapped /\ ~ groupView[e][g].stale
      BY <1>10
    <2>2. \A k \in DOMAIN pledge_groups : pledge_groups[k].current_amount = contributed[k]
      BY <2>1 DEF LoneEditorExact, PledgesInv, EditingInv
    <2>3. groupView[e][g].amount = pledge_groups[g].current_amount
      BY <1>1, <2>1 DEF ViewsCurrent, PledgesInv, EditingInv
    <2>4. CASE h = g
      BY <1>1, <1>5, <1>9, <2>2, <2>3, <2>4
    <2>5. CASE h # g
      BY <1>5, <1>9, <1>11, <2>2, <2>5
    <2> QED BY <2>4, <2>5
  <1>13. ViewsCurrent'
    BY <1>5, <1>7, <1>8, <1>10, <1>11 DEF ViewsCurrent, PledgesInv, EditingInv
  <1>14. ScheduleTyped' /\ MembersTyped' /\ PledgeRefs' /\ DOMAIN campaigns' \subseteq CampaignIds
    BY <1>5, OnlyGroups DEF WriteGroup
  <1> QED
    BY <1>5, <1>7, <1>9, <1>10, <1>12, <1>13, <1>14 DEF PledgesInv, EditingInv, EditingTyped

LEMMA DeleteGroupKeeps ==
  ASSUME PledgesInv, NEW g \in PledgeGroupIds, DeletePledgeGroup(g)
  PROVE  PledgesInv'
  <1>1. UNCHANGED <<contacts, campaigns, pledges, pledge_blocks, pledge_payments, pledge_reminders, groupView, contributed, overlapped>>
    BY DEF DeletePledgeGroup, pledgeTables, editing, campaignTables
  <1>2. /\ IsTable(pledge_groups', PledgeGroupIds, PledgeGroup)
        /\ DOMAIN pledge_groups' = DOMAIN pledge_groups \ {g}
        /\ \A h \in DOMAIN pledge_groups' : pledge_groups'[h] = pledge_groups[h]
    BY DEF DeletePledgeGroup, PledgesInv, EditingInv, EditingTyped, IsTable, Without
  <1>3. /\ MembersTyped'
        /\ DOMAIN pledge_group_members' \subseteq DOMAIN pledge_group_members
        /\ \A m \in DOMAIN pledge_group_members' : /\ pledge_group_members'[m] = pledge_group_members[m]
                                                   /\ pledge_group_members[m].pledge_group_id # g
    BY DEF DeletePledgeGroup, PledgesInv, MembersTyped, IsTable, Without
  <1>4. PledgeRefs'
    BY <1>1, <1>2, <1>3 DEF PledgeRefs, PledgesInv
  <1>5. EditingInv'
    BY <1>1, <1>2 DEF PledgesInv, EditingInv, EditingTyped, LoneEditorExact, ViewsCurrent
  <1> QED
    BY <1>1, <1>3, <1>4, <1>5 DEF PledgesInv, ScheduleTyped

-----------------------------------------------------------------------------
(* Members of groups. *)

LEMMA CreateMemberKeeps ==
  ASSUME PledgesInv, NEW m \in MemberIds, NEW g \in PledgeGroupIds, NEW c \in ContactIds, NEW p \in PledgeIds \cup {NULL},
         CreatePledgeGroupMember(m, g, c, p)
  PROVE  PledgesInv'
  <1>1. UNCHANGED <<contacts, campaigns, pledges, pledge_blocks, pledge_payments, pledge_reminders, pledge_groups, editing>>
    BY DEF CreatePledgeGroupMember, pledgeTables, campaignTables
  <1>2. PICK row \in PledgeGroupMember :
          row = [pledge_group_id |-> g, contact_id |-> c, pledge_id |-> p, is_active |-> TRUE]
    BY DEF PledgeGroupMember, Flag
  <1>3. /\ row.pledge_group_id = g /\ row.contact_id = c /\ row.pledge_id = p
        /\ g \in DOMAIN pledge_groups /\ c \in DOMAIN contacts /\ p \in DOMAIN pledges \cup {NULL}
    BY <1>2 DEF CreatePledgeGroupMember
  <1>4. /\ IsTable(pledge_group_members', MemberIds, PledgeGroupMember)
        /\ DOMAIN pledge_group_members' = DOMAIN pledge_group_members \cup {m}
        /\ pledge_group_members'[m] = row
        /\ \A n \in DOMAIN pledge_group_members : pledge_group_members'[n] = pledge_group_members[n]
    BY <1>2 DEF CreatePledgeGroupMember, PledgesInv, MembersTyped, IsTable, Insert
  <1>5. \A n \in DOMAIN pledge_group_members :
          pledge_group_members[n].contact_id # c \/ pledge_group_members[n].pledge_group_id # g
    BY DEF CreatePledgeGroupMember, MembersOf
  <1>6. PledgeRefs'
    BY <1>1, <1>3, <1>4, <1>5 DEF PledgeRefs, PledgesInv
  <1> QED
    BY <1>1, <1>4, <1>6, EditingKept DEF PledgesInv, ScheduleTyped, MembersTyped

LEMMA MemberKeeps ==
  ASSUME PledgesInv, NEW m \in MemberIds, NEW g \in PledgeGroupIds, NEW c \in ContactIds, NEW act \in Flag,
         UpdatePledgeGroupMember(g, c, act) \/ DeletePledgeGroupMember(m)
  PROVE  PledgesInv'
  <1>1. UNCHANGED <<contacts, campaigns, pledges, pledge_blocks, pledge_payments, pledge_reminders, pledge_groups, editing>>
    BY DEF UpdatePledgeGroupMember, DeletePledgeGroupMember, pledgeTables, campaignTables
  <1>2. /\ IsTable(pledge_group_members', MemberIds, PledgeGroupMember)
        /\ DOMAIN pledge_group_members' \subseteq DOMAIN pledge_group_members
        /\ \A n \in DOMAIN pledge_group_members' :
             /\ pledge_group_members'[n].pledge_group_id = pledge_group_members[n].pledge_group_id
             /\ pledge_group_members'[n].contact_id = pledge_group_members[n].contact_id
             /\ pledge_group_members'[n].pledge_id = pledge_group_members[n].pledge_id
    <2>1. CASE UpdatePledgeGroupMember(g, c, act)
      <3>1. \A n \in DOMAIN pledge_group_members :
              LET row == [pledge_group_members[n] EXCEPT !.is_active = act]
              IN  /\ row \in PledgeGroupMember
                  /\ row.pledge_group_id = pledge_group_members[n].pledge_group_id
                  /\ row.contact_id = pledge_group_members[n].contact_id
                  /\ row.pledge_id = pledge_group_members[n].pledge_id
        BY DEF PledgesInv, MembersTyped, IsTable, PledgeGroupMember
      <3> QED
        BY <2>1, <3>1 DEF UpdatePledgeGroupMember, PledgesInv, MembersTyped, IsTable
    <2>2. CASE DeletePledgeGroupMember(m)
      BY <2>2 DEF DeletePledgeGroupMember, PledgesInv, MembersTyped, IsTable, Without
    <2> QED BY <2>1, <2>2
  <1>3. PledgeRefs'
    BY <1>1, <1>2 DEF PledgeRefs, PledgesInv
  <1> QED
    BY <1>1, <1>2, <1>3, EditingKept DEF PledgesInv, ScheduleTyped, MembersTyped

-----------------------------------------------------------------------------

LEMMA EditKeeps ==
  ASSUME PledgesInv, NEW e \in Editors, NEW g \in PledgeGroupIds,
         \/ GetPledgeGroup(e, g) \/ UpdatePledgeGroupAmount(e, g)
         \/ \E act \in Flag : UpdatePledgeGroup(e, g, act)
  PROVE  PledgesInv'
  <1>1. CASE GetPledgeGroup(e, g)
    BY <1>1, ReadGroupKeeps
  <1>2. CASE UpdatePledgeGroupAmount(e, g)
    <2>1. g \in DOMAIN pledge_groups /\ WriteGroup(e, g, 1)
      BY <1>2 DEF UpdatePledgeGroupAmount, WriteGroup
    <2>2. pledge_groups[g] \in PledgeGroup
      BY <2>1 DEF PledgesInv, EditingInv, EditingTyped, IsTable
    <2>3. PICK a : a = groupView[e][g].amount + 1
      OBVIOUS
    <2>4. [pledge_groups[g] EXCEPT !.current_amount = a] = [current_amount |-> a, is_active |-> pledge_groups[g].is_active]
      BY <2>2 DEF PledgeGroup
    <2>5. pledge_groups' = [pledge_groups EXCEPT ![g] = [current_amount |-> a, is_active |-> pledge_groups[g].is_active]]
      BY <1>2, <2>3, <2>4 DEF UpdatePledgeGroupAmount
    <2>6. pledge_groups[g].is_active \in Flag
      BY <2>2 DEF PledgeGroup
    <2> QED BY <2>1, <2>3, <2>5, <2>6, WriteKeeps
  <1>3. ASSUME NEW act \in Flag, UpdatePledgeGroup(e, g, act)
        PROVE  PledgesInv'
    <2>1. groupView[e][g].amount + 0 = groupView[e][g].amount
      <3>1. groupView[e][g] \in GroupRead /\ MaxAmount \in Nat
        BY PledgesAssumption DEF PledgesInv, EditingInv, EditingTyped
      <3>2. groupView[e][g].amount \in 0..MaxAmount
        BY <3>1 DEF GroupRead
      <3> QED BY <3>1, <3>2
    <2>2. /\ WriteGroup(e, g, 0)
          /\ pledge_groups' = [pledge_groups EXCEPT ![g] =
                                 [current_amount |-> groupView[e][g].amount + 0, is_active |-> act]]
      BY <1>3, <2>1 DEF UpdatePledgeGroup
    <2> QED BY <2>2, WriteKeeps
  <1> QED BY <1>1, <1>2, <1>3

LEMMA ScheduleKeeps == ASSUME PledgesInv, ScheduleNext PROVE PledgesInv'
  <1>1. ASSUME NEW c \in ContactIds, CreatePledgingContact(c) \/ DeletePledgingContact(c)
        PROVE  PledgesInv'
    BY <1>1, CreateContactKeeps, DeleteContactKeeps
  <1>2. ASSUME NEW p \in PledgeIds, DeletePledge(p)
        PROVE  PledgesInv'
    BY <1>2, DeletePledgeKeeps
  <1>3. ASSUME NEW p \in PledgeIds, NEW st \in PledgeStatuses \cup {NULL},
               \/ UpdatePledge(p, st) \/ UpdatePledgeStatus(p, st)
               \/ \E c \in ContactIds, b \in BlockIds \cup {NULL} : CreatePledge(p, SomePledge(c, NULL, b, st))
        PROVE  PledgesInv'
    BY <1>3, UpdatePledgeKeeps, CreatePledgeKeeps, SomePledgeTyped DEF UpdatePledgeStatus
  <1>4. ASSUME NEW b \in BlockIds,
               DeletePledgeBlock(b) \/ \E act \in Flags : LET row == [campaign_id |-> NULL, is_active |-> act]
                                                         IN  CreatePledgeBlock(b, row) \/ UpdatePledgeBlock(b, row)
        PROVE  PledgesInv'
    <2>1. \A act \in Flags : [campaign_id |-> NULL, is_active |-> act] \in PledgeBlock
      BY FlagsAreFlags DEF PledgeBlock
    <2>2. [campaign_id |-> NULL, is_active |-> TRUE] \in PledgeBlock
      BY DEF PledgeBlock, Flag
    <2> QED BY <1>4, <2>1, <2>2, BlockKeeps
  <1>5. ASSUME NEW p \in PledgeIds, NEW d \in Days, NEW st \in DueStatuses \cup {NULL},
               UpdatePledgePayment(p, d, st) \/ UpdatePledgePaymentStatus(p, d, st)
        PROVE  PledgesInv'
    <2>1. UpdatePledgePayment(p, d, st)
      BY <1>5 DEF UpdatePledgePaymentStatus
    <2>2. PICK i \in PaymentIds : pledge_payments[i] \in PledgePayment
      BY <2>1 DEF UpdatePledgePayment, PaymentsOf, PledgesInv, ScheduleTyped, IsTable
    <2> QED BY <2>1, <2>2, PaymentKeeps
  <1>6. ASSUME NEW i \in PaymentIds,
               DeletePledgePayment(i) \/ \E row \in PledgePayment : CreatePledgePayment(i, row)
        PROVE  PledgesInv'
    <2>1. CASE DeletePledgePayment(i)
      <3>1. pledge_payments[i] \in PledgePayment
        BY <2>1 DEF DeletePledgePayment, PledgesInv, ScheduleTyped, IsTable
      <3>2. pledge_payments[i].pledge_id \in PledgeIds /\ pledge_payments[i].scheduled_date \in Days
        BY <3>1 DEF PledgePayment
      <3> QED BY <2>1, <3>1, <3>2, PaymentKeeps
    <2>2. CASE \E row \in PledgePayment : CreatePledgePayment(i, row)
      <3>1. PICK row \in PledgePayment : CreatePledgePayment(i, row)
        BY <2>2
      <3>2. row.pledge_id \in PledgeIds /\ row.scheduled_date \in Days
        BY DEF PledgePayment
      <3> QED BY <3>1, <3>2, PaymentKeeps
    <2> QED BY <1>6, <2>1, <2>2
  <1>7. ASSUME NEW r \in ReminderIds,
               \/ DeletePledgeReminder(r)
               \/ \E st \in DueStatuses \cup {NULL} : UpdateReminderStatus(r, st)
               \/ \E p \in PledgeIds, i \in PaymentIds \cup {NULL}, d \in Days : CreatePledgeReminder(r, p, i, d)
        PROVE  PledgesInv'
    BY <1>7, CreateReminderKeeps, ReminderKeeps
  <1> QED
    BY <1>1, <1>2, <1>3, <1>4, <1>5, <1>6, <1>7 DEF ScheduleNext

LEMMA PledgedKeeps == ASSUME PledgesInv, PledgedNext PROVE PledgesInv'
  <1>1. ASSUME NEW c \in ContactIds, CreatePledgingContact(c) \/ DeletePledgingContact(c)
        PROVE  PledgesInv'
    BY <1>1, CreateContactKeeps, DeleteContactKeeps
  <1>2. ASSUME NEW k \in CampaignIds, CreatePledgedCampaign(k) \/ DeletePledgedCampaign(k)
        PROVE  PledgesInv'
    BY <1>2, CampaignKeepsPledges
  <1>3. ASSUME NEW p \in PledgeIds, NEW st \in PledgeStatuses \cup {NULL},
               \/ UpdatePledgeStatus(p, st)
               \/ \E c \in ContactIds, k \in CampaignIds \cup {NULL}, b \in BlockIds \cup {NULL} :
                    CreatePledge(p, SomePledge(c, k, b, st))
        PROVE  PledgesInv'
    BY <1>3, UpdatePledgeKeeps, CreatePledgeKeeps, SomePledgeTyped DEF UpdatePledgeStatus
  <1>4. ASSUME NEW b \in BlockIds, NEW row \in PledgeBlock, CreatePledgeBlock(b, row) \/ UpdatePledgeBlock(b, row)
        PROVE  PledgesInv'
    BY <1>4, BlockKeeps
  <1>5. ASSUME NEW b \in BlockIds, DeletePledgeBlock(b)
        PROVE  PledgesInv'
    <2>1. [campaign_id |-> NULL, is_active |-> TRUE] \in PledgeBlock
      BY DEF PledgeBlock, Flag
    <2> QED BY <1>5, <2>1, BlockKeeps
  <1>6. \A k \in CampaignIds \cup {NULL}, act \in Flags : [campaign_id |-> k, is_active |-> act] \in PledgeBlock
    BY FlagsAreFlags DEF PledgeBlock
  <1> QED
    BY <1>1, <1>2, <1>3, <1>4, <1>5, <1>6, DeletePledgeKeeps DEF PledgedNext

LEMMA GroupsKeep == ASSUME PledgesInv, PledgeGroupNext PROVE PledgesInv'
  <1>1. ASSUME NEW c \in ContactIds, CreatePledgingContact(c) \/ DeletePledgingContact(c)
        PROVE  PledgesInv'
    BY <1>1, CreateContactKeeps, DeleteContactKeeps
  <1>2. ASSUME NEW p \in PledgeIds,
               DeletePledge(p) \/ \E c \in ContactIds : CreatePledge(p, SomePledge(c, NULL, NULL, "In Progress"))
        PROVE  PledgesInv'
    BY <1>2, CreatePledgeKeeps, SomePledgeTyped, DeletePledgeKeeps, PledgesAssumption
  <1>3. ASSUME NEW g \in PledgeGroupIds, NEW row \in PledgeGroup, CreatePledgeGroup(g, row)
        PROVE  PledgesInv'
    BY <1>3, CreateGroupKeeps
  <1>4. ASSUME NEW g \in PledgeGroupIds, DeletePledgeGroup(g)
        PROVE  PledgesInv'
    BY <1>4, DeleteGroupKeeps
  <1>5. ASSUME NEW g \in PledgeGroupIds, NEW c \in ContactIds, NEW act \in Flag, UpdatePledgeGroupMember(g, c, act)
        PROVE  PledgesInv'
    <2>1. PICK m \in MemberIds : TRUE
      BY <1>5 DEF UpdatePledgeGroupMember, MembersOf, PledgesInv, MembersTyped, IsTable
    <2> QED BY <1>5, <2>1, MemberKeeps
  <1>6. ASSUME NEW m \in MemberIds, DeletePledgeGroupMember(m)
        PROVE  PledgesInv'
    <2>1. pledge_group_members[m] \in PledgeGroupMember
      BY <1>6 DEF DeletePledgeGroupMember, PledgesInv, MembersTyped, IsTable
    <2>2. pledge_group_members[m].pledge_group_id \in PledgeGroupIds /\ pledge_group_members[m].contact_id \in ContactIds
      BY <2>1 DEF PledgeGroupMember
    <2> QED BY <1>6, <2>2, MemberKeeps DEF Flag
  <1>7. ASSUME NEW m \in MemberIds, NEW g \in PledgeGroupIds, NEW c \in ContactIds, NEW p \in PledgeIds \cup {NULL},
               CreatePledgeGroupMember(m, g, c, p)
        PROVE  PledgesInv'
    BY <1>7, CreateMemberKeeps
  <1> QED
    BY <1>1, <1>2, <1>3, <1>4, <1>5, <1>6, <1>7, EditKeeps DEF PledgeGroupNext

LEMMA PledgesNextKeeps == PledgesInv /\ [PledgesNext]_pledgeVars => PledgesInv'
  <1>1. ASSUME PledgesInv, UNCHANGED pledgeVars PROVE PledgesInv'
    BY <1>1 DEF pledgeVars, campaignTables, pledgeTables, groupTables, editing, PledgesInv, ScheduleTyped, MembersTyped,
                PledgeRefs, EditingInv, EditingTyped, LoneEditorExact, ViewsCurrent
  <1> QED BY <1>1, ScheduleKeeps, PledgedKeeps, GroupsKeep DEF PledgesNext

(* The tables of 031_pledge_system.sql keep rows of their types, and what the  *)
(* editors of a group know stays within bounds (pledges.sql.go).               *)
THEOREM PledgesTypeCorrect == PledgesSpec => []PledgesTypeOK
  <1>1. PledgesInv => PledgesTypeOK
    BY TypedInParts DEF PledgesInv, EditingInv
  <1> QED BY <1>1, PledgesInitInv, PledgesNextKeeps, PTL DEF PledgesSpec

(* Whatever is created and deleted, the cascades and the refused deletions of  *)
(* 031_pledge_system.sql leave no row that refers to one that is gone, and no  *)
(* contact is twice in a group.                                                *)
THEOREM PledgeReferences == PledgesSpec => []PledgeRefs
  <1>1. PledgesInv => PledgeRefs
    BY DEF PledgesInv
  <1> QED BY <1>1, PledgesInitInv, PledgesNextKeeps, PTL DEF PledgesSpec

(* UpdatePledgeGroupAmount and UpdatePledgeGroup (pledges.sql.go) keep a       *)
(* group's total equal to what was contributed, for any number of editors, as  *)
(* long as none of them writes over what another wrote since it had read.      *)
THEOREM TotalsExact == PledgesSpec => []LoneEditorExact
  <1>1. PledgesInv => LoneEditorExact
    BY DEF PledgesInv, EditingInv
  <1> QED BY <1>1, PledgesInitInv, PledgesNextKeeps, PTL DEF PledgesSpec

(* The counts of a campaign by status are those of the pledges that are made for *)
(* it with one of the five statuses.                                             *)
LEMMA PledgesByStatus ==
  ASSUME PledgesInv, NEW k \in DOMAIN campaigns
  PROVE  LET n == CountPledgesByStatus(k)
             total == n["Pending"] + n["In Progress"] + n["Overdue"] + n["Completed"] + n["Cancelled"]
             P == {p \in DOMAIN pledges : pledges[p].campaign_id = k}
         IN  /\ \A st \in CountedStatuses : n[st] = Cardinality(ListPledgesByCampaign(k, st))
             /\ total <= Cardinality(P)
             /\ total = Cardinality(P) <=> \A p \in P : pledges[p].status \in CountedStatuses
  <1> DEFINE Of(st) == {p \in DOMAIN pledges : pledges[p].campaign_id = k /\ pledges[p].status = st}
             P == {p \in DOMAIN pledges : pledges[p].campaign_id = k}
             N == {p \in P : pledges[p].status \in CountedStatuses}
  <1>1. k # NULL /\ NULL \notin CountedStatuses
    BY CampaignsAssumption, PledgesAssumption DEF PledgesInv
  <1>2. \A st \in CountedStatuses : CountPledgesByStatus(k)[st] = Cardinality(Of(st))
    <2>1. \A st \in CountedStatuses :
            {p \in DOMAIN pledges : Eq(pledges[p].campaign_id, k) /\ pledges[p].status = st} = Of(st)
      BY <1>1 DEF Eq
    <2> HIDE DEF Of
    <2> QED BY <2>1 DEF CountPledgesByStatus
  <1>3. \A st \in CountedStatuses : ListPledgesByCampaign(k, st) = Of(st)
    BY <1>1 DEF ListPledgesByCampaign, Pledged, Eq, PledgesInv, PledgeRefs
  <1>4. IsFiniteSet(P) /\ \A st : IsFiniteSet(Of(st))
    <2>1. DOMAIN pledges \in SUBSET PledgeIds
      BY DEF PledgesInv, ScheduleTyped, IsTable
    <2>2. IsFiniteSet(DOMAIN pledges)
      BY <2>1, PledgesAssumption, FS_Subset
    <2> QED BY <2>2, FS_Subset
  <1>5. IsFiniteSet(N) /\ N \in SUBSET P
    BY <1>4, FS_Subset
  <1>6. Cardinality(N) <= Cardinality(P) /\ (Cardinality(N) = Cardinality(P) => N = P)
    <2> HIDE DEF N, P
    <2> QED BY <1>4, <1>5, FS_Subset
  <1>7. Cardinality(N) = Cardinality(Of("Pending")) + Cardinality(Of("In Progress")) + Cardinality(Of("Overdue"))
                         + Cardinality(Of("Completed")) + Cardinality(Of("Cancelled"))
    <2> DEFINE S2 == Of("Pending") \cup Of("In Progress")
               S3 == S2 \cup Of("Overdue")
               S4 == S3 \cup Of("Completed")
    <2>1. \A st, su : st # su => Of(st) \cap Of(su) = {}
      OBVIOUS
    <2>2. N = S4 \cup Of("Cancelled")
      BY DEF CountedStatuses
    <2> HIDE DEF N, Of
    <2>3. IsFiniteSet(S2) /\ Cardinality(S2) = Cardinality(Of("Pending")) + Cardinality(Of("In Progress"))
      BY <1>4, <2>1, DisjointCount
    <2>4. S2 \cap Of("Overdue") = {} /\ S3 \cap Of("Completed") = {} /\ S4 \cap Of("Cancelled") = {}
      <3>1. /\ Of("Pending") \cap Of("Overdue") = {} /\ Of("In Progress") \cap Of("Overdue") = {}
            /\ Of("Pending") \cap Of("Completed") = {} /\ Of("In Progress") \cap Of("Completed") = {}
            /\ Of("Overdue") \cap Of("Completed") = {}
            /\ Of("Pending") \cap Of("Cancelled") = {} /\ Of("In Progress") \cap Of("Cancelled") = {}
            /\ Of("Overdue") \cap Of("Cancelled") = {} /\ Of("Completed") \cap Of("Cancelled") = {}
        BY <2>1
      <3> QED BY <3>1
    <2> HIDE DEF S2
    <2>5. IsFiniteSet(S3) /\ Cardinality(S3) = Cardinality(S2) + Cardinality(Of("Overdue"))
      BY <1>4, <2>3, <2>4, DisjointCount
    <2> HIDE DEF S3
    <2>6. IsFiniteSet(S4) /\ Cardinality(S4) = Cardinality(S3) + Cardinality(Of("Completed"))
      BY <1>4, <2>4, <2>5, DisjointCount
    <2> HIDE DEF S4
    <2>7. Cardinality(N) = Cardinality(S4) + Cardinality(Of("Cancelled"))
      BY <1>4, <2>2, <2>4, <2>6, DisjointCount
    <2> QED BY <2>3, <2>5, <2>6, <2>7
  <1>8. {"Pending", "In Progress", "Overdue", "Completed", "Cancelled"} \subseteq CountedStatuses
    BY DEF CountedStatuses
  <1>9. CountPledgesByStatus(k)["Pending"] + CountPledgesByStatus(k)["In Progress"] + CountPledgesByStatus(k)["Overdue"]
          + CountPledgesByStatus(k)["Completed"] + CountPledgesByStatus(k)["Cancelled"] = Cardinality(N)
    <2> HIDE DEF N, Of
    <2> QED BY <1>2, <1>7, <1>8
  <1>10. N = P <=> \A p \in P : pledges[p].status \in CountedStatuses
    OBVIOUS
  <1>11. \A st \in CountedStatuses : CountPledgesByStatus(k)[st] = Cardinality(ListPledgesByCampaign(k, st))
    <2> HIDE DEF Of
    <2> QED BY <1>2, <1>3
  <1>12. Cardinality(N) = Cardinality(P) <=> \A p \in P : pledges[p].status \in CountedStatuses
    <2> HIDE DEF N
    <2> QED BY <1>6, <1>10
  <1> HIDE DEF N
  <1> QED BY <1>6, <1>9, <1>11, <1>12

(* What is listed by campaign, by block and by contact makes up what is listed *)
(* by status.                                                                  *)
LEMMA PledgesListed ==
  ASSUME PledgesInv, NEW st \in PledgeStatuses
  PROVE  /\ UNION {ListPledgesByCampaign(k, st) : k \in DOMAIN campaigns}
              = {p \in ListPledgesByStatus(st) : pledges[p].campaign_id # NULL}
         /\ UNION {ListPledgesByBlock(b, st) : b \in DOMAIN pledge_blocks}
              = {p \in ListPledgesByStatus(st) : pledges[p].pledge_block_id # NULL}
         /\ UNION {GetPledgeByContact(c, st) : c \in DOMAIN contacts} = ListPledgesByStatus(st)
  <1>1. NULL \notin DOMAIN campaigns /\ NULL \notin DOMAIN pledge_blocks
    BY CampaignsAssumption, PledgesAssumption DEF PledgesInv, ScheduleTyped, IsTable
  <1>2. \A p \in DOMAIN pledges : /\ pledges[p].contact_id \in DOMAIN contacts
                                  /\ pledges[p].campaign_id \in DOMAIN campaigns \cup {NULL}
                                  /\ pledges[p].pledge_block_id \in DOMAIN pledge_blocks \cup {NULL}
    BY DEF PledgesInv, PledgeRefs
  <1>3. \A p : p \in {q \in ListPledgesByStatus(st) : pledges[q].campaign_id # NULL}
               <=> \E k \in DOMAIN campaigns : p \in ListPledgesByCampaign(k, st)
    BY <1>1, <1>2 DEF ListPledgesByStatus, ListPledgesByCampaign, Pledged, Eq
  <1>4. \A p : p \in {q \in ListPledgesByStatus(st) : pledges[q].pledge_block_id # NULL}
               <=> \E b \in DOMAIN pledge_blocks : p \in ListPledgesByBlock(b, st)
    BY <1>1, <1>2 DEF ListPledgesByStatus, ListPledgesByBlock, Pledged, Eq
  <1>5. \A p : p \in ListPledgesByStatus(st) <=> \E c \in DOMAIN contacts : p \in GetPledgeByContact(c, st)
    BY <1>2 DEF ListPledgesByStatus, GetPledgeByContact, Pledged
  <1>6. UNION {ListPledgesByCampaign(k, st) : k \in DOMAIN campaigns}
          = {p \in ListPledgesByStatus(st) : pledges[p].campaign_id # NULL}
    BY <1>3
  <1>7. UNION {ListPledgesByBlock(b, st) : b \in DOMAIN pledge_blocks}
          = {p \in ListPledgesByStatus(st) : pledges[p].pledge_block_id # NULL}
    BY <1>4
  <1>8. UNION {GetPledgeByContact(c, st) : c \in DOMAIN contacts} = ListPledgesByStatus(st)
    BY <1>5
  <1> QED BY <1>6, <1>7, <1>8

(* The schedule: every payment is in its pledge's, and a reminder comes up on its day. *)
LEMMA ScheduleListed ==
  ASSUME PledgesInv
  PROVE  /\ UNION {GetPledgePaymentSchedule(p) : p \in DOMAIN pledges} = DOMAIN pledge_payments
         /\ \A p \in DOMAIN pledges : GetPledgePaymentSchedule(p) = ListPledgePayments(p)
         /\ \A d \in Days : \A o \in GetOverduePledges(d) :
              /\ o[1] \in ListPledgesByStatus("In Progress")
              /\ o[2] \in ListPledgePaymentsByStatus("Scheduled") \cap GetPledgePaymentSchedule(o[1])
         /\ UNION {ListScheduledReminders(d) : d \in Days} = UNION {ListPledgeReminders(p, "Scheduled") : p \in DOMAIN pledges}
         /\ \A d \in Days : \A r \in ListScheduledReminders(d) :
              r \in GetPledgeReminderQueue(d) <=>
                pledge_reminders[r].pledge_id \in ListPledgesByStatus("In Progress") \cup ListPledgesByStatus("Overdue")
  <1>1. Pledged(DOMAIN pledges) = DOMAIN pledges
    BY DEF Pledged, PledgesInv, PledgeRefs
  <1>2. /\ \A i \in DOMAIN pledge_payments : pledge_payments[i].pledge_id \in DOMAIN pledges
        /\ \A r \in DOMAIN pledge_reminders : /\ pledge_reminders[r].pledge_id \in DOMAIN pledges
                                              /\ pledge_reminders[r].scheduled_date \in Days
    BY DEF PledgesInv, PledgeRefs, ScheduleTyped, IsTable, PledgeReminder
  <1>3. "Scheduled" # NULL /\ "In Progress" # NULL /\ "Overdue" # NULL
    BY PledgesAssumption DEF CountedStatuses
  <1>4. \A i : i \in DOMAIN pledge_payments <=> \E p \in DOMAIN pledges : i \in GetPledgePaymentSchedule(p)
    BY <1>1, <1>2 DEF GetPledgePaymentSchedule
  <1>5. \A p \in DOMAIN pledges : GetPledgePaymentSchedule(p) = ListPledgePayments(p)
    BY <1>1 DEF GetPledgePaymentSchedule, ListPledgePayments
  <1>6. ASSUME NEW d \in Days, NEW o \in GetOverduePledges(d)
        PROVE  /\ o[1] \in ListPledgesByStatus("In Progress")
               /\ o[2] \in ListPledgePaymentsByStatus("Scheduled") \cap GetPledgePaymentSchedule(o[1])
    <2>1. /\ o[1] \in DOMAIN pledges /\ o[2] \in DOMAIN pledge_payments /\ pledge_payments[o[2]].pledge_id = o[1]
          /\ pledges[o[1]].status = "In Progress" /\ pledge_payments[o[2]].status = "Scheduled"
      BY <1>1 DEF GetOverduePledges
    <2>2. o[1] \in ListPledgesByStatus("In Progress")
      BY <1>1, <1>3, <2>1 DEF ListPledgesByStatus, Pledged, Eq
    <2>3. o[2] \in ListPledgePaymentsByStatus("Scheduled")
      BY <1>1, <1>3, <2>1 DEF ListPledgePaymentsByStatus, Eq
    <2>4. o[2] \in GetPledgePaymentSchedule(o[1])
      BY <1>1, <2>1 DEF GetPledgePaymentSchedule
    <2> QED BY <2>2, <2>3, <2>4
  <1>7. \A r : (\E d \in Days : r \in ListScheduledReminders(d))
               <=> \E p \in DOMAIN pledges : r \in ListPledgeReminders(p, "Scheduled")
    <2>1. ASSUME NEW d \in Days, NEW r \in ListScheduledReminders(d)
          PROVE  \E p \in DOMAIN pledges : r \in ListPledgeReminders(p, "Scheduled")
      BY <1>1, <1>3 DEF ListScheduledReminders, ListPledgeReminders, Eq
    <2>2. ASSUME NEW p \in DOMAIN pledges, NEW r \in ListPledgeReminders(p, "Scheduled")
          PROVE  \E d \in Days : r \in ListScheduledReminders(d)
      <3>1. /\ r \in DOMAIN pledge_reminders /\ pledge_reminders[r].status = "Scheduled"
            /\ pledge_reminders[r].pledge_id \in DOMAIN pledges
            /\ pledge_reminders[r].scheduled_date \in Days /\ pledge_reminders[r].scheduled_date \in Nat
        BY <1>2, PledgesAssumption DEF ListPledgeReminders, Eq
      <3>2. pledge_reminders[r].scheduled_date <= pledge_reminders[r].scheduled_date
        BY <3>1
      <3>3. r \in ListScheduledReminders(pledge_reminders[r].scheduled_date)
        BY <1>1, <3>1, <3>2 DEF ListScheduledReminders
      <3> QED BY <3>1, <3>3
    <2> QED BY <2>1, <2>2
  <1>8. ASSUME NEW d \in Days, NEW r \in ListScheduledReminders(d)
        PROVE  r \in GetPledgeReminderQueue(d) <=>
                 pledge_reminders[r].pledge_id \in ListPledgesByStatus("In Progress") \cup ListPledgesByStatus("Overdue")
    <2>1. /\ r \in DOMAIN pledge_reminders /\ pledge_reminders[r].pledge_id \in DOMAIN pledges
          /\ pledge_reminders[r].status = "Scheduled" /\ pledge_reminders[r].scheduled_date <= d
      BY <1>1 DEF ListScheduledReminders
    <2>2. r \in GetPledgeReminderQueue(d) <=> pledges[pledge_reminders[r].pledge_id].status \in {"In Progress", "Overdue"}
      BY <1>1, <2>1 DEF GetPledgeReminderQueue
    <2>3. \A st \in {"In Progress", "Overdue"} :
            pledge_reminders[r].pledge_id \in ListPledgesByStatus(st) <=> pledges[pledge_reminders[r].pledge_id].status = st
      BY <1>1, <1>3, <2>1 DEF ListPledgesByStatus, Pledged, Eq
    <2> QED BY <2>2, <2>3
  <1>9. UNION {GetPledgePaymentSchedule(p) : p \in DOMAIN pledges} = DOMAIN pledge_payments
    BY <1>4
  <1>10. UNION {ListScheduledReminders(d) : d \in Days} = UNION {ListPledgeReminders(p, "Scheduled") : p \in DOMAIN pledges}
    BY <1>7
  <1> QED BY <1>5, <1>6, <1>8, <1>9, <1>10

LEMMA PledgeAnswers == PledgesInv => PledgeAnswersAgree
  <1> SUFFICES ASSUME PledgesInv PROVE PledgeAnswersAgree
    OBVIOUS
  <1>1. ASSUME NEW act \in BOOLEAN
        PROVE  /\ UNION {ListPledgeBlocksByCampaign(k, act) : k \in DOMAIN campaigns}
                    = {b \in ListPledgeBlocks(act) : pledge_blocks[b].campaign_id # NULL}
               /\ UNION {ListPledgeGroupMembers(g, act) : g \in DOMAIN pledge_groups}
                    = {m \in DOMAIN pledge_group_members : pledge_group_members[m].is_active = act}
    <2>1. NULL \notin DOMAIN campaigns /\ act # NULL
      BY CampaignsAssumption, RelationalAssumption DEF PledgesInv
    <2>2. /\ \A b \in DOMAIN pledge_blocks : pledge_blocks[b].campaign_id \in DOMAIN campaigns \cup {NULL}
          /\ \A m \in DOMAIN pledge_group_members : /\ pledge_group_members[m].pledge_group_id \in DOMAIN pledge_groups
                                                    /\ pledge_group_members[m].contact_id \in DOMAIN contacts
      BY DEF PledgesInv, PledgeRefs
    <2>3. \A b : b \in {a \in ListPledgeBlocks(act) : pledge_blocks[a].campaign_id # NULL}
                 <=> \E k \in DOMAIN campaigns : b \in ListPledgeBlocksByCampaign(k, act)
      BY <2>1, <2>2 DEF ListPledgeBlocks, ListPledgeBlocksByCampaign, Eq
    <2>4. \A m : m \in {n \in DOMAIN pledge_group_members : pledge_group_members[n].is_active = act}
                 <=> \E g \in DOMAIN pledge_groups : m \in ListPledgeGroupMembers(g, act)
      BY <2>1, <2>2 DEF ListPledgeGroupMembers, Eq
    <2>5. UNION {ListPledgeBlocksByCampaign(k, act) : k \in DOMAIN campaigns}
            = {b \in ListPledgeBlocks(act) : pledge_blocks[b].campaign_id # NULL}
      BY <2>3
    <2>6. UNION {ListPledgeGroupMembers(g, act) : g \in DOMAIN pledge_groups}
            = {m \in DOMAIN pledge_group_members : pledge_group_members[m].is_active = act}
      BY <2>4
    <2> QED BY <2>5, <2>6
  <1>2. UNION {ListPledgesByContact(c) : c \in DOMAIN contacts} = DOMAIN pledges
    <2>1. \A p : p \in DOMAIN pledges <=> \E c \in DOMAIN contacts : p \in ListPledgesByContact(c)
      BY DEF ListPledgesByContact, PledgesInv, PledgeRefs
    <2> QED BY <2>1
  <1> QED BY <1>1, <1>2, PledgesByStatus, PledgesListed, ScheduleListed, Zenon DEF PledgeAnswersAgree

(* The queries of pledges.sql.go fit together for any pledges, campaigns,      *)
(* payments, reminders and groups, and whatever statuses clients write: the    *)
(* counts of a campaign are its listings' and leave out just the pledges whose *)
(* status is none of the five, the overdue payments are scheduled ones, and    *)
(* the reminder queue is the due reminders of the pledges that are being paid. *)
THEOREM PledgeAnswer == PledgesSpec => []PledgeAnswersAgree
  BY PledgeAnswers, PledgesInitInv, PledgesNextKeeps, PTL DEF PledgesSpec

-----------------------------------------------------------------------------
(* Activities, with the contacts involved: the references are inductive with   *)
(* the types.                                                                 *)

ActivityInv == ContactsTypeOK /\ ActivitiesTypeOK /\ ActivityRefs

LEMMA ActivityInitInv == ContactsInit /\ ActivitiesInit => ActivityInv
  BY DEF ContactsInit, ActivitiesInit, ActivityInv, ContactsTypeOK, ActivitiesTypeOK, ActivityRefs, IsTable, NoRows

LEMMA ActivityTypeKeeps ==
  ASSUME ActivityInv, NEW t \in ActivityTypeIds, NEW row \in ActivityType,
         CreateActivityType(t, row) \/ UpdateActivityType(t, row)
  PROVE  ActivityInv'
  <1>1. IsTable(activity_types, ActivityTypeIds, ActivityType)
    BY DEF ActivityInv, ActivitiesTypeOK
  <1>2. /\ Writes(activity_types, activity_types', t, row)
        /\ \A u \in DOMAIN activity_types \ {t} : activity_types[u].name # row.name
        /\ UNCHANGED <<contacts, activities, activity_contacts>>
    BY DEF CreateActivityType, UpdateActivityType, Writes
  <1>3. /\ IsTable(activity_types', ActivityTypeIds, ActivityType)
        /\ DOMAIN activity_types' = DOMAIN activity_types \cup {t}
        /\ activity_types'[t] = row
        /\ \A u \in DOMAIN activity_types \ {t} : activity_types'[u] = activity_types[u]
    BY <1>1, <1>2 DEF IsTable, Insert, Writes
  <1>4. ActivityRefs'
    BY <1>2, <1>3 DEF ActivityInv, ActivityRefs, ActivityFits
  <1> QED BY <1>2, <1>3, <1>4 DEF ActivityInv, ContactsTypeOK, ActivitiesTypeOK

LEMMA DeleteActivityTypeKeeps ==
  ASSUME ActivityInv, NEW t \in ActivityTypeIds, DeleteActivityType(t)
  PROVE  ActivityInv'
  <1>1. /\ IsTable(activity_types', ActivityTypeIds, ActivityType)
        /\ DOMAIN activity_types' = DOMAIN activity_types \ {t}
        /\ \A u \in DOMAIN activity_types' : activity_types'[u] = activity_types[u]
    BY DEF DeleteActivityType, ActivityInv, ActivitiesTypeOK, IsTable, Without
  <1>2. UNCHANGED <<contacts, activities, activity_contacts>> /\ \A a \in DOMAIN activities : activities[a].activity_type_id # t
    BY DEF DeleteActivityType
  <1>3. \A a \in DOMAIN activities' : ActivityFits(activities[a])'
    BY <1>1, <1>2 DEF ActivityInv, ActivityRefs, ActivityFits
  <1>4. \A u, v \in DOMAIN activity_types' : u # v => activity_types'[u].name # activity_types'[v].name
    BY <1>1 DEF ActivityInv, ActivityRefs
  <1>5. ActivityRefs'
    BY <1>2, <1>3, <1>4 DEF ActivityInv, ActivityRefs
  <1> QED BY <1>1, <1>2, <1>5 DEF ActivityInv, ContactsTypeOK, ActivitiesTypeOK

LEMMA ActivityWritten ==
  ASSUME ActivityInv, NEW a \in ActivityIds, NEW row \in Activity,
         CreateActivity(a, row) \/ UpdateActivity(a, row)
  PROVE  ActivityInv'
  <1>1. IsTable(activities, ActivityIds, Activity)
    BY DEF ActivityInv, ActivitiesTypeOK
  <1>2. /\ Writes(activities, activities', a, row) /\ ActivityFits(row)
        /\ UNCHANGED <<contacts, activity_types, activity_contacts>>
    BY DEF CreateActivity, UpdateActivity, Writes
  <1>3. /\ IsTable(activities', ActivityIds, Activity)
        /\ DOMAIN activities' = DOMAIN activities \cup {a}
        /\ activities'[a] = row
        /\ \A b \in DOMAIN activities \ {a} : activities'[b] = activities[b]
    BY <1>1, <1>2 DEF IsTable, Insert, Writes
  <1>4. ActivityRefs'
    BY <1>2, <1>3 DEF ActivityInv, ActivityRefs, ActivityFits
  <1> QED BY <1>2, <1>3, <1>4 DEF ActivityInv, ContactsTypeOK, ActivitiesTypeOK

LEMMA DeleteActivityKeeps ==
  ASSUME ActivityInv, NEW a \in ActivityIds, DeleteActivity(a)
  PROVE  ActivityInv'
  <1>1. PICK row : row = [activities[a] EXCEPT !.is_deleted = TRUE]
    OBVIOUS
  <1>2. UpdateActivity(a, row) /\ a \in DOMAIN activities
    BY <1>1 DEF DeleteActivity
  <1>3. activities[a] \in Activity
    BY <1>2 DEF ActivityInv, ActivitiesTypeOK, IsTable
  <1>4. row \in Activity
    BY <1>1, <1>3, FlagsAreFlags DEF Activity
  <1> QED BY <1>2, <1>4, ActivityWritten

LEMMA HardDeleteActivityKeeps ==
  ASSUME ActivityInv, NEW a \in ActivityIds, HardDeleteActivity(a)
  PROVE  ActivityInv'
  <1>1. /\ IsTable(activities', ActivityIds, Activity)
        /\ DOMAIN activities' = DOMAIN activities \ {a}
        /\ \A b \in DOMAIN activities' : activities'[b] = activities[b]
    BY DEF HardDeleteActivity, ActivityInv, ActivitiesTypeOK, IsTable, Without
  <1>2. /\ IsTable(activity_contacts', InvolvedIds, ActivityContact)
        /\ DOMAIN activity_contacts' = DOMAIN activity_contacts \ InvolvedIn(a)
        /\ \A i \in DOMAIN activity_contacts' : activity_contacts'[i] = activity_contacts[i]
    BY DEF HardDeleteActivity, ActivityInv, ActivitiesTypeOK, IsTable, Without
  <1>3. ActivityRefs'
    BY <1>1, <1>2 DEF HardDeleteActivity, ActivityInv, ActivityRefs, ActivityFits, InvolvedIn
  <1> QED BY <1>1, <1>2, <1>3 DEF HardDeleteActivity, ActivityInv, ContactsTypeOK, ActivitiesTypeOK

LEMMA InvolvementWritten ==
  ASSUME ActivityInv, NEW i \in InvolvedIds, NEW row \in ActivityContact,
         CreateActivityContact(i, row) \/ UpdateActivityContact(i, row)
  PROVE  ActivityInv'
  <1>1. IsTable(activity_contacts, InvolvedIds, ActivityContact)
    BY DEF ActivityInv, ActivitiesTypeOK
  <1>2. /\ Writes(activity_contacts, activity_contacts', i, row)
        /\ row.activity_id \in DOMAIN activities /\ row.contact_id \in DOMAIN contacts
        /\ UNCHANGED <<contacts, activities, activity_types>>
    BY DEF CreateActivityContact, UpdateActivityContact, Writes
  <1>3. /\ IsTable(activity_contacts', InvolvedIds, ActivityContact)
        /\ DOMAIN activity_contacts' = DOMAIN activity_contacts \cup {i}
        /\ activity_contacts'[i] = row
        /\ \A k \in DOMAIN activity_contacts \ {i} : activity_contacts'[k] = activity_contacts[k]
    BY <1>1, <1>2 DEF IsTable, Insert, Writes
  <1>4. ActivityRefs'
    BY <1>2, <1>3 DEF ActivityInv, ActivityRefs, ActivityFits
  <1> QED BY <1>2, <1>3, <1>4 DEF ActivityInv, ContactsTypeOK, ActivitiesTypeOK

LEMMA InvolvementDeleted ==
  ASSUME ActivityInv, NEW i \in InvolvedIds, DeleteActivityContact(i) \/ HardDeleteActivityContact(i)
  PROVE  ActivityInv'
  <1>1. CASE DeleteActivityContact(i)
    <2>1. PICK row : row = [activity_contacts[i] EXCEPT !.is_deleted = TRUE]
      OBVIOUS
    <2>2. UpdateActivityContact(i, row) /\ i \in DOMAIN activity_contacts
      BY <1>1, <2>1 DEF DeleteActivityContact
    <2>3. activity_contacts[i] \in ActivityContact
      BY <2>2 DEF ActivityInv, ActivitiesTypeOK, IsTable
    <2>4. row \in ActivityContact
      BY <2>1, <2>3, FlagsAreFlags DEF ActivityContact
    <2> QED BY <2>2, <2>4, InvolvementWritten
  <1>2. CASE HardDeleteActivityContact(i)
    <2>1. /\ IsTable(activity_contacts', InvolvedIds, ActivityContact)
          /\ DOMAIN activity_contacts' \subseteq DOMAIN activity_contacts
          /\ \A k \in DOMAIN activity_contacts' : activity_contacts'[k] = activity_contacts[k]
      BY <1>2 DEF HardDeleteActivityContact, ActivityInv, ActivitiesTypeOK, IsTable, Without
    <2>2. ActivityRefs'
      BY <1>2, <2>1 DEF HardDeleteActivityContact, ActivityInv, ActivityRefs, ActivityFits
    <2> QED BY <1>2, <2>1, <2>2 DEF HardDeleteActivityContact, ActivityInv, ContactsTypeOK, ActivitiesTypeOK
  <1> QED BY <1>1, <1>2

(* An actor is a contact without a contact's data. *)
LEMMA ActorKeeps ==
  ASSUME ActivityInv, NEW c \in ContactIds, CreateActor(c) \/ DeleteActor(c)
  PROVE  ActivityInv'
  <1>1. CASE CreateActor(c)
    <2>1. ContactsTypeOK' /\ DOMAIN contacts \subseteq DOMAIN contacts' /\ UNCHANGED activityTables
      BY <1>1, ActorCreated DEF CreateActor, ActivityInv
    <2> QED BY <2>1 DEF ActivityInv, ActivitiesTypeOK, ActivityRefs, ActivityFits, activityTables
  <1>2. CASE DeleteActor(c)
    <2>1. ContactsTypeOK' /\ DOMAIN contacts' = DOMAIN contacts \ {c}
      BY <1>2, ContactDeleted DEF DeleteActor, ActivityInv
    <2>2. PICK P : P = {i \in DOMAIN activity_contacts : activity_contacts[i].contact_id = c}
      OBVIOUS
    <2>3. /\ activity_contacts' = Without(activity_contacts, P)
          /\ UNCHANGED <<activities, activity_types>>
      BY <1>2, <2>2 DEF DeleteActor
    <2>4. /\ IsTable(activity_contacts', InvolvedIds, ActivityContact)
          /\ DOMAIN activity_contacts' = DOMAIN activity_contacts \ P
          /\ \A k \in DOMAIN activity_contacts' : activity_contacts'[k] = activity_contacts[k]
      BY <2>3 DEF ActivityInv, ActivitiesTypeOK, IsTable, Without
    <2>5. ActivityRefs'
      BY <2>1, <2>2, <2>3, <2>4 DEF ActivityInv, ActivityRefs, ActivityFits
    <2> QED BY <2>1, <2>3, <2>4, <2>5 DEF ActivityInv, ActivitiesTypeOK
  <1> QED BY <1>1, <1>2

LEMMA ActivitiesNextKeeps == ActivityInv /\ [ActivitiesNext]_activityVars => ActivityInv'
  <1> SUFFICES ASSUME ActivityInv, [ActivitiesNext]_activityVars PROVE ActivityInv'
    OBVIOUS
  <1>1. ASSUME NEW t \in ActivityTypeIds, NEW n \in ActivityNames, NEW act \in Flags, NEW row,
               row = [name |-> n, is_active |-> act, is_reserved |-> act],
               CreateActivityType(t, row) \/ UpdateActivityType(t, row)
        PROVE  ActivityInv'
    <2>1. row \in ActivityType
      BY <1>1, FlagsAreFlags DEF ActivityType
    <2> QED BY <1>1, <2>1, ActivityTypeKeeps
  <1>2. ASSUME NEW a \in ActivityIds, NEW t \in ActivityTypeIds, NEW p \in ActivityIds \cup {NULL},
               NEW del \in Flags \cup {FALSE}, NEW row,
               row = [activity_type_id |-> t, parent_id |-> p, is_deleted |-> del],
               CreateActivity(a, row) \/ UpdateActivity(a, row)
        PROVE  ActivityInv'
    <2>1. row \in Activity
      BY <1>2, FlagsAreFlags DEF Activity
    <2> QED BY <1>2, <2>1, ActivityWritten
  <1>3. ASSUME NEW i \in InvolvedIds, NEW a \in ActivityIds, NEW c \in ContactIds, NEW r \in Parts \cup {NULL},
               NEW del \in Flags \cup {FALSE}, NEW row,
               row = [activity_id |-> a, contact_id |-> c, role |-> r, is_deleted |-> del],
               CreateActivityContact(i, row) \/ UpdateActivityContact(i, row)
        PROVE  ActivityInv'
    <2>1. row \in ActivityContact
      BY <1>3, FlagsAreFlags DEF ActivityContact
    <2> QED BY <1>3, <2>1, InvolvementWritten
  <1>4. CASE UNCHANGED activityVars
    BY <1>4 DEF activityVars, activityTables, ActivityInv, ContactsTypeOK, ActivitiesTypeOK, ActivityRefs, ActivityFits
  <1>5. CASE ActivitiesNext
    BY <1>1, <1>2, <1>3, <1>5, DeleteActivityTypeKeeps, DeleteActivityKeeps, HardDeleteActivityKeeps,
       InvolvementDeleted, ActorKeeps DEF ActivitiesNext
  <1> QED BY <1>4, <1>5

-----------------------------------------------------------------------------
(* Cases, with the activities filed in them and the contacts that take part.  *)

CaseInv == ActivityInv /\ CasesTypeOK /\ CaseRefs

LEMMA CaseInitInv == ContactsInit /\ ActivitiesInit /\ CasesInit => CaseInv
  BY ActivityInitInv DEF CasesInit, CaseInv, CasesTypeOK, CaseRefs, IsTable, NoRows

(* Whatever happens around the cases, they stay as they are for as long as     *)
(* nothing goes that they refer to.                                            *)
LEMMA AroundCases ==
  ASSUME CaseInv, ActivityInv', UNCHANGED caseTables,
         DOMAIN contacts \subseteq DOMAIN contacts', DOMAIN activities \subseteq DOMAIN activities'
  PROVE  CaseInv'
  BY DEF CaseInv, CasesTypeOK, CaseRefs, caseTables

LEMMA ActivitiesStay == ASSUME ActivityInv, UNCHANGED activityVars PROVE ActivityInv'
  BY DEF activityVars, activityTables, ActivityInv, ContactsTypeOK, ActivitiesTypeOK, ActivityRefs, ActivityFits

LEMMA CaseTypeWritten ==
  ASSUME CaseInv, NEW t \in CaseTypeIds, NEW n \in CaseNames, NEW act \in Flag,
         CreateCaseType(t, n, act) \/ UpdateCaseType(t, n, act)
  PROVE  CaseInv'
  <1>1. PICK row \in CaseType : row = [name |-> n, is_active |-> act]
    BY DEF CaseType
  <1>2. /\ Writes(case_types, case_types', t, row) /\ row.name = n
        /\ \A u \in DOMAIN case_types \ {t} : case_types[u].name # n
        /\ UNCHANGED <<activityVars, cases, case_status, case_contacts, case_activities>>
    BY <1>1 DEF CreateCaseType, UpdateCaseType, Writes
  <1>3. /\ IsTable(case_types', CaseTypeIds, CaseType)
        /\ DOMAIN case_types' = DOMAIN case_types \cup {t}
        /\ case_types'[t].name = n
        /\ \A u \in DOMAIN case_types \ {t} : case_types'[u] = case_types[u]
    BY <1>2 DEF CaseInv, CasesTypeOK, IsTable, Insert, Writes
  <1>4. ActivityInv' /\ UNCHANGED <<contacts, activities>>
    BY <1>2, ActivitiesStay DEF CaseInv, activityVars, activityTables
  <1>5. CaseRefs'
    BY <1>2, <1>3, <1>4 DEF CaseInv, CaseRefs
  <1> QED BY <1>2, <1>3, <1>4, <1>5 DEF CaseInv, CasesTypeOK

LEMMA CaseTypeSwitched ==
  ASSUME CaseInv, NEW t \in CaseTypeIds, ActivateCaseType(t) \/ DeactivateCaseType(t)
  PROVE  CaseInv'
  <1>1. t \in DOMAIN case_types /\ (UpdateCaseType(t, case_types[t].name, TRUE) \/ UpdateCaseType(t, case_types[t].name, FALSE))
    BY DEF ActivateCaseType, DeactivateCaseType
  <1>2. case_types[t].name \in CaseNames
    BY <1>1 DEF CaseInv, CasesTypeOK, IsTable, CaseType
  <1> QED BY <1>1, <1>2, CaseTypeWritten, FlagsAreFlags

LEMMA CaseTypeDeleted == ASSUME CaseInv, NEW t \in CaseTypeIds, DeleteCaseType(t) PROVE CaseInv'
  <1>1. /\ \A c \in DOMAIN cases : cases[c].case_type_id # t
        /\ UNCHANGED <<activityVars, cases, case_status, case_contacts, case_activities>>
    BY DEF DeleteCaseType
  <1>2. /\ IsTable(case_types', CaseTypeIds, CaseType)
        /\ DOMAIN case_types' = DOMAIN case_types \ {t}
        /\ \A u \in DOMAIN case_types' : case_types'[u] = case_types[u]
    BY DEF DeleteCaseType, CaseInv, CasesTypeOK, IsTable, Without
  <1>3. ActivityInv' /\ UNCHANGED <<contacts, activities>>
    BY <1>1, ActivitiesStay DEF CaseInv, activityVars, activityTables
  <1>4. CaseRefs'
    BY <1>1, <1>2, <1>3 DEF CaseInv, CaseRefs
  <1> QED BY <1>1, <1>2, <1>3, <1>4 DEF CaseInv, CasesTypeOK

LEMMA CaseStatusWritten ==
  ASSUME CaseInv, NEW s \in CaseStatusIds, NEW row \in CaseStatus,
         CreateCaseStatus(s, row) \/ UpdateCaseStatus(s, row)
  PROVE  CaseInv'
  <1>1. /\ Writes(case_status, case_status', s, row)
        /\ \A u \in DOMAIN case_status \ {s} : case_status[u].name # row.name
        /\ UNCHANGED <<activityVars, cases, case_types, case_contacts, case_activities>>
    BY DEF CreateCaseStatus, UpdateCaseStatus, Writes
  <1>2. /\ IsTable(case_status', CaseStatusIds, CaseStatus)
        /\ DOMAIN case_status' = DOMAIN case_status \cup {s}
        /\ case_status'[s] = row
        /\ \A u \in DOMAIN case_status \ {s} : case_status'[u] = case_status[u]
    BY <1>1 DEF CaseInv, CasesTypeOK, IsTable, Insert, Writes
  <1>3. ActivityInv' /\ UNCHANGED <<contacts, activities>>
    BY <1>1, ActivitiesStay DEF CaseInv, activityVars, activityTables
  <1>4. CaseRefs'
    BY <1>1, <1>2, <1>3 DEF CaseInv, CaseRefs
  <1> QED BY <1>1, <1>2, <1>3, <1>4 DEF CaseInv, CasesTypeOK

LEMMA CaseStatusSwitched ==
  ASSUME CaseInv, NEW s \in CaseStatusIds, ActivateCaseStatus(s) \/ DeactivateCaseStatus(s)
  PROVE  CaseInv'
  <1>1. PICK row : /\ UpdateCaseStatus(s, row) /\ s \in DOMAIN case_status
                   /\ \E act \in BOOLEAN : row = [case_status[s] EXCEPT !.is_active = act]
    BY DEF ActivateCaseStatus, DeactivateCaseStatus
  <1>2. case_status[s] \in CaseStatus
    BY <1>1 DEF CaseInv, CasesTypeOK, IsTable
  <1>3. row \in CaseStatus
    BY <1>1, <1>2, FlagsAreFlags DEF CaseStatus
  <1> QED BY <1>1, <1>3, CaseStatusWritten

LEMMA CaseStatusDeleted == ASSUME CaseInv, NEW s \in CaseStatusIds, DeleteCaseStatus(s) PROVE CaseInv'
  <1>1. /\ \A c \in DOMAIN cases : cases[c].status_id # s
        /\ UNCHANGED <<activityVars, cases, case_types, case_contacts, case_activities>>
    BY DEF DeleteCaseStatus
  <1>2. /\ IsTable(case_status', CaseStatusIds, CaseStatus)
        /\ DOMAIN case_status' = DOMAIN case_status \ {s}
        /\ \A u \in DOMAIN case_status' : case_status'[u] = case_status[u]
    BY DEF DeleteCaseStatus, CaseInv, CasesTypeOK, IsTable, Without
  <1>3. ActivityInv' /\ UNCHANGED <<contacts, activities>>
    BY <1>1, ActivitiesStay DEF CaseInv, activityVars, activityTables
  <1>4. CaseRefs'
    BY <1>1, <1>2, <1>3 DEF CaseInv, CaseRefs
  <1> QED BY <1>1, <1>2, <1>3, <1>4 DEF CaseInv, CasesTypeOK

LEMMA CaseWritten ==
  ASSUME CaseInv, NEW c \in CaseIds, NEW row \in Case, CreateCase(c, row) \/ UpdateCase(c, row)
  PROVE  CaseInv'
  <1>1. /\ Writes(cases, cases', c, row)
        /\ row.case_type_id \in DOMAIN case_types /\ row.status_id \in DOMAIN case_status
        /\ UNCHANGED <<activityVars, case_types, case_status, case_contacts, case_activities>>
    BY DEF CreateCase, UpdateCase, Writes
  <1>2. /\ IsTable(cases', CaseIds, Case)
        /\ DOMAIN cases' = DOMAIN cases \cup {c}
        /\ cases'[c] = row
        /\ \A d \in DOMAIN cases \ {c} : cases'[d] = cases[d]
    BY <1>1 DEF CaseInv, CasesTypeOK, IsTable, Insert, Writes
  <1>3. ActivityInv' /\ UNCHANGED <<contacts, activities>>
    BY <1>1, ActivitiesStay DEF CaseInv, activityVars, activityTables
  <1>4. CaseRefs'
    BY <1>1, <1>2, <1>3 DEF CaseInv, CaseRefs
  <1> QED BY <1>1, <1>2, <1>3, <1>4 DEF CaseInv, CasesTypeOK

LEMMA CaseFieldWritten ==
  ASSUME CaseInv, NEW c \in CaseIds,
         DeleteCase(c) \/ CloseCase(c) \/ \E s \in CaseStatusIds : UpdateCaseStatusById(c, s)
  PROVE  CaseInv'
  <1>1. ASSUME NEW s \in CaseStatusIds, UpdateCaseStatusById(c, s) PROVE CaseInv'
    <2>1. PICK row : row = [cases[c] EXCEPT !.status_id = s]
      OBVIOUS
    <2>2. UpdateCase(c, row) /\ c \in DOMAIN cases
      BY <1>1, <2>1 DEF UpdateCaseStatusById
    <2>3. cases[c] \in Case
      BY <2>2 DEF CaseInv, CasesTypeOK, IsTable
    <2>4. row \in Case
      BY <2>1, <2>3 DEF Case
    <2> QED BY <2>2, <2>4, CaseWritten
  <1>2. ClosedStatus \subseteq CaseStatusIds
    BY DEF ClosedStatus, CaseInv, CasesTypeOK, IsTable
  <1>3. CASE DeleteCase(c)
    <2>1. PICK row : row = [cases[c] EXCEPT !.is_deleted = TRUE]
      OBVIOUS
    <2>2. UpdateCase(c, row) /\ c \in DOMAIN cases
      BY <1>3, <2>1 DEF DeleteCase
    <2>3. cases[c] \in Case
      BY <2>2 DEF CaseInv, CasesTypeOK, IsTable
    <2>4. row \in Case
      BY <2>1, <2>3, FlagsAreFlags DEF Case
    <2> QED BY <2>2, <2>4, CaseWritten
  <1> QED BY <1>1, <1>2, <1>3 DEF CloseCase

LEMMA CaseDeleted == ASSUME CaseInv, NEW c \in CaseIds, HardDeleteCase(c) PROVE CaseInv'
  <1>1. /\ IsTable(cases', CaseIds, Case)
        /\ DOMAIN cases' = DOMAIN cases \ {c}
        /\ \A d \in DOMAIN cases' : cases'[d] = cases[d]
    BY DEF HardDeleteCase, CaseInv, CasesTypeOK, IsTable, Without
  <1>2. /\ IsTable(case_contacts', PartyIds, CaseContact)
        /\ DOMAIN case_contacts' = DOMAIN case_contacts \ PartiesOf(c)
        /\ \A p \in DOMAIN case_contacts' : case_contacts'[p] = case_contacts[p]
    BY DEF HardDeleteCase, CaseInv, CasesTypeOK, IsTable, Without
  <1>3. /\ IsTable(case_activities', CaseActivityIds, CaseActivity)
        /\ DOMAIN case_activities' = DOMAIN case_activities \ FiledIn(c)
        /\ \A f \in DOMAIN case_activities' : case_activities'[f] = case_activities[f]
    BY DEF HardDeleteCase, CaseInv, CasesTypeOK, IsTable, Without
  <1>4. UNCHANGED <<activityVars, case_types, case_status>>
    BY DEF HardDeleteCase
  <1>5. ActivityInv' /\ UNCHANGED <<contacts, activities>>
    BY <1>4, ActivitiesStay DEF CaseInv, activityVars, activityTables
  <1>6. CaseRefs'
    BY <1>1, <1>2, <1>3, <1>4, <1>5 DEF CaseInv, CaseRefs, PartiesOf, FiledIn
  <1> QED BY <1>1, <1>2, <1>3, <1>4, <1>5, <1>6 DEF CaseInv, CasesTypeOK

LEMMA PartyWritten ==
  ASSUME CaseInv, NEW p \in PartyIds, NEW row \in CaseContact, CreateCaseContact(p, row) \/ UpdateCaseContact(p, row)
  PROVE  CaseInv'
  <1>1. /\ Writes(case_contacts, case_contacts', p, row)
        /\ row.case_id \in DOMAIN cases /\ row.contact_id \in DOMAIN contacts
        /\ UNCHANGED <<activityVars, cases, case_types, case_status, case_activities>>
    BY DEF CreateCaseContact, UpdateCaseContact, Writes
  <1>2. /\ IsTable(case_contacts', PartyIds, CaseContact)
        /\ DOMAIN case_contacts' = DOMAIN case_contacts \cup {p}
        /\ case_contacts'[p] = row
        /\ \A q \in DOMAIN case_contacts \ {p} : case_contacts'[q] = case_contacts[q]
    BY <1>1 DEF CaseInv, CasesTypeOK, IsTable, Insert, Writes
  <1>3. ActivityInv' /\ UNCHANGED <<contacts, activities>>
    BY <1>1, ActivitiesStay DEF CaseInv, activityVars, activityTables
  <1>4. CaseRefs'
    BY <1>1, <1>2, <1>3 DEF CaseInv, CaseRefs
  <1> QED BY <1>1, <1>2, <1>3, <1>4 DEF CaseInv, CasesTypeOK

LEMMA PartyFieldWritten ==
  ASSUME CaseInv, NEW p \in PartyIds,
         ActivateCaseContact(p) \/ DeactivateCaseContact(p) \/ \E r \in Parts : UpdateCaseContactRole(p, r)
  PROVE  CaseInv'
  <1>1. PICK row : /\ UpdateCaseContact(p, row) /\ p \in DOMAIN case_contacts
                   /\ \/ \E act \in BOOLEAN : row = [case_contacts[p] EXCEPT !.is_active = act]
                      \/ \E r \in Parts : row = [case_contacts[p] EXCEPT !.role = r]
    BY DEF ActivateCaseContact, DeactivateCaseContact, UpdateCaseContactRole
  <1>2. case_contacts[p] \in CaseContact
    BY <1>1 DEF CaseInv, CasesTypeOK, IsTable
  <1>3. row \in CaseContact
    BY <1>1, <1>2, FlagsAreFlags DEF CaseContact
  <1> QED BY <1>1, <1>3, PartyWritten

LEMMA PartyDeleted == ASSUME CaseInv, NEW p \in PartyIds, DeleteCaseContact(p) PROVE CaseInv'
  <1>1. /\ IsTable(case_contacts', PartyIds, CaseContact)
        /\ DOMAIN case_contacts' \subseteq DOMAIN case_contacts
        /\ \A q \in DOMAIN case_contacts' : case_contacts'[q] = case_contacts[q]
    BY DEF DeleteCaseContact, CaseInv, CasesTypeOK, IsTable, Without
  <1>2. UNCHANGED <<activityVars, cases, case_types, case_status, case_activities>>
    BY DEF DeleteCaseContact
  <1>3. ActivityInv' /\ UNCHANGED <<contacts, activities>>
    BY <1>2, ActivitiesStay DEF CaseInv, activityVars, activityTables
  <1>4. CaseRefs'
    BY <1>1, <1>2, <1>3 DEF CaseInv, CaseRefs
  <1> QED BY <1>1, <1>2, <1>3, <1>4 DEF CaseInv, CasesTypeOK

LEMMA FileWritten ==
  ASSUME CaseInv, NEW f \in CaseActivityIds, NEW row \in CaseActivity,
         CreateCaseActivity(f, row) \/ UpdateCaseActivity(f, row)
  PROVE  CaseInv'
  <1>1. /\ Writes(case_activities, case_activities', f, row)
        /\ row.case_id \in DOMAIN cases /\ row.activity_id \in DOMAIN activities
        /\ UNCHANGED <<activityVars, cases, case_types, case_status, case_contacts>>
    BY DEF CreateCaseActivity, UpdateCaseActivity, Writes
  <1>2. /\ IsTable(case_activities', CaseActivityIds, CaseActivity)
        /\ DOMAIN case_activities' = DOMAIN case_activities \cup {f}
        /\ case_activities'[f] = row
        /\ \A g \in DOMAIN case_activities \ {f} : case_activities'[g] = case_activities[g]
    BY <1>1 DEF CaseInv, CasesTypeOK, IsTable, Insert, Writes
  <1>3. ActivityInv' /\ UNCHANGED <<contacts, activities>>
    BY <1>1, ActivitiesStay DEF CaseInv, activityVars, activityTables
  <1>4. CaseRefs'
    BY <1>1, <1>2, <1>3 DEF CaseInv, CaseRefs
  <1> QED BY <1>1, <1>2, <1>3, <1>4 DEF CaseInv, CasesTypeOK

LEMMA FileDeleted ==
  ASSUME CaseInv, NEW f \in CaseActivityIds, DeleteCaseActivity(f) \/ HardDeleteCaseActivity(f)
  PROVE  CaseInv'
  <1>1. CASE DeleteCaseActivity(f)
    <2>1. PICK row : row = [case_activities[f] EXCEPT !.is_deleted = TRUE]
      OBVIOUS
    <2>2. UpdateCaseActivity(f, row) /\ f \in DOMAIN case_activities
      BY <1>1, <2>1 DEF DeleteCaseActivity
    <2>3. case_activities[f] \in CaseActivity
      BY <2>2 DEF CaseInv, CasesTypeOK, IsTable
    <2>4. row \in CaseActivity
      BY <2>1, <2>3, FlagsAreFlags DEF CaseActivity
    <2> QED BY <2>2, <2>4, FileWritten
  <1>2. CASE HardDeleteCaseActivity(f)
    <2>1. /\ IsTable(case_activities', CaseActivityIds, CaseActivity)
          /\ DOMAIN case_activities' \subseteq DOMAIN case_activities
          /\ \A g \in DOMAIN case_activities' : case_activities'[g] = case_activities[g]
      BY <1>2 DEF HardDeleteCaseActivity, CaseInv, CasesTypeOK, IsTable, Without
    <2>2. UNCHANGED <<activityVars, cases, case_types, case_status, case_contacts>>
      BY <1>2 DEF HardDeleteCaseActivity
    <2>3. ActivityInv' /\ UNCHANGED <<contacts, activities>>
      BY <2>2, ActivitiesStay DEF CaseInv, activityVars, activityTables
    <2>4. CaseRefs'
      BY <2>1, <2>2, <2>3 DEF CaseInv, CaseRefs
    <2> QED BY <2>1, <2>2, <2>3, <2>4 DEF CaseInv, CasesTypeOK
  <1> QED BY <1>1, <1>2

(* An activity that goes for good leaves the cases it was filed in. *)
LEMMA FiledActivityDeleted == ASSUME CaseInv, NEW a \in ActivityIds, HardDeleteFiledActivity(a) PROVE CaseInv'
  <1>1. HardDeleteActivity(a) /\ UNCHANGED <<cases, case_types, case_status, case_contacts>>
    BY DEF HardDeleteFiledActivity
  <1>2. ActivityInv' /\ contacts' = contacts
    BY <1>1, HardDeleteActivityKeeps DEF CaseInv, HardDeleteActivity
  <1>3. DOMAIN activities' = DOMAIN activities \ {a}
    BY <1>1 DEF HardDeleteActivity, Without
  <1>4. PICK P : P = {f \in DOMAIN case_activities : case_activities[f].activity_id = a}
    OBVIOUS
  <1>5. case_activities' = Without(case_activities, P)
    BY <1>4 DEF HardDeleteFiledActivity
  <1>6. /\ IsTable(case_activities', CaseActivityIds, CaseActivity)
        /\ DOMAIN case_activities' = DOMAIN case_activities \ P
        /\ \A f \in DOMAIN case_activities' : case_activities'[f] = case_activities[f]
    BY <1>5 DEF CaseInv, CasesTypeOK, IsTable, Without
  <1>7. CaseRefs'
    BY <1>1, <1>2, <1>3, <1>4, <1>6 DEF CaseInv, CaseRefs
  <1> QED BY <1>1, <1>2, <1>6, <1>7 DEF CaseInv, CasesTypeOK

(* A contact that goes takes part in no case any more. *)
LEMMA PartyGone == ASSUME CaseInv, NEW k \in ContactIds, DeleteParty(k) PROVE CaseInv'
  <1>1. DeleteActor(k) /\ UNCHANGED <<cases, case_types, case_status, case_activities>>
    BY DEF DeleteParty
  <1>2. ActivityInv' /\ activities' = activities
    BY <1>1, ActorKeeps DEF CaseInv, DeleteActor
  <1>3. DOMAIN contacts' = DOMAIN contacts \ {k}
    BY <1>1 DEF DeleteActor, DeleteContact, Without
  <1>4. PICK P : P = {p \in DOMAIN case_contacts : case_contacts[p].contact_id = k}
    OBVIOUS
  <1>5. case_contacts' = Without(case_contacts, P)
    BY <1>4 DEF DeleteParty
  <1>6. /\ IsTable(case_contacts', PartyIds, CaseContact)
        /\ DOMAIN case_contacts' = DOMAIN case_contacts \ P
        /\ \A p \in DOMAIN case_contacts' : case_contacts'[p] = case_contacts[p]
    BY <1>5 DEF CaseInv, CasesTypeOK, IsTable, Without
  <1>7. CaseRefs'
    BY <1>1, <1>2, <1>3, <1>4, <1>6 DEF CaseInv, CaseRefs
  <1> QED BY <1>1, <1>2, <1>6, <1>7 DEF CaseInv, CasesTypeOK

LEMMA CaseStatusNextKeeps == ASSUME CaseInv, CaseStatusNext PROVE CaseInv'
  <1>1. ASSUME NEW s \in CaseStatusIds, NEW n \in StatusNames, NEW g \in Groupings \cup {NULL},
               NEW act \in Flags, NEW row, row = [name |-> n, grouping |-> g, is_active |-> act],
               CreateCaseStatus(s, row) \/ UpdateCaseStatus(s, row)
        PROVE  CaseInv'
    <2>1. row \in CaseStatus
      BY <1>1, FlagsAreFlags DEF CaseStatus
    <2> QED BY <1>1, <2>1, CaseStatusWritten
  <1>2. ASSUME NEW c \in CaseIds, NEW t \in CaseTypeIds, NEW s \in CaseStatusIds,
               NEW del \in Flags \cup {FALSE}, NEW row,
               row = [case_type_id |-> t, status_id |-> s, is_deleted |-> del],
               CreateCase(c, row) \/ UpdateCase(c, row)
        PROVE  CaseInv'
    <2>1. row \in Case
      BY <1>2, FlagsAreFlags DEF Case
    <2> QED BY <1>2, <2>1, CaseWritten
  <1>3. ASSUME NEW t \in CaseTypeIds, NEW n \in CaseNames, NEW act \in Flags,
               CreateCaseType(t, n, act) \/ UpdateCaseType(t, n, act)
        PROVE  CaseInv'
    BY <1>3, FlagsAreFlags, CaseTypeWritten
  <1> QED
    BY <1>1, <1>2, <1>3, CaseTypeSwitched, CaseTypeDeleted, CaseStatusSwitched, CaseStatusDeleted, CaseFieldWritten,
       CaseDeleted DEF CaseStatusNext

LEMMA CaseSetUpKeeps ==
  ASSUME CaseInv, CaseSetUp \/ \E c \in CaseIds : OpenCase(c) \/ DeleteCase(c) \/ HardDeleteCase(c)
  PROVE  CaseInv'
  <1>1. ASSUME NEW t \in CaseTypeIds, NEW n \in CaseNames, CreateCaseType(t, n, TRUE) PROVE CaseInv'
    BY <1>1, FlagsAreFlags, CaseTypeWritten
  <1>2. ASSUME NEW s \in CaseStatusIds, CreateCaseStatus(s, [name |-> "Open", grouping |-> "Open", is_active |-> TRUE])
        PROVE  CaseInv'
    <2>1. [name |-> "Open", grouping |-> "Open", is_active |-> TRUE] \in CaseStatus
      BY CasesAssumption, FlagsAreFlags DEF CaseStatus
    <2> QED BY <1>2, <2>1, CaseStatusWritten
  <1>3. ASSUME NEW c \in CaseIds, OpenCase(c) PROVE CaseInv'
    <2>1. PICK t \in CaseTypeIds, s \in CaseStatusIds :
            CreateCase(c, [case_type_id |-> t, status_id |-> s, is_deleted |-> FALSE])
      BY <1>3 DEF OpenCase
    <2>2. [case_type_id |-> t, status_id |-> s, is_deleted |-> FALSE] \in Case
      BY FlagsAreFlags DEF Case
    <2> QED BY <2>1, <2>2, CaseWritten
  <1> QED BY <1>1, <1>2, <1>3, CaseFieldWritten, CaseDeleted DEF CaseSetUp

LEMMA PartiesNextKeeps == ASSUME CaseInv, PartiesNext PROVE CaseInv'
  <1>1. ASSUME NEW k \in ContactIds, CreateActor(k), UNCHANGED caseTables PROVE CaseInv'
    <2>1. ActivityInv' /\ UNCHANGED activities
      BY <1>1, ActorKeeps DEF CaseInv, CreateActor, activityTables
    <2>2. DOMAIN contacts \subseteq DOMAIN contacts'
      BY <1>1 DEF CreateActor, CreateContact, Insert
    <2> QED BY <1>1, <2>1, <2>2, AroundCases
  <1>2. ASSUME NEW p \in PartyIds, NEW c \in CaseIds, NEW k \in ContactIds, NEW r \in Parts,
               NEW act \in Flags, NEW row, row = [case_id |-> c, contact_id |-> k, role |-> r, is_active |-> act],
               CreateCaseContact(p, row) \/ UpdateCaseContact(p, row)
        PROVE  CaseInv'
    <2>1. row \in CaseContact
      BY <1>2, FlagsAreFlags DEF CaseContact
    <2> QED BY <1>2, <2>1, PartyWritten
  <1> QED BY <1>1, <1>2, CaseSetUpKeeps, PartyGone, PartyFieldWritten, PartyDeleted DEF PartiesNext

LEMMA FilingNextKeeps == ASSUME CaseInv, FilingNext PROVE CaseInv'
  <1>1. ASSUME NEW t \in ActivityTypeIds, NEW n \in ActivityNames, UNCHANGED caseTables,
               \/ CreateActivityType(t, [name |-> n, is_active |-> TRUE, is_reserved |-> NULL])
               \/ DeleteActivityType(t)
        PROVE  CaseInv'
    <2>1. [name |-> n, is_active |-> TRUE, is_reserved |-> NULL] \in ActivityType
      BY FlagsAreFlags DEF ActivityType
    <2>2. ActivityInv' /\ UNCHANGED <<contacts, activities>>
      BY <1>1, <2>1, ActivityTypeKeeps, DeleteActivityTypeKeeps DEF CaseInv, CreateActivityType, DeleteActivityType
    <2> QED BY <1>1, <2>2, AroundCases
  <1>2. ASSUME NEW a \in ActivityIds, NEW t \in ActivityTypeIds, NEW p \in ActivityIds \cup {NULL}, UNCHANGED caseTables,
               \/ CreateActivity(a, [activity_type_id |-> t, parent_id |-> p, is_deleted |-> FALSE])
               \/ DeleteActivity(a)
        PROVE  CaseInv'
    <2>1. [activity_type_id |-> t, parent_id |-> p, is_deleted |-> FALSE] \in Activity
      BY FlagsAreFlags DEF Activity
    <2>2. ActivityInv' /\ UNCHANGED contacts
      BY <1>2, <2>1, ActivityWritten, DeleteActivityKeeps DEF CaseInv, CreateActivity, DeleteActivity, UpdateActivity
    <2>3. DOMAIN activities \subseteq DOMAIN activities'
      BY <1>2 DEF CreateActivity, DeleteActivity, UpdateActivity, Insert
    <2> QED BY <1>2, <2>2, <2>3, AroundCases
  <1>3. ASSUME NEW f \in CaseActivityIds, NEW c \in CaseIds, NEW a \in ActivityIds,
               NEW del \in Flags \cup {FALSE}, NEW row,
               row = [case_id |-> c, activity_id |-> a, is_deleted |-> del],
               CreateCaseActivity(f, row) \/ UpdateCaseActivity(f, row)
        PROVE  CaseInv'
    <2>1. row \in CaseActivity
      BY <1>3, FlagsAreFlags DEF CaseActivity
    <2> QED BY <1>3, <2>1, FileWritten
  <1> QED BY <1>1, <1>2, <1>3, CaseSetUpKeeps, FiledActivityDeleted, FileDeleted DEF FilingNext

LEMMA CasesNextKeeps == CaseInv /\ [CasesNext]_caseVars => CaseInv'
  <1> SUFFICES ASSUME CaseInv, [CasesNext]_caseVars PROVE CaseInv'
    OBVIOUS
  <1>1. CASE UNCHANGED caseVars
    BY <1>1, ActivitiesStay, AroundCases DEF caseVars, activityVars, activityTables, CaseInv
  <1>2. CASE ActivitiesAround
    <2>1. ActivityInv'
      BY <1>2, ActivitiesNextKeeps DEF ActivitiesAround, CaseInv
    <2> QED BY <1>2, <2>1, AroundCases DEF ActivitiesAround
  <1> QED BY <1>1, <1>2, CaseStatusNextKeeps, PartiesNextKeeps, FilingNextKeeps DEF CasesNext

-----------------------------------------------------------------------------
(* Nothing an activity, an involvement, a case or what joins them refers to    *)
(* goes before them, whichever side is deleted (014_activity_system.sql,       *)
(* 018_case_management.sql).                                                   *)
THEOREM ActivityReferences == ActivitiesSpec => []ActivityRefs
  <1>1. ActivityInv => ActivityRefs
    BY DEF ActivityInv
  <1> QED BY <1>1, ActivityInitInv, ActivitiesNextKeeps, PTL DEF ActivitiesSpec

LEMMA ActivityAnswers == ActivityInv => ActivityAnswersAgree
  <1> SUFFICES ASSUME ActivityInv PROVE ActivityAnswersAgree
    OBVIOUS
  <1>1. /\ \A a \in DOMAIN activities : ActivityFits(activities[a])
        /\ \A i \in DOMAIN activity_contacts : /\ activity_contacts[i].activity_id \in DOMAIN activities
                                               /\ activity_contacts[i].contact_id \in DOMAIN contacts
                                               /\ activity_contacts[i].role \in Parts \cup {NULL}
    BY DEF ActivityInv, ActivityRefs, ActivitiesTypeOK, IsTable, ActivityContact
  <1>2. IsFiniteSet(ListAllActivities) /\ IsFiniteSet(ListAllActivityContacts)
    <2>1. ListAllActivities \in SUBSET ActivityIds /\ ListAllActivityContacts \in SUBSET InvolvedIds
      BY DEF ListAllActivities, ListAllActivityContacts, ActivityInv, ActivitiesTypeOK, IsTable
    <2> QED BY <2>1, ActivitiesAssumption, FS_Subset
  <1>3. ListAllActivities = UNION {GetActivitiesByType(t) : t \in ListActivityTypes}
    <2>1. \A a : a \in ListAllActivities <=> \E t \in ListActivityTypes : a \in GetActivitiesByType(t)
      BY <1>1 DEF ListAllActivities, GetActivitiesByType, ListActivityTypes, ActivityFits
    <2> QED BY <2>1
  <1>4. ASSUME NEW t \in ActivityTypeIds, NEW u \in ActivityTypeIds, t # u
        PROVE  CountActivitiesByType(t) + CountActivitiesByType(u) <= CountActivities
    <2> DEFINE S == {a \in ListAllActivities : activities[a].activity_type_id = t}
               T == {a \in ListAllActivities : activities[a].activity_type_id = u}
    <2>1. S \subseteq ListAllActivities /\ T \subseteq ListAllActivities /\ S \cap T = {}
      BY <1>4
    <2>2. /\ CountActivitiesByType(t) = Cardinality(S) /\ CountActivitiesByType(u) = Cardinality(T)
          /\ CountActivities = Cardinality(ListAllActivities)
      BY DEF CountActivitiesByType, CountActivities, ListAllActivities
    <2> HIDE DEF S, T
    <2> QED BY <1>2, <2>1, <2>2, ApartCount
  <1>5. ASSUME NEW a \in ListAllActivities
        PROVE  /\ GetActivityType(activities[a].activity_type_id) # {}
               /\ activities[a].parent_id # NULL => GetActivity(activities[a].parent_id) # {}
    BY <1>1 DEF ListAllActivities, GetActivity, GetActivityType, ActivityFits
  <1>6. ASSUME NEW c \in ContactIds
        PROVE  /\ {activity_contacts[i].activity_id : i \in GetActivityContactsByContact(c)} \cap ListAllActivities
                    \subseteq {p[1] : p \in GetActivitiesByContact(c)}
               /\ CountActivitiesByContact(c) # 0 => c \in ListAllContacts
    <2>1. ASSUME NEW i \in GetActivityContactsByContact(c), activity_contacts[i].activity_id \in ListAllActivities
          PROVE  activity_contacts[i].activity_id \in {p[1] : p \in GetActivitiesByContact(c)}
      <3>1. <<activity_contacts[i].activity_id, i>> \in GetActivitiesByContact(c)
        BY <2>1 DEF GetActivityContactsByContact, ListAllActivityContacts, GetActivitiesByContact
      <3> QED BY <3>1
    <2>2. ASSUME c \notin DOMAIN contacts PROVE CountActivitiesByContact(c) = 0
      <3>1. GetActivitiesByContact(c) = {}
        BY <1>1, <2>2 DEF GetActivitiesByContact
      <3> QED BY <3>1, FS_EmptySet DEF CountActivitiesByContact
    <2> QED BY <2>1, <2>2 DEF ListAllContacts
  <1>7. /\ ListAllActivityContacts = UNION {GetActivityContactsByActivity(a) : a \in DOMAIN activities}
        /\ ListAllActivityContacts = UNION {GetActivityContactsByContact(c) : c \in ListAllContacts}
    <2>1. \A i : /\ i \in ListAllActivityContacts <=> \E a \in DOMAIN activities : i \in GetActivityContactsByActivity(a)
                 /\ i \in ListAllActivityContacts <=> \E c \in ListAllContacts : i \in GetActivityContactsByContact(c)
      BY <1>1 DEF ListAllActivityContacts, GetActivityContactsByActivity, GetActivityContactsByContact, ListAllContacts
    <2> QED BY <2>1
  <1>8. {i \in ListAllActivityContacts : activity_contacts[i].role # NULL} = UNION {GetActivityContactsByRole(r) : r \in Parts}
    <2>1. \A i \in ListAllActivityContacts :
            activity_contacts[i].role # NULL <=> \E r \in Parts : i \in GetActivityContactsByRole(r)
      BY <1>1, ActivitiesAssumption DEF ListAllActivityContacts, GetActivityContactsByRole, Eq
    <2>2. \A r : GetActivityContactsByRole(r) \subseteq ListAllActivityContacts
      BY DEF GetActivityContactsByRole
    <2> QED BY <2>1, <2>2
  <1>9. ASSUME NEW r \in Parts, NEW q \in Parts, r # q
        PROVE  CountActivityContactsByRole(r) + CountActivityContactsByRole(q) <= CountActivityContacts
    <2> DEFINE S == {i \in ListAllActivityContacts : Eq(activity_contacts[i].role, r)}
               T == {i \in ListAllActivityContacts : Eq(activity_contacts[i].role, q)}
    <2>1. S \subseteq ListAllActivityContacts /\ T \subseteq ListAllActivityContacts /\ S \cap T = {}
      BY <1>9 DEF Eq
    <2>2. /\ CountActivityContactsByRole(r) = Cardinality(S) /\ CountActivityContactsByRole(q) = Cardinality(T)
          /\ CountActivityContacts = Cardinality(ListAllActivityContacts)
      BY DEF CountActivityContactsByRole, CountActivityContacts, ListAllActivityContacts
    <2> HIDE DEF S, T
    <2> QED BY <1>2, <2>1, <2>2, ApartCount
  <1>10. ASSUME NEW n \in ActivityNames PROVE Cardinality(GetActivityTypeByName(n)) <= 1
    <2>1. \A t, u \in GetActivityTypeByName(n) : t = u
      BY DEF GetActivityTypeByName, ActivityInv, ActivityRefs
    <2> QED BY <2>1, LoneCount
  <1> QED BY <1>3, <1>4, <1>5, <1>6, <1>7, <1>8, <1>9, <1>10, Zenon DEF ActivityAnswersAgree

(* The listings by type, by activity, by contact and by role hold what the listings *)
(* of all hold, an involvement without a role excepted; what two types or two roles  *)
(* count is no more than all count; parents and types are found; an activity that    *)
(* involves a contact is among the contact's own; and a name finds one type, for any *)
(* texts as names and roles (activities.sql.go, activity_types.sql.go,               *)
(* activity_contacts.sql.go).                                                        *)
THEOREM ActivityAnswer == ActivitiesSpec => []ActivityAnswersAgree
  BY ActivityAnswers, ActivityInitInv, ActivitiesNextKeeps, PTL DEF ActivitiesSpec

(* No case is without its type and status, no party without its case and  *)
(* contact, no filed activity without its case and activity; names of     *)
(* types and statuses are unique (018_case_management.sql, cases.sql.go). *)
THEOREM CaseReferences == CasesSpec => []CaseRefs
  <1>1. CaseInv => CaseRefs
    BY DEF CaseInv
  <1> QED BY <1>1, CaseInitInv, CasesNextKeeps, PTL DEF CasesSpec

(* What the queries of cases answer follows from the references. *)
LEMMA CaseAnswers == ASSUME CasesTypeOK, CaseRefs PROVE CaseAnswersAgree
  <1>1. /\ \A c \in DOMAIN cases : cases[c].case_type_id \in DOMAIN case_types /\ cases[c].status_id \in DOMAIN case_status
        /\ \A p \in DOMAIN case_contacts : /\ case_contacts[p].case_id \in DOMAIN cases
                                            /\ case_contacts[p].contact_id \in DOMAIN contacts
                                            /\ case_contacts[p].role \in Parts
    BY DEF CaseRefs, CasesTypeOK, IsTable, CaseContact
  <1>2. IsFiniteSet(ListCases) /\ IsFiniteSet(DOMAIN case_contacts)
    <2>1. ListCases \in SUBSET CaseIds /\ DOMAIN case_contacts \in SUBSET PartyIds
      BY DEF CasesTypeOK, IsTable, ListCases
    <2> QED BY <2>1, CasesAssumption, FS_Subset
  <1>3. /\ ListCases = UNION {ListCasesByStatus(s) : s \in DOMAIN case_status}
        /\ ListCases = UNION {ListCasesByType(t) : t \in DOMAIN case_types}
    <2>1. \A c : /\ c \in ListCases <=> \E s \in DOMAIN case_status : c \in ListCasesByStatus(s)
                 /\ c \in ListCases <=> \E t \in DOMAIN case_types : c \in ListCasesByType(t)
      BY <1>1 DEF ListCases, ListCasesByStatus, ListCasesByType
    <2> QED BY <2>1
  <1>4. ASSUME NEW n \in CaseNames
        PROVE  /\ SearchCases({}, {n}) = UNION {ListCasesByType(t) : t \in GetCaseTypeByName(n)}
               /\ Cardinality(GetCaseTypeByName(n)) <= 1
    <2>1. \A c : c \in SearchCases({}, {n}) <=> \E t \in GetCaseTypeByName(n) : c \in ListCasesByType(t)
      BY <1>1 DEF SearchCases, GetCaseTypeByName, ListCasesByType, ListCases
    <2>2. SearchCases({}, {n}) = UNION {ListCasesByType(t) : t \in GetCaseTypeByName(n)}
      BY <2>1
    <2>3. \A t, u \in GetCaseTypeByName(n) : t = u
      BY DEF GetCaseTypeByName, CaseRefs
    <2> QED BY <2>2, <2>3, LoneCount
  <1>5. ASSUME NEW n \in StatusNames PROVE Cardinality(GetCaseStatusByName(n)) <= 1
    <2>1. \A s, t \in GetCaseStatusByName(n) : s = t
      BY DEF GetCaseStatusByName, CaseRefs
    <2> QED BY <2>1, LoneCount
  <1>6. /\ \A c \in CaseIds : GetCaseWithDetails(c) = GetCase(c)
        /\ \A act \in BOOLEAN :
             /\ UNION {ListCasesByStatus(s) : s \in ListOpenCaseStatus(act)} \subseteq ListOpenCases \ ListClosedCases
             /\ UNION {ListCasesByStatus(s) : s \in ListClosedCaseStatus(act)} \subseteq ListClosedCases \ ListOpenCases
    <2>1. \A c \in CaseIds : GetCaseWithDetails(c) = GetCase(c)
      BY <1>1 DEF GetCase, ListCases, GetCaseWithDetails
    <2>2. ASSUME NEW act \in BOOLEAN, NEW s \in ListOpenCaseStatus(act), NEW c \in ListCasesByStatus(s)
          PROVE  c \in ListOpenCases \ ListClosedCases
      BY DEF ListOpenCaseStatus, ListCasesByStatus, ListOpenCases, ListClosedCases
    <2>3. ASSUME NEW act \in BOOLEAN, NEW s \in ListClosedCaseStatus(act), NEW c \in ListCasesByStatus(s)
          PROVE  c \in ListClosedCases \ ListOpenCases
      BY DEF ListClosedCaseStatus, ListCasesByStatus, ListOpenCases, ListClosedCases
    <2> QED BY <2>1, <2>2, <2>3
  <1>7. ASSUME NEW p \in DOMAIN GetCaseStats(TRUE)
        PROVE  GetCaseStats(TRUE)[p] <= GetCaseTypeStats(TRUE)[p[1]] /\ GetCaseStats(TRUE)[p] <= GetCaseStatusStats(TRUE)[p[2]]
    <2>1. p[1] \in ListCaseTypes(TRUE) /\ p[2] \in ListCaseStatus(TRUE)
      BY DEF GetCaseStats
    <2> DEFINE T == ListCasesByType(p[1])
               S == ListCasesByStatus(p[2])
    <2>2. GetCaseStats(TRUE)[p] = Cardinality(T \cap S)
      BY DEF GetCaseStats
    <2>3. GetCaseTypeStats(TRUE)[p[1]] = Cardinality(T) /\ GetCaseStatusStats(TRUE)[p[2]] = Cardinality(S)
      BY <2>1 DEF GetCaseTypeStats, GetCaseStatusStats
    <2>4. IsFiniteSet(T) /\ IsFiniteSet(S)
      <3>1. T \in SUBSET ListCases /\ S \in SUBSET ListCases
        BY DEF ListCasesByType, ListCasesByStatus
      <3> QED BY <1>2, <3>1, FS_Subset
    <2>5. T \cap S \in SUBSET T /\ T \cap S \in SUBSET S
      OBVIOUS
    <2> HIDE DEF T, S
    <2>6. Cardinality(T \cap S) <= Cardinality(T) /\ Cardinality(T \cap S) <= Cardinality(S)
      BY <2>4, <2>5, FS_Subset
    <2> QED BY <2>2, <2>3, <2>6
  <1>8. \A k \in ContactIds : ListCasesByContact(k) = UNION {ListCasesByContactRole(k, r) : r \in Parts}
    <2>1. \A k : \A q \in ListCasesByContact(k) : q[2] \in DOMAIN case_contacts
      BY DEF ListCasesByContact
    <2>2. \A k : \A q : q \in ListCasesByContact(k) <=> \E r \in Parts : q \in ListCasesByContactRole(k, r)
      BY <1>1, <2>1 DEF ListCasesByContactRole
    <2> QED BY <2>2
  <1>9. \A K \in SUBSET ContactIds : SearchCaseContacts(K) = UNION {GetCaseContactsByContact(k) : k \in K}
    <2>1. \A K : \A p : p \in SearchCaseContacts(K) <=> \E k \in K : p \in GetCaseContactsByContact(k)
      BY <1>1 DEF SearchCaseContacts, GetCaseContactsByContact
    <2> QED BY <2>1
  <1>10. ListCaseContacts = UNION {GetCaseContactsByCase(c) : c \in DOMAIN cases}
    <2>1. \A p : p \in ListCaseContacts <=> \E c \in DOMAIN cases : p \in GetCaseContactsByCase(c)
      BY <1>1 DEF ListCaseContacts, GetCaseContactsByCase
    <2> QED BY <2>1
  <1>11. ASSUME NEW c \in ListCases PROVE GetCaseParticipantSummary[c] <= Cardinality(GetCaseContactsByCase(c))
    <2>1. GetCaseParticipantSummary[c] = Cardinality(GetActiveCaseContacts(c))
      BY DEF GetCaseParticipantSummary
    <2>2. /\ GetActiveCaseContacts(c) \in SUBSET GetCaseContactsByCase(c)
          /\ GetCaseContactsByCase(c) \in SUBSET DOMAIN case_contacts
      BY DEF GetActiveCaseContacts, GetCaseContactsByCase, PartiesOf
    <2>3. IsFiniteSet(GetCaseContactsByCase(c))
      BY <1>2, <2>2, FS_Subset
    <2>4. Cardinality(GetActiveCaseContacts(c)) <= Cardinality(GetCaseContactsByCase(c))
      BY <2>2, <2>3, FS_Subset
    <2> QED BY <2>1, <2>4
  <1>12. ASSUME NEW r \in DOMAIN GetCaseContactStats(TRUE)
         PROVE  GetCaseContactStats(TRUE)[r] \in 1..Cardinality(ListCaseContactsByRole(r))
    <2> DEFINE Active == {p \in DOMAIN case_contacts : Eq(case_contacts[p].is_active, TRUE)}
               InRole == {p \in Active : case_contacts[p].role = r}
    <2>1. PICK p \in Active : case_contacts[p].role = r
      BY DEF GetCaseContactStats
    <2>2. p \in InRole
      BY <2>1
    <2>3. GetCaseContactStats(TRUE)[r] = Cardinality(InRole)
      BY <2>1 DEF GetCaseContactStats
    <2>4. InRole \in SUBSET ListCaseContactsByRole(r) /\ ListCaseContactsByRole(r) \in SUBSET DOMAIN case_contacts
      BY DEF ListCaseContactsByRole
    <2> HIDE DEF Active, InRole
    <2>5. IsFiniteSet(ListCaseContactsByRole(r))
      BY <1>2, <2>4, FS_Subset
    <2>6. IsFiniteSet(InRole) /\ Cardinality(InRole) <= Cardinality(ListCaseContactsByRole(r))
      BY <2>4, <2>5, FS_Subset
    <2>7. Cardinality(InRole) # 0 /\ Cardinality(InRole) \in Nat /\ Cardinality(ListCaseContactsByRole(r)) \in Nat
      BY <2>2, <2>5, <2>6, FS_EmptySet, FS_CardinalityType
    <2>8. Cardinality(InRole) \in 1..Cardinality(ListCaseContactsByRole(r))
      BY <2>6, <2>7
    <2> QED BY <2>3, <2>8, Zenon
  <1> QED
    BY <1>3, <1>4, <1>5, <1>6, <1>7, <1>8, <1>9, <1>10, <1>11, <1>12, Zenon DEF CaseAnswersAgree

LEMMA FilingAnswers == ASSUME CasesTypeOK, CaseRefs, ActivityRefs PROVE FilingAnswersAgree
  <1>1. /\ \A f \in DOMAIN case_activities : case_activities[f].activity_id \in DOMAIN activities
        /\ \A a \in DOMAIN activities : activities[a].activity_type_id \in DOMAIN activity_types
    BY DEF CaseRefs, ActivityRefs, ActivityFits
  <1>2. \A f \in ListCaseActivities : f \in DOMAIN case_activities
    BY DEF ListCaseActivities
  <1>3. \A c \in CaseIds : GetCaseActivitiesWithDetails(c) = GetCaseActivitiesByCase(c)
    BY <1>1, <1>2 DEF GetCaseActivitiesWithDetails, GetCaseActivitiesByCase
  <1>4. ASSUME NEW c \in CaseIds, NEW t \in DOMAIN GetCaseActivityStats(c)
        PROVE  GetCaseActivityStats(c)[t] \in 1..GetCaseActivityCount(c)
    <2> DEFINE Filed == {f \in FiledIn(c) : case_activities[f].is_deleted = FALSE}
               T == GetCaseActivitiesByCase(c) \cap ListCaseActivitiesByType(t)
    <2>1. PICK f \in GetCaseActivitiesByCase(c) : t = activities[case_activities[f].activity_id].activity_type_id
      BY DEF GetCaseActivityStats
    <2>2. f \in T
      BY <2>1 DEF GetCaseActivitiesByCase, ListCaseActivitiesByType
    <2>3. T \in SUBSET Filed /\ Filed \in SUBSET CaseActivityIds
      BY <1>2 DEF GetCaseActivitiesByCase, ListCaseActivities, FiledIn, CasesTypeOK, IsTable
    <2>4. GetCaseActivityStats(c)[t] = Cardinality(T) /\ GetCaseActivityCount(c) = Cardinality(Filed)
      BY DEF GetCaseActivityStats, GetCaseActivityCount
    <2> HIDE DEF T, Filed
    <2>5. IsFiniteSet(Filed)
      BY <2>3, CasesAssumption, FS_Subset
    <2>6. IsFiniteSet(T) /\ Cardinality(T) <= Cardinality(Filed)
      BY <2>3, <2>5, FS_Subset
    <2>7. Cardinality(T) # 0 /\ Cardinality(T) \in Nat /\ Cardinality(Filed) \in Nat
      BY <2>2, <2>5, <2>6, FS_EmptySet, FS_CardinalityType
    <2> QED BY <2>4, <2>6, <2>7
  <1>5. ListCaseActivities = UNION {ListCaseActivitiesByType(t) : t \in DOMAIN activity_types}
    <2>1. \A f : f \in ListCaseActivities <=> \E t \in DOMAIN activity_types : f \in ListCaseActivitiesByType(t)
      BY <1>1, <1>2 DEF ListCaseActivitiesByType
    <2> QED BY <2>1
  <1>6. /\ ListCaseActivities = UNION {GetCaseActivitiesByActivity(a) : a \in DOMAIN activities}
        /\ \A S \in SUBSET ActivityIds : SearchCaseActivities(S) = UNION {GetCaseActivitiesByActivity(a) : a \in S}
    <2>1. \A f : f \in ListCaseActivities <=> \E a \in DOMAIN activities : f \in GetCaseActivitiesByActivity(a)
      BY <1>1, <1>2 DEF GetCaseActivitiesByActivity
    <2>2. \A S : \A f : f \in SearchCaseActivities(S) <=> \E a \in S : f \in GetCaseActivitiesByActivity(a)
      BY <1>1, <1>2 DEF SearchCaseActivities, GetCaseActivitiesByActivity
    <2> QED BY <2>1, <2>2
  <1> QED BY <1>3, <1>4, <1>5, <1>6 DEF FilingAnswersAgree

(* What CloseCase does to one case. *)
LEMMA ClosedCase ==
  ASSUME CaseInv, NEW c \in DOMAIN cases, CloseCase(c)
  PROVE  IF c \in ListCases THEN c \in ListClosedCases' /\ c \notin ListOpenCases'
         ELSE c \notin ListClosedCases' \cup ListOpenCases'
  <1>1. PICK s \in ClosedStatus : UpdateCaseStatusById(c, s)
    BY DEF CloseCase
  <1>2. PICK row : row = [cases[c] EXCEPT !.status_id = s]
    OBVIOUS
  <1>3. UpdateCase(c, row)
    BY <1>1, <1>2 DEF UpdateCaseStatusById
  <1>4. row.status_id = s /\ row.is_deleted = cases[c].is_deleted
    BY <1>2 DEF CaseInv, CasesTypeOK, IsTable, Case
  <1>5. cases'[c] = row /\ c \in DOMAIN cases' /\ case_status' = case_status
    BY <1>3 DEF UpdateCase, CaseInv, CasesTypeOK, IsTable
  <1>6. case_status'[cases'[c].status_id].grouping = "Closed"
    BY <1>4, <1>5 DEF ClosedStatus
  <1> QED BY <1>4, <1>5, <1>6 DEF ListCases, ListClosedCases, ListOpenCases

(* CloseCase (cases.sql:98-102) puts the case it is called for among the       *)
(* closed ones, whatever became of the statuses, if it does not fail.          *)
THEOREM CloseCaseEffective == CasesSpec => CloseCaseCloses
  <1>1. CaseInv /\ [CasesNext]_caseVars
        => [\A c \in DOMAIN cases : CloseCase(c) =>
              IF c \in ListCases THEN c \in ListClosedCases' /\ c \notin ListOpenCases'
              ELSE c \notin ListClosedCases' \cup ListOpenCases']_caseVars
    BY ClosedCase
  <1> QED BY <1>1, CaseInitInv, CasesNextKeeps, PTL DEF CasesSpec, CloseCaseCloses

-----------------------------------------------------------------------------
(* Memberships: here too the references need no more than the types. *)

MembershipInv == MembershipsTypeOK /\ MembershipRefs

LEMMA TypeWritten ==
  ASSUME MembershipInv, NEW t \in TypeIds, NEW row \in MembershipType,
         CreateMembershipType(t, row) \/ UpdateMembershipType(t, row)
  PROVE  MembershipInv'
  <1>1. IsTable(membership_types, TypeIds, MembershipType)
    BY DEF MembershipInv, MembershipsTypeOK
  <1>2. /\ Writes(membership_types, membership_types', t, row)
        /\ row.member_of_contact_id \in DOMAIN contacts \cup {NULL}
        /\ UNCHANGED <<contacts, memberships, membership_status, membership_payments, membership_logs, contributions>>
    BY DEF CreateMembershipType, UpdateMembershipType, Writes
  <1>3. /\ IsTable(membership_types', TypeIds, MembershipType)
        /\ DOMAIN membership_types' = DOMAIN membership_types \cup {t}
        /\ membership_types'[t] = row
        /\ \A u \in DOMAIN membership_types \ {t} : membership_types'[u] = membership_types[u]
    BY <1>1, <1>2 DEF IsTable, Insert, Writes
  <1>4. MembershipRefs'
    BY <1>2, <1>3 DEF MembershipInv, MembershipRefs, MembershipFits, LogFits
  <1> QED BY <1>2, <1>3, <1>4 DEF MembershipInv, MembershipsTypeOK

LEMMA TypeKeeps ==
  ASSUME MembershipInv, NEW t \in TypeIds,
         ActivateMembershipType(t) \/ DeactivateMembershipType(t) \/ DeleteMembershipType(t)
  PROVE  MembershipInv'
  <1>1. IsTable(membership_types, TypeIds, MembershipType)
    BY DEF MembershipInv, MembershipsTypeOK
  <1>2. CASE ActivateMembershipType(t) \/ DeactivateMembershipType(t)
    <2>1. PICK act \in BOOLEAN : SetTypeActive(t, act)
      BY <1>2 DEF ActivateMembershipType, DeactivateMembershipType
    <2>2. PICK row : row = [membership_types[t] EXCEPT !.is_active = act]
      OBVIOUS
    <2>3. UpdateMembershipType(t, row) /\ t \in DOMAIN membership_types
      BY <2>1, <2>2 DEF SetTypeActive
    <2>4. row \in MembershipType
      BY <1>1, <2>2, <2>3 DEF IsTable, MembershipType, Flag
    <2> QED BY <2>3, <2>4, TypeWritten
  <1>3. CASE DeleteMembershipType(t)
    <2>1. /\ IsTable(membership_types', TypeIds, MembershipType)
          /\ DOMAIN membership_types' = DOMAIN membership_types \ {t}
          /\ \A u \in DOMAIN membership_types \ {t} : membership_types'[u] = membership_types[u]
      BY <1>1, <1>3 DEF DeleteMembershipType, IsTable, Without
    <2>2. MembershipRefs'
      BY <1>3, <2>1 DEF DeleteMembershipType, MembershipInv, MembershipRefs, MembershipFits, LogFits
    <2> QED BY <1>3, <2>1, <2>2 DEF DeleteMembershipType, MembershipInv, MembershipsTypeOK
  <1> QED BY <1>2, <1>3

LEMMA StatusWritten ==
  ASSUME MembershipInv, NEW s \in StatusIds, NEW row \in MembershipStatus,
         CreateMembershipStatus(s, row) \/ UpdateMembershipStatus(s, row)
  PROVE  MembershipInv'
  <1>1. IsTable(membership_status, StatusIds, MembershipStatus)
    BY DEF MembershipInv, MembershipsTypeOK
  <1>2. /\ Writes(membership_status, membership_status', s, row)
        /\ \A u \in DOMAIN membership_status \ {s} : membership_status[u].name # row.name
        /\ UNCHANGED <<contacts, memberships, membership_types, membership_payments, membership_logs, contributions>>
    BY DEF CreateMembershipStatus, UpdateMembershipStatus, Writes
  <1>3. /\ IsTable(membership_status', StatusIds, MembershipStatus)
        /\ DOMAIN membership_status' = DOMAIN membership_status \cup {s}
        /\ membership_status'[s] = row
        /\ \A u \in DOMAIN membership_status \ {s} : membership_status'[u] = membership_status[u]
    BY <1>1, <1>2 DEF IsTable, Insert, Writes
  <1>4. MembershipRefs'
    BY <1>2, <1>3 DEF MembershipInv, MembershipRefs, MembershipFits, LogFits
  <1> QED BY <1>2, <1>3, <1>4 DEF MembershipInv, MembershipsTypeOK

LEMMA StatusKeeps ==
  ASSUME MembershipInv, NEW s \in StatusIds,
         ActivateMembershipStatus(s) \/ DeactivateMembershipStatus(s) \/ DeleteMembershipStatus(s)
  PROVE  MembershipInv'
  <1>1. IsTable(membership_status, StatusIds, MembershipStatus)
    BY DEF MembershipInv, MembershipsTypeOK
  <1>2. CASE ActivateMembershipStatus(s) \/ DeactivateMembershipStatus(s)
    <2>1. PICK act \in BOOLEAN : SetStatusActive(s, act)
      BY <1>2 DEF ActivateMembershipStatus, DeactivateMembershipStatus
    <2>2. PICK row : row = [membership_status[s] EXCEPT !.is_active = act]
      OBVIOUS
    <2>3. UpdateMembershipStatus(s, row) /\ s \in DOMAIN membership_status
      BY <2>1, <2>2 DEF SetStatusActive
    <2>4. row \in MembershipStatus
      BY <1>1, <2>2, <2>3 DEF IsTable, MembershipStatus, Flag
    <2> QED BY <2>3, <2>4, StatusWritten
  <1>3. CASE DeleteMembershipStatus(s)
    <2>1. /\ IsTable(membership_status', StatusIds, MembershipStatus)
          /\ DOMAIN membership_status' = DOMAIN membership_status \ {s}
          /\ \A u \in DOMAIN membership_status \ {s} : membership_status'[u] = membership_status[u]
      BY <1>1, <1>3 DEF DeleteMembershipStatus, IsTable, Without
    <2>2. UNCHANGED <<contacts, memberships, membership_types, membership_payments, membership_logs, contributions>>
      BY <1>3 DEF DeleteMembershipStatus
    <2>3. /\ \A m \in DOMAIN memberships : memberships[m].status_id \in DOMAIN membership_status'
          /\ \A l \in DOMAIN membership_logs : membership_logs[l].status_id \in DOMAIN membership_status' \cup {NULL}
      BY <1>3, <2>1 DEF DeleteMembershipStatus, MembershipInv, MembershipRefs, MembershipFits, LogFits
    <2>4. \A u, v \in DOMAIN membership_status' : u # v => membership_status'[u].name # membership_status'[v].name
      BY <2>1 DEF MembershipInv, MembershipRefs
    <2>5. MembershipRefs'
      BY <2>2, <2>3, <2>4 DEF MembershipInv, MembershipRefs, MembershipFits, LogFits
    <2> QED BY <2>1, <2>2, <2>5 DEF MembershipInv, MembershipsTypeOK
  <1> QED BY <1>2, <1>3

LEMMA MembershipWritten ==
  ASSUME MembershipInv, NEW m \in MembershipIds, NEW row \in Membership,
         CreateMembership(m, row) \/ UpdateMembership(m, row)
  PROVE  MembershipInv'
  <1>1. IsTable(memberships, MembershipIds, Membership)
    BY DEF MembershipInv, MembershipsTypeOK
  <1>2. /\ Writes(memberships, memberships', m, row)
        /\ MembershipFits(row)
        /\ UNCHANGED <<contacts, membership_types, membership_status, membership_payments, membership_logs, contributions>>
    BY DEF CreateMembership, UpdateMembership, Writes
  <1>3. /\ IsTable(memberships', MembershipIds, Membership)
        /\ DOMAIN memberships' = DOMAIN memberships \cup {m}
        /\ memberships'[m] = row
        /\ \A n \in DOMAIN memberships \ {m} : memberships'[n] = memberships[n]
    BY <1>1, <1>2 DEF IsTable, Insert, Writes
  <1>4. MembershipRefs'
    BY <1>2, <1>3 DEF MembershipInv, MembershipRefs, MembershipFits, LogFits
  <1> QED BY <1>2, <1>3, <1>4 DEF MembershipInv, MembershipsTypeOK

LEMMA MembershipFieldWritten ==
  ASSUME MembershipInv, NEW m \in MembershipIds,
         (\E s \in StatusIds : UpdateMembershipStatusById(m, s)) \/ (\E d \in Terms \cup {NULL} : ExtendMembership(m, d))
  PROVE  MembershipInv'
  <1>1. m \in DOMAIN memberships
    BY DEF UpdateMembershipStatusById, ExtendMembership
  <1>2. memberships[m] \in Membership
    BY <1>1 DEF MembershipInv, MembershipsTypeOK, IsTable
  <1>3. PICK row : /\ UpdateMembership(m, row)
                   /\ \/ \E s \in StatusIds : row = [memberships[m] EXCEPT !.status_id = s]
                      \/ \E d \in Terms \cup {NULL} : row = [memberships[m] EXCEPT !.end_date = d]
    BY DEF UpdateMembershipStatusById, ExtendMembership
  <1>4. row \in Membership
    BY <1>2, <1>3 DEF Membership
  <1> QED BY <1>3, <1>4, MembershipWritten

LEMMA LogWritten ==
  ASSUME MembershipInv, NEW l \in LogIds, NEW row \in MembershipLog,
         CreateMembershipLog(l, row) \/ UpdateMembershipLog(l, row)
  PROVE  MembershipInv'
  <1>1. IsTable(membership_logs, LogIds, MembershipLog)
    BY DEF MembershipInv, MembershipsTypeOK
  <1>2. /\ Writes(membership_logs, membership_logs', l, row)
        /\ LogFits(row)
        /\ UNCHANGED <<contacts, memberships, membership_types, membership_status, membership_payments, contributions>>
    BY DEF CreateMembershipLog, UpdateMembershipLog, Writes
  <1>3. /\ IsTable(membership_logs', LogIds, MembershipLog)
        /\ DOMAIN membership_logs' = DOMAIN membership_logs \cup {l}
        /\ membership_logs'[l] = row
        /\ \A k \in DOMAIN membership_logs \ {l} : membership_logs'[k] = membership_logs[k]
    BY <1>1, <1>2 DEF IsTable, Insert, Writes
  <1>4. MembershipRefs'
    BY <1>2, <1>3 DEF MembershipInv, MembershipRefs, MembershipFits, LogFits
  <1> QED BY <1>2, <1>3, <1>4 DEF MembershipInv, MembershipsTypeOK

LEMMA PaymentWritten ==
  ASSUME MembershipInv, NEW p \in MembershipPaymentIds, NEW row \in MembershipPayment,
         CreateMembershipPayment(p, row) \/ UpdateMembershipPayment(p, row)
  PROVE  MembershipInv'
  <1>1. IsTable(membership_payments, MembershipPaymentIds, MembershipPayment)
    BY DEF MembershipInv, MembershipsTypeOK
  <1>2. /\ Writes(membership_payments, membership_payments', p, row)
        /\ row.membership_id \in DOMAIN memberships /\ row.contribution_id \in DOMAIN contributions
        /\ UNCHANGED <<contacts, memberships, membership_types, membership_status, membership_logs, contributions>>
    BY DEF CreateMembershipPayment, UpdateMembershipPayment, Writes
  <1>3. /\ IsTable(membership_payments', MembershipPaymentIds, MembershipPayment)
        /\ DOMAIN membership_payments' = DOMAIN membership_payments \cup {p}
        /\ membership_payments'[p] = row
        /\ \A q \in DOMAIN membership_payments \ {p} : membership_payments'[q] = membership_payments[q]
    BY <1>1, <1>2 DEF IsTable, Insert, Writes
  <1>4. MembershipRefs'
    BY <1>2, <1>3 DEF MembershipInv, MembershipRefs, MembershipFits, LogFits
  <1> QED BY <1>2, <1>3, <1>4 DEF MembershipInv, MembershipsTypeOK

LEMMA PaymentStatusWritten ==
  ASSUME MembershipInv, NEW p \in MembershipPaymentIds, NEW st \in PaymentStates \cup {NULL}, UpdatePaymentStatus(p, st)
  PROVE  MembershipInv'
  <1>1. PICK row : row = [membership_payments[p] EXCEPT !.payment_status = st]
    OBVIOUS
  <1>2. UpdateMembershipPayment(p, row) /\ p \in DOMAIN membership_payments
    BY <1>1 DEF UpdatePaymentStatus
  <1>3. row \in MembershipPayment
    BY <1>1, <1>2 DEF MembershipInv, MembershipsTypeOK, IsTable, MembershipPayment
  <1> QED BY <1>2, <1>3, PaymentWritten

LEMMA ContributionWritten ==
  ASSUME MembershipInv, NEW k \in ContributionIds, NEW st \in PaymentStates \cup {NULL},
         (\E c \in ContactIds : CreateContribution(k, [contact_id |-> c, status |-> st])) \/ UpdateContribution(k, st)
  PROVE  MembershipInv'
  <1>1. IsTable(contributions, ContributionIds, Contribution)
    BY DEF MembershipInv, MembershipsTypeOK
  <1>2. UNCHANGED <<contacts, memberships, membership_types, membership_status, membership_payments, membership_logs>>
    BY DEF CreateContribution, UpdateContribution, memberTables
  <1>3. PICK row \in Contribution : row.contact_id \in DOMAIN contacts /\ Writes(contributions, contributions', k, row)
    <2>1. ASSUME NEW c \in ContactIds, CreateContribution(k, [contact_id |-> c, status |-> st])
          PROVE  \E row \in Contribution : row.contact_id \in DOMAIN contacts /\ Writes(contributions, contributions', k, row)
      BY <2>1 DEF CreateContribution, Contribution, Writes
    <2>2. CASE UpdateContribution(k, st)
      <3>1. /\ k \in DOMAIN contributions /\ contributions[k] \in Contribution
            /\ contributions[k].contact_id \in DOMAIN contacts
        BY <1>1, <2>2 DEF UpdateContribution, IsTable, MembershipInv, MembershipRefs
      <3>2. PICK row : row = [contributions[k] EXCEPT !.status = st]
        OBVIOUS
      <3>3. row \in Contribution /\ row.contact_id = contributions[k].contact_id
        BY <3>1, <3>2 DEF Contribution
      <3> QED BY <2>2, <3>1, <3>2, <3>3 DEF UpdateContribution, Writes
    <2> QED BY <2>1, <2>2
  <1>4. /\ IsTable(contributions', ContributionIds, Contribution)
        /\ DOMAIN contributions' = DOMAIN contributions \cup {k}
        /\ contributions'[k] = row
        /\ \A j \in DOMAIN contributions \ {k} : contributions'[j] = contributions[j]
    BY <1>1, <1>3 DEF IsTable, Insert, Writes
  <1>5. MembershipRefs'
    BY <1>2, <1>3, <1>4 DEF MembershipInv, MembershipRefs, MembershipFits, LogFits
  <1> QED BY <1>2, <1>4, <1>5 DEF MembershipInv, MembershipsTypeOK

(* Payments and logs that go leave nothing behind. *)
LEMMA PaymentOrLogDeleted ==
  ASSUME MembershipInv,
         \/ \E p \in MembershipPaymentIds : DeleteMembershipPayment(p)
         \/ \E l \in LogIds : DeleteMembershipLog(l)
  PROVE  MembershipInv'
  <1>1. ASSUME NEW p \in MembershipPaymentIds, DeleteMembershipPayment(p) PROVE MembershipInv'
    <2>1. /\ IsTable(membership_payments', MembershipPaymentIds, MembershipPayment)
          /\ DOMAIN membership_payments' \subseteq DOMAIN membership_payments
          /\ \A q \in DOMAIN membership_payments' : membership_payments'[q] = membership_payments[q]
      BY <1>1 DEF MembershipInv, MembershipsTypeOK, DeleteMembershipPayment, IsTable, Without
    <2>2. MembershipRefs'
      BY <1>1, <2>1 DEF DeleteMembershipPayment, MembershipInv, MembershipRefs, MembershipFits, LogFits
    <2> QED BY <1>1, <2>1, <2>2 DEF DeleteMembershipPayment, MembershipInv, MembershipsTypeOK
  <1>2. ASSUME NEW l \in LogIds, DeleteMembershipLog(l) PROVE MembershipInv'
    <2>1. /\ IsTable(membership_logs', LogIds, MembershipLog)
          /\ DOMAIN membership_logs' \subseteq DOMAIN membership_logs
          /\ \A k \in DOMAIN membership_logs' : membership_logs'[k] = membership_logs[k]
      BY <1>2 DEF MembershipInv, MembershipsTypeOK, DeleteMembershipLog, IsTable, Without
    <2>2. MembershipRefs'
      BY <1>2, <2>1 DEF DeleteMembershipLog, MembershipInv, MembershipRefs, MembershipFits, LogFits
    <2> QED BY <1>2, <2>1, <2>2 DEF DeleteMembershipLog, MembershipInv, MembershipsTypeOK
  <1> QED BY <1>1, <1>2

(* What goes with memberships M, contributions K and the contacts that go: a   *)
(* single membership or contribution, or all that a contact has.               *)
LEMMA MembershipsDropped ==
  ASSUME MembershipInv, NEW M, NEW K, DropMemberships(M), Unpaying(K, M),
         contributions' = Without(contributions, K), UNCHANGED <<membership_types, membership_status>>,
         \A m \in DOMAIN memberships \ M : memberships[m].contact_id \in DOMAIN contacts',
         \A k \in DOMAIN contributions \ K : contributions[k].contact_id \in DOMAIN contacts',
         \A t \in DOMAIN membership_types : membership_types[t].member_of_contact_id \in DOMAIN contacts' \cup {NULL},
         \A l \in DOMAIN membership_logs \ LogsFor(M) :
           membership_logs[l].modified_by_contact_id \in DOMAIN contacts' \cup {NULL}
  PROVE  MembershipInv'
  <1>0. PICK P, L : P = PaymentsFor(M) /\ L = LogsFor(M)
    OBVIOUS
  <1>1. /\ IsTable(memberships', MembershipIds, Membership)
        /\ DOMAIN memberships' = DOMAIN memberships \ M
        /\ \A m \in DOMAIN memberships \ M : memberships'[m] = memberships[m]
    BY DEF MembershipInv, MembershipsTypeOK, DropMemberships, IsTable, Without
  <1>2. /\ IsTable(membership_payments', MembershipPaymentIds, MembershipPayment)
        /\ DOMAIN membership_payments' = DOMAIN membership_payments \ P
        /\ \A p \in DOMAIN membership_payments \ P : membership_payments'[p] = membership_payments[p]
    BY <1>0 DEF MembershipInv, MembershipsTypeOK, DropMemberships, IsTable, Without
  <1>3. /\ IsTable(membership_logs', LogIds, MembershipLog)
        /\ DOMAIN membership_logs' = DOMAIN membership_logs \ L
        /\ \A l \in DOMAIN membership_logs \ L : membership_logs'[l] = membership_logs[l]
    BY <1>0 DEF MembershipInv, MembershipsTypeOK, DropMemberships, IsTable, Without
  <1>4. /\ IsTable(contributions', ContributionIds, Contribution)
        /\ DOMAIN contributions' = DOMAIN contributions \ K
        /\ \A k \in DOMAIN contributions \ K : contributions'[k] = contributions[k]
    BY DEF MembershipInv, MembershipsTypeOK, IsTable, Without
  <1>5. \A m \in DOMAIN memberships' : /\ memberships'[m].contact_id \in DOMAIN contacts'
                                       /\ memberships'[m].membership_type_id \in DOMAIN membership_types'
                                       /\ memberships'[m].status_id \in DOMAIN membership_status'
                                       /\ memberships'[m].contribution_id \in DOMAIN contributions' \cup {NULL}
    BY <1>1, <1>4 DEF Unpaying, MembershipInv, MembershipRefs, MembershipFits, LogFits
  <1>6. \A p \in DOMAIN membership_payments' : /\ membership_payments'[p].membership_id \in DOMAIN memberships'
                                               /\ membership_payments'[p].contribution_id \in DOMAIN contributions'
    BY <1>0, <1>1, <1>2, <1>4 DEF Unpaying, PaymentsFor, MembershipInv, MembershipRefs
  <1>7. \A l \in DOMAIN membership_logs' :
          /\ membership_logs'[l].membership_id \in DOMAIN memberships'
          /\ membership_logs'[l].status_id \in DOMAIN membership_status' \cup {NULL}
          /\ membership_logs'[l].membership_type_id \in DOMAIN membership_types' \cup {NULL}
          /\ membership_logs'[l].modified_by_contact_id \in DOMAIN contacts' \cup {NULL}
    BY <1>0, <1>1, <1>3 DEF LogsFor, LogFits, MembershipInv, MembershipRefs
  <1>8. MembershipRefs'
    BY <1>4, <1>5, <1>6, <1>7 DEF MembershipInv, MembershipRefs, MembershipFits, LogFits
  <1> QED BY <1>1, <1>2, <1>3, <1>4, <1>8 DEF MembershipInv, MembershipsTypeOK

LEMMA MembershipOrContributionDeleted ==
  ASSUME MembershipInv,
         \/ \E m \in MembershipIds : DeleteMembership(m)
         \/ \E k \in ContributionIds : DeleteContribution(k)
  PROVE  MembershipInv'
  <1>1. ASSUME NEW m \in MembershipIds, DeleteMembership(m) PROVE MembershipInv'
    <2>1. DropMemberships({m}) /\ UNCHANGED <<contacts, membership_types, membership_status, contributions>>
      BY <1>1 DEF DeleteMembership
    <2>2. contributions' = Without(contributions, {}) /\ Unpaying({}, {m})
      BY <2>1 DEF MembershipInv, MembershipsTypeOK, IsTable, Without, Unpaying
    <2> QED BY <2>1, <2>2, MembershipsDropped DEF MembershipInv, MembershipRefs, MembershipFits, LogFits
  <1>2. ASSUME NEW k \in ContributionIds, DeleteContribution(k) PROVE MembershipInv'
    <2>1. /\ contributions' = Without(contributions, {k}) /\ Unpaying({k}, {})
          /\ UNCHANGED <<contacts, memberships, membership_types, membership_status, membership_payments, membership_logs>>
      BY <1>2 DEF DeleteContribution, memberTables
    <2>2. PaymentsFor({}) = {} /\ LogsFor({}) = {}
      BY DEF PaymentsFor, LogsFor
    <2>3. DropMemberships({})
      BY <2>1, <2>2 DEF DropMemberships, MembershipInv, MembershipsTypeOK, IsTable, Without
    <2> QED BY <2>1, <2>3, MembershipsDropped DEF MembershipInv, MembershipRefs, MembershipFits, LogFits
  <1> QED BY <1>1, <1>2

LEMMA MembershipContactKeeps ==
  ASSUME MembershipInv, NEW c \in ContactIds, CreateMember(c) \/ DeleteMember(c)
  PROVE  MembershipInv'
  <1>1. CASE CreateMember(c)
    <2>1. /\ DOMAIN contacts \subseteq DOMAIN contacts'
          /\ UNCHANGED <<memberships, membership_types, membership_status, membership_payments, membership_logs, contributions>>
      BY <1>1 DEF CreateMember, CreateContact, Insert, memberTables
    <2>2. MembershipRefs'
      BY <2>1 DEF MembershipInv, MembershipRefs, MembershipFits, LogFits
    <2> QED BY <2>1, <2>2 DEF MembershipInv, MembershipsTypeOK
  <1>2. CASE DeleteMember(c)
    <2>1. PICK M, K : /\ M = {m \in DOMAIN memberships : memberships[m].contact_id = c}
                      /\ K = {k \in DOMAIN contributions : contributions[k].contact_id = c}
      OBVIOUS
    <2>2. /\ DropMemberships(M) /\ Unpaying(K, M) /\ contributions' = Without(contributions, K)
          /\ UNCHANGED <<membership_types, membership_status>>
          /\ \A t \in DOMAIN membership_types : membership_types[t].member_of_contact_id # c
          /\ \A l \in DOMAIN membership_logs \ LogsFor(M) : membership_logs[l].modified_by_contact_id # c
          /\ DOMAIN contacts' = DOMAIN contacts \ {c}
      BY <1>2, <2>1 DEF DeleteMember, DeleteContact, Without
    <2>3. /\ \A m \in DOMAIN memberships \ M : memberships[m].contact_id \in DOMAIN contacts'
          /\ \A k \in DOMAIN contributions \ K : contributions[k].contact_id \in DOMAIN contacts'
          /\ \A t \in DOMAIN membership_types : membership_types[t].member_of_contact_id \in DOMAIN contacts' \cup {NULL}
          /\ \A l \in DOMAIN membership_logs \ LogsFor(M) :
               membership_logs[l].modified_by_contact_id \in DOMAIN contacts' \cup {NULL}
      BY <2>1, <2>2 DEF MembershipInv, MembershipRefs, MembershipFits, LogFits
    <2> QED BY <2>2, <2>3, MembershipsDropped
  <1> QED BY <1>1, <1>2

LEMMA MembershipInitInv == ContactsInit /\ MembershipsInit => MembershipInv
  BY DEF ContactsInit, MembershipsInit, MembershipInv, MembershipsTypeOK, MembershipRefs, IsTable, NoRows

LEMMA MembersKeep == MembershipInv /\ MembersNext => MembershipInv'
  <1> SUFFICES ASSUME MembershipInv, MembersNext PROVE MembershipInv'
    OBVIOUS
  <1>1. ASSUME NEW c \in ContactIds, CreateMember(c) \/ DeleteMember(c)
        PROVE  MembershipInv'
    BY <1>1, MembershipContactKeeps
  <1>2. ASSUME NEW t \in TypeIds,
               \/ ActivateMembershipType(t) \/ DeactivateMembershipType(t) \/ DeleteMembershipType(t)
               \/ \E n \in MemberNames, c \in ContactIds \cup {NULL} :
                    CreateMembershipType(t, SomeType(n, c)) \/ UpdateMembershipType(t, SomeType(n, c))
        PROVE  MembershipInv'
    <2>1. \A n \in MemberNames, c \in ContactIds \cup {NULL} : SomeType(n, c) \in MembershipType
      BY DEF SomeType, MembershipType, Flag
    <2> QED BY <1>2, <2>1, TypeKeeps, TypeWritten
  <1>3. ASSUME NEW s \in StatusIds,
               \/ ActivateMembershipStatus(s) \/ DeactivateMembershipStatus(s) \/ DeleteMembershipStatus(s)
               \/ \E n \in MemberNames, cur \in Flags :
                    CreateMembershipStatus(s, SomeStatus(n, cur)) \/ UpdateMembershipStatus(s, SomeStatus(n, cur))
        PROVE  MembershipInv'
    <2>1. \A n \in MemberNames, cur \in Flags : SomeStatus(n, cur) \in MembershipStatus
      BY RelationalAssumption DEF SomeStatus, MembershipStatus, Flag
    <2> QED BY <1>3, <2>1, StatusKeeps, StatusWritten
  <1>4. ASSUME NEW m \in MembershipIds,
               \/ \E s \in StatusIds : UpdateMembershipStatusById(m, s)
               \/ \E d \in Terms \cup {NULL} : ExtendMembership(m, d)
        PROVE  MembershipInv'
    BY <1>4, MembershipFieldWritten
  <1>5. ASSUME NEW m \in MembershipIds, NEW c \in ContactIds, NEW t \in TypeIds, NEW s \in StatusIds,
               NEW tst \in Flags, NEW d \in Terms \cup {NULL}, NEW row,
               row = [contact_id |-> c, membership_type_id |-> t, status_id |-> s,
                      end_date |-> d, contribution_id |-> NULL, is_test |-> tst],
               CreateMembership(m, row) \/ UpdateMembership(m, row)
        PROVE  MembershipInv'
    <2>1. row \in Membership
      BY <1>5, RelationalAssumption DEF Membership
    <2> QED BY <1>5, <2>1, MembershipWritten
  <1>6. ASSUME NEW l \in LogIds, NEW m \in MembershipIds, NEW c \in ContactIds \cup {NULL},
               NEW s \in StatusIds \cup {NULL}, NEW t \in TypeIds \cup {NULL}, NEW row,
               row = [membership_id |-> m, modified_by_contact_id |-> c, status_id |-> s, membership_type_id |-> t],
               CreateMembershipLog(l, row) \/ UpdateMembershipLog(l, row)
        PROVE  MembershipInv'
    <2>1. row \in MembershipLog
      BY <1>6 DEF MembershipLog
    <2> QED BY <1>6, <2>1, LogWritten
  <1> QED
    BY <1>1, <1>2, <1>3, <1>4, <1>5, <1>6, PaymentOrLogDeleted, MembershipOrContributionDeleted DEF MembersNext

LEMMA ContributionsKeep == MembershipInv /\ ContributionsNext => MembershipInv'
  <1> SUFFICES ASSUME MembershipInv, ContributionsNext PROVE MembershipInv'
    OBVIOUS
  <1>1. ASSUME NEW c \in ContactIds, CreateMember(c) \/ DeleteMember(c)
        PROVE  MembershipInv'
    BY <1>1, MembershipContactKeeps
  <1>2. ASSUME NEW t \in TypeIds, NEW n \in MemberNames, CreateMembershipType(t, SomeType(n, NULL))
        PROVE  MembershipInv'
    <2>1. SomeType(n, NULL) \in MembershipType
      BY DEF SomeType, MembershipType, Flag
    <2> QED BY <1>2, <2>1, TypeWritten
  <1>3. ASSUME NEW s \in StatusIds, NEW n \in MemberNames, CreateMembershipStatus(s, SomeStatus(n, TRUE))
        PROVE  MembershipInv'
    <2>1. SomeStatus(n, TRUE) \in MembershipStatus
      BY DEF SomeStatus, MembershipStatus, Flag
    <2> QED BY <1>3, <2>1, StatusWritten
  <1>4. ASSUME NEW m \in MembershipIds, NEW c \in ContactIds, NEW t \in TypeIds, NEW s \in StatusIds,
               NEW k \in ContributionIds \cup {NULL}, NEW d \in Terms, NEW row,
               row = [contact_id |-> c, membership_type_id |-> t, status_id |-> s, end_date |-> d,
                      contribution_id |-> k, is_test |-> NULL],
               CreateMembership(m, row)
        PROVE  MembershipInv'
    <2>1. row \in Membership
      BY <1>4 DEF Membership, Flag
    <2> QED BY <1>4, <2>1, MembershipWritten
  <1>5. ASSUME NEW k \in ContributionIds, NEW st \in PaymentStates \cup {NULL},
               \/ UpdateContribution(k, st)
               \/ \E c \in ContactIds : CreateContribution(k, [contact_id |-> c, status |-> st])
        PROVE  MembershipInv'
    BY <1>5, ContributionWritten
  <1>6. ASSUME NEW p \in MembershipPaymentIds, NEW st \in PaymentStates \cup {NULL}, UpdatePaymentStatus(p, st)
        PROVE  MembershipInv'
    BY <1>6, PaymentStatusWritten
  <1>7. ASSUME NEW p \in MembershipPaymentIds, NEW st \in PaymentStates \cup {NULL}, NEW m \in MembershipIds,
               NEW k \in ContributionIds, NEW row,
               row = [membership_id |-> m, contribution_id |-> k, payment_status |-> st],
               CreateMembershipPayment(p, row) \/ UpdateMembershipPayment(p, row)
        PROVE  MembershipInv'
    <2>1. row \in MembershipPayment
      BY <1>7 DEF MembershipPayment
    <2> QED BY <1>7, <2>1, PaymentWritten
  <1> QED
    BY <1>1, <1>2, <1>3, <1>4, <1>5, <1>6, <1>7, PaymentOrLogDeleted, MembershipOrContributionDeleted
       DEF ContributionsNext

LEMMA MembershipsNextKeeps == MembershipInv /\ [MembershipsNext]_membershipVars => MembershipInv'
  <1>1. MembershipInv /\ UNCHANGED membershipVars => MembershipInv'
    BY DEF membershipVars, memberTables, MembershipInv, MembershipsTypeOK, MembershipRefs, MembershipFits, LogFits
  <1> QED BY <1>1, MembersKeep, ContributionsKeep DEF MembershipsNext

(* Memberships, their kinds, payments and logs, and contributions keep rows of *)
(* their types under ids of their own (migrations/006_contributions.sql,       *)
(* 016_membership_system.sql).                                                 *)
THEOREM MembershipTypeCorrect == MembershipsSpec => []MembershipsTypeOK
  <1>1. MembershipInv => MembershipsTypeOK
    BY DEF MembershipInv
  <1> QED BY <1>1, MembershipInitInv, MembershipsNextKeeps, PTL DEF MembershipsSpec

(* However types, statuses, memberships, contributions, logs and contacts come *)
(* and go, no row refers to one that is gone, a log to its type and its status *)
(* included (016_membership_system.sql:80-92), no two statuses share a name,   *)
(* and the contribution that pays for a membership is there as long as the     *)
(* payment is (memberships.sql.go, membership_payments.sql.go, contributions.sql.go,   *)
(* and the cascades behind DeleteMembership and DeleteContact).                *)
THEOREM MembershipReferences == MembershipsSpec => []MembershipRefs
  <1>1. MembershipInv => MembershipRefs
    BY DEF MembershipInv
  <1> QED BY <1>1, MembershipInitInv, MembershipsNextKeeps, PTL DEF MembershipsSpec

(* What the queries of memberships answer follows from the references. *)
LEMMA MembershipAnswers == ASSUME MembershipsTypeOK, MembershipRefs PROVE MembershipAnswersAgree
  <1>1. /\ IsFiniteSet(DOMAIN memberships) /\ IsFiniteSet(DOMAIN contributions)
        /\ \A m \in DOMAIN memberships : memberships[m].is_test \in Flag
        /\ \A k \in DOMAIN contributions : contributions[k].status \in PaymentStates \cup {NULL}
    <2>1. DOMAIN memberships \in SUBSET MembershipIds /\ DOMAIN contributions \in SUBSET ContributionIds
      BY DEF MembershipsTypeOK, IsTable
    <2>2. IsFiniteSet(DOMAIN memberships) /\ IsFiniteSet(DOMAIN contributions)
      BY <2>1, MembershipsAssumption, FS_Subset
    <2> QED BY <2>2 DEF MembershipsTypeOK, IsTable, Membership, Contribution
  <1>2. \A m \in DOMAIN memberships :
          /\ memberships[m].contact_id \in DOMAIN contacts
          /\ memberships[m].membership_type_id \in DOMAIN membership_types
          /\ memberships[m].status_id \in DOMAIN membership_status
    BY DEF MembershipRefs, MembershipFits
  <1>3. /\ \A p \in DOMAIN membership_payments : /\ membership_payments[p].membership_id \in DOMAIN memberships
                                                 /\ membership_payments[p].contribution_id \in DOMAIN contributions
        /\ \A l \in DOMAIN membership_logs : LogFits(membership_logs[l])
        /\ \A k \in DOMAIN contributions : contributions[k].contact_id \in DOMAIN contacts
    BY DEF MembershipRefs
  <1>4. ASSUME NEW tst \in BOOLEAN
        PROVE  /\ ListMemberships(tst) = UNION {ListMembershipsByStatus(s, tst) : s \in DOMAIN membership_status}
               /\ ListMemberships(tst) = UNION {ListMembershipsByType(t, tst) : t \in DOMAIN membership_types}
               /\ \A m \in ListMemberships(tst) :
                    <<memberships[m].membership_type_id, memberships[m].status_id>> \in DOMAIN GetMembershipStats(tst)
               /\ \A K \in SUBSET ContactIds :
                    SearchMemberships(K, tst) = ListMemberships(tst) \cap UNION {GetMembershipByContact(c) : c \in K}
    <2>1. ListMemberships(tst) = UNION {ListMembershipsByStatus(s, tst) : s \in DOMAIN membership_status}
      BY <1>2 DEF ListMemberships, ListMembershipsByStatus
    <2>2. ListMemberships(tst) = UNION {ListMembershipsByType(t, tst) : t \in DOMAIN membership_types}
      BY <1>2 DEF ListMemberships, ListMembershipsByType
    <2>3. \A m \in ListMemberships(tst) :
            <<memberships[m].membership_type_id, memberships[m].status_id>> \in DOMAIN GetMembershipStats(tst)
      BY <1>2 DEF ListMemberships, GetMembershipStats
    <2>4. \A K : \A m : m \in SearchMemberships(K, tst)
                       <=> m \in ListMemberships(tst) /\ \E c \in K : m \in GetMembershipByContact(c)
      BY <1>2 DEF ListMemberships, SearchMemberships, GetMembershipByContact
    <2>5. \A K \in SUBSET ContactIds :
            SearchMemberships(K, tst) = ListMemberships(tst) \cap UNION {GetMembershipByContact(c) : c \in K}
      BY <2>4
    <2> QED BY <2>1, <2>2, <2>3, <2>5
  <1>5. ASSUME NEW c \in ContactIds
        PROVE  Cardinality(GetMembershipByContact(c)) = GetMembershipCount(c, TRUE) + GetMembershipCount(c, FALSE)
                 + Cardinality({m \in GetMembershipByContact(c) : memberships[m].is_test = NULL})
    <2> DEFINE M(f) == {m \in DOMAIN memberships : memberships[m].contact_id = c /\ memberships[m].is_test = f}
    <2>1. \A f : IsFiniteSet(M(f))
      <3>1. \A f : M(f) \in SUBSET DOMAIN memberships
        OBVIOUS
      <3> QED BY <1>1, <3>1, FS_Subset
    <2>2. M(TRUE) \cap M(FALSE) = {} /\ M(TRUE) \cap M(NULL) = {} /\ M(FALSE) \cap M(NULL) = {}
      BY RelationalAssumption
    <2>3. GetMembershipByContact(c) = M(TRUE) \cup M(FALSE) \cup M(NULL)
      BY <1>1 DEF GetMembershipByContact, Flag
    <2>4. {m \in GetMembershipByContact(c) : memberships[m].is_test = NULL} = M(NULL)
      BY DEF GetMembershipByContact
    <2>5. GetMembershipCount(c, TRUE) = Cardinality(M(TRUE)) /\ GetMembershipCount(c, FALSE) = Cardinality(M(FALSE))
      <3>1. \A f \in BOOLEAN : {m \in DOMAIN memberships : memberships[m].contact_id = c /\ Eq(memberships[m].is_test, f)} = M(f)
        BY RelationalAssumption DEF Eq
      <3> QED BY <3>1 DEF GetMembershipCount
    <2> HIDE DEF M
    <2>6. Cardinality(M(TRUE) \cup M(FALSE) \cup M(NULL)) = Cardinality(M(TRUE)) + Cardinality(M(FALSE)) + Cardinality(M(NULL))
      <3> DEFINE test == M(TRUE)
                 real == M(FALSE)
                 neither == M(NULL)
      <3>1. /\ IsFiniteSet(test) /\ IsFiniteSet(real) /\ IsFiniteSet(neither)
            /\ test \cap real = {} /\ test \cap neither = {} /\ real \cap neither = {}
        BY <2>1, <2>2
      <3> HIDE DEF test, real, neither
      <3>2. Cardinality(test \cup real \cup neither) = Cardinality(test) + Cardinality(real) + Cardinality(neither)
        BY <3>1, ThreeCount
      <3> QED BY <3>2 DEF test, real, neither
    <2> QED BY <2>3, <2>4, <2>5, <2>6
  <1>6. ASSUME NEW K \in SUBSET ContactIds, NEW M, M = UNION {GetMembershipByContact(c) : c \in K}
        PROVE  /\ SearchMembershipLogs(K) = UNION {GetMembershipLogsByMembership(m) : m \in M}
               /\ SearchMembershipPayments(K) = UNION {GetMembershipPaymentsByMembership(m) : m \in M}
               /\ SearchContributions(K) = UNION {GetContributionsByContact(c) : c \in K}
    <2>1. \A m : m \in M <=> m \in DOMAIN memberships /\ memberships[m].contact_id \in K
      BY <1>6 DEF GetMembershipByContact
    <2>2. \A l : /\ l \in SearchMembershipLogs(K)
                    <=> l \in DOMAIN membership_logs /\ memberships[membership_logs[l].membership_id].contact_id \in K
                 /\ (\E m \in M : l \in GetMembershipLogsByMembership(m))
                    <=> l \in DOMAIN membership_logs /\ memberships[membership_logs[l].membership_id].contact_id \in K
      BY <1>2, <1>3, <2>1 DEF SearchMembershipLogs, GetMembershipLogsByContact, GetMembershipLogsByMembership, LogFits
    <2>3. \A p : p \in SearchMembershipPayments(K) <=> \E m \in M : p \in GetMembershipPaymentsByMembership(m)
      BY <1>2, <1>3, <2>1 DEF SearchMembershipPayments, GetMembershipPaymentsByMembership
    <2>4. \A k : k \in SearchContributions(K) <=> \E c \in K : k \in GetContributionsByContact(c)
      BY <1>3 DEF SearchContributions, GetContributionsByContact
    <2>5. SearchMembershipLogs(K) = UNION {GetMembershipLogsByMembership(m) : m \in M}
      BY <2>2
    <2>6. SearchMembershipPayments(K) = UNION {GetMembershipPaymentsByMembership(m) : m \in M}
      BY <2>3
    <2> QED BY <2>4, <2>5, <2>6
  <1>7. ASSUME NEW n \in MemberNames PROVE Cardinality(GetMembershipStatusByName(n)) <= 1
    <2>1. \A s, t \in GetMembershipStatusByName(n) : s = t
      BY DEF GetMembershipStatusByName, MembershipRefs
    <2> QED BY <2>1, LoneCount
  <1>8. ASSUME NEW l \in ListMembershipLogs, NEW log, log = membership_logs[l]
        PROVE  /\ l \in GetMembershipAuditTrail(log.membership_id) /\ GetMembership(log.membership_id) # {}
               /\ log.status_id # NULL => GetMembershipStatus(log.status_id) # {} /\ l \in ListMembershipLogsByStatus(log.status_id)
               /\ log.membership_type_id # NULL => GetMembershipType(log.membership_type_id) # {}
               /\ log.modified_by_contact_id # NULL => l \in UNION {ListMembershipLogsByModifier(c) : c \in ListAllContacts}
    <2>1. l \in DOMAIN membership_logs /\ LogFits(log)
      BY <1>3, <1>8 DEF ListMembershipLogs
    <2>2. log.modified_by_contact_id # NULL
          => log.modified_by_contact_id \in ListAllContacts /\ l \in ListMembershipLogsByModifier(log.modified_by_contact_id)
      BY <1>8, <2>1 DEF LogFits, ListAllContacts, ListMembershipLogsByModifier, Eq
    <2>3. log.status_id # NULL => GetMembershipStatus(log.status_id) # {} /\ l \in ListMembershipLogsByStatus(log.status_id)
      BY <1>8, <2>1 DEF LogFits, GetMembershipStatus, ListMembershipLogsByStatus, Eq
    <2> QED BY <1>8, <2>1, <2>2, <2>3 DEF LogFits, GetMembershipAuditTrail, GetMembership, GetMembershipType
  <1>9. /\ ListMembershipPayments = UNION {GetMembershipPaymentsByContribution(k) : k \in ListContributions}
        /\ ListContributions = DOMAIN contributions
    <2>1. ListContributions = DOMAIN contributions
      BY <1>3 DEF ListContributions
    <2>2. \A p : p \in ListMembershipPayments <=> \E k \in DOMAIN contributions : p \in GetMembershipPaymentsByContribution(k)
      BY <1>3 DEF ListMembershipPayments, GetMembershipPaymentsByContribution
    <2> QED BY <2>1, <2>2
  <1>10. UNION {ListContributionsByStatus(st) : st \in PaymentStates} = {k \in ListContributions : contributions[k].status # NULL}
    <2>1. \A k : (\E st \in PaymentStates : k \in ListContributionsByStatus(st))
                 <=> k \in ListContributions /\ contributions[k].status # NULL
      BY <1>1, MembershipsAssumption DEF ListContributionsByStatus, ListContributions, Eq
    <2> QED BY <2>1
  <1>11. ASSUME NEW st \in PaymentStates
         PROVE  /\ CountContributionsByStatus(st) = Cardinality(ListContributionsByStatus(st))
                /\ \A other \in PaymentStates \ {st} :
                     CountContributionsByStatus(st) + CountContributionsByStatus(other) <= CountContributions
    <2> DEFINE K(x) == {k \in DOMAIN contributions : Eq(contributions[k].status, x)}
    <2>1. \A x : CountContributionsByStatus(x) = Cardinality(K(x)) /\ ListContributionsByStatus(x) = K(x)
      BY <1>3 DEF CountContributionsByStatus, ListContributionsByStatus
    <2>2. \A x : K(x) \subseteq DOMAIN contributions /\ (x # st => K(st) \cap K(x) = {})
      BY DEF Eq
    <2> HIDE DEF K
    <2>3. ASSUME NEW other \in PaymentStates \ {st}
          PROVE  CountContributionsByStatus(st) + CountContributionsByStatus(other) <= CountContributions
      <3>1. K(st) \subseteq DOMAIN contributions /\ K(other) \subseteq DOMAIN contributions /\ K(st) \cap K(other) = {}
        BY <2>2, <2>3
      <3>2. Cardinality(K(st)) + Cardinality(K(other)) <= Cardinality(DOMAIN contributions)
        BY <1>1, <3>1, ApartCount
      <3> QED BY <2>1, <3>2 DEF CountContributions
    <2> QED BY <2>1, <2>3
  <1>12. CountContributions = Cardinality(ListContributions)
    BY <1>9 DEF CountContributions
  <1>13. \A K \in SUBSET ContactIds :
           LET M == UNION {GetMembershipByContact(c) : c \in K}
           IN  /\ SearchMembershipLogs(K) = UNION {GetMembershipLogsByMembership(m) : m \in M}
               /\ SearchMembershipPayments(K) = UNION {GetMembershipPaymentsByMembership(m) : m \in M}
               /\ SearchContributions(K) = UNION {GetContributionsByContact(c) : c \in K}
    BY <1>6
  <1>14. \A l \in ListMembershipLogs :
           LET log == membership_logs[l]
           IN  /\ l \in GetMembershipAuditTrail(log.membership_id) /\ GetMembership(log.membership_id) # {}
               /\ log.status_id # NULL => GetMembershipStatus(log.status_id) # {} /\ l \in ListMembershipLogsByStatus(log.status_id)
               /\ log.membership_type_id # NULL => GetMembershipType(log.membership_type_id) # {}
               /\ log.modified_by_contact_id # NULL => l \in UNION {ListMembershipLogsByModifier(c) : c \in ListAllContacts}
    BY <1>8
  <1> QED BY <1>4, <1>5, <1>7, <1>9, <1>10, <1>11, <1>12, <1>13, <1>14, Zenon DEF MembershipAnswersAgree

-----------------------------------------------------------------------------
(* Communication.  MailingRefs speaks of what lookups find; what is inductive *)
(* is the uniqueness behind it: of the subscriptions of a contact to a list,  *)
(* and of the recipients that a mailing has in a contact.                     *)

SubscriptionsFit ==
  /\ \A s \in DOMAIN mailing_list_subscriptions :
       /\ mailing_list_subscriptions[s].mailing_list_id \in DOMAIN mailing_lists
       /\ mailing_list_subscriptions[s].contact_id \in DOMAIN contacts
  /\ \A s, z \in DOMAIN mailing_list_subscriptions :
       /\ mailing_list_subscriptions[s].mailing_list_id = mailing_list_subscriptions[z].mailing_list_id
       /\ mailing_list_subscriptions[s].contact_id = mailing_list_subscriptions[z].contact_id
       => s = z

MailingsFit == \A m \in DOMAIN mailings :
  /\ mailings[m].template_id \in DOMAIN message_templates \cup {NULL}
  /\ mailings[m].mailing_list_id \in DOMAIN mailing_lists \cup {NULL}

RecipientsFit ==
  /\ \A r \in DOMAIN mailing_recipients : /\ mailing_recipients[r].mailing_id \in DOMAIN mailings
                                          /\ mailing_recipients[r].contact_id \in DOMAIN contacts
  /\ \A r, z \in DOMAIN mailing_recipients :
       /\ mailing_recipients[r].mailing_id = mailing_recipients[z].mailing_id
       /\ mailing_recipients[r].contact_id = mailing_recipients[z].contact_id
       => r = z

TrackingFits ==
  /\ \A u \in DOMAIN mailing_trackable_urls : mailing_trackable_urls[u].mailing_id \in DOMAIN mailings
  /\ \A k \in DOMAIN mailing_url_clicks : /\ mailing_url_clicks[k].trackable_url_id \in DOMAIN mailing_trackable_urls
                                          /\ mailing_url_clicks[k].recipient_id \in DOMAIN mailing_recipients
                                          /\ mailing_url_clicks[k].contact_id \in DOMAIN contacts
  /\ \A o \in DOMAIN mailing_opens : /\ mailing_opens[o].recipient_id \in DOMAIN mailing_recipients
                                     /\ mailing_opens[o].contact_id \in DOMAIN contacts

MessagingFits ==
  /\ \A i \in DOMAIN sms_messages : sms_messages[i].contact_id \in DOMAIN contacts
  /\ \A p \in DOMAIN communication_preferences : communication_preferences[p].contact_id \in DOMAIN contacts

MailingInv ==
  MailingsTypeOK /\ SubscriptionsFit /\ MailingsFit /\ RecipientsFit /\ TrackingFits /\ MessagingFits

LEMMA MailingInitInv == ContactsInit /\ MailingsInit => MailingInv
  BY DEF ContactsInit, MailingsInit, MailingInv, MailingsTypeOK, SubscriptionsFit, MailingsFit, RecipientsFit,
         TrackingFits, MessagingFits, IsTable, NoRows

(* Templates: a mailing keeps the one it was made from. *)
LEMMA TemplateKeeps ==
  ASSUME MailingInv, NEW t \in TemplateIds,
         \/ DeleteMessageTemplate(t)
         \/ \E row \in MessageTemplate : CreateMessageTemplate(t, row)
         \/ \E act \in Flag : UpdateMessageTemplate(t, act)
  PROVE  MailingInv'
  <1>1. IsTable(message_templates, TemplateIds, MessageTemplate)
    BY DEF MailingInv, MailingsTypeOK
  <1>2. UNCHANGED <<contacts, mailing_lists, mailing_list_subscriptions, mailings, mailing_recipients,
                    mailing_trackable_urls, mailing_url_clicks, mailing_opens, sms_messages, communication_preferences>>
    BY DEF DeleteMessageTemplate, CreateMessageTemplate, UpdateMessageTemplate, listTables, tracking, messaging
  <1>3. /\ IsTable(message_templates', TemplateIds, MessageTemplate)
        /\ \A m \in DOMAIN mailings : mailings[m].template_id \in DOMAIN message_templates' \cup {NULL}
    <2>1. CASE DeleteMessageTemplate(t)
      BY <1>1, <2>1 DEF DeleteMessageTemplate, IsTable, Without, MailingInv, MailingsFit
    <2>2. CASE \E row \in MessageTemplate : CreateMessageTemplate(t, row)
      BY <1>1, <2>2 DEF CreateMessageTemplate, IsTable, Insert, MailingInv, MailingsFit
    <2>3. CASE \E act \in Flag : UpdateMessageTemplate(t, act)
      BY <1>1, <2>3 DEF UpdateMessageTemplate, IsTable, MessageTemplate, MailingInv, MailingsFit
    <2> QED BY <2>1, <2>2, <2>3
  <1> QED BY <1>2, <1>3 DEF MailingInv, MailingsTypeOK, SubscriptionsFit, MailingsFit, RecipientsFit, TrackingFits, MessagingFits

LEMMA ListKeeps ==
  ASSUME MailingInv, NEW l \in ListIds,
         (\E row \in MailingList : CreateMailingList(l, row)) \/ (\E act, hid \in Flag : UpdateMailingList(l, act, hid))
  PROVE  MailingInv'
  <1>1. IsTable(mailing_lists, ListIds, MailingList)
    BY DEF MailingInv, MailingsTypeOK
  <1>2. UNCHANGED <<contacts, message_templates, mailing_list_subscriptions, mailings, mailing_recipients,
                    mailing_trackable_urls, mailing_url_clicks, mailing_opens, sms_messages, communication_preferences>>
    BY DEF CreateMailingList, UpdateMailingList, tracking, messaging
  <1>3. IsTable(mailing_lists', ListIds, MailingList) /\ DOMAIN mailing_lists \subseteq DOMAIN mailing_lists'
    <2>1. CASE \E row \in MailingList : CreateMailingList(l, row)
      BY <1>1, <2>1 DEF CreateMailingList, IsTable, Insert
    <2>2. ASSUME NEW act \in Flag, NEW hid \in Flag, UpdateMailingList(l, act, hid)
          PROVE  IsTable(mailing_lists', ListIds, MailingList) /\ DOMAIN mailing_lists \subseteq DOMAIN mailing_lists'
      <3>1. /\ l \in DOMAIN mailing_lists /\ mailing_lists[l] \in MailingList
            /\ mailing_lists' = [mailing_lists EXCEPT ![l].is_active = act, ![l].is_hidden = hid]
        BY <1>1, <2>2 DEF UpdateMailingList, IsTable
      <3>2. PICK half : half = [mailing_lists[l] EXCEPT !.is_active = act]
        OBVIOUS
      <3>3. PICK row : row = [half EXCEPT !.is_hidden = hid]
        OBVIOUS
      <3>4. half \in MailingList
        BY <3>1, <3>2 DEF MailingList
      <3>5. row \in MailingList
        BY <3>3, <3>4 DEF MailingList
      <3>6. mailing_lists' = [mailing_lists EXCEPT ![l] = row]
        BY <1>1, <3>1, <3>2, <3>3 DEF IsTable
      <3> QED BY <1>1, <3>5, <3>6 DEF IsTable
    <2> QED BY <2>1, <2>2
  <1> QED BY <1>2, <1>3 DEF MailingInv, MailingsTypeOK, SubscriptionsFit, MailingsFit, RecipientsFit, TrackingFits, MessagingFits

(* Subscriptions go alone, with a list or with a contact. *)
LEMMA SubscriptionsLeft ==
  ASSUME MailingInv, NEW S, mailing_list_subscriptions' = Without(mailing_list_subscriptions, S),
         \A s \in DOMAIN mailing_list_subscriptions \ S :
           /\ mailing_list_subscriptions[s].mailing_list_id \in DOMAIN mailing_lists'
           /\ mailing_list_subscriptions[s].contact_id \in DOMAIN contacts'
  PROVE  IsTable(mailing_list_subscriptions', SubscriptionIds, MailingListSubscription) /\ SubscriptionsFit'
  <1>1. /\ IsTable(mailing_list_subscriptions', SubscriptionIds, MailingListSubscription)
        /\ DOMAIN mailing_list_subscriptions' = DOMAIN mailing_list_subscriptions \ S
        /\ \A s \in DOMAIN mailing_list_subscriptions \ S : mailing_list_subscriptions'[s] = mailing_list_subscriptions[s]
    BY DEF MailingInv, MailingsTypeOK, IsTable, Without
  <1> QED BY <1>1 DEF MailingInv, SubscriptionsFit

LEMMA ListDeleted ==
  ASSUME MailingInv, NEW l \in ListIds, DeleteMailingList(l)
  PROVE  MailingInv'
  <1>1. PICK S : S = {s \in DOMAIN mailing_list_subscriptions : mailing_list_subscriptions[s].mailing_list_id = l}
    OBVIOUS
  <1>2. /\ mailing_list_subscriptions' = Without(mailing_list_subscriptions, S)
        /\ UNCHANGED <<contacts, message_templates, mailings, mailing_recipients,
                       mailing_trackable_urls, mailing_url_clicks, mailing_opens, sms_messages, communication_preferences>>
    BY <1>1 DEF DeleteMailingList, tracking, messaging
  <1>3. IsTable(mailing_lists', ListIds, MailingList) /\ DOMAIN mailing_lists' = DOMAIN mailing_lists \ {l}
    BY DEF DeleteMailingList, MailingInv, MailingsTypeOK, IsTable, Without
  <1>4. IsTable(mailing_list_subscriptions', SubscriptionIds, MailingListSubscription) /\ SubscriptionsFit'
    BY <1>1, <1>2, <1>3, SubscriptionsLeft DEF MailingInv, SubscriptionsFit
  <1>5. MailingsFit'
    BY <1>2, <1>3 DEF DeleteMailingList, MailingInv, MailingsFit
  <1> QED BY <1>2, <1>3, <1>4, <1>5 DEF MailingInv, MailingsTypeOK, RecipientsFit, TrackingFits, MessagingFits

LEMMA SubscriptionKeeps ==
  ASSUME MailingInv,
         \/ \E s \in SubscriptionIds : DeleteMailingListSubscription(s)
         \/ \E s \in SubscriptionIds, row \in MailingListSubscription : CreateMailingListSubscription(s, row)
         \/ \E l \in ListIds, c \in ContactIds, st \in SubscriptionStatuses \cup {NULL} : UpdateSubscriptionStatus(l, c, st)
  PROVE  MailingInv'
  <1>1. IsTable(mailing_list_subscriptions, SubscriptionIds, MailingListSubscription)
    BY DEF MailingInv, MailingsTypeOK
  <1>2. UNCHANGED <<contacts, message_templates, mailing_lists, mailings, mailing_recipients,
                    mailing_trackable_urls, mailing_url_clicks, mailing_opens, sms_messages, communication_preferences>>
    BY DEF DeleteMailingListSubscription, CreateMailingListSubscription, UpdateSubscriptionStatus, tracking, messaging
  <1>3. IsTable(mailing_list_subscriptions', SubscriptionIds, MailingListSubscription) /\ SubscriptionsFit'
    <2>1. ASSUME NEW s \in SubscriptionIds, DeleteMailingListSubscription(s)
          PROVE  IsTable(mailing_list_subscriptions', SubscriptionIds, MailingListSubscription) /\ SubscriptionsFit'
      BY <1>2, <2>1, SubscriptionsLeft DEF DeleteMailingListSubscription, MailingInv, SubscriptionsFit
    <2>2. ASSUME NEW s \in SubscriptionIds, NEW row \in MailingListSubscription, CreateMailingListSubscription(s, row)
          PROVE  IsTable(mailing_list_subscriptions', SubscriptionIds, MailingListSubscription) /\ SubscriptionsFit'
      <3>1. /\ IsTable(mailing_list_subscriptions', SubscriptionIds, MailingListSubscription)
            /\ DOMAIN mailing_list_subscriptions' = DOMAIN mailing_list_subscriptions \cup {s}
            /\ mailing_list_subscriptions'[s] = row /\ s \notin DOMAIN mailing_list_subscriptions
            /\ \A z \in DOMAIN mailing_list_subscriptions : mailing_list_subscriptions'[z] = mailing_list_subscriptions[z]
        BY <1>1, <2>2 DEF CreateMailingListSubscription, IsTable, Insert
      <3>2. \A z \in DOMAIN mailing_list_subscriptions :
              ~ (/\ mailing_list_subscriptions[z].mailing_list_id = row.mailing_list_id
                 /\ mailing_list_subscriptions[z].contact_id = row.contact_id)
        BY <2>2 DEF CreateMailingListSubscription, GetSubscriptionByContactAndList
      <3>3. row.mailing_list_id \in DOMAIN mailing_lists /\ row.contact_id \in DOMAIN contacts
        BY <2>2 DEF CreateMailingListSubscription
      <3> QED BY <1>2, <3>1, <3>2, <3>3 DEF SubscriptionsFit, MailingInv
    <2>3. ASSUME NEW l \in ListIds, NEW c \in ContactIds, NEW st \in SubscriptionStatuses \cup {NULL},
                 UpdateSubscriptionStatus(l, c, st)
          PROVE  IsTable(mailing_list_subscriptions', SubscriptionIds, MailingListSubscription) /\ SubscriptionsFit'
      <3>1. \A s \in DOMAIN mailing_list_subscriptions :
              LET row == [mailing_list_subscriptions[s] EXCEPT !.status = st]
              IN  /\ row \in MailingListSubscription
                  /\ row.mailing_list_id = mailing_list_subscriptions[s].mailing_list_id
                  /\ row.contact_id = mailing_list_subscriptions[s].contact_id
        BY <1>1 DEF IsTable, MailingListSubscription
      <3>2. /\ IsTable(mailing_list_subscriptions', SubscriptionIds, MailingListSubscription)
            /\ DOMAIN mailing_list_subscriptions' = DOMAIN mailing_list_subscriptions
            /\ \A s \in DOMAIN mailing_list_subscriptions :
                 /\ mailing_list_subscriptions'[s].mailing_list_id = mailing_list_subscriptions[s].mailing_list_id
                 /\ mailing_list_subscriptions'[s].contact_id = mailing_list_subscriptions[s].contact_id
        BY <1>1, <2>3, <3>1 DEF UpdateSubscriptionStatus, IsTable
      <3> QED BY <1>2, <3>2 DEF SubscriptionsFit, MailingInv
    <2> QED BY <2>1, <2>2, <2>3
  <1> QED BY <1>2, <1>3 DEF MailingInv, MailingsTypeOK, MailingsFit, RecipientsFit, TrackingFits, MessagingFits

(* Mailings, their recipients and what is tracked of them. *)
LEMMA MailingWritten ==
  ASSUME MailingInv, NEW m \in MailingIds,
         \/ \E row \in Mailing : CreateMailing(m, row)
         \/ \E st \in MailingStatuses \cup {NULL} : UpdateMailingStatus(m, st)
  PROVE  MailingInv'
  <1>1. IsTable(mailings, MailingIds, Mailing)
    BY DEF MailingInv, MailingsTypeOK
  <1>2. UNCHANGED <<contacts, message_templates, mailing_lists, mailing_list_subscriptions, mailing_recipients,
                    mailing_trackable_urls, mailing_url_clicks, mailing_opens, sms_messages, communication_preferences>>
    BY DEF CreateMailing, UpdateMailingStatus, listTables, tracking, messaging
  <1>3. PICK row \in Mailing : /\ Writes(mailings, mailings', m, row)
                               /\ row.template_id \in DOMAIN message_templates \cup {NULL}
                               /\ row.mailing_list_id \in DOMAIN mailing_lists \cup {NULL}
    <2>1. CASE \E row \in Mailing : CreateMailing(m, row)
      BY <2>1 DEF CreateMailing, Writes
    <2>2. ASSUME NEW st \in MailingStatuses \cup {NULL}, UpdateMailingStatus(m, st)
          PROVE  \E row \in Mailing : /\ Writes(mailings, mailings', m, row)
                                      /\ row.template_id \in DOMAIN message_templates \cup {NULL}
                                      /\ row.mailing_list_id \in DOMAIN mailing_lists \cup {NULL}
      <3>1. PICK row : row = [mailings[m] EXCEPT !.status = st]
        OBVIOUS
      <3>2. m \in DOMAIN mailings /\ mailings[m] \in Mailing /\ mailings' = [mailings EXCEPT ![m] = row]
        BY <1>1, <2>2, <3>1 DEF UpdateMailingStatus, IsTable
      <3>3. /\ row \in Mailing /\ row.template_id = mailings[m].template_id
            /\ row.mailing_list_id = mailings[m].mailing_list_id
        BY <3>1, <3>2 DEF Mailing
      <3> QED BY <3>2, <3>3 DEF Writes, MailingInv, MailingsFit
    <2> QED BY <2>1, <2>2
  <1>4. /\ IsTable(mailings', MailingIds, Mailing)
        /\ DOMAIN mailings' = DOMAIN mailings \cup {m}
        /\ mailings'[m] = row
        /\ \A n \in DOMAIN mailings \ {m} : mailings'[n] = mailings[n]
    BY <1>1, <1>3 DEF IsTable, Insert, Writes
  <1>5. MailingsFit'
    BY <1>2, <1>3, <1>4 DEF MailingInv, MailingsFit
  <1> QED BY <1>2, <1>4, <1>5 DEF MailingInv, MailingsTypeOK, SubscriptionsFit, RecipientsFit, TrackingFits, MessagingFits

LEMMA RecipientWritten ==
  ASSUME MailingInv,
         \/ \E r \in RecipientIds, row \in MailingRecipient : CreateMailingRecipient(r, row)
         \/ \E m \in MailingIds, c \in ContactIds, st \in RecipientStatuses \cup {NULL} : UpdateRecipientStatus(m, c, st)
  PROVE  MailingInv'
  <1>1. IsTable(mailing_recipients, RecipientIds, MailingRecipient)
    BY DEF MailingInv, MailingsTypeOK
  <1>2. UNCHANGED <<contacts, message_templates, mailing_lists, mailing_list_subscriptions, mailings,
                    mailing_trackable_urls, mailing_url_clicks, mailing_opens, sms_messages, communication_preferences>>
    BY DEF CreateMailingRecipient, UpdateRecipientStatus, listTables, tracking, messaging
  <1>3. /\ IsTable(mailing_recipients', RecipientIds, MailingRecipient) /\ RecipientsFit'
        /\ DOMAIN mailing_recipients \subseteq DOMAIN mailing_recipients'
    <2>1. ASSUME NEW r \in RecipientIds, NEW row \in MailingRecipient, CreateMailingRecipient(r, row)
          PROVE  /\ IsTable(mailing_recipients', RecipientIds, MailingRecipient) /\ RecipientsFit'
                 /\ DOMAIN mailing_recipients \subseteq DOMAIN mailing_recipients'
      <3>1. /\ IsTable(mailing_recipients', RecipientIds, MailingRecipient)
            /\ DOMAIN mailing_recipients' = DOMAIN mailing_recipients \cup {r}
            /\ mailing_recipients'[r] = row /\ r \notin DOMAIN mailing_recipients
            /\ \A z \in DOMAIN mailing_recipients : mailing_recipients'[z] = mailing_recipients[z]
        BY <1>1, <2>1 DEF CreateMailingRecipient, IsTable, Insert
      <3>2. \A z \in DOMAIN mailing_recipients :
              ~ (mailing_recipients[z].mailing_id = row.mailing_id /\ mailing_recipients[z].contact_id = row.contact_id)
        BY <2>1 DEF CreateMailingRecipient, GetRecipientByMailingAndContact
      <3>3. row.mailing_id \in DOMAIN mailings /\ row.contact_id \in DOMAIN contacts
        BY <2>1 DEF CreateMailingRecipient
      <3> QED BY <1>2, <3>1, <3>2, <3>3 DEF RecipientsFit, MailingInv
    <2>2. ASSUME NEW m \in MailingIds, NEW c \in ContactIds, NEW st \in RecipientStatuses \cup {NULL},
                 UpdateRecipientStatus(m, c, st)
          PROVE  /\ IsTable(mailing_recipients', RecipientIds, MailingRecipient) /\ RecipientsFit'
                 /\ DOMAIN mailing_recipients \subseteq DOMAIN mailing_recipients'
      <3>1. \A r \in DOMAIN mailing_recipients :
              LET row == [mailing_recipients[r] EXCEPT !.status = st]
              IN  /\ row \in MailingRecipient
                  /\ row.mailing_id = mailing_recipients[r].mailing_id
                  /\ row.contact_id = mailing_recipients[r].contact_id
        BY <1>1 DEF IsTable, MailingRecipient
      <3>2. /\ IsTable(mailing_recipients', RecipientIds, MailingRecipient)
            /\ DOMAIN mailing_recipients' = DOMAIN mailing_recipients
            /\ \A r \in DOMAIN mailing_recipients : /\ mailing_recipients'[r].mailing_id = mailing_recipients[r].mailing_id
                                                    /\ mailing_recipients'[r].contact_id = mailing_recipients[r].contact_id
        BY <1>1, <2>2, <3>1 DEF UpdateRecipientStatus, IsTable
      <3> QED BY <1>2, <3>2 DEF RecipientsFit, MailingInv
    <2> QED BY <2>1, <2>2
  <1> QED BY <1>2, <1>3 DEF MailingInv, MailingsTypeOK, SubscriptionsFit, MailingsFit, TrackingFits, MessagingFits

LEMMA TrackingWritten ==
  ASSUME MailingInv,
         \/ \E u \in UrlIds, m \in MailingIds : CreateTrackableUrl(u, m)
         \/ \E k \in ClickIds, u \in UrlIds, r \in RecipientIds, c \in ContactIds : CreateUrlClick(k, u, r, c)
         \/ \E o \in OpenIds, r \in RecipientIds, c \in ContactIds : CreateMailingOpen(o, r, c)
  PROVE  MailingInv'
  <1>1. UNCHANGED <<contacts, message_templates, mailing_lists, mailing_list_subscriptions, mailings, mailing_recipients,
                    sms_messages, communication_preferences>>
    BY DEF CreateTrackableUrl, CreateUrlClick, CreateMailingOpen, listTables, messaging
  <1>2. /\ IsTable(mailing_trackable_urls, UrlIds, MailingTrackableUrl)
        /\ IsTable(mailing_url_clicks, ClickIds, MailingUrlClick) /\ IsTable(mailing_opens, OpenIds, MailingOpen)
    BY DEF MailingInv, MailingsTypeOK
  <1>3. /\ IsTable(mailing_trackable_urls', UrlIds, MailingTrackableUrl)
        /\ IsTable(mailing_url_clicks', ClickIds, MailingUrlClick) /\ IsTable(mailing_opens', OpenIds, MailingOpen)
        /\ TrackingFits'
    <2>1. ASSUME NEW u \in UrlIds, NEW m \in MailingIds, CreateTrackableUrl(u, m)
          PROVE  /\ IsTable(mailing_trackable_urls', UrlIds, MailingTrackableUrl)
                 /\ UNCHANGED <<mailing_url_clicks, mailing_opens>> /\ TrackingFits'
      <3>1. PICK row \in MailingTrackableUrl : row = [mailing_id |-> m]
        BY DEF MailingTrackableUrl
      <3>2. /\ IsTable(mailing_trackable_urls', UrlIds, MailingTrackableUrl)
            /\ DOMAIN mailing_trackable_urls' = DOMAIN mailing_trackable_urls \cup {u}
            /\ mailing_trackable_urls'[u] = row /\ row.mailing_id = m
            /\ \A z \in DOMAIN mailing_trackable_urls : mailing_trackable_urls'[z] = mailing_trackable_urls[z]
        BY <1>2, <2>1, <3>1 DEF CreateTrackableUrl, IsTable, Insert
      <3>3. m \in DOMAIN mailings /\ UNCHANGED <<mailing_url_clicks, mailing_opens>>
        BY <2>1 DEF CreateTrackableUrl
      <3> QED BY <1>1, <3>2, <3>3 DEF TrackingFits, MailingInv
    <2>2. ASSUME NEW k \in ClickIds, NEW u \in UrlIds, NEW r \in RecipientIds, NEW c \in ContactIds,
                 CreateUrlClick(k, u, r, c)
          PROVE  /\ IsTable(mailing_url_clicks', ClickIds, MailingUrlClick)
                 /\ UNCHANGED <<mailing_trackable_urls, mailing_opens>> /\ TrackingFits'
      <3>1. PICK row \in MailingUrlClick : row = [trackable_url_id |-> u, recipient_id |-> r, contact_id |-> c]
        BY DEF MailingUrlClick
      <3>2. row.trackable_url_id = u /\ row.recipient_id = r /\ row.contact_id = c
        BY <3>1
      <3>3. /\ IsTable(mailing_url_clicks', ClickIds, MailingUrlClick)
            /\ DOMAIN mailing_url_clicks' = DOMAIN mailing_url_clicks \cup {k}
            /\ mailing_url_clicks'[k] = row
            /\ \A z \in DOMAIN mailing_url_clicks : mailing_url_clicks'[z] = IF z = k THEN row ELSE mailing_url_clicks[z]
        BY <1>2, <2>2, <3>1 DEF CreateUrlClick, IsTable, Insert
      <3>4. /\ u \in DOMAIN mailing_trackable_urls /\ r \in DOMAIN mailing_recipients /\ c \in DOMAIN contacts
            /\ UNCHANGED <<mailing_trackable_urls, mailing_opens>>
        BY <2>2 DEF CreateUrlClick
      <3> QED BY <1>1, <3>2, <3>3, <3>4 DEF TrackingFits, MailingInv
    <2>3. ASSUME NEW o \in OpenIds, NEW r \in RecipientIds, NEW c \in ContactIds, CreateMailingOpen(o, r, c)
          PROVE  /\ IsTable(mailing_opens', OpenIds, MailingOpen)
                 /\ UNCHANGED <<mailing_trackable_urls, mailing_url_clicks>> /\ TrackingFits'
      <3>1. PICK row \in MailingOpen : row = [recipient_id |-> r, contact_id |-> c]
        BY DEF MailingOpen
      <3>2. row.recipient_id = r /\ row.contact_id = c
        BY <3>1
      <3>3. /\ IsTable(mailing_opens', OpenIds, MailingOpen)
            /\ DOMAIN mailing_opens' = DOMAIN mailing_opens \cup {o}
            /\ mailing_opens'[o] = row
            /\ \A z \in DOMAIN mailing_opens : mailing_opens'[z] = IF z = o THEN row ELSE mailing_opens[z]
        BY <1>2, <2>3, <3>1 DEF CreateMailingOpen, IsTable, Insert
      <3>4. /\ r \in DOMAIN mailing_recipients /\ c \in DOMAIN contacts
            /\ UNCHANGED <<mailing_trackable_urls, mailing_url_clicks>>
        BY <2>3 DEF CreateMailingOpen
      <3> QED BY <1>1, <3>2, <3>3, <3>4 DEF TrackingFits, MailingInv
    <2> QED BY <1>2, <2>1, <2>2, <2>3
  <1> QED BY <1>1, <1>3 DEF MailingInv, MailingsTypeOK, SubscriptionsFit, MailingsFit, RecipientsFit, MessagingFits

(* Recipients R and addresses U go, and the clicks and opens of these and of   *)
(* the contacts Gone with them.                                                   *)
LEMMA RecipientsDropped ==
  ASSUME MailingInv, NEW R, NEW U, NEW Gone, DropRecipients(R, U, Gone),
         mailing_trackable_urls' = Without(mailing_trackable_urls, U),
         \A r \in DOMAIN mailing_recipients \ R : /\ mailing_recipients[r].mailing_id \in DOMAIN mailings'
                                                 /\ mailing_recipients[r].contact_id \in DOMAIN contacts',
         \A u \in DOMAIN mailing_trackable_urls \ U : mailing_trackable_urls[u].mailing_id \in DOMAIN mailings',
         DOMAIN contacts \ Gone \subseteq DOMAIN contacts'
  PROVE  /\ IsTable(mailing_recipients', RecipientIds, MailingRecipient)
         /\ IsTable(mailing_trackable_urls', UrlIds, MailingTrackableUrl)
         /\ IsTable(mailing_url_clicks', ClickIds, MailingUrlClick)
         /\ IsTable(mailing_opens', OpenIds, MailingOpen)
         /\ RecipientsFit' /\ TrackingFits'
  <1>0. PICK K, O : K = ClicksOf(R, U, Gone) /\ O = OpensOf(R, Gone)
    OBVIOUS
  <1>1. /\ IsTable(mailing_recipients', RecipientIds, MailingRecipient)
        /\ DOMAIN mailing_recipients' = DOMAIN mailing_recipients \ R
        /\ \A r \in DOMAIN mailing_recipients \ R : mailing_recipients'[r] = mailing_recipients[r]
    BY DEF DropRecipients, MailingInv, MailingsTypeOK, IsTable, Without
  <1>2. /\ IsTable(mailing_trackable_urls', UrlIds, MailingTrackableUrl)
        /\ DOMAIN mailing_trackable_urls' = DOMAIN mailing_trackable_urls \ U
        /\ \A u \in DOMAIN mailing_trackable_urls \ U : mailing_trackable_urls'[u] = mailing_trackable_urls[u]
    BY DEF MailingInv, MailingsTypeOK, IsTable, Without
  <1>3. /\ IsTable(mailing_url_clicks', ClickIds, MailingUrlClick)
        /\ DOMAIN mailing_url_clicks' = DOMAIN mailing_url_clicks \ K
        /\ \A k \in DOMAIN mailing_url_clicks \ K : mailing_url_clicks'[k] = mailing_url_clicks[k]
    BY <1>0 DEF DropRecipients, MailingInv, MailingsTypeOK, IsTable, Without
  <1>4. /\ IsTable(mailing_opens', OpenIds, MailingOpen)
        /\ DOMAIN mailing_opens' = DOMAIN mailing_opens \ O
        /\ \A o \in DOMAIN mailing_opens \ O : mailing_opens'[o] = mailing_opens[o]
    BY <1>0 DEF DropRecipients, MailingInv, MailingsTypeOK, IsTable, Without
  <1>5. RecipientsFit'
    BY <1>1 DEF RecipientsFit, MailingInv
  <1>6. \A u \in DOMAIN mailing_trackable_urls' : mailing_trackable_urls'[u].mailing_id \in DOMAIN mailings'
    BY <1>2
  <1>7. \A k \in DOMAIN mailing_url_clicks' : /\ mailing_url_clicks'[k].trackable_url_id \in DOMAIN mailing_trackable_urls'
                                              /\ mailing_url_clicks'[k].recipient_id \in DOMAIN mailing_recipients'
                                              /\ mailing_url_clicks'[k].contact_id \in DOMAIN contacts'
    BY <1>0, <1>1, <1>2, <1>3 DEF ClicksOf, TrackingFits, MailingInv
  <1>8. \A o \in DOMAIN mailing_opens' : /\ mailing_opens'[o].recipient_id \in DOMAIN mailing_recipients'
                                         /\ mailing_opens'[o].contact_id \in DOMAIN contacts'
    BY <1>0, <1>1, <1>4 DEF OpensOf, TrackingFits, MailingInv
  <1> QED BY <1>1, <1>2, <1>3, <1>4, <1>5, <1>6, <1>7, <1>8 DEF TrackingFits

LEMMA NoUrlDropped ==
  ASSUME MailingInv, UNCHANGED mailing_trackable_urls
  PROVE  mailing_trackable_urls' = Without(mailing_trackable_urls, {})
  BY DEF MailingInv, MailingsTypeOK, IsTable, Without

LEMMA MailingDeleted ==
  ASSUME MailingInv, NEW m \in MailingIds, DeleteMailing(m)
  PROVE  MailingInv'
  <1>0. PICK R, U : R = RecipientsOf({m}, {}) /\ U = UrlsOf(m)
    OBVIOUS
  <1>1. /\ DropRecipients(R, U, {}) /\ mailing_trackable_urls' = Without(mailing_trackable_urls, U)
        /\ UNCHANGED <<contacts, message_templates, mailing_lists, mailing_list_subscriptions,
                       sms_messages, communication_preferences>>
    BY <1>0 DEF DeleteMailing, listTables, messaging
  <1>2. /\ IsTable(mailings', MailingIds, Mailing) /\ DOMAIN mailings' = DOMAIN mailings \ {m}
        /\ \A n \in DOMAIN mailings \ {m} : mailings'[n] = mailings[n]
    BY DEF DeleteMailing, MailingInv, MailingsTypeOK, IsTable, Without
  <1>3. /\ \A r \in DOMAIN mailing_recipients \ R : /\ mailing_recipients[r].mailing_id \in DOMAIN mailings'
                                                    /\ mailing_recipients[r].contact_id \in DOMAIN contacts'
        /\ \A u \in DOMAIN mailing_trackable_urls \ U : mailing_trackable_urls[u].mailing_id \in DOMAIN mailings'
    BY <1>0, <1>1, <1>2 DEF RecipientsOf, UrlsOf, MailingInv, RecipientsFit, TrackingFits
  <1>4. MailingsFit'
    BY <1>1, <1>2 DEF MailingInv, MailingsFit
  <1> QED BY <1>1, <1>2, <1>3, <1>4, RecipientsDropped DEF MailingInv, MailingsTypeOK, SubscriptionsFit, MessagingFits

LEMMA RecipientDeleted ==
  ASSUME MailingInv, NEW r \in RecipientIds, DeleteMailingRecipient(r)
  PROVE  MailingInv'
  <1>1. /\ DropRecipients({r}, {}, {}) /\ mailing_trackable_urls' = Without(mailing_trackable_urls, {})
        /\ UNCHANGED <<contacts, message_templates, mailing_lists, mailing_list_subscriptions, mailings,
                       sms_messages, communication_preferences>>
    BY NoUrlDropped DEF DeleteMailingRecipient, listTables, messaging
  <1>2. /\ \A z \in DOMAIN mailing_recipients \ {r} : /\ mailing_recipients[z].mailing_id \in DOMAIN mailings'
                                                      /\ mailing_recipients[z].contact_id \in DOMAIN contacts'
        /\ \A u \in DOMAIN mailing_trackable_urls : mailing_trackable_urls[u].mailing_id \in DOMAIN mailings'
    BY <1>1 DEF MailingInv, RecipientsFit, TrackingFits
  <1> QED BY <1>1, <1>2, RecipientsDropped DEF MailingInv, MailingsTypeOK, SubscriptionsFit, MailingsFit, MessagingFits

(* Text messages and preferences go with their contact. *)
LEMMA MessagingKeeps ==
  ASSUME MailingInv,
         \/ \E i \in SmsIds : DeleteSmsMessage(i) \/ \E st \in SmsStatuses \cup {NULL} : UpdateSmsStatus(i, st)
         \/ \E i \in SmsIds, row \in SmsMessage : CreateSmsMessage(i, row)
         \/ \E c \in ContactIds : DeleteCommunicationPreferences(c)
         \/ \E row \in CommunicationPreference :
              \/ UpdateCommunicationPreferences(row)
              \/ \E p \in PreferenceIds : CreateCommunicationPreferences(p, row)
  PROVE  MailingInv'
  <1>1. UNCHANGED <<contacts, message_templates, mailing_lists, mailing_list_subscriptions, mailings, mailing_recipients,
                    mailing_trackable_urls, mailing_url_clicks, mailing_opens>>
    BY DEF UpdateSmsStatus, DeleteSmsMessage, CreateSmsMessage, DeleteCommunicationPreferences,
           UpdateCommunicationPreferences, CreateCommunicationPreferences, listTables, tracking
  <1>2. /\ IsTable(sms_messages, SmsIds, SmsMessage)
        /\ IsTable(communication_preferences, PreferenceIds, CommunicationPreference)
        /\ MessagingFits
    BY DEF MailingInv, MailingsTypeOK
  <1>3. /\ IsTable(sms_messages', SmsIds, SmsMessage)
        /\ IsTable(communication_preferences', PreferenceIds, CommunicationPreference)
        /\ MessagingFits'
    <2>1. ASSUME NEW i \in SmsIds, NEW st \in SmsStatuses \cup {NULL}, UpdateSmsStatus(i, st) \/ DeleteSmsMessage(i)
          PROVE  IsTable(sms_messages', SmsIds, SmsMessage) /\ MessagingFits' /\ UNCHANGED communication_preferences
      <3>1. CASE UpdateSmsStatus(i, st)
        <4>1. PICK row : row = [sms_messages[i] EXCEPT !.status = st]
          OBVIOUS
        <4>2. /\ i \in DOMAIN sms_messages /\ sms_messages' = [sms_messages EXCEPT ![i] = row]
              /\ UNCHANGED communication_preferences
          BY <3>1, <4>1 DEF UpdateSmsStatus
        <4>3. row \in SmsMessage /\ row.contact_id = sms_messages[i].contact_id
          BY <1>2, <4>1, <4>2 DEF IsTable, SmsMessage
        <4> QED BY <1>1, <1>2, <4>2, <4>3 DEF IsTable, MessagingFits
      <3>2. CASE DeleteSmsMessage(i)
        BY <1>1, <1>2, <3>2 DEF DeleteSmsMessage, IsTable, Without, MessagingFits
      <3> QED BY <2>1, <3>1, <3>2
    <2>2. ASSUME NEW i \in SmsIds, NEW row \in SmsMessage, CreateSmsMessage(i, row)
          PROVE  IsTable(sms_messages', SmsIds, SmsMessage) /\ MessagingFits' /\ UNCHANGED communication_preferences
      <3>1. /\ sms_messages' = Insert(sms_messages, i, row) /\ row.contact_id \in DOMAIN contacts
            /\ UNCHANGED communication_preferences
        BY <2>2 DEF CreateSmsMessage
      <3> QED BY <1>1, <1>2, <3>1 DEF IsTable, Insert, MessagingFits
    <2>3. ASSUME NEW c \in ContactIds, DeleteCommunicationPreferences(c)
          PROVE  /\ IsTable(communication_preferences', PreferenceIds, CommunicationPreference)
                 /\ MessagingFits' /\ UNCHANGED sms_messages
      BY <1>1, <1>2, <2>3 DEF DeleteCommunicationPreferences, IsTable, Without, MessagingFits
    <2>4. ASSUME NEW row \in CommunicationPreference, UpdateCommunicationPreferences(row)
          PROVE  /\ IsTable(communication_preferences', PreferenceIds, CommunicationPreference)
                 /\ MessagingFits' /\ UNCHANGED sms_messages
      <3>1. \A p \in PreferencesOf(row.contact_id) : communication_preferences[p].contact_id = row.contact_id
        BY DEF PreferencesOf
      <3> QED BY <1>1, <1>2, <2>4, <3>1 DEF UpdateCommunicationPreferences, IsTable, MessagingFits
    <2>5. ASSUME NEW row \in CommunicationPreference, NEW p \in PreferenceIds, CreateCommunicationPreferences(p, row)
          PROVE  /\ IsTable(communication_preferences', PreferenceIds, CommunicationPreference)
                 /\ MessagingFits' /\ UNCHANGED sms_messages
      BY <1>1, <1>2, <2>5 DEF CreateCommunicationPreferences, IsTable, Insert, MessagingFits
    <2> QED BY <1>2, <2>1, <2>2, <2>3, <2>4, <2>5
  <1> QED BY <1>1, <1>3 DEF MailingInv, MailingsTypeOK, SubscriptionsFit, MailingsFit, RecipientsFit, TrackingFits

LEMMA AddresseeKeeps ==
  ASSUME MailingInv, NEW c \in ContactIds, CreateAddressee(c) \/ DeleteAddressee(c)
  PROVE  MailingInv'
  <1>1. CASE CreateAddressee(c)
    <2>1. /\ DOMAIN contacts \subseteq DOMAIN contacts'
          /\ UNCHANGED <<message_templates, mailing_lists, mailing_list_subscriptions, mailings, mailing_recipients,
                         mailing_trackable_urls, mailing_url_clicks, mailing_opens, sms_messages, communication_preferences>>
      BY <1>1 DEF CreateAddressee, CreateContact, Insert, listTables, tracking, messaging
    <2> QED BY <2>1 DEF MailingInv, MailingsTypeOK, SubscriptionsFit, MailingsFit, RecipientsFit, TrackingFits, MessagingFits
  <1>2. CASE DeleteAddressee(c)
    <2>0. PICK S, R, I, P : /\ S = {s \in DOMAIN mailing_list_subscriptions : mailing_list_subscriptions[s].contact_id = c}
                            /\ R = RecipientsOf({}, {c})
                            /\ I = {i \in DOMAIN sms_messages : sms_messages[i].contact_id = c}
                            /\ P = PreferencesOf(c)
      OBVIOUS
    <2>1. /\ DOMAIN contacts' = DOMAIN contacts \ {c}
          /\ mailing_list_subscriptions' = Without(mailing_list_subscriptions, S)
          /\ DropRecipients(R, {}, {c})
          /\ sms_messages' = Without(sms_messages, I)
          /\ communication_preferences' = Without(communication_preferences, P)
          /\ UNCHANGED <<message_templates, mailing_lists, mailings, mailing_trackable_urls>>
      BY <1>2, <2>0 DEF DeleteAddressee, DeleteContact, Without
    <2>2. IsTable(mailing_list_subscriptions', SubscriptionIds, MailingListSubscription) /\ SubscriptionsFit'
      BY <2>0, <2>1, SubscriptionsLeft DEF MailingInv, SubscriptionsFit
    <2>3. /\ \A r \in DOMAIN mailing_recipients \ R : /\ mailing_recipients[r].mailing_id \in DOMAIN mailings'
                                                      /\ mailing_recipients[r].contact_id \in DOMAIN contacts'
          /\ \A u \in DOMAIN mailing_trackable_urls : mailing_trackable_urls[u].mailing_id \in DOMAIN mailings'
      BY <2>0, <2>1 DEF RecipientsOf, MailingInv, RecipientsFit, TrackingFits
    <2>4. /\ IsTable(mailing_recipients', RecipientIds, MailingRecipient)
          /\ IsTable(mailing_trackable_urls', UrlIds, MailingTrackableUrl)
          /\ IsTable(mailing_url_clicks', ClickIds, MailingUrlClick)
          /\ IsTable(mailing_opens', OpenIds, MailingOpen)
          /\ RecipientsFit' /\ TrackingFits'
      BY <2>1, <2>3, NoUrlDropped, RecipientsDropped
    <2>5. /\ IsTable(sms_messages', SmsIds, SmsMessage)
          /\ \A i \in DOMAIN sms_messages' : sms_messages'[i].contact_id \in DOMAIN contacts'
      BY <2>0, <2>1 DEF IsTable, Without, MailingInv, MailingsTypeOK, MessagingFits
    <2>6. /\ IsTable(communication_preferences', PreferenceIds, CommunicationPreference)
          /\ \A p \in DOMAIN communication_preferences' : communication_preferences'[p].contact_id \in DOMAIN contacts'
      BY <2>0, <2>1 DEF PreferencesOf, IsTable, Without, MailingInv, MailingsTypeOK, MessagingFits
    <2> QED BY <2>1, <2>2, <2>4, <2>5, <2>6 DEF MailingInv, MailingsTypeOK, MailingsFit, MessagingFits
  <1> QED BY <1>1, <1>2

LEMMA ListsKeep == MailingInv /\ ListsNext => MailingInv'
  <1> SUFFICES ASSUME MailingInv, ListsNext PROVE MailingInv'
    OBVIOUS
  <1>1. ASSUME NEW c \in ContactIds, CreateAddressee(c) \/ DeleteAddressee(c)
        PROVE  MailingInv'
    BY <1>1, AddresseeKeeps
  <1>2. ASSUME NEW t \in TemplateIds,
               \/ DeleteMessageTemplate(t)
               \/ \E n \in MailingNames, act \in Flags : CreateMessageTemplate(t, [name |-> n, is_active |-> act])
               \/ \E act \in Flags : UpdateMessageTemplate(t, act)
        PROVE  MailingInv'
    <2>1. \A n \in MailingNames, act \in Flags : [name |-> n, is_active |-> act] \in MessageTemplate
      BY RelationalAssumption DEF MessageTemplate
    <2> QED BY <1>2, <2>1, TemplateKeeps, RelationalAssumption
  <1>3. ASSUME NEW l \in ListIds, DeleteMailingList(l)
        PROVE  MailingInv'
    BY <1>3, ListDeleted
  <1>4. ASSUME NEW l \in ListIds, NEW act \in Flags \cup {FALSE}, NEW hid \in Flags \cup {FALSE},
               \/ UpdateMailingList(l, act, hid)
               \/ \E n \in MailingNames : CreateMailingList(l, [name |-> n, is_active |-> act, is_hidden |-> hid])
        PROVE  MailingInv'
    <2>1. act \in Flag /\ hid \in Flag
      BY FlagsAreFlags
    <2>2. \A n \in MailingNames : [name |-> n, is_active |-> act, is_hidden |-> hid] \in MailingList
      BY <2>1 DEF MailingList
    <2> QED BY <1>4, <2>1, <2>2, ListKeeps
  <1>5. ASSUME NEW l \in ListIds, NEW c \in ContactIds, NEW st \in SubscriptionStatuses \cup {NULL},
               \/ UpdateSubscriptionStatus(l, c, st)
               \/ \E s \in SubscriptionIds, act \in Flags : CreateMailingListSubscription(s,
                    [mailing_list_id |-> l, contact_id |-> c, status |-> st, is_active |-> act])
        PROVE  MailingInv'
    <2>1. \A act \in Flags :
            [mailing_list_id |-> l, contact_id |-> c, status |-> st, is_active |-> act] \in MailingListSubscription
      BY RelationalAssumption DEF MailingListSubscription
    <2> QED BY <1>5, <2>1, SubscriptionKeeps
  <1>6. ASSUME NEW s \in SubscriptionIds, DeleteMailingListSubscription(s)
        PROVE  MailingInv'
    BY <1>6, SubscriptionKeeps
  <1>7. ASSUME NEW m \in MailingIds,
               \/ DeleteMailing(m)
               \/ \E t \in TemplateIds \cup {NULL}, l \in ListIds \cup {NULL}, st \in MailingStatuses \cup {NULL} :
                    CreateMailing(m, [template_id |-> t, mailing_list_id |-> l, status |-> st])
        PROVE  MailingInv'
    <2>1. \A t \in TemplateIds \cup {NULL}, l \in ListIds \cup {NULL}, st \in MailingStatuses \cup {NULL} :
            [template_id |-> t, mailing_list_id |-> l, status |-> st] \in Mailing
      BY DEF Mailing
    <2> QED BY <1>7, <2>1, MailingDeleted, MailingWritten
  <1> QED BY <1>1, <1>2, <1>3, <1>4, <1>5, <1>6, <1>7 DEF ListsNext

LEMMA TrackingKeeps == MailingInv /\ TrackingNext => MailingInv'
  <1> SUFFICES ASSUME MailingInv, TrackingNext PROVE MailingInv'
    OBVIOUS
  <1>1. ASSUME NEW c \in ContactIds, CreateAddressee(c) \/ DeleteAddressee(c)
        PROVE  MailingInv'
    BY <1>1, AddresseeKeeps
  <1>2. ASSUME NEW m \in MailingIds, NEW st \in MailingStatuses \cup {NULL},
               \/ CreateMailing(m, [template_id |-> NULL, mailing_list_id |-> NULL, status |-> st])
               \/ UpdateMailingStatus(m, st)
        PROVE  MailingInv'
    <2>1. [template_id |-> NULL, mailing_list_id |-> NULL, status |-> st] \in Mailing
      BY DEF Mailing
    <2> QED BY <1>2, <2>1, MailingWritten
  <1>3. ASSUME NEW m \in MailingIds, NEW c \in ContactIds, NEW st \in RecipientStatuses \cup {NULL},
               \/ UpdateRecipientStatus(m, c, st)
               \/ \E r \in RecipientIds : CreateMailingRecipient(r, [mailing_id |-> m, contact_id |-> c, status |-> st])
        PROVE  MailingInv'
    <2>1. [mailing_id |-> m, contact_id |-> c, status |-> st] \in MailingRecipient
      BY DEF MailingRecipient
    <2> QED BY <1>3, <2>1, RecipientWritten
  <1>4. ASSUME \/ \E u \in UrlIds, m \in MailingIds : CreateTrackableUrl(u, m)
               \/ \E k \in ClickIds, u \in UrlIds, r \in RecipientIds, c \in ContactIds : CreateUrlClick(k, u, r, c)
               \/ \E o \in OpenIds, r \in RecipientIds, c \in ContactIds : CreateMailingOpen(o, r, c)
        PROVE  MailingInv'
    BY <1>4, TrackingWritten
  <1>5. ASSUME NEW r \in RecipientIds, DeleteMailingRecipient(r)
        PROVE  MailingInv'
    BY <1>5, RecipientDeleted
  <1> QED BY <1>1, <1>2, <1>3, <1>4, <1>5, MailingDeleted DEF TrackingNext

LEMMA PreferencesKeep == MailingInv /\ PreferencesNext => MailingInv'
  <1> SUFFICES ASSUME MailingInv, PreferencesNext PROVE MailingInv'
    OBVIOUS
  <1>1. ASSUME NEW c \in ContactIds, CreateAddressee(c) \/ DeleteAddressee(c)
        PROVE  MailingInv'
    BY <1>1, AddresseeKeeps
  <1>2. ASSUME NEW c \in ContactIds,
               \/ DeleteCommunicationPreferences(c)
               \/ \E i \in SmsIds, st \in SmsStatuses \cup {NULL} : CreateSmsMessage(i, [contact_id |-> c, status |-> st])
        PROVE  MailingInv'
    <2>1. \A st \in SmsStatuses \cup {NULL} : [contact_id |-> c, status |-> st] \in SmsMessage
      BY DEF SmsMessage
    <2> QED BY <1>2, <2>1, MessagingKeeps
  <1>3. ASSUME NEW c \in ContactIds, NEW email \in Flags, NEW sms \in Flags, NEW row,
               row = [contact_id |-> c, email_opt_out |-> email, sms_opt_out |-> sms],
               \/ UpdateCommunicationPreferences(row)
               \/ \E p \in PreferenceIds : CreateCommunicationPreferences(p, row)
        PROVE  MailingInv'
    <2>1. row \in CommunicationPreference
      BY <1>3, RelationalAssumption DEF CommunicationPreference
    <2> QED BY <1>3, <2>1, MessagingKeeps
  <1>4. ASSUME NEW i \in SmsIds, DeleteSmsMessage(i) \/ \E st \in SmsStatuses \cup {NULL} : UpdateSmsStatus(i, st)
        PROVE  MailingInv'
    BY <1>4, MessagingKeeps
  <1> QED BY <1>1, <1>2, <1>3, <1>4 DEF PreferencesNext

LEMMA MailingsNextKeeps == MailingInv /\ [MailingsNext]_mailingVars => MailingInv'
  <1>1. MailingInv /\ UNCHANGED mailingVars => MailingInv'
    BY DEF mailingVars, listTables, tracking, messaging, MailingInv, MailingsTypeOK,
           SubscriptionsFit, MailingsFit, RecipientsFit, TrackingFits, MessagingFits
  <1> QED BY <1>1, ListsKeep, TrackingKeeps, PreferencesKeep DEF MailingsNext

(* The ten tables of the communication system keep rows of their types under   *)
(* ids of their own (migrations/030_communication_system.sql).                 *)
THEOREM MailingTypeCorrect == MailingsSpec => []MailingsTypeOK
  <1>1. MailingInv => MailingsTypeOK
    BY DEF MailingInv
  <1> QED BY <1>1, MailingInitInv, MailingsNextKeeps, PTL DEF MailingsSpec

(* What a lookup by contact and list, or by mailing and contact, finds. *)
LEMMA SubscribersAndRecipientsFound == MailingInv => MailingRefs
  <1> SUFFICES ASSUME MailingInv PROVE MailingRefs
    OBVIOUS
  <1>1. ASSUME NEW s \in DOMAIN mailing_list_subscriptions
        PROVE  GetSubscriptionByContactAndList(mailing_list_subscriptions[s].mailing_list_id,
                                               mailing_list_subscriptions[s].contact_id) = {s}
    BY DEF MailingInv, SubscriptionsFit, GetSubscriptionByContactAndList
  <1>2. ASSUME NEW r \in DOMAIN mailing_recipients
        PROVE  GetRecipientByMailingAndContact(mailing_recipients[r].mailing_id, mailing_recipients[r].contact_id) = {r}
    BY DEF MailingInv, RecipientsFit, GetRecipientByMailingAndContact
  <1> QED BY <1>1, <1>2 DEF MailingRefs, MailingInv, SubscriptionsFit, MailingsFit, RecipientsFit, TrackingFits, MessagingFits

(* Deleting a mailing, a recipient, a list or a contact leaves no row of the   *)
(* other tables that refers to one that is gone, and neither a subscription    *)
(* nor a recipient is there twice (communication.sql.go, DeleteMailing,        *)
(* DeleteMailingList, DeleteMailingRecipient and the cascades behind them).    *)
THEOREM MailingReferences == MailingsSpec => []MailingRefs
  BY SubscribersAndRecipientsFound, MailingInitInv, MailingsNextKeeps, PTL DEF MailingsSpec

(* No statement writes the list or the flag of a subscription that stays. *)
SubscriptionsStand ==
  \A s \in DOMAIN mailing_list_subscriptions \cap DOMAIN mailing_list_subscriptions' :
    /\ mailing_list_subscriptions'[s].mailing_list_id = mailing_list_subscriptions[s].mailing_list_id
    /\ mailing_list_subscriptions'[s].is_active = mailing_list_subscriptions[s].is_active

LEMMA SubscriptionsUntouched == UNCHANGED mailing_list_subscriptions => SubscriptionsStand
  BY DEF SubscriptionsStand

LEMMA SubscriptionsDropped == \A S : mailing_list_subscriptions' = Without(mailing_list_subscriptions, S) => SubscriptionsStand
  BY DEF SubscriptionsStand, Without

LEMMA ListsStand == MailingInv /\ ListsNext => SubscriptionsStand
  <1> SUFFICES ASSUME MailingInv, ListsNext PROVE SubscriptionsStand
    OBVIOUS
  <1>1. ASSUME NEW c, CreateAddressee(c) \/ DeleteAddressee(c)
        PROVE  SubscriptionsStand
    BY <1>1, SubscriptionsUntouched, SubscriptionsDropped DEF CreateAddressee, DeleteAddressee, listTables
  <1>2. ASSUME NEW t, NEW row, NEW act,
               DeleteMessageTemplate(t) \/ CreateMessageTemplate(t, row) \/ UpdateMessageTemplate(t, act)
        PROVE  SubscriptionsStand
    BY <1>2, SubscriptionsUntouched DEF DeleteMessageTemplate, CreateMessageTemplate, UpdateMessageTemplate, listTables
  <1>3. ASSUME NEW l, NEW row, NEW act, NEW hid,
               DeleteMailingList(l) \/ CreateMailingList(l, row) \/ UpdateMailingList(l, act, hid)
        PROVE  SubscriptionsStand
    BY <1>3, SubscriptionsUntouched, SubscriptionsDropped DEF DeleteMailingList, CreateMailingList, UpdateMailingList
  <1>4. ASSUME NEW l, NEW c, NEW st, UpdateSubscriptionStatus(l, c, st) PROVE SubscriptionsStand
    <2>1. ASSUME NEW s \in DOMAIN mailing_list_subscriptions
          PROVE  /\ mailing_list_subscriptions'[s].mailing_list_id = mailing_list_subscriptions[s].mailing_list_id
                 /\ mailing_list_subscriptions'[s].is_active = mailing_list_subscriptions[s].is_active
      <3>1. mailing_list_subscriptions[s] \in MailingListSubscription
        BY DEF MailingInv, MailingsTypeOK, IsTable
      <3>2. mailing_list_subscriptions'[s] \in {mailing_list_subscriptions[s], [mailing_list_subscriptions[s] EXCEPT !.status = st]}
        BY <1>4 DEF UpdateSubscriptionStatus
      <3> QED BY <3>1, <3>2 DEF MailingListSubscription
    <2> QED BY <2>1 DEF SubscriptionsStand
  <1>5. ASSUME NEW s, NEW row, CreateMailingListSubscription(s, row) \/ DeleteMailingListSubscription(s)
        PROVE  SubscriptionsStand
    BY <1>5, SubscriptionsDropped DEF CreateMailingListSubscription, DeleteMailingListSubscription, Insert, SubscriptionsStand
  <1>6. ASSUME NEW m, NEW row, DeleteMailing(m) \/ CreateMailing(m, row) PROVE SubscriptionsStand
    BY <1>6, SubscriptionsUntouched DEF DeleteMailing, CreateMailing, listTables
  <1> QED BY <1>1, <1>2, <1>3, <1>4, <1>5, <1>6 DEF ListsNext

LEMMA TrackingStands == TrackingNext => SubscriptionsStand
  <1> SUFFICES ASSUME TrackingNext PROVE SubscriptionsStand
    OBVIOUS
  <1>1. ASSUME NEW c, CreateAddressee(c) \/ DeleteAddressee(c)
        PROVE  SubscriptionsStand
    BY <1>1, SubscriptionsUntouched, SubscriptionsDropped DEF CreateAddressee, DeleteAddressee, listTables
  <1>2. \/ \E c : CreateAddressee(c) \/ DeleteAddressee(c)
        \/ UNCHANGED listTables
    BY DEF TrackingNext, CreateMailing, UpdateMailingStatus, DeleteMailing, CreateTrackableUrl, CreateMailingRecipient,
           UpdateRecipientStatus, DeleteMailingRecipient, CreateUrlClick, CreateMailingOpen
  <1> QED BY <1>1, <1>2, SubscriptionsUntouched DEF listTables

LEMMA PreferencesStand == PreferencesNext => SubscriptionsStand
  <1> SUFFICES ASSUME PreferencesNext PROVE SubscriptionsStand
    OBVIOUS
  <1>1. ASSUME NEW c, CreateAddressee(c) \/ DeleteAddressee(c)
        PROVE  SubscriptionsStand
    BY <1>1, SubscriptionsUntouched, SubscriptionsDropped DEF CreateAddressee, DeleteAddressee, listTables
  <1>2. \/ \E c : CreateAddressee(c) \/ DeleteAddressee(c)
        \/ UNCHANGED listTables
    BY DEF PreferencesNext, DeleteCommunicationPreferences, CreateSmsMessage, UpdateCommunicationPreferences,
           CreateCommunicationPreferences, UpdateSmsStatus, DeleteSmsMessage
  <1> QED BY <1>1, <1>2, SubscriptionsUntouched DEF listTables

(* Who is listed for a list stays listed until the row is deleted: no statement *)
(* of communication.sql.go takes a subscriber off the listing, unsubscribing    *)
(* (UpdateSubscriptionStatus) included, and none that deletes the contact       *)
(* leaves its row.                                                              *)
THEOREM SubscribersStayListed == MailingsSpec => SubscriptionStays
  <1>1. MailingInv /\ [MailingsNext]_mailingVars
        => [\A l \in ListIds, act \in Flag : \A s \in ListSubscriptionsByList(l, act) :
              s \in ListSubscriptionsByList(l, act)' \/ s \notin DOMAIN mailing_list_subscriptions']_mailingVars
    <2> SUFFICES ASSUME MailingInv, MailingsNext, NEW l \in ListIds, NEW act \in Flag,
                        NEW s \in ListSubscriptionsByList(l, act), s \in DOMAIN mailing_list_subscriptions'
                 PROVE  s \in ListSubscriptionsByList(l, act)'
      OBVIOUS
    <2>1. SubscriptionsStand
      BY ListsStand, TrackingStands, PreferencesStand DEF MailingsNext
    <2>2. mailing_list_subscriptions'[s].contact_id \in DOMAIN contacts'
      BY MailingsNextKeeps DEF MailingInv, SubscriptionsFit
    <2> QED BY <2>1, <2>2 DEF SubscriptionsStand, ListSubscriptionsByList
  <1> QED BY <1>1, MailingInitInv, MailingsNextKeeps, PTL DEF MailingsSpec, SubscriptionStays

LEMMA FourCount ==
  ASSUME NEW S, NEW T, NEW U, NEW V, IsFiniteSet(S), IsFiniteSet(T), IsFiniteSet(U), IsFiniteSet(V),
         S \cap T = {}, S \cap U = {}, T \cap U = {}, S \cap V = {}, T \cap V = {}, U \cap V = {}
  PROVE  Cardinality(S \cup T \cup U \cup V) = Cardinality(S) + Cardinality(T) + Cardinality(U) + Cardinality(V)
  <1>1. Cardinality(S \cup T \cup U) = Cardinality(S) + Cardinality(T) + Cardinality(U)
    BY ThreeCount
  <1>2. IsFiniteSet(S \cup T) /\ (S \cup T) \cap U = {}
    BY DisjointCount
  <1>3. IsFiniteSet((S \cup T) \cup U) /\ ((S \cup T) \cup U) \cap V = {}
    BY <1>2, DisjointCount
  <1>4. Cardinality(((S \cup T) \cup U) \cup V) = Cardinality((S \cup T) \cup U) + Cardinality(V)
    BY <1>3, DisjointCount
  <1> QED BY <1>1, <1>4

LEMMA PairCount ==
  ASSUME NEW P, NEW R, IsFiniteSet(R),
         \A x \in P : x[2] \in R, \A r \in R : \E x \in P : x[2] = r, \A x, y \in P : x[2] = y[2] => x = y
  PROVE  Cardinality(P) = Cardinality(R)
  <1> DEFINE pair == [r \in R |-> CHOOSE x \in P : x[2] = r]
  <1>1. \A r \in R : pair[r] \in P /\ pair[r][2] = r
    OBVIOUS
  <1>2. pair \in [R -> P]
    BY <1>1
  <1> HIDE DEF pair
  <1>3. \A r, s \in R : pair[r] = pair[s] => r = s
    BY <1>1
  <1>4. \A x \in P : \E r \in R : pair[r] = x
    BY <1>1
  <1>5. pair \in Bijection(R, P)
    BY <1>2, <1>3, <1>4 DEF Bijection, Injection, IsInjective, Surjection
  <1>6. ExistsBijection(R, P)
    BY <1>5 DEF ExistsBijection
  <1> QED BY <1>6, FS_Bijection

NamesOfMailingDiffer == NamesDiffer(message_templates) /\ NamesDiffer(mailing_lists)

LEMMA NamesOfMailingStayDifferent ==
  ASSUME MailingsTypeOK, NamesOfMailingDiffer, MailingsNext
  PROVE  NamesOfMailingDiffer'
  <1>1. IsTable(message_templates, TemplateIds, MessageTemplate) /\ IsTable(mailing_lists, ListIds, MailingList)
    BY DEF MailingsTypeOK
  <1>2. ASSUME NEW t, NEW row, CreateMessageTemplate(t, row) PROVE NamesOfMailingDiffer'
    <2>1. /\ Writes(message_templates, message_templates', t, row) /\ UNCHANGED mailing_lists
          /\ \A u \in DOMAIN message_templates \ {t} : message_templates[u].name # row.name
      BY <1>2 DEF CreateMessageTemplate, Writes, listTables
    <2> QED BY <1>1, <2>1, NamesStayDifferent DEF NamesOfMailingDiffer
  <1>3. ASSUME NEW l, NEW row, CreateMailingList(l, row) PROVE NamesOfMailingDiffer'
    <2>1. /\ Writes(mailing_lists, mailing_lists', l, row) /\ UNCHANGED message_templates
          /\ \A k \in DOMAIN mailing_lists \ {l} : mailing_lists[k].name # row.name
      BY <1>3 DEF CreateMailingList, Writes
    <2> QED BY <1>1, <2>1, NamesStayDifferent DEF NamesOfMailingDiffer
  <1>4. ASSUME NEW t, NEW act, UpdateMessageTemplate(t, act) PROVE NamesOfMailingDiffer'
    <2>1. /\ DOMAIN message_templates' = DOMAIN message_templates /\ UNCHANGED mailing_lists
          /\ \A u \in DOMAIN message_templates : message_templates'[u].name = message_templates[u].name
      BY <1>1, <1>4 DEF UpdateMessageTemplate, IsTable, MessageTemplate, listTables
    <2> QED BY <2>1, NamesKept DEF NamesOfMailingDiffer
  <1>5. ASSUME NEW l, NEW act, NEW hid, UpdateMailingList(l, act, hid) PROVE NamesOfMailingDiffer'
    <2>1. /\ DOMAIN mailing_lists' = DOMAIN mailing_lists /\ UNCHANGED message_templates
          /\ \A k \in DOMAIN mailing_lists : mailing_lists'[k].name = mailing_lists[k].name
      BY <1>1, <1>5 DEF UpdateMailingList, IsTable, MailingList
    <2> QED BY <2>1, NamesKept DEF NamesOfMailingDiffer
  <1>6. ASSUME NEW t, DeleteMessageTemplate(t) PROVE NamesOfMailingDiffer'
    BY <1>6, NamesLeft DEF DeleteMessageTemplate, NamesOfMailingDiffer, listTables
  <1>7. ASSUME NEW l, DeleteMailingList(l) PROVE NamesOfMailingDiffer'
    BY <1>7, NamesLeft DEF DeleteMailingList, NamesOfMailingDiffer
  <1>8. ASSUME UNCHANGED <<message_templates, mailing_lists>> PROVE NamesOfMailingDiffer'
    BY <1>8 DEF NamesOfMailingDiffer
  <1>9. \A c : CreateAddressee(c) \/ DeleteAddressee(c) => UNCHANGED <<message_templates, mailing_lists>>
    BY DEF CreateAddressee, DeleteAddressee, listTables
  <1>10. \A l, c, s, st, row : \/ UpdateSubscriptionStatus(l, c, st) \/ CreateMailingListSubscription(s, row)
                               \/ DeleteMailingListSubscription(s)
                               => UNCHANGED <<message_templates, mailing_lists>>
    BY DEF UpdateSubscriptionStatus, CreateMailingListSubscription, DeleteMailingListSubscription
  <1>11. \A m, row : DeleteMailing(m) \/ CreateMailing(m, row) => UNCHANGED <<message_templates, mailing_lists>>
    BY DEF DeleteMailing, CreateMailing, listTables
  <1>12. CASE ListsNext
    BY <1>2, <1>3, <1>4, <1>5, <1>6, <1>7, <1>8, <1>9, <1>10, <1>11, <1>12 DEF ListsNext
  <1>13. TrackingNext => UNCHANGED <<message_templates, mailing_lists>>
    BY <1>9, <1>11 DEF TrackingNext, UpdateMailingStatus, CreateTrackableUrl, CreateMailingRecipient,
           UpdateRecipientStatus, DeleteMailingRecipient, CreateUrlClick, CreateMailingOpen, listTables
  <1>14. PreferencesNext => UNCHANGED <<message_templates, mailing_lists>>
    BY <1>9 DEF PreferencesNext, DeleteCommunicationPreferences, CreateSmsMessage, listTables,
           UpdateCommunicationPreferences, CreateCommunicationPreferences, UpdateSmsStatus, DeleteSmsMessage
  <1> QED BY <1>8, <1>12, <1>13, <1>14 DEF MailingsNext

LEMMA MailingAnswers ==
  ASSUME MailingsTypeOK, MailingRefs, NamesOfMailingDiffer PROVE MailingAnswersAgree
  <1> USE DEF MailingRefs
  <1>1. /\ \A s \in DOMAIN mailing_list_subscriptions : /\ mailing_list_subscriptions[s].mailing_list_id \in DOMAIN mailing_lists
                                                        /\ mailing_list_subscriptions[s].contact_id \in DOMAIN contacts
        /\ \A r \in DOMAIN mailing_recipients : /\ mailing_recipients[r].mailing_id \in DOMAIN mailings
                                                /\ mailing_recipients[r].contact_id \in DOMAIN contacts
        /\ \A p \in DOMAIN communication_preferences : communication_preferences[p].contact_id \in DOMAIN contacts
    OBVIOUS
  <1>2. /\ \A s \in DOMAIN mailing_list_subscriptions : /\ mailing_list_subscriptions[s].mailing_list_id \in ListIds
                                                        /\ mailing_list_subscriptions[s].contact_id \in ContactIds
    BY DEF MailingsTypeOK, IsTable, MailingListSubscription
  <1>3. IsFiniteSet(DOMAIN mailing_recipients) /\ IsFiniteSet(DOMAIN communication_preferences)
    <2>1. DOMAIN mailing_recipients \in SUBSET RecipientIds /\ DOMAIN communication_preferences \in SUBSET PreferenceIds
      BY DEF MailingsTypeOK, IsTable
    <2> QED BY <2>1, MailingsAssumption, FS_Subset
  <1> USE DEF MailingRefs
  <1>4. /\ \A t \in DOMAIN message_templates : GetMessageTemplate(t) = GetMessageTemplateByName(message_templates[t].name)
        /\ \A l \in DOMAIN mailing_lists : GetMailingList(l) = GetMailingListByName(mailing_lists[l].name)
    BY DEF NamesOfMailingDiffer, NamesDiffer, GetMessageTemplate, GetMessageTemplateByName, GetMailingList, GetMailingListByName
  <1>5. ASSUME NEW act \in BOOLEAN
        PROVE  UNION {ListSubscriptionsByList(l, act) : l \in ListIds} = UNION {ListSubscriptionsByContact(c, act) : c \in ContactIds}
    <2>1. \A s : (\E l \in ListIds : s \in ListSubscriptionsByList(l, act))
                 <=> (\E c \in ContactIds : s \in ListSubscriptionsByContact(c, act))
      BY <1>1, <1>2 DEF ListSubscriptionsByList, ListSubscriptionsByContact
    <2> QED BY <2>1
  <1>6. UNION {GetContactCommunicationHistory(c).email : c \in ListAllContacts}
          = {r \in DOMAIN mailing_recipients : mailing_recipients[r].status \in Reached}
    <2>1. \A c, r : r \in GetContactCommunicationHistory(c).email
                    <=> r \in DOMAIN mailing_recipients /\ mailing_recipients[r].contact_id = c /\ mailing_recipients[r].status \in Reached
      BY <1>1 DEF GetContactCommunicationHistory
    <2>2. \A r : r \in {q \in DOMAIN mailing_recipients : mailing_recipients[q].status \in Reached}
                 <=> \E c \in ListAllContacts : r \in GetContactCommunicationHistory(c).email
      BY <1>1, <2>1 DEF ListAllContacts
    <2> QED BY <2>2
  <1>7. ASSUME NEW m \in DOMAIN mailings
        PROVE  LET n == GetMailingStats(m).by_status
                   Others == {r \in ListRecipientsByMailing(m) : mailing_recipients[r].status \notin TalliedStates}
                   Past == UNION {GetContactCommunicationHistory(c).email : c \in ListAllContacts}
               IN  /\ GetMailingStats(m).total = Cardinality(ListRecipientsByMailing(m))
                   /\ GetMailingPerformance(m) = n["Sent"] + n["Delivered"] + n["Opened"] + n["Clicked"]
                   /\ GetMailingPerformance(m) = Cardinality(Past \cap ListRecipientsByMailing(m))
                   /\ GetMailingStats(m).total = GetMailingPerformance(m) + n["Bounced"] + n["Unsubscribed"] + Cardinality(Others)
    <2> DEFINE n == GetMailingStats(m).by_status
               Others == {r \in ListRecipientsByMailing(m) : mailing_recipients[r].status \notin TalliedStates}
               Past == UNION {GetContactCommunicationHistory(c).email : c \in ListAllContacts}
               All == {r \in DOMAIN mailing_recipients : mailing_recipients[r].mailing_id = m}
               N(st) == {r \in DOMAIN mailing_recipients : mailing_recipients[r].mailing_id = m /\ mailing_recipients[r].status = st}
               Hit == {r \in DOMAIN mailing_recipients : mailing_recipients[r].mailing_id = m /\ mailing_recipients[r].status \in Reached}
    <2>1. /\ ListRecipientsByMailing(m) = All /\ Others = {r \in All : mailing_recipients[r].status \notin TalliedStates}
          /\ Past \cap All = Hit
      BY <1>1, <1>6 DEF ListRecipientsByMailing
    <2>2. /\ n["Sent"] = Cardinality(N("Sent")) /\ n["Delivered"] = Cardinality(N("Delivered"))
          /\ n["Opened"] = Cardinality(N("Opened")) /\ n["Clicked"] = Cardinality(N("Clicked"))
          /\ n["Bounced"] = Cardinality(N("Bounced")) /\ n["Unsubscribed"] = Cardinality(N("Unsubscribed"))
      BY DEF GetMailingStats, Reached, TalliedStates
    <2>3. GetMailingStats(m).total = Cardinality(All) /\ GetMailingPerformance(m) = Cardinality(Hit)
      BY DEF GetMailingStats, GetMailingPerformance
    <2>4. \A S \in SUBSET DOMAIN mailing_recipients : IsFiniteSet(S)
      BY <1>3, FS_Subset
    <2>5. /\ (\A st : N(st) \in SUBSET DOMAIN mailing_recipients) /\ Hit \in SUBSET DOMAIN mailing_recipients
          /\ Others \in SUBSET DOMAIN mailing_recipients
      BY DEF ListRecipientsByMailing
    <2>6. \A st, su : st # su => N(st) \cap N(su) = {}
      OBVIOUS
    <2>7. /\ \A st : st \notin Reached => Hit \cap N(st) = {}
          /\ Hit \cap Others = {} /\ N("Bounced") \cap Others = {} /\ N("Unsubscribed") \cap Others = {}
      BY DEF TalliedStates
    <2>8. Hit = N("Sent") \cup N("Delivered") \cup N("Opened") \cup N("Clicked")
      BY DEF Reached
    <2>9. All = Hit \cup N("Bounced") \cup N("Unsubscribed") \cup Others
      BY <2>1 DEF TalliedStates
    <2> HIDE DEF n, Others, Past, All, N, Hit
    <2>10. Cardinality(Hit) = Cardinality(N("Sent")) + Cardinality(N("Delivered")) + Cardinality(N("Opened")) + Cardinality(N("Clicked"))
      <3>1. /\ N("Sent") \cap N("Delivered") = {} /\ N("Sent") \cap N("Opened") = {} /\ N("Delivered") \cap N("Opened") = {}
            /\ N("Sent") \cap N("Clicked") = {} /\ N("Delivered") \cap N("Clicked") = {} /\ N("Opened") \cap N("Clicked") = {}
        BY <2>6
      <3> QED BY <2>4, <2>5, <2>8, <3>1, FourCount
    <2>11. Cardinality(All) = Cardinality(Hit) + Cardinality(N("Bounced")) + Cardinality(N("Unsubscribed")) + Cardinality(Others)
      <3>1. Hit \cap N("Bounced") = {} /\ Hit \cap N("Unsubscribed") = {} /\ N("Bounced") \cap N("Unsubscribed") = {}
        BY <2>6, <2>7 DEF Reached
      <3> QED BY <2>4, <2>5, <2>7, <2>9, <3>1, FourCount
    <2>12. /\ GetMailingStats(m).total = Cardinality(ListRecipientsByMailing(m))
           /\ GetMailingPerformance(m) = n["Sent"] + n["Delivered"] + n["Opened"] + n["Clicked"]
           /\ GetMailingPerformance(m) = Cardinality(Past \cap ListRecipientsByMailing(m))
           /\ GetMailingStats(m).total = GetMailingPerformance(m) + n["Bounced"] + n["Unsubscribed"] + Cardinality(Others)
      BY <2>1, <2>2, <2>3, <2>10, <2>11
    <2> QED BY <2>12 DEF n, Others, Past
  <1>8. Cardinality(GetOptOutContacts(TRUE, NULL)) = CountContactsByOptOutStatus.email
    <2> DEFINE P == GetOptOutContacts(TRUE, NULL)
               R == {p \in DOMAIN communication_preferences : communication_preferences[p].email_opt_out = TRUE}
    <2>1. IsFiniteSet(R)
      BY <1>3, FS_Subset, R \in SUBSET DOMAIN communication_preferences
    <2>2. \A x : x \in P <=> /\ x \in (DOMAIN contacts) \X (DOMAIN communication_preferences)
                             /\ x[2] \in R /\ communication_preferences[x[2]].contact_id = x[1]
      BY RelationalAssumption DEF GetOptOutContacts, Eq
    <2>3. \A r \in R : <<communication_preferences[r].contact_id, r>> \in P
      BY <1>1, <2>2
    <2> HIDE DEF P, R
    <2>4. \A r \in R : \E x \in P : x[2] = r
      BY <2>3
    <2>5. Cardinality(P) = Cardinality(R)
      BY <2>1, <2>2, <2>4, PairCount
    <2> QED BY <2>5 DEF P, R, CountContactsByOptOutStatus
  <1>9. Cardinality(GetOptOutContacts(NULL, TRUE)) = CountContactsByOptOutStatus.sms
    <2> DEFINE P == GetOptOutContacts(NULL, TRUE)
               R == {p \in DOMAIN communication_preferences : communication_preferences[p].sms_opt_out = TRUE}
    <2>1. IsFiniteSet(R)
      BY <1>3, FS_Subset, R \in SUBSET DOMAIN communication_preferences
    <2>2. \A x : x \in P <=> /\ x \in (DOMAIN contacts) \X (DOMAIN communication_preferences)
                             /\ x[2] \in R /\ communication_preferences[x[2]].contact_id = x[1]
      BY RelationalAssumption DEF GetOptOutContacts, Eq
    <2>3. \A r \in R : <<communication_preferences[r].contact_id, r>> \in P
      BY <1>1, <2>2
    <2> HIDE DEF P, R
    <2>4. \A r \in R : \E x \in P : x[2] = r
      BY <2>3
    <2>5. Cardinality(P) = Cardinality(R)
      BY <2>1, <2>2, <2>4, PairCount
    <2> QED BY <2>5 DEF P, R, CountContactsByOptOutStatus
  <1> QED BY <1>4, <1>5, <1>7, <1>8, <1>9 DEF MailingAnswersAgree
=============================================================================
