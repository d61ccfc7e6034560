------------------------------ MODULE Pledges -------------------------------
(* Pledges, the campaigns and blocks they are made for, their payments and    *)
(* reminders, and the groups that pledge together                            *)
(* (migrations/031_pledge_system.sql, generated/pledges.sql.go).  Left out:  *)
(* pledge_logs, frequencies, currencies, texts and amounts but for those of  *)
(* groups.  A payment or a member may refer to a pledge of another contact,  *)
(* and a pledge to a block of another campaign: no constraint ties them.     *)
EXTENDS Campaigns

CONSTANTS PledgeIds, BlockIds, PaymentIds, ReminderIds, PledgeGroupIds, MemberIds,
          Days,          \* the dates a payment or a reminder is scheduled for
          PledgeStatuses, \* the statuses clients write: no constraint limits them
          DueStatuses,   \* and those of payments and reminders
          Editors,       \* clients that edit a group they have read
          MaxAmount      \* bound on a group's amount

(* The statuses CountPledgesByStatus counts, of all that a pledge may have. *)
CountedStatuses == {"Pending", "In Progress", "Overdue", "Completed", "Cancelled"}

ASSUME PledgesAssumption ==
  /\ MaxAmount \in Nat /\ Days \subseteq Nat /\ IsFiniteSet(PledgeIds)
  /\ "In Progress" \in PledgeStatuses /\ "Scheduled" \in DueStatuses
  /\ NULL \notin PledgeStatuses \cup CountedStatuses \cup DueStatuses \cup BlockIds

VARIABLES pledges, pledge_blocks, pledge_payments, pledge_reminders,
          pledge_groups, pledge_group_members,
          groupView,     \* what each editor last read of a group, and that it is outdated
          contributed,   \* what the editors added to each group since it was created
          overlapped     \* an editor wrote over what another wrote since it had read

pledgeTables == <<pledges, pledge_blocks, pledge_payments, pledge_reminders>>
groupTables == <<pledge_groups, pledge_group_members>>
editing == <<groupView, contributed, overlapped>>
pledgeVars == <<contacts, campaignTables, pledgeTables, groupTables, editing>>

Pledge == [contact_id : ContactIds, campaign_id : CampaignIds \cup {NULL},
           pledge_block_id : BlockIds \cup {NULL}, status : PledgeStatuses \cup {NULL}]
PledgeBlock == [campaign_id : CampaignIds \cup {NULL}, is_active : Flag]
PledgePayment == [pledge_id : PledgeIds, scheduled_date : Days, status : DueStatuses \cup {NULL}]
PledgeReminder == [pledge_id : PledgeIds, pledge_payment_id : PaymentIds \cup {NULL},
                   scheduled_date : Days, status : DueStatuses \cup {NULL}]
PledgeGroup == [current_amount : 0..MaxAmount, is_active : Flag]
PledgeGroupMember == [pledge_group_id : PledgeGroupIds, contact_id : ContactIds,
                      pledge_id : PledgeIds \cup {NULL}, is_active : Flag]
Unread == [amount |-> 0, reading |-> FALSE, stale |-> FALSE]
GroupRead == [amount : 0..MaxAmount, reading : BOOLEAN, stale : BOOLEAN]

PledgesTypeOK ==
  /\ IsTable(pledges, PledgeIds, Pledge)
  /\ IsTable(pledge_blocks, BlockIds, PledgeBlock)
  /\ IsTable(pledge_payments, PaymentIds, PledgePayment)
  /\ IsTable(pledge_reminders, ReminderIds, PledgeReminder)
  /\ IsTable(pledge_groups, PledgeGroupIds, PledgeGroup)
  /\ IsTable(pledge_group_members, MemberIds, PledgeGroupMember)
  /\ groupView \in [Editors -> [PledgeGroupIds -> GroupRead]]
  /\ contributed \in [PledgeGroupIds -> 0..MaxAmount]
  /\ overlapped \in BOOLEAN

-----------------------------------------------------------------------------
(* Pledges, blocks, payments and reminders. *)

CreatePledge(p, row) ==
  /\ p \in PledgeIds \ DOMAIN pledges
  /\ row.contact_id \in DOMAIN contacts
  /\ row.campaign_id \in DOMAIN campaigns \cup {NULL}
  /\ row.pledge_block_id \in DOMAIN pledge_blocks \cup {NULL}
  /\ pledges' = Insert(pledges, p, row)
  /\ UNCHANGED <<contacts, campaignTables, pledge_blocks, pledge_payments, pledge_reminders, groupTables, editing>>

(* UpdatePledge and UpdatePledgeStatus write the status the caller passes,   *)
(* whatever it was, and leave the pledge's contact, campaign and block.      *)
UpdatePledge(p, st) ==
  /\ p \in DOMAIN pledges
  /\ pledges' = [pledges EXCEPT ![p].status = st]
  /\ UNCHANGED <<contacts, campaignTables, pledge_blocks, pledge_payments, pledge_reminders, groupTables, editing>>

UpdatePledgeStatus(p, st) == UpdatePledge(p, st)

PaymentsOf(P) == {i \in DOMAIN pledge_payments : pledge_payments[i].pledge_id \in P}
RemindersOf(P) == {i \in DOMAIN pledge_reminders : pledge_reminders[i].pledge_id \in P}
MembersOf(C) == {i \in DOMAIN pledge_group_members : pledge_group_members[i].contact_id \in C}

(* A mutated form, in which a payment's reminders do not keep it. *)
DeletePledgesOfReminders(P, gone) ==
  /\ \A m \in DOMAIN pledge_group_members \ gone : pledge_group_members[m].pledge_id \notin P
  /\ pledges' = Without(pledges, P)
  /\ pledge_payments' = Without(pledge_payments, PaymentsOf(P))
  /\ pledge_reminders' = Without(pledge_reminders, RemindersOf(P))

(* Payments and reminders go with the pledges P.  A member, or a reminder of *)
(* another pledge for one of these payments, that would stay prevents it.    *)
DeletePledges(P, gone) ==
  /\ \A m \in DOMAIN pledge_group_members \ gone : pledge_group_members[m].pledge_id \notin P
  /\ \A r \in DOMAIN pledge_reminders \ RemindersOf(P) :
       pledge_reminders[r].pledge_payment_id \notin PaymentsOf(P)
  /\ pledges' = Without(pledges, P)
  /\ pledge_payments' = Without(pledge_payments, PaymentsOf(P))
  /\ pledge_reminders' = Without(pledge_reminders, RemindersOf(P))

DeletePledge(p) ==
  /\ p \in DOMAIN pledges
  /\ DeletePledges({p}, {})
  /\ UNCHANGED <<contacts, campaignTables, pledge_blocks, groupTables, editing>>

(* The contact's pledges and memberships of groups go with it. *)
DeletePledgingContact(c) ==
  /\ DeleteSupporter(c)
  /\ DeletePledges({p \in DOMAIN pledges : pledges[p].contact_id = c}, MembersOf({c}))
  /\ pledge_group_members' = Without(pledge_group_members, MembersOf({c}))
  /\ UNCHANGED <<pledge_blocks, pledge_groups, editing>>

CreatePledgingContact(c) ==
  /\ CreateContact(c, SomeContact)
  /\ UNCHANGED <<campaignTables, pledgeTables, groupTables, editing>>

CreatePledgedCampaign(k) ==
  /\ CreateCampaign(k, SomeCampaign)
  /\ UNCHANGED <<pledgeTables, groupTables, editing>>

(* A pledge or a block of the campaign prevents it. *)
DeletePledgedCampaign(k) ==
  /\ DeleteCampaign(k)
  /\ \A p \in DOMAIN pledges : pledges[p].campaign_id # k
  /\ \A b \in DOMAIN pledge_blocks : pledge_blocks[b].campaign_id # k
  /\ UNCHANGED <<pledgeTables, groupTables, editing>>

CreatePledgeBlock(b, row) ==
  /\ b \in BlockIds \ DOMAIN pledge_blocks
  /\ row.campaign_id \in DOMAIN campaigns \cup {NULL}
  /\ pledge_blocks' = Insert(pledge_blocks, b, row)
  /\ UNCHANGED <<contacts, campaignTables, pledges, pledge_payments, pledge_reminders, groupTables, editing>>

UpdatePledgeBlock(b, row) ==
  /\ b \in DOMAIN pledge_blocks
  /\ row.campaign_id \in DOMAIN campaigns \cup {NULL}
  /\ pledge_blocks' = [pledge_blocks EXCEPT ![b] = row]
  /\ UNCHANGED <<contacts, campaignTables, pledges, pledge_payments, pledge_reminders, groupTables, editing>>

DeletePledgeBlock(b) ==
  /\ b \in DOMAIN pledge_blocks
  /\ \A p \in DOMAIN pledges : pledges[p].pledge_block_id # b
  /\ pledge_blocks' = Without(pledge_blocks, {b})
  /\ UNCHANGED <<contacts, campaignTables, pledges, pledge_payments, pledge_reminders, groupTables, editing>>

CreatePledgePayment(i, row) ==
  /\ i \in PaymentIds \ DOMAIN pledge_payments
  /\ row.pledge_id \in DOMAIN pledges
  /\ pledge_payments' = Insert(pledge_payments, i, row)
  /\ UNCHANGED <<contacts, campaignTables, pledges, pledge_blocks, pledge_reminders, groupTables, editing>>

(* A payment is found by its pledge and date, which no constraint makes unique: *)
(* every payment of the pledge for that date is written, and one is returned.   *)
UpdatePledgePayment(p, d, st) ==
  /\ \E i \in PaymentsOf({p}) : pledge_payments[i].scheduled_date = d
  /\ pledge_payments' = [i \in DOMAIN pledge_payments |->
       IF i \in PaymentsOf({p}) /\ pledge_payments[i].scheduled_date = d
       THEN [pledge_payments[i] EXCEPT !.status = st] ELSE pledge_payments[i]]
  /\ UNCHANGED <<contacts, campaignTables, pledges, pledge_blocks, pledge_reminders, groupTables, editing>>

UpdatePledgePaymentStatus(p, d, st) == UpdatePledgePayment(p, d, st)

DeletePledgePayment(i) ==
  /\ i \in DOMAIN pledge_payments
  /\ \A r \in DOMAIN pledge_reminders : pledge_reminders[r].pledge_payment_id # i
  /\ pledge_payments' = Without(pledge_payments, {i})
  /\ UNCHANGED <<contacts, campaignTables, pledges, pledge_blocks, pledge_reminders, groupTables, editing>>

(* The status is not among the columns of the INSERT: the row has the default. *)
CreatePledgeReminder(r, p, i, d) ==
  /\ r \in ReminderIds \ DOMAIN pledge_reminders
  /\ p \in DOMAIN pledges
  /\ i \in DOMAIN pledge_payments \cup {NULL}
  /\ pledge_reminders' = Insert(pledge_reminders, r,
       [pledge_id |-> p, pledge_payment_id |-> i, scheduled_date |-> d, status |-> "Scheduled"])
  /\ UNCHANGED <<contacts, campaignTables, pledges, pledge_blocks, pledge_payments, groupTables, editing>>

UpdateReminderStatus(r, st) ==
  /\ r \in DOMAIN pledge_reminders
  /\ pledge_reminders' = [pledge_reminders EXCEPT ![r].status = st]
  /\ UNCHANGED <<contacts, campaignTables, pledges, pledge_blocks, pledge_payments, groupTables, editing>>

DeletePledgeReminder(r) ==
  /\ r \in DOMAIN pledge_reminders
  /\ pledge_reminders' = Without(pledge_reminders, {r})
  /\ UNCHANGED <<contacts, campaignTables, pledges, pledge_blocks, pledge_payments, groupTables, editing>>

-----------------------------------------------------------------------------
(* Groups, their members, and the clients that edit a group's amount. *)

CreatePledgeGroup(g, row) ==
  /\ g \in PledgeGroupIds \ DOMAIN pledge_groups
  /\ pledge_groups' = Insert(pledge_groups, g, row)
  /\ contributed' = [contributed EXCEPT ![g] = row.current_amount]
  /\ groupView' = [e \in Editors |-> [groupView[e] EXCEPT ![g] = Unread]]
  /\ UNCHANGED <<contacts, campaignTables, pledgeTables, pledge_group_members, overlapped>>

(* A client reads the group to compute what it is to be. *)
GetPledgeGroup(e, g) ==
  /\ g \in DOMAIN pledge_groups
  /\ groupView' = [groupView EXCEPT ![e][g] =
       [amount |-> pledge_groups[g].current_amount, reading |-> TRUE, stale |-> FALSE]]
  /\ UNCHANGED <<contacts, campaignTables, pledgeTables, groupTables, contributed, overlapped>>

(* The statement writes a total: amounts written since the client read are lost. *)
WriteGroup(e, g, add) ==
  /\ g \in DOMAIN pledge_groups
  /\ groupView[e][g].reading
  /\ groupView[e][g].amount + add <= MaxAmount /\ contributed[g] + add <= MaxAmount
  /\ contributed' = [contributed EXCEPT ![g] = contributed[g] + add]
  /\ overlapped' = (overlapped \/ groupView[e][g].stale)
  /\ groupView' = [f \in Editors |-> [groupView[f] EXCEPT ![g] =
       IF f = e THEN Unread ELSE [groupView[f][g] EXCEPT !.stale = groupView[f][g].reading]]]
  /\ UNCHANGED <<contacts, campaignTables, pledgeTables, pledge_group_members>>

UpdatePledgeGroupAmount(e, g) ==
  /\ WriteGroup(e, g, 1)
  /\ pledge_groups' = [pledge_groups EXCEPT ![g].current_amount = groupView[e][g].amount + 1]

(* A mutated form, which starts the amount anew. *)
UpdatePledgeGroupFromZero(e, g, act) ==
  /\ WriteGroup(e, g, 0)
  /\ pledge_groups' = [pledge_groups EXCEPT ![g] = [current_amount |-> 0, is_active |-> act]]

(* An edit of the description or the flag writes the amount as it was read. *)
UpdatePledgeGroup(e, g, act) ==
  /\ WriteGroup(e, g, 0)
  /\ pledge_groups' = [pledge_groups EXCEPT ![g] =
                         [current_amount |-> groupView[e][g].amount, is_active |-> act]]

DeletePledgeGroup(g) ==
  /\ g \in DOMAIN pledge_groups
  /\ pledge_groups' = Without(pledge_groups, {g})
  /\ pledge_group_members' = Without(pledge_group_members,
       {m \in DOMAIN pledge_group_members : pledge_group_members[m].pledge_group_id = g})
  /\ UNCHANGED <<contacts, campaignTables, pledgeTables, editing>>

(* is_active is not among the columns of the INSERT: the row has the default. *)
CreatePledgeGroupMember(m, g, c, p) ==
  /\ m \in MemberIds \ DOMAIN pledge_group_members
  /\ g \in DOMAIN pledge_groups /\ c \in DOMAIN contacts /\ p \in DOMAIN pledges \cup {NULL}
  /\ \A n \in MembersOf({c}) : pledge_group_members[n].pledge_group_id # g
  /\ pledge_group_members' = Insert(pledge_group_members, m,
       [pledge_group_id |-> g, contact_id |-> c, pledge_id |-> p, is_active |-> TRUE])
  /\ UNCHANGED <<contacts, campaignTables, pledgeTables, pledge_groups, editing>>

UpdatePledgeGroupMember(g, c, act) ==
  /\ \E m \in MembersOf({c}) : pledge_group_members[m].pledge_group_id = g
  /\ pledge_group_members' = [m \in DOMAIN pledge_group_members |->
       IF m \in MembersOf({c}) /\ pledge_group_members[m].pledge_group_id = g
       THEN [pledge_group_members[m] EXCEPT !.is_active = act] ELSE pledge_group_members[m]]
  /\ UNCHANGED <<contacts, campaignTables, pledgeTables, pledge_groups, editing>>

DeletePledgeGroupMember(m) ==
  /\ m \in DOMAIN pledge_group_members
  /\ pledge_group_members' = Without(pledge_group_members, {m})
  /\ UNCHANGED <<contacts, campaignTables, pledgeTables, pledge_groups, editing>>
-----------------------------------------------------------------------------
(* Queries.  The joins with contacts and pledges lose no row while the        *)
(* references hold.                                                           *)

(* The rows a query joins with the contact that pledged. *)
Pledged(P) == {p \in P : pledges[p].contact_id \in DOMAIN contacts}

GetPledge(p) == DOMAIN pledges \cap {p}
GetPledgeByContact(c, st) == {p \in DOMAIN pledges : pledges[p].contact_id = c /\ Eq(pledges[p].status, st)}
ListPledgesByContact(c) == {p \in DOMAIN pledges : pledges[p].contact_id = c}
ListPledgesByStatus(st) == Pledged({p \in DOMAIN pledges : Eq(pledges[p].status, st)})
ListPledgesByCampaign(k, st) ==
  Pledged({p \in DOMAIN pledges : Eq(pledges[p].campaign_id, k) /\ Eq(pledges[p].status, st)})
ListPledgesByBlock(b, st) ==
  Pledged({p \in DOMAIN pledges : Eq(pledges[p].pledge_block_id, b) /\ Eq(pledges[p].status, st)})

(* A mutated form, which counts the pledges of all campaigns. *)
CountPledgesOfAll(k) ==
  [st \in CountedStatuses |-> Cardinality({p \in DOMAIN pledges : pledges[p].status = st})]

CountPledgesByStatus(k) ==
  [st \in CountedStatuses |->
     Cardinality({p \in DOMAIN pledges : Eq(pledges[p].campaign_id, k) /\ pledges[p].status = st})]

(* Both scan SUM(amount), a DECIMAL(12,2), into an int64, which takes neither   *)
(* "100.00" nor NULL; the first has one row always, the second one per month.   *)
GetPledgeSummary == Refused
GetPledgePerformance == IF DOMAIN pledges = {} THEN {} ELSE Refused

GetPledgeBlock(b) == DOMAIN pledge_blocks \cap {b}
ListPledgeBlocks(act) == {b \in DOMAIN pledge_blocks : Eq(pledge_blocks[b].is_active, act)}
ListPledgeBlocksByCampaign(k, act) ==
  {b \in DOMAIN pledge_blocks : Eq(pledge_blocks[b].campaign_id, k) /\ Eq(pledge_blocks[b].is_active, act)}

GetPledgePayment(i) == DOMAIN pledge_payments \cap {i}
ListPledgePayments(p) == {i \in DOMAIN pledge_payments : pledge_payments[i].pledge_id = p}
GetPledgePaymentSchedule(p) ==
  {i \in DOMAIN pledge_payments : pledge_payments[i].pledge_id = p /\ p \in Pledged(DOMAIN pledges)}
ListPledgePaymentsByStatus(st) ==
  {i \in DOMAIN pledge_payments : /\ Eq(pledge_payments[i].status, st)
                                  /\ pledge_payments[i].pledge_id \in Pledged(DOMAIN pledges)}
GetOverduePledges(d) ==
  {o \in Pledged(DOMAIN pledges) \X DOMAIN pledge_payments :
     /\ pledge_payments[o[2]].pledge_id = o[1] /\ pledges[o[1]].status = "In Progress"
     /\ pledge_payments[o[2]].status = "Scheduled" /\ pledge_payments[o[2]].scheduled_date < d}

GetPledgeReminder(r) == DOMAIN pledge_reminders \cap {r}
ListPledgeReminders(p, st) ==
  {r \in DOMAIN pledge_reminders : pledge_reminders[r].pledge_id = p /\ Eq(pledge_reminders[r].status, st)}
ListScheduledReminders(d) ==
  {r \in DOMAIN pledge_reminders : /\ pledge_reminders[r].status = "Scheduled"
                                   /\ pledge_reminders[r].scheduled_date <= d
                                   /\ pledge_reminders[r].pledge_id \in Pledged(DOMAIN pledges)}
GetPledgeReminderQueue(d) ==
  {r \in DOMAIN pledge_reminders :
     /\ pledge_reminders[r].status = "Scheduled" /\ pledge_reminders[r].scheduled_date <= d
     /\ pledge_reminders[r].pledge_id \in Pledged(DOMAIN pledges)
     /\ pledges[pledge_reminders[r].pledge_id].status \in {"In Progress", "Overdue"}}

ListPledgeGroups(act) == {g \in DOMAIN pledge_groups : Eq(pledge_groups[g].is_active, act)}
GetPledgeGroupMember(m) == DOMAIN pledge_group_members \cap {m}
ListPledgeGroupMembers(g, act) ==
  {m \in DOMAIN pledge_group_members : /\ pledge_group_members[m].pledge_group_id = g
                                       /\ Eq(pledge_group_members[m].is_active, act)
                                       /\ pledge_group_members[m].contact_id \in DOMAIN contacts}

-----------------------------------------------------------------------------
SomePledge(c, k, b, st) == [contact_id |-> c, campaign_id |-> k, pledge_block_id |-> b, status |-> st]

PledgesInit ==
  /\ pledges = NoRows /\ pledge_blocks = NoRows
  /\ pledge_payments = NoRows /\ pledge_reminders = NoRows
  /\ pledge_groups = NoRows /\ pledge_group_members = NoRows
  /\ groupView = [e \in Editors |-> [g \in PledgeGroupIds |-> Unread]]
  /\ contributed = [g \in PledgeGroupIds |-> 0]
  /\ overlapped = FALSE

ScheduleNext ==
  \/ \E c \in ContactIds : CreatePledgingContact(c) \/ DeletePledgingContact(c)
  \/ \E p \in PledgeIds : DeletePledge(p)
  \/ \E p \in PledgeIds, st \in PledgeStatuses \cup {NULL} :
       \/ UpdatePledge(p, st) \/ UpdatePledgeStatus(p, st)
       \/ \E c \in ContactIds, b \in BlockIds \cup {NULL} : CreatePledge(p, SomePledge(c, NULL, b, st))
  \/ \E b \in BlockIds : \/ DeletePledgeBlock(b)
                         \/ \E act \in Flags : LET row == [campaign_id |-> NULL, is_active |-> act]
                                              IN  CreatePledgeBlock(b, row) \/ UpdatePledgeBlock(b, row)
  \/ \E p \in PledgeIds, d \in Days, st \in DueStatuses \cup {NULL} :
       UpdatePledgePayment(p, d, st) \/ UpdatePledgePaymentStatus(p, d, st)
  \/ \E i \in PaymentIds : DeletePledgePayment(i) \/ \E row \in PledgePayment : CreatePledgePayment(i, row)
  \/ \E r \in ReminderIds : \/ DeletePledgeReminder(r)
                            \/ \E st \in DueStatuses \cup {NULL} : UpdateReminderStatus(r, st)
                            \/ \E p \in PledgeIds, i \in PaymentIds \cup {NULL}, d \in Days :
                                 CreatePledgeReminder(r, p, i, d)

PledgedNext ==
  \/ \E c \in ContactIds : CreatePledgingContact(c) \/ DeletePledgingContact(c)
  \/ \E k \in CampaignIds : CreatePledgedCampaign(k) \/ DeletePledgedCampaign(k)
  \/ \E p \in PledgeIds : DeletePledge(p)
  \/ \E p \in PledgeIds, st \in PledgeStatuses \cup {NULL} :
       \/ UpdatePledgeStatus(p, st)
       \/ \E c \in ContactIds, k \in CampaignIds \cup {NULL}, b \in BlockIds \cup {NULL} :
            CreatePledge(p, SomePledge(c, k, b, st))
  \/ \E b \in BlockIds : \/ DeletePledgeBlock(b)
                         \/ \E k \in CampaignIds \cup {NULL}, act \in Flags :
                              LET row == [campaign_id |-> k, is_active |-> act]
                              IN  CreatePledgeBlock(b, row) \/ UpdatePledgeBlock(b, row)

PledgeGroupNext ==
  \/ \E c \in ContactIds : CreatePledgingContact(c) \/ DeletePledgingContact(c)
  \/ \E p \in PledgeIds : \/ DeletePledge(p)
                          \/ \E c \in ContactIds : CreatePledge(p, SomePledge(c, NULL, NULL, "In Progress"))
  \/ \E g \in PledgeGroupIds :
       \/ \E row \in PledgeGroup : CreatePledgeGroup(g, row)
       \/ DeletePledgeGroup(g)
       \/ \E e \in Editors : \/ GetPledgeGroup(e, g) \/ UpdatePledgeGroupAmount(e, g)
                             \/ \E act \in Flag : UpdatePledgeGroup(e, g, act)
       \/ \E c \in ContactIds, act \in Flag : UpdatePledgeGroupMember(g, c, act)
  \/ \E m \in MemberIds : \/ DeletePledgeGroupMember(m)
                          \/ \E g \in PledgeGroupIds, c \in ContactIds, p \in PledgeIds \cup {NULL} :
                               CreatePledgeGroupMember(m, g, c, p)

PledgesNext == ScheduleNext \/ PledgedNext \/ PledgeGroupNext
PledgesSpec == ContactsInit /\ CampaignsInit /\ PledgesInit /\ [][PledgesNext]_pledgeVars

-----------------------------------------------------------------------------
(* After any sequence of these statements no row refers to a row that is gone, *)
(* whichever of the two kinds of foreign keys of 031_pledge_system.sql is in   *)
(* the way, and a group has a contact as a member once.                        *)
PledgeRefs ==
  /\ \A p \in DOMAIN pledges : /\ pledges[p].contact_id \in DOMAIN contacts
                               /\ pledges[p].campaign_id \in DOMAIN campaigns \cup {NULL}
                               /\ pledges[p].pledge_block_id \in DOMAIN pledge_blocks \cup {NULL}
  /\ \A b \in DOMAIN pledge_blocks : pledge_blocks[b].campaign_id \in DOMAIN campaigns \cup {NULL}
  /\ \A i \in DOMAIN pledge_payments : pledge_payments[i].pledge_id \in DOMAIN pledges
  /\ \A r \in DOMAIN pledge_reminders :
       /\ pledge_reminders[r].pledge_id \in DOMAIN pledges
       /\ pledge_reminders[r].pledge_payment_id \in DOMAIN pledge_payments \cup {NULL}
  /\ \A m \in DOMAIN pledge_group_members :
       /\ pledge_group_members[m].pledge_group_id \in DOMAIN pledge_groups
       /\ pledge_group_members[m].contact_id \in DOMAIN contacts
       /\ pledge_group_members[m].pledge_id \in DOMAIN pledges \cup {NULL}
       /\ \A n \in DOMAIN pledge_group_members \ {m} :
            \/ pledge_group_members[n].pledge_group_id # pledge_group_members[m].pledge_group_id
            \/ pledge_group_members[n].contact_id # pledge_group_members[m].contact_id

(* UpdatePledgeGroupAmount and UpdatePledgeGroup (pledges.sql:216-228) write   *)
(* a total the client computed from what it had read.  As long as no client    *)
(* wrote between another's read and write, the total is what was contributed.  *)
LoneEditorExact ==
  overlapped \/ \A g \in DOMAIN pledge_groups : pledge_groups[g].current_amount = contributed[g]

(* The answers of the queries that select pledges, payments and reminders by   *)
(* different conditions and joins fit together.  The counts of a campaign are  *)
(* its listings' and leave out exactly the pledges whose status is none of the *)
(* five (pledges.sql:346-354); what belongs to campaigns, blocks and contacts  *)
(* is found under them and makes up the listings by status; an overdue payment *)
(* is a scheduled one of its pledge; and a scheduled reminder comes up on its  *)
(* day, in the queue if and only if its pledge is listed as being paid.        *)
PledgeAnswersAgree ==
  /\ \A k \in DOMAIN campaigns :
       LET n == CountPledgesByStatus(k)
           total == n["Pending"] + n["In Progress"] + n["Overdue"] + n["Completed"] + n["Cancelled"]
           P == {p \in DOMAIN pledges : pledges[p].campaign_id = k}
       IN  /\ \A st \in CountedStatuses : n[st] = Cardinality(ListPledgesByCampaign(k, st))
           /\ total <= Cardinality(P)
           /\ total = Cardinality(P) <=> \A p \in P : pledges[p].status \in CountedStatuses
  /\ \A st \in PledgeStatuses :
       /\ UNION {ListPledgesByCampaign(k, st) : k \in DOMAIN campaigns}
            = {p \in ListPledgesByStatus(st) : pledges[p].campaign_id # NULL}
       /\ UNION {ListPledgesByBlock(b, st) : b \in DOMAIN pledge_blocks}
            = {p \in ListPledgesByStatus(st) : pledges[p].pledge_block_id # NULL}
       /\ UNION {GetPledgeByContact(c, st) : c \in DOMAIN contacts} = ListPledgesByStatus(st)
  /\ \A act \in BOOLEAN : UNION {ListPledgeBlocksByCampaign(k, act) : k \in DOMAIN campaigns}
                            = {b \in ListPledgeBlocks(act) : pledge_blocks[b].campaign_id # NULL}
  /\ UNION {ListPledgesByContact(c) : c \in DOMAIN contacts} = DOMAIN pledges
  /\ UNION {GetPledgePaymentSchedule(p) : p \in DOMAIN pledges} = DOMAIN pledge_payments
  /\ \A p \in DOMAIN pledges : GetPledgePaymentSchedule(p) = ListPledgePayments(p)
  /\ \A d \in Days : \A o \in GetOverduePledges(d) :
       /\ o[1] \in ListPledgesByStatus("In Progress")
       /\ o[2] \in ListPledgePaymentsByStatus("Scheduled") \cap GetPledgePaymentSchedule(o[1])
  /\ UNION {ListScheduledReminders(d) : d \in Days} = UNION {ListPledgeReminders(p, "Scheduled") : p \in DOMAIN pledges}
  /\ \A d \in Days : \A r \in ListScheduledReminders(d) :
       r \in GetPledgeReminderQueue(d) <=>
         pledge_reminders[r].pledge_id \in ListPledgesByStatus("In Progress") \cup ListPledgesByStatus("Overdue")
  /\ \A act \in BOOLEAN : UNION {ListPledgeGroupMembers(g, act) : g \in DOMAIN pledge_groups}
                            = {m \in DOMAIN pledge_group_members : pledge_group_members[m].is_active = act}
=============================================================================
