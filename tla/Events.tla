------------------------------- MODULE Events --------------------------------
(* Events, the registrations and participants of contacts, fees, discounts   *)
(* and the campaigns events belong to (migrations/005_events.sql,            *)
(* 007_event_registrations.sql, 013_event_enhancement.sql and                *)
(* 020_campaign_management.sql; generated/events.sql.go,                     *)
(* event_registrations.sql.go, participants.sql.go, event_fees.sql.go,       *)
(* discounts.sql.go, campaign_events.sql.go).  Left out: texts with the       *)
(* searches for them, amounts, weights, and max_participants, which no        *)
(* statement compares with anything.                                          *)
EXTENDS Campaigns

CONSTANTS EventIds, RegistrationIds, AttendeeIds, FeeIds, DiscountIds, CampaignEventIds,
          EventNames,               \* titles of events, names of fees and discounts
          RegistrationStatuses,
          ParticipantStatusIds,     \* the rows of participant_status_types, which no statement changes
          EventDays, MaxDate        \* the days events start and end, and the last day of the clock

VARIABLES events, event_registrations, participants, event_fees, discounts, campaign_events,
          date    \* what NOW() returns

pricing == <<event_fees, discounts>>
eventTables == <<events, event_registrations, participants, pricing, campaign_events, date>>
eventVars == <<contacts, campaignTables, eventTables>>

(* Days are counted, and there are finitely many uuids. *)
ASSUME EventAssumption == EventDays \subseteq Nat /\ MaxDate \in Nat /\ IsFiniteSet(CampaignEventIds)

(* An event may end before it starts. *)
Event == [title : EventNames, start_date : EventDays, end_date : EventDays]
EventRegistration == [event_id : EventIds, contact_id : ContactIds, status : RegistrationStatuses \cup {NULL}]
(* campaign_id refers to no table. *)
Participant == [event_id : EventIds, contact_id : ContactIds, status_id : ParticipantStatusIds,
                registered_by_id : ContactIds \cup {NULL}, campaign_id : CampaignIds \cup {NULL}, is_test : Flag]
EventFee == [event_id : EventIds, name : EventNames, is_active : Flag, is_default : Flag]
Discount == [name : EventNames, is_active : Flag]
CampaignEvent == [campaign_id : CampaignIds, event_id : EventIds, is_deleted : Flag]

EventsTypeOK ==
  /\ IsTable(events, EventIds, Event)
  /\ IsTable(event_registrations, RegistrationIds, EventRegistration)
  /\ IsTable(participants, AttendeeIds, Participant)
  /\ IsTable(event_fees, FeeIds, EventFee)
  /\ IsTable(discounts, DiscountIds, Discount)
  /\ IsTable(campaign_events, CampaignEventIds, CampaignEvent)
  /\ date \in 0..MaxDate

-----------------------------------------------------------------------------
RegistrationsOf(E, C) ==
  {r \in DOMAIN event_registrations : event_registrations[r].event_id \in E \/ event_registrations[r].contact_id \in C}
AttendeesOf(E, C) ==
  {p \in DOMAIN participants : participants[p].event_id \in E \/ participants[p].contact_id \in C}
FeesOf(E) == {f \in DOMAIN event_fees : event_fees[f].event_id \in E}
PromotionsOf(E, C) ==
  {l \in DOMAIN campaign_events : campaign_events[l].event_id \in E \/ campaign_events[l].campaign_id \in C}

CreateEvent(e, row) ==
  /\ e \in EventIds \ DOMAIN events
  /\ events' = Insert(events, e, row)
  /\ UNCHANGED <<contacts, campaignTables, event_registrations, participants, pricing, campaign_events, date>>

UpdateEvent(e, row) ==
  /\ e \in DOMAIN events
  /\ events' = [events EXCEPT ![e] = row]
  /\ UNCHANGED <<contacts, campaignTables, event_registrations, participants, pricing, campaign_events, date>>

DeleteEvent(e) ==
  /\ e \in DOMAIN events
  /\ events' = Without(events, {e})
  /\ event_registrations' = Without(event_registrations, RegistrationsOf({e}, {}))
  /\ participants' = Without(participants, AttendeesOf({e}, {}))
  /\ event_fees' = Without(event_fees, FeesOf({e}))
  /\ campaign_events' = Without(campaign_events, PromotionsOf({e}, {}))
  /\ UNCHANGED <<contacts, campaignTables, discounts, date>>

(* A contact may register more than once, also for an event that is over. *)
CreateEventRegistration(r, row) ==
  /\ r \in RegistrationIds \ DOMAIN event_registrations
  /\ row.event_id \in DOMAIN events /\ row.contact_id \in DOMAIN contacts
  /\ event_registrations' = Insert(event_registrations, r, row)
  /\ UNCHANGED <<contacts, campaignTables, events, participants, pricing, campaign_events, date>>

UpdateEventRegistration(r, st) ==
  /\ r \in DOMAIN event_registrations
  /\ event_registrations' = [event_registrations EXCEPT ![r].status = st]
  /\ UNCHANGED <<contacts, campaignTables, events, participants, pricing, campaign_events, date>>

DeleteEventRegistration(r) ==
  /\ r \in DOMAIN event_registrations
  /\ event_registrations' = Without(event_registrations, {r})
  /\ UNCHANGED <<contacts, campaignTables, events, participants, pricing, campaign_events, date>>

ParticipantFits(row) ==
  /\ row.event_id \in DOMAIN events /\ row.contact_id \in DOMAIN contacts
  /\ row.registered_by_id \in DOMAIN contacts \cup {NULL}

CreateParticipant(p, row) ==
  /\ p \in AttendeeIds \ DOMAIN participants /\ ParticipantFits(row)
  /\ participants' = Insert(participants, p, row)
  /\ UNCHANGED <<contacts, campaignTables, events, event_registrations, pricing, campaign_events, date>>

UpdateParticipant(p, row) ==
  /\ p \in DOMAIN participants /\ ParticipantFits(row)
  /\ participants' = [participants EXCEPT ![p] = row]
  /\ UNCHANGED <<contacts, campaignTables, events, event_registrations, pricing, campaign_events, date>>

DeleteParticipant(p) ==
  /\ p \in DOMAIN participants
  /\ participants' = Without(participants, {p})
  /\ UNCHANGED <<contacts, campaignTables, events, event_registrations, pricing, campaign_events, date>>

(* An event may have several fees of one name, and several defaults. *)
CreateEventFee(f, row) ==
  /\ f \in FeeIds \ DOMAIN event_fees
  /\ row.event_id \in DOMAIN events
  /\ event_fees' = Insert(event_fees, f, row)
  /\ UNCHANGED <<contacts, campaignTables, events, event_registrations, participants, discounts, campaign_events, date>>

UpdateEventFee(f, row) ==
  /\ f \in DOMAIN event_fees
  /\ row.event_id \in DOMAIN events
  /\ event_fees' = [event_fees EXCEPT ![f] = row]
  /\ UNCHANGED <<contacts, campaignTables, events, event_registrations, participants, discounts, campaign_events, date>>

DeleteEventFee(f) ==
  /\ f \in DOMAIN event_fees
  /\ event_fees' = Without(event_fees, {f})
  /\ UNCHANGED <<contacts, campaignTables, events, event_registrations, participants, discounts, campaign_events, date>>

CreateDiscount(d, row) ==
  /\ d \in DiscountIds \ DOMAIN discounts
  /\ discounts' = Insert(discounts, d, row)
  /\ UNCHANGED <<contacts, campaignTables, events, event_registrations, participants, event_fees, campaign_events, date>>

UpdateDiscount(d, row) ==
  /\ d \in DOMAIN discounts
  /\ discounts' = [discounts EXCEPT ![d] = row]
  /\ UNCHANGED <<contacts, campaignTables, events, event_registrations, participants, event_fees, campaign_events, date>>

DeleteDiscount(d) ==
  /\ d \in DOMAIN discounts
  /\ discounts' = Without(discounts, {d})
  /\ UNCHANGED <<contacts, campaignTables, events, event_registrations, participants, event_fees, campaign_events, date>>

CreateCampaignEvent(l, row) ==
  /\ l \in CampaignEventIds \ DOMAIN campaign_events
  /\ row.campaign_id \in DOMAIN campaigns /\ row.event_id \in DOMAIN events
  /\ campaign_events' = Insert(campaign_events, l, row)
  /\ UNCHANGED <<contacts, campaignTables, events, event_registrations, participants, pricing, date>>

UpdateCampaignEvent(l, row) ==
  /\ l \in DOMAIN campaign_events
  /\ row.campaign_id \in DOMAIN campaigns /\ row.event_id \in DOMAIN events
  /\ campaign_events' = [campaign_events EXCEPT ![l] = row]
  /\ UNCHANGED <<contacts, campaignTables, events, event_registrations, participants, pricing, date>>

DeleteCampaignEvent(l) ==
  l \in DOMAIN campaign_events /\ UpdateCampaignEvent(l, [campaign_events[l] EXCEPT !.is_deleted = TRUE])

HardDeleteCampaignEvent(l) ==
  /\ l \in DOMAIN campaign_events
  /\ campaign_events' = Without(campaign_events, {l})
  /\ UNCHANGED <<contacts, campaignTables, events, event_registrations, participants, pricing, date>>

CreateAttendee(c) == CreateContact(c, SomeContact) /\ UNCHANGED <<campaignTables, eventTables>>

(* Its registrations and participations go with it, as those in campaigns do, *)
(* but a contact stays while it registered a participant other than itself.   *)
DeleteAttendee(c) ==
  /\ \A p \in DOMAIN participants : participants[p].registered_by_id = c => participants[p].contact_id = c
  /\ DeleteSupporter(c)
  /\ event_registrations' = Without(event_registrations, RegistrationsOf({}, {c}))
  /\ participants' = Without(participants, AttendeesOf({}, {c}))
  /\ UNCHANGED <<events, pricing, campaign_events, date>>

CreatePromoter(c, row) == CreateCampaign(c, row) /\ UNCHANGED eventTables

(* Participants keep its id. *)
DeletePromoter(c) ==
  /\ DeleteCampaign(c)
  /\ campaign_events' = Without(campaign_events, PromotionsOf({}, {c}))
  /\ UNCHANGED <<events, event_registrations, participants, pricing, date>>

NextDate ==
  /\ date < MaxDate
  /\ date' = date + 1
  /\ UNCHANGED <<contacts, campaignTables, events, event_registrations, participants, pricing, campaign_events>>

-----------------------------------------------------------------------------
(* Queries. *)

GetEvent(e) == DOMAIN events \cap {e}
GetEventByTitle(n) == {e \in DOMAIN events : events[e].title = n}
ListEvents == DOMAIN events
ListUpcomingEvents == {e \in DOMAIN events : events[e].start_date > date}
ListPastEvents == {e \in DOMAIN events : events[e].end_date < date}
CountEvents == Cardinality(DOMAIN events)
CountUpcomingEvents == Cardinality({e \in DOMAIN events : events[e].start_date > date})
GetEventsByDateRange(a, b) == {e \in DOMAIN events : events[e].start_date >= a /\ events[e].end_date <= b}

(* The listings of registrations join the event, and but for one the contact. *)
RegisteredTo(E) == {r \in DOMAIN event_registrations : /\ event_registrations[r].event_id \in E \cap DOMAIN events
                                                       /\ event_registrations[r].contact_id \in DOMAIN contacts}
GetEventRegistration(r) == DOMAIN event_registrations \cap {r}
GetEventRegistrationByEventAndContact(e, c) ==
  {r \in DOMAIN event_registrations : event_registrations[r].event_id = e /\ event_registrations[r].contact_id = c}
GetRegistrationsByEvent(e) == RegisteredTo({e})
GetRegistrationsByContact(c) ==
  {r \in DOMAIN event_registrations : event_registrations[r].contact_id = c /\ event_registrations[r].event_id \in DOMAIN events}
ListAllRegistrations == RegisteredTo(DOMAIN events)
ListRegistrationsByStatus(st) == {r \in RegisteredTo(DOMAIN events) : Eq(event_registrations[r].status, st)}
GetUpcomingRegistrations == RegisteredTo({e \in DOMAIN events : events[e].start_date > date})
GetPastRegistrations == RegisteredTo({e \in DOMAIN events : events[e].end_date < date})
CountRegistrations == Cardinality(DOMAIN event_registrations)
CountRegistrationsByEvent(e) == Cardinality({r \in DOMAIN event_registrations : event_registrations[r].event_id = e})
CountRegistrationsByContact(c) == Cardinality({r \in DOMAIN event_registrations : event_registrations[r].contact_id = c})
CountRegistrationsByStatus(st) == Cardinality({r \in DOMAIN event_registrations : Eq(event_registrations[r].status, st)})

GetParticipant(p) == DOMAIN participants \cap {p}
GetParticipantByEventAndContact(e, c) == {p \in DOMAIN participants : participants[p].event_id = e /\ participants[p].contact_id = c}
GetParticipantsByEvent(e) == {p \in DOMAIN participants : participants[p].event_id = e}
GetParticipantsByContact(c) == {p \in DOMAIN participants : participants[p].contact_id = c}
GetParticipantsByStatus(st) == {p \in DOMAIN participants : participants[p].status_id = st}
GetParticipantsByCampaign(c) == {p \in DOMAIN participants : Eq(participants[p].campaign_id, c)}
ListAllParticipants == DOMAIN participants
ListTestParticipants(t) == {p \in DOMAIN participants : Eq(participants[p].is_test, t)}
CountParticipants == Cardinality(DOMAIN participants)
CountParticipantsByEvent(e) == Cardinality({p \in DOMAIN participants : participants[p].event_id = e})
CountParticipantsByContact(c) == Cardinality({p \in DOMAIN participants : participants[p].contact_id = c})
CountParticipantsByStatus(st) == Cardinality({p \in DOMAIN participants : participants[p].status_id = st})
CountParticipantsByCampaign(c) == Cardinality({p \in DOMAIN participants : Eq(participants[p].campaign_id, c)})

GetEventFee(f) == DOMAIN event_fees \cap {f}
GetEventFeeByName(n, e) == {f \in DOMAIN event_fees : event_fees[f].name = n /\ event_fees[f].event_id = e}
GetEventFeeByEvent(e) == {f \in DOMAIN event_fees : event_fees[f].event_id = e}
GetActiveEventFees == {f \in DOMAIN event_fees : event_fees[f].is_active = TRUE}
GetDefaultEventFee(e) ==
  {f \in DOMAIN event_fees : event_fees[f].event_id = e /\ event_fees[f].is_default = TRUE /\ event_fees[f].is_active = TRUE}
ListEventFees == DOMAIN event_fees
ListEventFeesByEvent(e, act) == {f \in DOMAIN event_fees : event_fees[f].event_id = e /\ Eq(event_fees[f].is_active, act)}
CountEventFees == Cardinality(DOMAIN event_fees)
CountEventFeesByEvent(e) == Cardinality({f \in DOMAIN event_fees : event_fees[f].event_id = e})
CountActiveEventFees == Cardinality({f \in DOMAIN event_fees : event_fees[f].is_active = TRUE})

GetDiscount(d) == DOMAIN discounts \cap {d}
GetDiscountByName(n) == {d \in DOMAIN discounts : discounts[d].name = n}
ListDiscounts(act) == {d \in DOMAIN discounts : Eq(discounts[d].is_active, act)}
CountDiscounts(act) == Cardinality({d \in DOMAIN discounts : Eq(discounts[d].is_active, act)})

(* A row whose is_deleted is NULL is in no listing and in no count. *)
ListCampaignEvents == {l \in DOMAIN campaign_events : campaign_events[l].is_deleted = FALSE}
GetCampaignEvent(l) == ListCampaignEvents \cap {l}
GetCampaignEventsByCampaign(c) == {l \in ListCampaignEvents : campaign_events[l].campaign_id = c}
GetCampaignEventsByEvent(e) == {l \in ListCampaignEvents : campaign_events[l].event_id = e}
GetCampaignEventsWithDetails(c) == {l \in GetCampaignEventsByCampaign(c) : campaign_events[l].event_id \in DOMAIN events}
ListCampaignEventsByDateRange(a, b) ==
  {l \in ListCampaignEvents : campaign_events[l].event_id \in {e \in DOMAIN events : events[e].start_date \in a..b}}
ListCampaignEventsByType == {l \in ListCampaignEvents : campaign_events[l].event_id \in DOMAIN events}
GetCampaignEventCount(c) == Cardinality(GetCampaignEventsByCampaign(c))
(* One row, for the type 'All Events', or none. *)
GetCampaignEventStats(c) == {Cardinality(GetCampaignEventsByCampaign(c))} \ {0}
GetCampaignEventSummary(act) ==
  [c \in {d \in DOMAIN campaigns : Eq(campaigns[d].is_active, act)} |-> Cardinality(GetCampaignEventsByCampaign(c))]

-----------------------------------------------------------------------------
EventsInit == /\ events = NoRows /\ event_registrations = NoRows /\ participants = NoRows
              /\ event_fees = NoRows /\ discounts = NoRows /\ campaign_events = NoRows /\ date = 0

SomeDay == CHOOSE d \in EventDays : TRUE
SomeEvents == {row \in Event : row.start_date = SomeDay /\ row.end_date = SomeDay}

CalendarNext ==
  \/ NextDate
  \/ \E c \in ContactIds : CreateAttendee(c) \/ DeleteAttendee(c)
  \/ \E e \in EventIds : DeleteEvent(e) \/ \E row \in Event : CreateEvent(e, row) \/ UpdateEvent(e, row)
  \/ \E r \in RegistrationIds : \/ DeleteEventRegistration(r)
                                \/ \E st \in RegistrationStatuses \cup {NULL} : UpdateEventRegistration(r, st)
                                \/ \E row \in EventRegistration : CreateEventRegistration(r, row)

AttendanceNext ==
  \/ \E c \in ContactIds : CreateAttendee(c) \/ DeleteAttendee(c)
  \/ \E e \in EventIds : DeleteEvent(e) \/ \E row \in SomeEvents : CreateEvent(e, row)
  \/ \E c \in CampaignIds : CreatePromoter(c, SomeCampaign) \/ DeletePromoter(c)
  \/ \E p \in AttendeeIds :
       \/ DeleteParticipant(p)
       \/ \E e \in EventIds, c \in ContactIds, st \in ParticipantStatusIds, by \in ContactIds \cup {NULL},
            k \in DOMAIN campaigns \cup {NULL} :
            LET row == [event_id |-> e, contact_id |-> c, status_id |-> st, registered_by_id |-> by,
                        campaign_id |-> k, is_test |-> k = NULL]
            IN  CreateParticipant(p, row) \/ UpdateParticipant(p, row)

FeesNext ==
  \/ \E e \in EventIds : DeleteEvent(e) \/ \E row \in SomeEvents : CreateEvent(e, row)
  \/ \E f \in FeeIds : \/ DeleteEventFee(f)
                       \/ \E e \in EventIds, n \in EventNames, act, def \in Flags :
                            LET row == [event_id |-> e, name |-> n, is_active |-> act, is_default |-> def]
                            IN  CreateEventFee(f, row) \/ UpdateEventFee(f, row)
  \/ \E d \in DiscountIds : DeleteDiscount(d) \/ \E n \in EventNames, act \in Flags :
       LET row == [name |-> n, is_active |-> act] IN CreateDiscount(d, row) \/ UpdateDiscount(d, row)

PromotionsNext ==
  \/ \E e \in EventIds : DeleteEvent(e) \/ \E row \in SomeEvents : CreateEvent(e, row)
  \/ \E c \in CampaignIds : CreatePromoter(c, SomeCampaign) \/ DeletePromoter(c)
  \/ \E l \in CampaignEventIds : \/ DeleteCampaignEvent(l) \/ HardDeleteCampaignEvent(l)
                                 \/ \E row \in {k \in CampaignEvent : k.is_deleted # TRUE} :
                                      CreateCampaignEvent(l, row) \/ UpdateCampaignEvent(l, row)

EventsNext == CalendarNext \/ AttendanceNext \/ FeesNext \/ PromotionsNext
EventsSpec == ContactsInit /\ CampaignsInit /\ EventsInit /\ [][EventsNext]_eventVars

-----------------------------------------------------------------------------
(* Deleting an event or a contact takes rows of up to four tables with it, and *)
(* none that refers to a row that is gone stays; a contact that registered     *)
(* another stays as long as the other's participation (013_event_enhancement   *)
(* .sql:17 has no ON DELETE).                                                  *)
EventRefs ==
  /\ \A r \in DOMAIN event_registrations : /\ event_registrations[r].event_id \in DOMAIN events
                                           /\ event_registrations[r].contact_id \in DOMAIN contacts
  /\ \A p \in DOMAIN participants : ParticipantFits(participants[p])
  /\ \A f \in DOMAIN event_fees : event_fees[f].event_id \in DOMAIN events
  /\ \A l \in DOMAIN campaign_events : /\ campaign_events[l].campaign_id \in DOMAIN campaigns
                                       /\ campaign_events[l].event_id \in DOMAIN events

(* The registrations that listings join with event and contact are all that    *)
(* the counts count, and each is found by its contact and an event, as each    *)
(* participant is; only an event that ends before it starts is upcoming and    *)
(* past at once; and the joins with events lose no event of a campaign.        *)
EventAnswersAgree ==
  /\ \A e \in ListUpcomingEvents \cap ListPastEvents : events[e].end_date < events[e].start_date
  /\ \A a, b \in EventDays : b < date => GetEventsByDateRange(a, b) \subseteq ListPastEvents
  /\ CountRegistrations = Cardinality(ListAllRegistrations)
  /\ \A st \in RegistrationStatuses : CountRegistrationsByStatus(st) = Cardinality(ListRegistrationsByStatus(st))
  /\ \A e \in ListEvents : CountRegistrationsByEvent(e) = Cardinality(GetRegistrationsByEvent(e))
  /\ \A c \in DOMAIN contacts :
       /\ CountRegistrationsByContact(c) = Cardinality(GetRegistrationsByContact(c))
       /\ GetRegistrationsByContact(c) = UNION {GetEventRegistrationByEventAndContact(e, c) : e \in DOMAIN events}
       /\ GetParticipantsByContact(c) = UNION {GetParticipantByEventAndContact(e, c) : e \in DOMAIN events}
  /\ ListAllParticipants = UNION {GetParticipantsByContact(c) : c \in DOMAIN contacts}
  /\ ListCampaignEventsByType = ListCampaignEvents
  /\ \A c \in CampaignIds : GetCampaignEventStats(c) = {} <=> GetCampaignEventsWithDetails(c) = {}
  /\ \A l \in ListCampaignEvents : LET e == campaign_events[l].event_id IN
       l \in ListCampaignEventsByDateRange(events[e].start_date, events[e].start_date)
=============================================================================
