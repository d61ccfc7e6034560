------------------------------ MODULE Mailings -------------------------------
(* Message templates, mailing lists and subscriptions, mailings with their   *)
(* recipients and tracking, text messages and communication preferences      *)
(* (migrations/030_communication_system.sql, generated/communication.sql.go).*)
(* Left out: texts, dates, the totals clients write and a mailing's creator. *)
(* Nothing in the program sends a mailing: clients drive the statuses.       *)
EXTENDS Contacts

CONSTANTS TemplateIds, ListIds, SubscriptionIds, MailingIds, RecipientIds,
          UrlIds, ClickIds, OpenIds, SmsIds, PreferenceIds,
          MailingNames,        \* the names of templates and lists
          (* The texts that clients write as the status of a subscription, a     *)
          (* mailing, a recipient and a text message: no CHECK holds them to the *)
          (* ones that comments of the migration name, and NULL is one too.      *)
          SubscriptionStatuses, MailingStatuses, RecipientStatuses, SmsStatuses

(* There are finitely many uuids. *)
ASSUME MailingsAssumption == IsFiniteSet(RecipientIds) /\ IsFiniteSet(PreferenceIds)

VARIABLES message_templates, mailing_lists, mailing_list_subscriptions, mailings, mailing_recipients,
          mailing_trackable_urls, mailing_url_clicks, mailing_opens, sms_messages, communication_preferences

listTables == <<mailing_lists, mailing_list_subscriptions>>
tracking == <<mailing_trackable_urls, mailing_url_clicks, mailing_opens>>
messaging == <<sms_messages, communication_preferences>>
mailingVars == <<contacts, message_templates, listTables, mailings, mailing_recipients, tracking, messaging>>

(* The statuses of recipients that the statements look for. *)
Reached == {"Sent", "Delivered", "Opened", "Clicked"}
TalliedStates == Reached \cup {"Bounced", "Unsubscribed"}

MessageTemplate == [name : MailingNames, is_active : Flag]
MailingList == [name : MailingNames, is_active : Flag, is_hidden : Flag]
MailingListSubscription == [mailing_list_id : ListIds, contact_id : ContactIds,
                            status : SubscriptionStatuses \cup {NULL}, is_active : Flag]
Mailing == [template_id : TemplateIds \cup {NULL}, mailing_list_id : ListIds \cup {NULL},
            status : MailingStatuses \cup {NULL}]
MailingRecipient == [mailing_id : MailingIds, contact_id : ContactIds, status : RecipientStatuses \cup {NULL}]
MailingTrackableUrl == [mailing_id : MailingIds]
MailingUrlClick == [trackable_url_id : UrlIds, recipient_id : RecipientIds, contact_id : ContactIds]
MailingOpen == [recipient_id : RecipientIds, contact_id : ContactIds]
SmsMessage == [contact_id : ContactIds, status : SmsStatuses \cup {NULL}]
CommunicationPreference == [contact_id : ContactIds, email_opt_out : Flag, sms_opt_out : Flag]

MailingsTypeOK ==
  /\ IsTable(message_templates, TemplateIds, MessageTemplate)
  /\ IsTable(mailing_lists, ListIds, MailingList)
  /\ IsTable(mailing_list_subscriptions, SubscriptionIds, MailingListSubscription)
  /\ IsTable(mailings, MailingIds, Mailing)
  /\ IsTable(mailing_recipients, RecipientIds, MailingRecipient)
  /\ IsTable(mailing_trackable_urls, UrlIds, MailingTrackableUrl)
  /\ IsTable(mailing_url_clicks, ClickIds, MailingUrlClick)
  /\ IsTable(mailing_opens, OpenIds, MailingOpen)
  /\ IsTable(sms_messages, SmsIds, SmsMessage)
  /\ IsTable(communication_preferences, PreferenceIds, CommunicationPreference)

-----------------------------------------------------------------------------
(* Templates, lists and subscriptions.  A mailing of a list or of a template *)
(* keeps it; a list takes its subscriptions with it.                         *)

CreateMessageTemplate(t, row) ==
  /\ t \in TemplateIds \ DOMAIN message_templates
  /\ \A u \in DOMAIN message_templates : message_templates[u].name # row.name
  /\ message_templates' = Insert(message_templates, t, row)
  /\ UNCHANGED <<contacts, listTables, mailings, mailing_recipients, tracking, messaging>>

UpdateMessageTemplate(t, act) ==
  /\ t \in DOMAIN message_templates
  /\ message_templates' = [message_templates EXCEPT ![t].is_active = act]
  /\ UNCHANGED <<contacts, listTables, mailings, mailing_recipients, tracking, messaging>>

DeleteMessageTemplate(t) ==
  /\ t \in DOMAIN message_templates
  /\ \A m \in DOMAIN mailings : mailings[m].template_id # t
  /\ message_templates' = Without(message_templates, {t})
  /\ UNCHANGED <<contacts, listTables, mailings, mailing_recipients, tracking, messaging>>

CreateMailingList(l, row) ==
  /\ l \in ListIds \ DOMAIN mailing_lists
  /\ \A k \in DOMAIN mailing_lists : mailing_lists[k].name # row.name
  /\ mailing_lists' = Insert(mailing_lists, l, row)
  /\ UNCHANGED <<contacts, message_templates, mailing_list_subscriptions, mailings, mailing_recipients, tracking, messaging>>

UpdateMailingList(l, act, hid) ==
  /\ l \in DOMAIN mailing_lists
  /\ mailing_lists' = [mailing_lists EXCEPT ![l].is_active = act, ![l].is_hidden = hid]
  /\ UNCHANGED <<contacts, message_templates, mailing_list_subscriptions, mailings, mailing_recipients, tracking, messaging>>

DeleteMailingList(l) ==
  /\ l \in DOMAIN mailing_lists
  /\ \A m \in DOMAIN mailings : mailings[m].mailing_list_id # l
  /\ mailing_lists' = Without(mailing_lists, {l})
  /\ mailing_list_subscriptions' = Without(mailing_list_subscriptions,
       {s \in DOMAIN mailing_list_subscriptions : mailing_list_subscriptions[s].mailing_list_id = l})
  /\ UNCHANGED <<contacts, message_templates, mailings, mailing_recipients, tracking, messaging>>

GetSubscriptionByContactAndList(l, c) ==
  {s \in DOMAIN mailing_list_subscriptions : /\ mailing_list_subscriptions[s].mailing_list_id = l
                                             /\ mailing_list_subscriptions[s].contact_id = c}

CreateMailingListSubscription(s, row) ==
  /\ s \in SubscriptionIds \ DOMAIN mailing_list_subscriptions
  /\ row.mailing_list_id \in DOMAIN mailing_lists /\ row.contact_id \in DOMAIN contacts
  /\ GetSubscriptionByContactAndList(row.mailing_list_id, row.contact_id) = {}
  /\ mailing_list_subscriptions' = Insert(mailing_list_subscriptions, s, row)
  /\ UNCHANGED <<contacts, message_templates, mailing_lists, mailings, mailing_recipients, tracking, messaging>>

(* A mutated form, which takes who unsubscribes off the listing. *)
UpdateSubscriptionStatusAndFlag(l, c, st) ==
  /\ GetSubscriptionByContactAndList(l, c) # {}
  /\ mailing_list_subscriptions' = [s \in DOMAIN mailing_list_subscriptions |->
       IF s \in GetSubscriptionByContactAndList(l, c)
       THEN [mailing_list_subscriptions[s] EXCEPT !.status = st, !.is_active = (st = "Subscribed")]
       ELSE mailing_list_subscriptions[s]]
  /\ UNCHANGED <<contacts, message_templates, mailing_lists, mailings, mailing_recipients, tracking, messaging>>

(* The status alone: is_active stays as it was inserted. *)
UpdateSubscriptionStatus(l, c, st) ==
  /\ GetSubscriptionByContactAndList(l, c) # {}
  /\ mailing_list_subscriptions' = [s \in DOMAIN mailing_list_subscriptions |->
       IF s \in GetSubscriptionByContactAndList(l, c)
       THEN [mailing_list_subscriptions[s] EXCEPT !.status = st] ELSE mailing_list_subscriptions[s]]
  /\ UNCHANGED <<contacts, message_templates, mailing_lists, mailings, mailing_recipients, tracking, messaging>>

DeleteMailingListSubscription(s) ==
  /\ s \in DOMAIN mailing_list_subscriptions
  /\ mailing_list_subscriptions' = Without(mailing_list_subscriptions, {s})
  /\ UNCHANGED <<contacts, message_templates, mailing_lists, mailings, mailing_recipients, tracking, messaging>>

-----------------------------------------------------------------------------
(* Mailings, their recipients and what is tracked of them. *)

CreateMailing(m, row) ==
  /\ m \in MailingIds \ DOMAIN mailings
  /\ row.template_id \in DOMAIN message_templates \cup {NULL}
  /\ row.mailing_list_id \in DOMAIN mailing_lists \cup {NULL}
  /\ mailings' = Insert(mailings, m, row)
  /\ UNCHANGED <<contacts, message_templates, listTables, mailing_recipients, tracking, messaging>>

UpdateMailingStatus(m, st) ==
  /\ m \in DOMAIN mailings
  /\ mailings' = [mailings EXCEPT ![m].status = st]
  /\ UNCHANGED <<contacts, message_templates, listTables, mailing_recipients, tracking, messaging>>

(* Rows that go with the recipients R, the addresses U and the contacts C. *)
ClicksOf(R, U, C) == {k \in DOMAIN mailing_url_clicks : \/ mailing_url_clicks[k].recipient_id \in R
                                                        \/ mailing_url_clicks[k].trackable_url_id \in U
                                                        \/ mailing_url_clicks[k].contact_id \in C}
OpensOf(R, C) == {o \in DOMAIN mailing_opens : mailing_opens[o].recipient_id \in R \/ mailing_opens[o].contact_id \in C}
RecipientsOf(M, C) ==
  {r \in DOMAIN mailing_recipients : mailing_recipients[r].mailing_id \in M \/ mailing_recipients[r].contact_id \in C}
UrlsOf(m) == {u \in DOMAIN mailing_trackable_urls : mailing_trackable_urls[u].mailing_id = m}

(* A mutated form, which leaves what was opened. *)
DropRecipientsKeepingOpens(R, U, C) ==
  /\ mailing_recipients' = Without(mailing_recipients, R)
  /\ mailing_url_clicks' = Without(mailing_url_clicks, ClicksOf(R, U, C))
  /\ UNCHANGED mailing_opens

DropRecipients(R, U, C) ==
  /\ mailing_recipients' = Without(mailing_recipients, R)
  /\ mailing_url_clicks' = Without(mailing_url_clicks, ClicksOf(R, U, C))
  /\ mailing_opens' = Without(mailing_opens, OpensOf(R, C))

DeleteMailing(m) ==
  /\ m \in DOMAIN mailings
  /\ mailings' = Without(mailings, {m})
  /\ mailing_trackable_urls' = Without(mailing_trackable_urls, UrlsOf(m))
  /\ DropRecipients(RecipientsOf({m}, {}), UrlsOf(m), {})
  /\ UNCHANGED <<contacts, message_templates, listTables, messaging>>

GetRecipientByMailingAndContact(m, c) ==
  {r \in DOMAIN mailing_recipients : mailing_recipients[r].mailing_id = m /\ mailing_recipients[r].contact_id = c}

CreateMailingRecipient(r, row) ==
  /\ r \in RecipientIds \ DOMAIN mailing_recipients
  /\ row.mailing_id \in DOMAIN mailings /\ row.contact_id \in DOMAIN contacts
  /\ GetRecipientByMailingAndContact(row.mailing_id, row.contact_id) = {}
  /\ mailing_recipients' = Insert(mailing_recipients, r, row)
  /\ UNCHANGED <<contacts, message_templates, listTables, mailings, tracking, messaging>>

(* Any status after any other. *)
UpdateRecipientStatus(m, c, st) ==
  /\ GetRecipientByMailingAndContact(m, c) # {}
  /\ mailing_recipients' = [r \in DOMAIN mailing_recipients |->
       IF r \in GetRecipientByMailingAndContact(m, c)
       THEN [mailing_recipients[r] EXCEPT !.status = st] ELSE mailing_recipients[r]]
  /\ UNCHANGED <<contacts, message_templates, listTables, mailings, tracking, messaging>>

DeleteMailingRecipient(r) ==
  /\ r \in DOMAIN mailing_recipients
  /\ DropRecipients({r}, {}, {})
  /\ UNCHANGED <<contacts, message_templates, listTables, mailings, mailing_trackable_urls, messaging>>

CreateTrackableUrl(u, m) ==
  /\ u \in UrlIds \ DOMAIN mailing_trackable_urls
  /\ m \in DOMAIN mailings
  /\ mailing_trackable_urls' = Insert(mailing_trackable_urls, u, [mailing_id |-> m])
  /\ UNCHANGED <<contacts, message_templates, listTables, mailings, mailing_recipients,
                 mailing_url_clicks, mailing_opens, messaging>>

(* Nothing ties the recipient to the mailing of the address, or the contact to either. *)
CreateUrlClick(k, u, r, c) ==
  /\ k \in ClickIds \ DOMAIN mailing_url_clicks
  /\ u \in DOMAIN mailing_trackable_urls /\ r \in DOMAIN mailing_recipients /\ c \in DOMAIN contacts
  /\ mailing_url_clicks' = Insert(mailing_url_clicks, k,
                                  [trackable_url_id |-> u, recipient_id |-> r, contact_id |-> c])
  /\ UNCHANGED <<contacts, message_templates, listTables, mailings, mailing_recipients,
                 mailing_trackable_urls, mailing_opens, messaging>>

CreateMailingOpen(o, r, c) ==
  /\ o \in OpenIds \ DOMAIN mailing_opens
  /\ r \in DOMAIN mailing_recipients /\ c \in DOMAIN contacts
  /\ mailing_opens' = Insert(mailing_opens, o, [recipient_id |-> r, contact_id |-> c])
  /\ UNCHANGED <<contacts, message_templates, listTables, mailings, mailing_recipients,
                 mailing_trackable_urls, mailing_url_clicks, messaging>>

-----------------------------------------------------------------------------
(* Text messages and preferences. *)

CreateSmsMessage(i, row) ==
  /\ i \in SmsIds \ DOMAIN sms_messages
  /\ row.contact_id \in DOMAIN contacts
  /\ sms_messages' = Insert(sms_messages, i, row)
  /\ UNCHANGED <<contacts, message_templates, listTables, mailings, mailing_recipients, tracking, communication_preferences>>

UpdateSmsStatus(i, st) ==
  /\ i \in DOMAIN sms_messages
  /\ sms_messages' = [sms_messages EXCEPT ![i].status = st]
  /\ UNCHANGED <<contacts, message_templates, listTables, mailings, mailing_recipients, tracking, communication_preferences>>

DeleteSmsMessage(i) ==
  /\ i \in DOMAIN sms_messages
  /\ sms_messages' = Without(sms_messages, {i})
  /\ UNCHANGED <<contacts, message_templates, listTables, mailings, mailing_recipients, tracking, communication_preferences>>

PreferencesOf(c) == {p \in DOMAIN communication_preferences : communication_preferences[p].contact_id = c}

(* A contact may have several: the migration creates the unique index IF NOT  *)
(* EXISTS under the name of the plain index it has just created (lines 169    *)
(* and 176), which skips it.                                                  *)
CreateCommunicationPreferences(p, row) ==
  /\ p \in PreferenceIds \ DOMAIN communication_preferences
  /\ row.contact_id \in DOMAIN contacts
  /\ communication_preferences' = Insert(communication_preferences, p, row)
  /\ UNCHANGED <<contacts, message_templates, listTables, mailings, mailing_recipients, tracking, sms_messages>>

UpdateCommunicationPreferences(row) ==
  /\ PreferencesOf(row.contact_id) # {}
  /\ communication_preferences' = [p \in DOMAIN communication_preferences |->
       IF p \in PreferencesOf(row.contact_id) THEN row ELSE communication_preferences[p]]
  /\ UNCHANGED <<contacts, message_templates, listTables, mailings, mailing_recipients, tracking, sms_messages>>

DeleteCommunicationPreferences(c) ==
  /\ PreferencesOf(c) # {}
  /\ communication_preferences' = Without(communication_preferences, PreferencesOf(c))
  /\ UNCHANGED <<contacts, message_templates, listTables, mailings, mailing_recipients, tracking, sms_messages>>

CreateAddressee(c) ==
  /\ CreateContact(c, SomeContact)
  /\ UNCHANGED <<message_templates, listTables, mailings, mailing_recipients, tracking, messaging>>

DeleteAddressee(c) ==
  /\ DeleteContact(c)
  /\ mailing_list_subscriptions' = Without(mailing_list_subscriptions,
       {s \in DOMAIN mailing_list_subscriptions : mailing_list_subscriptions[s].contact_id = c})
  /\ DropRecipients(RecipientsOf({}, {c}), {}, {c})
  /\ sms_messages' = Without(sms_messages, {i \in DOMAIN sms_messages : sms_messages[i].contact_id = c})
  /\ communication_preferences' = Without(communication_preferences, PreferencesOf(c))
  /\ UNCHANGED <<message_templates, mailing_lists, mailings, mailing_trackable_urls>>

-----------------------------------------------------------------------------
(* Queries. *)

GetMessageTemplate(t) == DOMAIN message_templates \cap {t}
GetMessageTemplateByName(n) == {t \in DOMAIN message_templates : message_templates[t].name = n}
ListMessageTemplates(act) == {t \in DOMAIN message_templates : Eq(message_templates[t].is_active, act)}
GetMailingList(l) == DOMAIN mailing_lists \cap {l}
GetMailingListByName(n) == {l \in DOMAIN mailing_lists : mailing_lists[l].name = n}
ListMailingLists(act, hid) == {l \in DOMAIN mailing_lists : Eq(mailing_lists[l].is_active, act) /\ Eq(mailing_lists[l].is_hidden, hid)}

(* Who is on a list is asked by is_active, whatever the status. *)
GetMailingListSubscription(s) == DOMAIN mailing_list_subscriptions \cap {s}
ListSubscriptionsByList(l, act) ==
  {s \in DOMAIN mailing_list_subscriptions : /\ mailing_list_subscriptions[s].mailing_list_id = l
                                             /\ mailing_list_subscriptions[s].contact_id \in DOMAIN contacts
                                             /\ Eq(mailing_list_subscriptions[s].is_active, act)}
ListSubscriptionsByContact(c, act) ==
  {s \in DOMAIN mailing_list_subscriptions : /\ mailing_list_subscriptions[s].contact_id = c
                                             /\ mailing_list_subscriptions[s].mailing_list_id \in DOMAIN mailing_lists
                                             /\ Eq(mailing_list_subscriptions[s].is_active, act)}

GetMailing(m) == DOMAIN mailings \cap {m}
ListMailings(st) == {m \in DOMAIN mailings : Eq(mailings[m].status, st)}
GetMailingRecipient(r) == DOMAIN mailing_recipients \cap {r}
ListRecipientsByMailing(m) ==
  {r \in DOMAIN mailing_recipients : mailing_recipients[r].mailing_id = m /\ mailing_recipients[r].contact_id \in DOMAIN contacts}

(* Recipients by the status they have now: who opened is not among those       *)
(* delivered to, and a status that is not looked for counts in the total only. *)
GetMailingStats(m) ==
  [total |-> Cardinality({r \in DOMAIN mailing_recipients : mailing_recipients[r].mailing_id = m}),
   by_status |-> [st \in TalliedStates |->
                    Cardinality({r \in DOMAIN mailing_recipients : /\ mailing_recipients[r].mailing_id = m
                                                                   /\ mailing_recipients[r].status = st})]]
(* A mutated form, which counts every recipient that was dealt with. *)
GetMailingPerformanceOfAll(m) ==
  Cardinality({r \in DOMAIN mailing_recipients : /\ mailing_recipients[r].mailing_id = m
                                                 /\ mailing_recipients[r].status # "Pending"})

(* One row per day of creation; the model has one day. *)
GetMailingPerformance(m) ==
  Cardinality({r \in DOMAIN mailing_recipients : mailing_recipients[r].mailing_id = m /\ mailing_recipients[r].status \in Reached})

GetTrackableUrl(u) == DOMAIN mailing_trackable_urls \cap {u}
ListTrackableUrlsByMailing(m) == {u \in DOMAIN mailing_trackable_urls : mailing_trackable_urls[u].mailing_id = m}
GetTopClickedUrls(m) == {u \in DOMAIN mailing_trackable_urls : mailing_trackable_urls[u].mailing_id = m}

GetSmsMessage(i) == DOMAIN sms_messages \cap {i}
ListSmsMessagesByContact(c) == {i \in DOMAIN sms_messages : sms_messages[i].contact_id = c}
(* Mailings that reached the contact, and all text messages, sent or not. *)
GetContactCommunicationHistory(c) ==
  [email |-> {r \in DOMAIN mailing_recipients : /\ mailing_recipients[r].contact_id = c
                                                /\ mailing_recipients[r].status \in Reached
                                                /\ mailing_recipients[r].mailing_id \in DOMAIN mailings},
   sms |-> {i \in DOMAIN sms_messages : sms_messages[i].contact_id = c}]

GetCommunicationPreferences(c) == {p \in DOMAIN communication_preferences : communication_preferences[p].contact_id = c}
GetOptOutContacts(email, sms) ==
  {x \in (DOMAIN contacts) \X (DOMAIN communication_preferences) : LET row == communication_preferences[x[2]] IN
     row.contact_id = x[1] /\ (Eq(row.email_opt_out, email) \/ Eq(row.sms_opt_out, sms))}
CountContactsByOptOutStatus ==
  [email |-> Cardinality({p \in DOMAIN communication_preferences : communication_preferences[p].email_opt_out = TRUE}),
   sms |-> Cardinality({p \in DOMAIN communication_preferences : communication_preferences[p].sms_opt_out = TRUE})]

-----------------------------------------------------------------------------
MailingsInit ==
  /\ message_templates = NoRows /\ mailing_lists = NoRows /\ mailing_list_subscriptions = NoRows
  /\ mailings = NoRows /\ mailing_recipients = NoRows /\ mailing_trackable_urls = NoRows
  /\ mailing_url_clicks = NoRows /\ mailing_opens = NoRows /\ sms_messages = NoRows
  /\ communication_preferences = NoRows

ListsNext ==
  \/ \E c \in ContactIds : CreateAddressee(c) \/ DeleteAddressee(c)
  \/ \E t \in TemplateIds : \/ DeleteMessageTemplate(t)
                            \/ \E n \in MailingNames, act \in Flags : CreateMessageTemplate(t, [name |-> n, is_active |-> act])
                            \/ \E act \in Flags : UpdateMessageTemplate(t, act)
  \/ \E l \in ListIds : \/ DeleteMailingList(l)
                        \/ \E act, hid \in Flags \cup {FALSE} :
                             \/ UpdateMailingList(l, act, hid)
                             \/ \E n \in MailingNames :
                                  CreateMailingList(l, [name |-> n, is_active |-> act, is_hidden |-> hid])
  \/ \E l \in ListIds, c \in ContactIds, st \in SubscriptionStatuses \cup {NULL} :
       \/ UpdateSubscriptionStatus(l, c, st)
       \/ \E s \in SubscriptionIds, act \in Flags : CreateMailingListSubscription(s,
            [mailing_list_id |-> l, contact_id |-> c, status |-> st, is_active |-> act])
  \/ \E s \in SubscriptionIds : DeleteMailingListSubscription(s)
  \/ \E m \in MailingIds : \/ DeleteMailing(m)
                           \/ \E t \in TemplateIds \cup {NULL}, l \in ListIds \cup {NULL}, st \in MailingStatuses \cup {NULL} :
                                CreateMailing(m, [template_id |-> t, mailing_list_id |-> l, status |-> st])

TrackingNext ==
  \/ \E c \in ContactIds : CreateAddressee(c) \/ DeleteAddressee(c)
  \/ \E m \in MailingIds : \/ DeleteMailing(m)
                           \/ \E st \in MailingStatuses \cup {NULL} :
                                \/ CreateMailing(m, [template_id |-> NULL, mailing_list_id |-> NULL, status |-> st])
                                \/ UpdateMailingStatus(m, st)
                           \/ \E u \in UrlIds : CreateTrackableUrl(u, m)
                           \/ \E c \in ContactIds, st \in RecipientStatuses \cup {NULL} :
                                \/ UpdateRecipientStatus(m, c, st)
                                \/ \E r \in RecipientIds :
                                     CreateMailingRecipient(r, [mailing_id |-> m, contact_id |-> c, status |-> st])
  \/ \E r \in RecipientIds : \/ DeleteMailingRecipient(r)
                             \/ \E k \in ClickIds, u \in UrlIds, c \in ContactIds : CreateUrlClick(k, u, r, c)
                             \/ \E o \in OpenIds, c \in ContactIds : CreateMailingOpen(o, r, c)

PreferencesNext ==
  \/ \E c \in ContactIds : \/ CreateAddressee(c) \/ DeleteAddressee(c) \/ DeleteCommunicationPreferences(c)
                           \/ \E i \in SmsIds, st \in SmsStatuses \cup {NULL} :
                                CreateSmsMessage(i, [contact_id |-> c, status |-> st])
                           \/ \E email, sms \in Flags :
                                LET row == [contact_id |-> c, email_opt_out |-> email, sms_opt_out |-> sms]
                                IN  \/ UpdateCommunicationPreferences(row)
                                    \/ \E p \in PreferenceIds : CreateCommunicationPreferences(p, row)
  \/ \E i \in SmsIds : DeleteSmsMessage(i) \/ \E st \in SmsStatuses \cup {NULL} : UpdateSmsStatus(i, st)

MailingsNext == ListsNext \/ TrackingNext \/ PreferencesNext
MailingsSpec == ContactsInit /\ MailingsInit /\ [][MailingsNext]_mailingVars

-----------------------------------------------------------------------------
(* Deleting a mailing, a recipient, a list or a contact takes rows of up to    *)
(* five tables with it.  None that refers to a row that is gone stays, a list  *)
(* or a template a mailing was made from stays, and neither a subscription nor *)
(* a recipient is there twice.                                                 *)
MailingRefs ==
  /\ \A s \in DOMAIN mailing_list_subscriptions : LET row == mailing_list_subscriptions[s] IN
       /\ row.mailing_list_id \in DOMAIN mailing_lists /\ row.contact_id \in DOMAIN contacts
       /\ GetSubscriptionByContactAndList(row.mailing_list_id, row.contact_id) = {s}
  /\ \A m \in DOMAIN mailings : /\ mailings[m].template_id \in DOMAIN message_templates \cup {NULL}
                                /\ mailings[m].mailing_list_id \in DOMAIN mailing_lists \cup {NULL}
  /\ \A r \in DOMAIN mailing_recipients : LET row == mailing_recipients[r] IN
       /\ row.mailing_id \in DOMAIN mailings /\ row.contact_id \in DOMAIN contacts
       /\ GetRecipientByMailingAndContact(row.mailing_id, row.contact_id) = {r}
  /\ \A u \in DOMAIN mailing_trackable_urls : mailing_trackable_urls[u].mailing_id \in DOMAIN mailings
  /\ \A k \in DOMAIN mailing_url_clicks : /\ mailing_url_clicks[k].trackable_url_id \in DOMAIN mailing_trackable_urls
                                          /\ mailing_url_clicks[k].recipient_id \in DOMAIN mailing_recipients
                                          /\ mailing_url_clicks[k].contact_id \in DOMAIN contacts
  /\ \A o \in DOMAIN mailing_opens : /\ mailing_opens[o].recipient_id \in DOMAIN mailing_recipients
                                     /\ mailing_opens[o].contact_id \in DOMAIN contacts
  /\ \A i \in DOMAIN sms_messages : sms_messages[i].contact_id \in DOMAIN contacts
  /\ \A p \in DOMAIN communication_preferences : communication_preferences[p].contact_id \in DOMAIN contacts

(* Nothing but deleting the row takes a subscriber off the listing of a list   *)
(* (communication.sql:88-93), whoever unsubscribes, bounces or is updated in    *)
(* whatever order: UpdateSubscriptionStatus leaves is_active as it was when the *)
(* row was inserted, and no other statement writes it.  Who reads the listing   *)
(* as those who want mail reads it wrongly: it has to be asked with the status. *)
SubscriptionStays ==
  [][\A l \in ListIds, act \in Flag : \A s \in ListSubscriptionsByList(l, act) :
       s \in ListSubscriptionsByList(l, act)' \/ s \notin DOMAIN mailing_list_subscriptions']_mailingVars

(* The total of a mailing is that of the recipients listed with their contacts, *)
(* its performance counts those who were reached and so do the contacts'        *)
(* histories, and the total exceeds what is counted by status by the recipients *)
(* whose status is no text that is looked for.  Subscriptions are found alike   *)
(* by list and by contact, a name finds one template and one list, and the      *)
(* opt-outs that are counted are rows: as many as the listing pairs with        *)
(* contacts, of which one may appear twice, and several sets of preferences of  *)
(* a contact change and go together.                                            *)
MailingAnswersAgree ==
  /\ \A t \in DOMAIN message_templates : GetMessageTemplate(t) = GetMessageTemplateByName(message_templates[t].name)
  /\ \A l \in DOMAIN mailing_lists : GetMailingList(l) = GetMailingListByName(mailing_lists[l].name)
  /\ \A act \in BOOLEAN :
       UNION {ListSubscriptionsByList(l, act) : l \in ListIds} = UNION {ListSubscriptionsByContact(c, act) : c \in ContactIds}
  /\ \A m \in DOMAIN mailings :
       LET n == GetMailingStats(m).by_status
           Others == {r \in ListRecipientsByMailing(m) : mailing_recipients[r].status \notin TalliedStates}
           Past == UNION {GetContactCommunicationHistory(c).email : c \in ListAllContacts}
       IN  /\ GetMailingStats(m).total = Cardinality(ListRecipientsByMailing(m))
           /\ GetMailingPerformance(m) = n["Sent"] + n["Delivered"] + n["Opened"] + n["Clicked"]
           /\ GetMailingPerformance(m) = Cardinality(Past \cap ListRecipientsByMailing(m))
           /\ GetMailingStats(m).total = GetMailingPerformance(m) + n["Bounced"] + n["Unsubscribed"] + Cardinality(Others)
  /\ Cardinality(GetOptOutContacts(TRUE, NULL)) = CountContactsByOptOutStatus.email
  /\ Cardinality(GetOptOutContacts(NULL, TRUE)) = CountContactsByOptOutStatus.sms
=============================================================================
