------------------------------ MODULE MCRecords ------------------------------
(* The domains of the SQL data layer for TLC, side by side: a behaviour       *)
(* chooses an area and makes the statements of that area only, so that the    *)
(* state spaces of the areas add up instead of multiplying.  The ids of       *)
(* different tables are taken from the same few sets, and the permutations of *)
(* these sets serve as symmetries of all areas.                               *)
EXTENDS Pledges, Jobs, Access, Memberships, Cases, Events, Surveys, Tags, Mailings, CustomData, Dashboards, TLC

VARIABLE area

CONSTANTS A, B, C, D     \* the sets ids are taken from

Symmetry == Permutations(A) \cup Permutations(B) \cup Permutations(C) \cup Permutations(D)

pledging == <<pledgeTables, groupTables, editing>>
site == siteVars
labour == <<jobs, queues, working>>
access == <<roleTables, users, uf_match, cacheTables>>
members == <<memberTables, contributions>>
activity == activityTables
casework == caseTables
mailing == <<message_templates, listTables, mailings, mailing_recipients, tracking, messaging>>
custom == customVars
boards == <<dashboards, dashboard_widgets, chosen>>
further == <<eventTables, surveyTables, tagVars>>

recordVars == <<area, contacts, pledging, site, labour, access, members, activity, casework,
                campaignTables, mailing, custom, boards, further>>

(* The variables of the areas but for those of one. *)
NotPledges    == <<area, site, labour, access, members, activity, casework, mailing, custom, boards, further>>
NotSite       == <<area, contacts, pledging, labour, access, members, activity, casework, campaignTables, mailing, custom, boards, further>>
NotJobs       == <<area, contacts, pledging, access, members, activity, casework, campaignTables, mailing, custom, boards, further>>
NotAccess     == <<area, pledging, site, labour, members, activity, casework, campaignTables, mailing, custom, boards, further>>
NotMembers    == <<area, pledging, site, labour, access, activity, casework, campaignTables, mailing, custom, boards, further>>
NotCases      == <<area, pledging, site, labour, access, members, campaignTables, mailing, custom, boards, further>>
NotCampaigns  == <<area, pledging, site, labour, access, members, activity, casework, mailing, custom, boards, further>>
NotMailings   == <<area, pledging, site, labour, access, members, activity, casework, campaignTables, custom, boards, further>>
NotCustom     == <<area, contacts, pledging, site, labour, access, members, activity, casework, campaignTables, mailing, boards, further>>
NotEvents     == <<area, pledging, site, labour, access, members, activity, casework, mailing, custom, boards, surveyTables, tagVars>>
NotSurveys    == <<area, pledging, site, labour, access, members, activity, casework, mailing, custom, boards, eventTables, tagVars>>
NotTags       == <<area, contacts, pledging, site, labour, access, members, activity, casework, campaignTables, mailing, custom, boards,
                   eventTables, surveyTables>>
NotDashboards == <<area, pledging, site, labour, access, members, activity, casework, campaignTables, mailing, custom, further>>

Areas == {"contacts", "schedule", "pledged", "groups", "settings", "navigation", "jobs", "queues", "access", "users", "cache",
          "members", "contributions", "activities", "status", "parties", "filing", "hierarchy", "kinds",
          "participants", "lists", "tracking", "preferences", "custom", "dashboards",
          "calendar", "attendance", "fees", "promotions", "questionnaires", "campaigned", "responses", "answers",
          "tag sets", "tagging"}

Init ==
  /\ area \in Areas
  /\ ContactsInit /\ PledgesInit /\ SiteInit /\ JobsInit /\ AccessInit /\ MembershipsInit
  /\ ActivitiesInit /\ CasesInit /\ CampaignsInit /\ MailingsInit /\ CustomDataInit /\ DashboardsInit
  /\ EventsInit /\ SurveysInit /\ TagsInit

(* Bounds on the rows of an area. *)
AtMostOne(t) == Cardinality(DOMAIN t) <= 1
AtMostTwo(t) == Cardinality(DOMAIN t) <= 2
PaidOrNot == \A p \in DOMAIN pledges : pledges[p].status \in {"In Progress", "Lapsed"}
Untyped == \A c \in DOMAIN campaigns : campaigns[c].campaign_type_id = NULL /\ campaigns[c].status_id = NULL
SameName == Cardinality({jobs[j].name : j \in DOMAIN jobs} \cup {domains[d].name : d \in DOMAIN domains}) <= 1

Next ==
  \/ area = "contacts" /\ ContactsNext
       /\ UNCHANGED <<area, pledging, site, labour, access, members, activity, casework, campaignTables, mailing, custom, boards, further>>
  \/ area = "schedule" /\ ScheduleNext /\ AtMostOne(contacts)' /\ PaidOrNot' /\ UNCHANGED NotPledges
  \/ area = "pledged" /\ PledgedNext /\ AtMostOne(contacts)' /\ AtMostTwo(campaigns)' /\ UNCHANGED NotPledges
  \/ area = "groups" /\ PledgeGroupNext /\ UNCHANGED NotPledges
  \/ area = "settings" /\ (DomainNext \/ SettingsNext) /\ UNCHANGED NotSite
  \/ area = "navigation" /\ NavigationNext /\ UNCHANGED NotSite
  \/ area = "navigation" /\ (\E d \in DomainIds, n \in Names : CreateDomain(d, n, TRUE) \/ DeleteDomain(d))
       /\ UNCHANGED NotSite
  \/ area = "jobs" /\ JobsNext /\ AtMostOne(domains)' /\ SameName' /\ UNCHANGED NotJobs
  \/ area = "queues" /\ QueuesNext /\ UNCHANGED NotJobs
  \/ area = "access" /\ AccessNext /\ AtMostOne(users)' /\ UNCHANGED NotAccess
  \/ area = "users" /\ UsersNext /\ UNCHANGED NotAccess
  \/ area = "cache" /\ AclCacheNext /\ UNCHANGED NotAccess
  \/ area = "members" /\ MembersNext /\ UNCHANGED NotMembers
       /\ \/ AtMostOne(membership_types)'
          \/ AtMostOne(membership_status)' /\ AtMostOne(contacts)'
  \/ area = "contributions" /\ ContributionsNext /\ AtMostOne(membership_types)' /\ UNCHANGED NotMembers
  \/ area = "activities" /\ ActivitiesNext /\ (AtMostOne(activities)' \/ AtMostOne(activity_contacts)') /\ UNCHANGED casework /\ UNCHANGED NotCases
  \/ area = "status" /\ CaseStatusNext /\ UNCHANGED NotCases
  \/ area = "parties" /\ PartiesNext /\ UNCHANGED NotCases
  \/ area = "filing" /\ FilingNext /\ UNCHANGED NotCases
  \/ area = "hierarchy" /\ HierarchyNext /\ Untyped' /\ UNCHANGED NotCampaigns
  \/ area = "kinds" /\ CampaignKindsNext /\ AtMostOne(campaigns)' /\ UNCHANGED NotCampaigns
  \/ area = "participants" /\ ParticipantsNext /\ UNCHANGED NotCampaigns
  \/ area = "lists" /\ ListsNext /\ UNCHANGED NotMailings
  \/ area = "tracking" /\ TrackingNext /\ UNCHANGED NotMailings
  \/ area = "preferences" /\ PreferencesNext /\ UNCHANGED NotMailings
  \/ area = "custom" /\ CustomDataNext /\ UNCHANGED NotCustom
  \/ area = "dashboards" /\ DashboardsNext /\ UNCHANGED NotDashboards
  \/ area = "calendar" /\ CalendarNext /\ AtMostOne(contacts)' /\ UNCHANGED NotEvents
  \/ area = "attendance" /\ AttendanceNext /\ AtMostOne(campaigns)' /\ UNCHANGED NotEvents
  \/ area = "fees" /\ FeesNext /\ UNCHANGED NotEvents
  \/ area = "promotions" /\ PromotionsNext /\ AtMostOne(campaigns)' /\ UNCHANGED NotEvents
  \/ area = "questionnaires" /\ QuestionnaireNext /\ UNCHANGED NotSurveys
  \/ area = "campaigned" /\ CampaignedNext /\ AtMostOne(campaigns)' /\ UNCHANGED NotSurveys
  \/ area = "responses" /\ ResponsesNext /\ UNCHANGED NotSurveys
  \/ area = "answers" /\ AnswersNext /\ AtMostOne(contacts)' /\ UNCHANGED NotSurveys
  \/ area = "tag sets" /\ TagSetsNext /\ UNCHANGED NotTags
  \/ area = "tagging" /\ TaggingNext /\ UNCHANGED NotTags

RecordsSpec == Init /\ [][Next]_recordVars

-----------------------------------------------------------------------------
(* Every table holds rows of its type under ids of its own. *)
RecordsTypeOK ==
  /\ ContactsTypeOK /\ PledgesTypeOK /\ SiteTypeOK /\ JobsTypeOK /\ AccessTypeOK /\ MembershipsTypeOK
  /\ ActivitiesTypeOK /\ CasesTypeOK /\ CampaignsTypeOK /\ MailingsTypeOK /\ CustomDataTypeOK /\ DashboardsTypeOK
  /\ EventsTypeOK /\ SurveysTypeOK /\ TagsTypeOK

(* The references of the other areas: jobs and queues to their domains, what   *)
(* grants and caches refer to, activities with the contacts involved, events   *)
(* with registrations, participants and fees, surveys with questions and       *)
(* answers, and tags with the entities that carry each of them once.           *)
OtherRefs == JobRefs /\ AccessRefs /\ ActivityRefs /\ EventRefs /\ SurveyRefs /\ TagRefs

(* The answers of the queries of an area fit together, in each of the areas    *)
(* that have no property of their own for it.                                  *)
OtherAnswersAgree ==
  /\ ContactAnswersAgree /\ JobAnswersAgree /\ UserAnswersAgree /\ MembershipAnswersAgree
  /\ ActivityAnswersAgree /\ CaseAnswersAgree /\ FilingAnswersAgree /\ CampaignAnswersAgree
  /\ MailingAnswersAgree /\ CustomAnswersAgree /\ DashboardAnswersAgree
  /\ EventAnswersAgree /\ SurveyAnswersAgree /\ TagAnswersAgree
=============================================================================
