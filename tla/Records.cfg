SPECIFICATION RecordsSpec
CHECK_DEADLOCK FALSE
SYMMETRY Symmetry
CONSTANTS
  A = {a1, a2}
  B = {b1, b2}
  C = {c1, c2}
  D = {d1, d2}
  NULL = NULL
  Flags = {TRUE, NULL}
  ContactIds = {a1, a2}
  Emails = {e1}
  Phones = {e1}
  PledgeIds = {b1, b2}
  BlockIds = {x}
  PaymentIds = {c1, c2}
  ReminderIds = {x}
  PledgeGroupIds = {x}
  MemberIds = {d1, d2}
  Days = {1, 2}
  PledgeStatuses = {"In Progress", "Overdue", "Lapsed"}
  DueStatuses = {"Scheduled", "Sent"}
  Editors = {c1, c2}
  MaxAmount = 2
  DomainIds = {a1, a2}
  SettingIds = {b1, b2}
  NavIds = {n1, n2, n3}
  Names = {c1, c2}
  SettingValues = {d1, d2}
  JobIds = {b1, b2}
  QueueIds = {b1, b2}
  Workers = {d1, d2}
  MaxDay = 1
  RoleIds = {b1, b2}
  AclIds = {x}
  GrantIds = {c1, c2}
  UserIds = {b1, b2}
  MatchIds = {c1, c2}
  CacheIds = {b1, b2}
  RoleNames = {d1, d2}
  UserNames = {d1, d2}
  Operations = {view}
  Objects = {x}
  MembershipIds = {x}
  TypeIds = {b1, b2}
  StatusIds = {b1, b2}
  MembershipPaymentIds = {x}
  LogIds = {x}
  ContributionIds = {c1, c2}
  MemberNames = {d1, d2}
  Terms = {1}
  PaymentStates = {"Completed", "Refunded"}
  ActivityIds = {b1, b2}
  ActivityTypeIds = {x}
  InvolvedIds = {c1, c2}
  ActivityNames = {x}
  Parts = {d1, d2}
  CaseIds = {c1, c2}
  CaseTypeIds = {x}
  CaseStatusIds = {b1, b2}
  PartyIds = {n1, n2}
  CaseActivityIds = {n1, n2}
  CaseNames = {x}
  StatusNames = {"Open", "Closed", "Resolved"}
  Groupings = {"Open", "Closed"}
  CampaignIds = {n1, n2, n3}
  CampaignTypeIds = {b1, b2}
  CampaignStatusIds = {x}
  ParticipantIds = {c1, c2}
  CampaignNames = {d1, d2}
  CampaignRoles = {b1, b2}
  CampaignGroupings = {"Planned", "Awaited"}
  TemplateIds = {x}
  ListIds = {x}
  SubscriptionIds = {b1, b2}
  MailingIds = {x}
  RecipientIds = {c1, c2}
  UrlIds = {x}
  ClickIds = {x}
  OpenIds = {x}
  SmsIds = {x}
  PreferenceIds = {b1, b2}
  MailingNames = {x}
  RecipientStatuses = {"Pending", "Opened", "Unsubscribed"}
  SubscriptionStatuses = {"Subscribed", "Unsubscribed"}
  MailingStatuses = {"Draft"}
  SmsStatuses = {"Pending"}
  CustomGroupIds = {a1, a2}
  CustomFieldIds = {b1, b2}
  OptionIds = {x}
  ValueIds = {c1, c2}
  CustomNames = {d1, d2}
  Entities = {x}
  Extended = {"Contact", "Event"}
  CustomContents = {x}
  DashboardIds = {b1, b2}
  WidgetIds = {c1, c2}
  WidgetTypes = {d1, d2}
  EventIds = {b1, b2}
  RegistrationIds = {c1, c2}
  AttendeeIds = {c1, c2}
  FeeIds = {c1, c2}
  DiscountIds = {x}
  CampaignEventIds = {c1, c2}
  EventNames = {x}
  RegistrationStatuses = {x}
  ParticipantStatusIds = {x}
  EventDays = {1, 3}
  MaxDate = 2
  SurveyIds = {b1, b2}
  QuestionIds = {c1, c2}
  ResponseIds = {d1, d2}
  AnswerIds = {a1, a2}
  SurveyCampaignIds = {c1, c2}
  QuestionTypes = {x}
  ResponseStatuses = {"Completed", "Partial", "Abandoned", "Flagged"}
  ResponseDays = {1, 2}
  TagSetIds = {x}
  TagIds = {b1, b2}
  EntityTagIds = {c1, c2}
  TagNames = {d1, d2}
  EntityTables = {x}
  TaggedIds = {a1, a2}
INVARIANTS
  RecordsTypeOK
  PledgeRefs
  SiteRefs
  MembershipRefs
  CaseRefs
  CampaignRefs
  MailingRefs
  CustomRefs
  OtherRefs
  LoneEditorExact
  LoneWorkerOnce
  WalkHasBreadcrumbs
  HierarchyIsTree
  PledgeAnswersAgree
  SiteAnswersAgree
  PermissionAnswersAgree
  
PROPERTIES
  RemovedRoleStaysRemoved
  CloseCaseCloses
  SubscriptionStays
