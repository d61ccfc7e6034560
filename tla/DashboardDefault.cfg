\* One contact, two dashboards, one widget.
SPECIFICATION DashboardsSpec
CHECK_DEADLOCK FALSE
CONSTANTS
  NULL = NULL
  Flags = {TRUE, FALSE}
  ContactIds = {c1}
  Emails = {}
  Phones = {}
  DashboardIds = {d1, d2}
  WidgetIds = {w1}
  WidgetTypes = {"chart"}
INVARIANT SetDefaultSets
