----------------------------- MODULE Dashboards ------------------------------
(* Dashboards and their widgets (migrations/025_reporting_system.sql,        *)
(* generated/dashboards.sql.go and dashboard_widgets.sql.go).  Left out:     *)
(* names, layouts, positions and dates.                                      *)
EXTENDS Contacts

CONSTANTS DashboardIds, WidgetIds, WidgetTypes

VARIABLES dashboards, dashboard_widgets,
          chosen    \* the dashboard SetDefaultDashboard was last called for

dashboardVars == <<contacts, dashboards, dashboard_widgets, chosen>>

Dashboard == [is_active : Flag, is_default : Flag, created_by : ContactIds \cup {NULL}]
DashboardWidget == [dashboard_id : DashboardIds, widget_type : WidgetTypes, is_active : Flag]

DashboardsTypeOK ==
  /\ IsTable(dashboards, DashboardIds, Dashboard)
  /\ IsTable(dashboard_widgets, WidgetIds, DashboardWidget)
  /\ chosen \in DashboardIds \cup {NULL}

-----------------------------------------------------------------------------
(* Several dashboards may be created, or updated, as the default. *)
CreateDashboard(d, row) ==
  /\ d \in DashboardIds \ DOMAIN dashboards
  /\ row.created_by \in DOMAIN contacts \cup {NULL}
  /\ dashboards' = Insert(dashboards, d, row)
  /\ chosen' = NULL
  /\ UNCHANGED <<contacts, dashboard_widgets>>

UpdateDashboard(d, act, def) ==
  /\ d \in DOMAIN dashboards
  /\ dashboards' = [dashboards EXCEPT ![d].is_active = act, ![d].is_default = def]
  /\ chosen' = NULL
  /\ UNCHANGED <<contacts, dashboard_widgets>>

ActivateDashboard(d) ==
  /\ d \in DOMAIN dashboards
  /\ dashboards' = [dashboards EXCEPT ![d].is_active = TRUE]
  /\ UNCHANGED <<contacts, dashboard_widgets, chosen>>

DeactivateDashboard(d) ==
  /\ d \in DOMAIN dashboards
  /\ dashboards' = [dashboards EXCEPT ![d].is_active = FALSE]
  /\ chosen' = NULL
  /\ UNCHANGED <<contacts, dashboard_widgets>>

(* Of the two statements of queries/dashboards.sql:57-58 the generated method *)
(* has the first, which takes no id; the caller means d.                      *)
SetDefaultDashboard(d) ==
  /\ d \in DOMAIN dashboards
  /\ dashboards' = [e \in DOMAIN dashboards |-> [dashboards[e] EXCEPT !.is_default = FALSE]]
  /\ chosen' = d
  /\ UNCHANGED <<contacts, dashboard_widgets>>

DeleteDashboard(d) ==
  /\ d \in DOMAIN dashboards
  /\ dashboards' = Without(dashboards, {d})
  /\ dashboard_widgets' = Without(dashboard_widgets,
       {w \in DOMAIN dashboard_widgets : dashboard_widgets[w].dashboard_id = d})
  /\ chosen' = NULL
  /\ UNCHANGED contacts

CreateDashboardWidget(w, row) ==
  /\ w \in WidgetIds \ DOMAIN dashboard_widgets
  /\ row.dashboard_id \in DOMAIN dashboards
  /\ dashboard_widgets' = Insert(dashboard_widgets, w, row)
  /\ UNCHANGED <<contacts, dashboards, chosen>>

UpdateDashboardWidget(w, row) ==
  /\ w \in DOMAIN dashboard_widgets
  /\ row.dashboard_id \in DOMAIN dashboards
  /\ dashboard_widgets' = [dashboard_widgets EXCEPT ![w] = row]
  /\ UNCHANGED <<contacts, dashboards, chosen>>

ActivateDashboardWidget(w) ==
  /\ w \in DOMAIN dashboard_widgets
  /\ dashboard_widgets' = [dashboard_widgets EXCEPT ![w].is_active = TRUE]
  /\ UNCHANGED <<contacts, dashboards, chosen>>

DeactivateDashboardWidget(w) ==
  /\ w \in DOMAIN dashboard_widgets
  /\ dashboard_widgets' = [dashboard_widgets EXCEPT ![w].is_active = FALSE]
  /\ UNCHANGED <<contacts, dashboards, chosen>>

DeleteDashboardWidget(w) ==
  /\ w \in DOMAIN dashboard_widgets
  /\ dashboard_widgets' = Without(dashboard_widgets, {w})
  /\ UNCHANGED <<contacts, dashboards, chosen>>

CreateDesigner(c) == CreateContact(c, SomeContact) /\ UNCHANGED <<dashboards, dashboard_widgets, chosen>>

(* A contact that created a dashboard stays. *)
DeleteDesigner(c) ==
  /\ \A d \in DOMAIN dashboards : dashboards[d].created_by # c
  /\ DeleteContact(c)
  /\ UNCHANGED <<dashboards, dashboard_widgets, chosen>>

-----------------------------------------------------------------------------
(* Queries. *)

GetDashboard(d) == DOMAIN dashboards \cap {d}
ListDashboards == DOMAIN dashboards
GetActiveDashboards == {d \in DOMAIN dashboards : dashboards[d].is_active = TRUE}
GetDashboardsByCreator(c, act) == {d \in DOMAIN dashboards : Eq(dashboards[d].created_by, c) /\ Eq(dashboards[d].is_active, act)}
(* A :one query: some row among these. *)
GetDefaultDashboard == {d \in DOMAIN dashboards : dashboards[d].is_default = TRUE /\ dashboards[d].is_active = TRUE}

GetDashboardWidget(w) == DOMAIN dashboard_widgets \cap {w}
ListDashboardWidgets == DOMAIN dashboard_widgets
ListActiveDashboardWidgets == {w \in DOMAIN dashboard_widgets : dashboard_widgets[w].is_active = TRUE}
ListDashboardWidgetsByType(ty, act) ==
  {w \in DOMAIN dashboard_widgets : dashboard_widgets[w].widget_type = ty /\ Eq(dashboard_widgets[w].is_active, act)}
GetDashboardWidgetsByDashboard(d, act) ==
  {w \in DOMAIN dashboard_widgets : dashboard_widgets[w].dashboard_id = d /\ Eq(dashboard_widgets[w].is_active, act)}
GetActiveDashboardWidgets(d) ==
  {w \in DOMAIN dashboard_widgets : dashboard_widgets[w].dashboard_id = d /\ dashboard_widgets[w].is_active = TRUE}
GetDashboardWidgetsByType(d, ty, act) == {w \in GetDashboardWidgetsByDashboard(d, act) : dashboard_widgets[w].widget_type = ty}
GetDashboardWidgetStats(d, act) ==
  [ty \in {dashboard_widgets[w].widget_type : w \in GetDashboardWidgetsByDashboard(d, act)} |->
     Cardinality(GetDashboardWidgetsByType(d, ty, act))]
GetDashboardWidgetSummary(act) ==
  {w \in DOMAIN dashboard_widgets : Eq(dashboard_widgets[w].is_active, act) /\ dashboard_widgets[w].dashboard_id \in DOMAIN dashboards}
GetDashboardStats(act) ==
  [d \in {e \in DOMAIN dashboards : Eq(dashboards[e].is_active, act)} |->
     [widgets |-> Cardinality({w \in DOMAIN dashboard_widgets : dashboard_widgets[w].dashboard_id = d}),
      active |-> Cardinality(GetActiveDashboardWidgets(d))]]
GetDashboardSummary(act) ==
  [d \in {e \in DOMAIN dashboards : Eq(dashboards[e].is_active, act)} |-> Cardinality(GetActiveDashboardWidgets(d))]

-----------------------------------------------------------------------------
DashboardsInit == dashboards = NoRows /\ dashboard_widgets = NoRows /\ chosen = NULL

DashboardsNext ==
  \/ \E c \in ContactIds : CreateDesigner(c) \/ DeleteDesigner(c)
  \/ \E d \in DashboardIds :
       \/ ActivateDashboard(d) \/ DeactivateDashboard(d) \/ SetDefaultDashboard(d) \/ DeleteDashboard(d)
       \/ \E act, def \in Flags : \/ UpdateDashboard(d, act, def)
                                  \/ \E c \in ContactIds \cup {NULL} :
                                       CreateDashboard(d, [is_active |-> act, is_default |-> def, created_by |-> c])
  \/ \E w \in WidgetIds :
       \/ ActivateDashboardWidget(w) \/ DeactivateDashboardWidget(w) \/ DeleteDashboardWidget(w)
       \/ \E d \in DashboardIds, ty \in WidgetTypes :
            LET row == [dashboard_id |-> d, widget_type |-> ty, is_active |-> TRUE]
            IN  CreateDashboardWidget(w, row) \/ UpdateDashboardWidget(w, row)

DashboardsSpec == ContactsInit /\ DashboardsInit /\ [][DashboardsNext]_dashboardVars

-----------------------------------------------------------------------------
(* A dashboard's creator stays while it has the dashboard, and its widgets go  *)
(* with it: the join of the summary of widgets loses none of the active ones,  *)
(* and no more of a dashboard's widgets are active than it has.                *)
DashboardAnswersAgree ==
  /\ \A d \in ListDashboards : dashboards[d].created_by \in ListAllContacts \cup {NULL}
  /\ \A w \in ListDashboardWidgets : GetDashboard(dashboard_widgets[w].dashboard_id) # {}
  /\ GetDashboardWidgetSummary(TRUE) = ListActiveDashboardWidgets
  /\ \A d \in GetActiveDashboards : GetDashboardStats(TRUE)[d].widgets >= GetDashboardSummary(TRUE)[d]

(* SetDefaultDashboard makes the dashboard it is called for the default one    *)
(* (queries/dashboards.sql:56-58), so that while that one is active and no     *)
(* other statement writes a flag, GetDefaultDashboard finds it.                *)
SetDefaultSets == chosen # NULL /\ chosen \in GetActiveDashboards => GetDefaultDashboard = {chosen}
=============================================================================
