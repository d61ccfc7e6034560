-------------------------------- MODULE Site --------------------------------
(* Domains with their settings and their navigation                          *)
(* (migrations/027_system_configuration.sql, generated/domains.sql.go,       *)
(* settings.sql.go and navigation.sql.go).  Labels, addresses, icons and     *)
(* weights, which only order listings, are left out.                         *)
EXTENDS Relational

CONSTANTS DomainIds, SettingIds, NavIds, Names, SettingValues

ASSUME SiteAssumption == NULL \notin NavIds

VARIABLES domains, settings, navigation

siteVars == <<domains, settings, navigation>>

Domain == [name : Names, is_active : Flag]
Setting == [domain_id : DomainIds, name : Names, value : SettingValues, is_system : Flag, is_public : Flag]
Navigation == [domain_id : DomainIds, parent_id : NavIds \cup {NULL}, is_active : Flag, is_visible : Flag]

SiteTypeOK ==
  /\ IsTable(domains, DomainIds, Domain)
  /\ IsTable(settings, SettingIds, Setting)
  /\ IsTable(navigation, NavIds, Navigation)

-----------------------------------------------------------------------------
(* Domains: the name is UNIQUE. *)

CreateDomain(d, n, act) ==
  /\ d \in DomainIds \ DOMAIN domains
  /\ \A e \in DOMAIN domains : domains[e].name # n
  /\ domains' = Insert(domains, d, [name |-> n, is_active |-> act])
  /\ UNCHANGED <<settings, navigation>>

UpdateDomain(d, n, act) ==
  /\ d \in DOMAIN domains
  /\ \A e \in DOMAIN domains \ {d} : domains[e].name # n
  /\ domains' = [domains EXCEPT ![d] = [name |-> n, is_active |-> act]]
  /\ UNCHANGED <<settings, navigation>>

SettingsOf(d) == {s \in DOMAIN settings : settings[s].domain_id = d}
NavigationOf(d) == {n \in DOMAIN navigation : navigation[n].domain_id = d}

(* What goes with the items in S: they and, level by level, their children,   *)
(* of whatever domain these are.                                              *)
ClosedBelow(D) == \A n \in DOMAIN navigation : navigation[n].parent_id \in D => n \in D
Subtree(S) == {n \in DOMAIN navigation :
                 \A D \in SUBSET DOMAIN navigation : S \subseteq D /\ ClosedBelow(D) => n \in D}

(* A mutated form, without the cascade along parent_id. *)
DeleteDomainAlone(d) ==
  /\ d \in DOMAIN domains
  /\ domains' = Without(domains, {d})
  /\ settings' = Without(settings, SettingsOf(d))
  /\ navigation' = Without(navigation, NavigationOf(d))

DeleteDomain(d) ==
  /\ d \in DOMAIN domains
  /\ domains' = Without(domains, {d})
  /\ settings' = Without(settings, SettingsOf(d))
  /\ navigation' = Without(navigation, Subtree(NavigationOf(d)))

CountDomains == Cardinality(DOMAIN domains)
CountActiveDomains == Cardinality({d \in DOMAIN domains : domains[d].is_active = TRUE})
ListDomains == DOMAIN domains
ListActiveDomains == {d \in DOMAIN domains : domains[d].is_active = TRUE}
GetDomain(d) == DOMAIN domains \cap {d}
GetDomainByName(n) == {d \in DOMAIN domains : domains[d].name = n}
GetDomainSettings(d) == {s \in DOMAIN settings : settings[s].domain_id = d /\ d \in DOMAIN domains}
GetDomainNavigation(d) == {n \in DOMAIN navigation : /\ navigation[n].domain_id = d /\ d \in DOMAIN domains
                                                     /\ navigation[n].parent_id = NULL}
(* users has no column domain_id (migrations/004_users.sql). *)
GetDomainUsers(d) == Refused

-----------------------------------------------------------------------------
(* Settings: UNIQUE(domain_id, name), by which most statements find them. *)

GetSettingByName(d, n) == {s \in SettingsOf(d) : settings[s].name = n}

CreateSetting(s, row) ==
  /\ s \in SettingIds \ DOMAIN settings
  /\ row.domain_id \in DOMAIN domains
  /\ GetSettingByName(row.domain_id, row.name) = {}
  /\ settings' = Insert(settings, s, row)
  /\ UNCHANGED <<domains, navigation>>

UpdateSetting(d, n, v, sys, pub) ==
  /\ GetSettingByName(d, n) # {}
  /\ settings' = [s \in DOMAIN settings |->
       IF s \in GetSettingByName(d, n)
       THEN [settings[s] EXCEPT !.value = v, !.is_system = sys, !.is_public = pub] ELSE settings[s]]
  /\ UNCHANGED <<domains, navigation>>

(* The :many UPDATE of up to three groups of names to a value each; a name    *)
(* that is in none of them keeps its value.                                   *)
BulkUpdateSettings(d, f) ==
  /\ settings' = [s \in DOMAIN settings |->
       IF s \in SettingsOf(d) /\ settings[s].name \in DOMAIN f
       THEN [settings[s] EXCEPT !.value = f[settings[s].name]] ELSE settings[s]]
  /\ UNCHANGED <<domains, navigation>>

UpdateSettingValue(d, n, v) == GetSettingByName(d, n) # {} /\ BulkUpdateSettings(d, [m \in {n} |-> v])

DeleteSetting(d, n) ==
  /\ settings' = Without(settings, GetSettingByName(d, n))
  /\ UNCHANGED <<domains, navigation>>

DeleteSettingsByDomain(d) ==
  /\ settings' = Without(settings, SettingsOf(d))
  /\ UNCHANGED <<domains, navigation>>

CountSettingsByDomain(d) == Cardinality(SettingsOf(d))
CountSystemSettingsByDomain(d) == Cardinality({s \in SettingsOf(d) : settings[s].is_system = TRUE})
GetSystemSettingsByDomain(d) == {s \in SettingsOf(d) : settings[s].is_system = TRUE}
GetPublicSettingsByDomain(d) == {s \in SettingsOf(d) : settings[s].is_public = TRUE}
GetSetting(s) == DOMAIN settings \cap {s}
GetSettingValue(d, n) == {settings[s].value : s \in GetSettingByName(d, n)}
GetSettingsByDomain(d) == {s \in DOMAIN settings : settings[s].domain_id = d}
ListAllSettings == {s \in DOMAIN settings : settings[s].domain_id \in DOMAIN domains}

-----------------------------------------------------------------------------
(* Navigation.  Nothing ties an item to the domain of its parent, or keeps an *)
(* update from making an item a descendant of itself.                         *)

CreateNavigation(n, row) ==
  /\ n \in NavIds \ DOMAIN navigation
  /\ row.domain_id \in DOMAIN domains
  /\ row.parent_id \in DOMAIN navigation \cup {NULL}
  /\ navigation' = Insert(navigation, n, row)
  /\ UNCHANGED <<domains, settings>>

UpdateNavigation(n, row) ==
  /\ n \in NavigationOf(row.domain_id)
  /\ row.parent_id \in DOMAIN navigation \cup {NULL}
  /\ navigation' = [navigation EXCEPT ![n] = row]
  /\ UNCHANGED <<domains, settings>>

UpdateNavigationStatus(n, d, act, vis) ==
  /\ n \in NavigationOf(d)
  /\ navigation' = [navigation EXCEPT ![n].is_active = act, ![n].is_visible = vis]
  /\ UNCHANGED <<domains, settings>>

DeleteNavigation(n, d) ==
  /\ navigation' = Without(navigation, Subtree({n} \cap NavigationOf(d)))
  /\ UNCHANGED <<domains, settings>>

DeleteNavigationByDomain(d) ==
  /\ navigation' = Without(navigation, Subtree(NavigationOf(d)))
  /\ UNCHANGED <<domains, settings>>

CountNavigationByDomain(d) == Cardinality(NavigationOf(d))
CountActiveNavigationByDomain(d) == Cardinality({n \in NavigationOf(d) : navigation[n].is_active = TRUE})
GetActiveNavigation(d) == {n \in NavigationOf(d) : navigation[n].is_active = TRUE}
GetVisibleNavigation(d) == {n \in NavigationOf(d) : navigation[n].is_active = TRUE /\ navigation[n].is_visible = TRUE}
(* A mutated form, in which an item that is its own parent is a root. *)
GetRootNavigationLoose(d) == {n \in NavigationOf(d) : navigation[n].parent_id \in {NULL, n}}

GetRootNavigation(d) == {n \in NavigationOf(d) : navigation[n].parent_id = NULL}
GetNavigation(n) == DOMAIN navigation \cap {n}
GetChildNavigation(n) == {m \in DOMAIN navigation : Eq(navigation[m].parent_id, n)}
(* A mutated form, in which an item of no parent has the other roots as siblings and an item itself. *)
GetNavigationSiblingsAll(n) ==
  {m \in DOMAIN navigation : n \in DOMAIN navigation /\ navigation[m].parent_id = navigation[n].parent_id}

(* The subquery answers NULL for a root: its siblings are not found. *)
GetNavigationSiblings(n) ==
  {m \in DOMAIN navigation \ {n} : n \in DOMAIN navigation /\ Eq(navigation[m].parent_id, navigation[n].parent_id)}

(* The recursive query adds the parent of a row for as long as there is one:   *)
(* it answers with the ancestors, or never when none of them is a root.        *)
ClosedAbove(D) == \A n \in D : navigation[n].parent_id \in D \cup {NULL}
Ancestors(n) == {m \in DOMAIN navigation :
                   \A D \in SUBSET DOMAIN navigation : n \in D /\ ClosedAbove(D) => m \in D}
GetNavigationBreadcrumb(n) == Ancestors(n)
BreadcrumbEnds(n) == \E m \in GetNavigationBreadcrumb(n) : navigation[m].parent_id = NULL

(* ARRAY[weight, id] mixes an integer and a uuid. *)
GetNavigationTree(d) == Refused

-----------------------------------------------------------------------------
SiteInit == domains = NoRows /\ settings = NoRows /\ navigation = NoRows

DomainNext == \E d \in DomainIds :
  DeleteDomain(d) \/ \E n \in Names, act \in Flags : CreateDomain(d, n, act) \/ UpdateDomain(d, n, act)

SettingsNext == \E d \in DomainIds :
  \/ \E n \in Names : DeleteSetting(d, n)
  \/ \E n \in Names, v \in SettingValues : \/ UpdateSettingValue(d, n, v)
                                           \/ \E sys, pub \in Flags : UpdateSetting(d, n, v, sys, pub)
  \/ \E S \in SUBSET Names : \E f \in [S -> SettingValues] : BulkUpdateSettings(d, f)
  \/ \E s \in SettingIds, n \in Names, v \in SettingValues, sys, pub \in Flags :
       CreateSetting(s, [domain_id |-> d, name |-> n, value |-> v, is_system |-> sys, is_public |-> pub])
  \/ DeleteSettingsByDomain(d)

NavigationNext == \E d \in DomainIds :
  \/ \E n \in NavIds : DeleteNavigation(n, d)
  \/ \E n \in NavIds, p \in NavIds \cup {NULL}, act \in Flags :
       LET row == [domain_id |-> d, parent_id |-> p, is_active |-> act, is_visible |-> TRUE]
       IN  CreateNavigation(n, row) \/ UpdateNavigation(n, row)
  \/ \E n \in NavIds, vis \in Flags : UpdateNavigationStatus(n, d, TRUE, vis)
  \/ DeleteNavigationByDomain(d)

SiteNext == DomainNext \/ SettingsNext \/ NavigationNext
SiteSpec == SiteInit /\ [][SiteNext]_siteVars

-----------------------------------------------------------------------------
(* However domains and items are deleted, also by the cascades along          *)
(* parent_id that cross domains, no row refers to a row that is gone, and no   *)
(* domain has two settings of one name, so that UpdateSetting and              *)
(* GetSettingValue, which read one row, mean one.                              *)
SiteRefs ==
  /\ \A s \in DOMAIN settings : settings[s].domain_id \in DOMAIN domains
  /\ \A n \in DOMAIN navigation : /\ navigation[n].domain_id \in DOMAIN domains
                                  /\ navigation[n].parent_id \in DOMAIN navigation \cup {NULL}
  /\ \A s, t \in DOMAIN settings : s # t => \/ settings[s].domain_id # settings[t].domain_id
                                            \/ settings[s].name # settings[t].name

(* UpdateNavigation (navigation.sql:58) may close a cycle, on which the        *)
(* recursive GetNavigationBreadcrumb never ends.  A client that walks down     *)
(* from the roots of a domain still meets only items whose breadcrumb ends,    *)
(* and ends at a root of that domain.                                          *)
WalkedFrom(d) == Subtree(GetRootNavigation(d))
WalkHasBreadcrumbs ==
  \A d \in DOMAIN domains : \A n \in WalkedFrom(d) :
    BreadcrumbEnds(n) /\ GetNavigationBreadcrumb(n) \cap GetRootNavigation(d) # {}

(* The queries of the three tables tell one story: the counts and the listings *)
(* agree, the inner joins with domains lose no setting and no root, an active   *)
(* item is found by its domain, and the children of an item are each other's    *)
(* siblings.                                                                    *)
SiteAnswersAgree ==
  /\ CountDomains = Cardinality(ListDomains) /\ CountActiveDomains = Cardinality(ListActiveDomains)
  /\ \A n \in Names : Cardinality(GetDomainByName(n)) <= 1
  /\ ListAllSettings = UNION {GetSettingsByDomain(d) : d \in ListDomains} /\ ListAllSettings = DOMAIN settings
  /\ \A d \in DomainIds :
       /\ GetDomain(d) = {} => GetSettingsByDomain(d) = {} /\ GetRootNavigation(d) = {}
       /\ GetDomainSettings(d) = GetSettingsByDomain(d) /\ GetDomainNavigation(d) = GetRootNavigation(d)
       /\ CountSettingsByDomain(d) = Cardinality(GetSettingsByDomain(d))
       /\ CountSystemSettingsByDomain(d) = Cardinality(GetSystemSettingsByDomain(d))
       /\ GetPublicSettingsByDomain(d) \subseteq GetSettingsByDomain(d)
       /\ \A s \in GetSettingsByDomain(d) : GetSetting(s) = {s} /\ GetSettingValue(d, settings[s].name) = {settings[s].value}
       /\ CountActiveNavigationByDomain(d) = Cardinality(GetActiveNavigation(d))
       /\ GetVisibleNavigation(d) \subseteq GetActiveNavigation(d)
       /\ Cardinality(GetActiveNavigation(d)) <= CountNavigationByDomain(d)
  /\ \A n \in DOMAIN navigation : \A m \in GetChildNavigation(n) :
       GetNavigation(m) = {m} /\ GetNavigationSiblings(m) = GetChildNavigation(n) \ {m}
=============================================================================
