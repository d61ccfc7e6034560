------------------------------ MODULE SiteProofs ------------------------------
(* What administers a site keeps its types and references, and its queries    *)
(* answer alike, for any ids, names and Boolean values that clients pass:     *)
(* domains, settings and navigation, jobs and queues with any number of       *)
(* workers, roles, grants and users, tags, dashboards, and custom data.  Each *)
(* section has the inductive invariant of one module, a lemma for each group  *)
(* of its statements, and the theorems.                                       *)
EXTENDS Jobs, Access, Tags, Dashboards, CustomData, FiniteSetTheorems, TLAPS

-----------------------------------------------------------------------------
(* Tables.  A statement that writes one row inserts or updates it. *)

Writes(t, u, i, row) ==
  \/ i \notin DOMAIN t /\ u = Insert(t, i, row)
  \/ i \in DOMAIN t /\ u = [t EXCEPT ![i] = row]

LEMMA FlagsAreFlags == TRUE \in Flag /\ FALSE \in Flag /\ NULL \in Flag /\ \A act \in Flags : act \in Flag
  BY RelationalAssumption DEF Flag

(* Two listings without a common row count, together, what both count. *)
LEMMA DisjointCount ==
  ASSUME NEW S, NEW T, IsFiniteSet(S), IsFiniteSet(T), S \cap T = {}
  PROVE  /\ IsFiniteSet(S \cup T)
         /\ Cardinality(S \cup T) = Cardinality(S) + Cardinality(T)
  <1>1. IsFiniteSet(S \cup T) /\ Cardinality(S \cup T) = Cardinality(S) + Cardinality(T) - Cardinality({})
    BY FS_Union
  <1>2. Cardinality({}) = 0 /\ Cardinality(S) \in Nat /\ Cardinality(T) \in Nat
    BY FS_EmptySet, FS_CardinalityType
  <1> QED BY <1>1, <1>2

(* Parts of a finite set that share nothing count no more than it. *)
LEMMA ApartCount ==
  ASSUME NEW S, NEW T, NEW U, IsFiniteSet(U), S \subseteq U, T \subseteq U, S \cap T = {}
  PROVE  Cardinality(S) + Cardinality(T) <= Cardinality(U)
  <1>1. IsFiniteSet(S) /\ IsFiniteSet(T)
    BY FS_Subset
  <1>2. S \cup T \in SUBSET U
    OBVIOUS
  <1>3. Cardinality(S \cup T) = Cardinality(S) + Cardinality(T)
    BY <1>1, DisjointCount
  <1>4. Cardinality(S \cup T) <= Cardinality(U)
    BY <1>2, FS_Subset
  <1> QED BY <1>3, <1>4

LEMMA ThreeCount ==
  ASSUME NEW S, NEW T, NEW U, IsFiniteSet(S), IsFiniteSet(T), IsFiniteSet(U),
         S \cap T = {}, S \cap U = {}, T \cap U = {}
  PROVE  Cardinality(S \cup T \cup U) = Cardinality(S) + Cardinality(T) + Cardinality(U)
  <1>1. IsFiniteSet(S \cup T) /\ Cardinality(S \cup T) = Cardinality(S) + Cardinality(T)
    BY DisjointCount
  <1>2. (S \cup T) \cap U = {}
    OBVIOUS
  <1>3. Cardinality((S \cup T) \cup U) = Cardinality(S \cup T) + Cardinality(U)
    BY <1>1, <1>2, DisjointCount
  <1> QED BY <1>1, <1>3

LEMMA LoneCount ==
  ASSUME NEW S, \A x, y \in S : x = y
  PROVE  Cardinality(S) <= 1
  <1>1. CASE S = {}
    BY <1>1, FS_EmptySet
  <1>2. CASE S # {}
    <2>1. PICK x \in S : TRUE
      BY <1>2
    <2>2. S = {x}
      BY <2>1
    <2> QED BY <2>2, FS_Singleton
  <1> QED BY <1>1, <1>2

(* Rows of a table with a UNIQUE name. *)
NamesDiffer(t) == \A i, j \in DOMAIN t : t[i].name = t[j].name => i = j

LEMMA NamesStayDifferent ==
  ASSUME NEW t, NEW u, NEW i, NEW row, NEW Ids, NEW Row, IsTable(t, Ids, Row), NamesDiffer(t), Writes(t, u, i, row),
         \A j \in DOMAIN t \ {i} : t[j].name # row.name
  PROVE  NamesDiffer(u)
  <1>1. DOMAIN u = DOMAIN t \cup {i} /\ u[i] = row /\ \A j \in DOMAIN t \ {i} : u[j] = t[j]
    BY DEF Writes, Insert, IsTable
  <1> QED BY <1>1 DEF NamesDiffer

LEMMA NamesKept ==
  ASSUME NEW t, NEW u, NamesDiffer(t), DOMAIN u \subseteq DOMAIN t, \A i \in DOMAIN u : u[i].name = t[i].name
  PROVE  NamesDiffer(u)
  BY DEF NamesDiffer

LEMMA NamesLeft == ASSUME NEW t, NEW S, NamesDiffer(t) PROVE NamesDiffer(Without(t, S))
  BY DEF NamesDiffer, Without

(* An actor is a contact without a contact's data. *)
LEMMA ActorCreated ==
  ASSUME ContactsTypeOK, NEW c \in ContactIds, CreateContact(c, SomeContact)
  PROVE  ContactsTypeOK' /\ DOMAIN contacts \subseteq DOMAIN contacts'
  <1>1. PICK row \in Contact : row = SomeContact
    BY DEF SomeContact, Contact, ContactTypes
  <1> QED BY <1>1 DEF CreateContact, ContactsTypeOK, IsTable, Insert

LEMMA ContactDeleted ==
  ASSUME ContactsTypeOK, NEW c \in ContactIds, DeleteContact(c)
  PROVE  ContactsTypeOK' /\ DOMAIN contacts' = DOMAIN contacts \ {c}
  BY DEF DeleteContact, ContactsTypeOK, IsTable, Without

-----------------------------------------------------------------------------
(* What the queries of contacts answer, where email is UNIQUE. *)

EmailsDiffer == \A c, d \in DOMAIN contacts : Eq(contacts[c].email, contacts[d].email) => c = d

LEMMA ContactAnswers == ASSUME ContactsTypeOK, EmailsDiffer PROVE ContactAnswersAgree
  <1> DEFINE T(ty) == GetContactsByType(ty)
  <1>1. \A c \in DOMAIN contacts : contacts[c].contact_type \in ContactTypes
    BY DEF ContactsTypeOK, IsTable, Contact
  <1>2. IsFiniteSet(DOMAIN contacts)
    BY ContactsAssumption, FS_Subset DEF ContactsTypeOK, IsTable
  <1>3. \A ty : IsFiniteSet(T(ty))
    <2>1. \A ty : T(ty) \in SUBSET DOMAIN contacts
      BY DEF GetContactsByType
    <2> QED BY <1>2, <2>1, FS_Subset
  <1>4. /\ T("Individual") \cap T("Organization") = {} /\ T("Individual") \cap T("Household") = {}
        /\ T("Organization") \cap T("Household") = {}
    BY DEF GetContactsByType
  <1>5. DOMAIN contacts = T("Individual") \cup T("Organization") \cup T("Household")
    BY <1>1 DEF GetContactsByType, ContactTypes
  <1>6. Cardinality(DOMAIN contacts) = Cardinality(T("Individual")) + Cardinality(T("Organization")) + Cardinality(T("Household"))
    <2> HIDE DEF T
    <2> QED BY <1>3, <1>4, <1>5, ThreeCount
  <1>7. CountAllContacts = CountContacts("Individual") + CountContacts("Organization") + CountContacts("Household")
    BY <1>6 DEF CountAllContacts, CountContacts, GetContactsByType
  <1>8. ListAllContacts = UNION {GetContactsByType(ty) : ty \in ContactTypes}
    <2>1. \A c : c \in ListAllContacts <=> \E ty \in ContactTypes : c \in GetContactsByType(ty)
      BY <1>1 DEF ListAllContacts, GetContactsByType
    <2> QED BY <2>1
  <1>9. \A e : Cardinality(GetContactByEmail(e)) <= 1
    <2>1. ASSUME NEW e PROVE \A c, d \in GetContactByEmail(e) : c = d
      BY DEF GetContactByEmail, EmailsDiffer, Eq
    <2> QED BY <2>1, LoneCount
  <1> QED BY <1>7, <1>8, <1>9 DEF ContactAnswersAgree

-----------------------------------------------------------------------------
(* Domains, settings and navigation.  SiteRefs is inductive with the types;   *)
(* what a walk down from the roots meets needs no more than the references of *)
(* the state it is made in.                                                   *)

SiteInv == SiteTypeOK /\ SiteRefs

LEMMA SiteInitInv == SiteInit => SiteInv
  BY DEF SiteInit, SiteInv, SiteTypeOK, SiteRefs, IsTable, NoRows

-----------------------------------------------------------------------------
(* A cascade takes what it starts from, and the children of all it takes. *)

LEMMA SubtreeStarts == ASSUME NEW S, S \subseteq DOMAIN navigation PROVE S \subseteq Subtree(S)
  BY DEF Subtree

LEMMA SubtreeCloses ==
  ASSUME NEW S, NEW n \in DOMAIN navigation, navigation[n].parent_id \in Subtree(S)
  PROVE  n \in Subtree(S)
  <1> SUFFICES ASSUME NEW D \in SUBSET DOMAIN navigation, S \subseteq D, ClosedBelow(D) PROVE n \in D
    BY DEF Subtree
  <1>1. navigation[n].parent_id \in D
    BY DEF Subtree
  <1> QED BY <1>1 DEF ClosedBelow

(* What is left of the navigation refers to what is left. *)
LEMMA CascadeKeeps ==
  ASSUME SiteInv, NEW S, S \subseteq DOMAIN navigation, navigation' = Without(navigation, Subtree(S))
  PROVE  /\ IsTable(navigation', NavIds, Navigation)
         /\ DOMAIN navigation' \subseteq DOMAIN navigation \ S
         /\ \A n \in DOMAIN navigation' : /\ navigation'[n] = navigation[n]
                                          /\ navigation'[n].parent_id \in DOMAIN navigation' \cup {NULL}
  <1>1. /\ IsTable(navigation', NavIds, Navigation)
        /\ DOMAIN navigation' = DOMAIN navigation \ Subtree(S)
        /\ \A n \in DOMAIN navigation' : navigation'[n] = navigation[n]
    BY DEF SiteInv, SiteTypeOK, IsTable, Without
  <1>2. \A n \in DOMAIN navigation' : navigation[n].parent_id \notin Subtree(S)
    BY <1>1, SubtreeCloses
  <1>3. \A n \in DOMAIN navigation' : navigation'[n].parent_id \in DOMAIN navigation' \cup {NULL}
    BY <1>1, <1>2 DEF SiteInv, SiteRefs
  <1> QED BY <1>1, <1>3, SubtreeStarts

-----------------------------------------------------------------------------
(* Domains. *)

LEMMA WriteDomainKeeps ==
  ASSUME SiteInv, NEW d \in DomainIds, NEW n \in Names, NEW act \in Flag, CreateDomain(d, n, act) \/ UpdateDomain(d, n, act)
  PROVE  SiteInv'
  <1>1. UNCHANGED <<settings, navigation>>
    BY DEF CreateDomain, UpdateDomain
  <1>2. PICK row \in Domain : row = [name |-> n, is_active |-> act]
    BY DEF Domain
  <1>3. IsTable(domains', DomainIds, Domain) /\ DOMAIN domains \subseteq DOMAIN domains'
    <2>1. CASE CreateDomain(d, n, act)
      BY <1>2, <2>1 DEF CreateDomain, SiteInv, SiteTypeOK, IsTable, Insert
    <2>2. CASE UpdateDomain(d, n, act)
      BY <1>2, <2>2 DEF UpdateDomain, SiteInv, SiteTypeOK, IsTable
    <2> QED BY <2>1, <2>2
  <1> QED
    BY <1>1, <1>3 DEF SiteInv, SiteTypeOK, SiteRefs

LEMMA DeleteDomainKeeps == ASSUME SiteInv, NEW d \in DomainIds, DeleteDomain(d) PROVE SiteInv'
  <1>1. IsTable(domains', DomainIds, Domain) /\ DOMAIN domains' = DOMAIN domains \ {d}
    BY DEF DeleteDomain, SiteInv, SiteTypeOK, IsTable, Without
  <1>2. /\ IsTable(settings', SettingIds, Setting)
        /\ DOMAIN settings' = DOMAIN settings \ SettingsOf(d)
        /\ \A s \in DOMAIN settings' : settings'[s] = settings[s]
    BY DEF DeleteDomain, SiteInv, SiteTypeOK, IsTable, Without
  <1>3. \A s \in DOMAIN settings' : settings'[s].domain_id \in DOMAIN domains'
    BY <1>1, <1>2 DEF SiteInv, SiteRefs, SettingsOf
  <1>4. NavigationOf(d) \subseteq DOMAIN navigation /\ navigation' = Without(navigation, Subtree(NavigationOf(d)))
    BY DEF DeleteDomain, NavigationOf
  <1>5. /\ IsTable(navigation', NavIds, Navigation)
        /\ DOMAIN navigation' \subseteq DOMAIN navigation \ NavigationOf(d)
        /\ \A n \in DOMAIN navigation' : /\ navigation'[n] = navigation[n]
                                         /\ navigation'[n].parent_id \in DOMAIN navigation' \cup {NULL}
    BY <1>4, CascadeKeeps
  <1>6. \A n \in DOMAIN navigation' : navigation'[n].domain_id \in DOMAIN domains'
    BY <1>1, <1>5 DEF SiteInv, SiteRefs, NavigationOf
  <1>7. SiteRefs'
    BY <1>2, <1>3, <1>5, <1>6 DEF SiteInv, SiteRefs
  <1> QED
    BY <1>1, <1>2, <1>5, <1>7 DEF SiteInv, SiteTypeOK

-----------------------------------------------------------------------------
(* Settings. *)

(* Values and flags may change, and rows go: what names a setting stays. *)
LEMMA SettingsKept ==
  ASSUME SiteInv, UNCHANGED <<domains, navigation>>, IsTable(settings', SettingIds, Setting),
         DOMAIN settings' \subseteq DOMAIN settings,
         \A s \in DOMAIN settings' : /\ settings'[s].domain_id = settings[s].domain_id
                                     /\ settings'[s].name = settings[s].name
  PROVE  SiteInv'
  BY DEF SiteInv, SiteTypeOK, SiteRefs

LEMMA CreateSettingKeeps ==
  ASSUME SiteInv, NEW s \in SettingIds, NEW row \in Setting, CreateSetting(s, row)
  PROVE  SiteInv'
  <1>1. /\ IsTable(settings', SettingIds, Setting)
        /\ DOMAIN settings' = DOMAIN settings \cup {s}
        /\ settings'[s] = row
        /\ \A t \in DOMAIN settings : settings'[t] = settings[t]
    BY DEF CreateSetting, SiteInv, SiteTypeOK, IsTable, Insert
  <1>2. \A t \in DOMAIN settings : settings[t].domain_id # row.domain_id \/ settings[t].name # row.name
    BY DEF CreateSetting, GetSettingByName, SettingsOf
  <1>3. row.domain_id \in DOMAIN domains /\ UNCHANGED <<domains, navigation>>
    BY DEF CreateSetting
  <1> QED
    BY <1>1, <1>2, <1>3 DEF SiteInv, SiteTypeOK, SiteRefs

LEMMA UpdateSettingKeeps ==
  ASSUME SiteInv, NEW d \in DomainIds, NEW n \in Names, NEW v \in SettingValues, NEW sys \in Flag, NEW pub \in Flag,
         UpdateSetting(d, n, v, sys, pub)
  PROVE  SiteInv'
  <1> DEFINE row(s) == [settings[s] EXCEPT !.value = v, !.is_system = sys, !.is_public = pub]
  <1>1. ASSUME NEW s \in DOMAIN settings
        PROVE  row(s) \in Setting /\ row(s).domain_id = settings[s].domain_id /\ row(s).name = settings[s].name
    <2>1. settings[s] \in Setting
      BY DEF SiteInv, SiteTypeOK, IsTable
    <2> QED BY <2>1 DEF Setting
  <1>2. settings' = [s \in DOMAIN settings |-> IF s \in GetSettingByName(d, n) THEN row(s) ELSE settings[s]]
    BY DEF UpdateSetting
  <1> HIDE DEF row
  <1>3. /\ IsTable(settings', SettingIds, Setting)
        /\ DOMAIN settings' = DOMAIN settings
        /\ \A s \in DOMAIN settings : /\ settings'[s].domain_id = settings[s].domain_id
                                      /\ settings'[s].name = settings[s].name
    BY <1>1, <1>2 DEF SiteInv, SiteTypeOK, IsTable
  <1> QED BY <1>3, SettingsKept DEF UpdateSetting

LEMMA BulkUpdateKeeps ==
  ASSUME SiteInv, NEW d \in DomainIds, NEW f, \A n \in DOMAIN f : f[n] \in SettingValues, BulkUpdateSettings(d, f)
  PROVE  SiteInv'
  <1> DEFINE row(s) == [settings[s] EXCEPT !.value = f[settings[s].name]]
  <1>1. ASSUME NEW s \in DOMAIN settings, settings[s].name \in DOMAIN f
        PROVE  row(s) \in Setting /\ row(s).domain_id = settings[s].domain_id /\ row(s).name = settings[s].name
    <2>1. settings[s] \in Setting /\ f[settings[s].name] \in SettingValues
      BY <1>1 DEF SiteInv, SiteTypeOK, IsTable
    <2> QED BY <2>1 DEF Setting
  <1>2. settings' = [s \in DOMAIN settings |->
                       IF s \in SettingsOf(d) /\ settings[s].name \in DOMAIN f THEN row(s) ELSE settings[s]]
    BY DEF BulkUpdateSettings
  <1> HIDE DEF row
  <1>3. /\ IsTable(settings', SettingIds, Setting)
        /\ DOMAIN settings' = DOMAIN settings
        /\ \A s \in DOMAIN settings : /\ settings'[s].domain_id = settings[s].domain_id
                                      /\ settings'[s].name = settings[s].name
    BY <1>1, <1>2 DEF SiteInv, SiteTypeOK, IsTable
  <1> QED BY <1>3, SettingsKept DEF BulkUpdateSettings

LEMMA DropSettingsKeeps ==
  ASSUME SiteInv, NEW S, settings' = Without(settings, S), UNCHANGED <<domains, navigation>>
  PROVE  SiteInv'
  <1>1. /\ IsTable(settings', SettingIds, Setting)
        /\ DOMAIN settings' \subseteq DOMAIN settings
        /\ \A s \in DOMAIN settings' : settings'[s] = settings[s]
    BY DEF SiteInv, SiteTypeOK, IsTable, Without
  <1> QED BY <1>1, SettingsKept

-----------------------------------------------------------------------------
(* Navigation. *)

LEMMA WriteNavigationKeeps ==
  ASSUME SiteInv, NEW n \in NavIds, NEW row \in Navigation, CreateNavigation(n, row) \/ UpdateNavigation(n, row)
  PROVE  SiteInv'
  <1>1. /\ UNCHANGED <<domains, settings>> /\ row.parent_id \in DOMAIN navigation \cup {NULL}
    BY DEF CreateNavigation, UpdateNavigation
  <1>2. row.domain_id \in DOMAIN domains
    BY DEF CreateNavigation, UpdateNavigation, NavigationOf, SiteInv, SiteRefs
  <1>3. /\ IsTable(navigation', NavIds, Navigation)
        /\ DOMAIN navigation' = DOMAIN navigation \cup {n}
        /\ navigation'[n] = row
        /\ \A m \in DOMAIN navigation \ {n} : navigation'[m] = navigation[m]
    <2>1. CASE CreateNavigation(n, row)
      BY <2>1 DEF CreateNavigation, SiteInv, SiteTypeOK, IsTable, Insert
    <2>2. CASE UpdateNavigation(n, row)
      BY <2>2 DEF UpdateNavigation, NavigationOf, SiteInv, SiteTypeOK, IsTable
    <2> QED BY <2>1, <2>2
  <1> QED
    BY <1>1, <1>2, <1>3 DEF SiteInv, SiteTypeOK, SiteRefs

LEMMA UpdateStatusKeeps ==
  ASSUME SiteInv, NEW n \in NavIds, NEW d \in DomainIds, NEW act \in Flag, NEW vis \in Flag,
         UpdateNavigationStatus(n, d, act, vis)
  PROVE  SiteInv'
  <1>1. PICK row : row = [navigation[n] EXCEPT !.is_active = act, !.is_visible = vis]
    OBVIOUS
  <1>2. n \in DOMAIN navigation /\ navigation[n] \in Navigation
    BY DEF UpdateNavigationStatus, NavigationOf, SiteInv, SiteTypeOK, IsTable
  <1>3. row \in Navigation /\ row.domain_id = navigation[n].domain_id /\ row.parent_id = navigation[n].parent_id
    BY <1>1, <1>2 DEF Navigation
  <1>4. navigation' = [navigation EXCEPT ![n] = row] /\ UNCHANGED <<domains, settings>>
    BY <1>1 DEF UpdateNavigationStatus
  <1>5. /\ IsTable(navigation', NavIds, Navigation)
        /\ DOMAIN navigation' = DOMAIN navigation
        /\ \A m \in DOMAIN navigation : /\ navigation'[m].domain_id = navigation[m].domain_id
                                        /\ navigation'[m].parent_id = navigation[m].parent_id
    BY <1>2, <1>3, <1>4 DEF SiteInv, SiteTypeOK, IsTable
  <1> QED
    BY <1>4, <1>5 DEF SiteInv, SiteTypeOK, SiteRefs

LEMMA DropNavigationKeeps ==
  ASSUME SiteInv, NEW S, S \subseteq DOMAIN navigation, navigation' = Without(navigation, Subtree(S)),
         UNCHANGED <<domains, settings>>
  PROVE  SiteInv'
  <1>1. /\ IsTable(navigation', NavIds, Navigation)
        /\ DOMAIN navigation' \subseteq DOMAIN navigation
        /\ \A n \in DOMAIN navigation' : /\ navigation'[n] = navigation[n]
                                         /\ navigation'[n].parent_id \in DOMAIN navigation' \cup {NULL}
    BY CascadeKeeps
  <1> QED
    BY <1>1 DEF SiteInv, SiteTypeOK, SiteRefs

-----------------------------------------------------------------------------

LEMMA DomainNextKeeps == ASSUME SiteInv, DomainNext PROVE SiteInv'
  BY FlagsAreFlags, WriteDomainKeeps, DeleteDomainKeeps DEF DomainNext

LEMMA SettingsNextKeeps == ASSUME SiteInv, SettingsNext PROVE SiteInv'
  <1>1. ASSUME NEW d \in DomainIds, NEW n \in Names, DeleteSetting(d, n)
        PROVE  SiteInv'
    BY <1>1, DropSettingsKeeps DEF DeleteSetting
  <1>2. ASSUME NEW d \in DomainIds, NEW n \in Names, NEW v \in SettingValues, UpdateSettingValue(d, n, v)
        PROVE  SiteInv'
    <2>1. PICK f : f = [m \in {n} |-> v]
      OBVIOUS
    <2>2. BulkUpdateSettings(d, f) /\ \A m \in DOMAIN f : f[m] \in SettingValues
      BY <1>2, <2>1 DEF UpdateSettingValue
    <2> QED BY <2>2, BulkUpdateKeeps
  <1>3. ASSUME NEW d \in DomainIds, NEW n \in Names, NEW v \in SettingValues, NEW sys \in Flags, NEW pub \in Flags,
               UpdateSetting(d, n, v, sys, pub)
        PROVE  SiteInv'
    BY <1>3, FlagsAreFlags, UpdateSettingKeeps
  <1>4. ASSUME NEW d \in DomainIds, NEW S \in SUBSET Names, NEW f \in [S -> SettingValues], BulkUpdateSettings(d, f)
        PROVE  SiteInv'
    BY <1>4, BulkUpdateKeeps
  <1>5. ASSUME NEW d \in DomainIds, NEW s \in SettingIds, NEW n \in Names, NEW v \in SettingValues,
               NEW sys \in Flags, NEW pub \in Flags,
               CreateSetting(s, [domain_id |-> d, name |-> n, value |-> v, is_system |-> sys, is_public |-> pub])
        PROVE  SiteInv'
    <2>1. [domain_id |-> d, name |-> n, value |-> v, is_system |-> sys, is_public |-> pub] \in Setting
      BY FlagsAreFlags DEF Setting
    <2> QED BY <1>5, <2>1, CreateSettingKeeps
  <1>6. ASSUME NEW d \in DomainIds, DeleteSettingsByDomain(d)
        PROVE  SiteInv'
    BY <1>6, DropSettingsKeeps DEF DeleteSettingsByDomain
  <1> QED
    BY <1>1, <1>2, <1>3, <1>4, <1>5, <1>6 DEF SettingsNext

LEMMA NavigationNextKeeps == ASSUME SiteInv, NavigationNext PROVE SiteInv'
  <1>1. ASSUME NEW d \in DomainIds, NEW n \in NavIds, DeleteNavigation(n, d)
        PROVE  SiteInv'
    <2>1. {n} \cap NavigationOf(d) \subseteq DOMAIN navigation
      BY DEF NavigationOf
    <2> QED BY <1>1, <2>1, DropNavigationKeeps DEF DeleteNavigation
  <1>2. ASSUME NEW d \in DomainIds, NEW n \in NavIds, NEW p \in NavIds \cup {NULL}, NEW act \in Flags,
               LET row == [domain_id |-> d, parent_id |-> p, is_active |-> act, is_visible |-> TRUE]
               IN  CreateNavigation(n, row) \/ UpdateNavigation(n, row)
        PROVE  SiteInv'
    <2>1. [domain_id |-> d, parent_id |-> p, is_active |-> act, is_visible |-> TRUE] \in Navigation
      BY FlagsAreFlags DEF Navigation
    <2> QED BY <1>2, <2>1, WriteNavigationKeeps
  <1>3. ASSUME NEW d \in DomainIds, NEW n \in NavIds, NEW vis \in Flags, UpdateNavigationStatus(n, d, TRUE, vis)
        PROVE  SiteInv'
    BY <1>3, FlagsAreFlags, UpdateStatusKeeps
  <1>4. ASSUME NEW d \in DomainIds, DeleteNavigationByDomain(d)
        PROVE  SiteInv'
    <2>1. NavigationOf(d) \subseteq DOMAIN navigation
      BY DEF NavigationOf
    <2> QED BY <1>4, <2>1, DropNavigationKeeps DEF DeleteNavigationByDomain
  <1> QED
    BY <1>1, <1>2, <1>3, <1>4 DEF NavigationNext

LEMMA SiteNextKeeps == SiteInv /\ [SiteNext]_siteVars => SiteInv'
  <1>1. ASSUME SiteInv, UNCHANGED siteVars PROVE SiteInv'
    BY <1>1 DEF siteVars, SiteInv, SiteTypeOK, SiteRefs
  <1> QED BY <1>1, DomainNextKeeps, SettingsNextKeeps, NavigationNextKeeps DEF SiteNext

-----------------------------------------------------------------------------
(* The walk down from the roots and the breadcrumb up. *)

LEMMA AncestorOfItself == ASSUME NEW n \in DOMAIN navigation PROVE n \in Ancestors(n)
  BY DEF Ancestors

LEMMA AncestorsOfParent ==
  ASSUME SiteInv, NEW n \in DOMAIN navigation, navigation[n].parent_id \in DOMAIN navigation
  PROVE  Ancestors(navigation[n].parent_id) \subseteq Ancestors(n)
  <1>1. navigation[n].parent_id # NULL
    BY SiteAssumption DEF SiteInv, SiteTypeOK, IsTable
  <1> SUFFICES ASSUME NEW m \in Ancestors(navigation[n].parent_id),
                      NEW D \in SUBSET DOMAIN navigation, n \in D, ClosedAbove(D)
               PROVE  m \in D
    BY DEF Ancestors
  <1>2. navigation[n].parent_id \in D
    BY <1>1 DEF ClosedAbove
  <1> QED BY <1>2 DEF Ancestors

(* The items from which a root of the domain is reached upwards contain the    *)
(* roots and are closed downwards, so the walk stays among them.               *)
LEMMA WalkReachesRoots == SiteInv => WalkHasBreadcrumbs
  <1> SUFFICES ASSUME SiteInv, NEW d \in DOMAIN domains, NEW n \in WalkedFrom(d)
               PROVE  BreadcrumbEnds(n) /\ GetNavigationBreadcrumb(n) \cap GetRootNavigation(d) # {}
    BY DEF WalkHasBreadcrumbs
  <1> DEFINE R == GetRootNavigation(d)
             D == {m \in DOMAIN navigation : Ancestors(m) \cap R # {}}
  <1>1. R \subseteq DOMAIN navigation /\ \A m \in R : navigation[m].parent_id = NULL
    BY DEF GetRootNavigation, NavigationOf
  <1>2. R \subseteq D
    BY <1>1, AncestorOfItself
  <1>3. ClosedBelow(D)
    <2> SUFFICES ASSUME NEW m \in DOMAIN navigation, navigation[m].parent_id \in D PROVE m \in D
      BY DEF ClosedBelow
    <2>1. Ancestors(navigation[m].parent_id) \subseteq Ancestors(m)
      BY AncestorsOfParent
    <2> QED BY <2>1
  <1>4. n \in D
    BY <1>2, <1>3 DEF WalkedFrom, Subtree
  <1>5. PICK m \in R : m \in Ancestors(n)
    BY <1>4
  <1> QED BY <1>1, <1>5 DEF BreadcrumbEnds, GetNavigationBreadcrumb

-----------------------------------------------------------------------------
(* The three tables of migrations/027_system_configuration.sql keep rows of    *)
(* their types (domains.sql.go, settings.sql.go, navigation.sql.go).           *)
THEOREM SiteTypeCorrect == SiteSpec => []SiteTypeOK
  <1>1. SiteInv => SiteTypeOK
    BY DEF SiteInv
  <1> QED BY <1>1, SiteInitInv, SiteNextKeeps, PTL DEF SiteSpec

(* No setting and no item of the navigation outlives its domain, no item its   *)
(* parent, though the cascade of DeleteDomain and DeleteNavigation crosses     *)
(* domains and may meet cycles, and no domain has two settings of one name.    *)
THEOREM SiteReferences == SiteSpec => []SiteRefs
  <1>1. SiteInv => SiteRefs
    BY DEF SiteInv
  <1> QED BY <1>1, SiteInitInv, SiteNextKeeps, PTL DEF SiteSpec

(* UpdateNavigation may close cycles, on which GetNavigationBreadcrumb never   *)
(* ends, but whoever walks down from GetRootNavigation never meets one.        *)
THEOREM WalksEnd == SiteSpec => []WalkHasBreadcrumbs
  BY SiteInitInv, SiteNextKeeps, WalkReachesRoots, PTL DEF SiteSpec

(* What the queries of a domain answer needs two facts more: its name is its   *)
(* own, and there are finitely many items to count.                            *)
DomainsDiffer == \A d, e \in DOMAIN domains : domains[d].name = domains[e].name => d = e
SiteCounted == DomainsDiffer /\ IsFiniteSet(DOMAIN navigation)

LEMMA DomainsStayDifferent == ASSUME SiteInv, DomainsDiffer, [SiteNext]_siteVars PROVE DomainsDiffer'
  <1>1. ASSUME NEW d \in DomainIds, NEW n \in Names, NEW act \in Flags, CreateDomain(d, n, act) \/ UpdateDomain(d, n, act)
        PROVE  DomainsDiffer'
    <2>1. PICK row : row = [name |-> n, is_active |-> act]
      OBVIOUS
    <2>2. Writes(domains, domains', d, row)
      BY <1>1, <2>1 DEF CreateDomain, UpdateDomain, Writes
    <2>3. \A e \in DOMAIN domains \ {d} : domains[e].name # n
      BY <1>1 DEF CreateDomain, UpdateDomain
    <2>4. /\ DOMAIN domains' = DOMAIN domains \cup {d} /\ domains'[d] = row
          /\ \A e \in DOMAIN domains \ {d} : domains'[e] = domains[e]
      BY <2>2 DEF SiteInv, SiteTypeOK, IsTable, Insert, Writes
    <2>5. row.name = n
      BY <2>1
    <2> QED BY <2>3, <2>4, <2>5 DEF DomainsDiffer
  <1>2. ASSUME NEW d \in DomainIds, DeleteDomain(d) PROVE DomainsDiffer'
    BY <1>2 DEF DeleteDomain, DomainsDiffer, Without
  <1>3. CASE DomainNext
    BY <1>1, <1>2, <1>3 DEF DomainNext
  <1>4. CASE SettingsNext \/ NavigationNext
    <2>1. UNCHANGED domains
      <3>1. CASE SettingsNext
        <4>1. ASSUME NEW d, NEW n, DeleteSetting(d, n) \/ DeleteSettingsByDomain(d) PROVE UNCHANGED domains
          BY <4>1 DEF DeleteSetting, DeleteSettingsByDomain
        <4>2. ASSUME NEW d, NEW f, BulkUpdateSettings(d, f) PROVE UNCHANGED domains
          BY <4>2 DEF BulkUpdateSettings
        <4>3. ASSUME NEW d, NEW n, NEW v, UpdateSettingValue(d, n, v) PROVE UNCHANGED domains
          BY <4>2, <4>3 DEF UpdateSettingValue
        <4>4. ASSUME NEW d, NEW n, NEW v, NEW sys, NEW pub, UpdateSetting(d, n, v, sys, pub) PROVE UNCHANGED domains
          BY <4>4 DEF UpdateSetting
        <4>5. ASSUME NEW s, NEW row, CreateSetting(s, row) PROVE UNCHANGED domains
          BY <4>5 DEF CreateSetting
        <4> QED BY <3>1, <4>1, <4>2, <4>3, <4>4, <4>5 DEF SettingsNext
      <3>2. CASE NavigationNext
        BY <3>2 DEF NavigationNext, DeleteNavigation, CreateNavigation, UpdateNavigation, UpdateNavigationStatus,
                    DeleteNavigationByDomain
      <3> QED BY <1>4, <3>1, <3>2
    <2> QED BY <2>1 DEF DomainsDiffer
  <1>5. CASE UNCHANGED siteVars
    BY <1>5 DEF siteVars, DomainsDiffer
  <1> QED BY <1>3, <1>4, <1>5 DEF SiteNext

LEMMA NavigationStaysFinite ==
  ASSUME SiteInv, IsFiniteSet(DOMAIN navigation), [SiteNext]_siteVars
  PROVE  IsFiniteSet(DOMAIN navigation')
  <1>1. \E n : DOMAIN navigation' \subseteq DOMAIN navigation \cup {n}
    <2>1. CASE DomainNext
      BY <2>1 DEF DomainNext, DeleteDomain, CreateDomain, UpdateDomain, Without
    <2>2. CASE SettingsNext \/ UNCHANGED siteVars
      BY <2>2 DEF siteVars, SettingsNext, DeleteSetting, UpdateSettingValue, UpdateSetting, BulkUpdateSettings,
                  CreateSetting, DeleteSettingsByDomain
    <2>3. CASE NavigationNext
      <3>1. ASSUME NEW n, NEW row, CreateNavigation(n, row) PROVE DOMAIN navigation' \subseteq DOMAIN navigation \cup {n}
        BY <3>1 DEF CreateNavigation, Insert
      <3>2. ASSUME NEW n, NEW row, UpdateNavigation(n, row) PROVE DOMAIN navigation' \subseteq DOMAIN navigation \cup {n}
        BY <3>2 DEF UpdateNavigation, SiteInv, SiteTypeOK, IsTable
      <3>3. ASSUME NEW n, NEW d, NEW act, NEW vis, UpdateNavigationStatus(n, d, act, vis)
            PROVE  DOMAIN navigation' \subseteq DOMAIN navigation \cup {n}
        BY <3>3 DEF UpdateNavigationStatus, SiteInv, SiteTypeOK, IsTable
      <3>4. ASSUME NEW n, NEW d, DeleteNavigation(n, d) \/ DeleteNavigationByDomain(d)
            PROVE  DOMAIN navigation' \subseteq DOMAIN navigation \cup {n}
        BY <3>4 DEF DeleteNavigation, DeleteNavigationByDomain, Without
      <3> QED BY <2>3, <3>1, <3>2, <3>3, <3>4 DEF NavigationNext
    <2> QED BY <2>1, <2>2, <2>3 DEF SiteNext
  <1> QED BY <1>1, FS_AddElement, FS_Subset

LEMMA SiteAnswers == SiteInv /\ SiteCounted => SiteAnswersAgree
  <1> SUFFICES ASSUME SiteInv, SiteCounted PROVE SiteAnswersAgree
    OBVIOUS
  <1>1. CountDomains = Cardinality(ListDomains) /\ CountActiveDomains = Cardinality(ListActiveDomains)
    BY DEF CountDomains, ListDomains, CountActiveDomains, ListActiveDomains
  <1>2. ASSUME NEW n \in Names PROVE Cardinality(GetDomainByName(n)) <= 1
    <2>1. CASE GetDomainByName(n) = {}
      BY <2>1, FS_EmptySet
    <2>2. CASE GetDomainByName(n) # {}
      <3>1. PICK d : GetDomainByName(n) = {d}
        BY <2>2 DEF GetDomainByName, SiteCounted, DomainsDiffer
      <3> QED BY <3>1, FS_Singleton
    <2> QED BY <2>1, <2>2
  <1>3. /\ ListAllSettings = UNION {GetSettingsByDomain(d) : d \in ListDomains}
        /\ ListAllSettings = DOMAIN settings
    <2>1. ListAllSettings = DOMAIN settings
      BY DEF ListAllSettings, SiteInv, SiteRefs
    <2>2. \A s : s \in ListAllSettings <=> \E d \in ListDomains : s \in GetSettingsByDomain(d)
      BY DEF ListAllSettings, GetSettingsByDomain, ListDomains
    <2> QED BY <2>1, <2>2
  <1>4. ASSUME NEW d \in DomainIds
        PROVE  /\ GetDomain(d) = {} => GetSettingsByDomain(d) = {} /\ GetRootNavigation(d) = {}
               /\ GetDomainSettings(d) = GetSettingsByDomain(d) /\ GetDomainNavigation(d) = GetRootNavigation(d)
               /\ CountSettingsByDomain(d) = Cardinality(GetSettingsByDomain(d))
               /\ CountSystemSettingsByDomain(d) = Cardinality(GetSystemSettingsByDomain(d))
               /\ GetPublicSettingsByDomain(d) \subseteq GetSettingsByDomain(d)
               /\ \A s \in GetSettingsByDomain(d) : GetSetting(s) = {s} /\ GetSettingValue(d, settings[s].name) = {settings[s].value}
               /\ CountActiveNavigationByDomain(d) = Cardinality(GetActiveNavigation(d))
               /\ GetVisibleNavigation(d) \subseteq GetActiveNavigation(d)
               /\ Cardinality(GetActiveNavigation(d)) <= CountNavigationByDomain(d)
    <2>1. GetDomain(d) = {} => d \notin DOMAIN domains
      BY DEF GetDomain
    <2>2. \A s \in DOMAIN settings : settings[s].domain_id \in DOMAIN domains
      BY DEF SiteInv, SiteRefs
    <2>3. \A n \in DOMAIN navigation : navigation[n].domain_id \in DOMAIN domains
      BY DEF SiteInv, SiteRefs
    <2>4. GetDomain(d) = {} => GetSettingsByDomain(d) = {} /\ GetRootNavigation(d) = {}
      BY <2>1, <2>2, <2>3 DEF GetSettingsByDomain, GetRootNavigation, NavigationOf
    <2>5. GetDomainSettings(d) = GetSettingsByDomain(d) /\ GetDomainNavigation(d) = GetRootNavigation(d)
      BY <2>2, <2>3 DEF GetDomainSettings, GetSettingsByDomain, GetDomainNavigation, GetRootNavigation, NavigationOf
    <2>6. /\ CountSettingsByDomain(d) = Cardinality(GetSettingsByDomain(d))
          /\ CountSystemSettingsByDomain(d) = Cardinality(GetSystemSettingsByDomain(d))
          /\ GetPublicSettingsByDomain(d) \subseteq GetSettingsByDomain(d)
      BY DEF CountSettingsByDomain, GetSettingsByDomain, SettingsOf, CountSystemSettingsByDomain,
             GetSystemSettingsByDomain, GetPublicSettingsByDomain
    <2>7. ASSUME NEW s \in GetSettingsByDomain(d)
          PROVE  GetSetting(s) = {s} /\ GetSettingValue(d, settings[s].name) = {settings[s].value}
      <3>1. s \in DOMAIN settings /\ settings[s].domain_id = d
        BY DEF GetSettingsByDomain
      <3>2. GetSettingByName(d, settings[s].name) = {s}
        BY <3>1 DEF GetSettingByName, SettingsOf, SiteInv, SiteRefs
      <3> QED BY <3>1, <3>2 DEF GetSetting, GetSettingValue
    <2>8. /\ CountActiveNavigationByDomain(d) = Cardinality(GetActiveNavigation(d))
          /\ GetVisibleNavigation(d) \subseteq GetActiveNavigation(d)
      BY DEF CountActiveNavigationByDomain, GetActiveNavigation, GetVisibleNavigation
    <2>9. Cardinality(GetActiveNavigation(d)) <= CountNavigationByDomain(d)
      <3>1. IsFiniteSet(NavigationOf(d))
        BY FS_Subset DEF SiteCounted, NavigationOf
      <3>2. GetActiveNavigation(d) \subseteq NavigationOf(d)
        BY DEF GetActiveNavigation
      <3> QED BY <3>1, <3>2, FS_Subset DEF CountNavigationByDomain
    <2> QED BY <2>4, <2>5, <2>6, <2>7, <2>8, <2>9
  <1>5. ASSUME NEW n \in DOMAIN navigation, NEW m \in GetChildNavigation(n)
        PROVE  GetNavigation(m) = {m} /\ GetNavigationSiblings(m) = GetChildNavigation(n) \ {m}
    <2>1. m \in DOMAIN navigation /\ navigation[m].parent_id = n /\ n # NULL
      BY DEF GetChildNavigation, Eq
    <2> QED BY <2>1 DEF GetNavigation, GetNavigationSiblings, GetChildNavigation, Eq
  <1> QED BY <1>1, <1>2, <1>3, <1>4, <1>5 DEF SiteAnswersAgree

(* Counts, listings and joins of domains.sql.go, settings.sql.go and           *)
(* navigation.sql.go fit together for any domains, settings and items: no      *)
(* inner join loses a row, a name finds one domain or none and one setting,    *)
(* and the children of an item are each other's siblings.                      *)
THEOREM SiteAnswer == SiteSpec => []SiteAnswersAgree
  <1>1. SiteInit => SiteCounted
    BY FS_EmptySet DEF SiteInit, SiteCounted, DomainsDiffer, NoRows
  <1>2. SiteInv /\ SiteCounted /\ [SiteNext]_siteVars => SiteCounted'
    BY DomainsStayDifferent, NavigationStaysFinite DEF SiteCounted
  <1> QED BY <1>1, <1>2, SiteAnswers, SiteInitInv, SiteNextKeeps, PTL DEF SiteSpec

-----------------------------------------------------------------------------
(* Jobs and queues.  That a worker which no other disturbs runs a job once a  *)
(* day needs what holds between the run and the write of the next one: it is  *)
(* this worker that has run the job, or the job is put off.                   *)

(* A worker has run j, and not yet written when it is to run next. *)
Doer(j) == \E w \in Workers : work[w].job = j /\ work[w].stage = "ran"

(* j is to run on a later day, and who found it due before is outdated. *)
PutOff(j) ==
  /\ jobs[j].next_run # NULL /\ jobs[j].next_run > today
  /\ \A w \in Workers : work[w].job = j /\ work[w].stage = "found" => work[w].stale

LoneWorker ==
  disturbed \/ \A j \in JobIds : /\ ranToday[j] <= 1
                                 /\ ranToday[j] = 1 /\ j \in DOMAIN jobs => Doer(j) \/ PutOff(j)

JobInv == SiteInv /\ JobsTypeOK /\ JobRefs /\ LoneWorker

LEMMA JobsEmpty == JobsInit => JobsTypeOK /\ JobRefs /\ LoneWorker
  <1> SUFFICES ASSUME JobsInit PROVE JobsTypeOK /\ JobRefs /\ LoneWorker
    OBVIOUS
  <1>1. IsTable(jobs, JobIds, Job) /\ IsTable(queues, QueueIds, Queue) /\ DOMAIN jobs = {} /\ DOMAIN queues = {}
    BY DEF JobsInit, IsTable, NoRows
  <1>2. today \in 0..MaxDay /\ work \in [Workers -> Work] /\ ranToday \in [JobIds -> 0..2] /\ disturbed \in BOOLEAN
    <2>1. Idle \in Work
      BY DEF Work
    <2>2. work \in [Workers -> Work] /\ ranToday \in [JobIds -> 0..2]
      BY <2>1 DEF JobsInit
    <2>3. today \in 0..MaxDay
      BY JobsAssumption DEF JobsInit
    <2>4. disturbed \in BOOLEAN
      BY DEF JobsInit
    <2> QED BY <2>2, <2>3, <2>4
  <1>3. JobRefs
    BY <1>1 DEF JobsInit, JobRefs, Idle
  <1>4. LoneWorker
    BY <1>1 DEF JobsInit, LoneWorker
  <1> QED BY <1>1, <1>2, <1>3, <1>4 DEF JobsTypeOK

LEMMA JobInitInv == SiteInit /\ JobsInit => JobInv
  BY JobsEmpty, SiteInitInv DEF JobInv

-----------------------------------------------------------------------------
(* A worker is idle, or at a job that is there. *)
LEMMA WorkerAt ==
  ASSUME JobInv, NEW w \in Workers
  PROVE  /\ work[w] = Idle <=> work[w].stage = "idle"
         /\ work[w] = Idle <=> work[w].job = NULL
         /\ work[w] # Idle => /\ work[w].job \in DOMAIN jobs /\ work[w].job \in JobIds
                              /\ work[w] = [job |-> work[w].job, stage |-> work[w].stage, stale |-> work[w].stale]
                              /\ work[w].stage \in {"found", "ran"} /\ work[w].stale \in BOOLEAN
  <1>1. work[w] \in Work /\ work[w].job \in DOMAIN jobs \cup {NULL}
    BY DEF JobInv, JobsTypeOK, JobRefs
  <1>2. CASE work[w] = Idle
    BY <1>2 DEF Idle
  <1>3. CASE work[w] # Idle
    <2>1. work[w] \in [job : JobIds, stage : {"found", "ran"}, stale : BOOLEAN]
      BY <1>1, <1>3 DEF Work
    <2>2. work[w].job \in JobIds /\ work[w].stage \in {"found", "ran"} /\ work[w].stale \in BOOLEAN
      BY <2>1
    <2>3. work[w] = [job |-> work[w].job, stage |-> work[w].stage, stale |-> work[w].stale]
      BY <2>1
    <2>4. work[w].job # NULL /\ work[w].stage # "idle"
      BY <2>2, JobsAssumption
    <2> QED BY <1>1, <1>3, <2>2, <2>3, <2>4
  <1> QED BY <1>2, <1>3

LEMMA SiteStays == ASSUME SiteInv, UNCHANGED siteVars PROVE SiteInv' /\ UNCHANGED domains
  BY DEF siteVars, SiteInv, SiteTypeOK, SiteRefs

LEMMA JobsTyped ==
  JobInv <=> /\ SiteInv /\ JobRefs /\ LoneWorker
             /\ IsTable(jobs, JobIds, Job) /\ IsTable(queues, QueueIds, Queue)
             /\ today \in 0..MaxDay /\ work \in [Workers -> Work]
             /\ ranToday \in [JobIds -> 0..2] /\ disturbed \in BOOLEAN
  BY DEF JobInv, JobsTypeOK

-----------------------------------------------------------------------------
(* Statements on jobs. *)

LEMMA JobWritten ==
  ASSUME JobInv, NEW j \in JobIds, NEW row \in Job, row.domain_id \in DOMAIN domains,
         \/ j \notin DOMAIN jobs /\ ranToday' = [ranToday EXCEPT ![j] = 0]
         \/ j \in DOMAIN jobs /\ row.next_run = jobs[j].next_run /\ UNCHANGED ranToday,
         Writes(jobs, jobs', j, row), UNCHANGED <<siteVars, queues, today, work, disturbed>>
  PROVE  JobInv'
  <1>1. SiteInv' /\ UNCHANGED domains
    BY SiteStays DEF JobInv
  <1>2. /\ IsTable(jobs', JobIds, Job)
        /\ DOMAIN jobs' = DOMAIN jobs \cup {j}
        /\ jobs'[j] = row
        /\ \A k \in DOMAIN jobs \ {j} : jobs'[k] = jobs[k]
    BY DEF JobInv, JobsTypeOK, IsTable, Insert, Writes
  <1>3. ranToday \in [JobIds -> 0..2] /\ ranToday' \in [JobIds -> 0..2]
    BY DEF JobInv, JobsTypeOK
  <1>4. JobRefs'
    BY <1>1, <1>2 DEF JobInv, JobRefs
  <1>5. LoneWorker'
    <2> SUFFICES ASSUME ~disturbed, NEW k \in JobIds
                 PROVE  ranToday'[k] <= 1 /\ (ranToday'[k] = 1 /\ k \in DOMAIN jobs' => Doer(k)' \/ PutOff(k)')
      BY DEF LoneWorker
    <2>1. ranToday[k] <= 1 /\ (ranToday[k] = 1 /\ k \in DOMAIN jobs => Doer(k) \/ PutOff(k))
      BY DEF JobInv, LoneWorker
    <2>2. CASE k \in DOMAIN jobs
      <3>1. jobs'[k].next_run = jobs[k].next_run /\ ranToday'[k] = ranToday[k]
        BY <1>2, <1>3, <2>2
      <3> QED BY <2>1, <2>2, <3>1 DEF Doer, PutOff
    <2>3. CASE k \notin DOMAIN jobs
      BY <1>2, <1>3, <2>1, <2>3
    <2> QED BY <2>2, <2>3
  <1> QED BY <1>1, <1>2, <1>3, <1>4, <1>5 DEF JobInv, JobsTypeOK

LEMMA CreateJobKeeps ==
  ASSUME JobInv, NEW j \in JobIds, NEW d \in DomainIds, NEW n \in Names, NEW sch \in {"daily", NULL}, NEW act \in Flag,
         CreateJob(j, d, n, sch, act)
  PROVE  JobInv'
  <1>1. PICK row \in Job : row = [domain_id |-> d, name |-> n, schedule |-> sch, is_active |-> act, next_run |-> NULL]
    BY DEF Job
  <1>2. Writes(jobs, jobs', j, row) /\ j \notin DOMAIN jobs
    BY <1>1 DEF CreateJob, Writes
  <1> QED BY <1>1, <1>2, JobWritten DEF CreateJob

LEMMA UpdateJobKeeps ==
  ASSUME JobInv, NEW j \in JobIds, NEW d \in DomainIds, NEW n \in Names, NEW sch \in {"daily", NULL}, NEW act \in Flag,
         UpdateJob(j, d, n, sch, act)
  PROVE  JobInv'
  <1>1. j \in DOMAIN jobs /\ jobs[j] \in Job
    BY DEF UpdateJob, JobsOf, JobInv, JobsTypeOK, IsTable
  <1>2. PICK row : row = [domain_id |-> d, name |-> n, schedule |-> sch, is_active |-> act, next_run |-> jobs[j].next_run]
    OBVIOUS
  <1>3. row \in Job /\ row.domain_id = d /\ row.next_run = jobs[j].next_run
    BY <1>1, <1>2 DEF Job
  <1>4. Writes(jobs, jobs', j, row) /\ UNCHANGED <<siteVars, queues, working>>
    BY <1>1, <1>2 DEF UpdateJob, Writes
  <1>5. d \in DOMAIN domains
    BY DEF UpdateJob, JobsOf, JobInv, JobRefs
  <1> QED BY <1>1, <1>3, <1>4, <1>5, JobWritten DEF working

LEMMA JobFieldWritten ==
  ASSUME JobInv, NEW j \in JobIds, NEW d \in DomainIds,
         \/ \E sch \in {"daily", NULL} : UpdateJobSchedule(j, d, sch)
         \/ \E act \in Flag : UpdateJobStatus(j, d, act)
  PROVE  JobInv'
  <1>1. j \in DOMAIN jobs /\ jobs[j] \in Job /\ jobs[j].domain_id \in DOMAIN domains
    BY DEF UpdateJobSchedule, UpdateJobStatus, JobsOf, JobInv, JobsTypeOK, IsTable, JobRefs
  <1>2. PICK row : /\ jobs' = [jobs EXCEPT ![j] = row]
                   /\ \/ \E sch \in {"daily", NULL} : row = [jobs[j] EXCEPT !.schedule = sch]
                      \/ \E act \in Flag : row = [jobs[j] EXCEPT !.is_active = act]
    BY DEF UpdateJobSchedule, UpdateJobStatus
  <1>3. row \in Job /\ row.domain_id = jobs[j].domain_id /\ row.next_run = jobs[j].next_run
    BY <1>1, <1>2 DEF Job
  <1>4. UNCHANGED <<siteVars, queues, working>>
    BY DEF UpdateJobSchedule, UpdateJobStatus
  <1>5. Writes(jobs, jobs', j, row)
    BY <1>1, <1>2 DEF Writes
  <1> QED BY <1>1, <1>3, <1>4, <1>5, JobWritten DEF working

(* Who is at a job that goes is idle again, the others and their jobs stay. *)
LEMMA JobsDropped ==
  ASSUME JobInv, NEW J, J \subseteq DOMAIN jobs, DropJobs(J), UNCHANGED <<today, ranToday, disturbed>>
  PROVE  /\ IsTable(jobs', JobIds, Job) /\ DOMAIN jobs' = DOMAIN jobs \ J
         /\ \A j \in DOMAIN jobs' : jobs'[j] = jobs[j]
         /\ work' \in [Workers -> Work] /\ \A w \in Workers : work'[w].job \in DOMAIN jobs' \cup {NULL}
         /\ LoneWorker'
  <1>1. /\ IsTable(jobs', JobIds, Job) /\ DOMAIN jobs' = DOMAIN jobs \ J
        /\ \A j \in DOMAIN jobs' : jobs'[j] = jobs[j]
    BY DEF DropJobs, JobInv, JobsTypeOK, IsTable, Without
  <1>2. \A w \in Workers : work'[w] = IF work[w].job \in J THEN Idle ELSE work[w]
    BY DEF DropJobs
  <1>3. Idle \in Work /\ Idle.job = NULL
    BY DEF Work, Idle
  <1>4. work' \in [Workers -> Work]
    <2>1. \A w \in Workers : work[w] \in Work
      BY DEF JobInv, JobsTypeOK
    <2> QED BY <1>3, <2>1 DEF DropJobs
  <1>5. \A w \in Workers : work'[w].job \in DOMAIN jobs' \cup {NULL}
    BY <1>1, <1>2, <1>3 DEF JobInv, JobRefs
  <1>6. LoneWorker'
    <2> SUFFICES ASSUME ~disturbed, NEW j \in JobIds
                 PROVE  ranToday[j] <= 1 /\ (ranToday[j] = 1 /\ j \in DOMAIN jobs' => Doer(j)' \/ PutOff(j)')
      BY DEF LoneWorker
    <2>1. ranToday[j] <= 1 /\ (ranToday[j] = 1 /\ j \in DOMAIN jobs => Doer(j) \/ PutOff(j))
      BY DEF JobInv, LoneWorker
    <2>2. SUFFICES ASSUME ranToday[j] = 1, j \in DOMAIN jobs' PROVE Doer(j)' \/ PutOff(j)'
      BY <2>1
    <2>3. j \in DOMAIN jobs /\ j \notin J /\ jobs'[j] = jobs[j] /\ j # NULL
      BY <1>1, <2>2, JobsAssumption
    <2>4. CASE Doer(j)
      BY <1>2, <2>3, <2>4 DEF Doer
    <2>5. CASE PutOff(j)
      <3>1. \A w \in Workers : work'[w].job = j => work'[w] = work[w]
        BY <1>2, <1>3, <2>3
      <3> QED BY <2>3, <2>5, <3>1 DEF PutOff
    <2> QED BY <2>1, <2>2, <2>3, <2>4, <2>5
  <1> QED BY <1>1, <1>4, <1>5, <1>6

LEMMA DeleteJobsKeeps ==
  ASSUME JobInv, NEW d \in DomainIds, DeleteJobsByDomain(d) \/ \E j \in JobIds : DeleteJob(j, d)
  PROVE  JobInv'
  <1>1. PICK J : J \subseteq DOMAIN jobs /\ DropJobs(J)
    BY DEF DeleteJobsByDomain, DeleteJob, JobsOf
  <1>2. UNCHANGED <<siteVars, queues, today, ranToday, disturbed>>
    BY DEF DeleteJobsByDomain, DeleteJob
  <1>3. SiteInv' /\ UNCHANGED domains
    BY <1>2, SiteStays DEF JobInv
  <1>4. /\ IsTable(jobs', JobIds, Job) /\ DOMAIN jobs' = DOMAIN jobs \ J
        /\ \A j \in DOMAIN jobs' : jobs'[j] = jobs[j]
        /\ work' \in [Workers -> Work] /\ \A w \in Workers : work'[w].job \in DOMAIN jobs' \cup {NULL}
        /\ LoneWorker'
    BY <1>1, <1>2, JobsDropped
  <1>5. JobRefs'
    BY <1>2, <1>3, <1>4 DEF JobInv, JobRefs
  <1> QED BY <1>2, <1>3, <1>4, <1>5 DEF JobInv, JobsTypeOK

(* A domain that goes takes its jobs and its queues along. *)
LEMMA DeleteWorkingDomainKeeps == ASSUME JobInv, NEW d \in DomainIds, DeleteWorkingDomain(d) PROVE JobInv'
  <1>1. SiteInv' /\ DOMAIN domains' = DOMAIN domains \ {d}
    BY DeleteDomainKeeps DEF DeleteWorkingDomain, DeleteDomain, Without, JobInv
  <1>2. UNCHANGED <<today, ranToday, disturbed>>
    BY DEF DeleteWorkingDomain
  <1>3. /\ IsTable(queues', QueueIds, Queue) /\ DOMAIN queues' = DOMAIN queues \ QueuesOf(d)
        /\ \A q \in DOMAIN queues' : queues'[q] = queues[q]
    BY DEF DeleteWorkingDomain, JobInv, JobsTypeOK, IsTable, Without
  <1>4. /\ IsTable(jobs', JobIds, Job) /\ DOMAIN jobs' = DOMAIN jobs \ JobsOf(d)
        /\ \A j \in DOMAIN jobs' : jobs'[j] = jobs[j]
        /\ work' \in [Workers -> Work] /\ \A w \in Workers : work'[w].job \in DOMAIN jobs' \cup {NULL}
        /\ LoneWorker'
    <2>1. JobsOf(d) \subseteq DOMAIN jobs /\ DropJobs(JobsOf(d))
      BY DEF DeleteWorkingDomain, JobsOf
    <2> QED BY <1>2, <2>1, JobsDropped
  <1>5. JobRefs'
    BY <1>1, <1>3, <1>4 DEF JobInv, JobRefs, JobsOf, QueuesOf
  <1> QED BY <1>1, <1>2, <1>3, <1>4, <1>5 DEF JobInv, JobsTypeOK

-----------------------------------------------------------------------------
(* Queues, and what happens around jobs and queues. *)

LEMMA AroundJobs ==
  ASSUME JobInv, SiteInv', DOMAIN domains \subseteq DOMAIN domains', UNCHANGED <<jobs, working>>,
         IsTable(queues', QueueIds, Queue), \A q \in DOMAIN queues' : queues'[q].domain_id \in DOMAIN domains'
  PROVE  JobInv'
  <1>1. JobRefs'
    BY DEF JobInv, JobRefs, working
  <1>2. LoneWorker'
    BY DEF JobInv, LoneWorker, Doer, PutOff, working
  <1> QED BY <1>1, <1>2 DEF JobInv, JobsTypeOK, working

LEMMA QueueWritten ==
  ASSUME JobInv, NEW q \in QueueIds, NEW d \in DomainIds, NEW n \in Names, NEW act \in Flag,
         CreateQueue(q, d, n, act) \/ UpdateQueue(q, d, n, act) \/ UpdateQueueStatus(q, d, act)
  PROVE  JobInv'
  <1>1. IsTable(queues, QueueIds, Queue) /\ \A r \in DOMAIN queues : queues[r].domain_id \in DOMAIN domains
    BY DEF JobInv, JobsTypeOK, JobRefs
  <1>2. UNCHANGED <<siteVars, jobs, working>>
    BY DEF CreateQueue, UpdateQueue, UpdateQueueStatus
  <1>3. PICK row \in Queue : row.domain_id \in DOMAIN domains /\ Writes(queues, queues', q, row)
    <2>1. CASE CreateQueue(q, d, n, act)
      BY <2>1 DEF CreateQueue, Queue, Writes
    <2>2. CASE UpdateQueue(q, d, n, act)
      BY <1>1, <2>2 DEF UpdateQueue, QueuesOf, Queue, Writes
    <2>3. CASE UpdateQueueStatus(q, d, act)
      <3>1. q \in DOMAIN queues /\ queues[q] \in Queue
        BY <1>1, <2>3 DEF UpdateQueueStatus, QueuesOf, IsTable
      <3>2. PICK row : row = [queues[q] EXCEPT !.is_active = act]
        OBVIOUS
      <3>3. row \in Queue /\ row.domain_id = queues[q].domain_id
        BY <3>1, <3>2 DEF Queue
      <3> QED BY <1>1, <2>3, <3>1, <3>2, <3>3 DEF UpdateQueueStatus, Writes
    <2> QED BY <2>1, <2>2, <2>3
  <1>4. /\ IsTable(queues', QueueIds, Queue)
        /\ DOMAIN queues' = DOMAIN queues \cup {q}
        /\ queues'[q] = row
        /\ \A r \in DOMAIN queues \ {q} : queues'[r] = queues[r]
    BY <1>1, <1>3 DEF IsTable, Insert, Writes
  <1>5. SiteInv' /\ UNCHANGED domains
    BY <1>2, SiteStays DEF JobInv
  <1> QED BY <1>1, <1>2, <1>3, <1>4, <1>5, AroundJobs

LEMMA QueuesDeleted ==
  ASSUME JobInv, NEW d \in DomainIds, DeleteQueuesByDomain(d) \/ \E q \in QueueIds : DeleteQueue(q, d)
  PROVE  JobInv'
  <1>1. PICK Q : queues' = Without(queues, Q)
    BY DEF DeleteQueuesByDomain, DeleteQueue
  <1>2. UNCHANGED <<siteVars, jobs, working>>
    BY DEF DeleteQueuesByDomain, DeleteQueue
  <1>3. /\ IsTable(queues', QueueIds, Queue) /\ DOMAIN queues' \subseteq DOMAIN queues
        /\ \A q \in DOMAIN queues' : queues'[q] = queues[q]
    BY <1>1 DEF JobInv, JobsTypeOK, IsTable, Without
  <1>4. SiteInv' /\ UNCHANGED domains
    BY <1>2, SiteStays DEF JobInv
  <1> QED BY <1>2, <1>3, <1>4, AroundJobs DEF JobInv, JobRefs

LEMMA SiteAroundKeeps ==
  ASSUME JobInv, SiteInv', DOMAIN domains \subseteq DOMAIN domains', UNCHANGED <<jobs, queues, working>>
  PROVE  JobInv'
  BY AroundJobs DEF JobInv, JobsTypeOK, JobRefs

LEMMA CreateWorkingDomainKeeps ==
  ASSUME JobInv, NEW d \in DomainIds, NEW n \in Names, CreateWorkingDomain(d, n)
  PROVE  JobInv'
  <1>1. SiteInv'
    BY WriteDomainKeeps, FlagsAreFlags DEF CreateWorkingDomain, JobInv
  <1>2. DOMAIN domains \subseteq DOMAIN domains'
    BY DEF CreateWorkingDomain, CreateDomain, Insert
  <1> QED BY <1>1, <1>2, SiteAroundKeeps DEF CreateWorkingDomain

-----------------------------------------------------------------------------
(* Workers. *)

LEMMA Working ==
  ASSUME JobInv, UNCHANGED <<siteVars, queues>>, IsTable(jobs', JobIds, Job), DOMAIN jobs' = DOMAIN jobs,
         \A j \in DOMAIN jobs : jobs'[j].domain_id = jobs[j].domain_id,
         today' \in 0..MaxDay, ranToday' \in [JobIds -> 0..2], disturbed' \in BOOLEAN, LoneWorker',
         work' \in [Workers -> Work], \A w \in Workers : work'[w].job \in DOMAIN jobs \cup {NULL}
  PROVE  JobInv'
  <1>1. SiteInv' /\ UNCHANGED domains
    BY SiteStays DEF JobInv
  <1>2. JobRefs'
    BY <1>1 DEF JobInv, JobRefs
  <1> QED BY <1>1, <1>2 DEF JobInv, JobsTypeOK

LEMMA FindDueKeeps == ASSUME JobInv, NEW w \in Workers, NEW d \in DomainIds, FindDue(w, d) PROVE JobInv'
  <1>1. PICK j \in GetJobsDueForExecution(d) : work' = [work EXCEPT ![w] = [job |-> j, stage |-> "found", stale |-> FALSE]]
    BY DEF FindDue
  <1>2. PICK at : at = [job |-> j, stage |-> "found", stale |-> FALSE]
    OBVIOUS
  <1>3. /\ j \in DOMAIN jobs /\ j \in JobIds
        /\ jobs[j].next_run = NULL \/ jobs[j].next_run <= today
    BY DEF GetJobsDueForExecution, JobsOf, JobInv, JobsTypeOK, IsTable
  <1>4. /\ UNCHANGED <<siteVars, jobs, queues, today, ranToday, disturbed>> /\ work[w] = Idle
        /\ work \in [Workers -> Work] /\ \A v \in Workers : work[v].job \in DOMAIN jobs \cup {NULL}
    BY DEF FindDue, JobInv, JobsTypeOK, JobRefs
  <1>5. at \in Work /\ at.job = j /\ at.stage = "found"
    BY <1>2, <1>3 DEF Work
  <1>6. work'[w] = at /\ \A v \in Workers \ {w} : work'[v] = work[v]
    BY <1>1, <1>2, <1>4
  <1>7. work' \in [Workers -> Work]
    BY <1>1, <1>2, <1>4, <1>5
  <1>8. \A v \in Workers : work'[v].job \in DOMAIN jobs \cup {NULL}
    BY <1>3, <1>4, <1>5, <1>6
  <1>9. LoneWorker'
    <2> SUFFICES ASSUME ~disturbed, NEW k \in JobIds
                 PROVE  ranToday[k] <= 1 /\ (ranToday[k] = 1 /\ k \in DOMAIN jobs => Doer(k)' \/ PutOff(k)')
      BY <1>4 DEF LoneWorker
    <2>1. ranToday[k] <= 1 /\ (ranToday[k] = 1 /\ k \in DOMAIN jobs => Doer(k) \/ PutOff(k))
      BY DEF JobInv, LoneWorker
    <2>2. CASE Doer(k)
      <3>1. PICK v \in Workers : work[v].job = k /\ work[v].stage = "ran"
        BY <2>2 DEF Doer
      <3>2. v # w
        BY <1>4, <3>1 DEF Idle
      <3> QED BY <1>6, <2>1, <3>1, <3>2 DEF Doer
    <2>3. CASE PutOff(k)
      <3>1. jobs[k].next_run # NULL /\ jobs[k].next_run > today
        BY <2>3 DEF PutOff
      <3>2. k # j
        <4>1. SUFFICES ASSUME k = j, jobs[j].next_run <= today PROVE FALSE
          BY <1>3, <3>1
        <4>2. jobs[j].next_run \in Nat /\ today \in Nat
          <5>1. jobs[j] \in Job /\ today \in 0..MaxDay
            BY <1>3 DEF JobInv, JobsTypeOK, IsTable
          <5>2. jobs[j].next_run \in Times
            BY <3>1, <4>1, <5>1 DEF Job
          <5> QED BY <5>1, <5>2, JobsAssumption DEF Times
        <4> QED BY <3>1, <4>1, <4>2
      <3>3. \A v \in Workers : work'[v].job = k => work'[v] = work[v]
        BY <1>5, <1>6, <3>2
      <3>4. PutOff(k)'
        BY <1>4, <2>3, <3>3 DEF PutOff
      <3> QED BY <2>1, <3>4
    <2> QED BY <2>1, <2>2, <2>3
  <1>10. /\ IsTable(jobs', JobIds, Job) /\ today' \in 0..MaxDay
         /\ ranToday' \in [JobIds -> 0..2] /\ disturbed' \in BOOLEAN
    BY <1>4 DEF JobInv, JobsTypeOK
  <1> QED BY <1>4, <1>7, <1>8, <1>9, <1>10, Working

(* A run that a former one of the day disturbs is one whose worker is outdated. *)
LEMMA RunKeeps == ASSUME JobInv, NEW w \in Workers, Run(w) PROVE JobInv'
  <1> DEFINE j == work[w].job
  <1>1. /\ work[w].stage = "found" /\ ranToday[j] < 2
        /\ ranToday' = [ranToday EXCEPT ![j] = ranToday[j] + 1]
        /\ work' = [work EXCEPT ![w].stage = "ran"] /\ UNCHANGED <<siteVars, jobs, queues, today>>
    BY DEF Run
  <1>2. /\ j \in DOMAIN jobs /\ j \in JobIds
        /\ work[w] = [job |-> work[w].job, stage |-> work[w].stage, stale |-> work[w].stale]
        /\ work[w].stale \in BOOLEAN
    BY <1>1, WorkerAt DEF Idle
  <1>3. /\ work \in [Workers -> Work] /\ \A v \in Workers : work[v].job \in DOMAIN jobs \cup {NULL}
        /\ ranToday \in [JobIds -> 0..2]
    BY DEF JobInv, JobsTypeOK, JobRefs
  <1>4. PICK at : at = [work[w] EXCEPT !.stage = "ran"]
    OBVIOUS
  <1>5. at \in Work /\ at.job = j /\ at.stage = "ran"
    BY <1>2, <1>4 DEF Work
  <1>6. work' = [work EXCEPT ![w] = at]
    BY <1>1, <1>4
  <1>7. work' \in [Workers -> Work] /\ work'[w] = at /\ \A v \in Workers \ {w} : work'[v] = work[v]
    BY <1>3, <1>5, <1>6
  <1>8. ranToday' \in [JobIds -> 0..2]
    <2>1. ranToday[j] + 1 \in 0..2
      BY <1>1, <1>2, <1>3
    <2> QED BY <1>1, <1>3, <2>1
  <1>9. disturbed' \in BOOLEAN
    BY DEF Run
  <1>10. LoneWorker'
    <2> SUFFICES ASSUME ~disturbed', NEW k \in JobIds
                 PROVE  ranToday'[k] <= 1 /\ (ranToday'[k] = 1 /\ k \in DOMAIN jobs => Doer(k)' \/ PutOff(k)')
      BY <1>1 DEF LoneWorker
    <2>1. ~disturbed /\ ~work[w].stale /\ \A v \in Workers : ~(work[v].job = j /\ work[v].stage = "ran")
      BY DEF Run
    <2>2. ranToday[k] <= 1 /\ (ranToday[k] = 1 /\ k \in DOMAIN jobs => Doer(k) \/ PutOff(k))
      BY <2>1 DEF JobInv, LoneWorker
    <2>3. CASE k = j
      <3>1. ~Doer(k)
        BY <2>1, <2>3 DEF Doer
      <3>2. ~PutOff(k)
        BY <1>1, <2>1, <2>3 DEF PutOff
      <3>3. ranToday[k] = 0
        BY <1>2, <1>3, <2>2, <2>3, <3>1, <3>2
      <3>4. ranToday'[k] = 1
        BY <1>1, <1>2, <1>3, <2>3, <3>3
      <3>5. Doer(k)'
        BY <1>5, <1>7, <2>3 DEF Doer
      <3> QED BY <3>4, <3>5
    <2>4. CASE k # j
      <3>1. ranToday'[k] = ranToday[k]
        BY <1>1, <1>3, <2>4
      <3>2. \A v \in Workers : work[v].job = k \/ work'[v].job = k => work'[v] = work[v]
        BY <1>5, <1>7, <2>4
      <3>3. CASE Doer(k)
        BY <2>2, <3>1, <3>2, <3>3 DEF Doer
      <3>4. CASE PutOff(k)
        BY <1>1, <2>2, <3>1, <3>2, <3>4 DEF PutOff
      <3> QED BY <2>2, <3>1, <3>3, <3>4
    <2> QED BY <2>3, <2>4
  <1>11. \A v \in Workers : work'[v].job \in DOMAIN jobs \cup {NULL}
    BY <1>2, <1>3, <1>5, <1>7
  <1>12. IsTable(jobs', JobIds, Job) /\ today' \in 0..MaxDay
    BY <1>1 DEF JobInv, JobsTypeOK
  <1> QED BY <1>1, <1>7, <1>8, <1>9, <1>10, <1>11, <1>12, Working

(* The worker goes, and who else is at the job is outdated. *)
LEMMA UpdateJobLastRunKeeps == ASSUME JobInv, NEW w \in Workers, UpdateJobLastRun(w) PROVE JobInv'
  <1> DEFINE j == work[w].job
  <1>1. /\ work[w].stage = "ran" /\ jobs' = [jobs EXCEPT ![j].next_run = today + 1]
        /\ work' = Outdated([work EXCEPT ![w] = Idle], j)
        /\ UNCHANGED <<siteVars, queues, today, ranToday, disturbed>>
    BY DEF UpdateJobLastRun
  <1>2. /\ j \in DOMAIN jobs /\ j \in JobIds /\ j # NULL
    BY <1>1, WorkerAt, JobsAssumption DEF Idle
  <1>3. /\ work \in [Workers -> Work] /\ \A v \in Workers : work[v].job \in DOMAIN jobs \cup {NULL}
        /\ today \in 0..MaxDay /\ jobs[j] \in Job
    BY <1>2 DEF JobInv, JobsTypeOK, JobRefs, IsTable
  <1>4. PICK row : row = [jobs[j] EXCEPT !.next_run = today + 1]
    OBVIOUS
  <1>5. row \in Job /\ row.domain_id = jobs[j].domain_id /\ row.next_run = today + 1
    <2>1. today + 1 \in Times
      BY <1>3, JobsAssumption DEF Times
    <2> QED BY <1>3, <1>4, <2>1 DEF Job
  <1>6. /\ IsTable(jobs', JobIds, Job) /\ DOMAIN jobs' = DOMAIN jobs /\ jobs'[j] = row
        /\ \A k \in DOMAIN jobs \ {j} : jobs'[k] = jobs[k]
    <2>1. jobs' = [jobs EXCEPT ![j] = row]
      BY <1>1, <1>4
    <2> QED BY <1>2, <1>5, <2>1 DEF JobInv, JobsTypeOK, IsTable
  <1>7. /\ work'[w] = Idle
        /\ \A v \in Workers \ {w} : work'[v] = IF work[v].job = j THEN [work[v] EXCEPT !.stale = TRUE] ELSE work[v]
    BY <1>2, <1>3, <1>1 DEF Outdated, Idle
  <1>8. \A v \in Workers : work'[v] \in Work
    <2> TAKE v \in Workers
    <2>1. CASE v = w
      BY <1>7, <2>1 DEF Work
    <2>2. CASE v # w /\ work[v].job # j
      BY <1>3, <1>7, <2>2
    <2>3. CASE v # w /\ work[v].job = j
      <3>1. work[v] \in [job : JobIds, stage : {"found", "ran"}, stale : BOOLEAN]
        BY <1>2, <1>3, <2>3 DEF Work, Idle
      <3>2. PICK at : at = [work[v] EXCEPT !.stale = TRUE]
        OBVIOUS
      <3>3. at \in Work
        BY <3>1, <3>2 DEF Work
      <3> QED BY <1>7, <2>3, <3>2, <3>3
    <2> QED BY <2>1, <2>2, <2>3
  <1>9. work' \in [Workers -> Work]
    BY <1>1, <1>8 DEF Outdated
  <1>10. \A v \in Workers \ {w} : /\ work'[v].job = work[v].job /\ work'[v].stage = work[v].stage
                                  /\ work'[v].stale <=> work[v].stale \/ work[v].job = j
    <2> TAKE v \in Workers \ {w}
    <2>1. CASE work[v].job = j
      <3>1. work[v] \in [job : JobIds, stage : {"found", "ran"}, stale : BOOLEAN]
        BY <1>2, <1>3, <2>1 DEF Work, Idle
      <3> QED BY <1>7, <2>1, <3>1
    <2>2. CASE work[v].job # j
      BY <1>7, <2>2
    <2> QED BY <2>1, <2>2
  <1>11. \A v \in Workers : work'[v].job \in DOMAIN jobs \cup {NULL}
    BY <1>3, <1>7, <1>10 DEF Idle
  <1>12. LoneWorker'
    <2> SUFFICES ASSUME ~disturbed, NEW k \in JobIds
                 PROVE  ranToday[k] <= 1 /\ (ranToday[k] = 1 /\ k \in DOMAIN jobs => Doer(k)' \/ PutOff(k)')
      BY <1>1, <1>6 DEF LoneWorker
    <2>1. ranToday[k] <= 1 /\ (ranToday[k] = 1 /\ k \in DOMAIN jobs => Doer(k) \/ PutOff(k))
      BY DEF JobInv, LoneWorker
    <2>2. CASE k = j
      <3>1. jobs'[k].next_run # NULL /\ jobs'[k].next_run > today
        <4>1. today + 1 \in Times /\ today + 1 > today
          BY <1>3, JobsAssumption DEF Times
        <4> QED BY <1>5, <1>6, <2>2, <4>1, JobsAssumption
      <3>2. \A v \in Workers : work'[v].job = k => work'[v].stale
        BY <1>2, <1>7, <1>10, <2>2 DEF Idle
      <3>3. PutOff(k)'
        BY <1>1, <3>1, <3>2 DEF PutOff
      <3> QED BY <2>1, <3>3
    <2>3. CASE k # j /\ Doer(k)
      <3>1. PICK v \in Workers : work[v].job = k /\ work[v].stage = "ran"
        BY <2>3 DEF Doer
      <3> QED BY <1>10, <2>1, <2>3, <3>1 DEF Doer
    <2>4. CASE k # j /\ PutOff(k) /\ k \in DOMAIN jobs
      <3>1. jobs'[k] = jobs[k]
        BY <1>6, <2>4
      <3>2. \A v \in Workers : work'[v].job = k /\ work'[v].stage = "found" => work'[v].stale
        BY <1>7, <1>10, <2>4 DEF PutOff, Idle
      <3>3. PutOff(k)'
        BY <1>1, <2>4, <3>1, <3>2 DEF PutOff
      <3> QED BY <2>1, <3>3
    <2> QED BY <2>1, <2>2, <2>3, <2>4
  <1>13. \A k \in DOMAIN jobs : jobs'[k].domain_id = jobs[k].domain_id
    BY <1>5, <1>6
  <1>14. today' \in 0..MaxDay /\ ranToday' \in [JobIds -> 0..2]
    BY <1>1 DEF JobInv, JobsTypeOK
  <1>15. disturbed' \in BOOLEAN
    BY <1>1 DEF JobInv, JobsTypeOK
  <1> QED BY <1>1, <1>6, <1>9, <1>11, <1>12, <1>13, <1>14, <1>15, Working

LEMMA DieKeeps == ASSUME JobInv, NEW w \in Workers, Die(w) PROVE JobInv'
  <1>1. work' = [work EXCEPT ![w] = Idle] /\ UNCHANGED <<siteVars, jobs, queues, today, ranToday>>
    BY DEF Die
  <1>2. work \in [Workers -> Work] /\ \A v \in Workers : work[v].job \in DOMAIN jobs \cup {NULL}
    BY DEF JobInv, JobsTypeOK, JobRefs
  <1>3. work' \in [Workers -> Work] /\ work'[w] = Idle /\ \A v \in Workers \ {w} : work'[v] = work[v]
    BY <1>1, <1>2 DEF Work
  <1>4. \A v \in Workers : work'[v].job \in DOMAIN jobs \cup {NULL}
    BY <1>2, <1>3 DEF Idle
  <1>5. disturbed' \in BOOLEAN
    BY DEF Die
  <1>6. LoneWorker'
    <2> SUFFICES ASSUME ~disturbed', NEW k \in JobIds
                 PROVE  ranToday[k] <= 1 /\ (ranToday[k] = 1 /\ k \in DOMAIN jobs => Doer(k)' \/ PutOff(k)')
      BY <1>1 DEF LoneWorker
    <2>1. ~disturbed /\ work[w].stage # "ran"
      BY DEF Die
    <2>2. ranToday[k] <= 1 /\ (ranToday[k] = 1 /\ k \in DOMAIN jobs => Doer(k) \/ PutOff(k))
      BY <2>1 DEF JobInv, LoneWorker
    <2>3. CASE Doer(k)
      <3>1. PICK v \in Workers : work[v].job = k /\ work[v].stage = "ran"
        BY <2>3 DEF Doer
      <3> QED BY <1>3, <2>1, <2>2, <3>1 DEF Doer
    <2>4. CASE PutOff(k)
      <3>1. \A v \in Workers : work'[v].stage = "found" => work'[v] = work[v]
        BY <1>3 DEF Idle
      <3> QED BY <1>1, <2>2, <2>4, <3>1 DEF PutOff
    <2> QED BY <2>2, <2>3, <2>4
  <1>7. IsTable(jobs', JobIds, Job) /\ today' \in 0..MaxDay /\ ranToday' \in [JobIds -> 0..2]
    BY <1>1 DEF JobInv, JobsTypeOK
  <1> QED BY <1>1, <1>3, <1>4, <1>5, <1>6, <1>7, Working

LEMMA NextDayKeeps == ASSUME JobInv, NextDay PROVE JobInv'
  <1>1. today' = today + 1 /\ today < MaxDay /\ UNCHANGED <<siteVars, jobs, queues, work, disturbed>>
    BY DEF NextDay
  <1>2. \A j \in JobIds : ranToday'[j] = 0
    BY DEF NextDay
  <1>3. ranToday' \in [JobIds -> 0..2]
    BY DEF NextDay
  <1>4. today' \in 0..MaxDay
    BY <1>1, JobsAssumption DEF JobInv, JobsTypeOK
  <1>5. IsTable(jobs', JobIds, Job) /\ work' \in [Workers -> Work] /\ \A w \in Workers : work'[w].job \in DOMAIN jobs \cup {NULL}
    BY <1>1 DEF JobInv, JobsTypeOK, JobRefs
  <1>6. disturbed' \in BOOLEAN
    BY <1>1 DEF JobInv, JobsTypeOK
  <1>7. LoneWorker'
    BY <1>2 DEF LoneWorker
  <1> QED BY <1>1, <1>3, <1>4, <1>5, <1>6, <1>7, Working

-----------------------------------------------------------------------------
LEMMA JobsNextKeeps == ASSUME JobInv, JobsNext PROVE JobInv'
  <1>1. CASE \E d \in DomainIds, n \in Names : CreateWorkingDomain(d, n) \/ DeleteWorkingDomain(d)
    BY <1>1, CreateWorkingDomainKeeps, DeleteWorkingDomainKeeps
  <1>2. CASE \E d \in DomainIds, n \in Names, sch \in {"daily", NULL}, j \in JobIds :
               \/ \E act \in Flags : CreateJob(j, d, n, sch, act) \/ UpdateJob(j, d, n, sch, act)
               \/ UpdateJobSchedule(j, d, sch) \/ DeleteJob(j, d)
    BY <1>2, CreateJobKeeps, UpdateJobKeeps, JobFieldWritten, DeleteJobsKeeps, FlagsAreFlags
  <1>3. CASE \E d \in DomainIds, j \in JobIds, act \in Flags : UpdateJobStatus(j, d, act)
    BY <1>3, JobFieldWritten, FlagsAreFlags
  <1>4. CASE \E d \in DomainIds : DeleteJobsByDomain(d) \/ \E w \in Workers : FindDue(w, d)
    BY <1>4, DeleteJobsKeeps, FindDueKeeps
  <1>5. CASE \E w \in Workers : Run(w) \/ UpdateJobLastRun(w) \/ Die(w)
    BY <1>5, RunKeeps, UpdateJobLastRunKeeps, DieKeeps
  <1>6. CASE NextDay
    BY <1>6, NextDayKeeps
  <1> QED BY <1>1, <1>2, <1>3, <1>4, <1>5, <1>6 DEF JobsNext

LEMMA QueuesNextKeeps == ASSUME JobInv, QueuesNext PROVE JobInv'
  <1>1. CASE \E d \in DomainIds, n \in Names : CreateWorkingDomain(d, n) \/ DeleteWorkingDomain(d)
    BY <1>1, CreateWorkingDomainKeeps, DeleteWorkingDomainKeeps
  <1>2. CASE \E q \in QueueIds, d \in DomainIds, n \in Names, act \in Flags :
               CreateQueue(q, d, n, act) \/ UpdateQueue(q, d, n, act) \/ UpdateQueueStatus(q, d, act) \/ DeleteQueue(q, d)
    BY <1>2, QueueWritten, QueuesDeleted, FlagsAreFlags
  <1>3. CASE \E d \in DomainIds : DeleteQueuesByDomain(d)
    BY <1>3, QueuesDeleted
  <1> QED BY <1>1, <1>2, <1>3 DEF QueuesNext

LEMMA SiteAroundJobsKeeps == ASSUME JobInv, SiteAround PROVE JobInv'
  <1>1. SiteInv'
    BY SiteNextKeeps DEF SiteAround, JobInv
  <1> QED BY <1>1, SiteAroundKeeps DEF SiteAround

LEMMA JobsStepKeeps == JobInv /\ [JobsNext \/ QueuesNext \/ SiteAround]_jobVars => JobInv'
  <1> SUFFICES ASSUME JobInv, [JobsNext \/ QueuesNext \/ SiteAround]_jobVars PROVE JobInv'
    OBVIOUS
  <1>1. CASE UNCHANGED jobVars
    <2>1. SiteInv' /\ UNCHANGED <<domains, jobs, queues, working>>
      BY <1>1, SiteStays DEF JobInv, jobVars, working
    <2> QED BY <2>1, SiteAroundKeeps
  <1> QED BY <1>1, JobsNextKeeps, QueuesNextKeeps, SiteAroundJobsKeeps

(* Domains have jobs, queues and workers in their types. *)
THEOREM JobsTypeCorrect == JobsSpec => []JobsTypeOK
  <1>1. SiteInit /\ JobsInit => JobInv
    BY JobInitInv
  <1>2. JobInv => JobsTypeOK
    BY DEF JobInv
  <1> QED BY <1>1, <1>2, JobsStepKeeps, PTL DEF JobsSpec

(* A job or a queue goes with its domain, and a worker with a job in hand *)
(* has one that is there: DeleteJob, DeleteDomain and the workers in      *)
(* between, in any order (jobs.sql.go, 027_system_configuration.sql).     *)
THEOREM JobReferences == JobsSpec => []JobRefs
  <1>1. SiteInit /\ JobsInit => JobInv
    BY JobInitInv
  <1>2. JobInv => JobRefs
    BY DEF JobInv
  <1> QED BY <1>1, <1>2, JobsStepKeeps, PTL DEF JobsSpec

(* However many workers take what GetJobsDueForExecution (jobs.sql:99)     *)
(* finds, and however a job is put off, disabled and enabled meanwhile, no *)
(* job runs twice in a day unless a worker ran one that another had run    *)
(* since it found it due, or died before UpdateJobLastRun.                 *)
THEOREM WorkersRunOnce == JobsSpec => []LoneWorkerOnce
  <1>1. SiteInit /\ JobsInit => JobInv
    BY JobInitInv
  <1>2. JobInv => LoneWorkerOnce
    BY DEF JobInv, LoneWorker, LoneWorkerOnce
  <1> QED BY <1>1, <1>2, JobsStepKeeps, PTL DEF JobsSpec

LEMMA JobAnswers == JobInv => JobAnswersAgree
  <1> SUFFICES ASSUME JobInv PROVE JobAnswersAgree
    OBVIOUS
  <1>1. /\ \A j \in DOMAIN jobs : jobs[j].domain_id \in DOMAIN domains
        /\ \A q \in DOMAIN queues : queues[q].domain_id \in DOMAIN domains
    BY DEF JobInv, JobRefs
  <1>2. ListAllJobs = DOMAIN jobs /\ ListAllQueues = DOMAIN queues
    BY <1>1 DEF ListAllJobs, ListAllQueues
  <1>3. /\ IsFiniteSet(DOMAIN jobs) /\ IsFiniteSet(DOMAIN queues)
    <2>1. DOMAIN jobs \in SUBSET JobIds /\ DOMAIN queues \in SUBSET QueueIds
      BY DEF JobInv, JobsTypeOK, IsTable
    <2> QED BY <2>1, JobsAssumption, FS_Subset
  <1>4. ListAllJobs = UNION {ListJobsByDomain(d) : d \in DOMAIN domains}
    <2>1. \A j : j \in ListAllJobs <=> \E d \in DOMAIN domains : j \in ListJobsByDomain(d)
      BY DEF ListAllJobs, ListJobsByDomain
    <2> QED BY <2>1
  <1>5. ListAllQueues = UNION {ListQueuesByDomain(d) : d \in DOMAIN domains}
    <2>1. \A q : q \in ListAllQueues <=> \E d \in DOMAIN domains : q \in ListQueuesByDomain(d)
      BY DEF ListAllQueues, ListQueuesByDomain
    <2> QED BY <2>1
  <1>6. \A d \in DomainIds : /\ SearchJobs(ListJobsByDomain(d)) = ListJobsByDomain(d)
                             /\ SearchQueues(ListQueuesByDomain(d)) = ListQueuesByDomain(d)
    BY <1>1 DEF SearchJobs, ListJobsByDomain, SearchQueues, ListQueuesByDomain
  <1>7. ASSUME NEW d \in DomainIds, NEW o \in DomainIds, d # o
        PROVE  /\ CountJobsByDomain(d) + CountJobsByDomain(o) <= Cardinality(ListAllJobs)
               /\ CountQueuesByDomain(d) + CountQueuesByDomain(o) <= Cardinality(ListAllQueues)
    <2>1. /\ JobsOf(d) \subseteq DOMAIN jobs /\ JobsOf(o) \subseteq DOMAIN jobs /\ JobsOf(d) \cap JobsOf(o) = {}
          /\ QueuesOf(d) \subseteq DOMAIN queues /\ QueuesOf(o) \subseteq DOMAIN queues /\ QueuesOf(d) \cap QueuesOf(o) = {}
      BY <1>7 DEF JobsOf, QueuesOf
    <2> QED BY <1>2, <1>3, ApartCount, <2>1 DEF CountJobsByDomain, CountQueuesByDomain
  <1> QED BY <1>4, <1>5, <1>6, <1>7 DEF JobAnswersAgree

(* The inner joins with domains lose no job and no queue, in the listings of    *)
(* all and in the searches, and what two domains count is no more than all      *)
(* list (jobs.sql.go, queues.sql.go), for any domains, jobs, queues and workers. *)
THEOREM JobAnswer == JobsSpec => []JobAnswersAgree
  BY JobAnswers, JobInitInv, JobsStepKeeps, PTL DEF JobsSpec

-----------------------------------------------------------------------------
(* Roles, permissions, grants, users and the caches: the references are       *)
(* inductive with the types.                                                   *)

AccessInv == ContactsTypeOK /\ AccessTypeOK /\ AccessRefs

LEMMA AccessInitInv == ContactsInit /\ AccessInit => AccessInv
  BY DEF ContactsInit, AccessInit, AccessInv, ContactsTypeOK, AccessTypeOK, AccessRefs, IsTable, NoRows

LEMMA RoleWritten ==
  ASSUME AccessInv, NEW r \in RoleIds, NEW row \in AclRole, Writes(acl_roles, acl_roles', r, row),
         UNCHANGED <<contacts, acls, acl_entity_roles, users, uf_match, cacheTables>>
  PROVE  AccessInv'
  <1>1. IsTable(acl_roles', RoleIds, AclRole) /\ DOMAIN acl_roles' = DOMAIN acl_roles \cup {r}
    BY DEF AccessInv, AccessTypeOK, IsTable, Insert, Writes
  <1>2. AccessRefs'
    BY <1>1 DEF AccessInv, AccessRefs, cacheTables
  <1> QED BY <1>1, <1>2 DEF AccessInv, ContactsTypeOK, AccessTypeOK, cacheTables

LEMMA RoleKeeps ==
  ASSUME AccessInv, NEW r \in RoleIds, NEW act \in Flag,
         \/ UpdateACLRole(r, act) \/ DeleteACLRole(r)
         \/ \E n \in RoleNames : CreateACLRole(r, n, act)
  PROVE  AccessInv'
  <1>1. CASE \E n \in RoleNames : CreateACLRole(r, n, act)
    <2>1. PICK n \in RoleNames : CreateACLRole(r, n, act)
      BY <1>1
    <2>2. PICK row \in AclRole : row = [name |-> n, is_active |-> act]
      BY DEF AclRole
    <2>3. Writes(acl_roles, acl_roles', r, row)
      BY <2>1, <2>2 DEF CreateACLRole, Writes
    <2> QED BY <2>1, <2>3, RoleWritten DEF CreateACLRole
  <1>2. ASSUME NEW f \in Flag, UpdateACLRole(r, f) PROVE AccessInv'
    <2>1. r \in DOMAIN acl_roles /\ acl_roles[r] \in AclRole
      BY <1>2 DEF UpdateACLRole, AccessInv, AccessTypeOK, IsTable
    <2>2. PICK row : row = [acl_roles[r] EXCEPT !.is_active = f]
      OBVIOUS
    <2>3. row \in AclRole
      BY <2>1, <2>2 DEF AclRole
    <2>4. Writes(acl_roles, acl_roles', r, row)
      BY <1>2, <2>1, <2>2 DEF UpdateACLRole, Writes
    <2> QED BY <1>2, <2>3, <2>4, RoleWritten DEF UpdateACLRole
  <1> QED BY <1>1, <1>2, FlagsAreFlags DEF DeleteACLRole

LEMMA AclWritten ==
  ASSUME AccessInv, NEW a \in AclIds, NEW row \in Acl, Writes(acls, acls', a, row),
         UNCHANGED <<contacts, acl_roles, acl_entity_roles, users, uf_match, cacheTables>>
  PROVE  AccessInv'
  <1>1. IsTable(acls', AclIds, Acl) /\ DOMAIN acls' = DOMAIN acls \cup {a}
    BY DEF AccessInv, AccessTypeOK, IsTable, Insert, Writes
  <1>2. AccessRefs'
    BY <1>1 DEF AccessInv, AccessRefs, cacheTables
  <1> QED BY <1>1, <1>2 DEF AccessInv, ContactsTypeOK, AccessTypeOK, cacheTables

LEMMA AclKeeps ==
  ASSUME AccessInv, NEW a \in AclIds, DeleteACL(a) \/ \E row \in Acl : CreateACL(a, row) \/ UpdateACL(a, row)
  PROVE  AccessInv'
  <1>1. CASE DeleteACL(a)
    <2>1. a \in DOMAIN acls /\ acls[a] \in Acl
      BY <1>1 DEF DeleteACL, AccessInv, AccessTypeOK, IsTable
    <2>2. PICK row : row = [acls[a] EXCEPT !.is_active = FALSE]
      OBVIOUS
    <2>3. row \in Acl
      BY <2>1, <2>2, FlagsAreFlags DEF Acl
    <2>4. Writes(acls, acls', a, row)
      BY <1>1, <2>1, <2>2 DEF DeleteACL, Writes
    <2> QED BY <1>1, <2>3, <2>4, AclWritten DEF DeleteACL
  <1>2. CASE \E row \in Acl : CreateACL(a, row) \/ UpdateACL(a, row)
    <2>1. PICK row \in Acl : CreateACL(a, row) \/ UpdateACL(a, row)
      BY <1>2
    <2>2. Writes(acls, acls', a, row)
      BY <2>1 DEF CreateACL, UpdateACL, Writes
    <2> QED BY <2>1, <2>2, AclWritten DEF CreateACL, UpdateACL
  <1> QED BY <1>1, <1>2

LEMMA GrantWritten ==
  ASSUME AccessInv, NEW g \in GrantIds, NEW row \in AclEntityRole, row.acl_role_id \in DOMAIN acl_roles,
         Writes(acl_entity_roles, acl_entity_roles', g, row),
         UNCHANGED <<contacts, acl_roles, acls, users, uf_match, cacheTables>>
  PROVE  AccessInv'
  <1>1. /\ IsTable(acl_entity_roles', GrantIds, AclEntityRole)
        /\ DOMAIN acl_entity_roles' = DOMAIN acl_entity_roles \cup {g}
        /\ acl_entity_roles'[g] = row
        /\ \A h \in DOMAIN acl_entity_roles \ {g} : acl_entity_roles'[h] = acl_entity_roles[h]
    BY DEF AccessInv, AccessTypeOK, IsTable, Insert, Writes
  <1>2. AccessRefs'
    BY <1>1 DEF AccessInv, AccessRefs, cacheTables
  <1> QED BY <1>1, <1>2 DEF AccessInv, ContactsTypeOK, AccessTypeOK, cacheTables

LEMMA GrantKeeps ==
  ASSUME AccessInv, NEW g \in GrantIds,
         \/ DeleteACLEntityRole(g) \/ \E act \in Flag : UpdateACLEntityRole(g, act)
         \/ \E r \in RoleIds, u \in DOMAIN users, act \in Flag : CreateACLEntityRole(g, r, u, act)
         \/ \E n \in RoleNames, u \in DOMAIN users : AssignUserToRole(g, n, u)
  PROVE  AccessInv'
  <1>1. ASSUME NEW f \in Flag, UpdateACLEntityRole(g, f) PROVE AccessInv'
    <2>1. /\ g \in DOMAIN acl_entity_roles /\ acl_entity_roles[g] \in AclEntityRole
          /\ acl_entity_roles[g].acl_role_id \in DOMAIN acl_roles
      BY <1>1 DEF UpdateACLEntityRole, AccessInv, AccessTypeOK, IsTable, AccessRefs
    <2>2. PICK row : row = [acl_entity_roles[g] EXCEPT !.is_active = f]
      OBVIOUS
    <2>3. row \in AclEntityRole /\ row.acl_role_id = acl_entity_roles[g].acl_role_id
      BY <2>1, <2>2 DEF AclEntityRole
    <2>4. Writes(acl_entity_roles, acl_entity_roles', g, row)
      BY <1>1, <2>1, <2>2 DEF UpdateACLEntityRole, Writes
    <2> QED BY <1>1, <2>1, <2>3, <2>4, GrantWritten DEF UpdateACLEntityRole
  <1>2. ASSUME NEW r, NEW u \in DOMAIN users, NEW act \in Flag, CreateACLEntityRole(g, r, u, act) PROVE AccessInv'
    <2>1. r \in RoleIds /\ u \in UserIds
      BY <1>2 DEF CreateACLEntityRole, AccessInv, AccessTypeOK, IsTable
    <2>2. PICK row \in AclEntityRole : row = [acl_role_id |-> r, entity_id |-> u, is_active |-> act]
      BY <2>1 DEF AclEntityRole
    <2>3. Writes(acl_entity_roles, acl_entity_roles', g, row) /\ row.acl_role_id \in DOMAIN acl_roles
      BY <1>2, <2>2 DEF CreateACLEntityRole, Writes
    <2> QED BY <1>2, <2>3, GrantWritten DEF CreateACLEntityRole
  <1> QED BY <1>1, <1>2, FlagsAreFlags DEF DeleteACLEntityRole, AssignUserToRole

(* What RemoveUserFromRole makes of the grants. *)
LEMMA GrantsEnded ==
  ASSUME AccessInv, NEW n, NEW u, RemoveUserFromRole(n, u)
  PROVE  /\ IsTable(acl_entity_roles', GrantIds, AclEntityRole) /\ DOMAIN acl_entity_roles' = DOMAIN acl_entity_roles
         /\ \A g \in DOMAIN acl_entity_roles :
              /\ acl_entity_roles'[g].acl_role_id = acl_entity_roles[g].acl_role_id
              /\ acl_entity_roles'[g].entity_id = acl_entity_roles[g].entity_id
              /\ g \in GrantsOf(u, n) => acl_entity_roles'[g].is_active = FALSE
              /\ g \notin GrantsOf(u, n) => acl_entity_roles'[g] = acl_entity_roles[g]
  <1>1. acl_entity_roles' = [g \in DOMAIN acl_entity_roles |->
          IF g \in GrantsOf(u, n) THEN [acl_entity_roles[g] EXCEPT !.is_active = FALSE] ELSE acl_entity_roles[g]]
    BY DEF RemoveUserFromRole
  <1>2. DOMAIN acl_entity_roles \subseteq GrantIds /\ \A g \in DOMAIN acl_entity_roles : acl_entity_roles[g] \in AclEntityRole
    BY DEF AccessInv, AccessTypeOK, IsTable
  <1>3. \A row \in AclEntityRole : LET ended == [row EXCEPT !.is_active = FALSE] IN
          /\ ended \in AclEntityRole /\ ended.acl_role_id = row.acl_role_id /\ ended.entity_id = row.entity_id
          /\ ended.is_active = FALSE
    BY FlagsAreFlags DEF AclEntityRole
  <1>4. \A g \in DOMAIN acl_entity_roles : acl_entity_roles'[g] \in AclEntityRole
    BY <1>1, <1>2, <1>3
  <1> QED BY <1>1, <1>2, <1>3, <1>4 DEF IsTable

LEMMA RemovalKeeps == ASSUME AccessInv, NEW n \in RoleNames, NEW u, RemoveUserFromRole(n, u) PROVE AccessInv'
  <1>1. /\ IsTable(acl_entity_roles', GrantIds, AclEntityRole) /\ DOMAIN acl_entity_roles' = DOMAIN acl_entity_roles
        /\ \A g \in DOMAIN acl_entity_roles : acl_entity_roles'[g].acl_role_id = acl_entity_roles[g].acl_role_id
    BY GrantsEnded
  <1>2. UNCHANGED <<contacts, acl_roles, acls, users, uf_match, acl_cache, acl_contact_cache>>
    BY DEF RemoveUserFromRole, cacheTables
  <1>3. AccessRefs'
    BY <1>1, <1>2 DEF AccessInv, AccessRefs
  <1> QED BY <1>1, <1>2, <1>3 DEF AccessInv, ContactsTypeOK, AccessTypeOK

LEMMA UserWritten ==
  ASSUME AccessInv, NEW u \in UserIds, NEW row \in User, Writes(users, users', u, row),
         \A v \in DOMAIN users \ {u} : users[v].username # row.username,
         UNCHANGED <<contacts, roleTables, uf_match, cacheTables>>
  PROVE  AccessInv'
  <1>1. /\ IsTable(users', UserIds, User) /\ DOMAIN users' = DOMAIN users \cup {u}
        /\ users'[u] = row /\ \A v \in DOMAIN users \ {u} : users'[v] = users[v]
    BY DEF AccessInv, AccessTypeOK, IsTable, Insert, Writes
  <1>2. AccessRefs'
    BY <1>1 DEF AccessInv, AccessRefs, cacheTables, roleTables
  <1> QED BY <1>1, <1>2 DEF AccessInv, ContactsTypeOK, AccessTypeOK, cacheTables, roleTables

LEMMA UserKeeps ==
  ASSUME AccessInv, NEW u \in UserIds, DeleteUser(u) \/ \E row \in User : CreateUser(u, row) \/ UpdateUser(u, row)
  PROVE  AccessInv'
  <1>1. CASE DeleteUser(u)
    <2>1. u \in DOMAIN users /\ users[u] \in User
      BY <1>1 DEF DeleteUser, AccessInv, AccessTypeOK, IsTable
    <2>2. PICK row : row = [users[u] EXCEPT !.is_active = FALSE]
      OBVIOUS
    <2>3. row \in User /\ row.username = users[u].username
      BY <2>1, <2>2, FlagsAreFlags DEF User
    <2>4. \A v \in DOMAIN users \ {u} : users[v].username # row.username
      BY <2>1, <2>3 DEF AccessInv, AccessRefs
    <2>5. Writes(users, users', u, row)
      BY <1>1, <2>1, <2>2 DEF DeleteUser, Writes
    <2> QED BY <1>1, <2>3, <2>4, <2>5, UserWritten DEF DeleteUser
  <1>2. CASE \E row \in User : CreateUser(u, row) \/ UpdateUser(u, row)
    <2>1. PICK row \in User : CreateUser(u, row) \/ UpdateUser(u, row)
      BY <1>2
    <2>2. Writes(users, users', u, row)
      BY <2>1 DEF CreateUser, UpdateUser, Writes
    <2>3. \A v \in DOMAIN users \ {u} : users[v].username # row.username
      BY <2>1 DEF CreateUser, UpdateUser
    <2> QED BY <2>1, <2>2, <2>3, UserWritten DEF CreateUser, UpdateUser
  <1> QED BY <1>1, <1>2

LEMMA MatchWritten ==
  ASSUME AccessInv, NEW m \in MatchIds, NEW row \in UfMatch, row.contact_id \in DOMAIN contacts \cup {NULL},
         Writes(uf_match, uf_match', m, row), UNCHANGED <<contacts, roleTables, users, cacheTables>>
  PROVE  AccessInv'
  <1>1. /\ IsTable(uf_match', MatchIds, UfMatch) /\ DOMAIN uf_match' = DOMAIN uf_match \cup {m}
        /\ uf_match'[m] = row /\ \A k \in DOMAIN uf_match \ {m} : uf_match'[k] = uf_match[k]
    BY DEF AccessInv, AccessTypeOK, IsTable, Insert, Writes
  <1>2. AccessRefs'
    BY <1>1 DEF AccessInv, AccessRefs, cacheTables, roleTables
  <1> QED BY <1>1, <1>2 DEF AccessInv, ContactsTypeOK, AccessTypeOK, cacheTables, roleTables

LEMMA MatchKeeps ==
  ASSUME AccessInv, NEW m \in MatchIds,
         \/ DeleteUFMatch(m)
         \/ \E c \in ContactIds \cup {NULL} : UpdateUFMatch(m, c) \/ \E u \in DOMAIN users : CreateUFMatch(m, u, c)
  PROVE  AccessInv'
  <1>1. CASE DeleteUFMatch(m)
    <2>1. /\ IsTable(uf_match', MatchIds, UfMatch) /\ DOMAIN uf_match' \subseteq DOMAIN uf_match
          /\ \A k \in DOMAIN uf_match' : uf_match'[k] = uf_match[k]
      BY <1>1 DEF DeleteUFMatch, AccessInv, AccessTypeOK, IsTable, Without
    <2>2. UNCHANGED <<contacts, acl_roles, acls, acl_entity_roles, users, acl_cache, acl_contact_cache>>
      BY <1>1 DEF DeleteUFMatch, roleTables, cacheTables
    <2>3. AccessRefs'
      BY <2>1, <2>2 DEF AccessInv, AccessRefs
    <2> QED BY <2>1, <2>2, <2>3 DEF AccessInv, ContactsTypeOK, AccessTypeOK
  <1>2. ASSUME NEW c \in ContactIds \cup {NULL}, UpdateUFMatch(m, c) PROVE AccessInv'
    <2>1. m \in DOMAIN uf_match /\ uf_match[m] \in UfMatch
      BY <1>2 DEF UpdateUFMatch, AccessInv, AccessTypeOK, IsTable
    <2>2. PICK row : row = [uf_match[m] EXCEPT !.contact_id = c]
      OBVIOUS
    <2>3. row \in UfMatch /\ row.contact_id = c
      BY <2>1, <2>2 DEF UfMatch
    <2>4. Writes(uf_match, uf_match', m, row)
      BY <1>2, <2>1, <2>2 DEF UpdateUFMatch, Writes
    <2> QED BY <1>2, <2>3, <2>4, MatchWritten DEF UpdateUFMatch
  <1>3. ASSUME NEW c \in ContactIds \cup {NULL}, NEW u \in DOMAIN users, CreateUFMatch(m, u, c) PROVE AccessInv'
    <2>1. u \in UserIds
      BY DEF AccessInv, AccessTypeOK, IsTable
    <2>2. PICK row \in UfMatch : row = [uf_id |-> u, contact_id |-> c]
      BY <2>1 DEF UfMatch
    <2>3. Writes(uf_match, uf_match', m, row) /\ row.contact_id = c
      BY <1>3, <2>2 DEF CreateUFMatch, Writes
    <2> QED BY <1>3, <2>3, MatchWritten DEF CreateUFMatch
  <1> QED BY <1>1, <1>2, <1>3

LEMMA CacheWritten ==
  ASSUME AccessInv, NEW k \in CacheIds,
         \/ \E c \in ContactIds \cup {NULL}, a \in AclIds : CreateACLCache(k, c, a)
         \/ \E u \in ContactIds \cup {NULL}, c \in ContactIds, op \in Operations : CreateACLContactCache(k, u, c, op)
  PROVE  AccessInv'
  <1>1. ASSUME NEW c \in ContactIds \cup {NULL}, NEW a \in AclIds, CreateACLCache(k, c, a) PROVE AccessInv'
    <2>1. PICK row \in AclCache : row = [contact_id |-> c, acl_id |-> a]
      BY DEF AclCache
    <2>2. /\ IsTable(acl_cache', CacheIds, AclCache) /\ DOMAIN acl_cache' = DOMAIN acl_cache \cup {k}
          /\ acl_cache'[k] = row /\ \A l \in DOMAIN acl_cache \ {k} : acl_cache'[l] = acl_cache[l]
      BY <1>1, <2>1 DEF CreateACLCache, AccessInv, AccessTypeOK, IsTable, Insert
    <2>3. UNCHANGED <<contacts, acl_roles, acls, acl_entity_roles, users, uf_match, acl_contact_cache>>
      BY <1>1 DEF CreateACLCache, roleTables
    <2>4. AccessRefs'
      BY <1>1, <2>1, <2>2, <2>3 DEF CreateACLCache, AccessInv, AccessRefs
    <2> QED BY <2>2, <2>3, <2>4 DEF AccessInv, ContactsTypeOK, AccessTypeOK
  <1>2. ASSUME NEW u \in ContactIds \cup {NULL}, NEW c \in ContactIds, NEW op \in Operations, CreateACLContactCache(k, u, c, op)
        PROVE  AccessInv'
    <2>1. PICK row \in AclContactCache : row = [user_id |-> u, contact_id |-> c, operation |-> op]
      BY DEF AclContactCache
    <2>2. /\ IsTable(acl_contact_cache', CacheIds, AclContactCache) /\ DOMAIN acl_contact_cache' = DOMAIN acl_contact_cache \cup {k}
          /\ acl_contact_cache'[k] = row
          /\ \A l \in DOMAIN acl_contact_cache \ {k} : acl_contact_cache'[l] = acl_contact_cache[l]
      BY <1>2, <2>1 DEF CreateACLContactCache, AccessInv, AccessTypeOK, IsTable, Insert
    <2>3. UNCHANGED <<contacts, acl_roles, acls, acl_entity_roles, users, uf_match, acl_cache>>
      BY <1>2 DEF CreateACLContactCache, roleTables
    <2>4. AccessRefs'
      BY <1>2, <2>1, <2>2, <2>3 DEF CreateACLContactCache, AccessInv, AccessRefs
    <2> QED BY <2>2, <2>3, <2>4 DEF AccessInv, ContactsTypeOK, AccessTypeOK
  <1> QED BY <1>1, <1>2

(* Rows of the caches and matches of contacts go. *)
LEMMA CachesLeft ==
  ASSUME AccessInv, ContactsTypeOK', NEW M, NEW K, NEW L, UNCHANGED <<roleTables, users>>,
         uf_match' = Without(uf_match, M), acl_cache' = Without(acl_cache, K),
         acl_contact_cache' = Without(acl_contact_cache, L),
         \A m \in DOMAIN uf_match \ M : uf_match[m].contact_id \in DOMAIN contacts' \cup {NULL},
         \A k \in DOMAIN acl_cache \ K : acl_cache[k].contact_id \in DOMAIN contacts' \cup {NULL},
         \A k \in DOMAIN acl_contact_cache \ L :
           {acl_contact_cache[k].user_id, acl_contact_cache[k].contact_id} \subseteq DOMAIN contacts' \cup {NULL}
  PROVE  AccessInv'
  <1>1. /\ IsTable(uf_match', MatchIds, UfMatch) /\ DOMAIN uf_match' = DOMAIN uf_match \ M
        /\ \A m \in DOMAIN uf_match' : uf_match'[m] = uf_match[m]
    BY DEF AccessInv, AccessTypeOK, IsTable, Without
  <1>2. /\ IsTable(acl_cache', CacheIds, AclCache) /\ DOMAIN acl_cache' = DOMAIN acl_cache \ K
        /\ \A k \in DOMAIN acl_cache' : acl_cache'[k] = acl_cache[k]
    BY DEF AccessInv, AccessTypeOK, IsTable, Without
  <1>3. /\ IsTable(acl_contact_cache', CacheIds, AclContactCache) /\ DOMAIN acl_contact_cache' = DOMAIN acl_contact_cache \ L
        /\ \A k \in DOMAIN acl_contact_cache' : acl_contact_cache'[k] = acl_contact_cache[k]
    BY DEF AccessInv, AccessTypeOK, IsTable, Without
  <1>4. AccessRefs'
    BY <1>1, <1>2, <1>3 DEF AccessInv, AccessRefs, roleTables
  <1> QED BY <1>1, <1>2, <1>3, <1>4 DEF AccessInv, AccessTypeOK, roleTables

LEMMA NothingDropped == ASSUME AccessInv PROVE /\ uf_match = Without(uf_match, {}) /\ acl_cache = Without(acl_cache, {})
                                               /\ acl_contact_cache = Without(acl_contact_cache, {})
  BY DEF AccessInv, AccessTypeOK, IsTable, Without

LEMMA CacheDropped ==
  ASSUME AccessInv,
         \/ \E c \in ContactIds : DeleteACLCache(c)
         \/ \E c \in ContactIds, op \in Operations : DeleteACLContactCache(c, op) \/ DeleteACLContactCacheByContact(c, op)
  PROVE  AccessInv'
  <1>1. PICK K, L : /\ acl_cache' = Without(acl_cache, K) /\ acl_contact_cache' = Without(acl_contact_cache, L)
                    /\ UNCHANGED <<contacts, roleTables, users, uf_match>>
    BY NothingDropped DEF DeleteACLCache, DeleteACLContactCache, DeleteACLContactCacheByContact
  <1>2. ContactsTypeOK' /\ uf_match' = Without(uf_match, {})
    BY <1>1, NothingDropped DEF AccessInv, ContactsTypeOK
  <1>3. /\ \A m \in DOMAIN uf_match : uf_match[m].contact_id \in DOMAIN contacts \cup {NULL}
        /\ \A k \in DOMAIN acl_cache : acl_cache[k].contact_id \in DOMAIN contacts \cup {NULL}
        /\ \A k \in DOMAIN acl_contact_cache :
             {acl_contact_cache[k].user_id, acl_contact_cache[k].contact_id} \subseteq DOMAIN contacts \cup {NULL}
    BY DEF AccessInv, AccessRefs
  <1> QED BY <1>1, <1>2, <1>3, CachesLeft

LEMMA MatchedContactKeeps ==
  ASSUME AccessInv, NEW c \in ContactIds, CreateMatchedContact(c) \/ DeleteMatchedContact(c)
  PROVE  AccessInv'
  <1>1. /\ \A m \in DOMAIN uf_match : uf_match[m].contact_id \in DOMAIN contacts \cup {NULL}
        /\ \A k \in DOMAIN acl_cache : acl_cache[k].contact_id \in DOMAIN contacts \cup {NULL}
        /\ \A k \in DOMAIN acl_contact_cache :
             {acl_contact_cache[k].user_id, acl_contact_cache[k].contact_id} \subseteq DOMAIN contacts \cup {NULL}
    BY DEF AccessInv, AccessRefs
  <1>2. CASE CreateMatchedContact(c)
    <2>1. ContactsTypeOK' /\ DOMAIN contacts \subseteq DOMAIN contacts'
      BY <1>2, ActorCreated DEF CreateMatchedContact, AccessInv
    <2>2. UNCHANGED <<roleTables, users, uf_match, acl_cache, acl_contact_cache>>
      BY <1>2 DEF CreateMatchedContact, cacheTables
    <2>3. AccessRefs'
      BY <2>1, <2>2 DEF AccessInv, AccessRefs, roleTables
    <2> QED BY <2>1, <2>2, <2>3 DEF AccessInv, AccessTypeOK, roleTables
  <1>3. CASE DeleteMatchedContact(c)
    <2>1. ContactsTypeOK' /\ DOMAIN contacts' = DOMAIN contacts \ {c}
      BY <1>3, ContactDeleted DEF DeleteMatchedContact, AccessInv
    <2>2. PICK M : M = {m \in DOMAIN uf_match : uf_match[m].contact_id = c}
      OBVIOUS
    <2>3. PICK K : K = GetACLCache(c)
      OBVIOUS
    <2>4. PICK L : L = {k \in DOMAIN acl_contact_cache : c \in {acl_contact_cache[k].user_id, acl_contact_cache[k].contact_id}}
      OBVIOUS
    <2>5. \A m \in DOMAIN uf_match \ M : uf_match[m].contact_id \in DOMAIN contacts' \cup {NULL}
      BY <1>1, <2>1, <2>2
    <2>6. \A k \in DOMAIN acl_cache \ K : acl_cache[k].contact_id \in DOMAIN contacts' \cup {NULL}
      BY <1>1, <2>1, <2>3 DEF GetACLCache, Eq
    <2>7. \A k \in DOMAIN acl_contact_cache \ L :
            {acl_contact_cache[k].user_id, acl_contact_cache[k].contact_id} \subseteq DOMAIN contacts' \cup {NULL}
      BY <1>1, <2>1, <2>4
    <2> QED BY <1>3, <2>1, <2>2, <2>3, <2>4, <2>5, <2>6, <2>7, CachesLeft DEF DeleteMatchedContact
  <1> QED BY <1>2, <1>3

LEMMA AccessNextKeeps == ASSUME AccessInv, AccessNext PROVE AccessInv'
  <1>1. \A r \in RoleIds, op \in Operations, o \in Objects \cup {NULL}, dn \in BOOLEAN :
          SomeAcl(r, op, o) \in Acl /\ [SomeAcl(r, op, o) EXCEPT !.deny = dn] \in Acl
    BY FlagsAreFlags DEF SomeAcl, Acl
  <1>2. CASE \E a \in AclIds : \/ DeleteACL(a)
                               \/ \E r \in RoleIds, op \in Operations, o \in Objects \cup {NULL} :
                                    \/ CreateACL(a, SomeAcl(r, op, o))
                                    \/ \E dn \in BOOLEAN : UpdateACL(a, [SomeAcl(r, op, o) EXCEPT !.deny = dn])
    BY <1>1, <1>2, AclKeeps
  <1>3. \A n \in UserNames : SomeUser(n) \in User
    BY FlagsAreFlags DEF SomeUser, User
  <1> QED BY <1>2, <1>3, RoleKeeps, GrantKeeps, RemovalKeeps, UserKeeps, FlagsAreFlags DEF AccessNext

LEMMA UsersNextKeeps == ASSUME AccessInv, UsersNext PROVE AccessInv'
  <1>1. ASSUME NEW u \in UserIds, NEW n \in UserNames, NEW act \in Flags, NEW adm \in Flags, NEW row,
               row = [username |-> n, is_active |-> act, is_admin |-> adm], CreateUser(u, row) \/ UpdateUser(u, row)
        PROVE  AccessInv'
    <2>1. row \in User
      BY <1>1, FlagsAreFlags DEF User
    <2> QED BY <1>1, <2>1, UserKeeps
  <1> QED BY <1>1, UserKeeps, MatchKeeps, MatchedContactKeeps DEF UsersNext

LEMMA AclCacheNextKeeps == ASSUME AccessInv, AclCacheNext PROVE AccessInv'
  <1>1. ASSUME NEW a \in AclIds, NEW r \in RoleIds, NEW op \in Operations, CreateACL(a, SomeAcl(r, op, NULL)) PROVE AccessInv'
    <2>1. SomeAcl(r, op, NULL) \in Acl
      BY FlagsAreFlags DEF SomeAcl, Acl
    <2> QED BY <1>1, <2>1, AclKeeps
  <1> QED BY <1>1, MatchedContactKeeps, CacheDropped, CacheWritten DEF AclCacheNext

LEMMA AccessStepKeeps == AccessInv /\ [AccessNext \/ UsersNext \/ AclCacheNext]_accessVars => AccessInv'
  <1>1. AccessInv /\ UNCHANGED accessVars => AccessInv'
    BY DEF accessVars, roleTables, cacheTables, AccessInv, ContactsTypeOK, AccessTypeOK, AccessRefs
  <1> QED BY <1>1, AccessNextKeeps, UsersNextKeeps, AclCacheNextKeeps

(* Roles, permissions, grants, users, matches and both caches keep rows of *)
(* their types (003_acls.sql, 004_users.sql, 001_utilities.sql).           *)
THEOREM AccessTypeCorrect == AccessSpec => []AccessTypeOK
  <1>1. AccessInv => AccessTypeOK
    BY DEF AccessInv
  <1> QED BY <1>1, AccessInitInv, AccessStepKeeps, PTL DEF AccessSpec

(* Grants refer to roles, cached permissions to permissions and contacts,  *)
(* matches to contacts that are there, whichever contact is deleted, and a *)
(* username is one user's (acls.sql.go, users.sql.go).                     *)
THEOREM AccessReferences == AccessSpec => []AccessRefs
  <1>1. AccessInv => AccessRefs
    BY DEF AccessInv
  <1> QED BY <1>1, AccessInitInv, AccessStepKeeps, PTL DEF AccessSpec

(* The answers about permissions rest on two facts more: a name is one role's, *)
(* active or not, and there are finitely many permissions to count.            *)
RolesDiffer == \A q, r \in DOMAIN acl_roles : acl_roles[q].name = acl_roles[r].name => q = r
AccessCounted == RolesDiffer /\ IsFiniteSet(DOMAIN acls)

LEMMA RolesStayDifferent ==
  ASSUME AccessInv, RolesDiffer, NEW r \in RoleIds, NEW act,
         UpdateACLRole(r, act) \/ DeleteACLRole(r) \/ \E n \in RoleNames : CreateACLRole(r, n, act)
  PROVE  RolesDiffer' /\ acls' = acls
  <1>1. ASSUME NEW n \in RoleNames, CreateACLRole(r, n, act) PROVE RolesDiffer' /\ acls' = acls
    <2>1. PICK row : row = [name |-> n, is_active |-> act]
      OBVIOUS
    <2>2. Writes(acl_roles, acl_roles', r, row)
      BY <1>1, <2>1 DEF CreateACLRole, Writes
    <2>3. /\ DOMAIN acl_roles' = DOMAIN acl_roles \cup {r} /\ acl_roles'[r] = row
          /\ \A q \in DOMAIN acl_roles \ {r} : acl_roles'[q] = acl_roles[q]
      BY <2>2 DEF AccessInv, AccessTypeOK, IsTable, Insert, Writes
    <2>4. /\ row.name = n /\ \A q \in DOMAIN acl_roles : acl_roles[q].name # n
          /\ acls' = acls
      BY <1>1, <2>1 DEF CreateACLRole
    <2> QED BY <2>3, <2>4 DEF RolesDiffer
  <1>2. ASSUME NEW f, UpdateACLRole(r, f) PROVE RolesDiffer' /\ acls' = acls
    <2>1. r \in DOMAIN acl_roles /\ acl_roles[r] \in AclRole /\ acls' = acls
      BY <1>2 DEF UpdateACLRole, AccessInv, AccessTypeOK, IsTable
    <2>2. PICK row : row = [acl_roles[r] EXCEPT !.is_active = f]
      OBVIOUS
    <2>3. row.name = acl_roles[r].name
      BY <2>1, <2>2 DEF AclRole
    <2>4. /\ DOMAIN acl_roles' = DOMAIN acl_roles /\ acl_roles'[r] = row
          /\ \A q \in DOMAIN acl_roles \ {r} : acl_roles'[q] = acl_roles[q]
      BY <1>2, <2>1, <2>2 DEF UpdateACLRole
    <2> QED BY <2>1, <2>3, <2>4 DEF RolesDiffer
  <1> QED BY <1>1, <1>2 DEF DeleteACLRole

LEMMA AclsStayFinite ==
  ASSUME AccessInv, IsFiniteSet(DOMAIN acls), NEW a,
         DeleteACL(a) \/ \E row : CreateACL(a, row) \/ UpdateACL(a, row)
  PROVE  IsFiniteSet(DOMAIN acls') /\ acl_roles' = acl_roles
  <1>1. DOMAIN acls' \subseteq DOMAIN acls \cup {a}
    <2>1. ASSUME NEW row, CreateACL(a, row) PROVE DOMAIN acls' \subseteq DOMAIN acls \cup {a}
      BY <2>1 DEF CreateACL, Insert
    <2>2. CASE DeleteACL(a) \/ \E row : UpdateACL(a, row)
      BY <2>2 DEF DeleteACL, UpdateACL, AccessInv, AccessTypeOK, IsTable
    <2> QED BY <2>1, <2>2
  <1>2. acl_roles' = acl_roles
    BY DEF DeleteACL, CreateACL, UpdateACL
  <1> QED BY <1>1, <1>2, FS_AddElement, FS_Subset

LEMMA AccessStaysCounted ==
  AccessInv /\ AccessCounted /\ [AccessNext \/ UsersNext \/ AclCacheNext]_accessVars => AccessCounted'
  <1> SUFFICES ASSUME AccessInv, AccessCounted, [AccessNext \/ UsersNext \/ AclCacheNext]_accessVars
               PROVE  AccessCounted'
    OBVIOUS
  <1>1. ASSUME acl_roles' = acl_roles, acls' = acls PROVE AccessCounted'
    BY <1>1 DEF AccessCounted, RolesDiffer
  <1>2. ASSUME NEW a, DeleteACL(a) \/ \E row : CreateACL(a, row) \/ UpdateACL(a, row) PROVE AccessCounted'
    BY <1>2, AclsStayFinite DEF AccessCounted, RolesDiffer
  <1>3. ASSUME NEW r \in RoleIds, NEW act, UpdateACLRole(r, act) \/ DeleteACLRole(r) \/ \E n \in RoleNames : CreateACLRole(r, n, act)
        PROVE  AccessCounted'
    BY <1>3, RolesStayDifferent DEF AccessCounted
  <1>4. ASSUME NEW g, NEW r, NEW u, NEW act, CreateACLEntityRole(g, r, u, act) \/ UpdateACLEntityRole(g, act)
        PROVE  AccessCounted'
    BY <1>1, <1>4 DEF CreateACLEntityRole, UpdateACLEntityRole
  <1>5. ASSUME NEW n, NEW u, RemoveUserFromRole(n, u) PROVE AccessCounted'
    BY <1>1, <1>5 DEF RemoveUserFromRole
  <1>6. ASSUME NEW u, NEW row, DeleteUser(u) \/ CreateUser(u, row) \/ UpdateUser(u, row) PROVE AccessCounted'
    BY <1>1, <1>6 DEF DeleteUser, CreateUser, UpdateUser, roleTables
  <1>7. ASSUME NEW c, CreateMatchedContact(c) \/ DeleteMatchedContact(c) \/ DeleteACLCache(c) PROVE AccessCounted'
    BY <1>1, <1>7 DEF CreateMatchedContact, DeleteMatchedContact, DeleteACLCache, roleTables
  <1>8. CASE AccessNext
    <2>1. CASE \E r \in RoleIds : \/ DeleteACLRole(r)
                                  \/ \E act \in Flags : UpdateACLRole(r, act) \/ \E n \in RoleNames : CreateACLRole(r, n, act)
      BY <1>3, <2>1
    <2>2. CASE \E a \in AclIds : \/ DeleteACL(a)
                                 \/ \E r \in RoleIds, op \in Operations, o \in Objects \cup {NULL} :
                                      \/ CreateACL(a, SomeAcl(r, op, o))
                                      \/ \E dn \in BOOLEAN : UpdateACL(a, [SomeAcl(r, op, o) EXCEPT !.deny = dn])
      BY <1>2, <2>2
    <2>3. CASE \/ \E g \in GrantIds, u \in DOMAIN users :
                    \/ \E n \in RoleNames : AssignUserToRole(g, n, u)
                    \/ \E r \in RoleIds : CreateACLEntityRole(g, r, u, NULL)
               \/ \E g \in GrantIds : DeleteACLEntityRole(g) \/ \E act \in Flags : UpdateACLEntityRole(g, act)
      BY <1>4, <2>3 DEF AssignUserToRole, DeleteACLEntityRole
    <2> QED BY <1>5, <1>6, <1>8, <2>1, <2>2, <2>3 DEF AccessNext
  <1>9. CASE UsersNext
    <2>1. ASSUME NEW m, NEW u, NEW c, DeleteUFMatch(m) \/ UpdateUFMatch(m, c) \/ CreateUFMatch(m, u, c) PROVE AccessCounted'
      BY <1>1, <2>1 DEF DeleteUFMatch, UpdateUFMatch, CreateUFMatch, roleTables
    <2> QED BY <1>6, <1>7, <1>9, <2>1 DEF UsersNext
  <1>10. CASE AclCacheNext
    <2>1. ASSUME NEW k, NEW c, NEW a, CreateACLCache(k, c, a) PROVE AccessCounted'
      BY <1>1, <2>1 DEF CreateACLCache, roleTables
    <2>2. ASSUME NEW k, NEW u, NEW c, NEW op, CreateACLContactCache(k, u, c, op) PROVE AccessCounted'
      BY <1>1, <2>2 DEF CreateACLContactCache, roleTables
    <2>3. ASSUME NEW c, NEW op, DeleteACLContactCache(c, op) \/ DeleteACLContactCacheByContact(c, op) PROVE AccessCounted'
      BY <1>1, <2>3 DEF DeleteACLContactCache, DeleteACLContactCacheByContact, roleTables
    <2> QED BY <1>2, <1>7, <1>10, <2>1, <2>2, <2>3 DEF AclCacheNext
  <1>11. CASE UNCHANGED accessVars
    BY <1>1, <1>11 DEF accessVars, roleTables
  <1> QED BY <1>8, <1>9, <1>10, <1>11

(* No group of a summary counts more objects than there are, and a summary is *)
(* empty only of no permissions.                                              *)
LEMMA SummaryBounded ==
  ASSUME AccessInv, NEW A, A \subseteq DOMAIN acls
  PROVE  /\ \A s \in Summary(A) : s.object_count <= Cardinality(Objects)
         /\ Summary(A) = {} <=> A = {}
  <1> DEFINE Same(a) == {b \in A : acls[b].operation = acls[a].operation /\ acls[b].deny = acls[a].deny}
             Of(a) == {acls[b].object_id : b \in Same(a)} \ {NULL}
             Group(a) == [operation |-> acls[a].operation, deny |-> acls[a].deny, object_count |-> Cardinality(Of(a))]
  <1>1. Summary(A) = {Group(a) : a \in A}
    BY DEF Summary
  <1>2. ASSUME NEW a \in A PROVE Group(a).object_count <= Cardinality(Objects)
    <2>1. \A b \in A : acls[b].object_id \in Objects \cup {NULL}
      BY DEF AccessInv, AccessTypeOK, IsTable, Acl
    <2>2. Of(a) \subseteq Objects
      BY <2>1
    <2>3. Group(a).object_count = Cardinality(Of(a))
      OBVIOUS
    <2> HIDE DEF Of, Group
    <2> QED BY <2>2, <2>3, FS_Subset, ObjectsAssumption
  <1> HIDE DEF Group
  <1> QED BY <1>1, <1>2

LEMMA PermissionAnswers == AccessInv /\ AccessCounted => PermissionAnswersAgree
  <1> SUFFICES ASSUME AccessInv, AccessCounted PROVE PermissionAnswersAgree
    OBVIOUS
  <1>1. ASSUME NEW op \in Operations, NEW o \in Objects, NEW t \in GetUsersByPermission(op, o)
        PROVE  <<t[3], t[2]>> \in GetUserPermissions(t[1]) /\ t[3] \in ListACLsByOperation(op) /\ GetUser(t[1]) # {}
    <2>1. /\ t[1] \in DOMAIN users /\ t[2] \in DOMAIN acl_entity_roles /\ t[3] \in DOMAIN acls
          /\ users[t[1]].is_active = TRUE /\ acl_entity_roles[t[2]].is_active = TRUE /\ acls[t[3]].is_active = TRUE
          /\ acl_entity_roles[t[2]].entity_id = t[1] /\ acls[t[3]].entity_id = acl_entity_roles[t[2]].acl_role_id
          /\ acls[t[3]].operation = op
      BY <1>1 DEF GetUsersByPermission
    <2> QED BY <2>1 DEF GetUserPermissions, ListACLsByOperation, GetUser
  <1>2. ASSUME NEW u \in DOMAIN users
        PROVE  /\ {acl_entity_roles[g].acl_role_id : g \in ListACLEntityRolesByEntity(u)} \cap ListACLRoles
                    = {p[1] : p \in GetUserRoles(u)}
               /\ {p[1] : p \in GetUserPermissions(u)}
                    = UNION {ListACLsByRole(acl_entity_roles[g].acl_role_id) : g \in ListACLEntityRolesByEntity(u)}
               /\ GetUserPermissionMatrix(u) = GetUserPermissions(u)
               /\ \A s \in GetUserPermissionSummary(u) : s.object_count <= Cardinality(Objects)
               /\ GetUserPermissionSummaryByType(u) = GetUserPermissionSummary(u)
    <2>1. ASSUME NEW r
          PROVE  r \in {acl_entity_roles[g].acl_role_id : g \in ListACLEntityRolesByEntity(u)} \cap ListACLRoles
                 <=> r \in {p[1] : p \in GetUserRoles(u)}
      <3>1. ASSUME NEW g \in ListACLEntityRolesByEntity(u), r = acl_entity_roles[g].acl_role_id, r \in ListACLRoles
            PROVE  r \in {p[1] : p \in GetUserRoles(u)}
        <4>1. <<r, g>> \in GetUserRoles(u)
          BY <3>1 DEF ListACLEntityRolesByEntity, ListACLRoles, GetUserRoles
        <4> QED BY <4>1
      <3>2. ASSUME NEW p \in GetUserRoles(u), r = p[1]
            PROVE  r \in {acl_entity_roles[g].acl_role_id : g \in ListACLEntityRolesByEntity(u)} \cap ListACLRoles
        BY <3>2 DEF ListACLEntityRolesByEntity, ListACLRoles, GetUserRoles
      <3> QED BY <3>1, <3>2
    <2>2. ASSUME NEW a
          PROVE  a \in {p[1] : p \in GetUserPermissions(u)}
                 <=> \E g \in ListACLEntityRolesByEntity(u) : a \in ListACLsByRole(acl_entity_roles[g].acl_role_id)
      <3>1. ASSUME NEW g \in ListACLEntityRolesByEntity(u), a \in ListACLsByRole(acl_entity_roles[g].acl_role_id)
            PROVE  a \in {p[1] : p \in GetUserPermissions(u)}
        <4>1. <<a, g>> \in GetUserPermissions(u)
          BY <3>1 DEF ListACLEntityRolesByEntity, ListACLsByRole, GetUserPermissions
        <4> QED BY <4>1
      <3>2. ASSUME NEW p \in GetUserPermissions(u), a = p[1]
            PROVE  \E g \in ListACLEntityRolesByEntity(u) : a \in ListACLsByRole(acl_entity_roles[g].acl_role_id)
        BY <3>2 DEF ListACLEntityRolesByEntity, ListACLsByRole, GetUserPermissions
      <3> QED BY <3>1, <3>2
    <2>3. GetUserPermissionMatrix(u) = GetUserPermissions(u)
      <3>1. \A p \in GetUserPermissions(u) : p[2] \in DOMAIN acl_entity_roles
        BY DEF GetUserPermissions
      <3> QED BY <3>1 DEF GetUserPermissionMatrix, AccessInv, AccessRefs
    <2>4. {p[1] : p \in GetUserPermissions(u)} \subseteq DOMAIN acls
      BY DEF GetUserPermissions
    <2>5. \A s \in GetUserPermissionSummary(u) : s.object_count <= Cardinality(Objects)
      BY <2>4, SummaryBounded DEF GetUserPermissionSummary
    <2> QED BY <2>1, <2>2, <2>3, <2>5 DEF GetUserPermissionSummaryByType, GetUserPermissionSummary
  <1>3. ASSUME NEW r \in DOMAIN acl_roles
        PROVE  /\ GetRolePermissionMatrix(r) = ListACLsByRole(r) /\ ListACLsByEntity(r) = ListACLsByRole(r)
               /\ GetACLRole(r) = {} <=> r \notin ListACLRoles
               /\ GetRolePermissionSummary(r) = {} <=> ListACLsByRole(r) = {}
               /\ \A g \in ListACLEntityRolesByRole(r) : GetACLEntityRole(g) = {g}
    <2>1. GetRolePermissionMatrix(r) = ListACLsByRole(r) /\ ListACLsByEntity(r) = ListACLsByRole(r)
      BY DEF GetRolePermissionMatrix, ListACLsByRole, ListACLsByEntity
    <2>2. GetACLRole(r) = {} <=> r \notin ListACLRoles
      BY DEF GetACLRole, ListACLRoles
    <2>3. GetRolePermissionSummary(r) = {} <=> ListACLsByRole(r) = {}
      BY SummaryBounded DEF GetRolePermissionSummary, ListACLsByRole
    <2>4. \A g \in ListACLEntityRolesByRole(r) : GetACLEntityRole(g) = {g}
      BY DEF ListACLEntityRolesByRole, GetACLEntityRole
    <2> QED BY <2>1, <2>2, <2>3, <2>4
  <1>4. ASSUME NEW n \in RoleNames PROVE GetACLRoleByName(n) \subseteq ListACLRoles /\ Cardinality(RoleNamed(n)) <= 1
    <2>1. GetACLRoleByName(n) \subseteq ListACLRoles
      BY DEF GetACLRoleByName, ListACLRoles, RoleNamed
    <2>2. CASE RoleNamed(n) = {}
      BY <2>1, <2>2, FS_EmptySet
    <2>3. CASE RoleNamed(n) # {}
      <3>1. PICK r : RoleNamed(n) = {r}
        BY <2>3 DEF RoleNamed, AccessCounted, RolesDiffer
      <3> QED BY <2>1, <3>1, FS_Singleton
    <2> QED BY <2>2, <2>3
  <1>5. GetACLStats.total_acls = GetACLStats.deny_rules + GetACLStats.allow_rules
    <2> DEFINE D == {a \in ActiveACLs : acls[a].deny}
               A == {a \in ActiveACLs : ~acls[a].deny}
    <2>1. IsFiniteSet(ActiveACLs)
      BY FS_Subset DEF ActiveACLs, AccessCounted
    <2>2. D \cup A = ActiveACLs /\ D \cap A = {} /\ D \subseteq ActiveACLs /\ A \subseteq ActiveACLs
      OBVIOUS
    <2>3. /\ GetACLStats.total_acls = Cardinality(ActiveACLs)
          /\ GetACLStats.deny_rules = Cardinality(D) /\ GetACLStats.allow_rules = Cardinality(A)
      BY DEF GetACLStats
    <2> HIDE DEF D, A
    <2>4. IsFiniteSet(D) /\ IsFiniteSet(A)
      BY <2>1, <2>2, FS_Subset
    <2> QED BY <2>2, <2>3, <2>4, DisjointCount
  <1>6. ASSUME NEW c \in ContactIds, NEW op \in Operations PROVE Accessible(c, op) = {}
    <2>1. \A k \in DOMAIN acl_contact_cache : acl_contact_cache[k].contact_id \in ContactIds
      BY DEF AccessInv, AccessTypeOK, IsTable, AclContactCache
    <2> QED BY <2>1, ObjectsAssumption DEF Accessible, GetACLContactCache
  <1> QED BY <1>1, <1>2, <1>3, <1>4, <1>5, <1>6 DEF PermissionAnswersAgree

(* The queries of acls.sql.go, permissions.sql.go and users.sql.go agree on who *)
(* may do what, for any roles, permissions and grants, however often a role was *)
(* granted and whatever was deactivated; those that read the contact cache for  *)
(* rows of other tables find none.                                              *)
THEOREM PermissionAnswer == AccessSpec => []PermissionAnswersAgree
  <1>1. AccessInit => AccessCounted
    BY FS_EmptySet DEF AccessInit, AccessCounted, RolesDiffer, NoRows
  <1> QED BY <1>1, AccessStaysCounted, PermissionAnswers, AccessInitInv, AccessStepKeeps, PTL DEF AccessSpec

LEMMA UserAnswers == AccessInv => UserAnswersAgree
  <1> SUFFICES ASSUME AccessInv PROVE UserAnswersAgree
    OBVIOUS
  <1>1. /\ \A m \in DOMAIN uf_match : uf_match[m].contact_id \in ContactIds \cup {NULL}
        /\ \A g \in DOMAIN acl_entity_roles : g \in GrantIds
        /\ DOMAIN users \subseteq UserIds
    BY DEF AccessInv, AccessTypeOK, IsTable, UfMatch
  <1>2. \A u : (\E c : <<u, c>> \in GetUsersWithContacts) <=> u \in ListUsers
    <2> SUFFICES ASSUME NEW u \in ListUsers PROVE \E c : <<u, c>> \in GetUsersWithContacts
      BY DEF GetUsersWithContacts
    <2>1. CASE GetUFMatchByUserID(u) = {}
      <3>1. <<u, NULL>> \in GetUsersWithContacts
        BY <2>1 DEF GetUsersWithContacts
      <3> QED BY <3>1
    <2>2. ASSUME NEW m \in GetUFMatchByUserID(u) PROVE \E c : <<u, c>> \in GetUsersWithContacts
      <3>1. uf_match[m].contact_id \in ContactIds \cup {NULL}
        BY <1>1 DEF GetUFMatchByUserID
      <3>2. <<u, uf_match[m].contact_id>> \in GetUsersWithContacts
        BY <2>2, <3>1 DEF GetUsersWithContacts
      <3> QED BY <3>2
    <2> QED BY <2>1, <2>2
  <1>3. \A p \in GetUsersWithContacts : p = <<p[1], p[2]>> /\ p[1] \in ListUsers
    BY DEF GetUsersWithContacts
  <1>4. {p[1] : p \in GetUsersWithContacts} = ListUsers
    <2>1. \A u : u \in {p[1] : p \in GetUsersWithContacts} <=> u \in ListUsers
      <3>1. ASSUME NEW u \in ListUsers PROVE u \in {p[1] : p \in GetUsersWithContacts}
        <4>1. PICK c : <<u, c>> \in GetUsersWithContacts
          BY <1>2
        <4> QED BY <4>1
      <3> QED BY <1>3, <3>1
    <2> QED BY <2>1
  <1>5. GetUserStats.admin_users <= GetUserStats.total_users
    <2>1. PICK A : A = {u \in DOMAIN users : users[u].is_admin = TRUE}
      OBVIOUS
    <2>2. IsFiniteSet(DOMAIN users) /\ A \subseteq DOMAIN users
      BY <1>1, <2>1, ObjectsAssumption, FS_Subset
    <2>3. Cardinality(A) <= Cardinality(DOMAIN users)
      BY <2>2, FS_Subset
    <2>4. GetUserStats.admin_users = Cardinality(A) /\ GetUserStats.total_users = Cardinality(DOMAIN users)
      BY <2>1 DEF GetUserStats
    <2> QED BY <2>3, <2>4
  <1>6. ASSUME NEW u \in UserIds, NEW n \in UserNames, u \in GetUserByUsername(n)
        PROVE  GetUserByUsernameWithContact(n) = GetUserWithContact(u)
    <2>1. u \in DOMAIN users /\ users[u].username = n
      BY <1>6 DEF GetUserByUsername
    <2>2. \A v \in DOMAIN users : users[v].username = n <=> v = u
      BY <2>1 DEF AccessInv, AccessRefs
    <2>3. \A p \in GetUsersWithContacts : users[p[1]].username = n <=> p[1] = u
      BY <1>3, <2>2 DEF ListUsers
    <2> QED BY <2>3 DEF GetUserByUsernameWithContact, GetUserWithContact
  <1>7. ASSUME NEW n \in RoleNames
        PROVE  {p[1] : p \in GetUsersByRoleWithContacts(n)} = {p[1] : p \in ListUsersByRole(n)}
    <2>1. ASSUME NEW q \in ListUsersByRole(n) PROVE q[1] \in {p[1] : p \in GetUsersByRoleWithContacts(n)}
      <3>1. q = <<q[1], q[2]>> /\ q[2] \in GrantIds /\ q[1] \in ListUsers
        BY <1>1 DEF ListUsersByRole, ListUsers
      <3>2. PICK c : <<q[1], c>> \in GetUsersWithContacts
        BY <1>2, <3>1
      <3>3. <<q[1], c>> \in GetUsersByRoleWithContacts(n)
        BY <2>1, <3>1, <3>2 DEF GetUsersByRoleWithContacts
      <3> QED BY <3>3
    <2>2. ASSUME NEW p \in GetUsersByRoleWithContacts(n) PROVE p[1] \in {q[1] : q \in ListUsersByRole(n)}
      <3>1. PICK g \in GrantIds : <<p[1], g>> \in ListUsersByRole(n)
        BY <2>2 DEF GetUsersByRoleWithContacts
      <3> QED BY <3>1
    <2> QED BY <2>1, <2>2
  <1>8. \A c \in ContactIds : GetUFMatchByContactID(c) # {} => c \in DOMAIN contacts
    BY DEF GetUFMatchByContactID, Eq, AccessInv, AccessRefs
  <1>9. \A c \in ContactIds, op \in Operations : GetACLContactCache(c, op) # {} => c \in DOMAIN contacts
    BY DEF GetACLContactCache, Eq, AccessInv, AccessRefs
  <1> QED BY <1>4, <1>5, <1>6, <1>7, <1>8, <1>9 DEF UserAnswersAgree

(* Users are listed with their contacts once per match, or once without, and    *)
(* found by name alike with and without them; what is found of a contact is of   *)
(* one that is there (users.sql.go, acls.sql.go).                               *)
THEOREM UserAnswer == AccessSpec => []UserAnswersAgree
  BY UserAnswers, AccessInitInv, AccessStepKeeps, PTL DEF AccessSpec

(* What is left to u, and to the others, of what RemoveUserFromRole ends. *)
LEMMA RoleRemoved ==
  ASSUME AccessInv, NEW n \in RoleNames, NEW u \in DOMAIN users, RemoveUserFromRole(n, u)
  PROVE  /\ \A p \in GetUserRoles(u)' : p[1] \notin RoleNamed(n)
         /\ \A p \in GetUserPermissions(u)' : acls[p[1]].entity_id \notin RoleNamed(n)
         /\ \A v \in DOMAIN users \ {u} : GetUserPermissions(v)' = GetUserPermissions(v)
  <1>1. /\ DOMAIN acl_entity_roles' = DOMAIN acl_entity_roles
        /\ \A g \in DOMAIN acl_entity_roles :
             /\ acl_entity_roles'[g].acl_role_id = acl_entity_roles[g].acl_role_id
             /\ acl_entity_roles'[g].entity_id = acl_entity_roles[g].entity_id
             /\ g \in GrantsOf(u, n) => acl_entity_roles'[g].is_active = FALSE
             /\ g \notin GrantsOf(u, n) => acl_entity_roles'[g] = acl_entity_roles[g]
    BY GrantsEnded
  <1>2. acl_roles' = acl_roles /\ acls' = acls
    BY DEF RemoveUserFromRole
  <1>3. \A p \in GetUserRoles(u)' : p[1] \notin RoleNamed(n)
    <2> TAKE p \in GetUserRoles(u)'
    <2>1. /\ p[2] \in DOMAIN acl_entity_roles /\ p[1] = acl_entity_roles'[p[2]].acl_role_id
          /\ acl_entity_roles'[p[2]].entity_id = u /\ acl_entity_roles'[p[2]].is_active = TRUE
      BY <1>1 DEF GetUserRoles
    <2> QED BY <1>1, <2>1 DEF GrantsOf
  <1>4. \A p \in GetUserPermissions(u)' : acls[p[1]].entity_id \notin RoleNamed(n)
    <2> TAKE p \in GetUserPermissions(u)'
    <2>1. /\ p[2] \in DOMAIN acl_entity_roles /\ acls[p[1]].entity_id = acl_entity_roles'[p[2]].acl_role_id
          /\ acl_entity_roles'[p[2]].entity_id = u /\ acl_entity_roles'[p[2]].is_active = TRUE
      BY <1>1, <1>2 DEF GetUserPermissions
    <2> QED BY <1>1, <2>1 DEF GrantsOf
  <1>5. \A v \in DOMAIN users \ {u} : GetUserPermissions(v)' = GetUserPermissions(v)
    <2> TAKE v \in DOMAIN users \ {u}
    <2>1. \A g \in DOMAIN acl_entity_roles : acl_entity_roles[g].entity_id = v => acl_entity_roles'[g] = acl_entity_roles[g]
      BY <1>1 DEF GrantsOf
    <2>2. \A p \in (DOMAIN acls) \X (DOMAIN acl_entity_roles) : p \in GetUserPermissions(v)' <=> p \in GetUserPermissions(v)
      BY <1>1, <1>2, <2>1 DEF GetUserPermissions
    <2> QED BY <1>1, <1>2, <2>2 DEF GetUserPermissions
  <1> QED BY <1>3, <1>4, <1>5

(* RemoveUserFromRole (users.sql:192-197) takes the role of that name and *)
(* its permissions from the user, however often it was granted, and       *)
(* nothing from any other user.                                           *)
THEOREM RemovalIsFinal == AccessSpec => RemovedRoleStaysRemoved
  <1>1. AccessInv /\ [AccessNext \/ UsersNext \/ AclCacheNext]_accessVars
        => [\A n \in RoleNames, u \in DOMAIN users : RemoveUserFromRole(n, u) =>
              (/\ \A p \in GetUserRoles(u)' : p[1] \notin RoleNamed(n)
               /\ \A p \in GetUserPermissions(u)' : acls[p[1]].entity_id \notin RoleNamed(n)
               /\ \A v \in DOMAIN users \ {u} : GetUserPermissions(v)' = GetUserPermissions(v))]_accessVars
    BY RoleRemoved
  <1> QED BY <1>1, AccessInitInv, AccessStepKeeps, PTL DEF AccessSpec, RemovedRoleStaysRemoved

-----------------------------------------------------------------------------
(* Tags.  TagRefs counts: an entity has as many rows as it has tags.  What is  *)
(* inductive is that no two rows are the same, among finitely many of them.    *)

TagsFit ==
  /\ \A t \in DOMAIN tags : tags[t].tag_set_id \in DOMAIN tag_sets \cup {NULL}
  /\ \A e \in DOMAIN entity_tags : entity_tags[e].tag_id \in DOMAIN tags

TaggedOnce ==
  /\ IsFiniteSet(DOMAIN entity_tags)
  /\ \A e, f \in DOMAIN entity_tags : entity_tags[e] = entity_tags[f] => e = f

TagInv == TagsTypeOK /\ TagsFit /\ TaggedOnce

LEMMA TagInitInv == TagsInit => TagInv
  BY FS_EmptySet DEF TagsInit, TagInv, TagsTypeOK, TagsFit, TaggedOnce, IsTable, NoRows

(* The rows of an entity are as many as their tags. *)
LEMMA TagsCounted == TagInv => TagRefs
  <1> SUFFICES ASSUME TagInv, NEW tab \in EntityTables, NEW i \in TaggedIds
               PROVE  GetEntityTagCount(tab, i) = Cardinality({entity_tags[e].tag_id : e \in GetEntityTagsByEntity(tab, i)})
    BY DEF TagRefs, TagInv, TagsFit
  <1>1. PICK S, T : S = GetEntityTagsByEntity(tab, i) /\ T = {entity_tags[e].tag_id : e \in S}
    OBVIOUS
  <1>2. IsFiniteSet(S)
    BY <1>1, FS_Subset DEF TagInv, TaggedOnce, GetEntityTagsByEntity
  <1>3. PICK f : f = [e \in S |-> entity_tags[e].tag_id]
    OBVIOUS
  <1>4. \A e \in S : /\ e \in DOMAIN entity_tags /\ entity_tags[e] \in EntityTag
                     /\ entity_tags[e].entity_table = tab /\ entity_tags[e].entity_id = i
    BY <1>1 DEF GetEntityTagsByEntity, TagInv, TagsTypeOK, IsTable
  <1>5. \A e, g \in S : f[e] = f[g] => e = g
    <2> SUFFICES ASSUME NEW e \in S, NEW g \in S, f[e] = f[g] PROVE e = g
      OBVIOUS
    <2>1. entity_tags[e] = entity_tags[g]
      BY <1>3, <1>4 DEF EntityTag
    <2> QED BY <1>4, <2>1 DEF TagInv, TaggedOnce
  <1>6. f \in Surjection(S, T) /\ f \in Injection(S, T)
    BY <1>1, <1>3, <1>5 DEF Surjection, Injection, IsInjective
  <1>7. Cardinality(T) = Cardinality(S)
    BY <1>2, <1>6, FS_Surjection
  <1> QED BY <1>1, <1>7 DEF GetEntityTagCount

LEMMA TagSetWritten ==
  ASSUME TagInv, NEW s \in TagSetIds, NEW row \in TagSet, Writes(tag_sets, tag_sets', s, row), UNCHANGED <<tags, entity_tags>>
  PROVE  TagInv'
  <1>1. IsTable(tag_sets', TagSetIds, TagSet) /\ DOMAIN tag_sets' = DOMAIN tag_sets \cup {s}
    BY DEF TagInv, TagsTypeOK, IsTable, Insert, Writes
  <1>2. TagsFit' /\ TaggedOnce'
    BY <1>1 DEF TagInv, TagsFit, TaggedOnce
  <1> QED BY <1>1, <1>2 DEF TagInv, TagsTypeOK

LEMMA TagSetSwitched == ASSUME TagInv, NEW s \in TagSetIds, ActivateTagSet(s) \/ DeactivateTagSet(s) PROVE TagInv'
  <1>1. PICK act \in Flag : tag_sets' = [tag_sets EXCEPT ![s].is_active = act]
    BY FlagsAreFlags DEF ActivateTagSet, DeactivateTagSet
  <1>2. s \in DOMAIN tag_sets /\ tag_sets[s] \in TagSet /\ UNCHANGED <<tags, entity_tags>>
    BY DEF ActivateTagSet, DeactivateTagSet, TagInv, TagsTypeOK, IsTable
  <1>3. PICK row : row = [tag_sets[s] EXCEPT !.is_active = act]
    OBVIOUS
  <1>4. row \in TagSet
    BY <1>2, <1>3 DEF TagSet
  <1>5. Writes(tag_sets, tag_sets', s, row)
    BY <1>1, <1>2, <1>3 DEF Writes
  <1> QED BY <1>2, <1>4, <1>5, TagSetWritten

LEMMA TagSetKeeps ==
  ASSUME TagInv, NEW s \in TagSetIds, DeleteTagSet(s) \/ \E row \in TagSet : CreateTagSet(s, row) \/ UpdateTagSet(s, row)
  PROVE  TagInv'
  <1>1. CASE DeleteTagSet(s)
    <2>1. IsTable(tag_sets', TagSetIds, TagSet) /\ DOMAIN tag_sets' = DOMAIN tag_sets \ {s} /\ UNCHANGED <<tags, entity_tags>>
      BY <1>1 DEF DeleteTagSet, TagInv, TagsTypeOK, IsTable, Without
    <2>2. TagsFit' /\ TaggedOnce'
      BY <1>1, <2>1 DEF DeleteTagSet, TagInv, TagsFit, TaggedOnce
    <2> QED BY <2>1, <2>2 DEF TagInv, TagsTypeOK
  <1>2. ASSUME NEW row \in TagSet, CreateTagSet(s, row) \/ UpdateTagSet(s, row) PROVE TagInv'
    <2>1. Writes(tag_sets, tag_sets', s, row)
      BY <1>2 DEF CreateTagSet, UpdateTagSet, Writes
    <2> QED BY <1>2, <2>1, TagSetWritten DEF CreateTagSet, UpdateTagSet
  <1> QED BY <1>1, <1>2

LEMMA TagWritten ==
  ASSUME TagInv, NEW t \in TagIds, NEW row \in Tag, row.tag_set_id \in DOMAIN tag_sets \cup {NULL},
         Writes(tags, tags', t, row), UNCHANGED <<tag_sets, entity_tags>>
  PROVE  TagInv'
  <1>1. /\ IsTable(tags', TagIds, Tag) /\ DOMAIN tags' = DOMAIN tags \cup {t}
        /\ tags'[t] = row
        /\ \A u \in DOMAIN tags \ {t} : tags'[u] = tags[u]
    BY DEF TagInv, TagsTypeOK, IsTable, Insert, Writes
  <1>2. TagsFit' /\ TaggedOnce'
    BY <1>1 DEF TagInv, TagsFit, TaggedOnce
  <1> QED BY <1>1, <1>2 DEF TagInv, TagsTypeOK

LEMMA TagSwitched == ASSUME TagInv, NEW t \in TagIds, ActivateTag(t) \/ DeactivateTag(t) PROVE TagInv'
  <1>1. PICK act \in Flag : tags' = [tags EXCEPT ![t].is_active = act]
    BY FlagsAreFlags DEF ActivateTag, DeactivateTag
  <1>2. t \in DOMAIN tags /\ tags[t] \in Tag /\ tags[t].tag_set_id \in DOMAIN tag_sets \cup {NULL} /\ UNCHANGED <<tag_sets, entity_tags>>
    BY DEF ActivateTag, DeactivateTag, TagInv, TagsTypeOK, IsTable, TagsFit
  <1>3. PICK row : row = [tags[t] EXCEPT !.is_active = act]
    OBVIOUS
  <1>4. row \in Tag /\ row.tag_set_id = tags[t].tag_set_id
    BY <1>2, <1>3 DEF Tag
  <1>5. Writes(tags, tags', t, row)
    BY <1>1, <1>2, <1>3 DEF Writes
  <1> QED BY <1>2, <1>4, <1>5, TagWritten

LEMMA TagKeeps ==
  ASSUME TagInv, NEW t \in TagIds, NEW row \in Tag, CreateTag(t, row) \/ UpdateTag(t, row)
  PROVE  TagInv'
  <1>1. Writes(tags, tags', t, row)
    BY DEF CreateTag, UpdateTag, Writes
  <1> QED BY <1>1, TagWritten DEF CreateTag, UpdateTag

LEMMA EntityTagWritten ==
  ASSUME TagInv, NEW e \in EntityTagIds, NEW row \in EntityTag, CreateEntityTag(e, row) \/ UpdateEntityTag(e, row)
  PROVE  TagInv'
  <1>1. /\ Writes(entity_tags, entity_tags', e, row) /\ row.tag_id \in DOMAIN tags /\ ~Tagged(row, e)
        /\ UNCHANGED <<tag_sets, tags>>
    BY DEF CreateEntityTag, UpdateEntityTag, Writes
  <1>2. /\ IsTable(entity_tags', EntityTagIds, EntityTag) /\ DOMAIN entity_tags' = DOMAIN entity_tags \cup {e}
        /\ entity_tags'[e] = row
        /\ \A f \in DOMAIN entity_tags \ {e} : entity_tags'[f] = entity_tags[f]
    BY <1>1 DEF TagInv, TagsTypeOK, IsTable, Insert, Writes
  <1>3. IsFiniteSet(DOMAIN entity_tags')
    BY <1>2, FS_AddElement DEF TagInv, TaggedOnce
  <1>4. TagsFit' /\ TaggedOnce'
    BY <1>1, <1>2, <1>3 DEF TagInv, TagsFit, TaggedOnce, Tagged
  <1> QED BY <1>1, <1>2, <1>4 DEF TagInv, TagsTypeOK

LEMMA EntityTagsLeft ==
  ASSUME TagInv, NEW E, entity_tags' = Without(entity_tags, E), UNCHANGED <<tag_sets, tags>>
  PROVE  TagInv'
  <1>1. /\ IsTable(entity_tags', EntityTagIds, EntityTag) /\ DOMAIN entity_tags' \subseteq DOMAIN entity_tags
        /\ \A e \in DOMAIN entity_tags' : entity_tags'[e] = entity_tags[e]
    BY DEF TagInv, TagsTypeOK, IsTable, Without
  <1>2. IsFiniteSet(DOMAIN entity_tags')
    BY <1>1, FS_Subset DEF TagInv, TaggedOnce
  <1>3. TagsFit' /\ TaggedOnce'
    BY <1>1, <1>2 DEF TagInv, TagsFit, TaggedOnce
  <1> QED BY <1>1, <1>3 DEF TagInv, TagsTypeOK

LEMMA EntityTagDeleted ==
  ASSUME TagInv,
         \/ \E e \in EntityTagIds : DeleteEntityTag(e)
         \/ \E tab \in EntityTables, i \in TaggedIds : DeleteEntityTagsByEntity(tab, i)
         \/ \E t \in TagIds : DeleteEntityTagsByTag(t)
  PROVE  TagInv'
  <1>1. UNCHANGED <<tag_sets, tags>>
    BY DEF DeleteEntityTag, DeleteEntityTagsByEntity, DeleteEntityTagsByTag
  <1>2. \E E : entity_tags' = Without(entity_tags, E)
    BY DEF DeleteEntityTag, DeleteEntityTagsByEntity, DeleteEntityTagsByTag
  <1> QED BY <1>1, <1>2, EntityTagsLeft

LEMMA TagDeleted == ASSUME TagInv, NEW t \in TagIds, DeleteTag(t) PROVE TagInv'
  <1>1. PICK E : E = GetEntityTagsByTag(t)
    OBVIOUS
  <1>2. /\ IsTable(entity_tags', EntityTagIds, EntityTag) /\ DOMAIN entity_tags' = DOMAIN entity_tags \ E
        /\ \A e \in DOMAIN entity_tags' : entity_tags'[e] = entity_tags[e]
    BY <1>1 DEF DeleteTag, TagInv, TagsTypeOK, IsTable, Without
  <1>3. /\ IsTable(tags', TagIds, Tag) /\ DOMAIN tags' = DOMAIN tags \ {t}
        /\ \A u \in DOMAIN tags' : tags'[u] = tags[u]
    BY DEF DeleteTag, TagInv, TagsTypeOK, IsTable, Without
  <1>4. UNCHANGED tag_sets
    BY DEF DeleteTag
  <1>5. \A e \in DOMAIN entity_tags' : entity_tags[e].tag_id # t
    BY <1>1, <1>2 DEF GetEntityTagsByTag
  <1>6. IsFiniteSet(DOMAIN entity_tags')
    BY <1>2, FS_Subset DEF TagInv, TaggedOnce
  <1>7. TagsFit' /\ TaggedOnce'
    BY <1>2, <1>3, <1>4, <1>5, <1>6 DEF TagInv, TagsFit, TaggedOnce
  <1> QED BY <1>2, <1>3, <1>4, <1>7 DEF TagInv, TagsTypeOK

LEMMA TagSetsNextKeeps == ASSUME TagInv, TagSetsNext PROVE TagInv'
  <1>1. ASSUME NEW s \in TagSetIds, NEW n \in TagNames, NEW tab \in EntityTables, NEW act \in Flags, NEW row,
               row = [name |-> n, entity_table |-> tab, is_active |-> act, is_reserved |-> act],
               CreateTagSet(s, row) \/ UpdateTagSet(s, row)
        PROVE  TagInv'
    <2>1. row \in TagSet
      BY <1>1, FlagsAreFlags DEF TagSet
    <2> QED BY <1>1, <2>1, TagSetKeeps
  <1>2. ASSUME NEW t \in TagIds, NEW n \in TagNames, NEW s \in TagSetIds \cup {NULL},
               CreateTag(t, [tag_set_id |-> s, name |-> n, is_active |-> TRUE, is_reserved |-> FALSE])
        PROVE  TagInv'
    <2>1. PICK row : row = [tag_set_id |-> s, name |-> n, is_active |-> TRUE, is_reserved |-> FALSE]
      OBVIOUS
    <2>2. row \in Tag
      BY <2>1, FlagsAreFlags DEF Tag
    <2> QED BY <1>2, <2>1, <2>2, TagKeeps
  <1> QED BY <1>1, <1>2, TagSetSwitched, TagSetKeeps, TagDeleted DEF TagSetsNext

LEMMA TaggingNextKeeps == ASSUME TagInv, TaggingNext PROVE TagInv'
  <1>1. ASSUME NEW s \in TagSetIds, NEW n \in TagNames, NEW tab \in EntityTables,
               CreateTagSet(s, [name |-> n, entity_table |-> tab, is_active |-> TRUE, is_reserved |-> FALSE])
        PROVE  TagInv'
    <2>1. PICK row : row = [name |-> n, entity_table |-> tab, is_active |-> TRUE, is_reserved |-> FALSE]
      OBVIOUS
    <2>2. row \in TagSet
      BY <2>1, FlagsAreFlags DEF TagSet
    <2> QED BY <1>1, <2>1, <2>2, TagSetKeeps
  <1>2. ASSUME NEW t \in TagIds, NEW n \in TagNames, NEW s \in TagSetIds \cup {NULL}, NEW row,
               row = [tag_set_id |-> s, name |-> n, is_active |-> TRUE, is_reserved |-> TRUE],
               CreateTag(t, row) \/ UpdateTag(t, row)
        PROVE  TagInv'
    <2>1. row \in Tag
      BY <1>2, FlagsAreFlags DEF Tag
    <2> QED BY <1>2, <2>1, TagKeeps
  <1> QED BY <1>1, <1>2, TagSwitched, TagDeleted, EntityTagDeleted, EntityTagWritten DEF TaggingNext

LEMMA TagsNextKeeps == TagInv /\ [TagsNext]_tagVars => TagInv'
  <1>1. ASSUME TagInv, UNCHANGED tagVars PROVE TagInv'
    BY <1>1 DEF tagVars, TagInv, TagsTypeOK, TagsFit, TaggedOnce
  <1> QED BY <1>1, TagSetsNextKeeps, TaggingNextKeeps DEF TagsNext

(* Tag sets, tags and tagged entities keep rows of their types under ids *)
(* of their own (022_tagging_system.sql).                                *)
THEOREM TagTypeCorrect == TagsSpec => []TagsTypeOK
  <1>1. TagInv => TagsTypeOK
    BY DEF TagInv
  <1> QED BY <1>1, TagInitInv, TagsNextKeeps, PTL DEF TagsSpec

(* No entity carries a tag twice or one that is gone, so that           *)
(* GetEntityTagCount counts its tags, after any tagging, moving of tags *)
(* and deletion of tags and sets (tags.sql.go, entity_tags.sql.go).     *)
THEOREM TagReferences == TagsSpec => []TagRefs
  BY TagsCounted, TagInitInv, TagsNextKeeps, PTL DEF TagsSpec

(* What the queries of tags answer, where the name of a tag set is UNIQUE. *)
TagSetsDiffer == NamesDiffer(tag_sets)

LEMMA TagSetsStayDifferent == ASSUME TagsTypeOK, TagSetsDiffer, TagSetsNext \/ TaggingNext PROVE TagSetsDiffer'
  <1>1. IsTable(tag_sets, TagSetIds, TagSet)
    BY DEF TagsTypeOK
  <1>2. ASSUME NEW s, NEW row, CreateTagSet(s, row) \/ UpdateTagSet(s, row) PROVE TagSetsDiffer'
    <2>1. Writes(tag_sets, tag_sets', s, row) /\ \A u \in DOMAIN tag_sets \ {s} : tag_sets[u].name # row.name
      BY <1>2 DEF CreateTagSet, UpdateTagSet, Writes, TagSetTaken
    <2> QED BY <1>1, <2>1, NamesStayDifferent DEF TagSetsDiffer
  <1>3. ASSUME NEW s, ActivateTagSet(s) \/ DeactivateTagSet(s) PROVE TagSetsDiffer'
    <2>1. DOMAIN tag_sets' = DOMAIN tag_sets /\ \A r \in DOMAIN tag_sets : tag_sets'[r].name = tag_sets[r].name
      BY <1>1, <1>3 DEF ActivateTagSet, DeactivateTagSet, IsTable, TagSet
    <2> QED BY <2>1, NamesKept DEF TagSetsDiffer
  <1>4. ASSUME NEW s, DeleteTagSet(s) PROVE TagSetsDiffer'
    BY <1>4, NamesLeft DEF DeleteTagSet, TagSetsDiffer
  <1>5. ASSUME NEW t, NEW row, DeleteTag(t) \/ CreateTag(t, row) \/ UpdateTag(t, row) \/ ActivateTag(t) \/ DeactivateTag(t)
        PROVE  TagSetsDiffer'
    BY <1>5 DEF DeleteTag, CreateTag, UpdateTag, ActivateTag, DeactivateTag, TagSetsDiffer
  <1>6. ASSUME NEW t, NEW e, NEW tab, NEW i, NEW row,
               \/ CreateEntityTag(e, row) \/ UpdateEntityTag(e, row) \/ DeleteEntityTag(e)
               \/ DeleteEntityTagsByTag(t) \/ DeleteEntityTagsByEntity(tab, i)
        PROVE  TagSetsDiffer'
    BY <1>6 DEF CreateEntityTag, UpdateEntityTag, DeleteEntityTag, DeleteEntityTagsByTag, DeleteEntityTagsByEntity, TagSetsDiffer
  <1>7. CASE TagSetsNext
    BY <1>2, <1>3, <1>4, <1>5, <1>7 DEF TagSetsNext
  <1>8. CASE TaggingNext
    BY <1>2, <1>5, <1>6, <1>8 DEF TaggingNext
  <1> QED BY <1>7, <1>8

LEMMA TaggedEntitiesAgree ==
  ASSUME TagInv, NEW tab \in EntityTables
  PROVE  /\ GetEntityTagsByTable(tab) = ListEntityTagsByTable(tab)
         /\ ListEntityTagsByTable(tab) = UNION {GetEntityTagsByEntity(tab, i) : i \in DOMAIN GetTaggedEntities(tab)}
         /\ tab \in DOMAIN GetEntityTagStats <=> DOMAIN GetTaggedEntities(tab) # {}
         /\ \A i \in DOMAIN GetTaggedEntities(tab) : Cardinality(GetTaggedEntities(tab)[i]) = GetEntityTagCount(tab, i)
  <1>1. DOMAIN GetTaggedEntities(tab) = {entity_tags[e].entity_id : e \in GetEntityTagsByTable(tab)}
    BY DEF GetTaggedEntities
  <1>2. GetEntityTagsByTable(tab) = ListEntityTagsByTable(tab)
    BY DEF GetEntityTagsByTable, ListEntityTagsByTable
  <1>3. \A e : e \in ListEntityTagsByTable(tab) <=> \E i \in DOMAIN GetTaggedEntities(tab) : e \in GetEntityTagsByEntity(tab, i)
    BY <1>1 DEF ListEntityTagsByTable, GetEntityTagsByTable, GetEntityTagsByEntity
  <1>4. ListEntityTagsByTable(tab) = UNION {GetEntityTagsByEntity(tab, i) : i \in DOMAIN GetTaggedEntities(tab)}
    BY <1>3
  <1>5. tab \in DOMAIN GetEntityTagStats <=> DOMAIN GetTaggedEntities(tab) # {}
    BY <1>1 DEF GetEntityTagStats, GetEntityTagsByTable
  <1>6. ASSUME NEW i \in DOMAIN GetTaggedEntities(tab)
        PROVE  Cardinality(GetTaggedEntities(tab)[i]) = GetEntityTagCount(tab, i)
    <2>1. i \in TaggedIds
      BY <1>1 DEF GetEntityTagsByTable, TagInv, TagsTypeOK, IsTable, EntityTag
    <2>2. {f \in GetEntityTagsByEntity(tab, i) : entity_tags[f].tag_id \in DOMAIN tags} = GetEntityTagsByEntity(tab, i)
      BY DEF GetEntityTagsByEntity, TagInv, TagsFit
    <2>3. GetTaggedEntities(tab)[i] = {entity_tags[e].tag_id : e \in GetEntityTagsByEntity(tab, i)}
      BY <1>1, <2>2 DEF GetTaggedEntities
    <2> QED BY <2>1, <2>3, TagsCounted DEF TagRefs
  <1> QED BY <1>2, <1>4, <1>5, <1>6

LEMMA TagsByTableAgree ==
  ASSUME TagInv, NEW tab \in EntityTables
  PROVE  /\ GetTagsByEntityTable(tab, TRUE) =
              UNION {GetTagsByTagSet(s, TRUE) : s \in {r \in DOMAIN tag_sets : tag_sets[r].entity_table = tab}}
         /\ \A i \in TaggedIds : GetEntityTagsWithDetails(tab, i) =
              {e \in GetEntityTagsByEntity(tab, i) : \E s \in TagSetIds : e \in ListEntityTagsByTagSet(s)}
  <1>1. NULL \notin DOMAIN tag_sets /\ \A s \in DOMAIN tag_sets : s \in TagSetIds
    BY TagsAssumption DEF TagInv, TagsTypeOK, IsTable
  <1> DEFINE InSet(s) == GetTagsByTagSet(s, TRUE)
             Sets == {r \in DOMAIN tag_sets : tag_sets[r].entity_table = tab}
  <1>2. \A t : t \in GetTagsByEntityTable(tab, TRUE) <=> \E s \in Sets : t \in InSet(s)
    <2>1. ASSUME NEW t \in GetTagsByEntityTable(tab, TRUE) PROVE \E s \in Sets : t \in InSet(s)
      <3>1. /\ t \in DOMAIN tags /\ tags[t].tag_set_id \in Sets /\ tags[t].tag_set_id # NULL
            /\ Eq(tags[t].is_active, TRUE)
        BY <1>1 DEF GetTagsByEntityTable
      <3>2. t \in InSet(tags[t].tag_set_id)
        BY <3>1 DEF GetTagsByTagSet, Eq
      <3> QED BY <3>1, <3>2
    <2>2. ASSUME NEW s \in Sets, NEW t \in InSet(s) PROVE t \in GetTagsByEntityTable(tab, TRUE)
      BY DEF GetTagsByEntityTable, GetTagsByTagSet, Eq
    <2> QED BY <2>1, <2>2
  <1>3. GetTagsByEntityTable(tab, TRUE) = UNION {InSet(s) : s \in Sets}
    <2> HIDE DEF InSet, Sets
    <2> QED BY <1>2
  <1>4. ASSUME NEW i \in TaggedIds
        PROVE  GetEntityTagsWithDetails(tab, i) =
                 {e \in GetEntityTagsByEntity(tab, i) : \E s \in TagSetIds : e \in ListEntityTagsByTagSet(s)}
    <2>1. ASSUME NEW e \in GetEntityTagsByEntity(tab, i)
          PROVE  tags[entity_tags[e].tag_id].tag_set_id \in DOMAIN tag_sets
                 <=> \E s \in TagSetIds : e \in ListEntityTagsByTagSet(s)
      <3>1. /\ e \in DOMAIN entity_tags /\ entity_tags[e].tag_id \in DOMAIN tags
            /\ tags[entity_tags[e].tag_id].tag_set_id \in DOMAIN tag_sets \cup {NULL}
        BY DEF GetEntityTagsByEntity, TagInv, TagsFit
      <3> QED BY <1>1, <3>1 DEF ListEntityTagsByTagSet, Eq
    <2>2. \A e \in GetEntityTagsByEntity(tab, i) : entity_tags[e].tag_id \in DOMAIN tags
      BY DEF GetEntityTagsByEntity, TagInv, TagsFit
    <2> QED BY <2>1, <2>2 DEF GetEntityTagsWithDetails
  <1> QED BY <1>3, <1>4

LEMMA TagStatsAgree ==
  ASSUME TagInv
  PROVE  /\ \A t \in ListActiveTags :
              /\ <<tags[t].tag_set_id, tags[t].name>> \in DOMAIN GetTagStats(TRUE) <=> tags[t].tag_set_id # NULL
              /\ GetEntityTagsByTag(t) # {} => GetPopularTags(TRUE)[tags[t].name] >= Cardinality(GetEntityTagsByTag(t))
         /\ \A g \in DOMAIN GetTagStats(TRUE) :
              GetTagStats(TRUE)[g] > 0 => GetTagStats(TRUE)[g] <= GetPopularTags(TRUE)[g[2]]
  <1> DEFINE Listed == ListTags(TRUE)
             Counted(g) == {e \in DOMAIN entity_tags : LET t == entity_tags[e].tag_id IN
                              t \in Listed /\ <<tags[t].tag_set_id, tags[t].name>> = g}
             Named(n) == {e \in DOMAIN entity_tags : entity_tags[e].tag_id \in ListTags(TRUE) \cap GetTagByName(n)}
             Popular == {tags[entity_tags[e].tag_id].name : e \in {f \in DOMAIN entity_tags : entity_tags[f].tag_id \in Listed}}
  <1>1. /\ DOMAIN GetTagStats(TRUE) = {<<tags[t].tag_set_id, tags[t].name>> : t \in {u \in Listed : tags[u].tag_set_id \in DOMAIN tag_sets}}
        /\ \A g \in DOMAIN GetTagStats(TRUE) : GetTagStats(TRUE)[g] = Cardinality(Counted(g))
    BY DEF GetTagStats
  <1>2. \A n \in Popular : GetPopularTags(TRUE)[n] = Cardinality(Named(n))
    BY DEF GetPopularTags
  <1>3. \A t : t \in Listed <=> t \in ListActiveTags
    BY RelationalAssumption DEF ListTags, ListActiveTags, Eq
  <1>4. \A t \in Listed : \A n : tags[t].name = n => t \in ListTags(TRUE) \cap GetTagByName(n)
    BY DEF ListTags, GetTagByName
  <1>5. \A n : IsFiniteSet(Named(n)) /\ \A S \in SUBSET Named(n) : Cardinality(S) <= Cardinality(Named(n))
    <2>1. \A n : Named(n) \in SUBSET DOMAIN entity_tags
      OBVIOUS
    <2>2. \A n : IsFiniteSet(Named(n))
      BY <2>1, FS_Subset DEF TagInv, TaggedOnce
    <2> HIDE DEF Named
    <2> QED BY <2>2, FS_Subset
  <1>6. ASSUME NEW t \in ListActiveTags
        PROVE  <<tags[t].tag_set_id, tags[t].name>> \in DOMAIN GetTagStats(TRUE) <=> tags[t].tag_set_id # NULL
    <2>1. t \in Listed /\ t \in DOMAIN tags
      BY <1>3 DEF ListActiveTags
    <2>2. tags[t].tag_set_id \in DOMAIN tag_sets \cup {NULL} /\ NULL \notin DOMAIN tag_sets
      BY <2>1, TagsAssumption DEF TagInv, TagsFit, TagsTypeOK, IsTable
    <2> HIDE DEF Listed
    <2>3. tags[t].tag_set_id \in DOMAIN tag_sets => <<tags[t].tag_set_id, tags[t].name>> \in DOMAIN GetTagStats(TRUE)
      BY <1>1, <2>1
    <2>4. <<tags[t].tag_set_id, tags[t].name>> \in DOMAIN GetTagStats(TRUE) => tags[t].tag_set_id \in DOMAIN tag_sets
      BY <1>1
    <2> QED BY <2>2, <2>3, <2>4
  <1>7. ASSUME NEW t \in ListActiveTags, GetEntityTagsByTag(t) # {}
        PROVE  GetPopularTags(TRUE)[tags[t].name] >= Cardinality(GetEntityTagsByTag(t))
    <2>1. t \in Listed
      BY <1>3
    <2>2. PICK e \in DOMAIN entity_tags : entity_tags[e].tag_id = t
      BY <1>7 DEF GetEntityTagsByTag
    <2>3. tags[t].name \in Popular
      BY <2>1, <2>2
    <2>4. GetEntityTagsByTag(t) \in SUBSET Named(tags[t].name)
      BY <1>4, <2>1 DEF GetEntityTagsByTag
    <2> HIDE DEF Listed, Named, Popular
    <2>5. IsFiniteSet(GetEntityTagsByTag(t))
      BY <1>5, <2>4, FS_Subset
    <2>6. Cardinality(GetEntityTagsByTag(t)) \in Nat /\ Cardinality(Named(tags[t].name)) \in Nat
      BY <1>5, <2>5, FS_CardinalityType
    <2>7. Cardinality(GetEntityTagsByTag(t)) <= Cardinality(Named(tags[t].name))
      BY <1>5, <2>4
    <2> QED BY <1>2, <2>3, <2>6, <2>7
  <1>8. ASSUME NEW g \in DOMAIN GetTagStats(TRUE), GetTagStats(TRUE)[g] > 0
        PROVE  GetTagStats(TRUE)[g] <= GetPopularTags(TRUE)[g[2]]
    <2>1. Counted(g) # {}
      <3> HIDE DEF Counted
      <3>1. Cardinality(Counted(g)) > 0
        BY <1>1, <1>8
      <3>2. Cardinality({}) = 0
        BY FS_EmptySet
      <3> QED BY <3>1, <3>2
    <2>2. \A e \in Counted(g) : /\ e \in DOMAIN entity_tags /\ entity_tags[e].tag_id \in Listed
                                 /\ tags[entity_tags[e].tag_id].name = g[2]
      <3> SUFFICES ASSUME NEW e \in Counted(g)
                   PROVE  /\ e \in DOMAIN entity_tags /\ entity_tags[e].tag_id \in Listed
                          /\ tags[entity_tags[e].tag_id].name = g[2]
        OBVIOUS
      <3>1. PICK t : t = entity_tags[e].tag_id
        OBVIOUS
      <3>2. e \in DOMAIN entity_tags /\ t \in Listed /\ <<tags[t].tag_set_id, tags[t].name>> = g
        BY <3>1
      <3> HIDE DEF Counted, Listed
      <3>3. tags[t].name = g[2]
        BY <3>2
      <3> QED BY <3>1, <3>2, <3>3
    <2> HIDE DEF Counted, Listed
    <2>3. g[2] \in Popular
      BY <2>1, <2>2
    <2>4. Counted(g) \in SUBSET Named(g[2])
      BY <1>4, <2>2
    <2> HIDE DEF Listed, Counted, Named, Popular
    <2>5. Cardinality(Counted(g)) <= Cardinality(Named(g[2]))
      BY <1>5, <2>4
    <2> QED BY <1>1, <1>2, <2>3, <2>5
  <1> QED BY <1>6, <1>7, <1>8

LEMMA TagAnswers == ASSUME TagInv, TagSetsDiffer PROVE TagAnswersAgree
  <1>1. \A s \in ListActiveTagSets : GetTagSet(s) = GetTagSetByName(tag_sets[s].name)
    BY DEF ListActiveTagSets, GetTagSet, GetTagSetByName, TagSetsDiffer, NamesDiffer
  <1> QED BY <1>1, TaggedEntitiesAgree, TagsByTableAgree, TagStatsAgree, Zenon DEF TagAnswersAgree

-----------------------------------------------------------------------------
(* Dashboards.  What the queries answer follows from the references, and from  *)
(* there being finitely many widgets to count.                                 *)

BoardsFit ==
  /\ \A d \in DOMAIN dashboards : dashboards[d].created_by \in DOMAIN contacts \cup {NULL}
  /\ \A w \in DOMAIN dashboard_widgets : dashboard_widgets[w].dashboard_id \in DOMAIN dashboards
  /\ IsFiniteSet(DOMAIN dashboard_widgets)

DashboardInv == ContactsTypeOK /\ DashboardsTypeOK /\ BoardsFit

LEMMA DashboardInitInv == ContactsInit /\ DashboardsInit => DashboardInv
  BY FS_EmptySet DEF ContactsInit, DashboardsInit, DashboardInv, ContactsTypeOK, DashboardsTypeOK, BoardsFit, IsTable, NoRows

LEMMA BoardWritten ==
  ASSUME DashboardInv, NEW d \in DashboardIds, NEW row \in Dashboard, row.created_by \in DOMAIN contacts \cup {NULL},
         Writes(dashboards, dashboards', d, row), chosen' \in {chosen, NULL}, UNCHANGED <<contacts, dashboard_widgets>>
  PROVE  DashboardInv'
  <1>1. /\ IsTable(dashboards', DashboardIds, Dashboard)
        /\ DOMAIN dashboards' = DOMAIN dashboards \cup {d}
        /\ dashboards'[d] = row
        /\ \A e \in DOMAIN dashboards \ {d} : dashboards'[e] = dashboards[e]
    BY DEF DashboardInv, DashboardsTypeOK, IsTable, Insert, Writes
  <1>2. BoardsFit'
    BY <1>1 DEF DashboardInv, BoardsFit
  <1> QED BY <1>1, <1>2 DEF DashboardInv, DashboardsTypeOK, ContactsTypeOK

LEMMA BoardFlagsWritten ==
  ASSUME DashboardInv, NEW d \in DOMAIN dashboards, NEW act \in Flag, NEW def \in Flag,
         dashboards' = [dashboards EXCEPT ![d].is_active = act, ![d].is_default = def],
         chosen' \in {chosen, NULL}, UNCHANGED <<contacts, dashboard_widgets>>
  PROVE  DashboardInv'
  <1>1. dashboards[d] \in Dashboard /\ d \in DashboardIds /\ dashboards[d].created_by \in DOMAIN contacts \cup {NULL}
    BY DEF DashboardInv, DashboardsTypeOK, IsTable, BoardsFit
  <1>2. PICK row : row = [dashboards[d] EXCEPT !.is_active = act, !.is_default = def]
    OBVIOUS
  <1>3. row \in Dashboard /\ row.created_by = dashboards[d].created_by
    BY <1>1, <1>2 DEF Dashboard
  <1>4. dashboards' = [dashboards EXCEPT ![d] = row]
    BY <1>1, <1>2 DEF DashboardInv, DashboardsTypeOK, IsTable
  <1>5. Writes(dashboards, dashboards', d, row)
    BY <1>4 DEF Writes
  <1> QED BY <1>1, <1>3, <1>5, BoardWritten

LEMMA BoardKeeps ==
  ASSUME DashboardInv, NEW d \in DashboardIds,
         \/ ActivateDashboard(d) \/ DeactivateDashboard(d)
         \/ \E act, def \in Flag : UpdateDashboard(d, act, def)
         \/ \E row \in Dashboard : CreateDashboard(d, row)
  PROVE  DashboardInv'
  <1>1. ASSUME NEW row \in Dashboard, CreateDashboard(d, row) PROVE DashboardInv'
    <2>1. Writes(dashboards, dashboards', d, row)
      BY <1>1 DEF CreateDashboard, Writes
    <2> QED BY <1>1, <2>1, BoardWritten DEF CreateDashboard
  <1>2. ASSUME NEW act \in Flag, NEW def \in Flag, UpdateDashboard(d, act, def) PROVE DashboardInv'
    BY <1>2, BoardFlagsWritten DEF UpdateDashboard
  <1>3. CASE ActivateDashboard(d) \/ DeactivateDashboard(d)
    <2>1. PICK act \in Flag : dashboards' = [dashboards EXCEPT ![d].is_active = act]
      BY <1>3, FlagsAreFlags DEF ActivateDashboard, DeactivateDashboard
    <2>2. d \in DOMAIN dashboards /\ chosen' \in {chosen, NULL} /\ UNCHANGED <<contacts, dashboard_widgets>>
      BY <1>3 DEF ActivateDashboard, DeactivateDashboard
    <2>3. dashboards[d] \in Dashboard /\ dashboards[d].created_by \in DOMAIN contacts \cup {NULL}
      BY <2>2 DEF DashboardInv, DashboardsTypeOK, IsTable, BoardsFit
    <2>4. PICK row : row = [dashboards[d] EXCEPT !.is_active = act]
      OBVIOUS
    <2>5. row \in Dashboard /\ row.created_by = dashboards[d].created_by
      BY <2>3, <2>4 DEF Dashboard
    <2>6. Writes(dashboards, dashboards', d, row)
      BY <2>1, <2>2, <2>4 DEF Writes
    <2> QED BY <2>2, <2>3, <2>5, <2>6, BoardWritten
  <1> QED BY <1>1, <1>2, <1>3

LEMMA DefaultBoardKeeps == ASSUME DashboardInv, NEW d \in DashboardIds, SetDefaultDashboard(d) PROVE DashboardInv'
  <1>1. \A e \in DOMAIN dashboards : /\ [dashboards[e] EXCEPT !.is_default = FALSE] \in Dashboard
                                     /\ [dashboards[e] EXCEPT !.is_default = FALSE].created_by = dashboards[e].created_by
    BY FlagsAreFlags DEF DashboardInv, DashboardsTypeOK, IsTable, Dashboard
  <1>2. /\ IsTable(dashboards', DashboardIds, Dashboard) /\ DOMAIN dashboards' = DOMAIN dashboards
        /\ \A e \in DOMAIN dashboards' : dashboards'[e].created_by = dashboards[e].created_by
    BY <1>1 DEF SetDefaultDashboard, DashboardInv, DashboardsTypeOK, IsTable
  <1>3. BoardsFit'
    BY <1>2 DEF SetDefaultDashboard, DashboardInv, BoardsFit
  <1> QED BY <1>2, <1>3 DEF SetDefaultDashboard, DashboardInv, DashboardsTypeOK, ContactsTypeOK

LEMMA BoardDeleted == ASSUME DashboardInv, NEW d \in DashboardIds, DeleteDashboard(d) PROVE DashboardInv'
  <1>1. PICK W : W = {w \in DOMAIN dashboard_widgets : dashboard_widgets[w].dashboard_id = d}
    OBVIOUS
  <1>2. /\ IsTable(dashboards', DashboardIds, Dashboard) /\ DOMAIN dashboards' = DOMAIN dashboards \ {d}
        /\ \A e \in DOMAIN dashboards' : dashboards'[e] = dashboards[e]
    BY DEF DeleteDashboard, DashboardInv, DashboardsTypeOK, IsTable, Without
  <1>3. /\ IsTable(dashboard_widgets', WidgetIds, DashboardWidget)
        /\ DOMAIN dashboard_widgets' = DOMAIN dashboard_widgets \ W
        /\ \A w \in DOMAIN dashboard_widgets' : dashboard_widgets'[w] = dashboard_widgets[w]
    BY <1>1 DEF DeleteDashboard, DashboardInv, DashboardsTypeOK, IsTable, Without
  <1>4. UNCHANGED contacts /\ chosen' = NULL
    BY DEF DeleteDashboard
  <1>5. IsFiniteSet(DOMAIN dashboard_widgets')
    BY <1>3, FS_Subset DEF DashboardInv, BoardsFit
  <1>6. BoardsFit'
    BY <1>1, <1>2, <1>3, <1>4, <1>5 DEF DashboardInv, BoardsFit
  <1> QED BY <1>2, <1>3, <1>4, <1>6 DEF DashboardInv, DashboardsTypeOK, ContactsTypeOK

LEMMA WidgetWritten ==
  ASSUME DashboardInv, NEW w \in WidgetIds, NEW row \in DashboardWidget, row.dashboard_id \in DOMAIN dashboards,
         Writes(dashboard_widgets, dashboard_widgets', w, row), UNCHANGED <<contacts, dashboards, chosen>>
  PROVE  DashboardInv'
  <1>1. /\ IsTable(dashboard_widgets', WidgetIds, DashboardWidget)
        /\ DOMAIN dashboard_widgets' = DOMAIN dashboard_widgets \cup {w}
        /\ dashboard_widgets'[w] = row
        /\ \A v \in DOMAIN dashboard_widgets \ {w} : dashboard_widgets'[v] = dashboard_widgets[v]
    BY DEF DashboardInv, DashboardsTypeOK, IsTable, Insert, Writes
  <1>2. IsFiniteSet(DOMAIN dashboard_widgets')
    BY <1>1, FS_AddElement DEF DashboardInv, BoardsFit
  <1>3. BoardsFit'
    BY <1>1, <1>2 DEF DashboardInv, BoardsFit
  <1> QED BY <1>1, <1>3 DEF DashboardInv, DashboardsTypeOK, ContactsTypeOK

LEMMA WidgetKeeps ==
  ASSUME DashboardInv, NEW w \in WidgetIds,
         \/ ActivateDashboardWidget(w) \/ DeactivateDashboardWidget(w)
         \/ \E row \in DashboardWidget : CreateDashboardWidget(w, row) \/ UpdateDashboardWidget(w, row)
  PROVE  DashboardInv'
  <1>1. ASSUME NEW row \in DashboardWidget, CreateDashboardWidget(w, row) \/ UpdateDashboardWidget(w, row) PROVE DashboardInv'
    <2>1. Writes(dashboard_widgets, dashboard_widgets', w, row)
      BY <1>1 DEF CreateDashboardWidget, UpdateDashboardWidget, Writes
    <2> QED BY <1>1, <2>1, WidgetWritten DEF CreateDashboardWidget, UpdateDashboardWidget
  <1>2. CASE ActivateDashboardWidget(w) \/ DeactivateDashboardWidget(w)
    <2>1. PICK act \in Flag : dashboard_widgets' = [dashboard_widgets EXCEPT ![w].is_active = act]
      BY <1>2, FlagsAreFlags DEF ActivateDashboardWidget, DeactivateDashboardWidget
    <2>2. w \in DOMAIN dashboard_widgets /\ UNCHANGED <<contacts, dashboards, chosen>>
      BY <1>2 DEF ActivateDashboardWidget, DeactivateDashboardWidget
    <2>3. dashboard_widgets[w] \in DashboardWidget /\ dashboard_widgets[w].dashboard_id \in DOMAIN dashboards
      BY <2>2 DEF DashboardInv, DashboardsTypeOK, IsTable, BoardsFit
    <2>4. PICK row : row = [dashboard_widgets[w] EXCEPT !.is_active = act]
      OBVIOUS
    <2>5. row \in DashboardWidget /\ row.dashboard_id = dashboard_widgets[w].dashboard_id
      BY <2>3, <2>4 DEF DashboardWidget
    <2>6. Writes(dashboard_widgets, dashboard_widgets', w, row)
      BY <2>1, <2>2, <2>4 DEF Writes
    <2> QED BY <2>2, <2>3, <2>5, <2>6, WidgetWritten
  <1> QED BY <1>1, <1>2

LEMMA WidgetDeleted == ASSUME DashboardInv, NEW w \in WidgetIds, DeleteDashboardWidget(w) PROVE DashboardInv'
  <1>1. /\ IsTable(dashboard_widgets', WidgetIds, DashboardWidget)
        /\ DOMAIN dashboard_widgets' = DOMAIN dashboard_widgets \ {w}
        /\ \A v \in DOMAIN dashboard_widgets' : dashboard_widgets'[v] = dashboard_widgets[v]
        /\ UNCHANGED <<contacts, dashboards, chosen>>
    BY DEF DeleteDashboardWidget, DashboardInv, DashboardsTypeOK, IsTable, Without
  <1>2. IsFiniteSet(DOMAIN dashboard_widgets')
    BY <1>1, FS_Subset DEF DashboardInv, BoardsFit
  <1>3. BoardsFit'
    BY <1>1, <1>2 DEF DashboardInv, BoardsFit
  <1> QED BY <1>1, <1>3 DEF DashboardInv, DashboardsTypeOK, ContactsTypeOK

LEMMA DesignerKeeps == ASSUME DashboardInv, NEW c \in ContactIds, CreateDesigner(c) \/ DeleteDesigner(c) PROVE DashboardInv'
  <1>1. ContactsTypeOK' /\ UNCHANGED <<dashboards, dashboard_widgets, chosen>>
    BY ActorCreated, ContactDeleted DEF CreateDesigner, DeleteDesigner, DashboardInv
  <1>2. \A d \in DOMAIN dashboards : dashboards[d].created_by \in DOMAIN contacts' \cup {NULL}
    BY ActorCreated, ContactDeleted DEF CreateDesigner, DeleteDesigner, DashboardInv, BoardsFit
  <1>3. BoardsFit'
    BY <1>1, <1>2 DEF DashboardInv, BoardsFit
  <1> QED BY <1>1, <1>3 DEF DashboardInv, DashboardsTypeOK

LEMMA DashboardsNextKeeps == DashboardInv /\ [DashboardsNext]_dashboardVars => DashboardInv'
  <1>1. ASSUME DashboardInv, UNCHANGED dashboardVars PROVE DashboardInv'
    BY <1>1 DEF dashboardVars, DashboardInv, ContactsTypeOK, DashboardsTypeOK, BoardsFit
  <1>2. ASSUME DashboardInv, NEW d \in DashboardIds, NEW act \in Flags, NEW def \in Flags, NEW c \in ContactIds \cup {NULL},
               CreateDashboard(d, [is_active |-> act, is_default |-> def, created_by |-> c])
        PROVE  DashboardInv'
    <2>1. PICK row : row = [is_active |-> act, is_default |-> def, created_by |-> c]
      OBVIOUS
    <2>2. row \in Dashboard
      BY <2>1, FlagsAreFlags DEF Dashboard
    <2> QED BY <1>2, <2>1, <2>2, BoardKeeps
  <1>3. ASSUME DashboardInv, NEW w \in WidgetIds, NEW d \in DashboardIds, NEW ty \in WidgetTypes, NEW row,
               row = [dashboard_id |-> d, widget_type |-> ty, is_active |-> TRUE],
               CreateDashboardWidget(w, row) \/ UpdateDashboardWidget(w, row)
        PROVE  DashboardInv'
    <2>1. row \in DashboardWidget
      BY <1>3, FlagsAreFlags DEF DashboardWidget
    <2> QED BY <1>3, <2>1, WidgetKeeps
  <1>4. ASSUME DashboardInv, DashboardsNext PROVE DashboardInv'
    BY <1>2, <1>3, <1>4, FlagsAreFlags, DesignerKeeps, BoardKeeps, DefaultBoardKeeps, BoardDeleted, WidgetKeeps, WidgetDeleted
       DEF DashboardsNext
  <1> QED BY <1>1, <1>4

(* Dashboards and widgets keep rows of their types under ids of their own, *)
(* and the dashboard last made the default is one of them or none.         *)
THEOREM DashboardTypeCorrect == DashboardsSpec => []DashboardsTypeOK
  <1>1. DashboardInv => DashboardsTypeOK
    BY DEF DashboardInv
  <1> QED BY <1>1, DashboardInitInv, DashboardsNextKeeps, PTL DEF DashboardsSpec

LEMMA ActiveMeansTrue == \A x : Eq(x, TRUE) <=> x = TRUE
  BY RelationalAssumption DEF Eq

LEMMA BoardsAnswer == DashboardInv => DashboardAnswersAgree
  <1> SUFFICES ASSUME DashboardInv PROVE DashboardAnswersAgree
    OBVIOUS
  <1>1. \A d \in ListDashboards : dashboards[d].created_by \in ListAllContacts \cup {NULL}
    BY DEF DashboardInv, BoardsFit, ListDashboards, ListAllContacts
  <1>2. \A w \in ListDashboardWidgets : GetDashboard(dashboard_widgets[w].dashboard_id) # {}
    BY DEF DashboardInv, BoardsFit, ListDashboardWidgets, GetDashboard
  <1>3. GetDashboardWidgetSummary(TRUE) = ListActiveDashboardWidgets
    BY ActiveMeansTrue DEF DashboardInv, BoardsFit, GetDashboardWidgetSummary, ListActiveDashboardWidgets
  <1>4. ASSUME NEW d \in GetActiveDashboards
        PROVE  GetDashboardStats(TRUE)[d].widgets >= GetDashboardSummary(TRUE)[d]
    <2>1. d \in {e \in DOMAIN dashboards : Eq(dashboards[e].is_active, TRUE)}
      BY ActiveMeansTrue DEF GetActiveDashboards
    <2>2. PICK S : S = {w \in DOMAIN dashboard_widgets : dashboard_widgets[w].dashboard_id = d}
      OBVIOUS
    <2>3. /\ GetDashboardStats(TRUE)[d].widgets = Cardinality(S)
          /\ GetDashboardSummary(TRUE)[d] = Cardinality(GetActiveDashboardWidgets(d))
      BY <2>1, <2>2 DEF GetDashboardStats, GetDashboardSummary
    <2>4. IsFiniteSet(S) /\ GetActiveDashboardWidgets(d) \subseteq S
      BY <2>2, FS_Subset DEF DashboardInv, BoardsFit, GetActiveDashboardWidgets
    <2>5. Cardinality(S) >= Cardinality(GetActiveDashboardWidgets(d))
      BY <2>4, FS_Subset, FS_CardinalityType
    <2> QED BY <2>3, <2>5
  <1> QED BY <1>1, <1>2, <1>3, <1>4 DEF DashboardAnswersAgree

(* What the queries of dashboards.sql.go and dashboard_widgets.sql.go  *)
(* answer fits together for any dashboards, widgets and creators: what *)
(* a board and a widget refer to is found, and the statistics count no *)
(* fewer widgets than the summary shows.                               *)
THEOREM DashboardsAnswer == DashboardsSpec => []DashboardAnswersAgree
  BY BoardsAnswer, DashboardInitInv, DashboardsNextKeeps, PTL DEF DashboardsSpec

-----------------------------------------------------------------------------
(* Custom data.  CustomRefs speaks of what lookups find; what is inductive is *)
(* the uniqueness behind it: of the names of groups, of the names of the      *)
(* fields of a group, and of the values that an entity has for a field.       *)

GroupsDiffer ==
  \A g, h \in DOMAIN custom_groups : custom_groups[g].name = custom_groups[h].name => g = h

FieldsFit ==
  /\ \A f \in DOMAIN custom_fields : custom_fields[f].custom_group_id \in DOMAIN custom_groups
  /\ \A f, h \in DOMAIN custom_fields :
       /\ custom_fields[f].custom_group_id = custom_fields[h].custom_group_id
       /\ custom_fields[f].name = custom_fields[h].name
       => f = h

OptionsFit == \A o \in DOMAIN custom_field_options :
  custom_field_options[o].custom_field_id \in DOMAIN custom_fields

ValuesFit ==
  /\ \A v \in DOMAIN custom_values : custom_values[v].custom_field_id \in DOMAIN custom_fields
  /\ \A v, w \in DOMAIN custom_values :
       /\ custom_values[v].custom_field_id = custom_values[w].custom_field_id
       /\ custom_values[v].entity = custom_values[w].entity
       => v = w

CustomInv == CustomDataTypeOK /\ GroupsDiffer /\ FieldsFit /\ OptionsFit /\ ValuesFit

LEMMA CustomInitInv == CustomDataInit => CustomInv
  BY DEF CustomDataInit, CustomInv, CustomDataTypeOK, GroupsDiffer, FieldsFit, OptionsFit, ValuesFit, IsTable, NoRows

-----------------------------------------------------------------------------
(* Groups. *)

LEMMA CreateCustomGroupKeeps ==
  ASSUME CustomInv, NEW g \in CustomGroupIds, NEW row \in CustomGroup, CreateCustomGroup(g, row)
  PROVE  CustomInv'
  <1>1. /\ IsTable(custom_groups', CustomGroupIds, CustomGroup)
        /\ DOMAIN custom_groups' = DOMAIN custom_groups \cup {g}
        /\ custom_groups'[g] = row
        /\ \A j \in DOMAIN custom_groups : custom_groups'[j] = custom_groups[j]
    BY DEF CreateCustomGroup, CustomInv, CustomDataTypeOK, IsTable, Insert
  <1> QED
    BY <1>1 DEF CustomInv, CustomDataTypeOK, GroupsDiffer, FieldsFit, OptionsFit, ValuesFit, CreateCustomGroup

LEMMA UpdateCustomGroupKeeps ==
  ASSUME CustomInv, NEW g \in CustomGroupIds, NEW ext \in Extended, NEW act \in Flag, UpdateCustomGroup(g, ext, act)
  PROVE  CustomInv'
  <1>1. PICK row : row = [custom_groups[g] EXCEPT !.extends = ext, !.is_active = act]
    OBVIOUS
  <1>2. row \in CustomGroup /\ row.name = custom_groups[g].name /\ g \in DOMAIN custom_groups
    BY <1>1 DEF UpdateCustomGroup, CustomInv, CustomDataTypeOK, IsTable, CustomGroup
  <1>3. custom_groups' = [custom_groups EXCEPT ![g] = row]
    BY <1>1 DEF UpdateCustomGroup
  <1>4. /\ IsTable(custom_groups', CustomGroupIds, CustomGroup)
        /\ DOMAIN custom_groups' = DOMAIN custom_groups
        /\ \A j \in DOMAIN custom_groups : custom_groups'[j].name = custom_groups[j].name
    BY <1>2, <1>3 DEF CustomInv, CustomDataTypeOK, IsTable
  <1> QED
    BY <1>4 DEF CustomInv, CustomDataTypeOK, GroupsDiffer, FieldsFit, OptionsFit, ValuesFit, UpdateCustomGroup

(* What DropFields leaves fits together, if the fields it drops go with all   *)
(* that refers to them.                                                       *)
LEMMA DropFieldsKeeps ==
  ASSUME CustomInv, NEW F, DropFields(F)
  PROVE  /\ IsTable(custom_fields', CustomFieldIds, CustomField)
         /\ DOMAIN custom_fields' = DOMAIN custom_fields \ F
         /\ \A f \in DOMAIN custom_fields' : custom_fields'[f] = custom_fields[f]
         /\ IsTable(custom_field_options', OptionIds, CustomFieldOption) /\ OptionsFit'
         /\ IsTable(custom_values', ValueIds, CustomValue) /\ ValuesFit'
  <1>1. /\ IsTable(custom_fields', CustomFieldIds, CustomField)
        /\ DOMAIN custom_fields' = DOMAIN custom_fields \ F
        /\ \A f \in DOMAIN custom_fields' : custom_fields'[f] = custom_fields[f]
    BY DEF DropFields, CustomInv, CustomDataTypeOK, IsTable, Without
  <1>2. /\ IsTable(custom_field_options', OptionIds, CustomFieldOption)
        /\ DOMAIN custom_field_options' = DOMAIN custom_field_options \ OptionsOf(F)
        /\ \A o \in DOMAIN custom_field_options' : custom_field_options'[o] = custom_field_options[o]
    BY DEF DropFields, CustomInv, CustomDataTypeOK, IsTable, Without
  <1>3. /\ IsTable(custom_values', ValueIds, CustomValue)
        /\ DOMAIN custom_values' = DOMAIN custom_values \ ValuesOf(F)
        /\ \A v \in DOMAIN custom_values' : custom_values'[v] = custom_values[v]
    BY DEF DropFields, CustomInv, CustomDataTypeOK, IsTable, Without
  <1>4. OptionsFit'
    BY <1>1, <1>2 DEF OptionsFit, OptionsOf, CustomInv
  <1>5. ValuesFit'
    BY <1>1, <1>3 DEF ValuesFit, ValuesOf, CustomInv
  <1> QED BY <1>1, <1>2, <1>3, <1>4, <1>5

LEMMA DeleteCustomGroupKeeps ==
  ASSUME CustomInv, NEW g \in CustomGroupIds, DeleteCustomGroup(g)
  PROVE  CustomInv'
  <1>1. /\ IsTable(custom_groups', CustomGroupIds, CustomGroup)
        /\ DOMAIN custom_groups' = DOMAIN custom_groups \ {g}
        /\ \A h \in DOMAIN custom_groups' : custom_groups'[h] = custom_groups[h]
    BY DEF DeleteCustomGroup, CustomInv, CustomDataTypeOK, IsTable, Without
  <1>2. DropFields(FieldsOf({g}))
    BY DEF DeleteCustomGroup
  <1>3. GroupsDiffer'
    BY <1>1 DEF GroupsDiffer, CustomInv
  <1>4. /\ DOMAIN custom_fields' = DOMAIN custom_fields \ FieldsOf({g})
        /\ \A f \in DOMAIN custom_fields' : custom_fields'[f] = custom_fields[f]
    BY <1>2, DropFieldsKeeps
  <1>5. FieldsFit'
    BY <1>1, <1>4 DEF FieldsFit, FieldsOf, CustomInv
  <1> QED
    BY <1>1, <1>2, <1>3, <1>5, DropFieldsKeeps DEF CustomInv, CustomDataTypeOK

-----------------------------------------------------------------------------
(* Fields and their options. *)

LEMMA CreateFieldKeeps ==
  ASSUME CustomInv, NEW f \in CustomFieldIds, NEW row \in CustomField, CreateCustomField(f, row)
  PROVE  CustomInv'
  <1>1. /\ IsTable(custom_fields', CustomFieldIds, CustomField)
        /\ DOMAIN custom_fields' = DOMAIN custom_fields \cup {f}
        /\ custom_fields'[f] = row
        /\ \A j \in DOMAIN custom_fields : custom_fields'[j] = custom_fields[j]
    BY DEF CreateCustomField, CustomInv, CustomDataTypeOK, IsTable, Insert
  <1>2. row.custom_group_id \in DOMAIN custom_groups /\ f \notin DOMAIN custom_fields
    BY DEF CreateCustomField
  <1>3. \A h \in DOMAIN custom_fields : custom_fields[h].custom_group_id = row.custom_group_id
                                          => custom_fields[h].name # row.name
    BY DEF CreateCustomField, FieldsOf
  <1>4. FieldsFit'
    BY <1>1, <1>2, <1>3 DEF FieldsFit, CustomInv, CreateCustomField
  <1> QED
    BY <1>1, <1>4 DEF CustomInv, CustomDataTypeOK, GroupsDiffer, OptionsFit, ValuesFit, CreateCustomField

LEMMA UpdateFieldKeeps ==
  ASSUME CustomInv, NEW f \in CustomFieldIds, NEW act \in Flag, NEW srch \in Flag, UpdateCustomField(f, act, srch)
  PROVE  CustomInv'
  <1>1. PICK row : row = [custom_fields[f] EXCEPT !.is_active = act, !.is_searchable = srch]
    OBVIOUS
  <1>2. /\ row \in CustomField /\ f \in DOMAIN custom_fields
        /\ row.name = custom_fields[f].name /\ row.custom_group_id = custom_fields[f].custom_group_id
    BY <1>1 DEF UpdateCustomField, CustomInv, CustomDataTypeOK, IsTable, CustomField
  <1>3. custom_fields' = [custom_fields EXCEPT ![f] = row]
    BY <1>1 DEF UpdateCustomField
  <1>4. /\ IsTable(custom_fields', CustomFieldIds, CustomField)
        /\ DOMAIN custom_fields' = DOMAIN custom_fields
        /\ \A j \in DOMAIN custom_fields : /\ custom_fields'[j].name = custom_fields[j].name
                                           /\ custom_fields'[j].custom_group_id = custom_fields[j].custom_group_id
    BY <1>2, <1>3 DEF CustomInv, CustomDataTypeOK, IsTable
  <1> QED
    BY <1>4 DEF CustomInv, CustomDataTypeOK, GroupsDiffer, FieldsFit, OptionsFit, ValuesFit, UpdateCustomField

LEMMA DeleteFieldKeeps ==
  ASSUME CustomInv, NEW f \in CustomFieldIds, DeleteCustomField(f)
  PROVE  CustomInv'
  <1>1. DropFields({f}) /\ custom_groups' = custom_groups
    BY DEF DeleteCustomField
  <1>2. FieldsFit'
    BY <1>1, DropFieldsKeeps DEF FieldsFit, CustomInv
  <1> QED
    BY <1>1, <1>2, DropFieldsKeeps DEF CustomInv, CustomDataTypeOK, GroupsDiffer

LEMMA OptionKeeps ==
  ASSUME CustomInv, NEW o \in OptionIds, NEW f \in CustomFieldIds, NEW act \in Flag,
         CreateCustomFieldOption(o, f, act) \/ UpdateCustomFieldOption(o, act) \/ DeleteCustomFieldOption(o)
  PROVE  CustomInv'
  <1>1. UNCHANGED <<custom_groups, custom_fields, custom_values>>
    BY DEF CreateCustomFieldOption, UpdateCustomFieldOption, DeleteCustomFieldOption
  <1>2. IsTable(custom_field_options', OptionIds, CustomFieldOption) /\ OptionsFit'
    <2>1. CASE CreateCustomFieldOption(o, f, act)
      BY <1>1, <2>1 DEF CreateCustomFieldOption, CustomInv, CustomDataTypeOK, IsTable, Insert, OptionsFit, CustomFieldOption
    <2>2. CASE UpdateCustomFieldOption(o, act)
      BY <1>1, <2>2 DEF UpdateCustomFieldOption, CustomInv, CustomDataTypeOK, IsTable, OptionsFit, CustomFieldOption
    <2>3. CASE DeleteCustomFieldOption(o)
      BY <1>1, <2>3 DEF DeleteCustomFieldOption, CustomInv, CustomDataTypeOK, IsTable, Without, OptionsFit
    <2> QED BY <2>1, <2>2, <2>3
  <1> QED
    BY <1>1, <1>2 DEF CustomInv, CustomDataTypeOK, GroupsDiffer, FieldsFit, ValuesFit

-----------------------------------------------------------------------------
(* Values. *)

LEMMA CreateValueKeeps ==
  ASSUME CustomInv, NEW v \in ValueIds, NEW f \in CustomFieldIds, NEW e \in Entities, NEW x \in CustomContents,
         CreateCustomValue(v, f, e, x)
  PROVE  CustomInv'
  <1>1. PICK row \in CustomValue : row = [custom_field_id |-> f, entity |-> e, value |-> x]
    BY DEF CustomValue
  <1>2. row.custom_field_id = f /\ row.entity = e
    BY <1>1
  <1>3. /\ IsTable(custom_values', ValueIds, CustomValue)
        /\ DOMAIN custom_values' = DOMAIN custom_values \cup {v}
        /\ custom_values'[v] = row
        /\ \A w \in DOMAIN custom_values : custom_values'[w] = custom_values[w]
    BY <1>1 DEF CreateCustomValue, CustomInv, CustomDataTypeOK, IsTable, Insert
  <1>4. \A w \in DOMAIN custom_values : ~ (custom_values[w].custom_field_id = f /\ custom_values[w].entity = e)
    BY DEF CreateCustomValue, GetCustomValueByField
  <1>5. ValuesFit'
    BY <1>2, <1>3, <1>4 DEF ValuesFit, CustomInv, CreateCustomValue
  <1> QED
    BY <1>3, <1>5 DEF CustomInv, CustomDataTypeOK, GroupsDiffer, FieldsFit, OptionsFit, CreateCustomValue

LEMMA UpdateValueKeeps ==
  ASSUME CustomInv, NEW f \in CustomFieldIds, NEW e \in Entities, NEW x \in CustomContents, UpdateCustomValue(f, e, x)
  PROVE  CustomInv'
  <1>1. \A v \in DOMAIN custom_values :
          /\ [custom_values[v] EXCEPT !.value = x] \in CustomValue
          /\ [custom_values[v] EXCEPT !.value = x].custom_field_id = custom_values[v].custom_field_id
          /\ [custom_values[v] EXCEPT !.value = x].entity = custom_values[v].entity
    BY DEF CustomInv, CustomDataTypeOK, IsTable, CustomValue
  <1>2. /\ IsTable(custom_values', ValueIds, CustomValue)
        /\ DOMAIN custom_values' = DOMAIN custom_values
        /\ \A v \in DOMAIN custom_values : /\ custom_values'[v].custom_field_id = custom_values[v].custom_field_id
                                           /\ custom_values'[v].entity = custom_values[v].entity
    BY <1>1 DEF UpdateCustomValue, CustomInv, CustomDataTypeOK, IsTable
  <1> QED
    BY <1>2 DEF CustomInv, CustomDataTypeOK, GroupsDiffer, FieldsFit, OptionsFit, ValuesFit, UpdateCustomValue

LEMMA DeleteValueKeeps ==
  ASSUME CustomInv, NEW V, custom_values' = Without(custom_values, V),
         UNCHANGED <<custom_groups, custom_fields, custom_field_options>>
  PROVE  CustomInv'
  <1>1. /\ IsTable(custom_values', ValueIds, CustomValue)
        /\ DOMAIN custom_values' = DOMAIN custom_values \ V
        /\ \A v \in DOMAIN custom_values' : custom_values'[v] = custom_values[v]
    BY DEF CustomInv, CustomDataTypeOK, IsTable, Without
  <1> QED
    BY <1>1 DEF CustomInv, CustomDataTypeOK, GroupsDiffer, FieldsFit, OptionsFit, ValuesFit

-----------------------------------------------------------------------------

LEMMA CustomNextKeeps == CustomInv /\ [CustomDataNext]_customVars => CustomInv'
  <1> SUFFICES ASSUME CustomInv, [CustomDataNext]_customVars PROVE CustomInv'
    OBVIOUS
  <1>1. ASSUME NEW g \in CustomGroupIds,
               \/ DeleteCustomGroup(g)
               \/ \E ext \in Extended, act \in Flags : UpdateCustomGroup(g, ext, act)
               \/ \E n \in CustomNames, ext \in Extended :
                    CreateCustomGroup(g, [name |-> n, extends |-> ext, is_active |-> TRUE])
        PROVE  CustomInv'
    <2>1. \A n \in CustomNames, ext \in Extended : [name |-> n, extends |-> ext, is_active |-> TRUE] \in CustomGroup
      BY DEF CustomGroup, Flag
    <2> QED
      BY <1>1, <2>1, DeleteCustomGroupKeeps, UpdateCustomGroupKeeps, CreateCustomGroupKeeps, RelationalAssumption
  <1>2. ASSUME NEW f \in CustomFieldIds,
               \/ DeleteCustomField(f)
               \/ \E act \in Flags : UpdateCustomField(f, act, TRUE)
               \/ \E g \in CustomGroupIds, n \in CustomNames, srch \in Flags : CreateCustomField(f,
                    [custom_group_id |-> g, name |-> n, is_active |-> TRUE, is_searchable |-> srch])
        PROVE  CustomInv'
    <2>1. \A g \in CustomGroupIds, n \in CustomNames, srch \in Flags :
            [custom_group_id |-> g, name |-> n, is_active |-> TRUE, is_searchable |-> srch] \in CustomField
      BY RelationalAssumption DEF CustomField, Flag
    <2>2. TRUE \in Flag
      BY DEF Flag
    <2> QED
      BY <1>2, <2>1, <2>2, DeleteFieldKeeps, UpdateFieldKeeps, CreateFieldKeeps, RelationalAssumption
  <1>3. ASSUME NEW o \in OptionIds, NEW f \in CustomFieldIds, CreateCustomFieldOption(o, f, TRUE)
        PROVE  CustomInv'
    BY <1>3, OptionKeeps DEF Flag
  <1>4. ASSUME NEW o \in OptionIds, DeleteCustomFieldOption(o) \/ \E act \in Flags : UpdateCustomFieldOption(o, act)
        PROVE  CustomInv'
    <2>1. CASE CustomFieldIds = {}
      <3>1. DOMAIN custom_field_options = {}
        BY <2>1 DEF CustomInv, OptionsFit, CustomDataTypeOK, IsTable
      <3> QED BY <1>4, <3>1 DEF DeleteCustomFieldOption, UpdateCustomFieldOption
    <2>2. CASE CustomFieldIds # {}
      BY <1>4, <2>2, OptionKeeps, RelationalAssumption DEF Flag
    <2> QED BY <2>1, <2>2
  <1>5. ASSUME NEW f \in CustomFieldIds, NEW e \in Entities, NEW x \in CustomContents,
               UpdateCustomValue(f, e, x) \/ \E v \in ValueIds : CreateCustomValue(v, f, e, x)
        PROVE  CustomInv'
    BY <1>5, UpdateValueKeeps, CreateValueKeeps
  <1>6. ASSUME NEW v \in ValueIds, DeleteCustomValue(v)
        PROVE  CustomInv'
    BY <1>6, DeleteValueKeeps DEF DeleteCustomValue
  <1>7. ASSUME NEW e \in Entities, DeleteCustomValuesByEntity(e)
        PROVE  CustomInv'
    BY <1>7, DeleteValueKeeps DEF DeleteCustomValuesByEntity
  <1>8. CASE UNCHANGED customVars
    BY <1>8 DEF customVars, CustomInv, CustomDataTypeOK, GroupsDiffer, FieldsFit, OptionsFit, ValuesFit
  <1> QED
    BY <1>1, <1>2, <1>3, <1>4, <1>5, <1>6, <1>7, <1>8 DEF CustomDataNext

(* The four tables keep rows of their types under ids of their own            *)
(* (migrations/029_custom_fields_system.sql, custom_fields.sql.go).           *)
THEOREM CustomTypeCorrect == CustomDataSpec => []CustomDataTypeOK
  <1>1. CustomInv => CustomDataTypeOK
    BY DEF CustomInv
  <1> QED BY <1>1, CustomInitInv, CustomNextKeeps, PTL DEF CustomDataSpec

(* What a lookup by name or by field finds. *)
LEMMA FieldsAndValuesFound == CustomInv => CustomRefs
  <1> SUFFICES ASSUME CustomInv PROVE CustomRefs
    OBVIOUS
  <1>1. ASSUME NEW f \in DOMAIN custom_fields
        PROVE  /\ custom_fields[f].custom_group_id \in DOMAIN custom_groups
               /\ GetCustomFieldByName(custom_groups[custom_fields[f].custom_group_id].name, custom_fields[f].name) = {f}
    BY DEF CustomInv, FieldsFit, GroupsDiffer, GetCustomFieldByName
  <1>2. ASSUME NEW v \in DOMAIN custom_values
        PROVE  /\ custom_values[v].custom_field_id \in DOMAIN custom_fields
               /\ GetCustomValueByField(custom_values[v].custom_field_id, custom_values[v].entity) = {v}
    BY DEF CustomInv, ValuesFit, GetCustomValueByField
  <1> QED BY <1>1, <1>2 DEF CustomRefs, CustomInv, OptionsFit

(* No option or value outlives its field, no field its group, and a lookup by  *)
(* group and name, or by field and entity, finds at most one row, whatever is  *)
(* created, renamed and deleted (custom_fields.sql.go, DeleteCustomGroup,      *)
(* DeleteCustomField and the cascades behind them).                            *)
THEOREM CustomReferences == CustomDataSpec => []CustomRefs
  BY FieldsAndValuesFound, CustomInitInv, CustomNextKeeps, PTL DEF CustomDataSpec

LEMMA CustomAnswers == CustomInv => CustomAnswersAgree
  <1> SUFFICES ASSUME CustomInv PROVE CustomAnswersAgree
    OBVIOUS
  <1>1. \A g \in DOMAIN custom_groups : GetCustomGroup(g) = GetCustomGroupByName(custom_groups[g].name)
    BY DEF GetCustomGroup, GetCustomGroupByName, CustomInv, GroupsDiffer
  <1>2. \A g \in DOMAIN custom_groups : custom_groups[g].extends \in Extended
    BY DEF CustomInv, CustomDataTypeOK, IsTable, CustomGroup
  <1>3. ASSUME NEW act \in {TRUE, FALSE}
        PROVE  ListAllCustomGroups(act) = UNION {ListCustomGroups(ext, act) : ext \in Extended}
    <2>1. \A g : g \in ListAllCustomGroups(act) <=> \E ext \in Extended : g \in ListCustomGroups(ext, act)
      BY <1>2 DEF ListAllCustomGroups, ListCustomGroups
    <2> QED BY <2>1
  <1>4. \A f \in DOMAIN custom_fields : custom_fields[f].custom_group_id \in DOMAIN custom_groups
    BY DEF CustomInv, FieldsFit
  <1>5. UNION {ListCustomFieldsByGroup(g, TRUE) : g \in ListAllCustomGroups(TRUE)}
          = UNION {ListCustomFieldsByEntity(ext, TRUE, TRUE) : ext \in Extended}
    <2>1. ASSUME NEW f
          PROVE  (\E g \in ListAllCustomGroups(TRUE) : f \in ListCustomFieldsByGroup(g, TRUE))
                 <=> \E ext \in Extended : f \in ListCustomFieldsByEntity(ext, TRUE, TRUE)
      BY <1>2 DEF ListAllCustomGroups, ListCustomFieldsByGroup, ListCustomFieldsByEntity, FieldsOf
    <2> QED BY <2>1
  <1>6. ASSUME NEW e \in Entities
        PROVE  /\ CountCustomValuesByEntity(e) = Cardinality(GetCustomValuesByEntity(e))
               /\ \A v \in GetCustomValuesByEntity(e) :
                    \/ v \in SearchCustomValues(e, TRUE) \/ v \in SearchCustomValues(e, FALSE)
                    \/ custom_fields[custom_values[v].custom_field_id].is_searchable = NULL
    <2>1. \A v \in DOMAIN custom_values : custom_values[v].custom_field_id \in DOMAIN custom_fields
      BY DEF CustomInv, ValuesFit
    <2>2. GetCustomValuesByEntity(e) = {v \in DOMAIN custom_values : custom_values[v].entity = e}
      BY <1>4, <2>1 DEF GetCustomValuesByEntity
    <2>3. CountCustomValuesByEntity(e) = Cardinality(GetCustomValuesByEntity(e))
      BY <2>2 DEF CountCustomValuesByEntity
    <2>4. \A f \in DOMAIN custom_fields : custom_fields[f].is_searchable \in Flag
      BY DEF CustomInv, CustomDataTypeOK, IsTable, CustomField
    <2>5. ASSUME NEW v \in GetCustomValuesByEntity(e)
          PROVE  \/ v \in SearchCustomValues(e, TRUE) \/ v \in SearchCustomValues(e, FALSE)
                 \/ custom_fields[custom_values[v].custom_field_id].is_searchable = NULL
      <3>1. v \in DOMAIN custom_values /\ custom_fields[custom_values[v].custom_field_id].is_searchable \in Flag
        BY <2>1, <2>2, <2>4
      <3> QED BY <2>5, <3>1, RelationalAssumption DEF SearchCustomValues, Flag, Eq
    <2> QED BY <2>3, <2>5
  <1> QED BY <1>1, <1>3, <1>5, <1>6 DEF CustomAnswersAgree

(* The groups and fields of each kind are those of the general listings, and an  *)
(* entity's values are counted, listed and searched alike, whatever of groups    *)
(* and fields was deactivated, regrouped and deleted (custom_fields.sql.go).     *)
THEOREM CustomAnswer == CustomDataSpec => []CustomAnswersAgree
  BY CustomAnswers, CustomInitInv, CustomNextKeeps, PTL DEF CustomDataSpec
=============================================================================
