----------------------------- MODULE Memberships -----------------------------
(* Memberships with their types and statuses, the log of their changes, and   *)
(* the contributions that pay for them (migrations/006_contributions.sql,     *)
(* 016_membership_system.sql; generated/memberships.sql.go,                   *)
(* membership_types, membership_status, membership_payments, membership_logs, *)
(* contributions).  Amounts, currencies, weights and texts are left out; the  *)
(* dates are one, the end of the membership.                                  *)
EXTENDS Contacts

CONSTANTS MembershipIds, TypeIds, StatusIds, MembershipPaymentIds, LogIds, ContributionIds,
          MemberNames,   \* names of types and statuses
          Terms,         \* the dates memberships end at
          PaymentStates  \* the statuses of payments and contributions: no constraint limits them

(* There are finitely many uuids, dates are counted, and NULL is no date and no status. *)
ASSUME MembershipsAssumption ==
  /\ IsFiniteSet(MembershipIds) /\ IsFiniteSet(ContributionIds)
  /\ Terms \subseteq Nat /\ NULL \notin Nat /\ NULL \notin PaymentStates

VARIABLES memberships, membership_types, membership_status,
          membership_payments, membership_logs, contributions

memberTables == <<memberships, membership_types, membership_status, membership_payments, membership_logs>>
membershipVars == <<contacts, memberTables, contributions>>

MembershipType == [name : MemberNames, member_of_contact_id : ContactIds \cup {NULL}, is_active : Flag]
MembershipStatus == [name : MemberNames, is_current_member : Flag, is_active : Flag]
Membership == [contact_id : ContactIds, membership_type_id : TypeIds, status_id : StatusIds, end_date : Terms \cup {NULL},
               contribution_id : ContributionIds \cup {NULL}, is_test : Flag]
MembershipPayment == [membership_id : MembershipIds, contribution_id : ContributionIds,
                      payment_status : PaymentStates \cup {NULL}]
MembershipLog == [membership_id : MembershipIds, modified_by_contact_id : ContactIds \cup {NULL},
                  status_id : StatusIds \cup {NULL}, membership_type_id : TypeIds \cup {NULL}]
Contribution == [contact_id : ContactIds, status : PaymentStates \cup {NULL}]

MembershipsTypeOK ==
  /\ IsTable(memberships, MembershipIds, Membership)
  /\ IsTable(membership_types, TypeIds, MembershipType)
  /\ IsTable(membership_status, StatusIds, MembershipStatus)
  /\ IsTable(membership_payments, MembershipPaymentIds, MembershipPayment)
  /\ IsTable(membership_logs, LogIds, MembershipLog)
  /\ IsTable(contributions, ContributionIds, Contribution)

-----------------------------------------------------------------------------
(* Types and statuses: the names are UNIQUE, what is in use cannot go. *)

CreateMembershipType(t, row) ==
  /\ t \in TypeIds \ DOMAIN membership_types
  /\ row.member_of_contact_id \in DOMAIN contacts \cup {NULL}
  /\ \A u \in DOMAIN membership_types : membership_types[u].name # row.name
  /\ membership_types' = Insert(membership_types, t, row)
  /\ UNCHANGED <<contacts, memberships, membership_status, membership_payments, membership_logs, contributions>>

UpdateMembershipType(t, row) ==
  /\ t \in DOMAIN membership_types
  /\ row.member_of_contact_id \in DOMAIN contacts \cup {NULL}
  /\ \A u \in DOMAIN membership_types \ {t} : membership_types[u].name # row.name
  /\ membership_types' = [membership_types EXCEPT ![t] = row]
  /\ UNCHANGED <<contacts, memberships, membership_status, membership_payments, membership_logs, contributions>>

SetTypeActive(t, act) ==
  t \in DOMAIN membership_types /\ UpdateMembershipType(t, [membership_types[t] EXCEPT !.is_active = act])
ActivateMembershipType(t) == SetTypeActive(t, TRUE)
DeactivateMembershipType(t) == SetTypeActive(t, FALSE)

(* A mutated form, in which a log does not keep the type. *)
DeleteMembershipTypeLogged(t) ==
  /\ t \in DOMAIN membership_types
  /\ \A m \in DOMAIN memberships : memberships[m].membership_type_id # t
  /\ membership_types' = Without(membership_types, {t})
  /\ UNCHANGED <<contacts, memberships, membership_status, membership_payments, membership_logs, contributions>>

DeleteMembershipType(t) ==
  /\ t \in DOMAIN membership_types
  /\ \A m \in DOMAIN memberships : memberships[m].membership_type_id # t
  /\ \A l \in DOMAIN membership_logs : membership_logs[l].membership_type_id # t
  /\ membership_types' = Without(membership_types, {t})
  /\ UNCHANGED <<contacts, memberships, membership_status, membership_payments, membership_logs, contributions>>

CreateMembershipStatus(s, row) ==
  /\ s \in StatusIds \ DOMAIN membership_status
  /\ \A u \in DOMAIN membership_status : membership_status[u].name # row.name
  /\ membership_status' = Insert(membership_status, s, row)
  /\ UNCHANGED <<contacts, memberships, membership_types, membership_payments, membership_logs, contributions>>

UpdateMembershipStatus(s, row) ==
  /\ s \in DOMAIN membership_status
  /\ \A u \in DOMAIN membership_status \ {s} : membership_status[u].name # row.name
  /\ membership_status' = [membership_status EXCEPT ![s] = row]
  /\ UNCHANGED <<contacts, memberships, membership_types, membership_payments, membership_logs, contributions>>

SetStatusActive(s, act) ==
  s \in DOMAIN membership_status /\ UpdateMembershipStatus(s, [membership_status[s] EXCEPT !.is_active = act])
ActivateMembershipStatus(s) == SetStatusActive(s, TRUE)
DeactivateMembershipStatus(s) == SetStatusActive(s, FALSE)

DeleteMembershipStatus(s) ==
  /\ s \in DOMAIN membership_status
  /\ \A m \in DOMAIN memberships : memberships[m].status_id # s
  /\ \A l \in DOMAIN membership_logs : membership_logs[l].status_id # s
  /\ membership_status' = Without(membership_status, {s})
  /\ UNCHANGED <<contacts, memberships, membership_types, membership_payments, membership_logs, contributions>>

-----------------------------------------------------------------------------
(* Memberships. *)

MembershipFits(row) ==
  /\ row.contact_id \in DOMAIN contacts /\ row.membership_type_id \in DOMAIN membership_types
  /\ row.status_id \in DOMAIN membership_status /\ row.contribution_id \in DOMAIN contributions \cup {NULL}

CreateMembership(m, row) ==
  /\ m \in MembershipIds \ DOMAIN memberships /\ MembershipFits(row)
  /\ memberships' = Insert(memberships, m, row)
  /\ UNCHANGED <<contacts, membership_types, membership_status, membership_payments, membership_logs, contributions>>

UpdateMembership(m, row) ==
  /\ m \in DOMAIN memberships /\ MembershipFits(row)
  /\ memberships' = [memberships EXCEPT ![m] = row]
  /\ UNCHANGED <<contacts, membership_types, membership_status, membership_payments, membership_logs, contributions>>

UpdateMembershipStatusById(m, s) ==
  m \in DOMAIN memberships /\ UpdateMembership(m, [memberships[m] EXCEPT !.status_id = s])
ExtendMembership(m, t) ==
  m \in DOMAIN memberships /\ UpdateMembership(m, [memberships[m] EXCEPT !.end_date = t])

PaymentsFor(M) == {p \in DOMAIN membership_payments : membership_payments[p].membership_id \in M}
LogsFor(M) == {l \in DOMAIN membership_logs : membership_logs[l].membership_id \in M}

(* Payments and logs go with the memberships M. *)
DropMemberships(M) ==
  /\ memberships' = Without(memberships, M)
  /\ membership_payments' = Without(membership_payments, PaymentsFor(M))
  /\ membership_logs' = Without(membership_logs, LogsFor(M))

DeleteMembership(m) ==
  /\ DropMemberships({m})
  /\ UNCHANGED <<contacts, membership_types, membership_status, contributions>>

(* A log names the status and the type the membership had, which it keeps. *)
LogFits(row) ==
  /\ row.membership_id \in DOMAIN memberships /\ row.status_id \in DOMAIN membership_status \cup {NULL}
  /\ row.membership_type_id \in DOMAIN membership_types \cup {NULL}
  /\ row.modified_by_contact_id \in DOMAIN contacts \cup {NULL}

CreateMembershipLog(l, row) ==
  /\ l \in LogIds \ DOMAIN membership_logs /\ LogFits(row)
  /\ membership_logs' = Insert(membership_logs, l, row)
  /\ UNCHANGED <<contacts, memberships, membership_types, membership_status, membership_payments, contributions>>

UpdateMembershipLog(l, row) ==
  /\ l \in DOMAIN membership_logs /\ LogFits(row)
  /\ membership_logs' = [membership_logs EXCEPT ![l] = row]
  /\ UNCHANGED <<contacts, memberships, membership_types, membership_status, membership_payments, contributions>>

DeleteMembershipLog(l) ==
  /\ membership_logs' = Without(membership_logs, {l})
  /\ UNCHANGED <<contacts, memberships, membership_types, membership_status, membership_payments, contributions>>

-----------------------------------------------------------------------------
(* Contributions and what they pay for; a payment may take a contribution of   *)
(* any contact, and several payments the same one.                             *)

CreateContribution(k, row) ==
  /\ k \in ContributionIds \ DOMAIN contributions
  /\ row.contact_id \in DOMAIN contacts
  /\ contributions' = Insert(contributions, k, row)
  /\ UNCHANGED <<contacts, memberTables>>

UpdateContribution(k, st) ==
  /\ k \in DOMAIN contributions
  /\ contributions' = [contributions EXCEPT ![k].status = st]
  /\ UNCHANGED <<contacts, memberTables>>

(* What neither a membership nor a payment that stays refers to. *)
Unpaying(K, M) ==
  /\ \A m \in DOMAIN memberships \ M : memberships[m].contribution_id \notin K
  /\ \A p \in DOMAIN membership_payments \ PaymentsFor(M) : membership_payments[p].contribution_id \notin K

DeleteContribution(k) ==
  /\ Unpaying({k}, {})
  /\ contributions' = Without(contributions, {k})
  /\ UNCHANGED <<contacts, memberTables>>

CreateMembershipPayment(p, row) ==
  /\ p \in MembershipPaymentIds \ DOMAIN membership_payments
  /\ row.membership_id \in DOMAIN memberships /\ row.contribution_id \in DOMAIN contributions
  /\ membership_payments' = Insert(membership_payments, p, row)
  /\ UNCHANGED <<contacts, memberships, membership_types, membership_status, membership_logs, contributions>>

UpdateMembershipPayment(p, row) ==
  /\ p \in DOMAIN membership_payments
  /\ row.membership_id \in DOMAIN memberships /\ row.contribution_id \in DOMAIN contributions
  /\ membership_payments' = [membership_payments EXCEPT ![p] = row]
  /\ UNCHANGED <<contacts, memberships, membership_types, membership_status, membership_logs, contributions>>

UpdatePaymentStatus(p, st) ==
  p \in DOMAIN membership_payments /\ UpdateMembershipPayment(p, [membership_payments[p] EXCEPT !.payment_status = st])

DeleteMembershipPayment(p) ==
  /\ membership_payments' = Without(membership_payments, {p})
  /\ UNCHANGED <<contacts, memberships, membership_types, membership_status, membership_logs, contributions>>

CreateMember(c) == CreateContact(c, SomeContact) /\ UNCHANGED <<memberTables, contributions>>

(* The contact's memberships and contributions go with it, unless one of the  *)
(* contributions pays for another's membership, or the contact offers         *)
(* memberships or has changed one that stays.                                 *)
DeleteMember(c) ==
  LET M == {m \in DOMAIN memberships : memberships[m].contact_id = c}
      K == {k \in DOMAIN contributions : contributions[k].contact_id = c}
  IN  /\ DeleteContact(c)
      /\ Unpaying(K, M)
      /\ \A t \in DOMAIN membership_types : membership_types[t].member_of_contact_id # c
      /\ \A l \in DOMAIN membership_logs \ LogsFor(M) : membership_logs[l].modified_by_contact_id # c
      /\ DropMemberships(M)
      /\ contributions' = Without(contributions, K)
      /\ UNCHANGED <<membership_types, membership_status>>

-----------------------------------------------------------------------------
(* Queries.  A search joins its rows with the contacts whose names match the   *)
(* text: C stands for the contacts it matches.                                *)

GetMembershipType(t) == DOMAIN membership_types \cap {t}
GetMembershipTypeByName(n) == {t \in DOMAIN membership_types : membership_types[t].name = n}
ListMembershipTypes(act) == {t \in DOMAIN membership_types : Eq(membership_types[t].is_active, act)}
SearchMembershipTypes(n, act) ==
  {t \in DOMAIN membership_types : membership_types[t].name = n /\ Eq(membership_types[t].is_active, act)}
GetMembershipStatus(s) == DOMAIN membership_status \cap {s}
GetMembershipStatusByName(n) == {s \in DOMAIN membership_status : membership_status[s].name = n}
ListMembershipStatus(act) == {s \in DOMAIN membership_status : Eq(membership_status[s].is_active, act)}
ListCurrentMemberStatuses(act) ==
  {s \in DOMAIN membership_status : membership_status[s].is_current_member = TRUE /\ Eq(membership_status[s].is_active, act)}
SearchMembershipStatus(n, act) ==
  {s \in DOMAIN membership_status : membership_status[s].name = n /\ Eq(membership_status[s].is_active, act)}

GetMembership(m) == DOMAIN memberships \cap {m}
GetMembershipByContact(c) == {m \in DOMAIN memberships : memberships[m].contact_id = c}
(* The statuses that make a member need not be active themselves. *)
GetActiveMembershipByContact(c) ==
  {m \in DOMAIN memberships : /\ memberships[m].contact_id = c
                              /\ membership_status[memberships[m].status_id].is_current_member = TRUE}
GetMembershipCount(c, tst) ==
  Cardinality({m \in DOMAIN memberships : memberships[m].contact_id = c /\ Eq(memberships[m].is_test, tst)})
ListMemberships(tst) == {m \in DOMAIN memberships : Eq(memberships[m].is_test, tst)}
ListMembershipsByStatus(s, tst) ==
  {m \in DOMAIN memberships : memberships[m].status_id = s /\ Eq(memberships[m].is_test, tst)}
ListMembershipsByType(t, tst) ==
  {m \in DOMAIN memberships : memberships[m].membership_type_id = t /\ Eq(memberships[m].is_test, tst)}
ListExpiringMemberships(from, to, tst) ==
  {m \in DOMAIN memberships : memberships[m].end_date # NULL /\ memberships[m].end_date \in from..to /\ Eq(memberships[m].is_test, tst)}
SearchMemberships(C, tst) ==
  {m \in DOMAIN memberships : memberships[m].contact_id \in C \cap DOMAIN contacts /\ Eq(memberships[m].is_test, tst)}
GetMembershipStats(tst) ==
  [p \in (DOMAIN membership_types) \X (DOMAIN membership_status) |->
     Cardinality({m \in ListMemberships(tst) : <<memberships[m].membership_type_id, memberships[m].status_id>> = p})]

GetMembershipLog(l) == DOMAIN membership_logs \cap {l}
ListMembershipLogs == DOMAIN membership_logs
GetMembershipLogsByMembership(m) == {l \in DOMAIN membership_logs : membership_logs[l].membership_id = m}
GetMembershipAuditTrail(m) == {l \in DOMAIN membership_logs : membership_logs[l].membership_id = m}
GetMembershipLogsByContact(c) ==
  {l \in DOMAIN membership_logs : memberships[membership_logs[l].membership_id].contact_id = c}
SearchMembershipLogs(C) == UNION {GetMembershipLogsByContact(c) : c \in C \cap DOMAIN contacts}
ListMembershipLogsByStatus(s) == {l \in DOMAIN membership_logs : Eq(membership_logs[l].status_id, s)}
ListMembershipLogsByModifier(c) == {l \in DOMAIN membership_logs : Eq(membership_logs[l].modified_by_contact_id, c)}

GetMembershipPayment(p) == DOMAIN membership_payments \cap {p}
ListMembershipPayments == DOMAIN membership_payments
GetMembershipPaymentsByMembership(m) == {p \in DOMAIN membership_payments : membership_payments[p].membership_id = m}
(* The query returns one row, though several payments may take a contribution. *)
GetMembershipPaymentsByContribution(k) ==
  {p \in DOMAIN membership_payments : membership_payments[p].contribution_id = k}
ListMembershipPaymentsByStatus(st) == {p \in DOMAIN membership_payments : Eq(membership_payments[p].payment_status, st)}
SearchMembershipPayments(C) ==
  {p \in DOMAIN membership_payments : memberships[membership_payments[p].membership_id].contact_id \in C \cap DOMAIN contacts}

GetContribution(k) == DOMAIN contributions \cap {k}
GetContributionsByContact(c) == {k \in DOMAIN contributions : contributions[k].contact_id = c}
ListContributions == {k \in DOMAIN contributions : contributions[k].contact_id \in DOMAIN contacts}
ListContributionsByStatus(st) ==
  {k \in DOMAIN contributions : contributions[k].contact_id \in DOMAIN contacts /\ Eq(contributions[k].status, st)}
SearchContributions(C) == {k \in DOMAIN contributions : contributions[k].contact_id \in C \cap DOMAIN contacts}
CountContributions == Cardinality(DOMAIN contributions)
CountContributionsByContact(c) == Cardinality({k \in DOMAIN contributions : contributions[k].contact_id = c})
CountContributionsByStatus(st) == Cardinality({k \in DOMAIN contributions : Eq(contributions[k].status, st)})

(* A sum of amounts, which is NULL or has decimals, scanned into an int64. *)
GetTotalContributions == Refused
GetTotalContributionsByContact(c) == Refused
GetMembershipPaymentTotal(m) == Refused

-----------------------------------------------------------------------------
MembershipsInit ==
  /\ memberships = NoRows /\ membership_types = NoRows /\ membership_status = NoRows
  /\ membership_payments = NoRows /\ membership_logs = NoRows /\ contributions = NoRows

SomeType(n, c) == [name |-> n, member_of_contact_id |-> c, is_active |-> TRUE]
SomeStatus(n, cur) == [name |-> n, is_current_member |-> cur, is_active |-> TRUE]

MembersNext ==
  \/ \E c \in ContactIds : CreateMember(c) \/ DeleteMember(c)
  \/ \E t \in TypeIds : \/ ActivateMembershipType(t) \/ DeactivateMembershipType(t) \/ DeleteMembershipType(t)
                        \/ \E n \in MemberNames, c \in ContactIds \cup {NULL} :
                             CreateMembershipType(t, SomeType(n, c)) \/ UpdateMembershipType(t, SomeType(n, c))
  \/ \E s \in StatusIds : \/ ActivateMembershipStatus(s) \/ DeactivateMembershipStatus(s) \/ DeleteMembershipStatus(s)
                          \/ \E n \in MemberNames, cur \in Flags :
                               CreateMembershipStatus(s, SomeStatus(n, cur)) \/ UpdateMembershipStatus(s, SomeStatus(n, cur))
  \/ \E m \in MembershipIds : \/ DeleteMembership(m)
                              \/ \E s \in StatusIds : UpdateMembershipStatusById(m, s)
                              \/ \E d \in Terms \cup {NULL} : ExtendMembership(m, d)
                              \/ \E c \in ContactIds, t \in TypeIds, s \in StatusIds, tst \in Flags, d \in Terms \cup {NULL} :
                                   LET row == [contact_id |-> c, membership_type_id |-> t, status_id |-> s,
                                               end_date |-> d, contribution_id |-> NULL, is_test |-> tst]
                                   IN  CreateMembership(m, row) \/ UpdateMembership(m, row)
  \/ \E l \in LogIds : \/ DeleteMembershipLog(l)
                       \/ \E m \in MembershipIds, c \in ContactIds \cup {NULL}, s \in StatusIds \cup {NULL}, t \in TypeIds \cup {NULL} :
                            LET row == [membership_id |-> m, modified_by_contact_id |-> c, status_id |-> s,
                                        membership_type_id |-> t]
                            IN  CreateMembershipLog(l, row) \/ UpdateMembershipLog(l, row)

ContributionsNext ==
  \/ \E c \in ContactIds : CreateMember(c) \/ DeleteMember(c)
  \/ \E t \in TypeIds, n \in MemberNames : CreateMembershipType(t, SomeType(n, NULL))
  \/ \E s \in StatusIds, n \in MemberNames : CreateMembershipStatus(s, SomeStatus(n, TRUE))
  \/ \E m \in MembershipIds, c \in ContactIds, t \in TypeIds, s \in StatusIds, k \in ContributionIds \cup {NULL}, d \in Terms :
       \/ CreateMembership(m, [contact_id |-> c, membership_type_id |-> t, status_id |-> s, end_date |-> d,
                               contribution_id |-> k, is_test |-> NULL])
       \/ DeleteMembership(m)
  \/ \E k \in ContributionIds : \/ DeleteContribution(k)
                                \/ \E st \in PaymentStates \cup {NULL} :
                                     \/ UpdateContribution(k, st)
                                     \/ \E c \in ContactIds : CreateContribution(k, [contact_id |-> c, status |-> st])
  \/ \E p \in MembershipPaymentIds :
       \/ DeleteMembershipPayment(p)
       \/ \E st \in PaymentStates \cup {NULL} :
            \/ UpdatePaymentStatus(p, st)
            \/ \E m \in MembershipIds, k \in ContributionIds :
                 LET row == [membership_id |-> m, contribution_id |-> k, payment_status |-> st]
                 IN  CreateMembershipPayment(p, row) \/ UpdateMembershipPayment(p, row)

MembershipsNext == MembersNext \/ ContributionsNext
MembershipsSpec == ContactsInit /\ MembershipsInit /\ [][MembershipsNext]_membershipVars

-----------------------------------------------------------------------------
(* Contacts, statuses, types, memberships and contributions are deleted in any  *)
(* order, some with what depends on them and some only when nothing does: no    *)
(* row refers to one that is gone, and the contribution that pays for a         *)
(* membership is there as long as the payment is.                               *)
MembershipRefs ==
  /\ \A m \in DOMAIN memberships : MembershipFits(memberships[m])
  /\ \A t \in DOMAIN membership_types : membership_types[t].member_of_contact_id \in DOMAIN contacts \cup {NULL}
  /\ \A p \in DOMAIN membership_payments : /\ membership_payments[p].membership_id \in DOMAIN memberships
                                           /\ membership_payments[p].contribution_id \in DOMAIN contributions
  /\ \A l \in DOMAIN membership_logs : LogFits(membership_logs[l])
  /\ \A k \in DOMAIN contributions : contributions[k].contact_id \in DOMAIN contacts
  /\ \A s, t \in DOMAIN membership_status : s # t => membership_status[s].name # membership_status[t].name

(* The queries on memberships agree: the listings by status and by type and     *)
(* the statistics cover the same memberships; one whose is_test was left unset  *)
(* is in none of them although GetMembershipByContact has it; logs, payments    *)
(* and contributions are found from each row they name and by the searches that *)
(* join them; and the counts of contributions are those of the joined listings.  *)
MembershipAnswersAgree ==
  /\ \A tst \in BOOLEAN :
       /\ ListMemberships(tst) = UNION {ListMembershipsByStatus(s, tst) : s \in DOMAIN membership_status}
       /\ ListMemberships(tst) = UNION {ListMembershipsByType(t, tst) : t \in DOMAIN membership_types}
       /\ \A m \in ListMemberships(tst) :
            <<memberships[m].membership_type_id, memberships[m].status_id>> \in DOMAIN GetMembershipStats(tst)
       /\ \A C \in SUBSET ContactIds :
            SearchMemberships(C, tst) = ListMemberships(tst) \cap UNION {GetMembershipByContact(c) : c \in C}
  /\ \A c \in ContactIds :
       Cardinality(GetMembershipByContact(c)) = GetMembershipCount(c, TRUE) + GetMembershipCount(c, FALSE)
         + Cardinality({m \in GetMembershipByContact(c) : memberships[m].is_test = NULL})
  /\ \A C \in SUBSET ContactIds :
       LET M == UNION {GetMembershipByContact(c) : c \in C}
       IN  /\ SearchMembershipLogs(C) = UNION {GetMembershipLogsByMembership(m) : m \in M}
           /\ SearchMembershipPayments(C) = UNION {GetMembershipPaymentsByMembership(m) : m \in M}
           /\ SearchContributions(C) = UNION {GetContributionsByContact(c) : c \in C}
  /\ \A n \in MemberNames : Cardinality(GetMembershipStatusByName(n)) <= 1
  /\ \A l \in ListMembershipLogs :
       LET log == membership_logs[l]
       IN  /\ l \in GetMembershipAuditTrail(log.membership_id) /\ GetMembership(log.membership_id) # {}
           /\ log.status_id # NULL => GetMembershipStatus(log.status_id) # {} /\ l \in ListMembershipLogsByStatus(log.status_id)
           /\ log.membership_type_id # NULL => GetMembershipType(log.membership_type_id) # {}
           /\ log.modified_by_contact_id # NULL => l \in UNION {ListMembershipLogsByModifier(c) : c \in ListAllContacts}
  /\ ListMembershipPayments = UNION {GetMembershipPaymentsByContribution(k) : k \in ListContributions}
  /\ CountContributions = Cardinality(ListContributions)
  /\ UNION {ListContributionsByStatus(st) : st \in PaymentStates} = {k \in ListContributions : contributions[k].status # NULL}
  /\ \A st \in PaymentStates :
       /\ CountContributionsByStatus(st) = Cardinality(ListContributionsByStatus(st))
       /\ \A other \in PaymentStates \ {st} :
            CountContributionsByStatus(st) + CountContributionsByStatus(other) <= CountContributions
=============================================================================
