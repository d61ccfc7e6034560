------------------------------ MODULE Contacts ------------------------------
(* The contacts table (migrations/002_contacts.sql) and its queries          *)
(* (internal/database/generated/contacts.sql.go).  Names, addresses and the  *)
(* order and paging of listings are left out.                                *)
EXTENDS Relational

CONSTANTS ContactIds, Emails, Phones

(* The ids are those of gen_random_uuid(): there are finitely many. *)
ASSUME ContactsAssumption == IsFiniteSet(ContactIds)

ContactTypes == {"Individual", "Organization", "Household"}

VARIABLE contacts

Contact == [contact_type : ContactTypes, email : Emails \cup {NULL}, phone : Phones \cup {NULL}]

ContactsTypeOK == IsTable(contacts, ContactIds, Contact)

(* email is UNIQUE: a contact other than c has it. *)
EmailTaken(e, c) == \E d \in DOMAIN contacts \ {c} : Eq(contacts[d].email, e)

CreateContact(c, row) ==
  /\ c \in ContactIds \ DOMAIN contacts
  /\ ~EmailTaken(row.email, c)
  /\ contacts' = Insert(contacts, c, row)

UpdateContact(c, row) ==
  /\ c \in DOMAIN contacts
  /\ ~EmailTaken(row.email, c)
  /\ contacts' = [contacts EXCEPT ![c] = row]

(* The row alone: what refers to it is the business of the modules below. *)
DeleteContact(c) ==
  /\ c \in DOMAIN contacts
  /\ contacts' = Without(contacts, {c})

CountAllContacts == Cardinality(DOMAIN contacts)
ListAllContacts == DOMAIN contacts
GetContactsByType(ty) == {c \in DOMAIN contacts : contacts[c].contact_type = ty}
ListContacts(ty) == {c \in DOMAIN contacts : contacts[c].contact_type = ty}
CountContacts(ty) == Cardinality({c \in DOMAIN contacts : contacts[c].contact_type = ty})

(* A :one query answers with some row among these, or with no row. *)
GetContact(c) == DOMAIN contacts \cap {c}
GetContactByEmail(e) == {c \in DOMAIN contacts : Eq(contacts[c].email, e)}
GetContactByPhone(ph) == {c \in DOMAIN contacts : Eq(contacts[c].phone, ph)}

SomeContact == [contact_type |-> "Individual", email |-> NULL, phone |-> NULL]

ContactsInit == contacts = NoRows
ContactsNext == \E c \in ContactIds :
  \/ \E row \in Contact : CreateContact(c, row) \/ UpdateContact(c, row)
  \/ DeleteContact(c)

-----------------------------------------------------------------------------
(* The listings by type (contacts.sql.go:238-283,333-383) divide what the    *)
(* listing of all contacts returns, their counts add up, and the lookup by   *)
(* e-mail, which reads one row only, has no second one to lose.              *)
ContactAnswersAgree ==
  /\ CountAllContacts = CountContacts("Individual") + CountContacts("Organization")
                        + CountContacts("Household")
  /\ ListAllContacts = UNION {GetContactsByType(ty) : ty \in ContactTypes}
  /\ \A e \in Emails : Cardinality(GetContactByEmail(e)) <= 1
=============================================================================
