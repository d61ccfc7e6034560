----------------------------- MODULE CustomData ------------------------------
(* Custom groups, their fields with options, and the values that entities    *)
(* have for them (migrations/029_custom_fields_system.sql,                   *)
(* generated/custom_fields.sql.go).  Left out: types, layout, weights and    *)
(* the order of listings.  A value's entity is a table's name and an id that *)
(* no constraint ties to a row of it.                                        *)
EXTENDS Relational

CONSTANTS CustomGroupIds, CustomFieldIds, OptionIds, ValueIds,
          CustomNames,     \* the names of groups and fields
          Entities,        \* the pairs of entity_table and entity_id
          Extended,        \* the kinds of entities that groups extend
          CustomContents   \* what a value holds

VARIABLES custom_groups, custom_fields, custom_field_options, custom_values

customVars == <<custom_groups, custom_fields, custom_field_options, custom_values>>

CustomGroup == [name : CustomNames, extends : Extended, is_active : Flag]
CustomField == [custom_group_id : CustomGroupIds, name : CustomNames, is_active : Flag, is_searchable : Flag]
CustomFieldOption == [custom_field_id : CustomFieldIds, is_active : Flag]
CustomValue == [custom_field_id : CustomFieldIds, entity : Entities, value : CustomContents]

CustomDataTypeOK ==
  /\ IsTable(custom_groups, CustomGroupIds, CustomGroup)
  /\ IsTable(custom_fields, CustomFieldIds, CustomField)
  /\ IsTable(custom_field_options, OptionIds, CustomFieldOption)
  /\ IsTable(custom_values, ValueIds, CustomValue)

-----------------------------------------------------------------------------
FieldsOf(G) == {f \in DOMAIN custom_fields : custom_fields[f].custom_group_id \in G}
OptionsOf(F) == {o \in DOMAIN custom_field_options : custom_field_options[o].custom_field_id \in F}
ValuesOf(F) == {v \in DOMAIN custom_values : custom_values[v].custom_field_id \in F}

(* A mutated form, which leaves the values. *)
DropFieldsKeepingValues(F) ==
  /\ custom_fields' = Without(custom_fields, F)
  /\ custom_field_options' = Without(custom_field_options, OptionsOf(F))
  /\ UNCHANGED custom_values

(* Options and values go with their fields. *)
DropFields(F) ==
  /\ custom_fields' = Without(custom_fields, F)
  /\ custom_field_options' = Without(custom_field_options, OptionsOf(F))
  /\ custom_values' = Without(custom_values, ValuesOf(F))

CreateCustomGroup(g, row) ==
  /\ g \in CustomGroupIds \ DOMAIN custom_groups
  /\ \A h \in DOMAIN custom_groups : custom_groups[h].name # row.name
  /\ custom_groups' = Insert(custom_groups, g, row)
  /\ UNCHANGED <<custom_fields, custom_field_options, custom_values>>

(* What a group extends may change while entities of the old kind have values. *)
UpdateCustomGroup(g, ext, act) ==
  /\ g \in DOMAIN custom_groups
  /\ custom_groups' = [custom_groups EXCEPT ![g].extends = ext, ![g].is_active = act]
  /\ UNCHANGED <<custom_fields, custom_field_options, custom_values>>

DeleteCustomGroup(g) ==
  /\ g \in DOMAIN custom_groups
  /\ custom_groups' = Without(custom_groups, {g})
  /\ DropFields(FieldsOf({g}))

CreateCustomField(f, row) ==
  /\ f \in CustomFieldIds \ DOMAIN custom_fields
  /\ row.custom_group_id \in DOMAIN custom_groups
  /\ \A h \in FieldsOf({row.custom_group_id}) : custom_fields[h].name # row.name
  /\ custom_fields' = Insert(custom_fields, f, row)
  /\ UNCHANGED <<custom_groups, custom_field_options, custom_values>>

UpdateCustomField(f, act, srch) ==
  /\ f \in DOMAIN custom_fields
  /\ custom_fields' = [custom_fields EXCEPT ![f].is_active = act, ![f].is_searchable = srch]
  /\ UNCHANGED <<custom_groups, custom_field_options, custom_values>>

DeleteCustomField(f) ==
  /\ f \in DOMAIN custom_fields
  /\ DropFields({f})
  /\ UNCHANGED custom_groups

CreateCustomFieldOption(o, f, act) ==
  /\ o \in OptionIds \ DOMAIN custom_field_options
  /\ f \in DOMAIN custom_fields
  /\ custom_field_options' = Insert(custom_field_options, o, [custom_field_id |-> f, is_active |-> act])
  /\ UNCHANGED <<custom_groups, custom_fields, custom_values>>

UpdateCustomFieldOption(o, act) ==
  /\ o \in DOMAIN custom_field_options
  /\ custom_field_options' = [custom_field_options EXCEPT ![o].is_active = act]
  /\ UNCHANGED <<custom_groups, custom_fields, custom_values>>

DeleteCustomFieldOption(o) ==
  /\ o \in DOMAIN custom_field_options
  /\ custom_field_options' = Without(custom_field_options, {o})
  /\ UNCHANGED <<custom_groups, custom_fields, custom_values>>

GetCustomValueByField(f, e) ==
  {v \in DOMAIN custom_values : custom_values[v].custom_field_id = f /\ custom_values[v].entity = e}

(* Neither the entity nor an inactive field or group stands in the way. *)
CreateCustomValue(v, f, e, x) ==
  /\ v \in ValueIds \ DOMAIN custom_values
  /\ f \in DOMAIN custom_fields
  /\ GetCustomValueByField(f, e) = {}
  /\ custom_values' = Insert(custom_values, v, [custom_field_id |-> f, entity |-> e, value |-> x])
  /\ UNCHANGED <<custom_groups, custom_fields, custom_field_options>>

UpdateCustomValue(f, e, x) ==
  /\ GetCustomValueByField(f, e) # {}
  /\ custom_values' = [v \in DOMAIN custom_values |->
       IF v \in GetCustomValueByField(f, e) THEN [custom_values[v] EXCEPT !.value = x] ELSE custom_values[v]]
  /\ UNCHANGED <<custom_groups, custom_fields, custom_field_options>>

DeleteCustomValue(v) ==
  /\ v \in DOMAIN custom_values
  /\ custom_values' = Without(custom_values, {v})
  /\ UNCHANGED <<custom_groups, custom_fields, custom_field_options>>

DeleteCustomValuesByEntity(e) ==
  /\ custom_values' = Without(custom_values, {v \in DOMAIN custom_values : custom_values[v].entity = e})
  /\ UNCHANGED <<custom_groups, custom_fields, custom_field_options>>

-----------------------------------------------------------------------------
(* Queries. *)

GetCustomGroup(g) == DOMAIN custom_groups \cap {g}
GetCustomGroupByName(n) == {g \in DOMAIN custom_groups : custom_groups[g].name = n}
ListCustomGroups(ext, act) == {g \in DOMAIN custom_groups : custom_groups[g].extends = ext /\ Eq(custom_groups[g].is_active, act)}
ListAllCustomGroups(act) == {g \in DOMAIN custom_groups : Eq(custom_groups[g].is_active, act)}

GetCustomField(f) == DOMAIN custom_fields \cap {f}
GetCustomFieldByName(gn, n) ==
  {f \in DOMAIN custom_fields : /\ custom_fields[f].name = n
                                /\ \E g \in DOMAIN custom_groups : /\ custom_fields[f].custom_group_id = g
                                                                   /\ custom_groups[g].name = gn}
ListCustomFieldsByGroup(g, act) == {f \in FieldsOf({g}) : Eq(custom_fields[f].is_active, act)}
CountCustomFieldsByGroup(g, act) == Cardinality({f \in FieldsOf({g}) : Eq(custom_fields[f].is_active, act)})
ListCustomFieldsByEntity(ext, factive, gactive) ==
  {f \in DOMAIN custom_fields : /\ Eq(custom_fields[f].is_active, factive)
                                /\ \E g \in DOMAIN custom_groups : /\ custom_fields[f].custom_group_id = g
                                                                   /\ custom_groups[g].extends = ext
                                                                   /\ Eq(custom_groups[g].is_active, gactive)}
GetCustomFieldsForContact(factive, gactive) == ListCustomFieldsByEntity("Contact", factive, gactive)
GetCustomFieldsForEvent(factive, gactive) == ListCustomFieldsByEntity("Event", factive, gactive)
GetCustomFieldsForContribution(factive, gactive) == ListCustomFieldsByEntity("Contribution", factive, gactive)
GetCustomFieldsForActivity(factive, gactive) == ListCustomFieldsByEntity("Activity", factive, gactive)
GetCustomFieldOption(o) == DOMAIN custom_field_options \cap {o}
ListCustomFieldOptions(f, act) == {o \in OptionsOf({f}) : Eq(custom_field_options[o].is_active, act)}

(* Values are found whether or not their field and group are active. *)
GetCustomValue(v) == DOMAIN custom_values \cap {v}
GetCustomValuesByEntity(e) ==
  {v \in DOMAIN custom_values : /\ custom_values[v].entity = e
                                /\ \E f \in DOMAIN custom_fields : /\ custom_values[v].custom_field_id = f
                                                                   /\ custom_fields[f].custom_group_id \in DOMAIN custom_groups}
SearchCustomValues(e, srch) ==
  {v \in GetCustomValuesByEntity(e) : Eq(custom_fields[custom_values[v].custom_field_id].is_searchable, srch)}
CountCustomValuesByEntity(e) == Cardinality({v \in DOMAIN custom_values : custom_values[v].entity = e})

-----------------------------------------------------------------------------
CustomDataInit == /\ custom_groups = NoRows /\ custom_fields = NoRows
                  /\ custom_field_options = NoRows /\ custom_values = NoRows

CustomDataNext ==
  \/ \E g \in CustomGroupIds : \/ DeleteCustomGroup(g)
                               \/ \E ext \in Extended, act \in Flags : UpdateCustomGroup(g, ext, act)
                               \/ \E n \in CustomNames, ext \in Extended :
                                    CreateCustomGroup(g, [name |-> n, extends |-> ext, is_active |-> TRUE])
  \/ \E f \in CustomFieldIds : \/ DeleteCustomField(f)
                               \/ \E act \in Flags : UpdateCustomField(f, act, TRUE)
                               \/ \E g \in CustomGroupIds, n \in CustomNames, srch \in Flags : CreateCustomField(f,
                                    [custom_group_id |-> g, name |-> n, is_active |-> TRUE, is_searchable |-> srch])
                               \/ \E o \in OptionIds : CreateCustomFieldOption(o, f, TRUE)
                               \/ \E e \in Entities, x \in CustomContents : \/ UpdateCustomValue(f, e, x)
                                                                            \/ \E v \in ValueIds : CreateCustomValue(v, f, e, x)
  \/ \E o \in OptionIds : DeleteCustomFieldOption(o) \/ \E act \in Flags : UpdateCustomFieldOption(o, act)
  \/ \E v \in ValueIds : DeleteCustomValue(v)
  \/ \E e \in Entities : DeleteCustomValuesByEntity(e)

CustomDataSpec == CustomDataInit /\ [][CustomDataNext]_customVars

-----------------------------------------------------------------------------
(* Through both levels of cascades no option and no value outlives its field,  *)
(* no field its group, and neither a group's field nor an entity's value is    *)
(* there twice: what UpdateCustomValue and GetCustomFieldByName find is one.   *)
CustomRefs ==
  /\ \A f \in DOMAIN custom_fields :
       /\ custom_fields[f].custom_group_id \in DOMAIN custom_groups
       /\ GetCustomFieldByName(custom_groups[custom_fields[f].custom_group_id].name, custom_fields[f].name) = {f}
  /\ \A o \in DOMAIN custom_field_options : custom_field_options[o].custom_field_id \in DOMAIN custom_fields
  /\ \A v \in DOMAIN custom_values :
       /\ custom_values[v].custom_field_id \in DOMAIN custom_fields
       /\ GetCustomValueByField(custom_values[v].custom_field_id, custom_values[v].entity) = {v}

(* A name finds one group, the listings by kind make up the listing of all     *)
(* groups and that of the fields of active ones; the inner joins lose no       *)
(* value, so that what is counted of an entity is listed, and it is listed by  *)
(* searchable or not but for the fields with an unset flag.                    *)
CustomAnswersAgree ==
  /\ \A g \in DOMAIN custom_groups : GetCustomGroup(g) = GetCustomGroupByName(custom_groups[g].name)
  /\ \A act \in {TRUE, FALSE} : ListAllCustomGroups(act) = UNION {ListCustomGroups(ext, act) : ext \in Extended}
  /\ UNION {ListCustomFieldsByGroup(g, TRUE) : g \in ListAllCustomGroups(TRUE)}
       = UNION {ListCustomFieldsByEntity(ext, TRUE, TRUE) : ext \in Extended}
  /\ \A e \in Entities :
       /\ CountCustomValuesByEntity(e) = Cardinality(GetCustomValuesByEntity(e))
       /\ \A v \in GetCustomValuesByEntity(e) :
            \/ v \in SearchCustomValues(e, TRUE) \/ v \in SearchCustomValues(e, FALSE)
            \/ custom_fields[custom_values[v].custom_field_id].is_searchable = NULL
=============================================================================
