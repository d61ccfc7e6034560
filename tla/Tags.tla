-------------------------------- MODULE Tags ---------------------------------
(* Tag sets, tags and the entities that carry them                           *)
(* (migrations/022_tagging_system.sql; generated/tags.sql.go, tag_sets.sql.go,*)
(* entity_tags.sql.go).  Left out: titles, descriptions, colours, icons and   *)
(* weights (the tags of the model share one colour and one weight).           *)
EXTENDS Relational

CONSTANTS TagSetIds, TagIds, EntityTagIds,
          TagNames,        \* the names of tags and of tag sets
          EntityTables,    \* the tables tags are for
          TaggedIds        \* the ids of the entities that carry tags

(* NULL is not a uuid. *)
ASSUME TagsAssumption == NULL \notin TagSetIds

VARIABLES tag_sets, tags, entity_tags

tagVars == <<tag_sets, tags, entity_tags>>

TagSet == [name : TagNames, entity_table : EntityTables, is_active : Flag, is_reserved : Flag]
Tag == [tag_set_id : TagSetIds \cup {NULL}, name : TagNames, is_active : Flag, is_reserved : Flag]
(* Nothing ties the entity, nor its table to the one the tag's set is for. *)
EntityTag == [entity_table : EntityTables, entity_id : TaggedIds, tag_id : TagIds]

TagsTypeOK ==
  /\ IsTable(tag_sets, TagSetIds, TagSet)
  /\ IsTable(tags, TagIds, Tag)
  /\ IsTable(entity_tags, EntityTagIds, EntityTag)

-----------------------------------------------------------------------------
TagSetTaken(n, s) == \E u \in DOMAIN tag_sets \ {s} : tag_sets[u].name = n

CreateTagSet(s, row) ==
  /\ s \in TagSetIds \ DOMAIN tag_sets
  /\ ~TagSetTaken(row.name, s)
  /\ tag_sets' = Insert(tag_sets, s, row)
  /\ UNCHANGED <<tags, entity_tags>>

UpdateTagSet(s, row) ==
  /\ s \in DOMAIN tag_sets
  /\ ~TagSetTaken(row.name, s)
  /\ tag_sets' = [tag_sets EXCEPT ![s] = row]
  /\ UNCHANGED <<tags, entity_tags>>

ActivateTagSet(s) ==
  /\ s \in DOMAIN tag_sets
  /\ tag_sets' = [tag_sets EXCEPT ![s].is_active = TRUE]
  /\ UNCHANGED <<tags, entity_tags>>

DeactivateTagSet(s) ==
  /\ s \in DOMAIN tag_sets
  /\ tag_sets' = [tag_sets EXCEPT ![s].is_active = FALSE]
  /\ UNCHANGED <<tags, entity_tags>>

(* A tag of the set prevents it; that the set is reserved does not. *)
DeleteTagSet(s) ==
  /\ s \in DOMAIN tag_sets
  /\ \A t \in DOMAIN tags : tags[t].tag_set_id # s
  /\ tag_sets' = Without(tag_sets, {s})
  /\ UNCHANGED <<tags, entity_tags>>

(* Two tags may have one name, also within a set. *)
CreateTag(t, row) ==
  /\ t \in TagIds \ DOMAIN tags
  /\ row.tag_set_id \in DOMAIN tag_sets \cup {NULL}
  /\ tags' = Insert(tags, t, row)
  /\ UNCHANGED <<tag_sets, entity_tags>>

UpdateTag(t, row) ==
  /\ t \in DOMAIN tags
  /\ row.tag_set_id \in DOMAIN tag_sets \cup {NULL}
  /\ tags' = [tags EXCEPT ![t] = row]
  /\ UNCHANGED <<tag_sets, entity_tags>>

ActivateTag(t) ==
  /\ t \in DOMAIN tags
  /\ tags' = [tags EXCEPT ![t].is_active = TRUE]
  /\ UNCHANGED <<tag_sets, entity_tags>>

DeactivateTag(t) ==
  /\ t \in DOMAIN tags
  /\ tags' = [tags EXCEPT ![t].is_active = FALSE]
  /\ UNCHANGED <<tag_sets, entity_tags>>

GetEntityTagsByTag(t) == {e \in DOMAIN entity_tags : entity_tags[e].tag_id = t}

(* Every entity loses it. *)
DeleteTag(t) ==
  /\ t \in DOMAIN tags
  /\ tags' = Without(tags, {t})
  /\ entity_tags' = Without(entity_tags, GetEntityTagsByTag(t))
  /\ UNCHANGED tag_sets

(* UNIQUE (entity_table, entity_id, tag_id). *)
Tagged(row, e) == \E f \in DOMAIN entity_tags \ {e} : entity_tags[f] = row

CreateEntityTag(e, row) ==
  /\ e \in EntityTagIds \ DOMAIN entity_tags
  /\ row.tag_id \in DOMAIN tags /\ ~Tagged(row, e)
  /\ entity_tags' = Insert(entity_tags, e, row)
  /\ UNCHANGED <<tag_sets, tags>>

UpdateEntityTag(e, row) ==
  /\ e \in DOMAIN entity_tags
  /\ row.tag_id \in DOMAIN tags /\ ~Tagged(row, e)
  /\ entity_tags' = [entity_tags EXCEPT ![e] = row]
  /\ UNCHANGED <<tag_sets, tags>>

DeleteEntityTag(e) ==
  /\ e \in DOMAIN entity_tags
  /\ entity_tags' = Without(entity_tags, {e})
  /\ UNCHANGED <<tag_sets, tags>>

GetEntityTagsByEntity(tab, i) ==
  {e \in DOMAIN entity_tags : entity_tags[e].entity_table = tab /\ entity_tags[e].entity_id = i}

DeleteEntityTagsByEntity(tab, i) ==
  /\ GetEntityTagsByEntity(tab, i) # {}
  /\ entity_tags' = Without(entity_tags, GetEntityTagsByEntity(tab, i))
  /\ UNCHANGED <<tag_sets, tags>>

DeleteEntityTagsByTag(t) ==
  /\ GetEntityTagsByTag(t) # {}
  /\ entity_tags' = Without(entity_tags, GetEntityTagsByTag(t))
  /\ UNCHANGED <<tag_sets, tags>>

-----------------------------------------------------------------------------
(* Queries. *)

GetTagSet(s) == DOMAIN tag_sets \cap {s}
GetTagSetByName(n) == {s \in DOMAIN tag_sets : tag_sets[s].name = n}
GetTagSetsByEntityTable(tab, act) == {s \in DOMAIN tag_sets : tag_sets[s].entity_table = tab /\ Eq(tag_sets[s].is_active, act)}
ListTagSets(act) == {s \in DOMAIN tag_sets : Eq(tag_sets[s].is_active, act)}
ListActiveTagSets == {s \in DOMAIN tag_sets : tag_sets[s].is_active = TRUE}
ListReservedTagSets(act) == {s \in DOMAIN tag_sets : tag_sets[s].is_reserved = TRUE /\ Eq(tag_sets[s].is_active, act)}
(* The searches take the texts of their patterns: hits are the rows they match. *)
SearchTagSets(hits, act) == {s \in hits \cap DOMAIN tag_sets : Eq(tag_sets[s].is_active, act)}
GetTagSetStats(act) ==
  [s \in ListTagSets(act) |-> Cardinality({t \in DOMAIN tags : Eq(tags[t].tag_set_id, s) /\ tags[t].is_active = TRUE})]

GetTag(t) == DOMAIN tags \cap {t}
(* A :one query: some row among these. *)
GetTagByName(n) == {t \in DOMAIN tags : tags[t].name = n}
GetTagsByTagSet(s, act) == {t \in DOMAIN tags : Eq(tags[t].tag_set_id, s) /\ Eq(tags[t].is_active, act)}
GetTagsByEntityTable(tab, act) ==
  {t \in DOMAIN tags : /\ tags[t].tag_set_id \in DOMAIN tag_sets /\ tag_sets[tags[t].tag_set_id].entity_table = tab
                       /\ Eq(tags[t].is_active, act)}
ListTags(act) == {t \in DOMAIN tags : Eq(tags[t].is_active, act)}
ListActiveTags == {t \in DOMAIN tags : tags[t].is_active = TRUE}
ListReservedTags(act) == {t \in DOMAIN tags : tags[t].is_reserved = TRUE /\ Eq(tags[t].is_active, act)}
SearchTags(hits, act) == {t \in hits \cap DOMAIN tags : Eq(tags[t].is_active, act)}
(* A row per name within a set: tags of one name count together, and a tag    *)
(* without a set not at all.                                                  *)
GetTagStats(act) ==
  [g \in {<<tags[t].tag_set_id, tags[t].name>> : t \in {u \in ListTags(act) : tags[u].tag_set_id \in DOMAIN tag_sets}} |->
     Cardinality({e \in DOMAIN entity_tags : LET t == entity_tags[e].tag_id IN
                    t \in ListTags(act) /\ <<tags[t].tag_set_id, tags[t].name>> = g})]

GetEntityTag(e) == DOMAIN entity_tags \cap {e}
GetEntityTagsByTable(tab) == {e \in DOMAIN entity_tags : entity_tags[e].entity_table = tab}
ListEntityTags == DOMAIN entity_tags
ListEntityTagsByTable(tab) == {e \in DOMAIN entity_tags : entity_tags[e].entity_table = tab}
ListEntityTagsByTagSet(s) ==
  {e \in DOMAIN entity_tags : entity_tags[e].tag_id \in DOMAIN tags /\ Eq(tags[entity_tags[e].tag_id].tag_set_id, s)}
(* hits are the tags whose name the pattern matches. *)
SearchEntityTags(hits) == {e \in DOMAIN entity_tags : entity_tags[e].tag_id \in hits \cap DOMAIN tags}
(* With the tag and its set. *)
GetEntityTagsWithDetails(tab, i) ==
  {e \in GetEntityTagsByEntity(tab, i) : /\ entity_tags[e].tag_id \in DOMAIN tags
                                         /\ tags[entity_tags[e].tag_id].tag_set_id \in DOMAIN tag_sets}
GetEntityTagCount(tab, i) == Cardinality(GetEntityTagsByEntity(tab, i))
GetEntityTagStats ==
  [tab \in {entity_tags[e].entity_table : e \in DOMAIN entity_tags} |-> Cardinality(GetEntityTagsByTable(tab))]
GetTaggedEntities(tab) ==
  [i \in {entity_tags[e].entity_id : e \in GetEntityTagsByTable(tab)} |->
     {entity_tags[e].tag_id : e \in {f \in GetEntityTagsByEntity(tab, i) : entity_tags[f].tag_id \in DOMAIN tags}}]
(* A row per name: also of tags in different sets. *)
GetPopularTags(act) ==
  [n \in {tags[entity_tags[e].tag_id].name : e \in {f \in DOMAIN entity_tags : entity_tags[f].tag_id \in ListTags(act)}} |->
     Cardinality({e \in DOMAIN entity_tags : entity_tags[e].tag_id \in ListTags(act) \cap GetTagByName(n)})]

-----------------------------------------------------------------------------
TagsInit == tag_sets = NoRows /\ tags = NoRows /\ entity_tags = NoRows

(* Sets and their tags, which no entity carries. *)
TagSetsNext ==
  \/ \E s \in TagSetIds :
       \/ ActivateTagSet(s) \/ DeactivateTagSet(s) \/ DeleteTagSet(s)
       \/ \E n \in TagNames, tab \in EntityTables, act \in Flags :
            LET row == [name |-> n, entity_table |-> tab, is_active |-> act, is_reserved |-> act]
            IN  CreateTagSet(s, row) \/ UpdateTagSet(s, row)
  \/ \E t \in TagIds : \/ DeleteTag(t)
                       \/ \E n \in TagNames, s \in TagSetIds \cup {NULL} :
                            CreateTag(t, [tag_set_id |-> s, name |-> n, is_active |-> TRUE, is_reserved |-> FALSE])

(* Entities and the tags they carry, of one set or of none. *)
TaggingNext ==
  \/ \E s \in TagSetIds, n \in TagNames, tab \in EntityTables :
       CreateTagSet(s, [name |-> n, entity_table |-> tab, is_active |-> TRUE, is_reserved |-> FALSE])
  \/ \E t \in TagIds : \/ ActivateTag(t) \/ DeactivateTag(t) \/ DeleteTag(t) \/ DeleteEntityTagsByTag(t)
                       \/ \E n \in TagNames, s \in TagSetIds \cup {NULL} :
                            LET row == [tag_set_id |-> s, name |-> n, is_active |-> TRUE, is_reserved |-> TRUE]
                            IN  CreateTag(t, row) \/ UpdateTag(t, row)
  \/ \E e \in EntityTagIds : DeleteEntityTag(e) \/ \E row \in EntityTag : CreateEntityTag(e, row) \/ UpdateEntityTag(e, row)
  \/ \E tab \in EntityTables, i \in TaggedIds : DeleteEntityTagsByEntity(tab, i)

TagsNext == TagSetsNext \/ TaggingNext
TagsSpec == TagsInit /\ [][TagsNext]_tagVars

-----------------------------------------------------------------------------
(* A set with tags stays, a tag that goes is taken off every entity, and       *)
(* neither tagging nor moving a tag from one entity to another makes an entity *)
(* carry a tag twice.                                                          *)
TagRefs ==
  /\ \A t \in DOMAIN tags : tags[t].tag_set_id \in DOMAIN tag_sets \cup {NULL}
  /\ \A e \in DOMAIN entity_tags : entity_tags[e].tag_id \in DOMAIN tags
  /\ \A tab \in EntityTables, i \in TaggedIds :
       GetEntityTagCount(tab, i) = Cardinality({entity_tags[e].tag_id : e \in GetEntityTagsByEntity(tab, i)})

(* The details of an entity's tags (entity_tags.sql:23-36) and the statistics  *)
(* of tags lose just the tags that are in no set, GetPopularTags keeps them;   *)
(* an entity is listed with as many tags as it is counted to have, and the     *)
(* tags by set make up the tags by table.                                      *)
TagAnswersAgree ==
  /\ \A tab \in EntityTables :
       /\ \A i \in DOMAIN GetTaggedEntities(tab) : Cardinality(GetTaggedEntities(tab)[i]) = GetEntityTagCount(tab, i)
       /\ GetTagsByEntityTable(tab, TRUE) =
            UNION {GetTagsByTagSet(s, TRUE) : s \in {r \in DOMAIN tag_sets : tag_sets[r].entity_table = tab}}
       /\ \A i \in TaggedIds : GetEntityTagsWithDetails(tab, i) =
            {e \in GetEntityTagsByEntity(tab, i) : \E s \in TagSetIds : e \in ListEntityTagsByTagSet(s)}
  /\ \A t \in ListActiveTags :
       /\ <<tags[t].tag_set_id, tags[t].name>> \in DOMAIN GetTagStats(TRUE) <=> tags[t].tag_set_id # NULL
       /\ GetEntityTagsByTag(t) # {} => GetPopularTags(TRUE)[tags[t].name] >= Cardinality(GetEntityTagsByTag(t))
  /\ \A g \in DOMAIN GetTagStats(TRUE) :
       GetTagStats(TRUE)[g] > 0 => GetTagStats(TRUE)[g] <= GetPopularTags(TRUE)[g[2]]
  /\ \A s \in ListActiveTagSets : GetTagSet(s) = GetTagSetByName(tag_sets[s].name)
=============================================================================
