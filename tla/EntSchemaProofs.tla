-------------------------- MODULE EntSchemaProofs --------------------------
(****************************************************************************)
(* Lemmas about the six entities of EntSchema: what the generated create.go,  *)
(* update.go and mutation.go of each take for granted of its schema.  They    *)
(* are the only place where the proofs look at a field by name.               *)
(****************************************************************************)
EXTENDS EntStore, TLAPS

----------------------------------------------------------------------------
(* What a well-formed entity is                                              *)

\* Every field has a kind, numbers among them.
FieldsFit(e) ==
  /\ DOMAIN e.kinds = DOMAIN e.fields
  /\ \A f \in DOMAIN e.fields : e.kinds[f] \in KindNames
  /\ e.nullable \subseteq DOMAIN e.fields
  /\ \A f \in e.numbers : f \in DOMAIN e.fields /\ e.kinds[f] = "number"

\* A foreign key is a field, of a type that exists.
KeysFit(e) ==
  /\ DOMAIN e.parents \subseteq DOMAIN e.fields
  /\ \A k \in DOMAIN e.parents : e.kinds[k] = "key" /\ e.parents[k] \in Types

\* check() of both builders runs every validator, and no key has one.
RulesFit(e) ==
  /\ \A f \in DOMAIN e.rules : f \in DOMAIN e.fields /\ e.kinds[f] # "key"
  /\ e.createChecks = DOMAIN e.rules /\ e.updateChecks = DOMAIN e.rules

\* Defaults are values of their columns; the one an update fills in, updated_at,
\* is a column of the update and never NULL.
DefaultsFit(e) ==
  /\ \A f \in DOMAIN e.defaults :
       /\ f \in DOMAIN e.fields /\ e.kinds[f] # "key"
       /\ e.defaults[f] \in Values(e.kinds[f])
  /\ "updated_at" \in DOMAIN e.defaults =>
       /\ e.kinds["updated_at"] = "time" /\ "updated_at" \notin e.nullable
       /\ "updated_at" \in e.updateColumns

\* What a builder can set is a column of its statement, keys included.
ColumnsFit(e) ==
  /\ e.createColumns = DOMAIN e.fields /\ e.updateColumns \subseteq DOMAIN e.fields
  /\ e.createSets \subseteq DOMAIN e.fields /\ e.updateSets \subseteq e.updateColumns
  /\ DOMAIN e.parents \subseteq e.updateColumns

Fits(e) == FieldsFit(e) /\ KeysFit(e) /\ RulesFit(e) /\ DefaultsFit(e) /\ ColumnsFit(e)

\* The fields of a group have kinds, and only keys are of kind "key".
Kinded(F, keys) ==
  \A f \in DOMAIN F : F[f].kind \in KindNames /\ (F[f].kind = "key" => f \in keys)

\* The groups a schema is joined from keep their kinds.
LEMMA JoinedKinded ==
  ASSUME NEW F, NEW G, NEW keys, Kinded(F, keys), Kinded(G, keys)
  PROVE  Kinded(Joined(F, G), keys)
  BY DEF Kinded, Joined

LEMMA GivenKinded ==
  ASSUME NEW kind \in KindNames, NEW names, NEW keys, kind = "key" => names \subseteq keys
  PROVE  Kinded(Required(kind, names), keys) /\ Kinded(Optional(kind, names), keys)
  BY DEF Kinded, Required, Optional

\* The fields of a group that are among names have a kind, or are required.
Are(F, names, kind) == \A f \in DOMAIN F : f \in names => F[f].kind = kind
Needed(F, names) == \A f \in DOMAIN F : f \in names => F[f].presence = "required"

LEMMA JoinedAre ==
  ASSUME NEW F, NEW G, NEW names, NEW kind, Are(F, names, kind), Are(G, names, kind)
  PROVE  Are(Joined(F, G), names, kind)
  BY DEF Are, Joined

LEMMA GivenAre ==
  ASSUME NEW k, NEW given, NEW names, NEW kind,
         k = kind \/ \A f \in given : f \notin names
  PROVE  Are(Required(k, given), names, kind) /\ Are(Optional(k, given), names, kind)
  BY DEF Are, Required, Optional

LEMMA JoinedNeeded ==
  ASSUME NEW F, NEW G, NEW names, Needed(F, names), Needed(G, names)
  PROVE  Needed(Joined(F, G), names)
  BY DEF Needed, Joined

LEMMA GivenNeeded ==
  ASSUME NEW k, NEW given, NEW names
  PROVE  /\ Needed(Required(k, given), names)
         /\ (\A f \in given : f \notin names) => Needed(Optional(k, given), names)
  BY DEF Needed, Required, Optional

\* The values the defaults are drawn from.
LEMMA ValuesAre ==
  /\ "one" \in Values("enum") /\ Values("number") = Int /\ 0 \in Values("number")
  /\ {TRUE, FALSE} \subseteq Values("flag") /\ Now \in Values("time")
  /\ Values("key") = Ids
  BY DEF Values

----------------------------------------------------------------------------
(* AnalyticsEvent                                                           *)

\* Its fields, and that they have kinds.
LEMMA EventFieldNames ==
  DOMAIN EventFields =
    {"post_id", "event_type", "device", "session_id", "country", "path", "referrer",
    "scroll_pct", "duration_ms", "metadata", "timestamp"}
  BY DEF EventFields, EventIdentity, EventVisitor, EventReading, EventMeasures,
         EventTime, Joined, Required, Optional

LEMMA EventKeys == Kinded(EventFields, {"post_id"})
  BY JoinedKinded, GivenKinded
  DEF KindNames, EventFields, EventIdentity, EventVisitor, EventReading, EventMeasures,
      EventTime

\* The kinds the keys, rules and defaults depend on.
LEMMA EventKindsAre ==
  /\ EventKinds["post_id"] = "key"
  /\ EventKinds["device"] = "enum"
  /\ EventKinds["timestamp"] = "time"
<1> USE DEF EventFields, EventIdentity, EventVisitor, EventReading, EventMeasures,
            EventTime
<1>1. Are(EventFields, {"post_id"}, "key")
  BY JoinedAre, GivenAre
<1>2. Are(EventFields, {"device"}, "enum")
  BY JoinedAre, GivenAre
<1>3. Are(EventFields, {"timestamp"}, "time")
  BY JoinedAre, GivenAre
<1> HIDE DEF EventFields
<1> QED
  BY <1>1, <1>2, <1>3, EventFieldNames
  DEF Are, EventKinds, Kinds

\* The record the entity is.
LEMMA EventEntity ==
  /\ Entity["AnalyticsEvent"].fields = EventFields
  /\ Entity["AnalyticsEvent"].kinds = EventKinds
  /\ Entity["AnalyticsEvent"].numbers = EventNumbers
  /\ Entity["AnalyticsEvent"].nullable = EventNullable
  /\ Entity["AnalyticsEvent"].parents = EventParents
  /\ Entity["AnalyticsEvent"].children = EventChildren
  /\ Entity["AnalyticsEvent"].createSets = EventCreateSets
  /\ Entity["AnalyticsEvent"].defaults = EventDefaults
  /\ Entity["AnalyticsEvent"].rules = EventRules
  /\ Entity["AnalyticsEvent"].createChecks = EventCreateChecks
  /\ Entity["AnalyticsEvent"].createColumns = EventCreateColumns
  /\ Entity["AnalyticsEvent"].updateSets = EventUpdateSets
  /\ Entity["AnalyticsEvent"].updateChecks = EventUpdateChecks
  /\ Entity["AnalyticsEvent"].updateColumns = EventUpdateColumns
  BY DEF Entity

\* Each part of a well-formed entity.
LEMMA EventFits == Fits(Entity["AnalyticsEvent"])
<1>1. FieldsFit(Entity["AnalyticsEvent"])
  BY EventEntity, EventFieldNames, EventKeys
  DEF FieldsFit, Kinded, EventKinds, Kinds, EventNumbers, OfKind, EventNullable, Nullable
<1>2. KeysFit(Entity["AnalyticsEvent"])
  BY EventEntity, EventFieldNames, EventKindsAre DEF KeysFit, Types, EventParents
<1>3. RulesFit(Entity["AnalyticsEvent"])
  <2>1. DOMAIN EventRules =
          {"event_type", "device", "session_id", "path", "country", "referrer",
          "scroll_pct", "duration_ms"}
    BY DEF EventRules, Each, Joined
  <2>2. QED
    BY <2>1, EventEntity, EventFieldNames, EventKeys
    DEF RulesFit, Kinded, EventKinds, Kinds, EventCreateChecks, EventUpdateChecks
<1>4. DefaultsFit(Entity["AnalyticsEvent"])
  <2>1. DOMAIN EventDefaults = {"device", "timestamp"}
    BY DEF EventDefaults, Stamped, Joined
  <2>2. /\ EventDefaults["device"] \in Values("enum")
        /\ EventDefaults["timestamp"] \in Values("time")
    BY ValuesAre DEF EventDefaults, Stamped, Joined
  <2>3. \A f \in DOMAIN EventDefaults :
          /\ f \in DOMAIN EventFields /\ EventKinds[f] # "key"
          /\ EventDefaults[f] \in Values(EventKinds[f])
    BY <2>1, <2>2, EventFieldNames, EventKindsAre
  <2>4. QED
    BY <2>1, <2>3, EventEntity, EventFieldNames, EventKeys, EventKindsAre
    DEF DefaultsFit, EventUpdateColumns
<1>5. ColumnsFit(Entity["AnalyticsEvent"])
  <2>1. /\ EventCreateSets \subseteq DOMAIN EventFields
        /\ EventUpdateSets \subseteq EventUpdateColumns
    BY EventFieldNames DEF EventCreateSets, EventUpdateSets, EventUpdateColumns, EventIdentity,
         EventVisitor, EventReading, EventMeasures, EventTime, Joined, Required,
         Optional
  <2>2. QED
    BY <2>1, EventEntity, EventFieldNames
    DEF ColumnsFit, EventParents, EventCreateColumns, EventUpdateColumns
<1> QED
  BY <1>1, <1>2, <1>3, <1>4, <1>5 DEF Fits

----------------------------------------------------------------------------
(* MediaAsset                                                               *)

\* Its fields, and that they have kinds.
LEMMA MediaFieldNames ==
  DOMAIN MediaFields =
    {"uploader_id", "asset_type", "url", "storage_key", "filename", "original_name",
    "mime_type", "thumbnail_url", "alt_text", "caption", "size_bytes", "width",
    "height", "duration_sec", "metadata", "created_at"}
  BY DEF MediaFields, MediaIdentity, MediaNames, MediaSize, MediaExtent,
         MediaTexts, MediaTime, Joined, Required, Optional

LEMMA MediaKeys == Kinded(MediaFields, {"uploader_id"})
  BY JoinedKinded, GivenKinded
  DEF KindNames, MediaFields, MediaIdentity, MediaNames, MediaSize, MediaExtent, MediaTexts,
      MediaTime

\* The kinds the keys, rules and defaults depend on.
LEMMA MediaKindsAre ==
  /\ MediaKinds["uploader_id"] = "key"
  /\ MediaKinds["created_at"] = "time"
<1> USE DEF MediaFields, MediaIdentity, MediaNames, MediaSize, MediaExtent, MediaTexts,
            MediaTime
<1>1. Are(MediaFields, {"uploader_id"}, "key")
  BY JoinedAre, GivenAre
<1>2. Are(MediaFields, {"created_at"}, "time")
  BY JoinedAre, GivenAre
<1> HIDE DEF MediaFields
<1> QED
  BY <1>1, <1>2, MediaFieldNames
  DEF Are, MediaKinds, Kinds

\* The record the entity is.
LEMMA MediaEntity ==
  /\ Entity["MediaAsset"].fields = MediaFields
  /\ Entity["MediaAsset"].kinds = MediaKinds
  /\ Entity["MediaAsset"].numbers = MediaNumbers
  /\ Entity["MediaAsset"].nullable = MediaNullable
  /\ Entity["MediaAsset"].parents = MediaParents
  /\ Entity["MediaAsset"].children = MediaChildren
  /\ Entity["MediaAsset"].createSets = MediaCreateNames \cup MediaCreateRest
  /\ Entity["MediaAsset"].defaults = MediaDefaults
  /\ Entity["MediaAsset"].rules = MediaRules
  /\ Entity["MediaAsset"].createChecks = MediaCreateChecks
  /\ Entity["MediaAsset"].createColumns = MediaCreateColumns
  /\ Entity["MediaAsset"].updateSets = MediaUpdateNames \cup MediaUpdateNumbers \cup MediaUpdateRest
  /\ Entity["MediaAsset"].updateChecks = MediaUpdateChecks
  /\ Entity["MediaAsset"].updateColumns = MediaUpdateColumns
  BY DEF Entity

\* Each part of a well-formed entity.
LEMMA MediaFits == Fits(Entity["MediaAsset"])
<1>1. FieldsFit(Entity["MediaAsset"])
  BY MediaEntity, MediaFieldNames, MediaKeys
  DEF FieldsFit, Kinded, MediaKinds, Kinds, MediaNumbers, OfKind, MediaNullable, Nullable
<1>2. KeysFit(Entity["MediaAsset"])
  BY MediaEntity, MediaFieldNames, MediaKindsAre DEF KeysFit, Types, MediaParents
<1>3. RulesFit(Entity["MediaAsset"])
  <2>1. DOMAIN MediaRules =
          {"url", "storage_key", "filename", "original_name", "mime_type",
          "asset_type", "size_bytes", "width", "height", "duration_sec",
          "thumbnail_url", "alt_text", "caption"}
    BY DEF MediaRules, Each, Joined
  <2>2. QED
    BY <2>1, MediaEntity, MediaFieldNames, MediaKeys
    DEF RulesFit, Kinded, MediaKinds, Kinds, MediaCreateChecks, MediaUpdateChecks
<1>4. DefaultsFit(Entity["MediaAsset"])
  <2>1. DOMAIN MediaDefaults = {"created_at"}
    BY DEF MediaDefaults, Stamped, Joined
  <2>2. /\ MediaDefaults["created_at"] \in Values("time")
    BY ValuesAre DEF MediaDefaults, Stamped, Joined
  <2>3. \A f \in DOMAIN MediaDefaults :
          /\ f \in DOMAIN MediaFields /\ MediaKinds[f] # "key"
          /\ MediaDefaults[f] \in Values(MediaKinds[f])
    BY <2>1, <2>2, MediaFieldNames, MediaKindsAre
  <2>4. QED
    BY <2>1, <2>3, MediaEntity, MediaFieldNames, MediaKeys, MediaKindsAre
    DEF DefaultsFit, MediaUpdateColumns
<1>5. ColumnsFit(Entity["MediaAsset"])
  <2>1. /\ MediaCreateNames \subseteq DOMAIN MediaFields
        /\ MediaCreateRest \subseteq DOMAIN MediaFields
        /\ MediaUpdateNames \subseteq MediaUpdateColumns
        /\ MediaUpdateNumbers \subseteq MediaUpdateColumns
        /\ MediaUpdateRest \subseteq MediaUpdateColumns
    BY MediaFieldNames DEF MediaCreateNames, MediaCreateRest, MediaUpdateNames, MediaUpdateNumbers,
         MediaUpdateRest, MediaUpdateColumns, MediaIdentity, MediaNames,
         MediaSize, MediaExtent, MediaTexts, MediaTime, Joined, Required, Optional
  <2>2. QED
    BY <2>1, MediaEntity, MediaFieldNames
    DEF ColumnsFit, MediaParents, MediaCreateColumns, MediaUpdateColumns
<1> QED
  BY <1>1, <1>2, <1>3, <1>4, <1>5 DEF Fits

----------------------------------------------------------------------------
(* Post                                                                     *)

\* Its fields, and that they have kinds.
LEMMA PostFieldNames ==
  DOMAIN PostFields =
    {"section_id", "author_id", "status", "title", "slug", "summary", "content",
    "cover_image", "cover_image_alt", "meta_title", "meta_desc", "og_image",
    "published", "is_featured", "read_time", "word_count", "published_at",
    "scheduled_at", "created_at", "updated_at"}
  BY DEF PostFields, PostIdentity, PostTexts, PostState, PostCounts, PostMeta,
         PostDates, PostTimes, Joined, Required, Optional

LEMMA PostKeys == Kinded(PostFields, {"section_id", "author_id"})
  BY JoinedKinded, GivenKinded
  DEF KindNames, PostFields, PostIdentity, PostTexts, PostState, PostCounts, PostMeta,
      PostDates, PostTimes

\* The kinds the keys, rules and defaults depend on.
LEMMA PostKindsAre ==
  /\ PostKinds["section_id"] = "key"
  /\ PostKinds["author_id"] = "key"
  /\ PostKinds["status"] = "enum"
  /\ PostKinds["published"] = "flag"
  /\ PostKinds["read_time"] = "number"
  /\ PostKinds["word_count"] = "number"
  /\ PostKinds["is_featured"] = "flag"
  /\ PostKinds["created_at"] = "time"
  /\ PostKinds["updated_at"] = "time"
  /\ "updated_at" \notin PostNullable
<1> USE DEF PostFields, PostIdentity, PostTexts, PostState, PostCounts, PostMeta,
            PostDates, PostTimes
<1>1. Are(PostFields, {"section_id", "author_id"}, "key")
  BY JoinedAre, GivenAre
<1>2. Are(PostFields, {"status"}, "enum")
  BY JoinedAre, GivenAre
<1>3. Are(PostFields, {"published", "is_featured"}, "flag")
  BY JoinedAre, GivenAre
<1>4. Are(PostFields, {"read_time", "word_count"}, "number")
  BY JoinedAre, GivenAre
<1>5. Are(PostFields, {"created_at", "updated_at"}, "time")
  BY JoinedAre, GivenAre
<1>6. Needed(PostFields, {"updated_at"})
  BY JoinedNeeded, GivenNeeded
<1> HIDE DEF PostFields
<1> QED
  BY <1>1, <1>2, <1>3, <1>4, <1>5, <1>6, PostFieldNames
  DEF Are, Needed, PostKinds, Kinds, PostNullable, Nullable

\* The record the entity is.
LEMMA PostEntity ==
  /\ Entity["Post"].fields = PostFields
  /\ Entity["Post"].kinds = PostKinds
  /\ Entity["Post"].numbers = PostNumbers
  /\ Entity["Post"].nullable = PostNullable
  /\ Entity["Post"].parents = PostParents
  /\ Entity["Post"].children = PostChildren
  /\ Entity["Post"].createSets = PostCreateTexts \cup PostCreateState \cup PostCreateMeta
  /\ Entity["Post"].defaults = PostDefaults
  /\ Entity["Post"].rules = PostRules
  /\ Entity["Post"].createChecks = PostCreateChecks
  /\ Entity["Post"].createColumns = PostCreateColumns
  /\ Entity["Post"].updateSets = PostUpdateTexts \cup PostUpdateState \cup PostUpdateMeta
  /\ Entity["Post"].updateChecks = PostUpdateChecks
  /\ Entity["Post"].updateColumns = PostUpdateColumns
  BY DEF Entity

\* Each part of a well-formed entity.
LEMMA PostFits == Fits(Entity["Post"])
<1>1. FieldsFit(Entity["Post"])
  BY PostEntity, PostFieldNames, PostKeys
  DEF FieldsFit, Kinded, PostKinds, Kinds, PostNumbers, OfKind, PostNullable, Nullable
<1>2. KeysFit(Entity["Post"])
  BY PostEntity, PostFieldNames, PostKindsAre DEF KeysFit, Types, PostParents
<1>3. RulesFit(Entity["Post"])
  <2>1. DOMAIN PostRules =
          {"title", "slug", "status", "read_time", "word_count", "summary",
          "cover_image", "cover_image_alt", "meta_title", "meta_desc", "og_image"}
    BY DEF PostRules, Each, Joined
  <2>2. QED
    BY <2>1, PostEntity, PostFieldNames, PostKeys
    DEF RulesFit, Kinded, PostKinds, Kinds, PostCreateChecks, PostUpdateChecks
<1>4. DefaultsFit(Entity["Post"])
  <2>1. DOMAIN PostDefaults = {"status", "published", "read_time", "word_count", "is_featured",
        "created_at", "updated_at"}
    BY DEF PostDefaults, Stamped, Joined
  <2>2. /\ PostDefaults["status"] \in Values("enum")
        /\ PostDefaults["published"] \in Values("flag")
        /\ PostDefaults["read_time"] \in Values("number")
        /\ PostDefaults["word_count"] \in Values("number")
        /\ PostDefaults["is_featured"] \in Values("flag")
        /\ PostDefaults["created_at"] \in Values("time")
        /\ PostDefaults["updated_at"] \in Values("time")
    BY ValuesAre DEF PostDefaults, Stamped, Joined
  <2>3. \A f \in DOMAIN PostDefaults :
          /\ f \in DOMAIN PostFields /\ PostKinds[f] # "key"
          /\ PostDefaults[f] \in Values(PostKinds[f])
    BY <2>1, <2>2, PostFieldNames, PostKindsAre
  <2>4. QED
    BY <2>1, <2>3, PostEntity, PostFieldNames, PostKeys, PostKindsAre
    DEF DefaultsFit, PostUpdateColumns
<1>5. ColumnsFit(Entity["Post"])
  <2>1. /\ PostCreateTexts \subseteq DOMAIN PostFields
        /\ PostCreateState \subseteq DOMAIN PostFields
        /\ PostCreateMeta \subseteq DOMAIN PostFields
        /\ PostUpdateTexts \subseteq PostUpdateColumns
        /\ PostUpdateState \subseteq PostUpdateColumns
        /\ PostUpdateMeta \subseteq PostUpdateColumns
    BY PostFieldNames DEF PostCreateTexts, PostCreateState, PostCreateMeta, PostUpdateTexts,
         PostUpdateState, PostUpdateMeta, PostUpdateColumns, PostIdentity,
         PostTexts, PostState, PostCounts, PostMeta, PostDates, PostTimes, Joined,
         Required, Optional
  <2>2. QED
    BY <2>1, PostEntity, PostFieldNames
    DEF ColumnsFit, PostParents, PostCreateColumns, PostUpdateColumns
<1> QED
  BY <1>1, <1>2, <1>3, <1>4, <1>5 DEF Fits

----------------------------------------------------------------------------
(* PostBlock                                                                *)

\* Its fields, and that they have kinds.
LEMMA BlockFieldNames ==
  DOMAIN BlockFields =
    {"post_id", "type", "content", "position", "attrs"}
  BY DEF BlockFields, BlockIdentity, BlockPlace, Joined, Required, Optional

LEMMA BlockKeys == Kinded(BlockFields, {"post_id"})
  BY JoinedKinded, GivenKinded
  DEF KindNames, BlockFields, BlockIdentity, BlockPlace

\* The kinds the keys, rules and defaults depend on.
LEMMA BlockKindsAre ==
  /\ BlockKinds["post_id"] = "key"
  BY DEF BlockNullable, Nullable, BlockKinds, Kinds, BlockFields, BlockIdentity, BlockPlace, Joined,
         Required, Optional

\* The record the entity is.
LEMMA BlockEntity ==
  /\ Entity["PostBlock"].fields = BlockFields
  /\ Entity["PostBlock"].kinds = BlockKinds
  /\ Entity["PostBlock"].numbers = BlockNumbers
  /\ Entity["PostBlock"].nullable = BlockNullable
  /\ Entity["PostBlock"].parents = BlockParents
  /\ Entity["PostBlock"].children = BlockChildren
  /\ Entity["PostBlock"].createSets = BlockCreateSets
  /\ Entity["PostBlock"].defaults = BlockDefaults
  /\ Entity["PostBlock"].rules = BlockRules
  /\ Entity["PostBlock"].createChecks = BlockCreateChecks
  /\ Entity["PostBlock"].createColumns = BlockCreateColumns
  /\ Entity["PostBlock"].updateSets = BlockUpdateSets
  /\ Entity["PostBlock"].updateChecks = BlockUpdateChecks
  /\ Entity["PostBlock"].updateColumns = BlockUpdateColumns
  BY DEF Entity

\* Each part of a well-formed entity.
LEMMA BlockFits == Fits(Entity["PostBlock"])
<1>1. FieldsFit(Entity["PostBlock"])
  BY BlockEntity, BlockFieldNames, BlockKeys
  DEF FieldsFit, Kinded, BlockKinds, Kinds, BlockNumbers, OfKind, BlockNullable, Nullable
<1>2. KeysFit(Entity["PostBlock"])
  BY BlockEntity, BlockFieldNames, BlockKindsAre DEF KeysFit, Types, BlockParents
<1>3. RulesFit(Entity["PostBlock"])
  <2>1. DOMAIN BlockRules =
          {"type", "position"}
    BY DEF BlockRules, Each, Joined
  <2>2. QED
    BY <2>1, BlockEntity, BlockFieldNames, BlockKeys
    DEF RulesFit, Kinded, BlockKinds, Kinds, BlockCreateChecks, BlockUpdateChecks
<1>4. DefaultsFit(Entity["PostBlock"])
  <2>1. DOMAIN BlockDefaults = {}
    BY DEF BlockDefaults, Stamped, Joined
  <2>2. QED
    BY <2>1, BlockEntity DEF DefaultsFit
<1>5. ColumnsFit(Entity["PostBlock"])
  <2>1. /\ BlockCreateSets \subseteq DOMAIN BlockFields
        /\ BlockUpdateSets \subseteq BlockUpdateColumns
    BY BlockFieldNames DEF BlockCreateSets, BlockUpdateSets, BlockUpdateColumns, BlockIdentity,
         BlockPlace, Joined, Required, Optional
  <2>2. QED
    BY <2>1, BlockEntity, BlockFieldNames
    DEF ColumnsFit, BlockParents, BlockCreateColumns, BlockUpdateColumns
<1> QED
  BY <1>1, <1>2, <1>3, <1>4, <1>5 DEF Fits

----------------------------------------------------------------------------
(* Section                                                                  *)

\* Its fields, and that they have kinds.
LEMMA SectionFieldNames ==
  DOMAIN SectionFields =
    {"layout", "name", "slug", "description", "theme_color", "cover_image",
    "meta_title", "meta_desc", "is_active", "sort_order", "settings", "created_at",
    "updated_at"}
  BY DEF SectionFields, SectionNames, SectionTexts, SectionMeta, SectionDisplay,
         SectionTimes, Joined, Required, Optional

LEMMA SectionKeys == Kinded(SectionFields, {})
  BY JoinedKinded, GivenKinded
  DEF KindNames, SectionFields, SectionNames, SectionTexts, SectionMeta, SectionDisplay,
      SectionTimes

\* The kinds the keys, rules and defaults depend on.
LEMMA SectionKindsAre ==
  /\ SectionKinds["layout"] = "enum"
  /\ SectionKinds["is_active"] = "flag"
  /\ SectionKinds["sort_order"] = "number"
  /\ SectionKinds["created_at"] = "time"
  /\ SectionKinds["updated_at"] = "time"
  /\ "updated_at" \notin SectionNullable
<1> USE DEF SectionFields, SectionNames, SectionTexts, SectionMeta, SectionDisplay,
            SectionTimes
<1>1. Are(SectionFields, {"layout"}, "enum")
  BY JoinedAre, GivenAre
<1>2. Are(SectionFields, {"is_active"}, "flag")
  BY JoinedAre, GivenAre
<1>3. Are(SectionFields, {"sort_order"}, "number")
  BY JoinedAre, GivenAre
<1>4. Are(SectionFields, {"created_at", "updated_at"}, "time")
  BY JoinedAre, GivenAre
<1>5. Needed(SectionFields, {"updated_at"})
  BY JoinedNeeded, GivenNeeded
<1> HIDE DEF SectionFields
<1> QED
  BY <1>1, <1>2, <1>3, <1>4, <1>5, SectionFieldNames
  DEF Are, Needed, SectionKinds, Kinds, SectionNullable, Nullable

\* The record the entity is.
LEMMA SectionEntity ==
  /\ Entity["Section"].fields = SectionFields
  /\ Entity["Section"].kinds = SectionKinds
  /\ Entity["Section"].numbers = SectionNumbers
  /\ Entity["Section"].nullable = SectionNullable
  /\ Entity["Section"].parents = SectionParents
  /\ Entity["Section"].children = SectionChildren
  /\ Entity["Section"].createSets = SectionCreateTexts \cup SectionCreateRest
  /\ Entity["Section"].defaults = SectionDefaults
  /\ Entity["Section"].rules = SectionRules
  /\ Entity["Section"].createChecks = SectionCreateChecks
  /\ Entity["Section"].createColumns = SectionCreateColumns
  /\ Entity["Section"].updateSets = SectionUpdateTexts \cup SectionUpdateRest
  /\ Entity["Section"].updateChecks = SectionUpdateChecks
  /\ Entity["Section"].updateColumns = SectionUpdateColumns
  BY DEF Entity

\* Each part of a well-formed entity.
LEMMA SectionFits == Fits(Entity["Section"])
<1>1. FieldsFit(Entity["Section"])
  BY SectionEntity, SectionFieldNames, SectionKeys
  DEF FieldsFit, Kinded, SectionKinds, Kinds, SectionNumbers, OfKind, SectionNullable, Nullable
<1>2. KeysFit(Entity["Section"])
  BY SectionEntity, SectionFieldNames, SectionKindsAre DEF KeysFit, Types, SectionParents
<1>3. RulesFit(Entity["Section"])
  <2>1. DOMAIN SectionRules =
          {"name", "slug", "layout", "description", "theme_color", "cover_image",
          "meta_title", "meta_desc"}
    BY DEF SectionRules, Each, Joined
  <2>2. QED
    BY <2>1, SectionEntity, SectionFieldNames, SectionKeys
    DEF RulesFit, Kinded, SectionKinds, Kinds, SectionCreateChecks, SectionUpdateChecks
<1>4. DefaultsFit(Entity["Section"])
  <2>1. DOMAIN SectionDefaults = {"layout", "is_active", "sort_order", "created_at", "updated_at"}
    BY DEF SectionDefaults, Stamped, Joined
  <2>2. /\ SectionDefaults["layout"] \in Values("enum")
        /\ SectionDefaults["is_active"] \in Values("flag")
        /\ SectionDefaults["sort_order"] \in Values("number")
        /\ SectionDefaults["created_at"] \in Values("time")
        /\ SectionDefaults["updated_at"] \in Values("time")
    BY ValuesAre DEF SectionDefaults, Stamped, Joined
  <2>3. \A f \in DOMAIN SectionDefaults :
          /\ f \in DOMAIN SectionFields /\ SectionKinds[f] # "key"
          /\ SectionDefaults[f] \in Values(SectionKinds[f])
    BY <2>1, <2>2, SectionFieldNames, SectionKindsAre
  <2>4. QED
    BY <2>1, <2>3, SectionEntity, SectionFieldNames, SectionKeys, SectionKindsAre
    DEF DefaultsFit, SectionUpdateColumns
<1>5. ColumnsFit(Entity["Section"])
  <2>1. /\ SectionCreateTexts \subseteq DOMAIN SectionFields
        /\ SectionCreateRest \subseteq DOMAIN SectionFields
        /\ SectionUpdateTexts \subseteq SectionUpdateColumns
        /\ SectionUpdateRest \subseteq SectionUpdateColumns
    BY SectionFieldNames DEF SectionCreateTexts, SectionCreateRest, SectionUpdateTexts,
         SectionUpdateRest, SectionUpdateColumns, SectionNames, SectionTexts,
         SectionMeta, SectionDisplay, SectionTimes, Joined, Required, Optional
  <2>2. QED
    BY <2>1, SectionEntity, SectionFieldNames
    DEF ColumnsFit, SectionParents, SectionCreateColumns, SectionUpdateColumns
<1> QED
  BY <1>1, <1>2, <1>3, <1>4, <1>5 DEF Fits

----------------------------------------------------------------------------
(* User                                                                     *)

\* Its fields, and that they have kinds.
LEMMA UserFieldNames ==
  DOMAIN UserFields =
    {"role", "email", "password_hash", "full_name", "avatar_url", "is_active",
    "last_login_at", "created_at", "updated_at"}
  BY DEF UserFields, UserIdentity, UserState, UserTimes, Joined, Required,
         Optional

LEMMA UserKeys == Kinded(UserFields, {})
  BY JoinedKinded, GivenKinded
  DEF KindNames, UserFields, UserIdentity, UserState, UserTimes

\* The kinds the keys, rules and defaults depend on.
LEMMA UserKindsAre ==
  /\ UserKinds["role"] = "enum"
  /\ UserKinds["is_active"] = "flag"
  /\ UserKinds["created_at"] = "time"
  /\ UserKinds["updated_at"] = "time"
  /\ "updated_at" \notin UserNullable
<1> USE DEF UserFields, UserIdentity, UserState, UserTimes
<1>1. Are(UserFields, {"role"}, "enum")
  BY JoinedAre, GivenAre
<1>2. Are(UserFields, {"is_active"}, "flag")
  BY JoinedAre, GivenAre
<1>3. Are(UserFields, {"created_at", "updated_at"}, "time")
  BY JoinedAre, GivenAre
<1>4. Needed(UserFields, {"updated_at"})
  BY JoinedNeeded, GivenNeeded
<1> HIDE DEF UserFields
<1> QED
  BY <1>1, <1>2, <1>3, <1>4, UserFieldNames
  DEF Are, Needed, UserKinds, Kinds, UserNullable, Nullable

\* The record the entity is.
LEMMA UserEntity ==
  /\ Entity["User"].fields = UserFields
  /\ Entity["User"].kinds = UserKinds
  /\ Entity["User"].numbers = UserNumbers
  /\ Entity["User"].nullable = UserNullable
  /\ Entity["User"].parents = UserParents
  /\ Entity["User"].children = UserChildren
  /\ Entity["User"].createSets = UserCreateSets
  /\ Entity["User"].defaults = UserDefaults
  /\ Entity["User"].rules = UserRules
  /\ Entity["User"].createChecks = UserCreateChecks
  /\ Entity["User"].createColumns = UserCreateColumns
  /\ Entity["User"].updateSets = UserUpdateSets
  /\ Entity["User"].updateChecks = UserUpdateChecks
  /\ Entity["User"].updateColumns = UserUpdateColumns
  BY DEF Entity

\* Each part of a well-formed entity.
LEMMA UserFits == Fits(Entity["User"])
<1>1. FieldsFit(Entity["User"])
  BY UserEntity, UserFieldNames, UserKeys
  DEF FieldsFit, Kinded, UserKinds, Kinds, UserNumbers, OfKind, UserNullable, Nullable
<1>2. KeysFit(Entity["User"])
  BY UserEntity, UserFieldNames, UserKindsAre DEF KeysFit, Types, UserParents
<1>3. RulesFit(Entity["User"])
  <2>1. DOMAIN UserRules =
          {"email", "full_name", "password_hash", "avatar_url", "role"}
    BY DEF UserRules, Each, Joined
  <2>2. QED
    BY <2>1, UserEntity, UserFieldNames, UserKeys
    DEF RulesFit, Kinded, UserKinds, Kinds, UserCreateChecks, UserUpdateChecks
<1>4. DefaultsFit(Entity["User"])
  <2>1. DOMAIN UserDefaults = {"role", "is_active", "created_at", "updated_at"}
    BY DEF UserDefaults, Stamped, Joined
  <2>2. /\ UserDefaults["role"] \in Values("enum")
        /\ UserDefaults["is_active"] \in Values("flag")
        /\ UserDefaults["created_at"] \in Values("time")
        /\ UserDefaults["updated_at"] \in Values("time")
    BY ValuesAre DEF UserDefaults, Stamped, Joined
  <2>3. \A f \in DOMAIN UserDefaults :
          /\ f \in DOMAIN UserFields /\ UserKinds[f] # "key"
          /\ UserDefaults[f] \in Values(UserKinds[f])
    BY <2>1, <2>2, UserFieldNames, UserKindsAre
  <2>4. QED
    BY <2>1, <2>3, UserEntity, UserFieldNames, UserKeys, UserKindsAre
    DEF DefaultsFit, UserUpdateColumns
<1>5. ColumnsFit(Entity["User"])
  <2>1. /\ UserCreateSets \subseteq DOMAIN UserFields
        /\ UserUpdateSets \subseteq UserUpdateColumns
    BY UserFieldNames DEF UserCreateSets, UserUpdateSets, UserUpdateColumns, UserIdentity,
         UserState, UserTimes, Joined, Required, Optional
  <2>2. QED
    BY <2>1, UserEntity, UserFieldNames
    DEF ColumnsFit, UserParents, UserCreateColumns, UserUpdateColumns
<1> QED
  BY <1>1, <1>2, <1>3, <1>4, <1>5 DEF Fits

----------------------------------------------------------------------------
(* Edges                                                                    *)

\* An edge from a type to children: a key of another type whose parent it is.
EdgeFits(type, c) ==
  /\ c.type \in Types \ {type} /\ c.key \in DOMAIN Entity[c.type].parents
  /\ Entity[c.type].parents[c.key] = type /\ c = Children(c.type, c.key)

\* The edges to children, and the keys, of each type.
LEMMA ReferringAre ==
  /\ Referring("AnalyticsEvent") = {}
  /\ Referring("MediaAsset") = {}
  /\ Referring("Post") = {Children("PostBlock", "post_id"), Children("AnalyticsEvent", "post_id")}
  /\ Referring("PostBlock") = {}
  /\ Referring("Section") = {Children("Post", "section_id")}
  /\ Referring("User") = {Children("Post", "author_id"), Children("MediaAsset", "uploader_id")}
<1>1. Referring("AnalyticsEvent") = {} /\ Referring("MediaAsset") = {} /\ Referring("PostBlock") = {}
  BY EventEntity, MediaEntity, BlockEntity DEF Referring, EventChildren, MediaChildren, BlockChildren
<1>2. Referring("Post") = {Children("PostBlock", "post_id"), Children("AnalyticsEvent", "post_id")}
  BY PostEntity DEF Referring, PostChildren, PostBlocks, PostEvents
<1>3. Referring("Section") = {Children("Post", "section_id")}
  BY SectionEntity DEF Referring, SectionChildren, SectionPosts
<1>4. Referring("User") = {Children("Post", "author_id"), Children("MediaAsset", "uploader_id")}
  BY UserEntity DEF Referring, UserChildren, UserPosts, UserMedia
<1> QED  BY <1>1, <1>2, <1>3, <1>4

LEMMA ParentsAre ==
  /\ Entity["AnalyticsEvent"].parents = [post_id |-> "Post"]
  /\ Entity["MediaAsset"].parents = [uploader_id |-> "User"]
  /\ Entity["Post"].parents = [section_id |-> "Section", author_id |-> "User"]
  /\ Entity["PostBlock"].parents = [post_id |-> "Post"]
  /\ DOMAIN Entity["Section"].parents = {}
  /\ DOMAIN Entity["User"].parents = {}
  BY EventEntity, MediaEntity, PostEntity, BlockEntity, SectionEntity, UserEntity
  DEF EventParents, MediaParents, PostParents, BlockParents, SectionParents, UserParents

\* Every edge to children is the inverse of a key, and every key of an edge.
LEMMA EdgesFit ==
  \A type \in Types :
    /\ \A c \in Referring(type) : EdgeFits(type, c)
    /\ \A k \in DOMAIN Entity[type].parents :
         Children(type, k) \in Referring(Entity[type].parents[k])
<1> USE ReferringAre, ParentsAre
<1>1. ASSUME NEW type \in Types, NEW c \in Referring(type) PROVE EdgeFits(type, c)
  BY <1>1 DEF Types, EdgeFits, Children
<1>2. ASSUME NEW type \in Types, NEW k \in DOMAIN Entity[type].parents
      PROVE  Children(type, k) \in Referring(Entity[type].parents[k])
  BY <1>2 DEF Types
<1> QED  BY <1>1, <1>2

\* Every entity is well formed.
LEMMA EntitiesFit == \A type \in Types : Fits(Entity[type])
  BY EventFits, MediaFits, PostFits, BlockFits, SectionFits, UserFits DEF Types
=============================================================================
