------------------------------ MODULE EntSchema ------------------------------
(****************************************************************************)
(* The six entities of the Ent schema, as the generated code knows them: the  *)
(* fields with their accessors (mutation.go), the setters of the create and   *)
(* update builders, what their checks ask for, the columns their statements   *)
(* write and the edges between entities.                                      *)
(*                                                                          *)
(* A field of kind "key" is the foreign key behind a unique edge to a parent.  *)
(****************************************************************************)

\* Two functions as one, the first where both have a value.
Joined(F, G) ==
  [x \in DOMAIN F \cup DOMAIN G |-> IF x \in DOMAIN F THEN F[x] ELSE G[x]]

\* The accessors of a required field: Set, Get, Old and Reset, for a number Add
\* and Added too; an optional field also has Clear and Cleared.
Required(kind, names) == [f \in names |-> [kind |-> kind, presence |-> "required"]]
Optional(kind, names) == [f \in names |-> [kind |-> kind, presence |-> "optional"]]

Kinds(fields) == [f \in DOMAIN fields |-> fields[f].kind]
OfKind(fields, kind) == {f \in DOMAIN fields : fields[f].kind = kind}
Nullable(fields) == {f \in DOMAIN fields : fields[f].presence = "optional"}

\* The validators of fields, by name.
Each(rules, names) == [f \in names |-> rules]
Text == {"NotEmpty", "MaxLen"}

\* A field that Ent fills in when the builder leaves it out: a value, or the
\* time of the save.
Now == "now"
Stamped(names) == [f \in names |-> Now]

\* The edge from a parent to its children: their type and the key they hold.
Children(type, key) == [type |-> type, key |-> key]

----------------------------------------------------------------------------
(* AnalyticsEvent                                                            *)

EventIdentity ==
  Joined(Optional("key", {"post_id"}),
    Joined(Required("enum", {"event_type"}), Required("text", {"session_id"})))
EventVisitor ==
  Joined(Required("enum", {"device"}),
    Joined(Optional("text", {"country"}), Required("text", {"path"})))
EventReading ==
  Joined(Optional("text", {"referrer"}), Optional("number", {"scroll_pct"}))
EventMeasures ==
  Joined(Optional("number", {"duration_ms"}), Optional("json", {"metadata"}))
EventTime == Required("time", {"timestamp"})
EventFields ==
  Joined(EventIdentity, Joined(EventVisitor, Joined(EventReading,
    Joined(EventMeasures, EventTime))))
EventKinds == Kinds(EventFields)
EventNumbers == OfKind(EventFields, "number")
EventNullable == Nullable(EventFields)
EventParents == [post_id |-> "Post"]
EventChildren == [e \in {} |-> Children("", "")]

EventCreateSets == DOMAIN EventFields
EventDefaults == Joined([device |-> "one"], Stamped({"timestamp"}))
EventRules ==
  Joined(Each({"Values"}, {"event_type", "device"}),
    Joined(Each(Text, {"session_id", "path"}),
    Joined(Each({"MaxLen"}, {"country", "referrer"}),
    Joined(Each({"NonNegative", "Max"}, {"scroll_pct"}),
      Each({"NonNegative"}, {"duration_ms"})))))
EventCreateChecks == DOMAIN EventRules
EventCreateColumns == DOMAIN EventFields
EventUpdateSets == DOMAIN EventFields \ {"timestamp"}
EventUpdateChecks == DOMAIN EventRules
EventUpdateColumns == DOMAIN EventFields \ {"timestamp"}

----------------------------------------------------------------------------
(* MediaAsset                                                                *)

MediaIdentity ==
  Joined(Optional("key", {"uploader_id"}), Required("text", {"url", "storage_key"}))
MediaNames ==
  Joined(Required("text", {"filename", "original_name", "mime_type"}),
      Required("enum", {"asset_type"}))
MediaSize == Joined(Required("number", {"size_bytes"}), Optional("number", {"width"}))
MediaExtent == Optional("number", {"height", "duration_sec"})
MediaTexts == Optional("text", {"thumbnail_url", "alt_text", "caption"})
MediaTime == Joined(Optional("json", {"metadata"}), Required("time", {"created_at"}))
MediaFields ==
  Joined(MediaIdentity, Joined(MediaNames, Joined(MediaSize, Joined(MediaExtent,
    Joined(MediaTexts, MediaTime)))))
MediaKinds == Kinds(MediaFields)
MediaNumbers == OfKind(MediaFields, "number")
MediaNullable == Nullable(MediaFields)
MediaParents == [uploader_id |-> "User"]
MediaChildren == [e \in {} |-> Children("", "")]

MediaCreateNames == DOMAIN Joined(MediaIdentity, MediaNames)
MediaCreateRest == DOMAIN Joined(MediaSize, Joined(MediaExtent, Joined(MediaTexts,
      MediaTime)))
MediaDefaults == Stamped({"created_at"})
MediaRules ==
  Joined(Each(Text, {"url", "storage_key", "filename", "original_name", "mime_type"}),
    Joined(Each({"Values"}, {"asset_type"}), Joined(Each({"Positive"}, {"size_bytes"}),
    Joined(Each({"NonNegative"}, {"width", "height", "duration_sec"}),
      Each({"MaxLen"}, {"thumbnail_url", "alt_text", "caption"})))))
MediaCreateChecks == DOMAIN MediaRules
MediaCreateColumns == DOMAIN MediaFields
MediaUpdateNames == DOMAIN Joined(MediaIdentity, MediaNames)
MediaUpdateNumbers == DOMAIN Joined(MediaSize, MediaExtent)
MediaUpdateRest == DOMAIN MediaTexts \cup {"metadata"}
MediaUpdateChecks == DOMAIN MediaRules
MediaUpdateColumns == DOMAIN MediaFields \ {"created_at"}

----------------------------------------------------------------------------
(* Post                                                                      *)

PostIdentity ==
  Joined(Required("key", {"section_id", "author_id"}),
      Required("text", {"title", "slug"}))
PostTexts == Optional("text", {"summary", "content", "cover_image"})
PostState ==
  Joined(Optional("text", {"cover_image_alt"}),
    Joined(Required("enum", {"status"}), Required("flag", {"published"})))
PostCounts ==
  Joined(Required("number", {"read_time", "word_count"}),
      Required("flag", {"is_featured"}))
PostMeta == Optional("text", {"meta_title", "meta_desc", "og_image"})
PostDates == Optional("time", {"published_at", "scheduled_at"})
PostTimes == Required("time", {"created_at", "updated_at"})
PostFields ==
  Joined(PostIdentity, Joined(PostTexts, Joined(PostState, Joined(PostCounts,
    Joined(PostMeta, Joined(PostDates, PostTimes))))))
PostKinds == Kinds(PostFields)
PostNumbers == OfKind(PostFields, "number")
PostNullable == Nullable(PostFields)
PostParents == [section_id |-> "Section", author_id |-> "User"]
PostBlocks == Children("PostBlock", "post_id")
PostEvents == Children("AnalyticsEvent", "post_id")
PostChildren == [blocks |-> PostBlocks, analytics_events |-> PostEvents]

PostCreateTexts == DOMAIN Joined(PostIdentity, PostTexts) \cup {"cover_image_alt"}
PostCreateState == DOMAIN PostCounts \cup {"status", "published"}
PostCreateMeta == DOMAIN Joined(PostMeta, Joined(PostDates, PostTimes))
PostDefaults ==
  Joined([status |-> "one", published |-> FALSE, read_time |-> 0, word_count |-> 0,
      is_featured |-> FALSE], Stamped({"created_at", "updated_at"}))
PostRules ==
  Joined(Each(Text, {"title"}), Joined(Each(Text \cup {"Match"}, {"slug"}),
    Joined(Each({"Values"}, {"status"}),
    Joined(Each({"NonNegative"}, {"read_time", "word_count"}),
      Each({"MaxLen"}, {"summary", "cover_image", "cover_image_alt", "meta_title",
      "meta_desc", "og_image"})))))
PostCreateChecks == DOMAIN PostRules
PostCreateColumns == DOMAIN PostFields
PostUpdateTexts == DOMAIN Joined(PostIdentity, PostTexts) \cup {"cover_image_alt"}
PostUpdateState == DOMAIN PostCounts \cup {"status", "published"}
PostUpdateMeta == DOMAIN Joined(PostMeta, PostDates) \cup {"updated_at"}
PostUpdateChecks == DOMAIN PostRules
PostUpdateColumns == DOMAIN PostFields \ {"created_at"}

----------------------------------------------------------------------------
(* PostBlock                                                                 *)

BlockIdentity ==
  Joined(Required("key", {"post_id"}),
    Joined(Required("enum", {"type"}), Optional("text", {"content"})))
BlockPlace == Joined(Optional("json", {"attrs"}), Required("number", {"position"}))
BlockFields == Joined(BlockIdentity, BlockPlace)
BlockKinds == Kinds(BlockFields)
BlockNumbers == OfKind(BlockFields, "number")
BlockNullable == Nullable(BlockFields)
BlockParents == [post_id |-> "Post"]
BlockChildren == [e \in {} |-> Children("", "")]

BlockCreateSets == DOMAIN BlockFields
BlockDefaults == Stamped({})
BlockRules == Joined(Each({"Values"}, {"type"}), Each({"NonNegative"}, {"position"}))
BlockCreateChecks == DOMAIN BlockRules
BlockCreateColumns == DOMAIN BlockFields
BlockUpdateSets == DOMAIN BlockFields
BlockUpdateChecks == DOMAIN BlockRules
BlockUpdateColumns == DOMAIN BlockFields

----------------------------------------------------------------------------
(* Section                                                                   *)

SectionNames == Required("text", {"name", "slug"})
SectionTexts == Optional("text", {"description", "theme_color", "cover_image"})
SectionMeta == Optional("text", {"meta_title", "meta_desc"})
SectionDisplay ==
  Joined(Required("enum", {"layout"}),
    Joined(Required("flag", {"is_active"}), Required("number", {"sort_order"})))
SectionTimes ==
  Joined(Optional("json", {"settings"}), Required("time", {"created_at", "updated_at"}))
SectionFields ==
  Joined(SectionNames, Joined(SectionTexts, Joined(SectionMeta,
    Joined(SectionDisplay, SectionTimes))))
SectionKinds == Kinds(SectionFields)
SectionNumbers == OfKind(SectionFields, "number")
SectionNullable == Nullable(SectionFields)
SectionParents == [e \in {} |-> ""]
SectionPosts == Children("Post", "section_id")
SectionChildren == [posts |-> SectionPosts]

SectionCreateTexts == DOMAIN Joined(SectionNames, Joined(SectionTexts, SectionMeta))
SectionCreateRest == DOMAIN Joined(SectionDisplay, SectionTimes)
SectionDefaults ==
  Joined([layout |-> "one", is_active |-> TRUE, sort_order |-> 0],
      Stamped({"created_at", "updated_at"}))
SectionRules ==
  Joined(Each(Text, {"name", "slug"}),
    Joined(Each({"Values"}, {"layout"}),
      Each({"MaxLen"}, {"description", "theme_color", "cover_image", "meta_title",
      "meta_desc"})))
SectionCreateChecks == DOMAIN SectionRules
SectionCreateColumns == DOMAIN SectionFields
SectionUpdateTexts == DOMAIN Joined(SectionNames, Joined(SectionTexts, SectionMeta))
SectionUpdateRest == DOMAIN SectionDisplay \cup {"settings", "updated_at"}
SectionUpdateChecks == DOMAIN SectionRules
SectionUpdateColumns == DOMAIN SectionFields \ {"created_at"}

----------------------------------------------------------------------------
(* User                                                                      *)

UserIdentity == Required("text", {"email", "password_hash", "full_name"})
UserState ==
  Joined(Optional("text", {"avatar_url"}),
    Joined(Required("enum", {"role"}), Required("flag", {"is_active"})))
UserTimes ==
  Joined(Optional("time", {"last_login_at"}),
      Required("time", {"created_at", "updated_at"}))
UserFields == Joined(UserIdentity, Joined(UserState, UserTimes))
UserKinds == Kinds(UserFields)
UserNumbers == OfKind(UserFields, "number")
UserNullable == Nullable(UserFields)
UserParents == [e \in {} |-> ""]
UserPosts == Children("Post", "author_id")
UserMedia == Children("MediaAsset", "uploader_id")
UserChildren == [posts |-> UserPosts, media_assets |-> UserMedia]

UserCreateSets == DOMAIN UserFields
UserDefaults ==
  Joined([role |-> "one", is_active |-> TRUE], Stamped({"created_at", "updated_at"}))
UserRules ==
  Joined(Each(Text, {"email", "full_name"}),
    Joined(Each({"NotEmpty"}, {"password_hash"}),
    Joined(Each({"MaxLen"}, {"avatar_url"}), Each({"Values"}, {"role"}))))
UserCreateChecks == DOMAIN UserRules
UserCreateColumns == DOMAIN UserFields
UserUpdateSets == DOMAIN UserFields \ {"created_at"}
UserUpdateChecks == DOMAIN UserRules
UserUpdateColumns == DOMAIN UserFields \ {"created_at"}

----------------------------------------------------------------------------
(* The entities together                                                     *)

Types == {"AnalyticsEvent", "MediaAsset", "Post", "PostBlock", "Section", "User"}

Entity == [
  AnalyticsEvent |->
    [fields |-> EventFields, kinds |-> EventKinds, numbers |-> EventNumbers,
     nullable |-> EventNullable, parents |-> EventParents, children |-> EventChildren,
     createSets |-> EventCreateSets, defaults |-> EventDefaults, rules |-> EventRules,
     createChecks |-> EventCreateChecks,
     createColumns |-> EventCreateColumns, updateSets |-> EventUpdateSets,
     updateChecks |-> EventUpdateChecks, updateColumns |-> EventUpdateColumns],
  MediaAsset |->
    [fields |-> MediaFields, kinds |-> MediaKinds, numbers |-> MediaNumbers,
     nullable |-> MediaNullable, parents |-> MediaParents, children |-> MediaChildren,
     createSets |-> MediaCreateNames \cup MediaCreateRest, defaults |-> MediaDefaults,
     rules |-> MediaRules, createChecks |-> MediaCreateChecks,
     createColumns |-> MediaCreateColumns,
     updateSets |-> MediaUpdateNames \cup MediaUpdateNumbers \cup MediaUpdateRest,
     updateChecks |-> MediaUpdateChecks, updateColumns |-> MediaUpdateColumns],
  Post |->
    [fields |-> PostFields, kinds |-> PostKinds, numbers |-> PostNumbers,
     nullable |-> PostNullable, parents |-> PostParents, children |-> PostChildren,
     createSets |-> PostCreateTexts \cup PostCreateState \cup PostCreateMeta,
     defaults |-> PostDefaults, rules |-> PostRules, createChecks |-> PostCreateChecks,
     createColumns |-> PostCreateColumns,
     updateSets |-> PostUpdateTexts \cup PostUpdateState \cup PostUpdateMeta,
     updateChecks |-> PostUpdateChecks, updateColumns |-> PostUpdateColumns],
  PostBlock |->
    [fields |-> BlockFields, kinds |-> BlockKinds, numbers |-> BlockNumbers,
     nullable |-> BlockNullable, parents |-> BlockParents, children |-> BlockChildren,
     createSets |-> BlockCreateSets, defaults |-> BlockDefaults, rules |-> BlockRules,
     createChecks |-> BlockCreateChecks,
     createColumns |-> BlockCreateColumns, updateSets |-> BlockUpdateSets,
     updateChecks |-> BlockUpdateChecks, updateColumns |-> BlockUpdateColumns],
  Section |->
    [fields |-> SectionFields, kinds |-> SectionKinds, numbers |-> SectionNumbers,
     nullable |-> SectionNullable, parents |-> SectionParents,
      children |-> SectionChildren,
     createSets |-> SectionCreateTexts \cup SectionCreateRest,
      defaults |-> SectionDefaults,
     rules |-> SectionRules, createChecks |-> SectionCreateChecks,
     createColumns |-> SectionCreateColumns,
     updateSets |-> SectionUpdateTexts \cup SectionUpdateRest,
     updateChecks |-> SectionUpdateChecks, updateColumns |-> SectionUpdateColumns],
  User |->
    [fields |-> UserFields, kinds |-> UserKinds, numbers |-> UserNumbers,
     nullable |-> UserNullable, parents |-> UserParents, children |-> UserChildren,
     createSets |-> UserCreateSets, defaults |-> UserDefaults, rules |-> UserRules,
     createChecks |-> UserCreateChecks,
     createColumns |-> UserCreateColumns, updateSets |-> UserUpdateSets,
     updateChecks |-> UserUpdateChecks, updateColumns |-> UserUpdateColumns]]
=============================================================================
