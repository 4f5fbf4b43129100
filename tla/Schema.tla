------------------------------- MODULE Schema -------------------------------
(***************************************************************************)
(* What the tables look like: as the models declare them, which is what    *)
(* create_all makes, and as the Alembic revisions build them up and take   *)
(* them down again.                                                        *)
(*                                                                         *)
(* A table is its columns, the kind of its primary key, whether it still   *)
(* has the foreign key from movies to media_sources, and whether its       *)
(* indexes are there.  Types, lengths and defaults are left out, and so is *)
(* every index but those of movies, whose names get in the rebuild's way.  *)
(***************************************************************************)
EXTENDS Naturals, Sequences, SequencesExt

Stamps == {"created_at", "updated_at"}

ActionLog == {"actor_id", "actor_role", "action", "entity_type", "entity_id",
             "old_value", "new_value", "ip_address", "context"}
AdCampaign == {"content_type", "text", "file_id", "button_text", "button_url",
              "schedule_start", "schedule_end", "priority",
              "trigger_every_n_searches", "is_active", "impressions_count",
              "created_by"}
AdminUser == {"telegram_id", "role", "added_by", "is_active",
             "login_pin_hash", "two_factor_secret", "two_factor_enabled"}
AdminLoginAttempt == {"admin_telegram_id", "success"}
AdminSession == {"admin_telegram_id", "session_token", "expires_at",
                "revoked_at", "last_seen_at"}
BackupRecord == {"filename", "size_bytes", "checksum", "integrity_status",
                "frequency", "created_by"}
BlacklistEntry == {"entry_type", "value", "reason", "is_active", "created_by"}
BotSetting == {"key", "value", "value_type", "category", "description",
              "updated_by"}
Broadcast == {"admin_id", "content_type", "source_chat_id",
             "source_message_id", "message_text", "reply_markup_json",
             "total_users", "sent_count", "failed_count", "status",
             "started_at", "finished_at"}
BroadcastFailedUser == {"broadcast_id", "telegram_id", "error_message",
                       "retried"}
DiscoveredChat == {"chat_id", "title", "chat_username", "chat_type", "status",
                  "added_by"}
ForceSubChannel == {"platform", "chat_id", "chat_username", "url", "title",
                   "invite_link", "instructions", "position", "is_active",
                   "is_mandatory", "added_by"}
ForceSubConfirmation == {"user_id", "channel_id"}
MediaCollection == {"name", "slug", "icon", "description", "position",
                   "is_active", "created_by"}
MediaSource == {"chat_id", "title", "type", "priority", "is_active",
               "category"}
Movie == {"code", "title", "description", "telegram_file_id",
         "source_message_id", "media_type", "caption", "genre", "language",
         "country", "year", "quality", "duration_minutes", "views_count",
         "downloads_count", "source_chat_id", "added_by", "is_active",
         "visibility", "is_broken", "last_verified_at", "collection_type",
         "series_title", "season_number", "episode_number", "part_number",
         "file_size_bytes", "resolution", "thumbnail_file_id", "actor",
         "director", "collection_id"}
PaymentRequest == {"user_id", "method", "status", "amount", "currency",
                  "days", "receipt_file_id", "telegram_payment_charge_id",
                  "reviewed_by", "reviewed_at"}
PremiumHistory == {"user_id", "granted_by", "plan", "started_at",
                  "expires_at"}
ReferralReward == {"user_id", "reward_type", "amount", "note", "granted_at"}
ReservedCode == {"code", "reserved_by", "expires_at", "released"}
SearchLog == {"query_text", "query_type", "platform", "found", "user_id",
             "created_at"}
SupportMessage == {"user_id", "user_message", "admin_reply", "replied_by",
                  "status"}
SystemLog == {"level", "category", "user_id", "admin_id", "action", "module",
             "description", "exception", "stack_trace"}
User == {"telegram_id", "username", "first_name", "last_name", "phone_number",
        "language_code", "is_banned", "ban_reason", "is_muted", "is_premium",
        "premium_expires_at", "referred_by", "invite_count",
        "movies_received_count", "searches_count", "start_count",
        "spam_score", "warnings_count", "notes", "admin_remarks",
        "last_known_client_hint", "is_verified", "joined_at",
        "last_active_at"}
WhitelistEntry == {"entry_type", "value", "note", "created_by"}

(* BigIntPrimaryKeyMixin: INTEGER PRIMARY KEY on SQLite, which is the rowid *)
(* and numbers the rows by itself.  users has Telegram's id instead.       *)
Table(cols, id, fk) == [cols |-> cols, id |-> id, fk |-> fk, indexed |-> FALSE]
Modelled(cols)      == Table(cols \cup {"id"} \cup Stamps, "rowid", FALSE)

Models == [
    action_logs |-> Modelled(ActionLog),
    ad_campaigns |-> Modelled(AdCampaign),
    admin_login_attempts |-> Modelled(AdminLoginAttempt),
    admin_sessions |-> Modelled(AdminSession),
    admin_users |-> Modelled(AdminUser),
    backup_records |-> Modelled(BackupRecord),
    blacklist_entries |-> Modelled(BlacklistEntry),
    bot_settings |-> Modelled(BotSetting),
    broadcast_failed_users |-> Modelled(BroadcastFailedUser),
    broadcasts |-> Modelled(Broadcast),
    discovered_chats |-> Modelled(DiscoveredChat),
    force_sub_channels |-> Modelled(ForceSubChannel),
    force_sub_confirmations |-> Modelled(ForceSubConfirmation),
    media_collections |-> Modelled(MediaCollection),
    media_sources |-> Modelled(MediaSource),
    movies |-> Modelled(Movie),
    payment_requests |-> Modelled(PaymentRequest),
    premium_history |-> Modelled(PremiumHistory),
    referral_rewards |-> Modelled(ReferralReward),
    reserved_codes |-> Modelled(ReservedCode),
    search_logs |-> Table(SearchLog \cup {"id"}, "rowid", FALSE),
    support_messages |-> Modelled(SupportMessage),
    system_logs |-> Modelled(SystemLog),
    users |-> Table(User \cup Stamps, "none", FALSE),
    whitelist_entries |-> Modelled(WhitelistEntry)]

Names == DOMAIN Models

(* Tables that others refer to come first.                                 *)
CreationOrder ==
    <<"action_logs", "ad_campaigns", "admin_login_attempts", "admin_sessions",
      "admin_users", "backup_records", "blacklist_entries", "bot_settings",
      "broadcasts", "discovered_chats", "force_sub_channels", "media_collections",
      "media_sources", "reserved_codes", "search_logs", "support_messages",
      "system_logs", "users", "whitelist_entries", "broadcast_failed_users",
      "force_sub_confirmations", "movies", "payment_requests", "premium_history",
      "referral_rewards">>

(* server_default is the value of an enum member, and the labels of its    *)
(* PostgreSQL type are the names: the database refuses the table.          *)
LowercaseDefaults ==
    {"backup_records", "bot_settings", "discovered_chats", "force_sub_channels",
     "movies", "payment_requests"}

(* Enum columns that a revision adds to a table PostgreSQL already has:    *)
(* nothing creates their types.                                            *)
AddedEnums == {"visibility", "platform", "collection_type"}

(* NOT NULL, and only Python knows a default.                              *)
NoServerDefault == {"views_count", "downloads_count", "is_active", "is_broken"}

-----------------------------------------------------------------------------
(* Statements.  batch_alter_table copies a table on SQLite when it drops or *)
(* changes a column, or adds one whose default is an expression.           *)
Op(do, table, cols, gone) ==
    [do |-> do, table |-> table, cols |-> cols, gone |-> gone,
     as |-> Table({}, "none", FALSE), rev |-> 0]

CreateAs(table, as) == [Op("create", table, {}, {}) EXCEPT !.as = as]

Create(table, cols) ==
    <<CreateAs(table, Table(cols \cup {"id"} \cup Stamps, "bigint", FALSE))>>

Index(table)      == <<Op("index", table, {}, {})>>
DropIndex(table)  == <<Op("dropIndex", table, {}, {})>>
DropTable(table)  == <<Op("drop", table, {}, {})>>
AddColumns(table, cols) == <<Op("add", table, cols, {})>>

Recreate(table, cols, gone) ==
    <<Op("makeCopy", table, {}, {}), Op("fillCopy", table, {}, {}),
      Op("swap", table, cols, gone)>>

DropColumns(table, gone) == Recreate(table, {}, gone)

-----------------------------------------------------------------------------
(* 0001_initial_schema                                                     *)
Users1 ==
    CreateAs("users", Table({"telegram_id", "username", "first_name", "last_name",
        "phone_number", "language_code", "is_banned", "ban_reason", "is_muted",
        "is_premium", "premium_expires_at", "referred_by", "invite_count",
        "movies_received_count", "searches_count", "joined_at", "last_active_at"}
        \cup Stamps, "none", FALSE))

Movies1 ==
    CreateAs("movies", Table({"id", "code", "title", "description", "telegram_file_id",
        "media_type", "caption", "genre", "language", "country", "year", "quality",
        "duration_minutes", "views_count", "downloads_count", "source_chat_id",
        "added_by", "is_active"} \cup Stamps, "bigint", TRUE))

Upgrade1 ==
    <<Users1>>
    \o Create("admin_users", {"telegram_id", "role", "added_by", "is_active"})
    \o Create("media_sources", {"chat_id", "title", "type", "priority", "is_active"})
    \o <<Movies1>> \o Index("movies")
    \o Create("force_sub_channels", {"chat_id", "chat_username", "title", "invite_link",
          "position", "is_active", "added_by"})
    \o Create("broadcasts", {"admin_id", "content_type", "source_chat_id",
          "source_message_id", "message_text", "reply_markup_json", "total_users",
          "sent_count", "failed_count", "status", "started_at", "finished_at"})
    \o Create("broadcast_failed_users", {"broadcast_id", "telegram_id", "error_message",
          "retried"})
    \o Create("action_logs", {"actor_id", "actor_role", "action", "entity_type",
          "entity_id", "old_value", "new_value", "ip_address"})

Downgrade1 ==
    DropTable("action_logs") \o DropTable("broadcast_failed_users")
    \o DropTable("broadcasts") \o DropTable("force_sub_channels") \o DropTable("movies")
    \o DropTable("media_sources") \o DropTable("admin_users") \o DropTable("users")

(* 0002_extended_features                                                  *)
Upgrade2 ==
    Recreate("movies", {"visibility", "is_broken", "last_verified_at",
        "source_message_id"}, {})
    \o Recreate("users", {"start_count", "spam_score", "warnings_count", "notes",
          "admin_remarks", "last_known_client_hint", "is_verified"}, {})
    \o Recreate("force_sub_channels", {"platform", "url", "instructions",
          "is_mandatory"}, {})
    \o Create("force_sub_confirmations", {"user_id", "channel_id"})
    \o Create("reserved_codes", {"code", "reserved_by", "expires_at", "released"})

(* Slip: one of the added columns is left.                                 *)
Downgrade2Leaving ==
    DropTable("reserved_codes") \o DropTable("force_sub_confirmations")
    \o DropColumns("force_sub_channels", {"is_mandatory", "instructions", "url",
          "platform"})
    \o DropColumns("users", {"is_verified", "admin_remarks", "notes", "warnings_count",
          "spam_score", "start_count"})
    \o DropColumns("movies", {"source_message_id", "last_verified_at", "is_broken",
          "visibility"})

Downgrade2 ==
    DropTable("reserved_codes") \o DropTable("force_sub_confirmations")
    \o DropColumns("force_sub_channels", {"is_mandatory", "instructions", "url",
          "platform"})
    \o DropIndex("users")
    \o DropColumns("users", {"is_verified", "last_known_client_hint", "admin_remarks",
          "notes", "warnings_count", "spam_score", "start_count"})
    \o DropColumns("movies", {"source_message_id", "last_verified_at", "is_broken",
          "visibility"})

(* 0003_multi_source_collections                                           *)
Upgrade3 ==
    AddColumns("movies", {"collection_type", "series_title", "season_number",
        "episode_number", "part_number", "file_size_bytes", "resolution",
        "thumbnail_file_id", "actor", "director"})
    \o AddColumns("media_sources", {"category"})
    \o Recreate("admin_users", {}, {})
    \o AddColumns("action_logs", {"context"})
    \o <<CreateAs("search_logs", Table({"id", "query_text", "query_type", "found",
          "user_id", "created_at"}, "bigint", FALSE))>>
    \o Create("support_messages", {"user_id", "user_message", "admin_reply",
          "replied_by", "status"})

Downgrade3 ==
    DropTable("support_messages") \o DropTable("search_logs")
    \o DropColumns("action_logs", {"context"})
    \o Recreate("admin_users", {}, {})
    \o DropIndex("media_sources") \o DropColumns("media_sources", {"category"})
    \o DropIndex("movies")
    \o DropColumns("movies", {"director", "actor", "thumbnail_file_id", "resolution",
          "file_size_bytes", "part_number", "episode_number", "season_number",
          "series_title", "collection_type"})

(* 0004_v4_platform_features                                               *)
Settings4 ==
    Create("bot_settings", {"key", "value", "value_type", "category", "description",
        "updated_by"})

Collections4 ==
    Create("media_collections", {"name", "slug", "icon", "description", "position",
        "is_active", "created_by"})
    \o AddColumns("movies", {"collection_id"})

Lists4 ==
    Create("blacklist_entries", {"entry_type", "value", "reason", "is_active",
        "created_by"})
    \o Create("whitelist_entries", {"entry_type", "value", "note", "created_by"})

Login4 ==
    Create("admin_login_attempts", {"admin_telegram_id", "success"})
    \o Create("admin_sessions", {"admin_telegram_id", "session_token", "expires_at",
          "revoked_at", "last_seen_at"})
    \o Recreate("admin_users", {"login_pin_hash", "two_factor_secret",
          "two_factor_enabled"}, {})

Records4 ==
    Create("system_logs", {"level", "category", "user_id", "admin_id", "action",
        "module", "description", "exception", "stack_trace"})
    \o Create("backup_records", {"filename", "size_bytes", "checksum",
          "integrity_status", "frequency", "created_by"})

Offers4 ==
    Create("ad_campaigns", {"content_type", "text", "file_id", "button_text",
        "button_url", "schedule_start", "schedule_end", "priority",
        "trigger_every_n_searches", "is_active", "impressions_count", "created_by"})
    \o Create("premium_history", {"user_id", "granted_by", "plan", "started_at",
          "expires_at"})
    \o Create("referral_rewards", {"user_id", "reward_type", "amount", "note",
          "granted_at"})

Upgrade4 == Settings4 \o Collections4 \o Lists4 \o Login4 \o Records4 \o Offers4

Downgrade4 ==
    DropTable("referral_rewards") \o DropTable("premium_history")
    \o DropTable("ad_campaigns") \o DropTable("backup_records")
    \o DropTable("system_logs")
    \o DropColumns("admin_users", {"two_factor_enabled", "two_factor_secret",
          "login_pin_hash"})
    \o DropTable("admin_sessions") \o DropTable("admin_login_attempts")
    \o DropTable("whitelist_entries") \o DropTable("blacklist_entries")
    \o DropIndex("movies") \o DropColumns("movies", {"collection_id"})
    \o DropTable("media_collections") \o DropTable("bot_settings")

(* 0005_discovered_chats                                                   *)
Upgrade5 ==
    Create("discovered_chats", {"chat_id", "title", "chat_username", "chat_type",
        "status", "added_by"})

Downgrade5 == DropTable("discovered_chats")

Upgrades   == <<Upgrade1, Upgrade2, Upgrade3, Upgrade4, Upgrade5>>
Downgrades == <<Downgrade1, Downgrade2, Downgrade3, Downgrade4, Downgrade5>>
HeadRevision == Len(Upgrades)
=============================================================================
