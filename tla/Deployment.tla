------------------------------ MODULE Deployment ------------------------------
(***************************************************************************)
(* Starting the Studio on data an earlier release left behind.             *)
(*                                                                         *)
(* One-shot containers run before the API: the database password is        *)
(* transitioned, the schema migrated, saved connections re-encrypted and   *)
(* legacy files imported.  The host may stop between any two commits; the  *)
(* next start runs every container again.                                  *)
(***************************************************************************)
EXTENDS Integers, FiniteSets

CONSTANTS
  Rows,          \* saved connections
  Files,         \* names in the legacy storage directory or the volume
  LegacyFiles,   \* the ones in the legacy directory
  MaxStops       \* bound on the times the host stops

DeploymentAssumption == MaxStops \in Nat /\ LegacyFiles \subseteq Files

(* The schema as its tables and what later migrations added to them: an    *)
(* item is a table and the migration that brings it, 0 for the original.   *)
Head == 5
OriginalTables == {<<"core", 0>>}
DbModelImprovements == {<<"core", 1>>}
DurableRunJobs == {<<"run_jobs", 2>>}
SdkSourceStates == {<<"source_states", 3>>}
SdkStateCandidates == {<<"source_states", 4>>, <<"candidates", 4>>}
TriggerPayload == {<<"core", 5>>}
GraphTriggers == {<<"triggers", 5>>}
WebhookDeliveries == {<<"deliveries", 5>>}
SchemaItems ==
  UNION {OriginalTables, DbModelImprovements, DurableRunJobs, SdkSourceStates,
         SdkStateCandidates, TriggerPayload, GraphTriggers, WebhookDeliveries}
Unversioned == -1

VARIABLES
  password,   \* the database role's: "legacy" or "current"
  schema,     \* the items the database holds
  version,    \* the row of alembic_version, 0 for none, or Unversioned
  seal,       \* per connection: "plain", or the key it is encrypted under
  hookSeal,   \* the key a webhook trigger's secret is encrypted under
  volume,     \* per name: "absent", "own", "dir", or "legacy" once imported
  staged,     \* names in the staging directory
  marker,     \* .legacy-import-complete exists
  done,       \* containers that have completed since the host started
  migrating,  \* where ingestion-migrate is: "idle", "fresh" or "upgrade"
  importing,  \* where ingestion-storage-init is: "idle", "copy" or "move"
  deleted,    \* legacy names users deleted
  stops

db == <<password, schema, version, seal, hookSeal>>
disk == <<volume, staged, marker, deleted>>
vars == <<db, disk, done, migrating, importing, stops>>

Serving == "api" \in done

(* create_all: tables that are missing are created whole, others untouched.*)
Created(have, release) ==
  have \cup {i \in SchemaItems : i[2] <= release /\ \A h \in have : h[1] # i[1]}

-------------------------------------------------------------------------------
(* ensure_current_password *)
TransitionPassword ==
  /\ "password" \notin done
  /\ password' = "current" /\ done' = done \cup {"password"}
  /\ UNCHANGED <<schema, version, seal, hookSeal, disk, migrating, importing, stops>>

(* prepare_schema: an empty database is created from the models; that is   *)
(* committed before it is stamped.  A legacy one is stamped at the base.   *)
MutantIsFresh == version = Unversioned
IsFresh == version = Unversioned /\ \A i \in schema : i[1] # "core"
PrepareSchema ==
  /\ "password" \in done /\ "migrate" \notin done /\ migrating = "idle"
  /\ IF IsFresh
     THEN schema' = Created(schema, Head) /\ version' = version /\ migrating' = "fresh"
     ELSE /\ version' = IF version = Unversioned THEN 0 ELSE version
          /\ schema' = schema /\ migrating' = "upgrade"
  /\ UNCHANGED <<password, seal, hookSeal, disk, done, importing, stops>>

(* The stamp of a fresh schema, or every pending migration and its stamp   *)
(* in one transaction.  A migration skips what is there already.           *)
Upgraded(from) == schema \cup {i \in SchemaItems : i[2] > from}
Migrate ==
  /\ migrating # "idle" /\ "migrate" \notin done
  /\ schema' = IF migrating = "fresh" THEN schema ELSE Upgraded(version)
  /\ version' = Head /\ migrating' = "idle" /\ done' = done \cup {"migrate"}
  /\ UNCHANGED <<password, seal, hookSeal, disk, importing, stops>>

(* reencrypt_config, for all connections in one transaction; a row under   *)
(* an unknown key fails the container.                                     *)
Reencrypted(s) == IF s = "legacy" THEN "current" ELSE s
MutantReencryptable == TRUE
Reencryptable == \A r \in Rows : seal[r] # "unknown"
Reencrypt ==
  /\ "migrate" \in done /\ "connections" \notin done
  /\ Reencryptable
  /\ seal' = [r \in Rows |-> Reencrypted(seal[r])]
  /\ done' = done \cup {"connections"}
  /\ UNCHANGED <<password, schema, version, hookSeal, disk, migrating, importing, stops>>

-------------------------------------------------------------------------------
(* import_legacy_tree *)

(* A volume with the marker is left alone; otherwise what an interrupted   *)
(* import left in the staging directory is removed and it starts over.     *)
MutantImportNeeded == TRUE
ImportNeeded == ~marker
MutantClearedStaging == staged
ClearedStaging == {}
ImportSkip ==
  /\ "storage" \notin done /\ importing = "idle" /\ ~ImportNeeded
  /\ done' = done \cup {"storage"}
  /\ UNCHANGED <<db, disk, migrating, importing, stops>>
ImportStart ==
  /\ "storage" \notin done /\ importing = "idle" /\ ImportNeeded
  /\ ClearedStaging = {}      \* mkdir fails on a directory that is there
  /\ staged' = {} /\ importing' = "copy"
  /\ UNCHANGED <<db, volume, marker, deleted, done, migrating, stops>>
ImportCopy(f) ==
  /\ importing = "copy" /\ f \in LegacyFiles \ staged
  /\ staged' = staged \cup {f}
  /\ UNCHANGED <<db, volume, marker, deleted, done, migrating, importing, stops>>
ImportCopied ==
  /\ importing = "copy" /\ staged = LegacyFiles
  /\ importing' = "move"
  /\ UNCHANGED <<db, disk, done, migrating, stops>>

(* A name the volume has is kept; a directory in the way is an error that  *)
(* removes the staging directory.                                          *)
MutantKept(f) == FALSE
Kept(f) == volume[f] \in {"own", "legacy"}
ImportMove(f) ==
  /\ importing = "move" /\ f \in staged /\ volume[f] # "dir"
  /\ volume' = IF Kept(f) THEN volume ELSE [volume EXCEPT ![f] = "legacy"]
  /\ staged' = staged \ {f}
  /\ UNCHANGED <<db, marker, deleted, done, migrating, importing, stops>>
ImportFails ==
  /\ importing = "move" /\ \E f \in staged : volume[f] = "dir"
  /\ staged' = {} /\ importing' = "idle"
  /\ UNCHANGED <<db, volume, marker, deleted, done, migrating, stops>>
ImportMark ==
  /\ importing = "move" /\ staged = {}
  /\ marker' = TRUE /\ importing' = "idle" /\ done' = done \cup {"storage"}
  /\ UNCHANGED <<db, volume, staged, deleted, migrating, stops>>

-------------------------------------------------------------------------------
(* The lifespan of the API: tables are created, plaintext credentials      *)
(* encrypted, and only then requests are served.                           *)
Encrypted(s) == IF s = "plain" THEN "current" ELSE s
StartApi ==
  /\ {"migrate", "connections", "storage"} \subseteq done /\ ~Serving
  /\ schema' = Created(schema, Head)
  /\ seal' = [r \in Rows |-> Encrypted(seal[r])]
  /\ done' = done \cup {"api"}
  /\ UNCHANGED <<password, version, hookSeal, disk, migrating, importing, stops>>

(* Requests: a file is uploaded or deleted. *)
Upload(f) ==
  /\ Serving /\ volume[f] = "absent"
  /\ volume' = [volume EXCEPT ![f] = "own"]
  /\ UNCHANGED <<db, staged, marker, deleted, done, migrating, importing, stops>>
Delete(f) ==
  /\ Serving /\ volume[f] = "legacy"
  /\ volume' = [volume EXCEPT ![f] = "absent"] /\ deleted' = deleted \cup {f}
  /\ UNCHANGED <<db, staged, marker, done, migrating, importing, stops>>

(* The host or a container stops; open transactions roll back. *)
Stop ==
  /\ stops < MaxStops
  /\ done' = {} /\ migrating' = "idle" /\ importing' = "idle" /\ stops' = stops + 1
  /\ UNCHANGED <<db, disk>>

-------------------------------------------------------------------------------
(* What a release leaves behind: tables it or an earlier one created,      *)
(* versioned or not; connections in plain text or under any key.           *)
Init ==
  /\ password \in {"legacy", "current"}
  /\ \E old \in 0..Head, new \in 0..Head :
       \/ /\ schema = Created({i \in SchemaItems : i[2] <= old}, new)
          /\ version \in {Unversioned, old} /\ old <= new
       \/ schema = {} /\ version = Unversioned
  /\ seal \in [Rows -> {"plain", "legacy", "current", "unknown"}]
  /\ hookSeal \in {"legacy", "current"}
  /\ volume \in [Files -> {"absent", "own", "dir"}]
  /\ staged = {} /\ marker = FALSE /\ done = {} /\ deleted = {} /\ stops = 0
  /\ migrating = "idle" /\ importing = "idle"

Container ==
  \/ TransitionPassword \/ PrepareSchema \/ Migrate \/ Reencrypt
  \/ ImportSkip \/ ImportStart \/ ImportCopied \/ ImportMark \/ StartApi
  \/ \E f \in Files : ImportCopy(f) \/ ImportMove(f)
Next == Container \/ ImportFails \/ Stop \/ \E f \in Files : Upload(f) \/ Delete(f)
Spec == Init /\ [][Next]_vars /\ WF_vars(Container)

-------------------------------------------------------------------------------
(* The API never serves a partial schema, whatever the database held and   *)
(* wherever earlier starts were cut off ("Failure stops API startup instead*)
(* of serving traffic against a partial schema").                          *)
ServesWholeSchema == Serving => schema = SchemaItems /\ version = Head

(* No saved connection is in plain text or unreadable while the API serves.*)
ConnectionsAreReadable == Serving => \A r \in Rows : seal[r] = "current"

(* While the API serves, every legacy file is there unless a user deleted  *)
(* it since, a deleted one does not come back, and no staged file is left. *)
ImportIsExact ==
  Serving => /\ \A f \in LegacyFiles : volume[f] = "absent" => f \in deleted
             /\ \A f \in deleted : volume[f] # "legacy"
             /\ staged = {}

(* A file the volume owns is never replaced by a legacy one. *)
OwnFilesAreKept == \A f \in Files : volume[f] = "own" => volume'[f] = "own"

(* A credential or a name is in the way of a start. *)
Blocked == (\E r \in Rows : seal[r] = "unknown") \/ \E f \in LegacyFiles : volume[f] = "dir"

(* "Unknown keys fail closed instead of starting Studio with unreadable    *)
(* credentials": the webhook secrets are readable as well.                 *)
WebhookSecretsAreReadable == Serving => hookSeal = "current"

-------------------------------------------------------------------------------
(* Why a start is safe *)

TypeInv ==
  /\ schema \subseteq SchemaItems /\ version \in -1..Head
  /\ seal \in [Rows -> {"plain", "legacy", "current", "unknown"}]
  /\ volume \in [Files -> {"absent", "own", "dir", "legacy"}]
  /\ staged \subseteq LegacyFiles
  /\ migrating \in {"idle", "fresh", "upgrade"} /\ importing \in {"idle", "copy", "move"}

(* A database that is not empty has the original tables, and a versioned   *)
(* one everything up to its version: that is what the stamp of a legacy    *)
(* database and the pending migrations build on.                           *)
SchemaIsStamped ==
  /\ schema = {} \/ <<"core", 0>> \in schema
  /\ {i \in SchemaItems : i[2] <= version} \subseteq schema
  /\ migrating = "fresh" => schema = SchemaItems
  /\ migrating = "upgrade" => version # Unversioned
  /\ "migrate" \in done => schema = SchemaItems /\ version = Head /\ migrating = "idle"

SealsAreKnown ==
  /\ "connections" \in done => \A r \in Rows : seal[r] \in {"plain", "current"}
  /\ ConnectionsAreReadable

(* Until the marker is there nobody deletes; with it the import is over.   *)
MarkerIsLast ==
  /\ ~marker => deleted = {}
  /\ importing = "move" => \A f \in LegacyFiles : f \in staged \/ volume[f] # "absent"
  /\ marker => /\ staged = {} /\ importing = "idle"
               /\ \A f \in LegacyFiles : volume[f] = "absent" => f \in deleted
               /\ \A f \in deleted : volume[f] # "legacy"
  /\ "storage" \in done => marker
  /\ Serving => {"migrate", "connections", "storage"} \subseteq done

IInv == TypeInv /\ SchemaIsStamped /\ SealsAreKnown /\ MarkerIsLast
===============================================================================
