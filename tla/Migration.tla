----------------------------- MODULE Migration ------------------------------
(* Starting on an older data folder: the v1 database copied under its new   *)
(* name (store.rs open), its documents recorded, the chats of the legacy    *)
(* file brought in (lib.rs migrate_if_needed, conversations.rs import), and *)
(* what a kill between any two of these, or a write that fails, leaves for  *)
(* the next start.                                                          *)
(*                                                                          *)
(* A document is named by its harness, as in v1. A chat is how many words   *)
(* it holds; the legacy file holds one word of each, and a chat without a   *)
(* message is never saved and not counted. Every put is a transaction of    *)
(* its own, and one that fails is at most a warning. Reading the database   *)
(* works.                                                                   *)
EXTENDS Naturals, FiniteSets

CONSTANTS OldDocs,    \* harnesses whose document has history
          OldChats,    \* chats of the legacy file
          MaxStarts,   \* bounds of the instance
          MaxWords,
          MaxMissed    \* bound: what a put failed for

\* A name is a document's or a chat's.
ASSUME KindsApart == OldDocs \cap OldChats = {}

VARIABLES file,        \* the database under its new name: none, partial or whole
          version,      \* its schema version, as far as it was written
          records,      \* documents: name -> the harness it is recorded for
          chats,        \* conversations: chat -> its words
          legacy,       \* conversations.json: there, renamed
          at,           \* where this start is
          loaded,       \* the harnesses loaded by it
          inset,        \* the working set: chat -> its words as they are shown
          todo,         \* what this start has still to bring over
          always,       \* the harnesses every record of their document found
          shown,        \* harness -> the document it was shown, once used
          deleted,      \* chats the person deleted
          unread,       \* the file could not be read when it was its turn
          missed,       \* documents and chats no put of which has worked
          starts

migrationVars == <<file, version, records, chats, legacy, at, loaded, inset, todo, always, shown,
                   deleted, unread, missed, starts>>

Orphan == "no_harness"
SchemaVersion == 3
NoChats == [c \in {} |-> 0]

With(f, key, value) == [k \in DOMAIN f \cup {key} |-> IF k = key THEN value ELSE f[k]]

\* Core::new loads the harnesses there are; Store::open takes the copy.
Start(there) ==
    /\ at = "down" /\ starts < MaxStarts
    /\ starts' = starts + 1
    /\ loaded' = there
    /\ at' = IF file = "none" THEN "copying" ELSE "opening"
    /\ file' = IF file = "none" THEN "partial" ELSE file
    /\ UNCHANGED <<version, records, chats, legacy, inset, todo, always, shown, deleted, unread,
                   missed>>

Copied ==
    /\ at = "copying"
    /\ file' = "whole" /\ at' = "opening"
    /\ UNCHANGED <<version, records, chats, legacy, loaded, inset, todo, always, shown, deleted,
                   unread, missed, starts>>

\* open_file: a copy that was cut off is no database, and is not made again.
\* The working set is what the database holds.
OpenFile ==
    /\ at = "opening"
    /\ at' = IF file = "partial" THEN "down"
             ELSE IF version >= SchemaVersion THEN "up" ELSE "recording"
    /\ inset' = IF file = "partial" THEN inset ELSE chats
    /\ todo' = OldDocs \ DOMAIN records
    /\ UNCHANGED <<file, version, records, chats, legacy, loaded, always, shown, deleted,
                   unread, missed, starts>>

\* A plausible slip: the database is brought up before the harnesses are in.
LegacyHarnessLate(doc) == Orphan

\* The harness a document of v1 is recorded for: the one loaded under its
\* name, or none.
LegacyHarness(doc) == IF doc \in loaded THEN doc ELSE Orphan

\* migrate_if_needed, version < 2: one document with history and no record;
\* that the put failed goes unnoticed.
Record(doc, works) ==
    /\ at = "recording" /\ doc \in todo
    /\ works \/ Cardinality(missed) < MaxMissed
    /\ todo' = todo \ {doc}
    /\ records' = IF works THEN With(records, doc, LegacyHarness(doc)) ELSE records
    /\ missed' = IF works THEN missed \ {doc} ELSE missed \cup {doc}
    /\ always' = IF works /\ doc \in loaded THEN always ELSE always \ {doc}
    /\ UNCHANGED <<file, version, chats, legacy, at, loaded, inset, shown, deleted, unread, starts>>

Recorded ==
    /\ at = "recording" /\ todo = {}
    /\ at' = "reading"
    /\ UNCHANGED <<file, version, records, chats, legacy, loaded, inset, todo, always, shown,
                   deleted, unread, missed, starts>>

\* version < 3, read_legacy_file: there may be none, or one that cannot be
\* read; then the version is written all the same, and the chats are never
\* asked for again.
ReadLegacyFile(works) ==
    /\ at = "reading"
    /\ works => legacy = "there"
    /\ at' = IF works THEN "importing" ELSE "versioning"
    /\ todo' = IF works THEN OldChats ELSE {}
    /\ unread' = (unread \/ (~works /\ legacy = "there"))
    /\ UNCHANGED <<file, version, records, chats, legacy, loaded, inset, always, shown, deleted,
                   missed, starts>>

\* persist: a failed put is a warning; the working set has the chat.
Persist(chat, words, works) ==
    /\ works \/ Cardinality(missed) < MaxMissed
    /\ inset' = With(inset, chat, words)
    /\ chats' = IF works THEN With(chats, chat, words) ELSE chats
    /\ missed' = IF works THEN missed \ {chat}
                 ELSE IF chat \in DOMAIN chats THEN missed ELSE missed \cup {chat}

\* A plausible slip: what the file holds is the chat.
HaveNone(chat) == FALSE

\* conversations::import: one that is there already is left as it is.
Have(chat) == chat \in DOMAIN inset

Import(chat, works) ==
    /\ at = "importing" /\ chat \in todo
    /\ todo' = todo \ {chat}
    /\ IF Have(chat) THEN UNCHANGED <<inset, chats, missed>> ELSE Persist(chat, 1, works)
    /\ UNCHANGED <<file, version, records, legacy, at, loaded, always, shown, deleted, unread,
                   starts>>

ImportDone ==
    /\ at = "importing" /\ todo = {}
    /\ at' = "renaming"
    /\ UNCHANGED <<file, version, records, chats, legacy, loaded, inset, todo, always, shown,
                   deleted, unread, missed, starts>>

\* std::fs::rename; a failure is a notice.
Rename(works) ==
    /\ at = "renaming"
    /\ legacy' = IF works THEN "renamed" ELSE legacy
    /\ at' = "versioning"
    /\ UNCHANGED <<file, version, records, chats, loaded, inset, todo, always, shown, deleted,
                   unread, missed, starts>>

\* set_schema_version; a failure is a notice, and Core goes on.
SetVersion(works) ==
    /\ at = "versioning"
    /\ version' = IF works THEN SchemaVersion ELSE version
    /\ at' = "up"
    /\ UNCHANGED <<file, records, chats, legacy, loaded, inset, todo, always, shown, deleted,
                   unread, missed, starts>>

Kill ==
    /\ at # "down"
    /\ at' = "down" /\ loaded' = {} /\ inset' = NoChats /\ todo' = {}
    /\ UNCHANGED <<file, version, records, chats, legacy, always, shown, deleted, unread, missed,
                   starts>>

\* doc_for: the oldest document recorded for the harness, or a new one.
Use(harness) ==
    /\ at = "up" /\ harness \in loaded
    /\ LET old == {d \in DOMAIN records : records[d] = harness}
       IN  shown' = [shown EXCEPT ![harness] = IF old = {} THEN "a_new_document" ELSE "its_own"]
    /\ UNCHANGED <<file, version, records, chats, legacy, at, loaded, inset, todo, always, deleted,
                   unread, missed, starts>>

\* What the person does with their chats between starts.
Write(chat, works) ==
    /\ at = "up" /\ chat \in DOMAIN inset /\ inset[chat] < MaxWords
    /\ Persist(chat, inset[chat] + 1, works)
    /\ UNCHANGED <<file, version, records, legacy, at, loaded, todo, always, shown, deleted,
                   unread, starts>>

Delete(chat, works) ==
    /\ at = "up" /\ chat \in DOMAIN inset
    /\ inset' = [c \in DOMAIN inset \ {chat} |-> inset[c]]
    /\ chats' = IF works THEN [c \in DOMAIN chats \ {chat} |-> chats[c]] ELSE chats
    /\ deleted' = deleted \cup {chat}
    /\ UNCHANGED <<file, version, records, legacy, at, loaded, todo, always, shown, unread, missed,
                   starts>>

MigrationInit ==
    /\ file = "none" /\ version = 1
    /\ records = [d \in {} |-> Orphan] /\ chats = NoChats
    /\ legacy = "there" /\ at = "down" /\ loaded = {} /\ inset = NoChats /\ todo = {}
    /\ always = OldDocs /\ shown = [h \in OldDocs |-> "nothing_yet"]
    /\ deleted = {} /\ unread = FALSE /\ missed = {} /\ starts = 0

MigrationNext ==
    \/ \E there \in SUBSET OldDocs : Start(there)
    \/ Copied
    \/ OpenFile
    \/ \E doc \in OldDocs, works \in BOOLEAN : Record(doc, works)
    \/ Recorded
    \/ \E works \in BOOLEAN : ReadLegacyFile(works)
    \/ \E chat \in OldChats, works \in BOOLEAN : Import(chat, works)
    \/ ImportDone
    \/ \E works \in BOOLEAN : Rename(works)
    \/ \E works \in BOOLEAN : SetVersion(works)
    \/ Kill
    \/ \E harness \in OldDocs : Use(harness)
    \/ \E chat \in OldChats, works \in BOOLEAN : Write(chat, works)
    \/ \E chat \in OldChats, works \in BOOLEAN : Delete(chat, works)

MigrationSpec == MigrationInit /\ [][MigrationNext]_migrationVars

(* A migration that was killed, or could not write its version, and ran     *)
(* again has left nothing out but what the database would not take: once    *)
(* Core is up every old document is recorded and every chat of a file that  *)
(* could be read is there, unless the person deleted it or no put of it has *)
(* worked; and a harness that was loaded when its document was recorded     *)
(* shows that document and its history, never a new one (lib.rs Core::new,  *)
(* migrate_if_needed, doc_for; conversations.rs import and persist).        *)
MigratedIsWhole ==
    /\ at = "up" => /\ (OldDocs \ missed) \subseteq DOMAIN records
                    /\ unread \/ (OldChats \ (deleted \cup missed)) \subseteq DOMAIN chats
    /\ \A h \in always : shown[h] # "a_new_document"

(* No start takes back what was written since an earlier one, and no put    *)
(* what an earlier one had: a chat that is in the database never loses      *)
(* words, though puts fail, and though the legacy file it came from is      *)
(* still there and is read again (conversations.rs import, record).         *)
WordsAreKept == \A c \in DOMAIN chats : c \in DOMAIN chats' => chats'[c] >= chats[c]

(* A database of the first version comes over whole and stays so            *)
(* (store.rs, lib.rs): of every step, the two above together.               *)
MigrationKeeps == [][MigratedIsWhole' /\ WordsAreKept]_migrationVars
============================================================================
