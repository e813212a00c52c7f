---------------------------- MODULE ConfigStore ----------------------------
(* config.toml as rows with write-only secrets: the identity of a row across *)
(* the edits of clients that never see the secrets, the migration of a file  *)
(* of an older generation, the copy that is kept of it, and crashes between  *)
(* the steps of a save.                                                      *)
(*                                                                           *)
(* A row is a [[routing.backends]] or [[routing.sources]] entry; its url     *)
(* stands for the field the user may edit (base_url, id).  The sections that *)
(* are no row lists are in ControlPlane.                                     *)
EXTENDS Naturals, Sequences, FiniteSets

CONSTANTS
    Browsers,  \* clients of POST admin/config
    NoSecret,
    Saves,     \* bound on patches and edits by hand
    Files      \* sets of [disk, hands, edits, torn]: the file at first, what a
               \* user puts in its place, what clients do, whether the copy
               \* itself may be cut short

ASSUME StoreAssumption ==
    /\ Saves \in Nat
    \* A document is [version, rows, parses], a row [id, url, secret].
    /\ \A f \in Files : \A d \in {f.disk} \cup f.hands :
           /\ DOMAIN d = {"version", "rows", "parses"}
           /\ d.version \in Nat \ {0} /\ d.parses \in BOOLEAN
           /\ Len(d.rows) \in Nat /\ DOMAIN d.rows = 1..Len(d.rows)
           /\ \A i \in DOMAIN d.rows : DOMAIN d.rows[i] = {"id", "url", "secret"}
    /\ \A f \in Files : \A e \in f.edits :
           /\ DOMAIN e = {"op", "at", "url", "key"} /\ e.at \in Nat
           /\ e.op \in {"rename", "swap", "remove", "add", "replace", "forget"}

VARIABLES
    usage,    \* the story
    disk,     \* config.toml: [version, rows, parses]
    backup,   \* generation -> its copy, NoCopy or HalfCopy
    memory,   \* [version, rows] of the running agent
    view,     \* what a client last fetched: rows without their secrets
    stage,    \* down, ready, or where a save is
    label,    \* the generation a save is copying, or 0
    saves

storeVars == <<usage, disk, backup, memory, view, stage, label, saves>>

CURRENT_SCHEMA_VERSION == 3
LEGACY_SCHEMA_VERSION == 1
NoCopy == [whole |-> FALSE]
HalfCopy == [half |-> TRUE]
NoId == <<>>
Ids(rows) == {rows[i].id : i \in DOMAIN rows} \ {NoId}

\* derive_row_id: from the url, numbered where that one is taken.
Minted(url, taken) ==
    <<url, CHOOSE n \in 1..(Cardinality(taken) + 1) :
              /\ <<url, n>> \notin taken
              /\ \A k \in 1..(n - 1) : <<url, k>> \in taken>>

\* _stamp_row_ids: 2 -> 3 gives an id to the rows that have none.
StampedId(r, taken) == IF r.id # NoId THEN r.id ELSE Minted(r.url, taken)
Stamped(rows) ==
    LET taken[i \in 0..Len(rows)] ==
            IF i = 0 THEN Ids(rows)
            ELSE taken[i - 1] \cup {StampedId(rows[i], taken[i - 1])}
    IN [i \in 1..Len(rows) |-> [rows[i] EXCEPT !.id = StampedId(rows[i], taken[i - 1])]]

\* migrate_document: a file of a newer generation is left alone.
Migrated(d) ==
    IF d.version > CURRENT_SCHEMA_VERSION THEN [version |-> d.version, rows |-> d.rows]
    ELSE [version |-> CURRENT_SCHEMA_VERSION,
          rows |-> IF d.version < CURRENT_SCHEMA_VERSION THEN Stamped(d.rows) ELSE d.rows]

---------------------------------------------------------------------------
(* _RowIdentityIndex, _resolve_row_id, _merge_backends, _merge_sources *)

FirstOf(S) == {i \in S : \A j \in S : i <= j}

\* The stored row an entry is an edit of: by its id, else by its url; a row is
\* claimed once.
TakeByUrl(rows, claimed, e) ==
    LET byUrl == FirstOf({i \in DOMAIN rows \ claimed : rows[i].url = e.url})
        byId == FirstOf({i \in DOMAIN rows : e.id # NoId /\ rows[i].id = e.id}) \ claimed
    IN IF byUrl # {} THEN byUrl ELSE byId
Take(rows, claimed, e) ==
    LET byUrl == FirstOf({i \in DOMAIN rows \ claimed : rows[i].url = e.url})
        byId == FirstOf({i \in DOMAIN rows : e.id # NoId /\ rows[i].id = e.id}) \ claimed
    IN IF byId # {} THEN byId ELSE byUrl

\* One entry: the row it merges onto keeps its id, and its secret unless the
\* entry has one.
MergeEntry(rows, acc, e) ==
    LET prior == Take(rows, acc.claimed, e)
        ids == {rows[i].id : i \in prior} \ {NoId}
        id == IF ids # {} THEN CHOOSE k \in ids : TRUE ELSE Minted(e.url, acc.taken)
        stored == {rows[i].secret : i \in prior}
    IN [claimed |-> acc.claimed \cup prior, taken |-> acc.taken \cup {id},
        row |-> [id |-> id, url |-> e.url,
                 secret |-> IF e.typed # NoSecret THEN e.typed
                            ELSE IF stored # {} THEN CHOOSE s \in stored : TRUE ELSE NoSecret]]

Merged(rows, entries) ==
    LET merge[i \in 0..Len(entries)] ==
            IF i = 0 THEN [claimed |-> {}, taken |-> Ids(rows)]
            ELSE MergeEntry(rows, merge[i - 1], entries[i])
    IN [i \in 1..Len(entries) |-> merge[i].row]

---------------------------------------------------------------------------
(* Clients *)

Public(rows) == [i \in DOMAIN rows |-> [id |-> rows[i].id, url |-> rows[i].url, typed |-> NoSecret]]

\* What a user does to the rows on the page; an old client knows no ids.
Entries(edit, v) ==
    CASE edit.op = "rename" -> [i \in DOMAIN v |-> IF i = edit.at THEN [v[i] EXCEPT !.url = edit.url] ELSE v[i]]
      [] edit.op = "swap" -> [i \in DOMAIN v |-> [v[i] EXCEPT !.url = v[Len(v) + 1 - i].url]]
      [] edit.op = "remove" -> [i \in 1..(Len(v) - 1) |-> IF i < edit.at THEN v[i] ELSE v[i + 1]]
      [] edit.op = "add" -> Append(v, [id |-> NoId, url |-> edit.url, typed |-> edit.key])
      [] edit.op = "replace" -> <<[id |-> NoId, url |-> v[1].url, typed |-> NoSecret],
                                  [v[1] EXCEPT !.url = edit.url]>>
      [] edit.op = "forget" -> [i \in DOMAIN v |-> [v[i] EXCEPT !.id = NoId]]

Fetch(c) ==
    /\ stage = "ready" /\ view[c] # Public(memory.rows)
    /\ view' = [view EXCEPT ![c] = Public(memory.rows)]
    /\ UNCHANGED <<usage, disk, backup, memory, stage, label, saves>>

\* POST admin/config up to save_config; the agent answers nothing in between.
Patch(c, edit) ==
    /\ stage = "ready" /\ saves < Saves /\ view[c] # <<>>
    /\ memory' = [memory EXCEPT !.rows = Merged(memory.rows, Entries(edit, view[c]))]
    /\ stage' = "save" /\ saves' = saves + 1
    /\ UNCHANGED <<usage, disk, backup, view, label>>

---------------------------------------------------------------------------
(* save_config, pre_migration_backup, load_config *)

\* A file that does not parse is labelled by a line of it, or as legacy.
Labels == IF disk.parses THEN {disk.version} ELSE {disk.version, LEGACY_SCHEMA_VERSION}

BackupAlways ==
    /\ stage = "save"
    /\ \E v \in Labels :
        IF v < CURRENT_SCHEMA_VERSION
        THEN backup' = [backup EXCEPT ![v] = HalfCopy] /\ label' = v /\ stage' = "copy"
        ELSE stage' = "open" /\ UNCHANGED <<backup, label>>
    /\ UNCHANGED <<usage, disk, memory, view, saves>>
\* Only the first write over an older generation copies it.
Backup ==
    /\ stage = "save"
    /\ \E v \in Labels :
        IF v < CURRENT_SCHEMA_VERSION /\ backup[v] = NoCopy
        THEN backup' = [backup EXCEPT ![v] = HalfCopy] /\ label' = v /\ stage' = "copy"
        ELSE stage' = "open" /\ UNCHANGED <<backup, label>>
    /\ UNCHANGED <<usage, disk, memory, view, saves>>
Copied ==
    /\ stage = "copy"
    /\ backup' = [backup EXCEPT ![label] = disk]
    /\ stage' = "open" /\ label' = 0
    /\ UNCHANGED <<usage, disk, memory, view, saves>>

\* write_text empties the file before it fills it.
OpenFile ==
    /\ stage = "open"
    /\ disk' = [version |-> memory.version, rows |-> <<>>, parses |-> FALSE]
    /\ stage' = "write"
    /\ UNCHANGED <<usage, backup, memory, view, label, saves>>
WriteFile ==
    /\ stage = "write"
    /\ disk' = [version |-> memory.version, rows |-> memory.rows, parses |-> TRUE]
    /\ stage' = "ready"
    /\ UNCHANGED <<usage, backup, memory, view, label, saves>>

AgentCrash ==
    /\ stage # "down" /\ (stage = "copy" => usage.torn)
    /\ stage' = "down" /\ label' = 0
    /\ view' = [c \in Browsers |-> <<>>]
    /\ UNCHANGED <<usage, disk, backup, memory, saves>>

\* A file that does not parse keeps the agent down.
Load ==
    /\ stage = "down" /\ disk.parses
    /\ memory' = Migrated(disk)
    /\ stage' = "ready"
    /\ UNCHANGED <<usage, disk, backup, view, label, saves>>

\* A user edits the file, or restores one, also under a running agent.
HandEdit(d) ==
    /\ stage \in {"ready", "down"} /\ saves < Saves /\ d # disk
    /\ disk' = d /\ saves' = saves + 1
    /\ UNCHANGED <<usage, backup, memory, view, stage, label>>

StoreInit ==
    /\ usage \in Files
    /\ disk = usage.disk
    /\ backup = [v \in 1..(CURRENT_SCHEMA_VERSION - 1) |-> NoCopy]
    /\ memory = Migrated(usage.disk)
    /\ view = [c \in Browsers |-> <<>>]
    /\ stage = "down" /\ label = 0
    /\ saves = 0

StoreNext ==
    \/ \E c \in Browsers : Fetch(c) \/ \E e \in usage.edits : Patch(c, e)
    \/ \E d \in usage.hands : HandEdit(d)
    \/ Backup \/ Copied \/ OpenFile \/ WriteFile \/ AgentCrash \/ Load

StoreSpec == StoreInit /\ [][StoreNext]_storeVars

---------------------------------------------------------------------------
(* Properties *)

\* An entry that carries the id of a stored row keeps that row's secret under
\* any url, and no secret is on more rows than before, if it was not typed.
StoredAt(rows, id) == FirstOf({i \in DOMAIN rows : rows[i].id = id /\ id # NoId})
Holders(rows, s) == {i \in DOMAIN rows : rows[i].secret = s}
Keeps(rows, entries, after) ==
    /\ \A i \in DOMAIN entries : \A k \in StoredAt(rows, entries[i].id) :
        (entries[i].typed = NoSecret /\ i \in StoredAt(entries, entries[i].id))
            => after[i].secret = rows[k].secret
    /\ \A s \in {rows[k].secret : k \in DOMAIN rows} \ {NoSecret} :
        (\A i \in DOMAIN entries : entries[i].typed # s)
            => Cardinality(Holders(after, s)) <= Cardinality(Holders(rows, s))
Patching(c, edit) ==
    /\ stage = "ready" /\ stage' = "save"
    /\ memory'.rows = Merged(memory.rows, Entries(edit, view[c]))

\* ... where every entry without an id is a new url.
SecretsFollowRows ==
    [][\A c \in Browsers : view[c] # <<>> => \A edit \in usage.edits :
        LET entries == Entries(edit, view[c]) IN
        (/\ Patching(c, edit)
         /\ \A i \in DOMAIN entries : \A k \in DOMAIN memory.rows :
                (StoredAt(memory.rows, entries[i].id) = {} => memory.rows[k].url # entries[i].url))
        => Keeps(memory.rows, entries, memory'.rows)]_storeVars
\* "its write-only api_key/secret survives the edit", whatever else is edited.
SecretsAlwaysFollow ==
    [][\A c \in Browsers : view[c] # <<>> => \A edit \in usage.edits :
        Patching(c, edit) => Keeps(memory.rows, Entries(edit, view[c]), memory'.rows)]_storeVars

\* When a save writes over a document of an older generation, the copy of that
\* generation is complete and a document the user once had; no later save, crash
\* or restored file changes it.
Given == {usage.disk} \cup usage.hands
PristineKept ==
    [][\A v \in DOMAIN backup :
        /\ backup[v] \in Given => backup'[v] = backup[v]
        /\ stage = "open" /\ disk' # disk /\ disk.parses /\ disk.version = v
               => backup[v] \in Given]_storeVars
=============================================================================
