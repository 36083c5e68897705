--------------------------- MODULE BackupRestore ---------------------------
(***************************************************************************)
(* backup: the export of a tenant's configuration, one query per table,    *)
(* and its import into a tenant, one statement per row and no transaction  *)
(* around them, beside the requests that edit the same tables.  Rows of    *)
(* all tables are kept in one set, and so are tag assignments and group    *)
(* memberships; the name of a device is a name and the n of "(import n)".  *)
(***************************************************************************)
EXTENDS Integers, Sequences, FiniteSets

CONSTANTS
  Given,          \* the rows to start with
  GivenLinks,     \* and their links
  NewNames,       \* for rows that are created beside an import
  NoBundle,
  LastId,         \* bound: ids
  MaxRestores,    \* bound: imports
  MaxEdits        \* bound: edits by others

(* What there is to start with: rows under ids of their own, and links     *)
(* between a device and a tag or a group of its tenant.                    *)
IsRow(r) ==
  r = [kind |-> r.kind, id |-> r.id, tenant |-> r.tenant, name |-> r.name, on |-> r.on,
       checks |-> r.checks, refs |-> r.refs]
IsLink(l) == l = [kind |-> l.kind, of |-> l.of, device |-> l.device]
ASSUME GivenAssumption ==
  /\ IsFiniteSet(Given) /\ Cardinality(Given) <= LastId /\ LastId \in Nat
  /\ \A r \in Given : IsRow(r) /\ r.id \in 1..Cardinality(Given)
  /\ \A r, q \in Given : r # q => r.id # q.id /\
       (r.kind \in {"device", "tag", "group"} =>
          <<r.kind, r.tenant, r.name>> # <<q.kind, q.tenant, q.name>>)
ASSUME LinksAssumption ==
  \A l \in GivenLinks : IsLink(l) /\ \E r, q \in Given :
    r.id = l.of /\ q.id = l.device /\ q.kind = "device" /\ r.tenant = q.tenant

VARIABLES
  configs,        \* the rows: [kind, id, tenant, name, on, checks, refs]
  links,          \* tag_assignments, device_group_members: [kind, of, device]
  lastId,
  export,         \* the export in progress: [tenant, todo, rows, links]
  bundle,         \* the file it made
  restore,        \* the import: [tenant, mode, clear, todo, linked, ids, made, first]; ids maps
                  \* ids of the bundle to new ones, made is the device that is not set up yet
  restores, edits,
  (* history, read by properties only *)
  restored        \* the last complete import: [mode, tenant]

backupVars == <<configs, links, lastId, export, bundle, restore, restores, edits, restored>>
Tenants == {r.tenant : r \in Given}
Modes == {"overwrite", "keep", "skip"}

BackupInit ==
  /\ configs = Given /\ links = GivenLinks
  /\ lastId = Cardinality(Given)
  /\ export = NoBundle /\ bundle = NoBundle /\ restore = NoBundle /\ restored = NoBundle
  /\ restores = 0 /\ edits = 0

Of(kind, tenant) == {r \in configs : r.kind = kind /\ r.tenant = tenant}
NameTaken(kind, tenant, name) == \E r \in Of(kind, tenant) : r.name = name
Unique(kind) == kind \in {"device", "tag", "group"}

-----------------------------------------------------------------------------
(* Export: every List in turn; a list that fails ends it.                  *)
ExportBegin(t) ==
  /\ export = NoBundle /\ bundle = NoBundle
  /\ export' = [tenant |-> t, rows |-> {}, links |-> {},
       todo |-> <<"device", "tag", "tagged", "group", "grouped", "channel", "rule">>]
  /\ UNCHANGED <<configs, links, lastId, bundle, restore, restores, edits, restored>>

Read(x, what) ==
  CASE what = "tagged" ->
         [x EXCEPT !.links = @ \cup {l \in links : l.kind = "tag" /\ l.device \in {r.id : r \in x.rows}}]
    [] what = "grouped" ->
         [x EXCEPT !.links = @ \cup
            {l \in links : l.kind = "group" /\ {l.device, l.of} \subseteq {r.id : r \in x.rows}}]
    [] OTHER -> [x EXCEPT !.rows = @ \cup Of(what, x.tenant)]

ExportNext ==
  /\ export # NoBundle /\ export.todo # <<>>
  /\ export' = [Read(export, Head(export.todo)) EXCEPT !.todo = Tail(@)]
  /\ UNCHANGED <<configs, links, lastId, bundle, restore, restores, edits, restored>>

ExportEnd ==
  /\ export # NoBundle /\ export.todo = <<>>
  /\ bundle' = [rows |-> export.rows, links |-> export.links]
  /\ export' = NoBundle
  /\ UNCHANGED <<configs, links, lastId, restore, restores, edits, restored>>

-----------------------------------------------------------------------------
(* Import.                                                                 *)
RestoreBegin(t, mode) ==
  /\ bundle # NoBundle /\ restore = NoBundle /\ restores < MaxRestores
  /\ restores' = restores + 1
  /\ restore' = [tenant |-> t, mode |-> mode, first |-> lastId, made |-> NoBundle, ids |-> <<>>,
       clear |-> IF mode = "overwrite" THEN <<"device", "tag", "group", "channel", "rule">> ELSE <<>>,
       todo |-> bundle.rows, linked |-> bundle.links]
  /\ UNCHANGED <<configs, links, lastId, export, bundle, edits, restored>>

Working == restore # NoBundle /\ UNCHANGED <<export, bundle, restores, edits, restored>>
NewRow(r) == lastId < LastId /\ lastId' = lastId + 1 /\ configs' = configs \cup {[r EXCEPT !.id = lastId']}

(* DeleteAllForOrg removes what hangs on the devices in one transaction;   *)
(* the links of tags and groups go with them.                              *)
(* Mutant: DeleteAllRules.                                                 *)
EveryTenant(kind) ==
  {r \in configs : r.kind = kind /\ (r.tenant = restore.tenant \/ kind = "rule")}
Cleared(kind) == Of(kind, restore.tenant)
ClearTenant ==
  /\ Working /\ restore.clear # <<>>
  /\ LET dead == Cleared(Head(restore.clear))
     IN  /\ configs' = configs \ dead
         /\ links' = {l \in links : {l.of, l.device} \cap {r.id : r \in dead} = {}}
  /\ restore' = [restore EXCEPT !.clear = Tail(@)]
  /\ UNCHANGED lastId

(* Tags and groups, then channels, then devices; rules come last.          *)
TableOrder(kind) == CASE kind = "tag" -> 1 [] kind = "group" -> 2 [] kind = "channel" -> 3
                 [] kind = "device" -> 4 [] OTHER -> 5
Due(r) ==
  /\ restore.clear = <<>> /\ restore.made = NoBundle /\ r \in restore.todo
  /\ \A q \in restore.todo : TableOrder(q.kind) >= TableOrder(r.kind)
Remapped(old, new) ==
  [i \in DOMAIN restore.ids \cup {old} |-> IF i = old THEN new ELSE restore.ids[i]]
Here(r) == [r EXCEPT !.tenant = restore.tenant]

(* Mutant: the row of that name stands for the skipped one.                *)
SkipToSame(r) ==
  /\ restore.mode = "skip" /\ r.kind \in {"channel", "device", "rule"}
  /\ \E q \in Of(r.kind, restore.tenant) : q.name = r.name /\
       restore' = [restore EXCEPT !.todo = @ \ {r}, !.ids = Remapped(r.id, q.id)]
  /\ UNCHANGED <<configs, links, lastId>>
SkipRow(r) ==
  /\ restore.mode = "skip" /\ r.kind \in {"channel", "device", "rule"}
  /\ NameTaken(r.kind, restore.tenant, r.name)
  /\ restore' = [restore EXCEPT !.todo = @ \ {r}]
  /\ UNCHANGED <<configs, links, lastId>>

(* GetOrCreateByName.                                                      *)
Reuse(r) ==
  /\ r.kind \in {"tag", "group"}
  /\ \E q \in Of(r.kind, restore.tenant) : q.name = r.name /\
       restore' = [restore EXCEPT !.todo = @ \ {r}, !.ids = Remapped(r.id, q.id)]
  /\ UNCHANGED <<configs, links, lastId>>

(* A tag, a group or a channel.                                            *)
Insert(r) ==
  /\ r.kind \in {"tag", "group", "channel"}
  /\ ~(NameTaken(r.kind, restore.tenant, r.name) /\ (Unique(r.kind) \/ restore.mode = "skip"))
  /\ NewRow(Here(r))
  /\ restore' = [restore EXCEPT !.todo = @ \ {r}, !.ids = Remapped(r.id, lastId')]
  /\ UNCHANGED links

(* uniqueDeviceName: the plain name is not tried.                          *)
UniqueName(name) ==
  LET free == {n \in 1..LastId : ~NameTaken("device", restore.tenant, <<name[1], n>>)}
  IN  <<name[1], CHOOSE n \in free : \A m \in free : n <= m>>

(* importDevice: Create inserts an enabled device without checks.          *)
RestoreDevice(r) ==
  /\ r.kind = "device"
  /\ LET name == IF restore.mode = "keep" THEN UniqueName(r.name) ELSE r.name
     IN  /\ ~NameTaken("device", restore.tenant, name)
         /\ NewRow([Here(r) EXCEPT !.name = name, !.on = TRUE, !.checks = {}])
  /\ restore' = [restore EXCEPT !.made = r, !.ids = Remapped(r.id, lastId')]
  /\ UNCHANGED links

(* Its enabled flag and its checks but the port check.                     *)
WithChecks(q, r) == [q EXCEPT !.on = r.on, !.checks = r.checks \ {"port"}]
SetUp ==
  /\ restore.made # NoBundle
  /\ configs' = {IF q.id = restore.ids[restore.made.id]
              THEN WithChecks(q, restore.made) ELSE q : q \in configs}
  /\ restore' = [restore EXCEPT !.todo = @ \ {restore.made}, !.made = NoBundle]
  /\ UNCHANGED <<links, lastId>>

(* SetForSubject and ReplaceForSubject, for what was imported.  A tag or   *)
(* group that is gone by now makes them fail.                              *)
LinkedAs(l) == [l EXCEPT !.of = restore.ids[l.of], !.device = restore.ids[l.device]]
RestoreLink(l) ==
  /\ restore.clear = <<>> /\ restore.made = NoBundle
  /\ l \in restore.linked /\ {r \in restore.todo : r.kind # "rule"} = {}
  /\ IF {l.of, l.device} \subseteq DOMAIN restore.ids
     THEN /\ \E r \in configs : r.id = restore.ids[l.of]
          /\ links' = links \cup {LinkedAs(l)}
     ELSE UNCHANGED links
  /\ restore' = [restore EXCEPT !.linked = @ \ {l}]
  /\ UNCHANGED <<configs, lastId>>

(* Mutant: the channels keep the ids they had.                             *)
RefsAsSaved(r) == r.refs
RefsOf(r) == {restore.ids[c] : c \in r.refs \cap DOMAIN restore.ids}
SaveRule(r) ==
  /\ r.kind = "rule" /\ restore.linked = {}
  /\ ~(restore.mode = "skip" /\ NameTaken("rule", restore.tenant, r.name))
  /\ NewRow([Here(r) EXCEPT !.refs = RefsOf(r)])
  /\ restore' = [restore EXCEPT !.todo = @ \ {r}]
  /\ UNCHANGED links

RestoreEnd ==
  /\ restore # NoBundle /\ restore.clear = <<>> /\ restore.todo = {} /\ restore.linked = {}
  /\ restored' = [mode |-> restore.mode, tenant |-> restore.tenant]
  /\ restore' = NoBundle
  /\ UNCHANGED <<configs, links, lastId, export, bundle, restores, edits>>

(* Any statement may fail, or the 60 seconds be over: nothing is undone.   *)
FailImport ==
  /\ restore # NoBundle /\ restore' = NoBundle /\ restored' = NoBundle
  /\ UNCHANGED <<configs, links, lastId, export, bundle, restores, edits>>

-----------------------------------------------------------------------------
(* Requests of others; devices are never deleted by one.                   *)
EditBeside ==
  edits < MaxEdits /\ edits' = edits + 1 /\ UNCHANGED <<export, bundle, restore, restores, restored>>

CreateRow(kind, t, name) ==
  /\ EditBeside
  /\ ~(Unique(kind) /\ NameTaken(kind, t, name))
  /\ NewRow([kind |-> kind, id |-> 0, tenant |-> t, name |-> name, on |-> TRUE, checks |-> {}, refs |-> {}])
  /\ UNCHANGED links

DeleteRow(r) ==
  /\ EditBeside /\ r \in configs /\ r.kind # "device"
  /\ configs' = configs \ {r}
  /\ links' = {l \in links : l.of # r.id}
  /\ UNCHANGED lastId

UpdateRow(r, name) ==
  /\ EditBeside /\ r \in configs /\ r.kind \in {"tag", "group", "rule"}
  /\ ~(Unique(r.kind) /\ NameTaken(r.kind, r.tenant, name))
  /\ configs' = (configs \ {r}) \cup {[r EXCEPT !.name = name]}
  /\ UNCHANGED <<links, lastId>>

Unlink(l) ==
  /\ EditBeside /\ l \in links
  /\ links' = links \ {l}
  /\ UNCHANGED <<configs, lastId>>

BackupNext ==
  \/ \E t \in Tenants : ExportBegin(t) \/ \E m \in Modes : RestoreBegin(t, m)
  \/ ExportNext \/ ExportEnd
  \/ ClearTenant
  \/ /\ Working
     /\ \/ \E r \in restore.todo : Due(r) /\ (SkipRow(r) \/ Reuse(r) \/ Insert(r) \/ RestoreDevice(r) \/ SaveRule(r))
        \/ SetUp
        \/ \E l \in restore.linked : RestoreLink(l)
  \/ RestoreEnd \/ FailImport
  \/ \E k \in {"device", "tag", "group", "channel", "rule"}, t \in Tenants, n \in NewNames : CreateRow(k, t, n)
  \/ \E r \in configs : DeleteRow(r) \/ \E n \in NewNames : UpdateRow(r, n)
  \/ \E l \in links : Unlink(l)

BackupSpec == BackupInit /\ [][BackupNext]_backupVars

-----------------------------------------------------------------------------
BackupTypeOK ==
  /\ lastId \in 0..LastId
  /\ \A r \in configs : r.id \in 1..lastId /\ r.tenant \in Tenants
  /\ \A r, q \in configs : r # q => r.id # q.id /\
       (Unique(r.kind) => <<r.kind, r.tenant, r.name>> # <<q.kind, q.tenant, q.name>>)

(* What a configuration says, apart from the ids it is said with.          *)
Meaning(R, L) ==
  LET NameOf(i) == {r.name : r \in {q \in R : q.id = i}}
  IN  {[kind |-> r.kind, name |-> r.name, on |-> r.on, checks |-> r.checks \ {"port"},
        refs |-> {NameOf(c) : c \in r.refs},
        links |-> {<<l.kind, NameOf(l.of)>> : l \in {k \in L : k.device = r.id}}] : r \in R}

(* An import that overwrites leaves the tenant as it was saved, whatever   *)
(* was there and whichever tenant it was saved from, if nobody edited      *)
(* anything meanwhile: the same devices with the same tags and group, and  *)
(* rules that name the same channels under their new ids.  Settings of     *)
(* port checks and SNMP are not saved.                                     *)
RestoredAsSaved ==
  restored # NoBundle /\ restored.mode = "overwrite" /\ edits = 0 /\ restore = NoBundle =>
    Meaning({r \in configs : r.tenant = restored.tenant}, links) = Meaning(bundle.rows, bundle.links)

(* An import changes nothing of another tenant (alerts/repository.go:322). *)
SparesOthers ==
  restore # NoBundle /\ restore' # restore =>
    LET theirs == {r \in configs : r.tenant # restore.tenant}
        ids == {r.id : r \in theirs}
    IN  /\ theirs = {r \in configs' : r.tenant # restore.tenant}
        /\ {l \in links : l.device \in ids} = {l \in links' : l.device \in ids}

(* Keeping or skipping, it changes nothing that was there when it began:   *)
(* neither a row nor the tags or the group of a device.                    *)
SparesExisting ==
  restore # NoBundle /\ restore' # restore /\ restore.mode # "overwrite" =>
    LET Old(R) == {r \in R : r.id <= restore.first}
        OldLinks(L) == {l \in L : l.device <= restore.first}
    IN  Old(configs) = Old(configs') /\ OldLinks(links) = OldLinks(links')

ImportsSpareOthers == [][SparesOthers /\ SparesExisting]_backupVars
=============================================================================
