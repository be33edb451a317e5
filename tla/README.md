# erdd: a TLA+ verification project

erdd is a collaborative ER-diagram editor: a Fastify/tRPC server over Postgres
(`src/apps/server`), a React editor (`src/apps/web`), a CLI that synchronises a
project with a directory of YAML files and can also serve that directory to the
editor without a server (`src/packages/cli`), and a shared core
(`src/packages/core`). A project's model changes only by *ops*. The server
validates a batch of ops, stores it as rows and as one more *revision*, and
announces it on a WebSocket channel; editors apply their own edits at once and
follow the channel for everybody else's.

This directory models those four parts: the op algebra and the edits made of it,
the server and the editors on top of it, local mode, the synchronisation of
files, shared libraries, links and accounts, change records, the naming rules and
the exchange of schemas as DDL and DBML text. TLC checks each on small instances.
TLAPS proves, for all instances, what the op algebra promises the other parts, and
safety properties of the server, the editors, local mode, the synchronisation of
files, the promotion queue and its library, the one-time links and the name fields.

## Contents

1. Inventory of the system
2. Modules, and how they correspond to the code
3. Runs: what each one asks and shows, and its bounds
4. Fairness
5. Proofs
6. Where the code and its documentation disagree
7. What is only model-checked, what is not modelled
8. Plan

## 1. Inventory

| Component | State | Operations | Talks to | What makes it correct |
|---|---|---|---|---|
| **Op algebra** (`core/op.ts`, `diff.ts`, `invert.ts`, `integrity.ts`; `server/services/model-store.ts`) | none | applyOps, diffModels, invertOps, validateModelIntegrity, withAuthoritativeHistory, persistOps, chunkOps | everything below | a diff reaches its target, whole, in chunks and as row statements; an inverse returns |
| **Edits** (`core/relationship.ts`, `column-edits.ts`, `domain-edits.ts`, `web/editor/*-edits.ts`, `clipboard.ts`, panels) | the plans of open dialogs | producers from model to model | editor | what is offered is accepted; a plan does what was shown or nothing |
| **Project model pipeline** (`services/mutation.ts`, `mutate-publish.ts`, `routers/model.ts`) | rows, revisions, project row lock | model.mutate, push, get | hub (after commit), editors, CLI | rows = revisions replayed; a push lands on its base; only committed revisions are announced, once |
| **Snapshots** (`routers/snapshot.ts`) | snapshots table | create, restore, delete (list, get) | pipeline | a snapshot is one version; a restore reproduces it |
| **Realtime hub and socket** (`services/realtime.ts`, `ws.ts`) | subscribers, selections, ranks | subscribe, publishOps, presence, heartbeat | editors | no revision is missed between subscribing and `ready` |
| **Editor** (`web/editor/use-model.ts`, `use-realtime.ts`, `store.ts`, `version-dialog.tsx`) | model, seq, undo and redo stacks, mutation chain, query cache, socket | edit, undo, redo, frames, reload, restore, change of project | server, hub | `store.seq` names the version the model is; undo offers what was accepted; the editor converges |
| **Presence and selection** (`store.ts`, `use-realtime.ts`, `realtime.ts`) | selection, peers | select, prune, broadcast | hub | a vanished object is deselected whichever way the news came |
| **Local mode** (`cli/local/*`) | model, draft file, base signatures, external flag | load, mutate, flush, save, discard, keep, adoptDraft | YAML files, watcher, editor | no unsaved edit and no outside change is lost silently |
| **CLI synchronisation** (`cli/commands/push.ts`, `pull.ts`, `sync-down.ts`, `reserve-ids.ts`, `core/file-merge.ts`) | files, base tree, sync file | push, pull, reserve ids, three-way merge | model.get, model.push | a repeated push creates nothing twice, and neither side's edits are lost |
| **Shared resources, promotion** (`routers/resource.ts`, `promotion.ts`, `services/promote.ts`, `library-import.ts`; `core/resource-*.ts`, `library-import.ts`) | libraries, items with versions, requests | create, update, remove, import, promote, resync, request, cancel, resolve | pipeline (`prepare` hook) | what was reviewed is what is applied; a request is decided once |
| **Links, accounts, members** (`invitation.ts`, `auth.ts`, `one-time-token.ts`, `org.ts`, `admin.ts`) | invitations, reset tokens, accounts, members | issue, revoke, accept, reset, change of roles | accounts | a link acts once; an organisation keeps an owner |
| **Change records** (`core/changeset/*`) | none (files in git branches) | projection, diff, compose, replay | git, DDL export | a record reproduces its target; branches merge |
| **Naming, name fields** (`core/naming.ts`, `web/editor/name-pair.tsx`) | drafts of the two names, a blur that waits, edits in the chain | type, choose, arrow, blur, register a word | dictionary, editor | what was typed is stored; a name set by hand stays; names read back |
| **DDL and DBML** (`core/ddl*.ts`, `dbml*.ts`, `dialect.ts`, `name-*.ts`; `web/editor/ddl-import-dialog.tsx`) | the plan of the open dialog | export, parse, plan, apply | editor | an export reads back; an import lands as shown, once |
| **File format, Excel, layout** | none | conversions, rendering | | (pure) |

The hard behaviours: handlers that interleave at every `await` and share row
locks; frames that overtake answers, are lost with a socket or published out of
order; tasks that read the store, wait and write it back; one edit sent as
several requests, some of which fail; plans made on one state and confirmed on
another; files that other programs change at any time; a process that dies
between two writes; branches that know nothing of each other. `PROJECT.json`
lists each at its line.

## 2. Modules

```
ModelOps ── the op functions, written out        OpAlgebra ── the laws they obey
   ├─ ModelPairs ── MCModelOps, ModelOps_proofs     ├─ RevisionLog    what the server promises
   ├─ ModelEdits ── MCModelEdits, Editing_proofs    │     └─ EditorSync ── MCEditorSync, EditorSync_proofs
   ├─ FileMerge ── CliSync ── MCCliSync             └─ ProjectServer ── MCProjectServer
   │                  └─ CliSync_proofs                   ├─ implements RevisionLog
   └─ SmallModels ── SmallTables (the instance)           └─ ProjectServer_proofs

FileStore ── MCFileStore, FileStore_proofs       Naming ── NamePairs ── MCModelOps, Editing_proofs
AccountLinks ── MCAccountLinks ── MCSharing              └─ SchemaText (with DialectTypes, ModelOps)
   └─ AccountLinks_proofs                                      └─ SchemaImport ── SmallSchemas
LibraryPlans ── ResourceLibrary                                                      └─ MCModelEdits
                   ├─ MCResourceLibrary ── MCSharing
                   └─ ResourceLibrary_proofs     Changesets ── MCChangesets ── MCModelEdits
```

**ModelOps** is a translation of the pure functions. A model is a partial
function from keys `<<kind, id>>` to entities, so that "exists" is membership of
its domain; an entity keeps its references (`tableId`, `groupId`, `domainId`,
mappings, index columns) and folds every other field into `data`. Dropped with
that: zod schemas, "key differs from id", `__proto__`. `persistOps` checks the
foreign keys of `db/schema.ts` after *every* statement, as Postgres does for
immediate constraints; column lists are jsonb, guarded by no key. **ModelPairs** is
the pair of models a diff is taken of: an editor changes one entity of the target at a
time, over whatever set of entities, so that its reachable states are all pairs of
integral models. **MCModelOps** is the instance of it that TLC checks;
CliSync_proofs EXTENDS ModelOps_proofs, because a push is a diff.

**OpAlgebra** is what the concurrent modules need to know of those functions:
sets `Model` and `Batch`, the functions as operator parameters, and seven laws as
assumptions. Proofs use the laws; TLC evaluates them in every run on
**SmallTables** (two tables, one with two names: six models, 26 batches, among
them commuting, colliding and stale ones, and two-op edits that are cut into two
requests). There models and batches are numbers and the functions are tables of
numbers; **SmallModels** says which model and batch each number stands for, and
the server runs check every entry against ModelOps (`TablesAreModelOps`).

**RevisionLog** is the abstract specification: `Commit` (a batch becomes rows
and one more revision), `Announce` (its frame goes out), `ForgetUnpublished`
(the process died in between).

**ProjectServer** has one action per statement between two awaits:

| Code | Actions |
|---|---|
| `runMutation`, `mutateAndPublish` | `LockProject`, `LoadModel`, `ReadSeq`, then `RollBack`, `AnswerNoop` or `PersistBatch`; `CommitTx`, `PublishOps` |
| callers' `deriveOps` | `deriveOps`: mutate sends its ops, push compares `expectedSeq`, restore takes the diff under the lock |
| `snapshot.restore` | `FindSnapshot` before the transaction |
| `model.get`, `snapshot.create` | `BeginRead`, `FinishRead` (repeatable read), `InsertSnapshot` outside |
| `snapshot.delete` | `FindDoomed`, `DeleteSnapshot` |
| the environment | `Send`, `Crash` |

`PersistBatch` takes `withAuthoritativeHistory`, `applyOps`, `persistOps` and the
insert together: nobody else sees an open transaction. `revisions[s].result` and
`author` are history fields. Every request carries ops computed from *some*
version, not the current one.

**EditorSync** puts editors on top of RevisionLog. One request is one atomic
server step there, which is what ProjectServer justifies. Its state per client:
`store` (model, seq, undo, redo, and `here` for `loadedProjectId`), `chain` (the
task that holds `serializeMutation`, with `lastSeq`, `interleaved`, `left`),
`call` (the request awaited), `query` (the single TanStack slot of `model.get`:
`fetchQuery` joins a fetch in flight), `sock`, `inbox`, `dialog` (a restore),
and `orphans` (requests whose sender gave up and which the server will still
execute). Actions follow `submit` await by await (`Submit`, `NextChunk`,
`LastChunk`, `CallFails`, `QueryAnswer`, `QueryFails`), `handle`
(`HandleFrame`), `wsPlugin` (`Subscribe`, `ReadSeq`, `SendReady`),
`useModelLoader` (`Leave`, `Return`) and the version dialog (`Restore`,
`RestoreAnswered`, `RestoreLoads`). TanStack is external: `fetchQuery` and
`BackgroundRefetch` model what the code uses of it.

`alarmed` says that the user has been told to reload the page, "stale" or
"unsaved": the code gives up there, so no property claims anything about that
page's *unsaved* state afterwards. `overwritten` marks an editor whose store
`setLoaded` replaced while an edit was in flight (section 6).

Operators with a suffix (`LockProject_PlainSelect`, `recordEdit_KeepRedo`, ...)
are mutated forms: plausible mistakes, each of which breaks the property it is
listed with under `mutants`.

**ModelEdits** has the producers of the editor's edits as operators on the models of
ModelOps (ids and names are numbers, column types and physical names are left
out), one action per command, and `plan`: what a dialog, a drag or a button
remembers of the model it was opened on. `model` is what the server accepts: an
edit that throws or leaves a model that is not integral is `refused`.

**FileStore** is the local server's `FileStore` class. `files` is the directory
(two files; content that cannot be parsed, lacks ids or was written by hand is a
value of its own), `store` the process's memory, `draft` the draft file, `task` the
entry of the promise chain under way, `reads` the file reads in progress.

| Code | Actions |
|---|---|
| `load`, `#readTree`, the id write-back | `StartLoad`, `ReadTables`, `WriteIdsBack`, `ReadLayout`, `CommitLoad` |
| `mutate`, `flush`, the timer | `mutate`, `flush`, `FlushEnds` |
| `save` | `save`, `SaveFile` per file, `SaveCommits`, `RemoveDraft` |
| `discard`, `keep`, `adoptDraft` | actions of the same names |
| watcher, other programs, process | `WatchFires`, outside writes, crash and start |

**FileMerge** translates `core/file-merge.ts`: which fields the files hold, the
field-wise three-way merge, its conflicts, pruning and `applyMerge`. **CliSync**
is `push`, `pull`, `syncDown` and `reserveIds` around it: `log` the project's
versions, `files` and `base` the directory, `cli` the command under way, `wire` requests
whose sender has given up, `issued` what the author is known to have asked for.

**LibraryPlans** holds the pure plans of `resource-promote.ts`,
`resource-sync.ts` and `library-import.ts`; **ResourceLibrary** the routers and
services that apply them, statement by statement where they lock: `items` (the
library's rows), `model` (the project's entities with the origin each
remembers), `requests`, `at` (the handlers) and the locks. A wait for a cycle of
locks ends as Postgres ends it, by failing one of the waiters. What a preview of an
import shows is compared without the values before and after of an updated item
(`Summary`): the hash protects these, since values that change change the version.

**AccountLinks** has the links and accounts of `invitation.ts` and `auth.ts` and
the members of one organisation: `links`, `accounts`, `members`, `doing` (the
handlers), `effects` (what each link has done). One action per statement, but two for
the UPDATE by which a reissue expires the older links: it sees what is committed when it
starts (`SeeOlder`), and after waiting for other transactions it rechecks the rows it saw
and no others (`KillOlder`), as READ COMMITTED has it.

**Changesets** translates projection, `diffProjection`, the composition and `replay` of
records; **MCChangesets** is the state machine around it: two branches edit a
common schema, and both orders of merging their records are replayed.

**Naming** has the rules of `naming.ts`: how a logical name is split into words,
abbreviated with the dictionary and read back, and what is suggested. Names are
sequences of letters up to case. **NamePairs** is the pair of name fields that
uses them: `draft` is what the two fields show, `timer` a blur that has put off
its commit to the next turn of the event loop, `chain` the edits that wait for
theirs, `sending` the one the server has. A handler sees the values of the render it
was made in; only the blur's handler runs later and keeps what it saw.

**DialectTypes** holds the type tables of `dialect.ts` and `logical-type.ts`,
**SchemaText** the printers (`ddl.ts`, `dbml.ts`), the name templates and the header
that undoes them, and what the parsers get out of a text; a text is its header and
its statements without their syntax. **SchemaImport** is the dialog around them: a
plan is made for the model on the screen, and carried out on a model that peers may have
changed. **SmallSchemas** has the schemas and pasted texts it is run with.

Three runs join parts that share nothing but their constants: `model_ops` the op
algebra with the name fields, `model_edits` the edits with the branches and the
imports, `library_and_links` (**MCSharing**) the library with the links. There the initial state chooses the part, and the others never begin.

## 3. Runs

| Run | Question | Bounds | States (time) |
|---|---|---|---|
| `model_ops` | do the op functions keep their promises; do the name fields lose what was typed? | all pairs of integral models over two tables, a group, a domain, a movable column, a (self-)relationship, an index; chunk sizes 1-3. Names: 4 acts of the user, 1 step of a peer; dictionaries of two words and their compound in every order and choice of abbreviations; names of up to three letters | 100 thousand (110-195 s) |
| `model_edits` | is what the editor offers accepted, and what it shows done? do branches merge, do exports read back, do imports land as shown? | edits: 3 models, 3 names, 2 edits and a plan confirmed after them; branches: two tables, three columns, an index, a foreign key, 2 edits against 1; imports: some 35 schemas, 2 formats, 4 dialects, up to 3 exports, 4 pasted texts, 1 move of a peer, 2 presses of the button | 278 thousand (195 s) |
| `server` | are log, rows, answers, snapshots and frames kept together; is the server a RevisionLog; does every request end? | 2 slots, 3 requests of six kinds, 1 snapshot id, 1 crash | 247 thousand (60 s) |
| `sync` | does an editor survive lost calls, sockets, processes, undo and redo, changes of project, restores and refetches, and converge? | 1 editor, cap 2; together: 1 edit, 1 other revision, 2 faults; or 3 edits, undos or redos; or 2 edits and a refetch; or any 2 of edits, other revisions, faults, refetches, changes of project, restores | 578 thousand (120 s) |
| `file_store` | does local mode lose an unsaved edit or an outside change; does it come to rest? | 2 files, contents a, b, by hand, without ids, broken, absent; 2 load attempts for the code's 4; 3 events; 2 reads at once; failures | 684 thousand (60-90 s) |
| `cli_sync` | does a push create copies, overwrite others, lose its own edits? | a table, column, group, index, two words, a note; 2 edits of others, 2 of mine, 1 new entity, 3 edits in all; 2 commands, 1 cut connection | 1.3 million (100 s) |
| `library_and_links` | does a promotion or an import do what was reviewed? is a link used once; what takes an organisation's last owner? | library: a project with a domain and a term, a library with a domain of that name; 2 handlers, 2 flows, 1 edit, 1 request. Links: 2 addresses, 3 links, 2 handlers, 4 flows with a link, 5 with changes of members; symmetry of addresses and handlers | 906 thousand (90 s) |
| `file_draft_overlay`, `changeset_branches`, `import_same_name`, `two_live_links`, `last_owner` | section 6 | | (2-4 s each) |

Why these bounds suffice for what is asked:

- *Op algebra.* Every rule of `validateModelIntegrity` about references relates
  at most two entities and a table; the instance has one of each, in both
  positions, and every pair of models is a diff. `ChunksAddUp` excludes a column
  that changes its table, the exception `docs/guides/data-layer.md` states;
  `RowsFollowModel` does not exclude it.
- *Name fields.* A name is lost between an act, the edit it leaves in the chain,
  its answer and an act of somebody else: four acts and a peer's.
- *Server.* What goes wrong between two writers does so with two slots; a third
  request gives the log a history to be stale against. The proofs remove the bound
  for the safety properties.
- *Editors.* Two ops per edit make two requests, so that revisions and faults
  fall before, between and after chunks. An edit and another revision is the
  shortest interleaving, a second fault hits the repair of the first. Editors
  meet only in the log: `Other`, who writes revisions, is a second editor to the
  first. `Mixtures` says which events one behaviour may have together.
- *Files.* Two files make a save that is cut in the middle and a read that sees
  half of one. Two attempts are the first load, which is retried, and the last,
  which gives up.
- *Synchronisation.* A merge is field by field and entity by entity, and an entity
  depends on others at most two steps away (index, column, table).
- *Libraries, links.* Two handlers race; locks are taken in at most three steps. A third link
  makes an earlier link that one reissue locks and another waits for.

Properties, by the hazard they are for:

- `ChunksAddUp`, `RowsFollowModel`, `LoggedHistoryRollsBack`: the laws the other
  parts lean on. The last says that a revision can be rolled back although its
  `from` and `before` came from a client that was behind.
- `NothingTypedIsLost`, `HandSetKept`, `NamesReadBack`: what was typed is in the model
  or was visibly replaced; the arrow from one side replaces the other only where
  the user asks for it; a physical name made from words gives the words back.
- `OfferedEditsLand`, `ShownIsWhatHappens`: an edit the editor offers is integral;
  a plan confirmed later does what was shown, or nothing.
- `SelfCheckHolds`, `BaselineIsWhole`, `ChangesOfBothArrive`, `NamesFreeInOrder`:
  change records of two branches.
- `ExportsReadBack`, `LandsAsShown`, `NoSecondTable`: DDL and DBML.
- `LogReplays`, `PushLandsOnItsBase`, `RestoreReproducesSnapshot`,
  `SnapshotsAreVersions`, `ImplementsRevisionLog`, `EveryRequestEnds`: the server.
- `ModelAtSeq`: between two tasks an editor's model *is* the version its seq
  names. Everything the realtime code decides (echo, gap, reload) rests on it.
  `UndoWalksBack`: every undo and redo on offer applies, as long as nobody else
  writes, nothing fails and nothing but the editor's own reloads fetches the model. A fetch
  TanStack starts on its own (refocus, reconnect) must be excluded: with two of them TLC finds a
  reload that joins a fetch read before the last edit, so that the next edit counts as interleaved;
  that one settles on the second stale answer and is on the undo stack but not in the model
  (until the next fetch). It needs two edits and two refetches, beyond the bounds of `sync`.
  `Converge`: in the end the editor shows the server's rows or has told its user to reload, *unless
  the model was fetched outside the chain*, by TanStack's refetch on reconnect or on the page's
  mount or after a restore; section 6 says what happens then. `ChainDrains` is without exception.
- `UnsavedSurvives`, `SaveKeepsUnseen`, `Settles`: local mode.
- `PlansAreAccepted`, `NoCopies`, `NeverOverwrites`, `OwnEditsArrive`: the CLI.
  The last two except what cannot stand in the new model (a column whose table
  the other side has removed) and references to what is gone.
- `RequestTellsWhatLanded`, `PlansSettle`, `PromoteReplacesWhatWasSeen`,
  `ImportAppliesPreview`: libraries and the queue.
- `UsedOnce`, `ReissueKillsEarlier`, `StaleCheckTakesLastOwner`: links and members. The second
  says that a reissue kills every link its UPDATE could see, the third that a change which takes
  the last owner was itself checked against other owners; section 6 has what they leave open.

`CHECK_DEADLOCK FALSE` is in the runs whose users may have used up their bound
and wait for nothing. The library's part of `library_and_links` checks deadlock: its
only stutter, `Rest`, needs every handler idle, so that a cycle of locks nobody
breaks would be reported. For the links the check says nothing, since some account can always
be (de)activated and a handler can always crash.

## 4. Fairness

*Server:* weak fairness of every step of a handler (the process runs what is
ready), strong fairness of `LockProject`, because Postgres queues waiters of a
row lock in order; none of `Send` and `Crash`.

*Editor:* weak fairness of the server's handling of a request, of its answer, of
publishing, of `model.get`, of delivery on an open socket, of handling a frame
when the chain is idle, and of reconnecting (`onclose` sets a timer with a
bounded back-off). None of users, of other writers, of background fetches, of
faults, or of the arrival of orphaned requests.

*Local mode:* weak fairness of the steps of a load (`ReadTables`,
`WriteIdsBack`, `ReadLayout`, `CommitLoad`, `adoptDraft`), of the watcher
(`WatchFires`), of the flush timer and its end, and of the steps of a save that
has begun. None of edits, outside writes, commands of the user and crashes.

The other modules state no fairness and no liveness: a handler there ends or
fails with its transaction, and a user may stop at any time.

## 5. Proofs

For every value of the constants that satisfies the assumptions named below:

| Module | Theorem | Property |
|---|---|---|
| `ModelOps_proofs` | `ChunksAddUpAlways` | `ChunksAddUp` |
| | `RowsFollowModelAlways` | `RowsFollowModel` |
| | `LoggedHistoryRollsBackAlways` | `LoggedHistoryRollsBack` |
| | `DiffApplies`, `DiffPersists`, `ChunksReach` | a diff reaches its target: in one piece, as row statements, in chunks of any size |
| | `BothAccept`, `RewriteApplies`, `RollsBack`, `EmptyDiff` | the other laws of a batch, one operator each |
| | `EditsRollBack` | the inverse of an edit leads back from its target to its base |
| `ProjectServer_proofs` | `ServerTypeCorrect` | `TypeOK` |
| | `ServerLogReplays` | `LogReplays` |
| | `ServerPushLandsOnItsBase` | `PushLandsOnItsBase` |
| | `ServerRestoreReproducesSnapshot` | `RestoreReproducesSnapshot` |
| | `ServerSnapshotsAreVersions` | `SnapshotsAreVersions` |
| | `ServerGetAnswersOneVersion` | `GetAnswersOneVersion` |
| | `ServerChannelAnnouncesLog` | `ChannelAnnouncesLog` |
| | `ServerAnswerNamesOwnRevision` | `AnswerNamesOwnRevision` |
| | `ServerImplementsRevisionLog` | `ImplementsRevisionLog` |
| `EditorSync_proofs` | `SyncTypes` | `SyncTypeOK` |
| | `EditorsShowWhatSeqNames` | `ModelAtSeq` |
| | `UndoWalksBackAlways` | `UndoWalksBack` |
| | `EditorsKeepLog`, `EditorsImplementLog` | the log under the editors replays; their composition implements RevisionLog |
| `FileStore_proofs` | `FilesAreTyped` | `FileTypeOK` |
| | `UnsavedEditsSurvive` | `UnsavedSurvives` |
| | `SavesKeepUnseen` | `SaveKeepsUnseen` |
| `CliSync_proofs` | `PlansAreIntegral` | a merge without conflicts, written over and pruned, is integral |
| | `CurrentPushesAreAccepted` | `PlansAreAccepted` |
| | `PushesKeepTheirs` | `NeverOverwrites` |
| | `PushesBringMine` | `OwnEditsArrive` |
| | `NewTablesArriveOnce` | `NoCopies` |
| `ResourceLibrary_proofs` | `QueueTellsWhatLanded` | `RequestTellsWhatLanded` |
| | `PromotionReplacesWhatWasSeen` | `PromoteReplacesWhatWasSeen` |
| | `ImportsApplyPreviews` | `ImportAppliesPreview` |
| | `PlansAreSettled` | `PlansSettle` |
| `AccountLinks_proofs` | `LinksAreTyped` | `LinkTypeOK` |
| | `LinksActOnce` | `UsedOnce` |
| | `UsedInvitationsMadeAccounts` | an invitation that is used has made its account |
| | `ReissueKills` | `ReissueKillsEarlier` |
| | `OnlyStaleChecksTakeOwners` | `StaleCheckTakesLastOwner` |
| `Editing_proofs` | `OfferedEditsLandAlways` | `OfferedEditsLand` |
| | `ModelsStayWhole` | the model of a session stays integral |
| | `ShownIsWhatHappensAlways` | `ShownIsWhatHappens` |
| | `TypedNamesAreStored` | `NothingTypedIsLost` |
| | `HandSetNamesStay` | `HandSetKept` |

**Assumptions.** `OpAlgebra`'s seven laws (TLC checks them on the tables of
`SmallTables`; of ModelOps itself `ModelOps_proofs` has those that say what accepted
batches do, for well-formed models: PersistLaw, RewriteLaw, SameModelLaw, InvertLaw (`EditsRollBack`), and DiffLaw where no column changes its table); bounds
that are natural numbers, and model values that are distinct from what they stand
beside (`ServerBounds`, `SyncBounds`, `FileBounds`, `LimitsAreNumbers`, `FlowsAreBounded`,
`AbsentIsNoRow`, `PairLimits`, `NewWordIsAWord`); `FilesMeanModels`, that a model written out and read
again is that model (`file-format.test.ts:311`); `StartIsFinite` and `EmailsAreFinite`, a finite
library whose terms refer to its own items, and finitely many addresses; `StartIsTyped`, that the
first project is a dictionary: finitely many entities of the four kinds, whose origins are items
there are; `NoneIsNoId`, that the absence of a domain is no item's id; `PairsHaveSides`, that a name pair has its two sides;
`SessionsStartWhole`, that a session starts from a typed and integral model whose ids are below
the first one it will give and whose relationships map a column each (the editor makes no other,
though the schema, `model.ts:39`, allows one: its resolution would leave it there); `KindsHaveFields` and `EntitiesHaveFields`, that entities have the fields of their
kind, which the schemas of `model.ts` enforce, and that the first model is one the server
accepts; `ErrorIsNoModel`, that a thrown error is not a model; `IdsAreIds`, that a given id is
not the absence of one. TLC evaluates each in the runs.

Some theorems have hypotheses of their own. Those about the CLI and about edits say
`~ WellFormed(OpApplyError)`: again that an error is not a model, here for models of any
entities, which TLC cannot enumerate (it holds of a model value). `NewTablesArriveOnce`
also says `NewData(Start) = {}` and `NoNewByEdit`: the table that the files' author adds by
hand carries content that nothing else in the project has, and nobody writes that content
by another edit. Otherwise counting that content would not count copies. The instance of
`cli_sync` is of this kind: its new table has a content no edit of `MCEdits` writes.
`PlansAreSettled` says that an origin is not the absence of one, and what the editors around the
model may do: `EditsAreTyped`, an edit of the project leaves a dictionary and names no item later
than those its origins named (origins are written by resync and promotion, `resource-sync.ts` and
`resource-promote.ts`; the undo of a deletion, which brings one back, is not an edit of this
model), and `FileEditsAreTyped`, lines keep to the four kinds. `MCEntityEdits` and `MCFileEdits` are so.

**The op algebra.** Here the data is recursive: what n ops do is a function of what n-1
do. The induction is that of a least counterexample (`LeastNumber`, `UpTo`; the functions
themselves exist by it too: `AppliedExists`, `PersistedExists`). What is shown by it is a fact
about *sets*: `Moved(base, target, S)` is the base with the keys of S as the target has
them. A diff has an op for every key that differs, once (`DiffInOrder`), each of which
moves its key; so after i ops the model is `Moved` for the first i keys, whatever their
order, and after all of them it is the target. The order matters for integrity only, and
only through the sets a prefix may be (`WellCut`): a key is created after those of earlier
kinds and deleted before them, all updates between. Every well-cut set of two integral models keeps
the foreign keys (`ForeignKeysAtCut`), and all of the integrity when no column
changes its table (`IntegrityAtCut`): hence rows and chunks, the latter at every op. For the
rollback, what is recorded of a key is what the rows held, because a diff touches a key once
(`EachOnce`); without that, withAuthoritativeHistory would record the rows before the batch for
the second op as well. `ModelsInv` of DiffSpec says that both models are integral and made of the entities there are.

**The server** needs three layers, each inductive with the help of those before it.

1. **`IInv`.** `LogReplays` alone is not inductive: `CommitTx` appends what a handler
   persisted, and nothing in `LogReplays` says that the handler's model is still
   the current one. `LockInv` (only the holder is between lock and commit)
   gives `SeenInv` (what a holder has read is still so) and `WrittenInv` (what it has
   persisted is accepted by the current rows); `AskedInv` types requests by label.
2. **`GInv`.** `PushAsked`: a push's ops are the diff from the version it names.
   `WrittenFrom`: what was persisted is what was derived. With `DiffLaw` and `RewriteLaw` the
   commit of a push or a restore reaches its target.
3. **`HInv`.** `ToPublish`: a batch that waits to be published is the log's at its
   seq, and the channel has not heard of that seq. Hence frames, answers and restores
   without a revision (`NoopsAreRestored`);
   and with all three layers every step is a `Commit`, an `Announce`, a
   `ForgetUnpublished` or a stutter of RevisionLog (`unpublished` is the set of
   seqs of handlers at "committed"; the log maps to itself without its authors).

`ReadersInv` and `RowsInv` add what a read in progress has seen, for the two theorems
about reads and snapshots.

**The editor** (`SyncInv`). `ModelAtSeq` speaks of the time between two chain
tasks. In the middle of one, `CallLeads` says that the chunks that are left lead from
the version the editor last heard of to the model on its screen, unless the task
knows that it was interleaved and will fetch; `CallTrue`, that an answer names the
revision its chunk made; `FramesTrue`, that a frame on its way is the log's;
`HeldInSync`, `ModelAtSeq` itself for what is at rest. The exceptions are the property's own:
`overwritten` and the alarm "unsaved".

`UndoWalksBack` needs more (`UndoInv`): below each stack stands a *trail*, a model for each place,
such that every entry's ops lead from one to the next and their inverse leads back (`Trails`).
Recording an edit puts one more model on the trail (`TrailPush`; the inverse is InvertLaw's),
undo and redo move the top from one trail to the other (`TrailPop`), the cap forgets the bottom
(`TrailCap`). While a task is under way the trails end in the model it started from (`TaskLeads`),
so that a refusal can go back there. `Alone` says why an undisturbed editor never takes a reload
for somebody else's edit: the version it knows is the last one, its answers come in order, and
what it fetches is the last version too. `WalkEnds` then walks a trail to its end, by induction
on how much of the stack is left.

**Local mode** (`FileInv`). `UnsavedSurvives` must know where the unsaved model is:
in the store, in the draft, or in a draft that waits for the files to become readable
(`DraftHolds`, `WaitsForFiles`, `EditsKept`), and that no load, however late,
replaces it (`ReadsInOrder`, `StartsFresh`). `SavedIsClean` and `SaveSees`
say that a save in progress has compared the files with what it is about to overwrite.

**The CLI** (`TreeInv`). Static first: what pruning keeps and clears (`PruneFacts`),
what a merge takes from either side (`MergeFacts`), what survives being written over
the server's model (`WrittenFacts`, `TargetFacts`), so that the target of a request without
conflicts is integral and keeps both sides' edits. Then the invariant: every
request on the wire was made from the version it names and had no conflict with it, and
files and base hold only what files hold. `FormInv` adds that everything that is read, merged or
sent is a model, its entities with the fields of their kind, and that a request carries
the diff from the version it names to its target (`Prepared`). So `DiffApplies` and `DiffPersists`
give what the server's model is after a request it takes, `PlansAreAccepted`, and with it the two
action properties.

`NoCopies` counts tables that share the new content, so its invariant has to account for where such
a table may still come from: a file without an id, an id just given, a request whose answer was lost,
the base. `CopyInv` says that all keys with that content, anywhere, are in one set S whose
size is at most the number of tables the author has written, less the one that is still without an
id (`Owed`, `PaidFor`). The id an author's table gets is written into the file before the request is
sent (`ReserveKeepsCopies`), so a push that is run again finds it there.

**Libraries.** `QueueInv`: who decides a request holds the project's lock, and the
request is still pending then. `SeenInv`: what the screen showed of a library item is what
the item was at the version the promotion names (`ItemsInv`, `Looks`, `Writes`, `Uploads`), with
item ids that only grow. `PreviewInv`: behind every preview there is a library it was made on
(`PreviewedOn`), whose rows were all committed and had the kinds they have now (an id, once
committed, means one kind for ever: `Fresh`, `Stores`), and what an import sees holds every
row there is. Then equal hashes mean equal ids and versions; equal versions mean equal
contents, unless two item updates shared a version; and what a preview shows depends on the
rows (`AlikePreview`) and not on the ids that new rows would get (`NumberedPreview`), which
others may have used up between preview and import.

`PlansAreSettled` stands on `DictionaryInv`: whatever handlers promote, resync and import, the
project stays a finite dictionary whose origins name ids that were given out. Then a new item
cannot be taken for one an old origin names. A promotion gives every entity an item of its own
(`NumberFacts`), after it the entities that hold items are exactly those it numbered
(`PromotedLinks`), and their payloads, carried over, are what it wrote. A resync, of whatever plan,
hands entities to items (`ResyncShape`); of a plan of now no entity is handed out twice
(`AnsweredOnce`), so what was handed over is synced and the rest is as it was (`HandedSettles`).

**Links** (`LinksInv`). `ClaimInv`: between the claim of a link and the end of its
transaction nobody else has it; `IssuedInv`, `CarriesInv` and `BatchInv` tie links to
what was issued for their address, and a reissue to the links it saw when its UPDATE began.
`MembersInv` tracks the owner checks in progress: the change that takes an organisation's last
owner was checked against other owners.

**Edits** (`EditInv`). The model is *whole*: typed (`WellTyped`), with integral references,
a mapping in every relationship and ids that were given out; a plan that is shown fits that
(`PlanFits`); and the ids that a junction on show keeps for itself (`Reserved`) are in no model.
Every edit keeps a whole model whole. Most do one of three things, each with a lemma: they drop
entities (`SomeLess`), change fields of some (`SomeChanged`), or add one (`OneMore`).
A column's neighbours are given an order, which exists for any finite
set of columns with integer places (`InOrderFacts`). An offered edit of a whole model
lands: applyModelChange takes the diff of two models, and `DiffEnds` of ModelOps_proofs says that the
outcome depends on the integrity of the second only. A plan that is confirmed later need not be integral,
for it was made for another model; it is typed, so it lands or is refused, and then nothing changes
(`ConfirmedLands`).

That it lands *as shown* takes the reserved ids. The columns that a resolution removes go one by
one, in a fold; what is left of every relationship is what maps none of them (`FoldWithout`, by
induction on the size of the set). The junction's two foreign keys are then made of the keys
that remain, one new column each (`RelatedFacts`, `MappingFacts`); because their ids are nobody's, neither
overwrites a column, a relationship or the other's columns (`Resolution`). A propagation names a column once and a
field once, so what a field becomes is what the one change on show says (`Propagated`).
Without `Mapped` or the reserved ids a step could break it although the model stays whole.

**Name fields** (`PairInv`, `HandInv`). A field differs from the model only while an edit
in the chain will reconcile them; a blur that waits has seen what was typed. Nothing
is assumed about what the dictionary makes of a name.

## 6. Where the code and its documentation disagree

Each of these is a run that TLC must find violated; `PROJECT.json` quotes the lines.

- `file_draft_overlay`: `store.ts:409` clears the flag raised at 712, so that the
  banner the comment at 710 promises does not appear when a draft was laid over
  files that changed.
- `changeset_branches`: a record of one branch does not always replay after the other's
  (`replay.ts:129`), where `changeset-format.md:157` says branches merge.
- `import_same_name`: two tables of one physical name in different groups are not
  kept apart (`ddl-apply.ts:68`): the columns of both go to the second, and both get its group.
  `ddl-import.ts:148` says they are two tables.
- `two_live_links`: two requests that issue a link for one address at once leave both alive
  (`invitation.ts:77`; so do the service invitations and resets of `admin.ts`), where the comment at
  75 wants the earlier one dead: neither sees the other's insert, also if they wait for each
  other because there is an older link. A link still acts once (`UsedOnce`), and of two
  invitations only one can make the account.
- `last_owner`: two requests at once demote or remove the two owners of an organisation
  (`org.ts:133`, 157), of whom the last cannot go, says `user-guide.md:94`.

Met while modelling, in the model but without a run of their own:

- Leaving a project and returning within one await of an edit is not noticed
  (`use-model.ts:168`, comment 144); `recordEdit` after the settling fetch is not
  guarded (187 against 167). A restore runs outside the chain
  (`version-dialog.tsx:51`, `realtime.md:23`). `overwritten` marks the editors concerned.
- A reload for a `ready` frame joins a fetch in flight that read the older
  version (`use-realtime.ts:114`); the editor stays behind, without an alarm, until the next frame,
  where `realtime.md:79` says that `ready.seq` recovers what a lost socket missed. The fetch is one
  that TanStack started on reconnect or mount, or a restore's. `Converge` excludes these, and
  without the exclusion the instance of `sync` has the counterexample.
- Item versions: the server's check (`resource.ts:283`) allows what
  `library-import.ts:126` excludes.
- A domain used only by a term: `domain-edits.ts:15` offers a deletion
  `integrity.ts:82` refuses.
- An import whose second request (the table options) fails cannot be completed by a
  retry (`ddl-import-dialog.tsx:126`).
- The arrow between the name fields does not reset a typed draft of the other side when what it
  makes equals the committed name (`name-pair.tsx:152`, `name-pair.test.tsx:286`);
  `withLogicalSeparator` drops separators that were there (`naming.ts:348`, comment 340).
- Outside MySQL, UNSIGNED is lost in an export without a word; SQL Server's
  comments, one-to-one marks and names of foreign keys are not read back.

## 7. Only model-checked, or not modelled

*Out of the prover's reach:* liveness (`EveryRequestEnds`, `Converge`, `ChainDrains`,
`Settles`), and what RECURSIVE operators compute: change records, `NamesReadBack`, texts and
imports. The library's induction theorems take an operator as a parameter and cannot be cited;
ModelOps_proofs shows how recursive *functions* are dealt with in spite of that. Every other
property of the passing runs is a theorem.

*Left out inside modelled components:*

- server: entity schemas, permissions, project deletion, heartbeat, close codes, a second
  server process (the hub is in memory by design);
- editor: presence, selection, group view;
- edits: physical names, types, custom fields, notes;
- local mode: the text of the files, local snapshots and change commands, the event stream to the browser;
- CLI: prompts, the configuration file, the limit on ops per push, columns that move between tables;
- libraries: creation, removal and scopes; links: sessions, hashing of tokens;
- DDL and DBML: tokenising, defaults, auto increment, domains, custom fields, check
  constraints, inline UNIQUE and REFERENCES, positions, chunks of large imports, the CLI's import command.
- name fields: the blur's `setTimeout(0)` runs before the user's next act.

*Without a module:* presence and selection, revision history, the file format,
Excel (see `components`). They are printers, parsers, lists or widgets and stay with
their tests.

## 8. Plan

1. **Selection and presence** as a module on EditorSync's edits, frames and resyncs; a
   composition of EditorSync with a library's resync.
2. **Dictionary files** (Excel import, `dict pull` and `push`), **local snapshots**.
3. **Access**: roles checked before a transaction against roles at its commit.
