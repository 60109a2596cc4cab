# A TLA+ verification of localSpace

localSpace is a workspace in which people and an agent work on the same
documents, with a language model that runs on the same machine or on a server
of the organisation. This directory holds TLA+ modules translated from its
source, the TLC configurations that check them on small instances, and proofs,
checked by TLAPS, of the properties that matter most.

Paths below are relative to `crates/localspace-core/src/` unless they say
otherwise. `PROJECT.json` maps every definition to the lines it stands for.

## 1. The system

### How it runs

`Core` (`lib.rs`) is one object on one thread. `transport.rs` gives it a queue
(an mpsc channel): requests of people, and `Internal` messages that other threads
post. Core takes one message, handles it to the end, and takes the next. What
belongs to one person (workspace, conversations, the open run, proposals,
pending approvals) is swapped into Core's fields by `activate(user)`, when a
request of theirs is handled or an answer of theirs is worked on.

Beside Core's thread there are: one thread for every model step (it reads the
stream of the model and posts one `Replied`); one thread for the downloads; one
that hashes files found in the models folder; a supervisor of the engine
process; the writer of the audit log; and, in a server, the tasks of the
connections, which only put requests into the queue.

### Components

| Component | State | Operations | Interacts with | What makes it correct |
|---|---|---|---|---|
| Answers (`agent.rs`, `turns.rs`) | the turns with state, steps, calls left, stop flag; approvals; the open run | Send, ContinueAnswer, Cancel, DeleteConversation, SelectWorkspace, ApproveTool; `replied`, `go_on`, `begin`, `ask_the_model`, `end`, `schedule` | the reading threads by a flag and by messages; the history by runs; chats | none lost, none worked on twice, a person's answers in their order, stops heeded, approvals still meant |
| Core's loop, per-user state (`lib.rs`, `transport.rs`) | fields of the active person, a table of the others | `handle_as`, `activate`, 80 kinds of request | everything | a request acts as its caller from beginning to end |
| History (`dag.rs`) | on disk: blobs, commits, their order, a head and a redo stack for each document | commit, undo, redo, drop_run, log | documents; runs | nothing dangles after a kill, redo retraces undo, a dropped run is gone |
| Documents (`docs.rs`) | Automerge documents and blobs in memory, a sync state for each replica | write, snapshot, restore, sync, revert | the history, replicas | the document is what its head says |
| Replica sync (`lib.rs` DocSync, `web/.../replica.ts`) | sync states of at most `MAX_REPLICAS_PER_DOC` frames | DocSync, DocSyncEnd, OpenDoc, patches, forgetting | documents, presence | frames converge, an undo stays undone, an edit that arrived is kept |
| Model catalog and downloads (`models.rs`) | the folder, stamps, the line, the stage shown | download, stop, delete, scan; the downloads' thread | the engine, the folder a person also uses | what is installed is the published file; whoever waits is served; a stop stops |
| Engine supervision (`engine.rs`, `child.rs`) | status, child process, chat worker, each with a lock | load, unload, fall back, restart, stop | answers, catalog | a stopped engine has no process, starts are rationed, what is shown comes true |
| Model client (`model.rs`, `stream.rs`, `agent.rs`) | the stream, silence timers, what is held back, what was shown | read, hold, show, repair, stop | answers | what is shown was said, no call is shown as words, every end is told as it was |
| Audit log (`audit.rs`) | day files, a hash chain, a queue, a writer thread | append, write, flush, verify, open | everything | a hole is seen and nothing else is; every record lands or is counted |
| Identity and sessions (`identity.rs`, server `auth.rs`, `ws.rs`) | accounts, links, sessions, failed tries, sockets | invite, accept, reset, login, lock, revoke, close, revalidate | access, server | what was ended is over; a link works once; guessing is paced |
| Access and workspaces (`acl.rs`, `lib.rs`) | members, levels, tightenings, break-glass, in memory and on disk | make, share, tighten, select, export, restart | all requests | the members decide; break-glass is for the visit; the disk has what was answered |
| Packages (`manifest.rs`, `registry.rs`, `deps.rs`, `lock.rs`, `catalog.rs`) | installed packages, files, the lock, prompts | stage, install, approve, remove, start | runtimes, tools | the lock is the set; no grant widens unasked; kinds have one declarer |
| Conversations, attachments (`conversations.rs`, `attachments.rs`, `text_file.rs`) | chats on screen, in memory and on disk; pending and kept files | start, select, delete, record, attach, take, read | answers, prompts | a chat keeps its words and files wherever its person is |
| Presence (`presence.rs`) | windows, places, when last heard | announce, goodbye, sweep | server | everybody was last told who is there |
| Prompts (`prompt.rs`) | none | selection within a budget, pictures | answers | the reading holds together and its start seldom moves |
| Tool exposure, calls, instances (`exposure.rs`, `context.rs`, `runtime/`) | the focus, pins, live instances, a pipe | offer, call, confirm, trap, hand over | packages, documents | offers are honest, a call's things end with it |
| Hardware, fit, placement (`hardware.rs`, `fit.rs`, `planner.rs`, `models.rs`) | measurements | arithmetic | engine, catalog | what is promised to fit does |
| Network gateway (`gateway.rs`) | mode, lists, approvals, budgets, a log | check, fetch, search, approve, select an endpoint | tools, harnesses | nothing leaves unasked |
| Store (`store.rs`) | tables; a version | open, copy, migrate | everything | the first version's data comes over whole |
| Server (`localspace-server`) | pending calls, event streams, sockets, grants, one Core | call, pump, subscribe, open a frame | Core, identity | nobody gets what is another's |
| Client (`localspace-client`) | surfaces, documents, unsaved edits | load, draw, edit, settle | Core | a window shows and says what is so |
| Boards (`harnesses/`) | shapes, frames, cards | 20 tools | runtimes | what is held stays |
| Measuring kit (`localspace-cli/src/measure.rs`) | a pass, its answers, a results file | ask, wait, stop, restart, keep | Core, as a client | results are their own item's and are kept |

### What is hard

* *Threads beside Core.* A model step may end after its answer was stopped, its
  chat deleted, or its person gone to another workspace.
* *A handler that calls into another person's work.* Ending one answer starts
  the next, which may be another person's, within the same request.
* *Several transactions in one request.* A kill or a failed transaction between
  the blob and the commit, or between two heads of a dropped run.
* *Long legal sequences.* Undo, redo, dropped runs and other people's writes
  follow one another in any order.
* *A folder without locks.* Downloads, hashing, a person with a file manager, and
  kills all meet in the models folder.
* *A network that sends anything.* 200, 206, 416, too much, too little, nothing.
* *Memory and disk.* Members, chats, packages and records live in both, each
  written by a transaction of its own, and Core starts again from the second.
* *Things that outlive their owner.* A supervisor whose engine was let go, a
  socket whose session ended, a call whose caller stopped waiting, an instance
  whose call trapped, a frame whose sync state was forgotten.
* *Text that arrives in pieces.* What is words and what is a call is known
  only later than it could be shown.

`PROJECT.json` lists each such place as a hazard, with the property that covers
it, or with the reason why none does yet.

## 2. The modules

| Module | What it is | Checked by |
|---|---|---|
| `Turns` | the answers: queue, model steps, tool rounds, approvals, runs | `MCTurns`, `TurnsProof` |
| `History` | documents and their history | `MCHistory`, `HistoryProof` |
| `Downloads` | the downloads and the models folder | `MCDownloads`, `DownloadsProof` |
| `Identity` | accounts, links, sessions, lockouts, sockets | `MCAccounts`, `AccountsProof` |
| `Access` | workspaces, members, tightenings, break-glass | `MCAccounts`, `AccountsProof` |
| `Engine` | the engine and its supervisors | `Engine`, `EngineProof` |
| `Trail` | what the audit log promises: a list that only grows | as the abstract specification of `AuditLog` |
| `AuditLog` | the chain, the queue, the writer, day files, kills | `AuditLog`, `AuditLogProof` |
| `Manifests` | the gate of a package and the resolution of dependencies | `MCPackages` |
| `Packages` | the installed set | `MCPackages` |
| `Replicas` | frames on one document | `MCReplicas`, `ViewsProof` |
| `Reconciling` | a JSON value written into a document | cases of `MCDesk` |
| `Replies` | one reply as it streams | `MCDesk` |
| `Prompts` | what is read of a chat | `MCDesk` |
| `Chats` | chats and attachments | `MCDesk`, `ViewsProof` |
| `TextFiles` | encodings, token counts and shares of text files | cases of `MCDesk` |
| `Boards` | the whiteboard's and the planning board's tools | `MCDesk` |
| `Client` | the egui client's surfaces | `MCDesk`, `ViewsProof` |
| `Server` | calls, events, sockets, frames, one Core | `MCHost`, `HostProof` |
| `Serving` | settings, start checks, the client's address | cases of `MCHost` |
| `Presence` | who is at which board | `MCHost`, `HostProof` |
| `Gateway` | what leaves the computer | `MCHost`, `HostProof` |
| `Harnesses` | tools on offer, calls, instances | `MCHost`, `HostProof` |
| `NativeHarness` | a harness behind a pipe | `MCHost`, `HostProof` |
| `Placement` | fit, spill, recommendation, plan | cases of `MCHost` |
| `Migration` | the first start on the first version's data | `MCHost`, `HostProof` |
| `Measure` | the measuring kit | `MCHost`, `HostProof` |

Three MC modules put several components into one run. `MCDesk`, `MCHost` and
`MCAccounts` choose at the start which component a behaviour is about (`part`)
and leave the others' variables at their first values: the components named
there share no variable in these models, so the runs check each of them as if
alone, and a run's states are the sum of theirs, not the product. The pure
algorithms are checked as cases: every input of a bounded set is an initial
state, and the invariant compares the algorithm with what it is for (a text read
back, a share that is fair, a document that equals the value, an address that is
the client's, a placement within the computer).

Components meet in the code through Core's queue and through documents. Where one
acts on what another decided, the deciding one is inside the acting one's
module as a value the world may change: the session behind a call in `Server`
is `Identity`'s, who may edit in `History` and `Harnesses` is `Access`'s, how a
model step ends in `Turns` is `Replies`'.

A definition that begins with `Mutant of` in its comment is a plausible bug: the
action it is named after, with a guard dropped, a reset forgotten or an order
lost. No specification uses it; it shows that a property would notice.

### Turns

`turn` is `core.turns`, `active` is `core.active`, `pending` the approvals,
`run` each person's `core.run`, `inbox` those messages of Core's queue that are
the work of answers, `readers` the threads that read the model. One message of
the queue is handled in several steps of Core's thread, told apart by `pc`; no
other message is taken in between, and only reading threads move, as in the
program. `begin`, `ask_the_model`, `end` and `schedule` are such steps, because
`schedule` loops over the waiting turns and each may call the others; `job` is
the request whose handler has more to do after them (`stop_on_leaving` in
`select_workspace`, `forget` in DeleteConversation).

People's requests are not kept in a queue: one may come whenever Core is idle,
which gives every order in which a queue could hold them. Of a message of the
model, the model keeps only how the step ended, whether there are words to keep,
and how many calls it asks for. A tool call is one step with any outcome:
executed, refused, or waiting for approval.

A chat's content is only how it ends (`lastWord`): ContinueAnswer is allowed
where it ends with a stopped answer.

### History

`commits`, `blobs`, `head` and `redo` are the tables of `dag.rs`; a commit's
place is its id (the code's ids are hashes over content, parent and time). `live`
is what Core's document says, `adrift` a history variable: the documents
whose content in memory no commit holds, because a write asked for none (a drag)
or its commit failed. A write is three steps: the document in memory, the blob,
the commit with the head and the cleared redo stack; between them Core may be
killed (`Restart`) and each transaction may fail. `drop_run` is one step for each
document it takes back. A run is named by the clock, so that two runs begun in
one millisecond are one run, as in the code.

What a document says is a model value. The merge of concurrent changes is not
here: a replica's changes give the document any content (`DocSync`).

### Downloads

`part` is the length of `<file>.part`, in pieces; `file` is what lies under the
file's own name: nothing, a file that is too short, the published one, or another
of the right length. `stamped` are the files whose stamp agrees with
the file that is there now (the code compares length and modification time,
and a change of the file is taken to change one of them). `swapped` is a history
variable: files exchanged between their hash and their stamp. `busy`,
`running`, `stop`, `waiting` are the `Line`; `shown` is what is told of each
model; `fetch` and `scan` are the two threads.

A server may answer with the rest, the whole, 416, an error or nothing, send
any number of pieces (past the end they are counted as one), and drop the
connection. A person may put any content under a bringable file's name, or
take it away, at any moment. `Restart` is a kill at any moment.

Abstractions: every file of the catalog has a published digest; `begin` and the
telling of progress are part of the step they belong to; the digest of a part of
the right length is right or wrong as the world decides, and the file it becomes
is the published one exactly when it passed; a read, a write or a rename that
fails is `FetchBreaks`; a thread that cannot be started is `DownloadFails`.

### Identity

`account`, `link`, `session`, `lock`, `address` are the tables of `identity.rs`,
`script` the writes a request still has to make: each is a transaction of its
own, so that a kill, a failed write or a read by another task falls between two
of them. `sockets` and `calls` are the server's: a socket looks at its session
every `RevalidateEvery`, a call authenticates and acts later. `over` and
`guesses` are history variables: what was ended, and the tries on each
account. Passwords, hashes and tokens are external; a password is right or wrong.

### Access

`workspace`, `document`, `at`, `breakGlass` are Core's memory, `disk` the
database, `unsaved` what a traced failure left unwritten, `answered` what people
were told was done. A document of a harness is registered when it is first
named, again after a restart. `Rooms` bounds a behaviour.

### Engine

`s[e]` is what the supervisor of the e-th start holds: its place in the loop, the
status, the child, its flags and when it was restarted; `core.held` the engine
Core has. Status, child and router are three locks and three steps. A process may
never answer, die at any time, or not fit; `Loads`, `Rooms`, `Window` and
`LoadTimeout` count layers, memory and time in small units. Several models in the
router at once are left out: the code's table is by name and each entry acts as here.

### AuditLog and Trail

A record is known by when it was made, which stands for its hash. The writer
writes a line and its newline apart; a day file may be unreadable. `Trail` has one
variable, what a reader of the files in order sees. `ImplementsTrail` maps it to
the complete records on disk: every step of the writer appends one record with a
higher number or changes nothing, and no kill, failure or new life changes the past.
`Intact` is `verify_dir` said file by file: the lines of a file go on from one
another, and its first one from the last line of the newest file before it that has
any. So it needs no fold over the lines, and can be proved about.

### Manifests and Packages

A version is two numbers, a capability with levels is the set of the levels it
includes. Resolution is recursive in the code and a RECURSIVE operator here.
`disk` holds a whole package or none; a copy that was cut off is none. What the
Library shows is text.

### Replicas

A document is the set of changes it received; a change is seen once those it was
made on top of are there. Automerge's protocol is external: a sync message carries
what the other end is not known to have, and is not sent again until something
changes or is acknowledged. A frame's messages overtake one another, as HTTP
requests do; Core's come in order, and those sent while the socket is down are
lost (`lost`). Init is a board with its first commit.

### Replies

A text is a sequence of tokens, the pieces the code tells apart: words, line ends,
fences, the parts of a call and of other JSON. However the reading ends, what was
held back is passed on. A call is what the engine's pieces say, a call in the
grammar's form, or a block in the text. Time is counted in silences
(`Before` the first word, `Between` two). The repair of a reply that looked like
a call is the second reply. `RepeatedChars` is 1.

### Chats, Prompts, TextFiles

One person; no two chats in one millisecond, so that a chat's id is its age and the
chats of a working set, which the code lists by age, are a set; answers are a set
too, in the order of the messages they answer. The database takes what it is given
(`Access` and `Migration` are where its writes fail). Titles, renames and
summaries are left out. A message in `Prompts` is what it costs: what is read of a
text file is part of the person's words, and a picture counts towards where the
reading begins. `ReadingIsStable` is about the room of a new answer; an answer that is
carried on has less, and begins where that leaves room. Characters in `TextFiles` have
one or two bytes, as Latin and Cyrillic do; the texts that are decoded hold a pair of
Windows-1251 letters that is a character of UTF-8, and those that are cut are long
enough for a line to end in the last tenth.

### Server, Serving, Presence

What Core answers is opaque and carries what it was asked. `call_as`, the pump
and each socket are tasks; a timeout may come before or after the answer. The
death of Core's thread is left out. Addresses in `Serving` have two bits; the
arithmetic is the same at every width. X-Forwarded-For is its lines, each readable
or not. What a client writes there is arbitrary, unreadable bytes and a line of its own
included; a proxy adds the address it was reached from, on the one line it makes of what
is there, or on a line of its own. `AddressIsTheClients` says when that
gives the client's address and what else it may give. In `Presence` no two windows
announce at one instant.

### Gateway, Harnesses, NativeHarness

A host is its labels or its bits. `left` is what left last, with the mode and
approvals of that moment: the request Core made (`asked`), and one to each host its
answer's redirects led to (`Elsewhere`), which the HTTP client follows by itself and no
decision is made about. In `Harnesses` the candidates of `active_set` are a
set, each with its place in the code's list (`line`, `at`), by which `max_by_key`
breaks a tie; the loop that enforces the budget is `Rounds`, as many as there are
candidates, the last ones of which change nothing. The ranking of a search is open
and the two tiers share one model of an instance; in `NativeHarness` the handshake
has been made.

### Boards, Client, Migration, Measure, Placement, Reconciling

Shapes lie on one axis, at fractions of a whole place; a list of ids may name one
twice; a text is empty or some. A document in `Client` is a number, each harness has
one view. In `Reconciling` a document may hold an Automerge text, which a replica
writes and a value written over it always replaces. In `Migration` a document is named
by its harness and a chat is the number of its words. `inset` is Core's working set,
`todo` what this start has still to bring over. Every put may fail; `missed` is a
history variable, the documents and chats no put of which has worked. The database is
always readable, and the chats without a message are left out, because `persist` never
writes one. `Measure` counts no time: a limit may run out wherever the code looks at
it. A write of its results empties the file and then fills it; it may fail at either,
and the kit may be killed between. `Placement` keeps the roundings by counting in
fractions of a MiB.

## 3. What is checked

### Runs that pass

| Run | Bounds | Properties |
|---|---|---|
| `turns` | 2 people, 3 chats, 2 workspaces, 1 slot, 2 answers, 1 tool round, 1 call in a reply | `WorkConserved`, `OneAnswerAtATime`, `ApprovalsAreLive`, `RunIsTheAnswers`; `AnswersEnd` (every answer ends, a stopped one without the model) |
| `history` | 1 person, 2 documents, 2 contents, 3 commits, 2 runs, windows of 2 | `HistoryHolds` (`DagSound`, `LiveIsHead`), `RedoRetraces`; `DropLeavesNone` |
| `downloads` | 2 models in line, or 1 with a file a person brings, or 1 of two files; two tries | `LineServed`, `NoGhosts`, `FilesAreTrue` (`StampsAreTrue`, `FilesAreWhole`, `PartsAreLeftAlone`); `StopIsHeeded` |
| `accounts` | 2 people, 1 address, 2 links, 2 sessions, 1 socket, 1 call, 4 requests or 5 logins; and 2 people, 3 workspaces, 1 harness, 1 file, 1 failed write, 1 restart, 2 changes or 3 visits | `EndedIsOver` (`EndedStaysEnded`, `SocketsFollowSessions`, `LinksWorkOnce`), `GuessesArePaced`, `AccessIsDecided` (`MembersDecide`, `PersonalIsPrivate`, `GlassIsForTheVisit`), `DiskIsAnswered` |
| `engine` | 3 starts, 1 restart in a window of 1, two sizes of memory | `StopWins`; `StartsAreRationed` (`RestartsAreRationed`, `FewerLayersEachStart`), `EngineSettles` (`LoadSettles`, `CrashIsNoticed`) |
| `audit` | 3 records, 2 days, a queue of 2, 2 lives | `ChainTells` (`NoFalseAlarm`, `HolesAreSeen`, `FlushedMeansWritten`); `Lands`, `ImplementsTrail` |
| `packages` | the catalog of `MCPackages`, 2 starts | `LockIsTheSet`; `NoSilentWidening`, `InstalledHoldsTogether` (`OneDeclarer`, `FreshInstallIsComplete`) |
| `replicas` | 3 frames, room for 2, 2 events of people | `SettledIsSame`, `EditsAndUndosStay` (`UndoneStaysUndone`, `EditsAreKept`) |
| `desk` | see `MCDesk` | `WindowIsTrue`, `ChatsAreKept`, `RepliesAreTrue`, `TextsAreRead`; `HeldStays`, `ReadingIsSound` |
| `host` | see `MCHost` | `ServerKeepsApart`, `CompanyIsCurrent`, `NothingLeavesUnasked`, `HarnessesAreHeld`, `MeasuredIsKept`, `ValuesDecide`; `MigrationKeeps` |

A name that stands for several properties is their conjunction; each of them is
defined, and explained, on its own in the component's module. The mutants in
`PROJECT.json` break the parts one by one.

Why the bounds are enough for the cases to happen. Two answers are what it takes
for one to wait behind another, of the same person or for the slot, while it is
stopped, approved or left behind; that safety holds for more of them is proved.
Three commits let one run be between two others, or a person's write be between
two of one run; the windows of 2 (200 and 256 in the code) make commits fall out of
them. A file of two pieces can be resumed in the middle. Four requests make an
account, a link, a session and its end; five logins reach the second, longer
lock. Two changes and two visits shut somebody out of what they are in; three
visits go through a break-glass and away. Three starts of an engine are one that
falls back, one that crashes and one that is not allowed. Two lives and three
records put a hole before, between and after kills. Three frames with room for two
make one that speaks be forgotten; with symmetric frames two events of people
reach every order of an edit and an undo. In `desk` and `host` each limit
(grants, events, budgets, skipped lines, starts) is small enough to be met.

The bounds on behaviours are constants named as such (`MaxTurns`, `MaxCalls`,
`MaxCommits`, `MaxTime`, `MaxStarts`, `MaxRecords`, `MaxLives`, `MaxBoots`,
`MaxEvents`, `Budgets`, `Rooms`, ...) and appear in guards. The proofs hold for
every value of those of `Turns`, `History`, `Downloads`, `Identity`, `Access`,
`Engine`, `AuditLog`, `Replicas`, `Client`, `Chats`, `Gateway`, `Presence`, `Server`,
`Harnesses`, `NativeHarness`, `Measure` and `Migration`.

Deadlock is checked in `turns`, `history` and `downloads`. The other models come
to an end when their bounds are used up and nothing is left to do, and in the
runs with cases a case is a behaviour of one state.

### Fairness

`Turns`: Core's thread runs (`WF` of the steps of a handler under way); a model
step ends (`stream.rs` bounds the silence and the length of every stream); and a
message that waits in the queue is taken at last though requests keep
coming, because the queue is first in, first out: in the model requests come
whenever Core is idle, so this is `SF` of taking the inbox. Nothing is assumed of
people: they may never answer an approval, which is why `AnswersEnd` has
that exception.

`Downloads`: the downloads' thread runs, except where it waits for the network
(`AwaitsNetwork`): the code sets a time limit for connecting and none for an answer or
a read, so nothing is assumed of a connection's next bytes, of what the
server sends, of people or of the other thread. `StopIsHeeded` therefore has one
excuse: a stop is looked at between pieces, and is heeded never on a connection that
stays open and silent for ever.

`Engine`: each supervisor's thread runs and time passes (it looks every so often,
and `load_timeout` is measured). A process need neither answer nor die, and nobody
need ask for anything.

`AuditLog`: the writer's thread runs, and Core's thread finishes the append it
has begun. A write may always fail; a record whose write failed is counted.

### Runs that are violated

Each states a sentence of the repository that the code does not keep.

| Run | The sentence | What the run shows |
|---|---|---|
| `turns_acts_as_caller` | `handle_as`: "the per-user state becomes theirs, every check is made as them" | SelectWorkspace ends the caller's answers; ending one starts the next person's, whose state becomes Core's; the rest of the request moves that person. |
| `history_rejected_stays_out` | proto `Commit`: "rejecting them is a branch drop" | Dropping a run puts the head back to the parent of its first commit, also when that parent was itself dropped: rejected changes come back. |

### Other sentences the code does not keep

TLC refutes these too. Each is a definition in its module, under the heading "what
the program says of itself, and does not always do" or next to the property that
has to leave the case out; to see the counterexample, give it to TLC in place of
the properties of the component's run. A property named "without" something is the
checked one with that exception taken out of it.

| Definition | The sentence | What happens |
|---|---|---|
| `Turns!SlotsRespected` | `turns.rs`:13 "as many people at once as the engine has slots" | `resume` (`agent.rs`:318) sets an approved turn Writing without asking whether its slot is still free. |
| `Turns!ModelIsTaken` | proto `lib.rs`:721 "every answer it can write at once is taken" | Nobody schedules when an answer begins to await an approval (`agent.rs`:1250): the slot stays free and the others wait (with `MaxTurns = 3`). |
| `Downloads!FetchFileEnds` | `models.rs`:1691 "nothing here may download the same file for ever" | A server that answers 200 each time and drops before the end makes progress each time. |
| `Downloads!InstalledIsPublished` | `models.rs`:709 "a file is the model's only once its SHA-256 has been found to be the published one" | A file exchanged between hash and stamp is stamped. |
| `Access!TighteningHolds` | `acl.rs`:273 "capped by the document's own tightening when it has one" | After a restart the first request that names the harness registers its document again without the tightening (`lib.rs`:1031); the larger record of `SomeRooms`, with two changes and three visits, shows it. |
| `Engine!StopIsAStop` | `engine.rs`:624 "A crash restarts it, a few times; a stop is a stop" | After a crash the supervisor sets the status to Loading and puts the new child in place without looking for a stop (`engine.rs`:654). |
| `Packages!InstallIsComplete` | `lib.rs`:1483 "Install what `manifest` depends on and is not installed yet" | For an update `resolve` takes the installed version as the root (`deps.rs`:113) and resolves the old dependencies. |
| `Replies!NoCallIsKept` | `agent.rs`:1122 "Never a third try, never the call's text shown" | A repaired reply with two calls shows and keeps the second's text. |
| `Reconciling!ReconcilesExactly` without `SameTexts` | `docs/HARNESS-AUTHORING.md`:195 "writing the same document back costs nothing" | An Automerge text, which a replica may have written, is replaced by any string, the very words it said included, and that is counted and committed as a change (`docs.rs`:376). |
| `Boards!HeldStays` without the rounding, or without `NamedOnce` | `harnesses/whiteboard-logic/src/lib.rs`:577 "the two outermost, which stay where they are" | All that are unlocked are put at whole places (line 612), the outermost too; with an id named twice, one of the outermost moves into the row. |
| `Measure!MeasuredIsKept` without `written = "well"` | `crates/localspace-cli/src/measure.rs`:992 "so that a run stopped from outside (a heat or memory stop) keeps what it had" | `std::fs::write` empties the file first: a stop between that and the filling leaves none of the items before (line 1001). |
| `Serving!AddressIsTheClients` without its exceptions | server `net.rs`:2 "Behind a trusted proxy the client is the rightmost `X-Forwarded-For` hop that is not itself a trusted proxy" | Only the first line of the header is read, and one byte that is not visible ASCII makes it absent (`auth.rs`:70): the address is then the proxy's, or one the client wrote. |
| `Migration!MigrationKeeps` without `missed` | `lib.rs`:1329 "conversations move from `conversations.json` into the database" | A put of a chat (`conversations.rs`:92) or of a document's record (`lib.rs`:1321) that failed is a warning or nothing; the legacy file is renamed and the version written all the same, so that chat or document is not asked for again. |
| `Gateway!NothingLeavesUnasked` without `asked` | `docs/localspace-harness-plugin-spec.md`:293 "It enforces: domain allowlist/blocklist"; `docs/STATUS.md`:32 "only for hosts in its own allowlist" | The client follows redirects by itself (`gateway.rs`:157 and 219 set a time limit only), to hosts no list was asked about. |
| `Gateway!NothingLeavesAirgapped` | `docs/localspace-harness-plugin-spec.md`:276 "`airgapped` \| No egress at all." | The endpoint of a selected model is checked when it is selected (`lib.rs`:4875) and not when the mode changes. |

Smaller ones, read from the code while modelling and in no property: an answer for
a surface is filed under the view asked for last (client `lib.rs`:254); of an item
of several messages the measuring kit keeps only the whole (`measure.rs`:756, the
comment at 738 says "every answer that came"); `GetWidgetView` and the context
blocks read a document without `access.check` (`acl.rs`:3 says no path bypasses
it); a session that ended is over for an open socket only when it next looks, up to
30 s later (server `auth.rs`:5 says "at the next request"); a replica that missed an undo
sends the undone change back to a Core that restarted since (`docs.rs`:188); a
web search is neither asked for nor logged as a fetch is; a planning card made after
a deletion may get the id of one that exists (`c{len + 1}`).

## 4. What is proved

The constants are arbitrary sets and numbers that satisfy the `ASSUME`s of the
component modules. Every theorem is checked by TLAPS to the last leaf.

**Turns** (`TurnsProof`). The inductive invariant `IInv` is the five checked
properties with what they need of each other. `WorkConserved` leaves out the turn
in Core's hands, so the proof says where that one is at every `pc`; an
approval is live only between requests, so the proof says which person's approvals
are stale while a workspace is left or a chat deleted, and that `job` ends
exactly those turns. `readers` and `inbox` are counted through
`Queued`/`QueuedOnce`, with lemmas on what `Append` and `Tail` do to them.
Then one lemma for each action, and five theorems: `TypeCorrect`,
`WorkIsConserved`, `AnswersStandInLine`, `ApprovalsStayLive`, `RunsFollowAnswers`.

**History** (`HistoryProof`). `IInv` is `TypeOK`, `DagSound`, `RedoRetraces`, what
holds of the task in hand (a commit's blob is there by the time of its second
transaction; where a drop has been, the head is older than every commit of the
run) and
`LiveFollows`, the form of `LiveIsHead` that also holds in the middle of a
request. `DropLeavesNone` is an action property: a set that holds the new
head and is closed under parents is exhibited, the commits older than the
run's first; the branch, the least such set, is inside it.

**Downloads** (`DownloadsProof`). `IInv` has two halves, and most steps touch only
one. `Control` is `LineServed`, `NoGhosts` and what the threads are at: the
downloads' thread has the last files of the running model in hand (`InHand`), so
that a deletion of another model is never of its part; the other thread looks at
a file of the model it shows (`Looking`). `Folder` is the properties of the files
and `AboutToStamp`: between hash and stamp a file is the published one, is gone,
or was exchanged. All steps of the downloads' thread that only go on, or end,
are one step as far as `Control` can tell (`FetchStep`), which keeps the proof
at one argument for all of them.

**Identity** (`AccountsProof`): `EndedIsOver`, `GuessesArePaced`. A request writes several records,
one transaction each, and may be cut off between any two; so what the tables say
is inductive only together with what the request under way still means to write.
`ScriptOK` says that of `script`: before an answer that tells of ended sessions
stand the writes that end them, whoever's they are (`Promised`); a password under a
link is that link's first, and is written when the link is already spent or, for
the first administrator, while there is no account (`Passworded`); a write to a
record that is there keeps whose it is (`WriteOK`). `OverOK`, `SocketsOK` and
`CallsOK` tie what ended, what a socket last looked at and what a call was
admitted by to the tables and the clock. From `IdentityAssumption`: the first
administrator's link is nobody's, limits and bounds are numbers. Guessing has an
invariant of its own, `PaceInv`: the tries on an account since its last success took
at least the locks they ran into, and a lock a request still means to write is the
one its tries call for. How long n tries take is a sum of powers of two, of which
the proof needs how it grows from one try to the next; that is an induction over
numbers, made with the least counterexample (`WFMin` of the library), which takes
a set and no operator.

**Access** (`AccountsProof`): `AccessIsDecided`, `DiskIsAnswered`. The check looks at
memory and a restart fills memory from the disk, while the properties speak of
what was answered. `AccessInv` ties both copies to the answers, each but for what
a failed write left out, and says of both that nobody but its owner is in a
personal workspace and that a document that is known has a workspace. All
requests that change a workspace are one step (`SetWorkspaceInv`), all that change
a document another (`DocumentInv`).

**Engine** (`EngineProof`): `StopWins` and the action property `StartsAreRationed`.
`StopWins` excepts an engine whose process crashed and was started again (that case is
`StopIsAStop`, which is refuted), and says nothing of the status that is shown.
A stop takes the status, the process and the router one after the other, and the
supervisor goes on between them. `EngineInv` says what a supervisor that is being
stopped, or was let go of, can still be about (`Quiet`): it will see the stop
before it starts a process, or it is in its watch, from which only a crash leads
back to a start; and whoever is past a crash has it on record (`Rationed`).

**AuditLog** (`AuditLogProof`): `ChainTells`. Two arguments meet in `AuditInv`.
Every record is on disk, counted, lost to a kill, or still on its way (`Found`,
`Pending`). What is on its way is of this start, in order and behind everything on
disk (`Flight`), and as long as nothing failed it goes on from the last record on
disk (`Flow`). So the record that is written next is the one whose `prev` is the
last on disk (`GoesOn`): the one before it in its start is accounted for, cannot
be on its way behind it, and has not failed. That the writer is in the newest file
(`Folder`) makes the last line of that file the last record (`ChainGrows`), and so
needs the floor that keeps the writer out of older files when the clock goes back.
`HolesAreSeen` goes back from a later record to the hole, one predecessor at a time,
by the least number on disk above the hole. `PutIs` says once what a write does to
a file, on a line of its own or behind one without a newline.

`LogImplementsTrail` is the refinement: `Recs`, the records of all files in the
order they are read, is `Trail`'s list. A write adds to the newest file and every
later one is empty, so what is read goes on from what was read (`ReadOn`, with
lemmas on what `FlattenSeq` makes of the lists of the files); `Numbers` makes the
added record's number higher than every one on disk; every other step of Core, the
writer, a kill or a new day stutters.

**Gateway, Presence, Server** (`HostProof`). `NothingLeavesUnasked` is about what Core
itself asks for, and says of a redirect only that such a request led to it; it needs
that the mode stays under the ceiling. `CompanyIsCurrent` needs only types: each
announcement and each sweep tells everybody whose board it changed. For
`ServerKeepsApart` the invariant follows an answer from its number in Core's
queue to the caller that waits for it (numbers are used once and are smaller than
the next), each event from Core's queue through the person's stream to the
sockets, as increasing numbers with a mark where one fell behind, and each grant
back to the call that opened the view. Their constants are assumed to be `ModesAreSet`
(the first mode is not above the ceiling; `settings.rs` sets both together),
`PlacesAreReal` (the value for a board that was left is no place) and `ServerIsSet`
(limits are numbers, at least one grant may be open, and who opens a view is a
person and the view a harness's).

**Measure, Migration** (`HostProof`). `KitInv` says where the kit is in its passes:
the progress it would write is exactly the items and steps behind it (`KitBehind`,
`KitWithin`), the file has all of it while the last write went well, and what it asked
last is the only thing being written, but for one that would not stop. Assumed is
`KitAsks` (passes are lists of items, each of at least one message). `MoveInv` says how
far an interrupted first start got: what is behind is recorded and in the database, or
is `missed`; what is recorded stands for its old document; a chat's words in the
database are at most those in the working set, which is why bringing over or writing
takes none back; and what is shown of a harness is its own document. Assumed is
`KindsApart` (documents and chats are named apart). The second conjunct of
`MigrationKeeps` is an action property and follows from the same invariant.

**Harnesses, NativeHarness** (`HostProof`): `HarnessesAreHeld`. That the tools on offer
are honest is a fact about the loop, in any state. The candidates are finitely many
(`CandidatesFinite`), so the lowest-ranked of them exists (`MostFacts`); a round keeps
`FairlyCut` and takes a candidate away unless the loop is done (`ShrunkFairly`); so
after n rounds it is done or n candidates are gone (`RoundsAreFair`), by induction over
a set of numbers, once the recursive function is known to exist (`RepeatsForever`). Only
the comparison of the total with the budget matters, so the sum stays closed. For the
calls, `CallsInv` says that an instance between two runs holds no artifact, and what it
still has in its output is thrown away by the next run's beginning; so only a call or
an event writes, with what it put itself. `PipeInv` is types and the property. Assumed is
`PackagesAreSound` (tool lists are lists of declarations, ids are not `core`).

**Replicas** (`ViewsProof`): `SettledIsSame`, `EditsAndUndosStay`. What one end of a
sync session believes of the other is never more than the other has (`CoreEnd`,
`FrameEnd`, `Honest`), and a frame that lost nothing and shows something else than
Core has a message to come, or told Core all it has and was not heard yet (`Knows`).
That is `SyncInv`; the history needs `HistoryInv`: until Core restarts its document
holds whatever a commit does, so what was undone stays undone, since the change
that takes it away is among what every frame is sent. A document is whole: a change
is there only with the ground it stands on (`GoodDoc`). Assumed is `ReplicaBounds`.

**Client** (`ViewsProof`): `WindowIsTrue`. `WindowInv` says of a surface that runs and
was not refused that it is asked for, or Core is about to tell of a change, or an
answer with Core's document is on its way, or it holds that document (`Follows`). Ids
rise along the wire, in both directions (`IdsOK`), so the answer that is applied last
is the newest. `WriteOK` follows an edit from the surface to the answer of its save.

**Chats** (`ViewsProof`): `ChatsAreKept`. A chat is on screen, in Core's working set and
in the database, and an answer is written into whichever of them are there. `ChatsInv`
says what joins them: the working set is what is saved of its workspace plus at most
chats without a message (`SetOK`); ids are below the clock, so a new chat was given
nothing; whatever was given anything is saved, in one workspace, in full (`SavedOK`);
and the chat of every answer under way is saved in the workspace the answer is of
(`AnswersOK`), which is what makes writing to the database alone sound. Assumed is
`ChatBounds` (the first workspace is one of them, limits are numbers).

### Only model-checked

* Liveness (`AnswersEnd`, `StopIsHeeded`, `EngineSettles`, `Lands`) is beyond the
  prover, as is anything that needs `ENABLED`.
* `LockIsTheSet`, `NoSilentWidening`, `InstalledHoldsTogether` and part of
  `TextsAreRead`: `Manifests`, `Packages` and `Reconciling` use RECURSIVE operators,
  about which TLAPS proves nothing.
* `ValuesDecide` and the cases in `TextsAreRead` compare algorithms with references
  over bounded inputs.
* `HeldStays` and `ReadingIsSound`: what is moved and read is made by filters, sorts
  and folds that take an operator (`SelectSeq`, `SortSeq`, `FoldLeft`), of which the
  provers know nothing but their definitions by recursion, and the properties are
  about what comes out of them.
* `RepliesAreTrue`: what is held back and shown is decided by recursive functions over
  the whole text, and what they compute for every text is an induction over data.
* The violated properties are counterexamples of TLC's.

## 5. What is not modelled

Text: prompts, wording, titles, formats on the wire, layout. The WASM runtime,
redb, Automerge and llama.cpp are external; the models hold what the code relies
on. The components without a module are listed in `PROJECT.json` with the reason.

## 6. Plan

Done: the components in the table of section 2, and the theorems of section 4. The
order was what loses a person's work first (`Turns`, `History`), then what other
threads and the disk do (`Downloads`, `AuditLog`, `Engine`), then who may do what
(`Identity`, `Access`, `Gateway`, `Server`, `Presence`).

Left, in this order:

1. `RepliesAreTrue`, by functions on positions in place of functions on texts.
2. `AnswerLine`, a queue for each person with at most one answer at its head being
   written, as the abstract specification that `Turns` implements step by step.
