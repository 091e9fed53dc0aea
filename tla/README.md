# A model of the WhatsApp ticket bot

TLA+ modules, TLC configurations and TLAPS proofs for the bot in `src/`: workers
of an accounting firm forward their clients' messages to a WhatsApp number, the
bot groups the messages of a phone into a block, asks for the client and the
priority, and files one ticket in the ticket system.

## 1. The system

| Component | Code | State | Operations |
|---|---|---|---|
| Webhook intake | `api/routes/webhook.py` | table `raw_messages`; per request: the payload, the background tasks it gathered | `receive_webhook`, `_handle_messages`, `_process_message` |
| Message buffer | `api/services/buffer/message_buffer.py` | Redis: list, marker and lock of a phone, each with a TTL; a watcher task | `push_message`, `spawn_watcher_if_needed`, `_watch`, `recover_watchers` |
| Sessions and timeouts | `api/services/buffer/session.py` | Redis: session with a TTL, a lock per step; timeout watchers | `start_session`, `clear_session`, `spawn_timeout_watcher`, `_watch`, `recover_watchers` |
| Orchestrator | `api/services/conversation/orchestrator.py` | none of its own: each handler reads the session, awaits, writes it | `handle_incoming_message`, `handle_interactive_reply`, `on_buffer_close`, `_handle_client_reply`, `_ask_priority`, `_finish`, timeouts |
| Title, entities, description | `api/services/llm/`, `conversation/description.py` | none | `extract_title`, `validate_entities`, `fallback_title`, `build_description`: functions of texts |
| Whitelist synchronisation | `api/services/ticket_system/sync.py` | table `workers` | `worker_sync_loop`, `upsert_workers` |
| Lookup and bookkeeping | `api/services/conversation/deps.py` | tables `workers`, `ticket_creations`, `raw_messages` | `lookup_active_worker_by_phone`, `record_ticket_creation` |
| Lifespan | `api/main.py` | the tasks of the process | recovery at start, cancellation at stop |
| Ticket system, Meta, LLM clients | `api/services/{ticket_system,meta,llm}/` | none | calls that succeed, fail, or succeed without an answer |
| Smoke test | `scripts/smoke_test.py` | the `.env`, its backup, the container of the sink, the environment of the bot's container | `setup`, `run`, `teardown`, `all` |
| Meta sink | `scripts/meta_sink.py` | the list of what it received | append, read, reset |
| Alerts, settings, signature, migrations | the rest | none that behaviour depends on | |

**How they interact.** Meta delivers a payload to the webhook, which stores each
message of a whitelisted worker, answers 200 and hands the messages one by one to
the orchestrator. A text goes to the buffer unless it answers the question "which
client?". When a phone has been silent for `buffer_ttl_seconds` the watcher of the
buffer empties the list into `on_buffer_close`, which asks the LLM for a title and
opens a session (step *client*) and a timeout watcher. The answer, or the timeout,
moves the session to the step *priority* with a watcher of its own; the next answer
or timeout files the ticket, clears the session and writes `ticket_creations`,
linking the `raw_messages` of the block to it. The whitelist is pulled by a loop
beside all this. Everything runs in one event loop: handlers interleave at every
`await`, and what they share is in Redis and Postgres. The smoke test is an
operator's script that repoints a deployed bot to a fake Meta and puts it back.

**What is hard.** Locks are Redis keys with a TTL that nobody renews and that
`finally` deletes without checking the owner. A task reads a key, awaits and acts
on what it read. Timers recognise their session by its step only. A kill leaves
the keys, a graceful stop cancels the tasks. Any call may fail, and a failed call
may have had its effect. Meta retries, and at once. The smoke test rewrites the
configuration of a running bot and may be cut between any two of its writes.
`PROJECT.json` lists these hazards at their lines.

**What makes each component correct.**

- *Buffer*: one watcher per phone; every message is handed over, once; not before
  a whole quiet window; the list does not expire under its watcher.
- *Sessions*: a question has a deadline, neither missing nor early; the session is
  still there when its watcher wakes up.
- *Orchestrator*: a block becomes one ticket, with the client and the priority
  that were chosen for it; its session is kept until then; every attempt leaves a
  row.
- *Webhook*: a message enters the conversation once, whatever Meta repeats; a 200
  means that it is stored; what is skipped as processed was processed.
- *The whole way*: a text that is stored gets into a block with a session or
  answers the question for the client, or it can be said why not.
- *Texts*: a datum of the LLM reaches the ticket exactly if the worker wrote it; a
  block always has a title; the question fits what Meta accepts; a description can
  be rebuilt from what the database keeps.
- *Whitelist*: a cycle that succeeds reconciles the table; lost cycles heal.
- *Smoke test*: the operator's configuration survives however the script is cut and
  repeated; a teardown that ends well has put it back, at least if none was cut
  before it; no secret is taken from a running bot.

## 2. The modules

| Module | Models | State |
|---|---|---|
| `MessageBuffer` | the buffer of one phone | three keys with TTLs, senders, watchers |
| `Debounce` | abstract: messages wait, and leave together, for `on_close` only | implemented by `MessageBuffer` |
| `ConversationFlow` | orchestrator, sessions and timeouts of one phone | the session, two locks, one task per input and per timer |
| `Dialogue` | abstract: one block at a time, client, priority, one ticket, let go | implemented by `ConversationFlow` |
| `WebhookIntake` | deliveries, `raw_messages`, background tasks | requests and what Meta knows |
| `Pipeline` | `WebhookIntake` and `MessageBuffer` together, up to the open session | theirs, the text each request pushes or searches for, whether the client is asked for, what was opened and what was lost |
| `TicketText` | title, entities, fallback, description | none: operators on texts |
| `Extraction` | a block from its texts to its ticket and its record | rows and links, session, options, log, tickets, the attempts under way |
| `WorkerSync` | roster, table `workers`, the poll, the lookup | roster, rows, the cycle |
| `SmokeDeployment` | the commands of the smoke test | `.env`, backup, sink, bot, the step of the script |
| `MC…` | the instances that TLC checks | |
| `…Proofs` | the theorems of the module they are named after; `DialogueProofs` those of `ConversationFlow` with a patient worker | |

Phones share no key and no task, so one phone is modelled. In the modules of the
bot an action is the code between two awaits; a task's program counter `pc` names
the await it is at. A lock, marker, list or session is the number of ticks its key
has left, 0 when it is not there (the session is then `NoSession`).

**MessageBuffer.** `RPush`, `Expire`, `SetMarker`, `SpawnWatcher` are the four
commands of a push and the `SET NX EX` after it. `SleepAgain` and `WindowClosed`
are the loop of `_watch` (the marker's TTL read again after each sleep), `LRange`,
`DeleteAndHandOver`, `FinishClose` its end, `Release` the `finally`. `Crash`
leaves the keys, `Stop` runs the `finally` of the cancelled tasks, `Restart` is
`recover_watchers`.

**ConversationFlow.** Each input of the worker and each timeout watcher is a task.
`Step` and `Call` say where it goes: a Redis command is due at once, a call to the
outside takes up to `CallTicks`. `AskPriority`, `Finish` and `OnTimeout` are the
parts of the orchestrator that several handlers share. The debounce buffer is here
only its window of `BufferTTL`; a text that arrives in an open window joins its
block. `_finish` is taken await by await: the POST (`CreateTicket`), then either
`clear_session`, the row and the message (`ClearSession`, `Report`, `Tell`) or the
row, the refreshed session, the excuse and the buttons again (`LogFailed`,
`RefreshSession`, `Excuse`, `SendQuestion`). `filed` counts the tickets that exist
for a block, `rows` the rows of each status that `ticket_creations` has of it; the
table refuses ids of the wrong kind (`Fits`), and the code swallows that. `chosen`
remembers which replies the worker gave to which block, `tried` how many attempts
with ids that fit were made. `StartupFails` is `on_timeout` raising inside
`lifespan`.

**WebhookIntake.** One request is one task: `SelectExisting`, `LookupWorker`,
`StoreAndSchedule` per message, then `Answer` and, after it, `Process` for each
background task. `Fails` is any exception: 500, and the gathered tasks are never
run.

**Pipeline.** `W == INSTANCE WebhookIntake` and `B == INSTANCE MessageBuffer` share
the messages: `BeginTask` begins a background task and reads the session, as
`handle_incoming_message` does. While the session awaits the client the text goes
to `HandleClientReply` (`reply`), which reads the session again; else `B!Push` runs,
command by command (`task`). The next task of the request waits for either. What is
no text, or blank, ends there; a message is known here by its kind only, so which
it is is left open. In `on_buffer_close` `OpenSession` writes the session, over any
other, and `CloseBlock` is its end, after that or instead of it. `MoveOn` stands for
all that `ConversationFlow` does to an asking session. `PushFails`, `ReplyFails`, a
failing close and `Crash` are faults of the composition; a kill hits the requests,
the tasks and the watchers at once. The ghost `taken` has the messages that are no
part of a block, `lost` the cause by which another will not reach a session: its
request failed (`request`), its task or one before it did (`task`), the session
moved on between the two readings (`moved`), it was pushed between `LRANGE` and
`DELETE` (`race`), its list ran out (`expired`), its block was dropped (`close`),
the process died with it (`crash`).

**TicketText.** A text is a sequence over an alphabet with one character of each
kind the code tells apart: upper and lower case, a letter with an accent, an accent
by itself, a superscript, blank, newline, ellipsis. `Normalize` makes each
character plain (casefold, then what NFKD and the removal of combining marks leave
of it), collapses the blanks, those that were accents included, and strips.

**Extraction.** Here the data counts, and up to the question for the priority a
handler is one action: the row with the body as it came, the body stripped and a
blank one dropped on its way to the buffer, the title and the entities of the
block, the options of a search cut to `MAX_CLIENT_MATCHES`. `_finish` is taken
apart, since two runs of it may have the same session in hand: an attempt is a task
with its own copy of the session (`work`), which goes through `Begin`, `Created` or
`CreationFails` (with or without a ticket), `ClearSession`, `Record` (the row of
`ticket_creations` and the links, in one commit) and `RefreshSession`, with
anything in between, a kill included. The ghost `rivals` has the attempts that ran
while another did.

**WorkerSync.** A phone is the pair of what precedes its last ten digits and those
digits; rows are unique by the pair and compared by the second half. A cycle is
`ListWorkers` then `UpsertWorkers` (one transaction), either of which may fail.

**SmokeDeployment.** The operator runs commands one after the other. Each action
writes one file or runs one docker command; `Interrupt` (Ctrl-C, which runs the
`finally` of `all` only from its checks) and `Kill` may come before any of them. A
variable of the `.env` is empty, the operator's own or made by the script. `cut`
remembers where a teardown was broken off.

## 3. The runs

Passing:

| Run | Shows |
|---|---|
| `Buffer` | three messages, any timing, kills and graceful stops at any step: until a watcher has outlived its lock there is one watcher and no double hand-over (`ExclusiveWatcher`, `NoDoubleHandover`); a block is never cut before a quiet window (`DebounceRespected`) |
| `BufferQuiet` | nobody writes while a block is being closed, no restart: the list outlives the watcher's sleep (`MarginCovers`), each message is handed over (`HandedOver`), and the refinement `IsDebounce` |
| `Flow` | any worker, every fault but a lost log row, one kill or stop at any step, then perhaps a start that fails: `SessionOutlivesTimer`; until the process goes down every attempt whose ids the table accepts has a row of its own (`AuditTrail`) |
| `FlowPatient` | a patient worker, failing lookups, searches, sends and log rows: `QuestionIsTimed`, `TimeoutNotEarly`, `ClientChosenForBlock`, `IdsKeepTheirKind`, `EveryBlockFiled`, and the refinement `IsDialogue` |
| `Webhook` | repeated and simultaneous deliveries, two failures of any kind, one kill: `ProcessedOnce`, `AckedIsStored`, `EveryMessageHandled` |
| `Pipeline` | a payload of two messages, delivered twice at once, one failure, one kill, and a session that may ask for the client meanwhile: a stored message is on its way, in a block with a session, no part of a block, or was lost for a cause that `lost` names (`Accounted`); the webhook pushes each message from one place only, as the buffer presumes (`PushedByOne`); a calm system knows two of the seven causes (`CalmLosesNothing`) and brings every other message to its end (`EndToEnd`); none hangs for ever (`Settled`) |
| `Extraction` | two messages in any order, every way a datum may differ from what was written, 0 to 10 clients, two attempts at the ticket, overlapping or not, that fail, lose their answer or their row or are killed between any two awaits: `OnlyWritten`, `Titled`, `Offered`, `Reconstructible` |
| `Sync` | failing cycles, a changing roster: `CycleReconciles`, `SelfHealing` |
| `Smoke` | three commands in any order, two failures, interruptions or kills, from any `.env`: `OriginalKept`, `TeardownReverts`, `SecretsStay` |

Violated by the code (each is a finding in `PROJECT.json`):

| Run | The statement | What happens |
|---|---|---|
| `BufferOrphan` | `message_buffer.py:54`: a watcher is running for the phone | a message that arrives during `on_close` finds the lock held and stays unwatched |
| `FlowTwoTickets` | a block becomes one ticket | two taps on the priority while the ticket is being created |
| `WebhookSkipped` | `webhook.py:123`: what is there was processed | the second message of a payload fails, the background task of the first is dropped, the retry skips it |

### What the same modules show with other bounds

More that the code does against its documents or its purpose; each is a behaviour
of the module of its component that no run of the list repeats:

- *Restart.* `main.py:43` raises watchers again, but the lock of the killed watcher
  is still in Redis and blocks it, in the buffer and for a timeout; a recovered
  buffer watcher may sleep longer than its list lives.
- *Two blocks.* A block that closes while the priority of the previous one is open
  overwrites its session, whose ticket is then never filed. A late tap on an old
  client list assigns that client to the open block, or posts its id as the priority,
  and then the insert into `ticket_creations` fails unseen; the watcher of an earlier
  question fires early on the next one; a question asked while an old watcher of its
  step is ending has no watcher.
- *Filing.* A session expires after a creation that failed at the timeout; a kill
  between the creation and `clear_session` files the block twice.
- *Locks.* Two watchers after a lock lapsed; a message pushed between `LRANGE` and
  `DELETE` is dropped.
- *Whitelist.* `sync.py:8` says the poll heals itself; a reformatted number leaves
  an active row that no cycle reaches.
- *Smoke test.* `scripts/README.md:35` recommends `all --skip-flow`; `setup` has
  then repointed the bot to the sink, which the preflight of `run --skip-flow`
  refuses.

What the passing runs taught, beside their properties:

- *A text that answers no question any more* (the cause `moved`): the session is
  read twice (`orchestrator.py:99` and `164`), and when a tap or the timeout moves it
  on in between the text is neither searched for nor buffered. And a text that comes
  right after its block was closed is a search, not the beginning of the next block.
- *No fault needed to lose a stored message* (the cause `request`): of two
  simultaneous deliveries of a payload of two messages, the first stores one, the
  second skips it and stores the other, on whose unique key the first then fails;
  with its 500 go its background tasks, and the retry skips both messages.
- *A list without TTL* (`Settled`'s exception): a kill between `RPUSH` and `EXPIRE`
  leaves a list that no key marks; it waits for the phone's next message.
- *The verbatim rule* (`OnlyWritten`) is about characters: `102` passes for what
  was written `10²`; a number cut out of a longer one passes, and so does one
  joined across two messages by a newline read as a blank; a value of nothing but
  an accent normalises to the empty text and always passes.
- *Links move*: a retry links the rows to the new attempt, so a failed row can no
  longer be rebuilt; of two attempts at once, a second tap while the first ticket is
  being filed, neither can the created row that was written first (the exception of
  `Reconstructible`; `orm.py:85` knows of none). The order of the texts is not kept;
  a session without worker leaves no row at all.
- *Limits* (`Offered`): the number of options is cut to what Meta accepts; the
  length of a client's name (`orchestrator.py:179`) is not.

### Bounds and why they are enough

Times are scaled: a tick is about 15 s, so `BufferTTL` 3, `StepTimeout` 4, `Margin` 2,
`LockSlack` 1, `CallTicks` 1 keep the order of the code's 45, 60, 30 and 5 s, and of
calls that are cut at 10 s, at 15 s that of the LLM. What matters is that slack <
margin < window and that a call may last longer than the slack: every race of the
locks is between those. `Pipeline` takes 2, 1 and 1, which keeps only margin < window:
what it checks does not depend on the slack. Three messages are enough for a window
that is prolonged, a message during the close and a watcher that reads it; three
inputs for a block, its answer and one input too many, or for two blocks in conflict.
Watcher and timer names are enough for as many as can be alive at once, so no spawn is
ever blocked for want of a name; `Pipeline`, with two messages, needs two. `Flow` has
one priority: which one is tapped makes no difference to what it checks, and a
client's id in its place is there. Its `VIEW` leaves out the count of tickets and the
replies given, which no action reads and its invariants mention only for their type. A payload of two is the smallest that has a task
behind another; two requests the least that are simultaneous.

`Extraction` has two texts, because a datum may lie in one or across both, and
cuts titles at three characters, shorter than some blocks and longer than others;
`Matches` has the values around three buttons and ten rows, and two attempts are
one that fails and its retry, or two at once. `Smoke` runs three
commands, enough for a set-up, a second one over its backup and a teardown, and
two faults, one for a teardown that is cut and one for its repetition.
`MaxDowns`, `MaxCrashes`, `MaxFaults`, `MaxChanges`, `MaxCommands` and
`Attempts` bound only how often the environment misbehaves or acts.
`CHECK_DEADLOCK FALSE` stands in `Smoke` and `Extraction` only: the operator may
have had enough of the script, the worker of writing.

### Assumptions on time

A Redis command is instantaneous: `Tick` waits for every command that is due, and
for every sleep or call that has run out. So a watcher wakes on time to the tick,
and a call to the outside takes at most `CallTicks`. This is the event loop of a
process that is not starved; the margins of the code presuppose the same.

### Fairness

`FairSpec` of `MessageBuffer`, `ConversationFlow` and `Pipeline`: time passes and
every task that is due goes on (the event loop), a stopped process is started again
(`docker-compose.prod.yml:22`, `restart: unless-stopped`). The worker need never
write, and in `Pipeline` Meta need never deliver and a session need never move on.
`WebhookIntake`: requests are served to the end and Meta retries what has no 200; the
strong form there only says that a name for a request is free at some such time.
`WorkerSync`: the loop never dies, and a cycle tried for ever succeeds some day.
`Smoke` and `Extraction` claim no liveness and assume none.

### Restrictions of the environment

`QuietClose` (`BufferQuiet`), the *patient* worker (`FlowPatient`) and `Calm`
(`CalmLosesNothing`, `EndToEnd`) restrict the environment, not the bot, and are
needed: without them the properties fail, as the violated runs and the list above
show. A patient worker waits until the bot is done with the previous input, leaves no
answer for the last moment, answers only the open question and starts a block only
when no question is open and no watcher of an earlier one is asleep. `Calm`: no fault,
no kill, nothing pushed while a block is being closed. `SelfHealing` is checked with
numbers always written one way.

## 4. The proofs

Every theorem is about `Spec`, without fairness, for every value of the constants
that satisfies the module's `ASSUME` (`BufferAssumption`, `FlowAssumption`,
`IntakeAssumption`, `SyncAssumption`, `PipelineAssumption`, `SmokeAssumption`,
`TextAssumption`, `ExtractionAssumption`: positive times, disjoint names, known
faults, and for a session that an older version left that it lacks `worker_id`).
The bounds on faults, kills, commands, changes and attempts are constants too, so
they bound nothing in a theorem; the texts are of any length over the alphabet.
`TypeCorrect` is proved for each of the seven modules.

| Theorem | Says | Beyond the module's assumption |
|---|---|---|
| `MessageBufferProofs!Exclusive` | `ExclusiveWatcher` | none |
| `MessageBufferProofs!HandedOverOnce` | `NoDoubleHandover` | none |
| `MessageBufferProofs!MarginAlwaysCovers` | `MarginCovers` | `Restarts = {}`: a recovered watcher may sleep longer than the list lives |
| `MessageBufferProofs!WindowIsQuiet` | `DebounceRespected` | none |
| `MessageBufferProofs!Implements` | `IsDebounce` | `QuietClose`, `Restarts = {}`: else a message is deleted unread, or its list runs out |
| `ConversationFlowProofs!OutlivesTimer` | `SessionOutlivesTimer` | none |
| `ConversationFlowProofs!EveryTicketRecorded` | `AuditTrail` (attempts whose ids fit, until the process goes down) | `"log" \notin Faults`: the code swallows a row that fails |
| `DialogueProofs!EveryQuestionTimed` | `QuestionIsTimed` | `Favourable`, below |
| `DialogueProofs!ClientIsChosen` | `ClientChosenForBlock` | `Favourable` |
| `DialogueProofs!KindsAreKept` | `IdsKeepTheirKind` | `Favourable` |
| `DialogueProofs!NeverEarly` | `TimeoutNotEarly` | `Favourable` |
| `DialogueProofs!ImplementsDialogue` | `IsDialogue` | `Favourable` |
| `WebhookIntakeProofs!NeverTwice` | `ProcessedOnce` | none |
| `WebhookIntakeProofs!NothingAckedUnstored` | `AckedIsStored` | none |
| `PipelineProofs!NothingVanishes` | `Accounted` | none |
| `PipelineProofs!OnePusher` | `PushedByOne` | none |
| `PipelineProofs!CalmIsSafe` | `CalmLosesNothing` (but for a failed request and a session that moves on) | none |
| `ExtractionProofs!OptionsAreOffered` | `Offered` | none |
| `ExtractionProofs!BlocksAreTitled` | `Titled` | none |
| `ExtractionProofs!OnlyWrittenIsKept` | `OnlyWritten` | none |
| `ExtractionProofs!DescriptionsCanBeRebuilt` | `Reconstructible` (of tickets whose attempt no other overlapped) | none |
| `WorkerSyncProofs!Reconciles` | `CycleReconciles` | `OneFormat`: every number is written one way |
| `SmokeDeploymentProofs!ConfigurationKept` | `OriginalKept` | none |
| `SmokeDeploymentProofs!SecretsRemain` | `SecretsStay` | none |
| `SmokeDeploymentProofs!RevertsWhenDone` | `TeardownReverts` (a plain teardown: if none was cut before it) | none |

`Favourable` is the environment of `FlowPatient`: a patient worker, a ticket system
that accepts every ticket and knows its workers, no restart, and `CallTicks < Margin`,
which the code has with a margin of 30 s and calls cut at 10 s, the LLM's at 15 s. The
lookup, the LLM, the search, every message to the worker and every row of
`ticket_creations` may fail. Each conjunct is needed: section 3 lists what happens
with another worker, after a failed creation and after a restart.

**Buffer.** `ExclusiveWatcher` is inductive by itself: only the step that finds no
lock adds a watcher, and it sets one; a tick that would end the lock of a live
watcher sets `lapsed`. `HandedOverOnce` needs `FreshMessages`: what is still in the
list, or read by the one watcher, was never handed over; the exclusivity of that
watcher is what makes it inductive. `MarginAlwaysCovers` needs
`ListOutlivesMarker`: `EXPIRE` comes before `SET marker`, and a watcher goes back
to sleep for what the marker has left, so the margin is kept between the two keys
first and between list and sleep second. `Implements` rests on `Kept`: whoever
holds the lock is alive (`Locked`), so what waits has a watcher that has not read
it yet (`Watched`), and what that watcher read is all there is (`WholeBlock`); with
`MarginCovers`, no tick takes the list away (`NothingExpires`). Nothing in it asks
for one watcher: two of them hand a block over twice, but lose none of it.
`WindowIsQuiet` needs `MarkerCounts`: as long as a message that has set the marker
is in the list, what the marker has left and how long the phone has been quiet make
a window, since whoever deletes the marker deletes the list with it.

**Conversation.** The types are not inductive: a task that held no state would
write `NoSession` back. `TypeInv` adds `Held`. `SessionOutlivesTimer` then needs
two more parts, together `Timed`: `ShortSleep`, no watcher sleeps longer than the
timeout, of whatever step (a session written later may give it a step), and
`FreshAtSpawn`, a task about to spawn a watcher has just written the session,
which no time has aged. Most steps only move a task on: `HarmlessStep` says once
that those keep `Timed`, and a lemma per handler that it is such a step.
`EveryTicketRecorded` is an equation, so it needs no strengthening but that the set
of the tasks that owe a row (`Owing`) is finite: a step either is `Discreet`, and
leaves rows, attempts and debtors alone, or changes exactly one of them. `Attempt`
adds a debtor (`AttemptOwes`), `Log` removes it (`LogPays`) when it adds the row;
`DebtAfter` says who owes what after a step of `_finish`.

**Dialogue.** `Patience` is what a patient worker gives the bot, in eight parts that
are inductive only together. `Alone`: one task at most is in the middle of
something. `Undisturbed`: until it moves on no watcher wakes that would act and the
session does not expire, which is where `CallTicks < Margin` counts. `Precise`: a
session lives no longer than its watcher's sleep and the margin. `Watchers`: one
per step, and a lock only with its watcher, so that a question finds its lock free.
`Informed`: what a task knows at each label (the state it read is the session still).
`Attended`: an open question has a sleeping watcher or a task about to raise it.
`Honest` and `Counted`: clients are nobody's or chosen for the block; a block of a
session has no ticket but between its creation and `clear_session`. The lemmas are
one per handler and part, over a few that say what a task that moves on leaves
alone (`Moves`, `OthersStay`, `WatchersStay`). In the refinement `StartSession` is
`Open` when it writes the question for the client and `SettleClient` when it writes
the one for the priority, `CreateTicket` is `File`, `ClearSession` is `LetGo`; every
other step stutters.

**Extraction.** The library's induction takes an operator as a parameter, which no
prover here can instantiate. What it is needed for is stated about sets instead:
`Induction` is the least element of a set of naturals, from the well-founded order of
the finite sets, and `FoldExists` and `FoldStays` open the fold of the community
modules from there: what every step of a fold keeps, the fold keeps. Upon that,
`StripTrims` (a stripped text begins and ends with ink), `JoinTrimmed` (so does a
block of stripped texts), `CutIsPrefix` and `FallbackIsShort` make `BlocksAreTitled`.
`DescriptionsCanBeRebuilt` is about many copies of a session: the one in Redis and
those in the hands of the attempts (`Copies`; `Alive` are those that can still be
recorded). `Placed` says that a message is in one place, waiting for its task, in the
open block or in such copies; `Kept`, that the texts of every copy are those of its
rows. `Discipline` is what an attempt can count on: before its POST it has no ticket
and no row (`Fresh`), then no ticket but its own (`Own`); without a rival it is the
only one under way (`Alone`), and once it has cleared the session no other session has
its messages (`Cleared`). So what is linked to the row of its ticket is in no place
from where it could be linked again (`Unfiled`).

`OnlyWrittenIsKept` says of every text over the alphabet that the substring test on
normal forms is the right one. `OnlyWritten` knows no normal form: it asks for a map
from the letters of the datum to those of the block that keeps each letter, keeps
neighbours neighbours, and keeps them together where they are together. The proof
follows each character through `Collapse` (`Squeezed`: its place grows by one, or
not at all for a blank after a blank), so that two neighbouring letters end up one
place apart if they were together and two if not (`Gap`); `Spells` is what then
remains to be known of a normal form, and `strip` keeps it (`StripSpells`). Of two
spelled texts, `Found` makes the map from the place of a substring, and `FoundBack`
the place from the map: all letters are moved by the same distance, by the least
letter that is not, and a blank lies between two neighbours that are apart
(`Around`). `Moved` lets the stripped value stand for the value, and `Validated`,
the invariant, is that a session keeps what was validated against its own texts.

**Webhook.** The types need `InLoop`: a request in the loop has a message before
it, and an allowed one when it inserts. `ProcessedOnce` needs `ScheduledOnce`: a
message waits in at most one place of one queue, it is stored, and was not handled.
The unique key alone carries the induction (`StoreOnce`); `SELECT` is only a
shortcut. `Alone(m)` and the faults play no part. `NothingAckedUnstored` needs
`GoneThrough`: what a request has put behind it of its payload, which is what
`todo` lacks, is stored if it is allowed.

**Pipeline.** The modules are instantiated with their proofs: `IntakeSteps` and
`BufferSteps` say which steps of the composition are steps of the one and of the
other, so that the invariants proved there (`TypeInv`, `ScheduledOnce`) hold here;
only the failing tasks and `CloseBlock` need arguments of their own. `NothingVanishes`
follows one message (`Followed`): not yet pushed, it is in a queue or in the hands of
a request; pushed, it is in the list or in a block that is being closed; or it is
opened, taken or lost. `BegunOpened` adds that the block of a watcher which has
written the session is opened, so that its end loses nothing. `OnePusher` needs
`Fetched`: a message that is being pushed, or was, has been handled, and no two
requests push the same one; with `ScheduledOnce` of the webhook, what is still queued
has not. `CalmIsSafe` takes `MarginInv` and `Kept` over from the buffer, whose lemmas
ask of a step only that it neither stops the process nor writes during a close: a step
after which the system is still calm is such a step (`CalmStep`).

**Whitelist.** `Upserted` is a `CHOOSE` among the listed users of a phone;
`UpsertedIsListed` says that it is one of them, and `Reconciles` follows from the
step: no invariant but the types is needed, a cycle repairs any table.

**Smoke test.** `Staged` says what is true at each step of the script: until the
restore it knows the `.env` as it is, a backup exists from its copy to its unlink.
With it `OriginalKept` is inductive. `SecretsStay` needs that a secret of the bot
is in the `.env` or remembered by the teardown that is under way, unless one was
cut (`Remembered`); `TeardownReverts` that the bot runs with the `.env` as it is
whenever there is no backup and no teardown was cut (`InStep`).

Only model-checked: what needs fairness (`HandedOver`, `EveryBlockFiled`,
`EveryMessageHandled`, `SelfHealing`, `EndToEnd`, `Settled`), since neither liveness
nor `ENABLED` is in the prover's reach. Every invariant and
every action property of a passing run is proved, under the hypotheses of the table.

## 5. Not modelled, and why

The wording of messages and labels: what is said does not change what happens. The
prompt and the HTTP form of the requests to Meta, the LLM and the ticket system: the
calls are modelled by how they may end. The handshake, the signature, alerts and
settings keep no state. What the phases of `run` ask of a live deployment is a list
of checks on it; the sink appends what it receives to a list under a lock. The
database and Redis are taken to be available except where a fault says otherwise,
and Redis is not restarted. Messages of several phones, which share nothing, the
migrations and the containers are out. `Pipeline` stops at the open session, where
`ConversationFlow` begins; the two together are beyond TLC at bounds where anything
of interest happens.

What the modules simplify, so that a reader need not find it:

- *A window that is open when the process goes down* is forgotten by
  `ConversationFlow`, while its list stays in Redis; what becomes of it is in
  `MessageBuffer` and `Pipeline`, which have the restart.
- *The alphabet* has one character of each kind, but no combining mark that follows
  its letter and no character that NFKD or casefold turns into several: each
  character normalises by itself to one or to none.
- *A file is written in one step* in `SmokeDeployment`. `Path.write_text` truncates
  and writes: a cut within it, which may leave half a `.env`, is not there.
- *A message* is in `Pipeline` known by its kind only, and in `Extraction` a text.

## 6. What could follow

- Redis restarting without its data.
