# A verification of pushoo-chan-golang

This directory holds TLA+ models of the push gateway in `src/`, the TLC
configurations that check them on small instances, and TLAPS proofs of the
properties of its core. The models are written from the Go source (and, for
the configuration page, from `frontend/app.js`), never from the documentation;
where the documentation promises something else, a run shows the difference.

## 1. The system

A request comes in over HTTP (`/send`, `/bark`, `/barkv2`, `/webhook/tawk`),
passes a ban check and a token check, is turned into a list of channel names,
a title and a text, and is delivered to every channel those names lead to.
Results go back to the client, to the push history in SQLite and, as events, to
the dashboards. The configuration behind all this is one YAML file that is
edited by hand or through the pages, and is reloaded while the server runs.

```
  client -> API (ban store, token check, parameters)          PushRequest, IPBanStore
              |-> push.Service.Push                            PushDelivery
              |      |-> ResolveChannels <- config.Manager     ResolveChannels, ConfigManager
              |      |-> Provider.Send, retries                PushDelivery
              |      `-> EventHub.Broadcast -> ServeSSE        EventHub
              `-> Store.Record -> queue -> SQLite              SQLiteStore, History
     ban store -> UpsertBan/DeleteBan -> queue -> SQLite       SQLiteStore
     pages, maintenance -> transactions on the database        HistoryDatabase, PushLog
```

### Inventory

| component | state | operations | what makes it correct |
|---|---|---|---|
| channel resolver, `push/service.go` | the stack, expanded groups, collected channels of one call | `ResolveChannels` | exactly the reachable channels; unknown names reported; it ends |
| push delivery, `push/service.go`, handlers | per request: recipient, round, results; context; shutdown | `Push`, `pushOneWithRetry`, `pushOnce`, the answer, the record | one result per channel, no unjustified duplicates, honest success, prompt cancellation, complete history |
| providers, `push/provider_*.go` | none | `Send` | what "success" and "error" say about the message |
| push front, `httpapi/api.go` | the request body | `verifyPushToken`, `parseBody`, `parseCommonParams` | who passes, who is charged, what is left to push |
| ban store, `httpapi/ban.go` | entries per address in shards, an atomic counter | `IsBanned`, `RecordFailure`, `Reset`, `cleanup`, evictions, janitor, `Stats` | bans stand, the counter is exact, no entry goes for want of room without need |
| configuration manager, `config/config.go` | raw text, parsed form, last modification time, `writeMu` | `Reload`, `SetRawIfRevision`, `checkAndReload` | memory follows the file, saves end, no half-written save, no lost update |
| configuration validation, `config/config.go` | none | `Validate` | what it accepts resolves to what it names |
| configuration pages, `frontend/app.js` | text, form and revision of a page | load, save text, save form | a save replaces what it was made from |
| Tawk webhook, `httpapi/tawk.go` | none | `handleTawkWebhook` | as push delivery, with its own reading of the configuration |
| history and ban persistence, `store/sqlite.go` | two bounded queues, two workers, `recordMu` | `Record`, `UpsertBan`, `DeleteBan`, `Close` | accepted records are settled before the database closes; the ban table follows memory |
| event hub, `httpapi/events.go` | a channel per stream | `Subscribe`, `Broadcast`, `ServeSSE` | order, no silent loss, no leaked streams |
| startup, shutdown, `app.go`, `main.go` | grace, cleanup | `Shutdown`, deferred cleanup | what a shutdown may lose |
| store maintenance, statistics, `store/sqlite.go` | the tables, transactions under way | the transaction of a record, `Cleanup`, `ListChannelMessages`, `Summary`, `BanTrends`, the check at the start | pushes are whole or absent, kept long enough, readers see one moment, the next start accepts the database |
| character sets, frontend serving | none | conversions, files | not modelled |

They interact through calls (API -> Push -> Provider, API -> store), shared
state (the manager's configuration, the ban store, the hub), callbacks
(`OnEvent`), channels (the two queues, one channel per stream) and the file
system (the configuration file).

### What is hard

* Requests run concurrently with reloads: the Tawk handler reads the
  configuration twice, a page three times.
* A provider may take a message and lose its answer; a client may leave between
  any two steps; the write timeout of the server (30 s) is shorter than the five
  rounds of one channel.
* The ban store reads clock and counter outside the locks it then waits for.
* Saves, the watcher, the generated push token and an operator write one file.
* Shutdown waits for the handlers only ten seconds; the store is closed whether
  or not they have come back.
* The process may crash between two statements of a transaction, the machine may
  lose its power between a commit and the next checkpoint, and the next start
  refuses a database that holds a message without deliveries.

The complete list, each with its line and the properties that watch it, is in
`PROJECT.json` under `hazards`.

## 2. The modules

| module | models | extends |
|---|---|---|
| `ChannelGraph` | a configuration as the resolver reads it; reachability as the reference | |
| `ConfigValidation` | what `Validate` asks of that configuration | `ChannelGraph` |
| `ResolveChannels` | `Service.ResolveChannels`, one turn of the loop per action | `ConfigValidation` |
| `ResolveChannelsProofs` | its proofs | `ResolveChannels` |
| `PushDelivery` | handlers, `Push`, retries, events, record, shutdown | `ChannelGraph` |
| `PushDeliveryProofs` | its proofs | `PushDelivery` |
| `IPBanStore` | the ban store with its callers | |
| `IPBanStoreProofs` | its proofs | `IPBanStore` |
| `ConfigManager` | the manager, the watcher, the pages, the operator | |
| `ConfigManagerProofs` | its proofs | `ConfigManager` |
| `PushRequest` | token check and parameters of a request | |
| `PushRequestProofs` | its proofs | `PushRequest` |
| `History` | the abstract promise of the push history | |
| `SQLiteStore` | the two queues and `Close`; implements `History` | |
| `SQLiteStoreProofs` | its proofs, the refinement among them | `SQLiteStore` |
| `PushLog` | the abstract promise of the database: a log of sets of whole pushes | |
| `HistoryDatabase` | the database below the queues: transactions, cleanups, readers, crashes; implements `PushLog` | |
| `HistoryDatabaseProofs` | its proofs, the refinement among them | `HistoryDatabase` |
| `EventHub` | the hub and its streams | |
| `EventHubProofs` | its proofs | `EventHub` |
| `MC*` | instances for TLC | |

`ResolveChannels` and `PushDelivery` compose through `ChannelGraph`: the first
proves that the worklist returns `Recipients`, the second uses `Recipients` for
the call. `SQLiteStore` and `PushDelivery` compose through the promise of
`History`: `PushDelivery` lets `Record` succeed unless the store is closed,
which is what `SQLiteStore` is shown to provide. `SQLiteStore` takes a commit as
one step; `HistoryDatabase` takes it apart, and `PushLog` says what is left of that
from outside: its `log` is the list of versions since the last checkpoint, each
read as the set of its pushes, and its `done` the records the worker is through
with. A commit of the record worker is `LAdd`, one of a cleanup `LDrop`, a ban row
`LDrop` of nothing, a crash or a loss of power `LEnd`; everything between a first
statement and its commit is a stutter.

Definitions that begin with the word *Slip* in their comment are not part of
the models: each is a plausible mistake in one definition (a dropped guard, a
missing release), kept to show that the property it is paired with in
`PROJECT.json` would notice it.

### How state and actions correspond to the code

**ResolveChannels.** `process`, `seenGroup` and `ret` are the local variables of
the Go function, `logged` what it passes to `log`. Each branch of the loop
(service.go:93-111) is an action. `cfg` is the snapshot of `s.cfg.Get()`.
Configurations are arbitrary: `Reload` does not call `Validate`, so cycles,
dangling names, empty names and groups named like channels reach the resolver.
`Validate` compares names without the spaces around them (`Trim`) and leaves them
in the file; the resolver looks for them as they are. `ValidatedResolves` says
what an accepted file does spare the resolver: only groups that the call itself
names are expanded, and a name that the caller did not pass is unknown only if the
file has it with spaces around it.

**PushDelivery.** `pc` says where the goroutine of a request is: `resolve`
(before `ResolveChannels`), `next` (head of the loop over channels), `call`,
`flight` (inside `Provider.Send`), `wait` (the select of the retry), `record`,
`done`. `asked` is the endpoint and the names it passes to `Push`, `round` the loop
variable of `pushOneWithRetry`, `results` the map `Push` returns, `answer` what the
client is told (`lost` if the write failed). `live` is the configuration in
memory; `Reload` may replace it between any two steps, and `snap` keeps the one a
push works with. `tries`, `accepted`, `doubts`, `late` and `told` record what
happened outside the program.

A channel has a type in each configuration (`TypeOf`): a *strict* service takes
what it answers with 2xx, a *lenient* one may refuse it in the body, which no
provider reads, *wecom* also reports success when it could not get an access
token, and an *unregistered* type has no provider (`CallUnregistered`). What comes
back from a call is an answer (`none`, `2xx`, `4xx`, `5xx`) and the words that its
error text happens to hold, since `shouldRetry` looks for words and numbers in a
text that contains the address and the body too (`Words`, `Retriable`). `server`
follows `main`: up, draining (`Shutdown`), closed (cleanup), gone; `forced` says
that the grace ran out under a handler.

**IPBanStore.** One action per acquisition of a shard lock or access to the
atomic counter. `fail`, `until`, `seen` are the fields of an entry, `total` is
`totalEntries`, `t` and `u` the clock readings a goroutine holds while it waits
for locks, `dels` deletions not yet subtracted. The two loops of `cleanup` and
`evictGlobal` are `inner` and `outer`, `evictOldestOnce` is `scan` per shard and
`evict`. `verifyBasicAuth` and `verifyPushToken` are `Request`, then `Nothing`,
`Good` (`Reset`) or `Bad` (`RecordFailure`). The options of `NewIPBanStore` are
fixed when the program starts and are part of `world`; the fail limit and the
ban time are read from the live configuration by each failing request, so `Bad`
takes any of `world.limits`. `barred` remembers the handlers that asked while
their address was banned; `Uncounted` is the set of deletions that are done and
not yet subtracted, one element each. `Cleaners` are the goroutines that call
`cleanup` alone: the janitor's, and one for each dashboard that asks for `Stats`
(api.go:161-170), since nothing keeps these apart. `gone` remembers for a goroutine that
is about to evict how many deletions it could not know of when it compared the
counter: those not yet counted off then, and those of others since. `EvictionsAreExcess`
says that it has reason to evict all the same: the entries left and those deletions are
more than the limit. No property says that the table keeps to the limit, because it
does not (section 5).

**ConfigManager.** The file is a document and a modification time. `Reload` is
`Read` (with parse and token), `Truncate`/`Fill` (`os.WriteFile` as it is: empty,
then full), `Stat`, `Stamp`, `SetMemory`. A write that fails is reported and `Reload` goes
on: `CannotWrite` has not touched the file, `FillFails` has emptied it and left nothing
or a piece of the document (`Pieces`: a prefix may parse or not), and the file stays
so until somebody writes it. `open` is the set of the `Reload`s whose descriptor is that
of the present file: what a `Fill` writes after a rename or a deletion reaches nobody,
while an operator's editor may write into the same file (`WriteOver`) or put another
in its place (`Replace` is the rename of a save). `cut` is the time of the file that a
failed write left, `notedOf` that of what the `Reload` had read that wrote `lastModTime`,
`newest` the latest that memory was ever read from. `SetRaw` takes `writeMu` and compares revisions,
`Rename` or `SaveFails` follow, then `Reload` while the lock is held. `Poll` is
the watcher. `lastModTime` is written without a lock: `Stamp` writes what `Stat`
found, and when two of them meet, each may leave a mixture of the two times,
older than the file (0) or later than it (`clock + 1`, the time of the next
write); `PollTorn` is a poll that reads while a save writes. `Restore` puts a backup in place with
the time it had, which is before that of every file loaded so far (`LongAgo`):
the watcher does not load it until something else does. A browser reads text and revision in two steps
(api.go:307-308), revision again and form, as `downloadConfig` does, and saves
text or form. A revision is a hash of the raw text and stands for it.

**PushRequest.** `unread` says whether the body can still be read; `ParseForm`
reads a form and drains it, the JSON branch reads and puts back. Values are
known by their role (channel, title, content) and the place they came from.

**SQLiteStore.** A record is in a handler (`pc`), in `recordCh` (`recQ`), in the
worker (`hand`), committed or given up. `closer` is the progress of `Close`;
`locking` is a `Lock` that waits for readers and keeps new ones out. The changes
of a ban entry are numbered in the order of the shard lock (`ver`), `op` is a
change on its way to the queue, `row` the number the table holds.

**HistoryDatabase.** `wal` is the list of the versions of the tables since the last
checkpoint: a reader sees the last one, a crash of the process loses none, a
power failure keeps a prefix that is not empty (`journal_mode(WAL)`,
`synchronous(NORMAL)`; SQLite is external and taken at its word). `writer` is
the transaction that holds the write lock, `draft` the tables as it sees them,
`left` the deliveries it has yet to insert. One action per statement; each may
fail (`Fail`) and each first statement may find the lock taken for longer than
`busy_timeout` (`Busy`). `step` and `before` are where a cleanup is and its cutoff;
`Duration` wraps as the 64 bits of a `time.Duration` do. A reader asks (`asks`),
takes a snapshot with its first query (`snap`) and is told in two parts (`told`).
`Stop` and `Close` are the deferred cleanup of `main`, `Start` is `NewSQLite` with
`verifyPragmas`. `kept` and `least` record what was committed and what the
cleanups were told to keep. `cast` says which of the processes take part in a
behaviour, until what time and with how many losses: it bounds TLC's instance
and restricts no step otherwise.

**EventHub.** Events are numbered; a stream's channel is `chan`, `hand` the event
being written, `conn` whether a write gets through.

## 3. The runs

| run | instance | shows |
|---|---|---|
| `resolve_channels` | three channel names, one with a space, two groups of every shape, an unknown and the empty name | exact resolution and reports, what validation spares, termination |
| `push_delivery` | one request of any endpoint over two files, all types of channels, every answer and wording, three rounds | all properties of delivery, including the end of every push |
| `ip_bans` | two handlers, one who cleans up, three kinds of start: two addresses and a running clock; three addresses, two shards, room for one, the clock running; four addresses in the same table, the clock still | banned clients stay out, bans stand, the counter is exact, no more is evicted than the excess |
| `config_manager` | one browser, watcher, operator; plain, token-wanting and broken files, a backup; two changes, each an edit, a save, a restored file or a write that fails half-way | memory follows the file, saves end, none leaves half a file |
| `config_hot_reload` | no browser, two edits | **violated**: an edit between `ReadFile` and `Stat` is never loaded |
| `config_lost_update` | two changes | **violated**: a page with old text and new revision overwrites the edit |
| `push_request` | every request of the model, one after the other | gate, charges, body (its types are proved) |
| `push_form_token` | the same | **violated**: with its token in the form a request loses its text |
| `store_queues` | two records, two goroutines with three ban changes, queues of one, batches of two, `Close` at any time | the promise of `History`, table order, all calls return |
| `database` | two pushes to up to two channels, a ban row, a page and maintenance that clean up, a reader; three at a time | whole pushes, the next start, the time they are kept, answers that fit together; the promise of `PushLog` |
| `history_overflow` | the same with a number of days too large | **violated**: the cutoff wraps into the future and the cleanup deletes everything |
| `event_streams` | two streams, four events, room for two | order, no silent loss, no leaked stream |

The four violated runs are disagreements between the program and its own
documents or messages; `PROJECT.json` quotes the lines under `findings`.

### Bounds

* *Names and configurations.* Two groups suffice for a cycle, a shared member, a
  group reached twice and nesting; one name that is neither channel nor group
  makes the unknown case; the proofs cover every number.
* *Requests.* One request at a time in `push_delivery`, over every endpoint, because
  no action of one request touches what another one has: the proofs make that
  argument for any number of them. The two files share a channel name with
  different types, so that a reload changes what a name means; one has a Tawk
  channel and a default, the other has neither.
* *Rounds.* `MaxRetry` is 5 in the code; 3 has a first, a middle and a last
  round. The proofs hold for every positive `MaxRetry`.
* *Clock of bans.* In the first kind of start (`Life`) the clock goes to 3 with a ban
  time of 2 or 1 and an idle time of 1: a ban begins, is asked for, idles and expires,
  every stale clock reading may be one or two ticks old, and a reload lowers the
  fail limit or switches it off. In the second (`Crowd`) it goes to 2, so that entries
  differ in age when a victim is chosen and idle ones are swept beside the evictions.
  In the third (`Room`) it stands, and two more addresses overfill the table.
* *Handlers.* Two handlers and one of `Cleaners`; each handler that finds the table full
  cleans up as well, so up to three sweep, evict and count off at once. The proofs
  hold for any number of handlers and cleaners.
* *Edits, saves, failed writes, tokens* (`MaxChanges`, `MaxTokens`): two of the first
  three are enough for every pair of writers to meet, with the watcher and the
  generated token as further ones; `MaxTokens` is never reached. A save that
  stalls inside its write of `lastModTime` could spoil any number of polls, each
  of which may generate a token on a read-only disk; `MaxTornTokens` lets the
  race show only while fewer than three tokens exist, and any number of times
  for a configuration that wants none.
  One browser: two are kept apart by `writeMu` and by the revision, which the
  watcher, not a second browser, makes stale here. One backup, older than all.
* *Queues.* Room for one makes a full queue, a batch of two merges two changes of
  an address; three changes leave one in a handler's hands, one in the queue
  and one in the batch.
* *Database.* A day has two ticks and the clock goes to 3, so that a push grows
  older than the one day that is kept and midnight falls between two queries. At
  most two commits between checkpoints let a power failure lose none, one or
  both. Three take part at a time (`MCCasts`): every pair of them meets, with the
  record worker, the losses and the clock; all of them at once are beyond TLC
  and within the proofs. `history_overflow` keeps three days where a duration
  holds one and a half, which stands for 106752 days and 2^63 - 1 nanoseconds.
* *Events.* Four events against room for two drop, deliver and drop again.

Deadlock is checked where the system has no reason to stop (`IPBanStore`,
`ConfigManager`, `PushRequest`), and switched off where all requests may be
answered, all queues empty or the database refused.

### Fairness

* `ResolveChannels`: the loop runs (`WF(Next)`); it waits for nobody.
* `PushDelivery`: each handler's goroutine runs (`WF(Handler(r))`): a call returns
  within `HTTPTimeout`, a timer fires. Arrivals, reloads, cancellation and shutdown
  are never forced.
* `ConfigManager`: the watcher polls, a reload or save that has begun goes on.
  Nobody has to load, save or edit; a failing disk is allowed for ever.
* `SQLiteStore`: workers run, transactions end (either way), a started `Close` goes
  on, a handler that can send sends. `Close` itself need not be called.
* `EventHub`: the goroutine of a stream runs.
* `IPBanStore`, `PushRequest` and `HistoryDatabase` assume none: their properties
  say what a step may not do.

All of it is the Go scheduler and timers; no fairness is assumed of clients,
operators, disks or networks.

## 4. The proofs

Each proof module states its theorems for every value of the constants that
satisfies the named assumptions of its module.

**ResolveChannelsProofs.** `ResolveInv` says that the stack, the collected
channels, the expanded groups and the reported names stay inside what the roots
lead to (`OnlyReachable`), that each is sorted by its kind (`Sorted`), and that
nothing a handled name leads to is forgotten (`NothingForgotten`). The
postcondition alone is not inductive because it says nothing before the end.
When the stack is empty the handled names are a closed set that holds the roots,
hence hold all that is reachable. Reachability is the smallest closed set, so no
induction over paths is needed. `ResolutionIsExact` covers channels and reports.
`EveryTurnCounts` is what termination rests on: a turn takes a name off the stack,
or puts a group's members on it and the group among the expanded ones for good, so
that stage, expanded groups and stack go down in lexicographic order.
`ValidationSuffices` has two lemmas of its own: the members of a validated group
are no groups, so the roots of a call and what they lead to are a closed set.

**PushDeliveryProofs.** `PushInv` is, per request: every target is pushed or
pending and the answer comes last (`Progress`), no channel is both (`Disjoint`),
and until a channel has its result all that its provider took is in doubt
(`Tally`); what the last event said is known while a retry waits (`Waiting`);
the record, if any, is the results, and `forced` accounts for what is missing
(`Ledger`). Since an action of one request leaves the others alone, a frame
lemma reduces each step to one request. All six safety properties and
`ResultIsFinal` follow. `RetriesAreBounded` ties the calls a channel has had to its
round (`Rounds`), and `PushesCloseIn` gives the measure behind `EveryPushEnds`: with
every step of its handler a push has fewer stages to go, or fewer channels, or less
to do for this one, and nothing a client, a reload or a shutdown does undoes that.

**PushRequestProofs.** `PhaseInv` says phase by phase what the properties leave
unsaid until the end: where the token can still be (`TokenSearch`), whether the
body can still be read (`BodyLeft`), what was made of it (`BodyTaken`), and that
the verdict stands while the handler goes on (`Verdict`). One assumption is made
of requests: without a body there is nothing in it. All four invariants follow.

**SQLiteStoreProofs.** The two queues share only `Close` (`Apart`), so each has
its own argument. *Bans:* `Lines` says that the last change of an entry that
waits, in the batch or behind it in the queue, is the newest one handed over,
and that the row has it when none waits; `HandedOver` says that a change not yet
handed over is the only reason for memory to be ahead. `TableAgrees` says nothing
while changes are under way and is not inductive without them. The proof needs that a
finite set of places has a last one, which comes from the well-foundedness of
the natural numbers. *Records:* an accepted record is in exactly one place
(`OnePlace`), and nobody sends once the store is closing (`Shutdown`); with these
every step is a step of `History` or none (`HistoryKept`), which is
`ImplementsHistory` without its fairness. *Ends of calls:* `SendersHaveAWorker`
excludes the deadlock of `Record`, which waits for room under the read lock, with
`Close`, which waits for that lock before it stops the worker; `DrainShrinks` counts
what the record worker has left once the lock was had; `QueueMovesUp` says of every
step what it does to the changes in the batch and in the queue taken as one line:
nobody but the worker takes from it, and the worker only from its front, a whole
batch at a time, with a transaction.

**HistoryDatabaseProofs.** `DatabaseInv` says that every version since the last
checkpoint is whole, each message in it from a record its worker is done with
(`Versions`), so a power failure may fall back on any of them; how far the open
transaction has come (`UnderWay`: `Inserting` for the worker, `Keeping` for
everybody else); that records wait once each and only valid ones (`Line`); and
that a cleanup's cutoff lies as far back as the least that was to be kept
(`Cutoffs`). `PushesAreWhole` alone is not inductive because it says nothing of
the draft. `StartsAgain` and `PushesAreWhole` hold for all constants, `KeptForDays`
under `DurationsFit`: no number of days in use is too large for a `time.Duration`;
`history_overflow` shows that the condition is needed.

`AnswersFit` proves `ReadsAgree`. Its invariant `ReadingInv` says what a reader knows
between its queries, and that the copies of a table are told apart by their numbers
(`Numbered`): then the order of the list is total, the ranks of the `n` rows are
`0 .. n - 1`, one each, and a page has exactly the rows its total leaves it. The rank
of a row is the cardinality of the set of the rows before it; that no rank is left
out follows from the pigeonhole principle (`RanksTaken`).

`Implements` is the refinement of `PushLog`. `DatabaseInv` is not enough for it, since
it says that an open transaction has whole pushes and not which: `Drafted` says that
a draft has exactly what its transaction is for (`Intended`), and has changed no row
of any other push. With it a commit is one step of the promise, and every other
action is a stutter, a cut of the log, or a checkpoint. The history variables that
`PushLog` reads (`made`, `state`) are fixed when the record is taken.

**ConfigManagerProofs.** Memory is written from what a `Reload` holds, possibly after
many steps of others. `Ready` says that whatever a `Reload` holds is already fit
for memory and that neither a `Reload` nor a save is about to write an empty document;
`MemoryAgrees` follows. `Opened` says that who has the file open is between the two steps
of its write, and that an empty file is open or is what a failed write left:
`HalfFileIsOfAReload` follows, and with it that no failing step of a save leaves one.

`StaleOnlyByRace` says that memory stays behind the file in three ways only. The time
that was noted may be later than that of what its `Reload` had read (`NotedTooLate`: the
race of `ReadFile` with `Stat`, a write of its own that failed, a torn `lastModTime`); memory
may have gone back to what was read earlier (`WentBack`: two `Reload`s set it in the other
order, config.go:264-267); an older file may have been put in place (`PutBack`). The
second is no consequence of the first: the watcher reads and notes version 3, a save
reads and notes 4 and sets memory, then the watcher sets memory to 3, and `lastModTime`
is right. `PollsFindWhatIsNew` proves it but for the poll that has to come: at any
moment, a file that a poll would pass over is in memory or about to be, or it is one of
the three. It rests on `OneDocPerTime`, that what anybody read of the file while it had
the time it has now is what it holds, and on `NotedIsUsed`, that who noted
`lastModTime` has put what it had read into memory, or is about to. `SavesMoveOn` is the
measure behind `EverySaveEnds` (`Left`): a `Reload` never goes back, whatever happens to
the file under it.

**IPBanStoreProofs.** `BanInv` says where each goroutine can be (`Places`), that no
clock reading is of the future (`Clocks`), that who asked during a ban still finds
it (`Barred`), and that a goroutine owes the counter something only between its
sweep and its count (`Owing`). `CounterExact` counts the set `Uncounted` instead of
adding up the deletions of all goroutines: a sweep moves elements from the table
into that set and `Count` takes those of one goroutine out, so cardinalities of
finite sets are enough and no sum over goroutines is needed.

`OnlyExcessIsEvicted` proves `EvictionsAreExcess`, a part of `BanInv`. A goroutine that
goes to evict has just found the counter above the limit, and `CounterExact` says what
that counter is: the entries and the deletions still to come off it. From then on an
entry that somebody else deletes moves from the table into `gone`, and an entry that is
inserted only adds to the sum; so the theorem holds for any number of handlers and
cleaners, and for evictions that give up because their victim is gone (ban.go:378).

**EventHubProofs.** What a browser has, the event being written and the channel are
one sequence; receiving and writing move a border inside it and only `Broadcast`
appends to it. `NothingSkipped` is inductive together with the types, with `Holding`
(an event is held exactly while it is written), `Fresh` and `Cut`. `OnlyOut` says that
a broken stream is never repaired and that no event is sent on a closed channel, and
`StreamsRunOut` that a stream which finds both an event and its done context can
choose the event only as often as there are events ahead of it: `MaxEvents` may be any
number, but it is one; that Go's `select` picks the context some day while events
never cease is not shown.

**Only model-checked.** Every safety property and action property of the passing
runs has a proof. Liveness needs ENABLED and fairness, which are out of the prover's
reach, and stays with TLC. Each of these properties has a safety core that is proved,
an action property or invariant that leaves only to show that the next step can be
taken and, by the fairness of `Spec`, is:

| checked by TLC | proved for all constants |
|---|---|
| `Terminates` | `EveryTurnCounts`: each turn lowers a measure |
| `EveryPushEnds` | `PushesCloseIn`: each step of a handler lowers a measure and no other raises it |
| `EverySaveEnds` | `SavesMoveOn`: the same for who holds `writeMu` |
| `StaleOnlyByRace` | `PollsFindWhatIsNew` and `NotedAndUsed`: no fourth way hides a change from a poll |
| `BansReachTheTable` | `QueueMovesUp`: each step of the worker moves every change on, in order |
| `EveryCallReturns` | `SendersHaveAWorker` and `DrainShrinks` |
| `BrokenStreamsLeave` | `OnlyOut` and `StreamsRunOut` |
| `ImplementsHistory` | `HistoryKept`: all but its fairness |

A step that is missing altogether is what TLC would find. The cores were checked with TLC before they were
proved, and are not part of the runs.

## 5. What is not modelled, and why

* The payloads of the providers, the texts of errors, HTML and JSON layout.
* Character sets: they change values and no control.
* `Validate` asks for an account and for the type of each channel as well; the
  graph has neither. Routing has a table of public paths, which is data.
* Of the statistics, the columns of past days and hours: they are sums over the
  same rows as those of today. `Stats` of the ban store is a cleanup, which is
  modelled, and a read, which decides nothing.
* `Compact` leaves the tables as they are (`PRAGMA optimize`, `VACUUM`), and
  nothing calls `CleanupBans`. The offset of a page is a small number here; `(page -
  1) * size` in the code wraps for pages that no list has.
* In `ConfigManager` a write of a document is one call after the truncation: two that
  overlap in one file leave the document of the later one, while in the program the
  tail of a longer one could stay behind it. A rename is atomic, as POSIX has it.
* A third save or edit racing within one `SetRawIfRevision` between the comparison
  and the rename by an operator: the model has it, no property forbids it, as
  nothing documents it.
* A crash in `SQLiteStore`: it loses both queues, and nothing is read back at the
  next start (the ban table is only used for statistics). What a crash leaves in
  the database is the subject of `HistoryDatabase`.
* Flags, logging, the listener, serving of files.

### Where the program differs from its documents and no run says so

* *The limit of the ban table.* `config_example.yaml:89` and `config.go:150` document
  `ip_ban_max_entries` as "max IP entries kept in memory". `RecordFailure` compares with
  `>=` and the loops of the evictions with `>` (ban.go:158, 312, 339): a single handler
  that finds the table at its limit evicts nothing and inserts its entry, which makes one
  more than documented. Several handlers that pass the comparison together, and one
  that gives up because its victim is gone (ban.go:378), go further, and nothing bounds
  their number. In `IPBanStore` the state `Cardinality(present) = world.maxEntries + 1` is
  reached by one handler in the worlds `Crowd` and `Room` (two failures of two addresses).
* *Configurations that went back.* `WentBack` keeps an older configuration in memory for
  good although the file is newer and was read: against README.md:696 as well, which
  `config_hot_reload` refutes by the shorter race.
* *Idle bans.* A ban longer than `ip_ban_idle_minutes` ends when its address was idle for
  that time (ban.go:328): `BanStands` excepts it.

## 6. Plan

Done, in this order: `ChannelGraph`, `ResolveChannels` with proofs, `PushDelivery`
with proofs, `IPBanStore`, `ConfigManager`, `PushRequest` with proofs, `History` and
`SQLiteStore` with proofs, `EventHub` with proofs; then `ConfigValidation` with
its theorem, `HistoryDatabase` with proofs, and the proofs of `ConfigManager` and
`IPBanStore`; then `PushLog` with its refinement, the evictions from the table of bans,
the answers of the pages, writes that fail half-way, and the safety cores of the
liveness properties.

Next:

1. *Models.* Two browsers in `ConfigManager` (saves that compete for `writeMu`); the
   limits of concurrent pushes on the event stream.
2. *Composition.* `IPBanStore` with the queue of `SQLiteStore`: which row a ban
   that stands has in the table. `PushDelivery` over `History` by `INSTANCE`.
3. *Proofs.* An abstract specification of a push, and `PushDelivery` shown to
   implement it.
