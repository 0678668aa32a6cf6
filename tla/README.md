# StopTrack: a verification project

StopTrack records why machines stop. It is offline-first: every device stores a
stop locally, queues it, and uploads it when it can reach a server. This
directory holds TLA+ modules of the parts in which that promise can go wrong,
TLC configurations that check them on small instances, and TLAPS proofs of the
results that hold for every instance. Paths below are relative to `src/`.

## The system

| part | code | state it keeps | operations | how it meets the others |
|---|---|---|---|---|
| sync server | `server/server.js` | records of four collections, config, one JSON file, rate windows | POST/GET per collection, GET/PUT /config, /report, load and debounced save | HTTP |
| web app: storage and sync | `StopTrack.tsx` 900-1330, 1470-1600, 1950-2050 | localStorage records, outbox of keys, four pull cursors, React state | `api.save*`, `_enqueue`, `useSync.flush`, `applyRemote*` | HTTP to the server or to the phone's local server |
| web app: timer | 1350-1451 | the running stop, autosaved when the timer changes and when the tab is hidden | start, pause, resume, stop, restore | feeds `handleSave` |
| web app: presence | 1778-1824, 2271-2384 | the open session, the off-machine span | open, close, switch, heartbeat | records of the `sessions` and `stops` collections |
| web app: boards, handover | 82-123, 1731-1759, 2481-2600, 3250-3383, 4061-4178 | shift window, production, handovers | shift arithmetic, New Shift, sums, filing | records |
| web app: settings | 1114-1178, 1519-1531, 2021-2098 | one blob of settings under one stamp | edit, the config step of a flush, backup and restore | GET/PUT /config |
| watch | `android/wear` | DataStore: outbox, live timer, config | time and document a stop, sync, resend, take acks | HTTP to the server, messages to the phone |
| phone companion | `android/mobile`, `android/shared` | `PhoneStore` (memory and a file), preferences in a DataStore: settings, cursors, stop timer | local sync server, forwarder, stop timer driven from bubble, notification and page | HTTP both ways, messages from the watch, a WebView |
| PLC gateway | `gateway/plc_gateway` | edge detectors, open stop, held start | poll, evaluate rules, hold, broadcast | writes events to a console or a file |

What is hard in it: requests whose handler awaits between reading and using
state; two clocks compared with each other; a queue read, awaited over and then
emptied; three threads that rewrite one list; answers that are lost after the
effect; processes killed between two writes; React state that lags storage;
a shift window that lags the clock; a page that mirrors a timer which other
surfaces drive. `PROJECT.json` lists these hazards line by line, with the
properties that cover them, or why none does.

What makes each part correct:

- server: a clock that is wrong on one device never shuts out the others; what
  was answered reaches the file; nothing vanishes;
- web sync: a stop reaches the server, and from there every device; repeats and
  late arrivals undo nothing but what a request that is still under way may;
- settings: the factory has one set of settings in the end, no edit of a
  supervisor is lost, and none is reverted by what is older;
- watch: a saved stop is never lost, and is sent until it is delivered;
- timers: time paused is not counted, no minute is counted twice, a finished
  stop is documented once;
- presence: an operator is at one place at a time, no span is left open;
- boards: a board begins where the clock says, never goes back, and its sums
  agree with each other;
- phone: every record reaches both sides whatever fails;
- gateway: a stop that lasts is told while it lasts, a short one is not told,
  an end comes after its start.

## The modules

| module | models | kind |
|---|---|---|
| `Lww` | the last-write-wins rule: stamps, clamp, upsert, the `since` filter | operators |
| `SyncServer` | `server/server.js`: database, config, file, requests in flight | state machine, EXTENDS `Lww` |
| `SyncServerProofs` | its theorems | proofs |
| `WebSync`, `MCWebSync` | web devices and the server: `api`, `useSync`, `applyRemote*` | composition, INSTANCE `Lww` |
| `WebSyncProofs` | its theorems | proofs |
| `Settings`, `MCSettings` | the settings of several devices and the server | composition |
| `SettingsProofs` | its theorems | proofs |
| `Operator`, `MCOperator` | the operator's page: timer, pending stop, presence, off-machine span, setup, reload | state machine |
| `OperatorProofs` | its theorems | proofs |
| `ShiftClock` | shift lengths, ends and windows | operators |
| `Board`, `MCBoard` | the board of a shift, output, handover, the supervisor's sums | state machine, EXTENDS `ShiftClock` |
| `BoardProofs` | theorems of the two | proofs |
| `WatchDelivery` | a stop's way off the watch: outbox, server sync, phone, acks | composition |
| `PhoneHub`, `MCPhoneHub` | the phone's store, its forwarder to a server, the loop that restarts it | composition, EXTENDS `Lww` |
| `PhoneHubProofs` | its theorems | proofs |
| `QuickStop` | the phone's native stop timer, its copy in the preferences, the page that mirrors it | composition |
| `AndroidProofs` | theorems of `WatchDelivery` and `QuickStop`, which share no variable (hence `WatchSpec`, `WatchTypeOK` and the like) | proofs |
| `StopEvents` | what the PLC gateway promises a consumer of its events | abstract specification |
| `Gateway`, `MCGateway` | the poll loop, edges, rules, held starts, broadcast; implements `StopEvents` | state machine, refinement |
| `GatewayProofs` | its theorems and the refinement | proofs |

In every module an operator that stands just before another with the same
parameters, and is used by nobody, is that definition with a slip in it
(`AcceptsStrictly`, `ClearOnFailure`): replacing the definition by it must
violate a property, which shows that the property depends on that code.

### Lww

A record is `[at, val]`: its raw stamp and its content. `Upsert` is the test and
the store of server.js:367. The web app and the phone apply the same rule with
the clock they have, so `WebSync` takes the module with its own contents. The
raw stamp stands for the first present of updatedAt, loggedAt, end, start.

### SyncServer

| variable | code |
|---|---|
| `now` | `Date.now()`; assumed never to be set back |
| `db`, `config` | `db.stops`.. `db.handovers` (the collection is part of the id), `db.config` |
| `disk` | `DATA_FILE`, `NoFile` when absent or not JSON |
| `saveTimer`, `saveFailed` | the 150 ms timeout: none, waiting or due; whether the last save threw |
| `reqs[q]` | the `now` that request `q` captured at server.js:305, `Idle` for none |
| `bootNow`, `up` | the clock at start; the process lives |

`Arrive` runs the handler to its first await; `PostRecords` and `PutConfig` are
the rest of it, `Abort` its failure. Node runs each to its end, so each is one
step. The body is chosen when it is complete, from every body that devices can
send. `Boot` may find a file with stamps from the future, as one written before
the clamp; `Save` writes a temporary file and renames it, which is atomic.
A request that fails the rate limit or the token check never becomes an `Arrive`.
`Persist` starts the timer or leaves a running one as it is; `Elapse` makes it
due. A debounce that started its 150 ms again with every write would never
become due, and `SavesKeepUp` would fail.

The modules below that compose devices with the server take its handler as one
step that happens when the body is in, at any clock from the moment the request
was sent to now: the clock of server.js:305 is read somewhere in between, before
the body is awaited (358, 422). That is all a request in flight holds of the
server, so the one step loses no behaviour; saves and crashes of the server are
in `SyncServer` alone.

### WebSync

A step is what a device does without awaiting the network (localStorage answers
within the step). `sync[d]` is where `flush` stands: idle, a push or a pull of
one collection under way, or answered. `Write` is any save: the record, its key
in the outbox, the React update, which `Render` shows later; `applyRemote*`
merges into the rendered state and replaces the queued one, as the code does.
A request that timed out may still be handled (`stray`). `DieWhileSaving` is a
page killed between storing a record and queueing its key. `Handle` is the
server's step, at any clock it read since the push was sent (`sent`, or `time` of
the flush). `undone` is history: the newest stamp from which a slow push took a
record back. What the server "had", in the properties (`Reached`), is what it
holds or what was taken back so. Devices in `ByHand` begin with sync off; `EnableSync` seeds the outbox with all
records when nothing was ever pulled, and only then; `DisableSync` is the switch
back. `late` is history: records that reached the server with a stamp that the
cursor already covered. `skipped` is history too: records that a named slip kept
out of the outbox (a death while saving, two saves racing in `_enqueue`, a save
emptied out with the outbox, a save made while sync was off after a first pull).

Assumed: localStorage does not fail; no clock reads 0 (a cursor of 0 means
"never pulled"). Left out: the garbage collection of old records (950-961,
1041-1048, 1077-1083) and a change of the server's address, which keeps cursors
and outbox.

### Settings

| variable | code |
|---|---|
| `served` | `db.config`: the clamped stamp, and the blob with the stamp it came with |
| `stored`, `shown` | `config:lists` in localStorage; the React state with `configUpdatedAt` |
| `flush` | where the config step of `useSync.flush` stands, with the settings it read |
| `rejected` | `configRejectedRef` |
| `stray` | PUTs nobody waits for, with when they were sent: the direct one of `persistConfig`, timed out ones |
| `backup` | the settings in a backup file |
| `edits` | history: who edited, under which stamp, and whether a GET was awaited |

The whole blob is under one stamp, so an edit is just its author and time. The
flush reads the local settings before its GET and applies the answer after it:
an edit made in between may be overwritten, which `EditsAreKept` names as its
one exception (`crossed`). A GET that fails counts as a server without settings,
so a blind PUT follows. `Take` compares with any clock the server read since the
PUT was sent. Device and server settle on a stamp as the device compares it,
lowered to its own clock. A device that is ahead settles only once real time has
passed its stamps, and no fairness is assumed of time; so the device in
`Patient` is the one that is not ahead.

### Operator

`timer`, `pending`, `recovered`, `openSess` and `ui` are the React state;
`prefs`, `ip`, `curSess`, `sessions` and `stops` are stored. One page per device
is open; an operator's tap runs its handler to the end, because localStorage
answers within it. Everything the taps can do is an action: the timer, save and
discard of the finished stop, the manual report, span out and back, name, lock,
machine, New Shift, any other preference. `Kill` is the end of the page at any
point; `Load` and `LoadStored` are the load before and after its one wait. `n`
names a stop and is not in the code. `gone`, `ran` and `cut` are history.

What the properties allow, because the code does it: a reload resumes a running
stop without the segment since the last autosave, while Finalize counts it; a
finished stop not yet documented is lost with the page, whatever `README.md:33`
says; a span from before a New Shift is dropped at the next load; when a machine
disappears from the configuration, its open session is left on it.

### ShiftClock and Board

Instants are integers, a day is `Day` of them, and the two ways the code finds
the end of a shift (`shiftEndAt`, `shiftWindowAt`) are translated apart, so that
`EndsAgree` says something. `Board` has the memoised `window` and `boardStart`,
as old as `seen`: a tab in the background may miss any number of 30 s ticks.
`stops` and `sessions` only gain what the operator, a manual report or a pull
brings; how timer and presence get there is in `Operator`. `production` is keyed
by the id the code composes. `handout` is the dialog with its snapshot.

Left out: daylight saving time, goals, and every ratio. Two facts to know: the
id of an output record holds the start of the board, so output entered again
after New Shift is another record and is added; and it holds the machine's name
with everything but `[a-zA-Z0-9]` replaced, so two names that differ only in
other characters share a record (the run's machines have distinct ones).

### WatchDelivery

`saver[s]` is the coroutine that saves stop `s`, `sync` the server sync (one at
a time, under `serverSyncLock`), `acker` the service thread that takes an ack.
Each rewrites the outbox in two steps, as `addToOutbox` and `removeFromOutbox`
do. `toPhone` and `toWatch` only grow: a message may arrive late, again or
never. `PhoneStores` is `handleStop` with the upsert and the write of the file;
a write that fails is swallowed, may leave the file empty, and the stop is acked
all the same. `raced` and `unfiled` are history: what overlapping rewrites
dropped, what the phone held without its file. The server keeps what it
confirmed: `SyncServer` says when it does not.

### PhoneHub

| variable | code |
|---|---|
| `mem`, `file` | `PhoneStore.collections`, `companion-data.json` |
| `pushCursor`, `pullCursor` | the cursors in `Prefs`, which share a DataStore with the settings |
| `job` | where `runOnce` stands, with its local variables; `cancelled` once `forwardJob.cancel()` |
| `emitted` | `prefs.settings` has a value that its collector has not handled |
| `remote`, `now` | the server's records; the phone's clock, `Ahead` behind the server's |
| `fresh`, `skipped`, `late`, `lost`, `unfiled` | history, for the properties |

The store is under one lock, so `upsert` with `persist` is one step; a write
that fails may leave the file as it was or empty. `StoreLocal` is a POST at the
local server or a stop from the watch. The forwarder's steps are divided where
it waits for a request; a request is handled, refused, or not answered, before
or after the server handled it, at any clock it read since the request was sent.
`OthersPost` is a push of another device, or one that a forwarder gave up on.
`undone` is as in `WebSync`. `ApplySettings` cancels the forwarder and a new
run starts; the cancelled one ends where it next reads or writes a cursor, the
only suspension points of `runOnce` up to the config step.

Left out: the config step; the new forwarder running while the cancelled one is
still in its last request, which repeats an upsert of rows read earlier.

### QuickStop

| variable | code |
|---|---|
| `state`, `pending` | the controller's `TimerState` and `FinishedStop`, in memory |
| `writes`, `stored` | the coroutines `persist` launched; `inProgress` and `pendingStop` in the DataStore |
| `restored`, `read` | `restoredInProgress`; the first settings the collector was given |
| `discards` | the page's `discardStop` intents on their way to the service |
| `page` | whether the WebView is open, `nativePending`, `lastSavedSigRef` |
| `records` | what the page recorded for each stop |
| `undone`, `mistaken`, `reopened` | history: which stops met with which mishap |

Commands run on the service's main thread, in any order the surfaces send them.
`Kill` ends the process with the page in it; what `persist` had not stored is
undone, and `onCreate` starts the service again. The page shows what the
preferences say, later than the memory. `EveryStopOnce` names what goes wrong:
a start taken before the restore overwrites the saved stop or is overwritten by
it, against QuickStopController.kt:30-32 ("rather than losing it"); an intent to
discard names no stop and may drop a later one; a page opened again before its
discard was stored has forgotten what it saved and may record it again.

Left out: `documentPending`, which nothing in the page calls; names; the drawing
of bubble and notification; the page's off-machine span, which is closed only
when the page sees the native timer run (StopTrack.tsx:2366-2373), so a stop
timed while the page is closed stays inside an open span.

### StopEvents and Gateway

`StopEvents` is gateway/README.md as a state machine over what a consumer can
tell: which stop the gateway sees (`down`), which start was told and not ended
(`told`), when the last one ended (`last`). `Gateway` is the coroutine, divided
where it awaits: a read, and every sink's emit. `firings` are what the rules
made of the edges of one read, in the order of tags and rules; the handlers set
their state before they broadcast. A sink may raise; the consumer's does not.
`ReadFails` takes the whole loop with it, for all machines, and nothing in the
loop connects again: both are the code. `Seen` maps an end that is still to be
broadcast to the stop it ends.

What the abstract specification allows, because the code does it: a start that
is told while a stop is open takes that stop's place, and the first is never
ended (two rules, as in a machine with a running flag and a fault flag); a
restart forgets open stops, whose ends are never told.

Assumed: the clock is never set back (`now_ms` is `time.time()`, the wall
clock), and machines have distinct names (edge.py:34 keys its state by name, and
config.py does not check).

Left out: reason and fault code of an end, config parsing, a connect that fails,
the drivers. Several machines share only the loop and the process; the run has
one.

## The runs

| run | instance | shows |
|---|---|---|
| `server` | 1 id, 2 requests in flight, clock to 2, stamps to 3 | stamps stay honest, honest edits win, a slow upload undoes at most what is newer than its arrival, unsaved data has a save scheduled, saves keep up |
| `websync` | 2 devices, 1 record, time to 2, 1 push given up on, 1 kill or reload | a push takes a record back only to a moment since it was sent, and only when its record is stamped no earlier; the cursor passes over late arrivals only |
| `webflush` | 1 device, 3 records in 2 collections, time 1, 1 kill, reload or turning off, sync turned on by hand | a push that fails half way forgets nothing; what never reached the server was kept out of the outbox by a named slip, also with two sessions saved in one tap; the outbox drains |
| `wiped` | 1 device, 1 record | violated: "clear only after every push confirmed" |
| `settings` | 2 devices, one 1 ahead, 2 edits, 1 stray PUT, 1 reload, restore or sync off, time to 2 | the device of an edit keeps it or something newer, unless it crossed a GET; the factory's settings go back only by an author's skew, or by a slow PUT to a moment since it was sent; the device that is not ahead, and stays, settles with the server |
| `operator` | 1 operator, 2 machines, 2 stops, 3 sessions, 1 kill, 2 changes of setup, time to 3 | no downtime counted twice, none claimed that was not, none vanishing unnamed; presence never overlaps; an open session is known to who will close it |
| `board` | day, overnight and round-the-clock shift, 2 operators, 2 machines, 3 taps, a day and more | the board begins where the clock says, moves forward; manned time is real; a handover is filed once; the supervisor's sums agree |
| `watch` | 2 stops, 1 kill of either app | the two ways a stop can be lost are the only ones; the outbox empties |
| `phone` | 2 records of 2 collections, server clock 1 ahead, 2 inputs, 1 kill | each cursor passes only over what is named: pushes late or refused, pulls late, lost or replaced under a clock that is behind; the file is behind only where a write was left out |
| `phone_cycle` | 2 collections, no input, every request answered | violated: "pull remote deltas per collection" |
| `quickstop` | 2 stops, 2 writes and 2 discards under way, 1 kill, 2 records of a stop, time to 1 | a stop is lost, recorded twice or with another duration only through a named mishap |
| `gateway` | 1 machine with 2 flags and 4 rules, 2 sinks, minimum 0 or 2, time to 5 | the consumer gets what `StopEvents` promises, whatever the other sink does |

Why the bounds are enough. Records do not interact: every rule is per id, and
one id shows each conflict; where keys do interact (the outbox, the order of the
pushes) `webflush` has three records in two collections, so that one collection
can fail after the other was confirmed, and two are queued in one tap; its clock
stands still, so that a second save of one record looks like the first. Two
requests are what it takes for one
to overtake another. Stamps go one beyond the clock so that "ahead" exists, and
the clock takes three values: before, at and after a stamp. Two stops are what
it takes for two rewrites of the watch's outbox to differ, for one stop to run
into another, and for a late discard to drop the wrong one. One kill is at every
possible point of every behaviour; a second one starts from a state that the
first has reached. The phone's two records are of two collections, so that one
can be refused and the other taken under the one push cursor; an input is a
record stored by anybody or a changed setting. Two edits of the settings, by one
device or two, are what it takes for one to be older. The web devices of the
runs have their clocks in step with the server; with one ahead `websync` passes
as well (6.3 million states, too slow to keep), as do `webflush` with two
sessions, two moments and a push given up on, and `websync` with sync turned on
by hand and `UploadedOrSkipped`; the theorems hold for any skew and any numbers. The operator's clock
crosses the start of a shift; the board's runs from before the end of a shift to
the same time of the next day, so that a window is overnight, over and begun
again, with three taps of the operator or supervisor between. The gateway's time
leaves room for a micro-stop and a stop that lasts, one after the other.
`quickstop` has one tick, so a stop lasts nothing or one; with two ticks and
one discard at a time it passes as well (30.7 million states, too slow to keep).

Deadlock is not checked for the operator, the board, the watch, the phone and
its timer: once all stops are delivered, or the bounds of the inputs are
reached, they wait for somebody. It is checked for the server, the web devices,
the settings and the gateway.

## Fairness

- `SyncServer`: a waiting timer becomes due and a due one runs (Node's event
  loop). Nothing is assumed of requests, nor that they ever pause.
- `WebSync`: a flush starts now and then (the 25 s interval), a pull is answered
  or fails (the timeout of `fetchJSON`), and each collection's pushes are handled
  and answered infinitely often if they are tried infinitely often (strong
  fairness): the network may fail any number of times, but not for ever.
- `Settings`: a flush comes to its config step now and then, whose GET and PUT
  are handled and answered infinitely often if tried infinitely often, and only for the devices in
  `Patient`; any other may close its page for good. `OneSettings` is about the
  patient ones.
- `WatchDelivery`: coroutines and the service thread run on; the heartbeat
  starts a sync; a push is confirmed if it is tried for ever. Nothing is assumed
  of the phone, so the outbox empties without one.
- `PhoneHub`, in `phone_cycle` only: the coroutines run on and every request is
  answered, the best the forwarder can hope for.
- `Gateway`: the loop goes on while the process lives (`asyncio.wait_for` ends,
  a read and an emit return or raise). Nothing is assumed of the plant, nor that
  a process that ended is started again. From it follows the fairness of
  `StopEvents`: a start that stays due, of a machine that stays in sight, is
  told.

## What is proved

For every value of the constants that meets the named assumptions:

- `SyncServerProofs`. `Inv` is `TypeOK`, `NoFutureStamp`, `ClocksInOrder` and
  `UnsavedIsScheduled`. `NoFutureStamp` alone is not inductive: a handler clamps
  to the clock it captured, so `ClocksInOrder` (no clock the process remembers
  is ahead of `now`) is what makes the stored stamp honest. `UnsavedIsScheduled`
  needs it too, because memory equals the file only up to the repair at
  `bootNow`, and that repair must still be a no-op on what was repaired. The
  lemmas on `Lww` (`ClampFacts`, `NormalizeFacts`, `UpsertFacts`,
  `UpsertAllFacts`) carry the arithmetic; each action has one lemma.
  `HonestEditsWin` follows from `Inv` in each state, and `RegressOnlyToArrival`
  from `Inv` in each step.
- `AndroidProofs`, the watch. `LossOnlyByRaceOrFailedWrite` is not inductive: a
  removal could be of a stop that nobody has. `RemovalsAreOfDelivered` says that
  what each thread is about to remove is on the server, or was held by the
  phone, and that the phone's memory and acks are covered by its file or by
  `unfiled`. `WriteOutboxFacts` bounds what a rewrite drops.
- `AndroidProofs`, the phone's stop timer. `EveryStopOnce` says of a state what
  became of each stop; of what a kill, a restore or a late write will make of it
  it says nothing, so it is not inductive. `Inv` looks at the copies of the
  timer as a line (`Line`): the stored one, then every write that was launched,
  in order; `Latest` has memory agree with the last of them. Of a stop that met
  with no mishap, the copies along the line time it, then await its reason, then
  no longer have it, and never the other way (`Followed`); they claim what it
  ran (`Timely`); what the page recorded is not shown to it again (`Answered`)
  and was recorded once (`Once`); a discard under way is for a stop the page
  recorded or the operator dismissed (`DiscardsAreMeant`). `BeforeRestore` has
  memory empty until the restore, or all stops among the mishaps, and
  `OneAtATime` has one copy hold one such stop. A kill cuts the line to its
  first copy, a write moves it one on, a command adds one: each conjunct has one
  lemma per such kind of step, for any number of stops, writes and kills.
- `PhoneHubProofs`. `FileInStep` is inductive as it stands; `UpsertInStep` is
  the case that matters, for any batch. What the cursors pass over
  (`ForwardedOrSkipped`, `PulledOrLate`) is not: a run reads the store, waits,
  and moves a cursor later. `Inv` says what is true while it waits, per phase of
  `job`: the rows it holds are behind the store they were read from, a
  collection it has pushed is on the server or refused (`Forwarded`,
  `PushCovers`), the rows of a pull cover what the server had at its time
  (`PullCovers`). `Ahead` is any number, and that is what makes it long: a stamp
  ahead of the phone's clock lets its memory go back, and `AheadIsRemote` with
  `FileIsBehind` says that the server then has the record.
- `WebSyncProofs`. Of any number of devices, records and collections, with any
  skew. `Inv` adds to the properties: stamps are not before the write they date
  and not after the clock of their holder (`RecordsAreDated`), what is rendered
  or queued for rendering is behind the store (`StoreIsAhead`), the server holds
  what a push under way is done with (`PushedIsHeld`), the rows of a pull are
  the server's (`PullsAreFromServer`). `PullMissesOnlyLateArrivals` needs the
  last, `UploadedOrSkipped` the third. `Reached` survives a slow push because
  the stamp it takes the record back from is kept in `undone`.
  `SlowPushesUndoOnlyLater` comes down to one step of `Upsert`: stored and pushed
  stamp are compared after both were lowered to the clock the handler captured,
  so a record that loses to an older one was stamped at or after that clock, and
  so was the one that replaces it.
- `SettingsProofs`, for any devices and any skew. `EditsAreKept` needs to know
  what a flush that awaits its GET will compare: settings as new as every edit
  its device made before it asked (`FlushKnows`). For
  `RevertsBySkewOrSlowPut`, every copy of the settings, stored, sent, in a backup
  or in an answer, is stamped with the time of its edit and its author's skew,
  because a step only copies settings or makes an edit now; a PUT is not sent
  before its settings were edited; and the server's own stamp is not before the
  edit it holds. A PUT then wins with a later edit, or with one that is older by
  no more than the skew, or by the clock it captured, which is since it was sent.
- `OperatorProofs`. Everything the `operator` run checks, for any operators,
  machines and bounds, under the hypothesis `~Probing` (with `Probing` the
  stored stop is read while another runs, and the properties fail). `Inv` has
  what ties the page to its storage over a kill (`PageInStep`), that a stop is
  timed, awaits a reason or is a span, one at a time (`OneAtATime`), the
  arithmetic of the autosaved copy and of every claim (`SaveIsFine`,
  `ClaimsAreFine`), that records end before what is under way began
  (`RecordsAreOver`), and the order of presence (`SessionsInOrder`,
  `AwayIsAway`). `DowntimeCountedOnce` and `NeverOvercounts` follow record by
  record (`RecordedStep`); `OnePlaceAtATime` and `OpenSessionIsKnown` in each
  state; `DowntimeKept` step by step (`KeptIf`).
- `GatewayProofs`. For any machines, rules, values, sinks and thresholds,
  `Inv` and then `GatewayKeepsItsPromise`: the loop implements
  `StopEvents!Safety` under the mapping of `Gateway`, a step of the abstract
  specification or a stutter for each action. `TypeOK` does not say what is
  being broadcast; `OneStopGoesOut` does: one stop's start, its end, or both in
  this order. `StopIsOrdered` relates per machine the open stop, the start the
  consumer was told and the last end. The fairness of `StopEvents` stays with
  TLC.
- `BoardProofs`. For any length of the day and any shifts: the two ends of a
  shift agree while it lasts (`EndsAlwaysAgree`), a board is less than a day old
  when it is computed (`NoMultiDayShift`), and, in every step that keeps the
  shift, the board does not move back (`BoardOnlyMovesForward`). The last is not
  inductive: the invariant `BoardInv` says that window and board are those of
  the last recomputation and the last New Shift, neither in the future. The
  lemma it comes down to is that the window of a later instant does not begin
  earlier, also not its overtime end (`MidnightSteps`, `WindowFacts` and those
  after them), by cases on how many midnights lie between.
  `BoardAlwaysMatchesTheClock` compares the arithmetic on midnights with a
  search for the shift's hours, through `SameTimeOfDay`: less than a day apart,
  two instants at one time of the day are one. `PageInv` adds types and what is
  filed of an open dialog, for `FiledOnce`. A stop of the week is in the bar of
  its day and in no other (`EachStopHasOneBar`).
- `BoardProofs`, the sums. A sum over a set is a fold, and the induction it takes
  is over sets, which no installed prover can cite with a property as parameter.
  `SetInduction` has a *set* of subsets in that place and follows from the least
  number of elements of a counterexample (`LeastNumber`, from the library's
  well-foundedness of `<`). From it come that the fold is a sum whatever element
  it takes first (`SumRules`), that a sum is the sum of the sums by any key
  (`SumByKey`), and that numbers which climb no higher than a bound add up to no
  more (`SumBound`). `ChartsAlwaysAgree` is then `SumByKey` for the machine, the
  operator and the bar of a stop. `MannedTimeFits` needs `SpansInOrder`, that no
  presence span begins before the one before it ended; their clips then fit side
  by side (`ClipsAddUp`), and the elapsed shift holds them
  (`ElapsedAlwaysFits`).

The assumptions are `NoRecAssumption`, `ServerAssumption`, `SyncAssumption`,
`NoRecIsNoRecord`, `SettingsAssumption`, `OperatorAssumption`,
`ClockAssumption`, `BoardAssumption`, `WatchAssumption`, `QuickStopAssumption`,
`HubAssumption` and `GatewayAssumption`: sentinels are not values, bounds are
natural numbers and leave room for the initial time, every record is of one of
the collections, a day is not empty, a shift's times lie in a day, machines and
operators are finitely many, the board's clock is past 0 (an open span ends at 0
in the model), the consumer is one of the sinks. TLC evaluates them in the runs.
The theorems of `OperatorProofs` have the hypothesis `~Probing` besides; their
statements say so.

Every invariant, every action property and the safety part of the refinement
that the passing runs check are proved.
Only model-checked is liveness, which is outside what the prover does:
`SavesKeepUp`, `OutboxDrains`, `OutboxEmpties`, `OneSettings`, and of
`KeepsItsPromise` the fairness of `StopEvents`.

## Where the code and its documents disagree

With a run whose counterexample shows it, and an entry under `findings`:
emptying the web outbox forgets what was queued meanwhile (`wiped`); the phone's
forwarder cancels itself whenever it saves a cursor, and may never come to the
later collections (`phone_cycle`; with the cancellation taken out of
`ApplySettings` the property holds).

Without a run of their own; the property named allows for exactly this:

- server/README.md:82 "keeping the newer": a slow upload, compared by the clock
  captured before its body came, replaces a newer record (`RegressOnlyToArrival`
  bounds by how much at the server, `SlowPushUndoesOnlyLater` from the devices).
  PUT /config does the same to settings (`RevertsBySkewOrSlowPut`), also when all
  clocks are in step.
- server/README.md:6, the supervisor sees stops from every device: a stop
  uploaded after a pull with a stamp from before it is passed over by the
  cursor (`PullMissesOnlyLateArrivals`).
- OperatorViewModel.kt:222 and 204, removed only after the server confirms: two
  rewrites of the outbox race (`LossOnlyByRaceOrFailedWrite`).
- RemoteForwarder.kt:15 "any failure leaves cursors untouched to retry": a
  collection refused while another is taken is passed over by the one push
  cursor (`ForwardedOrSkipped`); and an upsert that ties replaces the record in
  memory without writing the file (`FileInStep`).
- QuickStopController.kt:30-32, a restart resumes "rather than losing it": not
  when a start comes before the restore (`EveryStopOnce`).
- README.md:33 "nothing is lost": the load of a page without sync configuration
  waits up to 2.5 s for /health (StopTrack.tsx:1864) while the buttons work. A
  stop started meanwhile is autosaved, then read (1931) and offered as an
  unfinished one, and is recorded twice. A presence session opened meanwhile is
  closed by the load as one that was left behind (1911-1919), while its heartbeat
  goes on writing it as open (1820), so that a later kill leaves it open unknown
  to the next load. `Operator` has this under the constant `Probing`: with TRUE
  every safety property of the run but `TypeOK` fails, so the run has FALSE.
- server.js:118-124, a device that is ahead "used to poison the shared data":
  PUT /config stores the raw stamp inside the blob (427), the others adopt it
  (StopTrack.tsx:2030), and an honest device that did puts its older copy back
  over a later edit. `RevertsBySkewOrSlowPut` allows it for as much as the
  author's clock was ahead (the run has such a device). For records, StopTrack.tsx:781-787
  clamps with the device's own clock, so a device that is ahead refuses a later
  edit.
- StopTrack.tsx:2399, one output record per machine, shift and operator: see the
  ids under Board.
- StopTrack.tsx:2082, machine and lock are stored so that "a locked setup survives
  a page refresh": `switchMachine` stores nothing, so the machine of before is
  back after a reload.

## Plan

Modelled so far: the rule, the server, web sync, the settings, the operator's
page, the boards, the watch's delivery, the phone's forwarder and timer, the
gateway; and all that is safety is proved. What would come next:

1. `PhoneHub`, the rest: the config step of `runOnce`, and the page, the phone
   and the server in one composition.
2. The watch's own timer and autosave.
3. The server of `WebSync`, `Settings` and `PhoneHub` as an abstract
   last-write-wins register that `SyncServer` implements.

Not to be modelled: mail, rendering, export, PIN hashing, OEE and goals
(floating point), PLC drivers, build scripts. The token check and the rate
limiter only decide whether a handler runs.
