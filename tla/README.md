# RemoteLauncher in TLA+

RemoteLauncher starts desktop applications on a Linux machine from an Android
phone. This directory specifies the parts of it whose correctness depends on
the order of events: the Go server under `server/`, the Android client under
`android/`, and the systemd unit under `packaging/`.

* `tlc -config X.cfg MCName.tla` checks a model.
* `tlapm Name_proofs.tla` checks proofs (TLAPS 1.4.5 with Z3, Zenon and LS4).
* `PROJECT.json` maps every definition to the lines it stands for, lists the
  runs, the mutations that each property detects, hazards and findings.

## 1. The system

| Part | State | Operations | Talks to |
|---|---|---|---|
| Token store, `auth/store.go` | `tokens` (map by hash) under `s.mu`, `tokens.json` | `Load`, `Add`, `Revoke`, `Save`, `Validate` | pair handler adds; every authenticated request validates |
| PIN session, `auth/pin.go` | `pin`, `consumed`, `expiresAt` under a mutex | `Current`, `Consume`, `Regenerate`, `Status` | pair handler; PIN panel of the admin page |
| Pair handler, `httpapi/pair.go` | none between requests | `POST /api/pair`: compare, consume, issue, reply | limiter in front, PIN session, token store, phone |
| Rate limiter, `auth/ratelimit.go` | one counter and window end per address, one for all | `Allow` | middleware of `/api/pair` |
| Launcher and tracker, `launcher/` | PIDs by application id; one goroutine per child | `Launch`, `LaunchCommand`, `Register`, `Forget`, `Alive`, `Cleanup` | launch handler, apps handler, cleanup loop, the system |
| Lifecycle, `cmd/remotelauncher/main.go`, `packaging/*.service` | two `http.Server`s, two error channels, a signal context | start, select, two shutdowns | systemd |
| Visibility and shortcut stores | a map (and an order) under a mutex, a JSON file each | `Load`, `SetHidden` / `Replace` | admin page writes, `/api/apps` and launch read |
| Admin page, `web/`, `admin/` | script state in every tab | whole-list saves, PIN panel | stores, PIN session |
| TLS certificate, `tlsutil/cert.go` | `cert.pem`, `key.pem` | `EnsureCert`, `Fingerprint` | the phone pins the key |
| Terminal, `terminal/`, `TerminalBridge.kt` | PTY session and WebSocket per connection | two relaying goroutines, `Close` | token store at the upgrade |
| Catalog, `catalog/`, `desktop/` | list and map under a lock, filled by one scan of the desktop files at startup | `Load`, `List`, `Get`; parsing of entries and Exec lines | apps and launch handlers |
| REST handlers, `httpapi/` | none | `GET /api/apps`, `POST /api/apps/{id}/launch`, status, icons | catalog, stores, launcher, token store |
| Icons, `icons/` | theme indexes, read once | `Find` | icon handler |
| Configuration, `config/` | none | `Load`: defaults, file, environment, flags, validation | `main` |
| Phone: `ConnectViewModel`, `PairingViewModel`, `AppsViewModel` | one UI state each, `PinHolder`, encrypted preferences | coroutines that suspend on requests | server |

What is hard about it:

* **Goroutines.** Every request is one. The stores change memory under a lock
  and write the file after releasing it; the pair handler takes the PIN
  session's lock twice; a child's reaper races prunes and new launches.
* **Crashes and restarts.** The unit says `Restart=on-failure`. Tokens, hidden
  list, shortcuts and certificate must survive; PIN, limiter and tracker do not.
* **Failures half way.** Writes fail after memory has changed; minting fails
  after the PIN is consumed; one listener dies and not the other.
* **Time.** PIN expiry, limiter windows, the phone's ten-second timeout with a
  retry, the grace period of a shutdown.
* **Ordering on the phone and in the page.** Answers of overlapping requests,
  whole-list saves from two tabs, overlapping loads, one coroutine per key stroke.

What makes each part correct:

* Token store: a token whose `Add` returned survives any crash; the file is
  never torn; memory and file agree when nothing is being written.
* Pairing: one PIN, one token; no consumed PIN without an account of it; a phone
  that was told that it is paired is served.
* Rate limiter: the budget holds; a refusal tells the truth; nobody is refused
  below the budget.
* Tracker: what runs is shown as running, what has exited ceases to be.
* Lifecycle: the server stops when it is told to and only then; it never goes
  on with half of its listeners; a clean status means no request was cut off.
* Stores of settings: as the token store, and an error means nothing changed.
* Certificate: a phone that pinned the key can connect after any restart.
* Terminal: bytes in order; a closed socket ends the shell and its goroutines.
* Catalog and list: of several files with one id the right one counts; an answer
  made of several reads is still an answer; what is shown can be launched.
* Phone: no spinner without a request; a refusal costs the token it is about.
* Configuration: the topmost layer wins, a typo in any layer stops the start,
  and what runs satisfies every rule of `Validate`.

## 2. Modules

| Module | What it is |
|---|---|
| `SnapshotFile` | Abstract: a value in memory, a durable copy of it, and the values that may still reach the copy. The file may lag; it moves only to a value that memory held in the same life of the server. Three stores implement it. |
| `TokenStore` | `auth.Store` with concurrent callers, a temp file each, failing writes, process death, restart. |
| `Pairing` | PIN session, the stages of a pair request, minting, phones. |
| `PairEndpoint` | `Pairing` composed with `TokenStore`: the pair endpoint as `main.run` wires it up, with crashes and restarts. |
| `RateLimiter` | `Allow` and the middleware's header, over a clock. |
| `Tracker` | `Launch`, the tracker, a machine that reuses PIDs, restart of the server. |
| `Config` | `config.Load`: the four layers of settings and their validation. |
| `Lifecycle` | `main.run`, with the configuration of `Config`, its two servers, signals, the service manager. |
| `VisibilityStore` | `visibility.Store`, its PUT and GET handlers, and the tabs of the admin page that call them. |
| `ShortcutStore` | `shortcuts.Store`, its handlers, a tab of the page and other clients. |
| `TlsCert` | `EnsureCert`, `Fingerprint` and the listener: two files and a server that may die anywhere. |
| `PhoneConnect` | `TlsCert` composed with `ConnectViewModel`, `PinHolder` and the trust manager of one phone. |
| `TerminalRelay` | One terminal connection: handler, session, two goroutines, shell, the phone's bridge. |
| `DesktopEntry` | `desktop.Parse`: a desktop file line by line. |
| `ExecLine` | `SplitExec` and `Expand`: an Exec line character by character. |
| `Catalog` | The directories of desktop files, the scan (with `DesktopEntry`) and the table. |
| `PhoneApps` | `Catalog` composed with the list and launch handlers, the operator, restarts, and `AppsViewModel` and the navigation of one phone. |
| `ThemeIndex` | `icons.LoadThemeIndex`: an `index.theme` line by line. |
| `Icons` | `icons.Finder` and the icon handler: base directories, chain of themes (with `ThemeIndex`), candidates, size. |
| `MC*` | Model values for TLC, symmetry, and the laws of pure algorithms over short inputs. |
| `*_proofs` | Theorems and their proofs. |

### TokenStore

`tokens` is `s.tokens` reduced to its keys; `file` is `tokens.json`; `pc`,
`job`, `tmp` say where each caller stands between `s.mu.Unlock()` and the
return of `writeTokensFile`. `Begin` is the critical section that `Add`,
`Revoke` and `Save` share; `FillTemp` is everything up to the close of the temp
file (its content is not visible before the rename); `Rename` publishes it;
`WriteFails` is any early return. `Load` and `LoadRefused` are the two ends of
`Load` at startup. `verdict` remembers what callers have been told about a
hash, until it is overtaken; `alone` and `taint` record whether a write had a
rival or failed, which is what the promises depend on. `Abstract` maps the
state to `SnapshotFile`: what may still reach the file is the map and the
snapshots of the callers in mid-write (`Pending`).

A crash is the death of the process. The code syncs the temp file and not the
directory, so after a power loss the rename itself may be undone; that is not
modelled. `Init` lets the file hold anything, unparsable content included. The
timestamps of a token are left out.

### Pairing

One record per request slot walks through compare, consume, issue and reply. A
PIN is a drawing (`gen`) with digits (`pin`): two drawings may have the same
digits. `ledger` holds for every token the drawing the handler compared with
and the one it consumed; where they differ, the PIN that was typed is not the
one that was spent. A phone sends, waits, gives up (timeout, lost connection,
screen left) and may send again while the server still works on its first
request. Storing the token may fail. The process may die with requests under
way (`Die`), and a phone may find nobody to talk to (`Unreachable`). `pin_ttl`
is positive: configuration refuses anything else.

### PairEndpoint

The two models share the slots: a pair request is a caller of the store. `Mint`
is `storeTokenIssuer.Issue` up to the unlock in `Add`, and so `Issue` of
`Pairing` and `Add` of `TokenStore` at once; `Persist` is the write of the
store; `Reply` is the answer, which waits until `Add` has returned. `Crash` ends
both; `Start` loads the file and draws a PIN. `forfeited` is a history: the
tokens that were in memory and not in the file when a process died whose writes
had failed or overlapped. The limiter in front of the handler is left
out: a request that it refuses is one that a phone has not sent.

### RateLimiter

Time is in ticks, `TicksPerSecond` of them in a second, because windows are
durations and `Retry-After` is in whole seconds. `told` and `retryAt` are
histories of what clients saw. `admitted` and `total` say for each tick how many
requests had passed up to it, so that what passed in a stretch of time is a
difference of two values (`Spent`). An address is a model value: how the
middleware derives it from a request is outside the model.

### Tracker

The list of an id is a bag: nothing reads its order, and `Forget` may remove
any of several equal entries. `proc` is the process table, with zombies,
processes of strangers and programs that changed their user, for which `kill`
answers `EPERM`. `StartChild` and `Register` are the two halves of `Launch`,
`Reap` and `Forget` those of its goroutine. `late[id][p]` counts reaping goroutines between the return of
`Wait` and `Forget`. `Pids` and `Snapshot` read and change nothing. A failing
`cmd.Start` changes nothing. At a `Restart` the service manager may kill the
children with the control group or spare them; those that live on belong to
`init`, keep their PIDs, and are strangers to the new server.

### Config and Lifecycle

A layer of settings maps the options it mentions to what is written there.
`setup` is the surroundings of a start (flags, environment, files), a new one
at every start; `cfg` is what `Load` makes of it, and `Start` needs one that is
not refused. Where options are treated alike one stands for all of them, so the
width and format of durations, addresses and TOML are outside; what differs is
kept: an empty text is a value for free texts and an error elsewhere, an
unknown key is an error on the command line only, flags are parsed before and
applied after everything else. `main` is where `run` stands; `apiErr` and
`webErr` are the channels; `signalled` is the context of `NotifyContext`, which
swallows further signals. Returning from `main` ends everything (`Exit`).
`net/http` and systemd are external: `Shutdown` closes the listener at once
(one that has not opened yet never will), returns nil when no request is in
progress, or the context's error. systemd restarts after a failure only and,
without `KillMode`, clears the control group when the main process has ended,
whether for a stop or a restart. WebSockets, which `Shutdown` ignores, belong
to the terminal.

### VisibilityStore

`put` has a record for each PUT under way, from the click to the answer: it
carries the list that the tab showed when it sent it. `Toggle` is
`toggleVisibility` up to its `await`, `Answer` the rest. Other clients of the
API (`Post`) save any list.

`page[t]` is the list that a tab has, `listed` whether it has one, `loading`
whether a spinner hides it. `load` has a record for each call of the page's
`load()` under way. Nothing keeps a second call from starting before the first
has ended, since every save of a shortcut makes one and disables nothing
meanwhile: the first answer ends the spinner, the user goes on, and the second
answer, which may have been read earlier, takes the place of the list. So the
loads of a tab overlap in any way here, with each other and with its saves. The
answer of one is read one flag at a time (`ReadFlag`), because the handler asks
`IsHidden` once per application without holding the lock, and `Show` is what the
page does with it. A tab that gets another list (`Gets`) has no requests any
more (`NoTab`): what they flip back later is an object that nobody shows.

Histories say on what the promises depend: `alone` and `behind` as `alone` and
`taint` of the token store; `old`, that a save was applied behind what a load has
read; and `astray[t]`, the reasons for which tab `t` may differ from the server:
its list came from a load that was old, another client saved since, its own
requests could overtake each other, a write failed, or the server died while
memory was ahead of the file.

### ShortcutStore

A shortcut in memory or in the file is its id, a number so that the file can be
sorted. An entry of a request has a form as well: as it should be, with spaces
around the id, with a required field that is blank or empty, or with a slash in
the id. `Trim`, `Valid` and `Accepts` are what `Replace` does to it, the same
check as in `Load`; `Reject` is the 400. `order` is `s.order` (whose entries
are the keys of `s.items`). `Delete` is the page's: it sends the list `Without`
one entry. The same stages as above, and one more: the handler
reads the list again for its answer (`List`), which the page then shows. `old`
marks calls that carry, or were made from, a list that is not the server's any
more. Other clients of the API (`Post`) send any list, one with an id twice
included; `Bad` is a file that `Load` refuses.

### TlsCert and PhoneConnect

A certificate, a private key and a fingerprint are the number of the key pair
they belong to, and 0 is a file that does not load. `os.WriteFile` truncates
before it fills, which are two steps; between any two, `Down` ends the run.
`first` is the pair that a listener served first; `spoilt` remembers that
somebody else touched the files.

`PhoneConnect` extends `TlsCert` with one phone that knows one server. The
coroutines of `viewModelScope` run on the main thread and are cut where they
suspend: `runConnect` at its request, `confirmPin` at the write of the server's
address. `Exchange` is the handshake, in which the trust manager records what
it sees and compares it with the holder, and the answer. Both outcomes of
`Bootstrap` that end in a failure stand in the model because they do in the
code; that neither is reached while the server is honest is what
`NoFalseMismatch` says.

### TerminalRelay

`out` and `in` are the goroutines from and to the PTY, each reading, writing
or done; `handler` walks through `<-ctx.Done()` and the deferred calls in their
order (cancel, `Session.Close`, close of the socket). The PTY reads as ended
when no process has the terminal open, so background jobs (`jobs`) matter. The
bridge launches one coroutine per key (`launched`), and these run in any order.
`conn = "lost"` is a phone that is gone without TCP knowing it yet. `screen`
follows the page from its injection over `_boot` to the open connection;
`Disconnect` may come at any of these moments. `known` decides whether the
upgrade is refused. `calm` is a history: the user has typed each key with the
connection open and the key before it sent. When the server dies (`Die`), the
kernel hangs the terminal up and `init` reaps the shell.

### Catalog and PhoneApps

`disk` is what the directories hold while a scan runs; edits during a scan are
left out, and the files are dropped from the state when nobody reads them any
more. A file is its place in the walk, the number of its directory and of its
path there, `Before` is the order of those, and `left` what the scan has still to
read. `ScanFile` is the callback of `WalkDir`, `Reload` the swap. `IdOf` is the
file-name rule that lets `x/y.desktop` and `x-y.desktop` meet. The running flag
(see `Tracker`) and the order of the list are left out.

In `PhoneApps` an id is a pair of prefix and name. A desktop file named
`custom:...` would be taken for a shortcut by the launch handler; there is none.
`get[s]` is one refresh, from the coroutine through the handler's reads
(`ListApps`, `Merge`, one `Filter` per application, `Answer`) to the new state of
the view model (`Receive`). The set of hidden applications is any at the start,
and the operator may put any other in its place (any of `Hideable`, a bound). `known`, `visible` and `always`
are histories of a request: what was there at some moment of it, what was not
hidden at some moment, and what was both all the time. `AnswerWithinHistory` puts
the answer between the last and the intersection of the first two. An answer
need not be a subset of what was on offer, there and not hidden, at any one
moment: a hidden shortcut that the handler has read, is then deleted and then
unhidden (its name stays in the set), comes up once more, although it was never
on offer.

The phone writes an id into the path of `POST /api/apps/{id}/launch` as it is, while
the admin page encodes it. `InPath` says what has become of each id when the
router finds it: most arrive whole (`Whole`); "#" and "?" end the path, which
then fits no route (`Cut`: a 404 of the router, before the token is looked at); what
follows "%" is refused (`Malformed`) or decoded, perhaps to the id of another
application. Stores and scan accept all of these ids, the list shows them, and a tap on one
goes where `InPath` says (`Answers`). `InPath` is a constant, and the
theorems hold for any. `tap.whole` notes that the id tapped arrives whole.

`removed`, `suspect` and `excused` follow a shortcut that is deleted,
or a restart, into a list on the screen and a tap on it. `Loaded` with its list
is `ui` and `shown`.

The screen of the applications keeps its view model while a screen opened from
it is in front. Once the connect screen has left the back stack, `popUpTo` finds
nothing to pop, so Back leads from pairing to the old list: `Back` and the
requests that go on meanwhile are in the model. A second successful pairing puts
a new screen, with a model of its own, on top; the one below is forgotten, since
Back from the top is not modelled. Snackbars (`AppsUiEvent`), pushed to a
buffered channel, are left out.

### Pure algorithms

`ExecLine`, `DesktopEntry`, `ThemeIndex` and `Icons` have no state. Each has a
definition that follows the code (step by step over characters or lines, a chain
and a choice) and a reference that says what should come out: `RoundTrips`,
`Written`, `Declared`, `FindsTheBest`. `Parse` carries a section, a flag and an
entry from line to line (`Reading`); `Written` looks everything up at once: the
group above a line (`Under`), the last line of the entry's groups that names a key
(`Said`), and whether every line fits where it stands (`Fits`). That the two
agree is proved for every file. A loop of `exec.go` is a step and the state that it
starts from (`Loop`): `Read` over the characters of a line, with a backslash that
waits for its character in the state where the code looks one ahead; `Write` over
those of a token; `Expand` over the tokens. `ExecOf` writes the line that a list of
arguments needs, and `RoundTrips` says that it comes out again; that is proved for
every list. `LoadThemeIndex` goes from line to line like `Parse` (`IndexReading`)
and `Declared` looks up, and that these agree is proved as well. The recursion of
`resolveThemeChain` is a step, `dfs`, on the order so far and the calls that its
loops have still to make, `pending`: a step is the next call that does not return at
once, and as no name is met twice there are no more of them than names
(`visited`). `MCPhoneApps` compares the definitions over all
short inputs: as invariants in the states in which the server is up, where a
failure would be met, and as the assumptions `EntryLaw` and `IndexLaw`, which
TLC evaluates, for entries and for `index.theme`. `FindsTheBest` is about the
answer of the icon handler, with its default size and its limits; the reachable
themes are those that the index files declare (`Reachable`: what every set has
that holds the theme and with a theme its parents), and it is proved for every
request. A file is the base and theme it
is in and the directories that `sizeFromParts` reads; names and extensions are
left out. `CatalogIsTheMerge` is about what is `Written` in the files, too.

## 3. What is checked

| Run | Bounds | Shows |
|---|---|---|
| `TokenStore.cfg` | 2 callers, 2 tokens; crashes and failures at any time, unbounded | `MirroredWhenQuiet`, `AnswersDurable`, and that the store implements `SnapshotFile` |
| `TokenStoreOrder.cfg` | same | finding: `EveryCallMirrored` fails |
| `Pairing.cfg` | `PairEndpoint` with 2 phones, 2 slots, 4 drawings (and tokens) of 2 PINs, TTL 1, clock to 2; crashes and failing writes at any time, unbounded | `OneTokenPerConsume`, `ConsumedIsAccounted`, `PairedIsServed` |
| `RateLimiter.cfg` | 2 addresses, budgets 2 and 3, window 3 ticks, clock to 6, 2 ticks a second | `TwiceTheBudget`, `RefusedOnlyWhenSpent`, `NoAdmissionBeforeTold`, `HeaderCoversWait` |
| `Tracker.cfg` | 2 ids, 2 PIDs, 2 pending Forgets per id and PID | `EveryEntryHasReaper`, `TrackedUnlessReused`, and `ExitNoticed` under fairness |
| `Lifecycle.cfg` | 18 surroundings of a start, 2 requests per server, 1 application | `RunsAsConfigured`, `PageOnDrainsOnlyWhenTold`, `CleanExitCutsNothing`, and under fairness `SignalEnds`, `DeadListenerRestarts` |
| `LifecycleWebOff.cfg` | same | finding: `DrainsOnlyWhenTold` fails |
| `VisibilityStore.cfg` | 2 applications, 1 tab and other clients, 2 requests, 2 loads; crashes and failures at any time, unbounded; symmetry of applications, requests and loads | `MirroredWhenQuiet`, `PageAgrees`, and that the store implements `SnapshotFile` |
| `ShortcutStore.cfg` | 2 ids, 1 tab, 2 calls, 9 lists from other clients; crashes and failures at any time, unbounded | `MirroredWhenQuiet`, `SaveTouchesOneEntry`, and that the store implements `SnapshotFile` |
| `PhoneConnect.cfg` | 3 key pairs; crashes, damage, kills of the app unbounded | `PinStaysValid`, `NoFalseMismatch`, `PinnedUnlessDismissed` |
| `TerminalRelay.cfg` | 3 keys; a shell may ignore SIGHUP, the server may die | `CalmKeysArrive`, `EndsForAReason`, and under fairness `EndsAll`, `ExitCloses` |
| `PhoneApps.cfg` | 3 sets of files over 3 names with 2 ids in 4 directories, 1 shortcut, one id that no URL carries, the others hidden or not, 2 refreshes and 1 launch under way, 2 tokens, 2 changes or restarts; arguments of 2 characters, desktop files of 5 lines, index files of 4, 2 icons (3 in one theme), the theme T or none configured, 3 sizes asked for | types, `CatalogIsTheMerge`, `AnswerWithinHistory`, `ShownIsLaunchable`, `TokenKept`, `WaitsForRequestsOnly`, and the laws `ExecRoundTrips`, `IconsAreFound` |

Where type correctness is a theorem (section 4), the run leaves it out, as it
does with `NeverTears` of `TokenStore`, which follows from the refinement, and
`ServedOnceServedForGood`, the lemma behind `PinStaysValid`. All of them hold
under the bounds of the run. `PhoneApps.cfg`, with 4.4 million states, is the
longest run, about three minutes.

Why the bounds are enough. Two callers are the least that can overlap, and a
third adds no new order of snapshot and rename for two tokens. Two slots let a
phone's first request still run while it or the other phone asks again; what three do is covered by the proofs. Four drawings are two at starts of the
server, one by the operator and one more in either role. Three keys are enough
for one to be lost, doubled or overtaken between two that arrive. The clock of the limiter covers two whole windows and the start of a third, and
a window of three ticks at two a second is not a whole number of seconds. A PID
has to come back once to be confused with its predecessor; two of them let a
stranger and a second launch in. Two requests per server are one that ends and
one that hangs. Two requests let a tab be overtaken by itself and by
another client, which in both models of stores does whatever a second tab could
do, and more; two loads can end in either order, and a list of two applications can
be read in two pieces. Three key pairs
are one that a phone has pinned, one that replaces it, and one whose files are
cut short. The surroundings let each pair of neighbouring layers disagree, put a
typo into every layer under a higher one that hides it, break every rule of
`Validate`, and take `perIP` and `global` from different layers. The sets of
desktop files let a user replace, hide and break what the system has, and two
files of one directory share an id; a shortcut has the same name as the
application, so that only the prefix keeps them apart. The one application with
"#" in its id is never hidden in the run (`Hideable`): the filter does not tell it
from the others. Two refreshes overlap as
three would, because each replaces the whole state; two tokens are the old one
and the new one; of two changes one can fall into a request and one after its
answer. Five lines are two groups with a key each and one more line. What the
bounds leave open is closed by proof for the safety properties (section 4).

Fairness. `Tracker`: a goroutine that can run does run, so `Register`, `Reap`
and `Forget` are weakly fair for each PID and id; no child has to exit, nobody
has to ask, and the cleanup loop is not needed. `Lifecycle`: the main goroutine
runs when it can, and the grace period is finite; no request has to end and no
listener has to open. `TerminalRelay`: a request for the upgrade is answered,
and a goroutine that can run does run where nobody else can hold it up, that
is, when its next step is a failed read or write or a deferred call; a write to
a full terminal, or to a phone that does not read, may take for ever. SIGHUP
ends a shell that does not ignore it, and TCP notices a dead peer. No one has
to type, exit or disconnect. The deadlock check is off there because a
connection that has ended does nothing more. The other specifications state no
liveness. That the phone's waits end is a matter of the client's time-out of
ten seconds, `TimeOut` and `TapTimesOut` in `PhoneApps`: `WaitsForRequestsOnly`
says that nothing waits without one.

### Findings

Each is a run in which TLC finds what the code does against what the
repository says of it; `PROJECT.json` quotes the lines.

1. `TokenStoreOrder.cfg`: overlapping writes of `tokens.json` can land in the
   wrong order; a token whose `Add` returned is missing from the file until
   another call writes it.
2. `LifecycleWebOff.cfg`: with `web.enabled = false` the server stops right
   after its start, with a clean status, so nothing restarts it.

The modules state more properties that the code does not have. They are in no
run; each falls when it takes the place of the properties in the component's
`.cfg` (an invariant, or a property where it has a `[][...]_vars` or `~>`).

| Module | Property | What the trace shows |
|---|---|---|
| `MCPairing` | `OneTokenPerPin` | The handler compares with `Current()` and then calls `Consume()`; when the operator regenerates in between, a request with the old PIN, already used once, spends the new one. |
| `RateLimiter` | `RollingBudget` | Windows are fixed, not rolling as the configuration says: twice the budget passes within one window's length, and never more (`TwiceTheBudget`). |
| `RateLimiter` | `ToldTheEarliest` | `Allow` reports the end of the window that refused, not of the earliest one. Here the code is right and the comment is not: before the end it reports, the client would be refused. |
| `Tracker` | `RegisteredIsTracked` | A late `Forget` removes the entry of a new process with the same PID and id. It takes a PID that wraps around within the few instructions between `Wait` and `Forget`, and a prune between them. |
| `Lifecycle` | `AppsSurviveServer` | Under the shipped unit launched applications are in the server's control group and do not survive its restart. |
| `MCPairing` | `AcceptedIsHeld` | A phone that gives up while its request is served, or forgets its token, and a process that dies before the answer, leave a token that is accepted and that no phone has. Nothing in the program removes it: `Revoke` has no caller. |
| `VisibilityStore` | `SaveTouchesOneFlag` | A tab of the admin page that was loaded before another client saved undoes that save with its next click. |
| `VisibilityStore` | `LoadsOnlyUpdate` | Two loads of one tab overlap, as after two shortcuts deleted quickly; a toggle is saved between, and the load that was read earlier is shown last. The page shows the old flag with no request under way, and nothing failed. |
| `ShortcutStore` | `ErrorLeavesState` | `Replace` returns the error of a failed write after it has installed the list: the page says "not saved", the server has it. |
| `ShortcutStore` | `PersistsOrder` | The file is sorted, so the order of the shortcuts changes at a restart. |
| `PhoneConnect` | `ConnectedIsPinned` | `dismissPin` while `confirmPin` is suspended leaves a phone that is connected and has the pin saved, but an empty holder until its next connection. The second button has to be pressed within the write of one preference. |
| `TlsCert` | `RotationKeepsKey` | The server never makes a certificate for a key that it has: removing the certificate, which the comment on pinning suggests is safe, replaces both. |
| `TerminalRelay` | `CloseTerminates` | A shell that ignores SIGHUP and does not read its terminal keeps the handler waiting, with the WebSocket not closed by it. |
| `TerminalRelay` | `KeysInOrder` | Every key has a coroutine of its own, and two may overtake each other. |
| `MCLifecycle` | `BlankEnvLeftAlone` | The comment on the package says that blank variables are left alone; a blank text is taken over, and a blank number, duration or boolean stops the start. |
| `MCPhoneApps` | `EveryShownIsLaunchable` | An application or a shortcut with "#" or "?" in its id is listed, and a tap on it is answered 404 although it is there. |
| `MCPhoneApps` | `TappedIsLaunched` (with an `InPath` that sends one id to another's, and files of both) | An id with an escape in it is decoded to that of another application, which is launched. |
| `MCPhoneApps` | `UserOverridesSystem` | A user's desktop file with `Hidden=true` does not hide the system's: it is dropped before ids are compared. |
| `MCPhoneApps` | `IconsFollowEntries` (with an environment of two more directories `dirs`, and `DefaultPaths` of it) | Of two directories in `XDG_DATA_DIRS` the first wins for icons and the last for desktop files: an application may be shown with the icon of its namesake. |
| `MCPhoneApps` | `ParentsAreSearched` (with files, themes, a theme and a size) | Indexes are kept by the `Name` in them, but `Inherits=` and the configured theme are names of directories: a theme whose two names differ loses its parents. |

## 4. What is proved

For all values of the constants, under the named assumptions of each module.

* `TokenStore_proofs` (any callers and hashes; `GarbageAssumption`: unparsable
  content is not a token list): `TypeCorrect`, `Mirrored`, `Durable`,
  `NotTorn`, `Refinement` (to `SnapshotFile`, without a history variable).
  `MirroredWhenQuiet` is not inductive: nothing in it
  says what a caller in mid-write will rename. `WritersInv` adds that temp
  files hold their job's snapshot and that an untainted store has one writer
  at most, whose snapshot is the memory; `AnswersInv` that no answer in force
  contradicts the memory. For the refinement `Pending` is enough: a rename is
  a flush of a snapshot under way, and a step of any other kind adds no value
  but the memory's.
* `Pairing_proofs` (any phones, slots, PINs and bounds): `TypeCorrect`,
  `OneShot`, `Accounted`. `SpentInv` says who accounts for the current
  drawing and that at most one request mints for it; `PlacesInv` that a token
  in a reply or on a phone was minted, and that a phone has one exactly when it
  is paired.
  Then, about `PairEndpoint` (the assumptions of both parts): `PairsAlike` and
  `StoresAlike`, that the composition implements `Pairing` and `TokenStore`, so
  that every theorem about either holds of the server; and `Served`. Of the
  parts it uses that an untainted file holds what its answers promise, and that
  a writer holds a snapshot of the memory. `ServedInv` adds that every caller is in
  `Add` with the token of its request, that a token which is minted and not yet answered is in
  memory, and that one which is on a phone is in memory while the server runs and
  in the file while it does not, or is forfeited.
  Last, about the `RateLimiter` in front of the handler (`LimitsAssumption`:
  positive budgets, window and resolution): `LimiterTypeCorrect`, `NotBeforeTold`,
  `HeaderIsHonest`, `BudgetHolds`, `SpentWhenRefused`. `ToldInv` says that while a
  client is told to wait, the counter that refused it is still full and still ends
  when it was told. `MetersInv` ties every counter to the history of what passed: it
  counts what passed since its window began, before that no more than one budget
  had passed within a window's length, and once its window is over it has let
  nothing pass in this tick. From it follow both the upper bound, two budgets, and the
  lower: who is refused has a full counter, all of it spent within the last window.
* `VisibilityStore_proofs` (any applications, tabs, requests and loads;
  `GarbageAssumption`, `NoTabAssumption`): `TypeCorrect`, `Mirrored`, `Agrees`,
  `Refinement`. `WritersInv` says that an untainted store has one writer at most
  and that its list is the memory's. `PagesInv` says what a tab shows that has not
  gone astray: the truth (`Truth`: the memory, or the file while the server is
  down), but for one flag of a request that has not been applied yet (`Open`);
  and of each load that is not old, however many there are, that what it has read
  so far is true.
* `TerminalRelay_proofs` (any number of keys): `TypeCorrect`, `Reasons`,
  `Arrive`. `ClosedInv` says that the PTY is closed only after the context is
  cancelled or the server is dead. `KeysInv` counts: while "in" reads, the keys
  on the terminal, the one it holds and those on the wire are 1, 2, 3 and so on,
  and, while the connection is open at both ends, all that were typed but the
  one that waits to be sent; `ScreenInv` that a connection which was lost does
  not come back, so that a key lost with it has no successor.
* `Lifecycle_proofs` (any surroundings of a start, any number of requests;
  `LifeAssumption`): `TypeCorrect`, `Configured`, `DrainsWhenTold`, `CleanExit`.
  The lemmas on `Load` take its early returns apart and find the layer that an
  option comes from; `MainInv` says when `webErr` can be closed and that a
  process that drains the admin page has no API request left.
  Then about the `Tracker` (any ids and PIDs; `NoIdAssumption`):
  `TrackerTypeCorrect`, `NoOrphanEntry`, `Tracked`. `FreshInv` says that no pending
  `Forget` is directed at a run whose PID was fresh: this is exactly what
  `RegisteredIsTracked` runs into.
* `ShortcutStore_proofs` (any ids, tabs, calls and lists from other clients;
  `IdsAssumption`, `BodiesAssumption`, `NamesAssumption`): `TypeCorrect`, `Mirrored`, `OneEntryOnly`, `Refinement`. `WritersInv` is that of
  the other stores, with a list in place of a set, and says besides that what a
  writer holds has been accepted (trimmed, valid, without a double), so that `Load`
  will accept it. `PagesInv` says that a page which has not gone astray has exactly
  the entries that the store holds (`Held`), and that a call under way differs from
  them in the one entry it is about; lemmas on trimming, replacing, appending and
  leaving out one entry of a list say what that does to its entries.
* `PhoneApps_proofs` (any directories, files, environment, shortcuts, refreshes,
  tokens and changes; `DisksAssumption`, `ContentsAssumption`,
  `BoundsAssumption`, `ArgListsAssumption`, `IconRequestsAssumption`,
  `InPathAssumption`, `HideableAssumption`: what the model's sets are made of): `ReadsWhatIsWritten`, `RunsAsWritten`, `Launched`,
  `ReadsWhatIsDeclared`, `ChainOfThemes`, `BestIconIsServed`, `IconsServed`,
  `TypeCorrect`, `Merged`, `Within`, `Found`, `Kept`, `Waits`. `ReadsWhatIsWritten`
  is an induction over the lines of a file: after n lines the state of `Parse` is
  what those lines say, or a line among them does not fit (`Agrees`);
  `ReadsWhatIsDeclared` is one over those of an `index.theme` (`IndexAgrees`).
  `RunsAsWritten` is two inductions. Within the quotes of an argument (`InQuotes`)
  the token that `SplitExec` collects spells what has been written so far
  (`Spells`): its percent signs are doubled, so that it is never a code by itself,
  and `expandToken` makes the argument of it. After each argument (`AfterArgs`) the
  scan is between two tokens, and those it has are expanded to the arguments
  written. `ChainOfThemes` rests on an invariant of the steps of `dfs`
  (`Traversal`): the order has no name twice, it begins with the theme, everything
  in it and in the calls to come lies in every set that holds the theme and the
  parents of what it holds (`Closed`), and parents that are not in the order are in
  the calls to come. Each step adds a name or finds nothing left to call, and with as many
  names as there are nothing can be left, by the pigeonhole principle; then the
  order is closed itself, hence exactly what can be reached. It holds for
  themes that inherit from each other in a circle, too. For `BestIconIsServed`,
  `Wanted` is shown to be a size that none of the others beats, as the comment on
  `Find` ranks them (`Better`), and the first file of that size to be of the base with the
  highest priority, since a walk never goes back to an earlier base. The
  hypothesis, `IsIconRequest`, says just that, and that no theme is called "/".
  `MergeInv`
  says that the files met are those before the ones that are left, and that the
  scan holds the last of those met, for each id (`Best`). `TokenInv` says that
  a request carries the token the phone has, unless that is gone, and that a refusal
  under way is one of a token that is not valid any more. `KnownInv` says that what
  is on the screen, in an answer or in a tap, and not removed since, is known to
  the launch handler, whatever URLs make of other ids; `AnswerInv` what a request has noted about its list.
* `PhoneConnect_proofs` (any number of key pairs; `MaxKeysAssumption`):
  `TypeCorrect`, `ServedForGood`, `PinValid`, `HonestServer`, `Pinned`.
  `CertInv` says that a pair that was served is in both files until somebody
  else touches them, and that no start in that situation generates; `PinsInv`
  that whatever the phone has observed, asked about or saved is that pair, and
  that an answer is about the certificate of its own handshake; `HolderInv` that
  a connection under way works with the saved pin, which is what makes the
  screens behind it pinned.

Induction. The theorems of the library that state induction take a formula as a
parameter, which the provers cannot instantiate. The lemma `Induct` states it about
a set of numbers instead, and is proved from the pigeonhole principle for finite
sets: the successor function would map the numbers below one that is missing
injectively, but not onto, themselves. A recursive function is then unfolded once
(`ReadingIs`, `IndexReadingIs`, `SplitsExist`, `VisitsExist`), and the numbers for which the claim holds are the set. `InductSeq` is
the same for sequences that grow at their end, and `Looped` says of every loop that
one more element is one more step; for that a step is a function and not an
operator, since no lemma may have an operator as a parameter.

Only model-checked: liveness (`ExitNoticed`, `SignalEnds`,
`DeadListenerRestarts`, `EndsAll`, `ExitCloses`), which needs fairness and
ENABLED, out of this prover's reach.

## 5. Plan

Done, in this order: `TokenStore`, `Pairing`, `RateLimiter`, `Tracker`,
`Lifecycle`, `VisibilityStore` and `ShortcutStore`, `TlsCert` and `PhoneConnect`,
`TerminalRelay`, `Config` (composed with `Lifecycle`), `Catalog` and `PhoneApps`
with `DesktopEntry`, `ExecLine`, `ThemeIndex` and `Icons`; then `PairEndpoint`,
the refinements of the two stores of settings to `SnapshotFile`, and the
theorems about `PairEndpoint`, `VisibilityStore` and `TerminalRelay`; then those
about the budgets of `RateLimiter`, `ShortcutStore`, `DesktopEntry`, `ExecLine`,
`Catalog` and `PhoneApps`; last those about `ThemeIndex` and `Icons`. Every safety
property of a passing run is a theorem now.

Next: the token check with a cookie (`RequireTokenOrCookie`), as the admin page in
the phone's web view uses it, as a module of its own.

### Not modelled

* The PIN panel of the admin page. It polls the status and counts down; what it
  calls is in `Pairing` (`Operator`). What it shows can be a second old.
* The phone's encrypted preferences (`TokenStorage`) beyond what `PhoneConnect`
  and `PhoneApps` keep of them: writes of single values by a library.
* The syntax of TOML, of JSON and of escapes, HTTP routing (but for what it makes of an application's id), the serving of static
  files, the screens and themes of the phone, web views, resizing of the
  terminal, installation scripts, logging: input and output without an order of
  events that could go wrong.
* Power loss, as opposed to the death of the process (see `TokenStore`).
