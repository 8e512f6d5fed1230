# Tervia: verification project

Tervia is a Tauri 2 desktop client: SSH terminals and SFTP, RDP, port forwards,
local PTYs kept alive by a daemon, a vault of credentials, and sync of the
user's hosts, vault and forward rules between devices. This directory holds TLA+
models of the parts of it where order, failure and sharing matter, the TLC runs
that check them on small instances, and TLAPS proofs that hold for every
instance.

Paths below are relative to the repository root. `PROJECT.json` maps every
definition to the lines it models and lists the hazards the properties are for.

## 1. Inventory

| Part | Source | State it keeps | Operations | Hard behaviour | What makes it correct |
|---|---|---|---|---|---|
| SSH session sharing | `src/modules/ssh/tunnel.ts`, `src-tauri/.../ssh/mod.rs` | `sessions`, `forwards`, `remoteForwards`, `socksForwards`: entries with references and claims | open and close a shell, acquire and release a forward, dial, drop | dials joined in flight; sessions that die and are re-dialled under late releases | counts match holders; nobody closes what another uses; nothing leaks |
| Remote forward registry | `src-tauri/.../ssh/session.rs` | server port -> target and generation | open, close, route | the server may connect before its answer is read | a running `-R` is routed to its own target |
| Forward rules | `src/modules/forwards/` | runtime status, start attempts, retries, host-owned claims | Start, Stop, delete, edit, launch, retry; terminal attach, bind, detach | the page and the terminals race for one rule | one owner, no orphan reference or listener, nothing stuck |
| Sync | `src/modules/sync/`, `src-tauri/.../sync/` | dirty set (memory and file), etag map, envelopes, remote objects | edit, pull, apply, push, retry, switch on and off | concurrent devices, refused If-Match, crash between apply and etags | no landing skipped, no edit forgotten, devices agree |
| Stores | `src/lib/recoveredStore.ts`, `storeRecovery.ts`, `fileKeyValueStore.ts`, `src-tauri/.../fs/atomic.rs` | one JSON file and its `.bak`, a cache per window | recover, load, save, snapshot, change event | torn file, refused reads and writes, two windows | acknowledged edits survive; caches come to agree |
| Host-key prompts | `src/modules/ssh/hostKeyPrompt.ts`, `tunnel.ts` (`DialFanout`), `RdpPane.tsx`, `hosts/editor/*Probe.ts`, `src-tauri/.../ssh/session.rs`, `rdp/tls.rs` | one queue of questions, watchers per dial, handshakes paused on an answer | enqueue, resolve, dismiss, abandon | a question nobody is left to answer; an answer that races a teardown | a paused handshake has a question that can be answered; a question is answered once and goes with its connect |
| Tombstones | `src/lib/tombstones.ts` | deletions with a time to live | add, clear, land, expire | a deletion forgotten before another device heard of it | a deleted record stays deleted inside the window |
| Hosts, vault, backup | `src/modules/hosts/`, `vault/`, `backup/` | hosts, groups, identities, keys, keychain entries | mutators, credential moves, import | a credential moved in several writes; cycles made by two devices | no credential lost, every reference resolves |
| Terminal | `src/modules/terminal/` | the session object of a pane, spawn epochs, watchdogs, reconnect ladder | open, re-attach, exit, retry, reconnect, respawn, dispose | an answer after its timeout, an exit before its answer, a remount in between | no shell without a pane, no pane without a way on, every open ends |
| PTY daemon and local PTYs | `src-tauri/src/modules/pty_daemon/`, `src-tauri/src/modules/pty/` | sessions, subscribers, scrollback, writer queues; in the app the routes and the early buffer | open, attach, write, close, kill all, reap, idle exit | output and exit that overtake the reply; close in the spawn window; shutdown against connect | output in order and whole, the exit heard, no orphan shell, no shell lost to an idle exit |
| RDP | `src/modules/rdp/`, `src-tauri/src/modules/rdp/` | dirty rectangles, pull credit, input queue | push, signal, pull, paint, send | an edge-triggered signal that lands during a pull | every dirty rectangle is painted |
| Rest of the app | `panes`, `tabs`, `settings`, `theme`, `header`, `scm`, `editor`, `explorer`, `updater`, `src-tauri/.../{git,pty,shell,fs}` | state of one window, or of the operating system | | none of its own | |

How they meet: the terminals and the forward rules both take references in
`tunnel.ts`, which calls the backend of `ssh/`; a terminal's connect also makes
it an owner of its host's rules. Every mutator of hosts, vault and rules commits
through a recovered store and marks its record dirty for the sync scheduler;
a pull calls back into the stores' `applyRemote`. A terminal pane opens its shell
through the PTY commands, which reach the daemon, or through `tunnel.ts`.

## 2. Modules

| Module | Models | Checked by | Proved by |
|---|---|---|---|
| `SharedSession` | abstract: one current session per connection, its users, its life | through `SshTunnel` | `SshTunnelProofs` |
| `SshTunnel` | sessions, forwards, references, claims, and the backend side of a session | `MCSshTunnel` | `SshTunnelProofs` |
| `RemoteForwards` | the `-R` registry of one session and the server it talks to | `MCRemoteForwards` | `ForwardRulesProofs` |
| `ForwardRules` | one rule: the page's controller and the terminals' autostart | `MCForwardRules` | `ForwardRulesProofs` |
| `Sync` | one record on several devices: scheduler, engine, landing | `MCSync` | `SyncProofs` |
| `SyncRounds` | the merge of a vault key with its exceptions, carried bodies and corrections | `MCSyncRounds` | `SyncProofs` |
| `RecoveredStore` | one store file, its snapshot and the windows that share it | `MCRecoveredStore` | `RecoveredStoreProofs` |
| `PtyDaemon` | the daemon's sessions and dispatchers, the threads of a shell, the wires, the client in the app, the adopt poll, the idle shutdown | `MCPtyDaemon` | `PtyDaemonProofs`, `PtyStreamProofs` |
| `HostKeyPrompts` | the queue of trust questions, the handshakes paused on them, the riders of a shared dial, and those who leave | `MCHostKeyPrompts` | `HostKeyPromptsProofs` |
| `TerminalSession` | one pane: its session object, the opens in flight, its timers, and the shells it asked for | `MCTerminalSession` | `TerminalSessionProofs` |

### How state and actions correspond to the code

* **A step is the code between two suspension points** (an `await` on the
  backend, a timer, an event). Everything the code does in between is one
  action: JavaScript runs to completion. In the backend a step is what happens
  under one lock.
* **`SshTunnel`.** A map entry is compared with `===` in the code, so an entry
  is a member of `Entry` or `Claim`; a name is reused only when nothing refers
  to it any more (`FreshEntry`, `FreshClaim`). `pc[c]` is where a caller (a tab,
  an RDP pane, a rule) is in its use. `closing` holds the queued
  `session.then(s => s.close())`. The three forward maps share one protocol on
  disjoint keys and are one map. `handshakeDone`, `connectionEnds`,
  `closeSession`, `forwardOpens` and `abortForward` are the backend's. Host-key
  questions are inside the dial. A forward that asks for port 0 and is re-created
  waits here for the close of its predecessor's listener; in the code it may get
  another port at once.
* **`SharedSession`** is what `tunnel.ts` promises its users, without counts,
  promises and queues. `SshTunnel` implements it under `current <- sessions`,
  `life <- backend` and `users[e] = SessionHolders(e)` (`ImplementsSharing`):
  nobody is served by a session that is not the current one, a session is closed
  only when nobody uses it or can come to, and it leaves the map under its users
  only when it is not up.
* **`RemoteForwards`.** `handle` is the mutex that open and cancel hold across
  their round trip. `serverBinds` is the server, which binds a port once. A live
  server that refuses `cancel_tcpip_forward`, and so keeps a listener that nothing
  names, is left out.
* **`ForwardRules`.** `start[a]` is a call of `startRule` waiting for its dial
  or for the close of its yield; `stop[k]` a call of `stopRule`; `run[e]` a call
  of `startHostForwards` for epoch `e`. The launch of autostart rules precedes
  Start clicks. The rule a run binds is the one its list had, whatever the store
  says by the time the loop comes to it; a delete drops the record in an await of
  its own, after its stop.
* **`Sync`.** `pc[d]` and `pass[d]` are the pass in flight and what it holds
  across its awaits. An etag is only ever compared with the one the object has
  now, so it is "current", "old" or "none". One clock stamps all edits, so there
  are no ties (ties are `SyncRounds`'), and `mergeWinner` is the part of `merge`
  that stamps decide. A pull's listing and fetch are one step. `pullFails`,
  `pushFails` and `takeFails` are the catches of the two passes, at every await they
  cover; whether a device puts with If-Match is its own setting (`Cas[d]`).
  The expiry and the prune of tombstones, quarantine and the status shown in the
  settings are left out.
* **`SyncRounds`** has the devices of `Sync` (the module `Devices`) and state of its
  own. A field of a record is the rank its JSON text has, which is
  all `canonical` compares. Passes do not overlap; the put of what a pull owes
  is folded into that of the correction that follows it.
* **`RecoveredStore`.** The value of a key is the set of edits it carries, so a
  lost edit is visible. `recover` to `restore` are the recovery pass, `path` to
  `resolve` the awaits of `save` and `commit`. A window gets its own change
  event before its commit resolves. Notices to the user are left out.
* **`PtyDaemon`.** The output of a shell is the chunks 1, 2, 3, ... A connection's
  writer queue and the socket behind it are one bounded sequence (`wire`), its
  requests another. `dispatch[c]` is where the connection's dispatcher is;
  `flusher` and `waiter` are two of the three threads of a shell, the reader is
  part of `shellWrites`. `Held` is the reference count of a session: whoever keeps
  its `Arc`. A pane is one channel with the command that brought it. `service` is
  the accept loop and the idle watcher; the 100 ms the loop waits are taken to be
  enough for a client it has accepted to be counted. Write and Resize are one
  message each that nobody waits for, and are left out. One app is connected at a
  time: the app is a single instance, and the client of a daemon is one per app
  (the daemon itself would serve several). The app counts a session as its own from
  the moment it reads the reply; the code when the leaf has its `ptyId`, a little
  later, so its poll can steal a session in more states than the model's.
* **`TerminalSession`.** `s` is the `Session` object of the code, field by field.
  A spawn epoch names the call of `openPtyForSession`, the shell it asked for and
  the handle, and is used again when nothing refers to it. The three callers that
  await an open differ in what they compare when it answers (`openStrays`,
  `openRejected`). `leaving` is the layout's decision to close the pane. An open, an
  attach or a close of a local shell can fail without an answer while the daemon
  carries it out, or not (`openUnanswered`, `reattachFails`, `closeLost`): the shells
  this leaves are `abandoned`. A connection that drops under a shell the pane shows is
  not modelled, and a pane that is disposed before it is first shown leaves its saved
  shell to the daemon, as the code does.
* **`HostKeyPrompts`.** A handshake belongs to a dial of `tunnel.ts` or to one
  caller (a certificate, a Test), and a question is a handshake with the hop whose
  key is unknown. `queue` gives each question the set of those ahead of it.
  `asking` and `confirms` are the events and the answers on their
  way, which may overtake replies. `told` is what a teardown has to reject:
  `sshPromptIds` and `promptId` of a pane, `startAttempts` of a rule,
  `pendingPrompts` of the editor; a terminal tab keeps nothing and leaves its
  questions to the user. Session references are reduced to who rides a dial
  (`SshTunnel` has the counts). `pagehide`, which rejects the whole queue, and the
  death of a session that is up are left out; a caller that left starts again when
  its old attempt has ended (a second caller plays the attempt beside it).

## 3. Runs

| Run | Instance | What it shows |
|---|---|---|
| `tunnel` | a bastion dialled twice, a target whose forward is re-created, two callers | counts equal holders, of sessions and of forwards (`CountsHolders`); a release never closes what another uses (`NoTheft`); nothing is leaked (`NoLeak`); a listener is there for the claims on it and no longer (`ListenersMatchHolders`); forwards ride the current session (`ForwardsRideCurrentSession`); the bookkeeping implements `SharedSession` (`ImplementsSharing`); every waiter is answered (`WaitersAnswered`); a session everybody let go of is closed (`ReleasedSessionCloses`) |
| `remote_forwards` | five openers, two of them on one port | a running forward is routed to its own target and never to another's (`RunningIsRouted`), and its listener does not outlive it (`NoOrphanRemoteListener`) |
| `rules_owners` | two starts, one stop, a session whose tabs all close and come back, two rungs | one owner at a time (`OneOwner`); a claim names a live listener and a listener has its claim (`ClaimsMatchListeners`); a reference of the page keeps the row that can stop it (`ReferenceKeepsName`); "starting" ends (`StartingSettles`) |
| `sync_passes` | two devices, one with If-Match and one without, two edits at any moment, two failures, ends of an app or switches off | no etag recorded without If-Match hides a newer remote copy (`NoLandingSkipped`); an edit behind the etag skip is marked or being placed (`OwedIsMarked`); the newest edit survives (`NewestSurvives`); all devices and the remote settle on it (`Settles`) |
| `sync_conflict` | two devices, If-Match, two edits | **violation** of `MapFollowsApply`, see below |
| `sync_stranded` | two devices, no If-Match, two edits, one failure | **violation** of `OwedStaysVisible`, see below |
| `sync_rounds` | two devices, every pair of copies of a key, three kinds of body | the merge agrees both ways, what it lands is stable, a fingerprint keeps its owner and corrections end (`MergeIsSound`); both devices settle (`RoundsSettle`) |
| `stores` | one window on a new profile with four edits, three restarts, two refusals and one torn file; two windows on one key with three edits and one contended attempt, or two and two | acknowledged edits (`AckedSurvive`) and the good snapshot (`SnapshotNeverShrinks`) survive refusals or a tear; a failed edit stays in view (`SessionSeesOwnEdits`); nothing built on an unread file is written (`BlindNeverWritten`); once events have arrived, a cache in use equals the file (`CacheCoherent`) |
| `pty_stream` | two connections of the app one after the other, two panes, one shell with two chunks, one poll, queues of two | a pane is sent the output in order and without a hole (`StreamInOrder`); once all is quiet it has all of it and the exit, but for the exceptions below (`AllArrives`); no shell runs outside the map and none goes with an idle daemon (`NoOrphanShell`) |
| `pty_last_line` | one connection, one pane, a shell with one chunk, room for everything | **violation** of `LastLineBeforeExit`, see below |
| `terminal_pane` | one pane, local or SSH, two epochs alive at once, three reconnects | no shell whose id the app was told is left running without a pane (`NoOrphanShell`); no pane without a way on (`NoDeadEnd`); a silent local shell is watched (`SilentIsWatched`); every open or reconnect comes to an end (`OpenSettles`) |
| `host_key_prompts` | a tab, a rule, an RDP pane and the two Tests in four pairs, a jump host and a target, two dials alive at once | a paused handshake has a question that can be answered, and a question goes with its connect (`QuestionsMatchHandshakes`); whoever leaves takes along the questions it waits behind, also those of a dial it joined (`LeaverTakesQuestions`); no question is answered twice (`OneAnswer`) |

The type invariants (`TypeOK`) of `SshTunnel`, `ForwardRules`, `Sync`,
`TerminalSession` and `PtyDaemon` are checked and proved, those of
`RemoteForwards` (in its `ForwardsInvariance`) and `RecoveredStore` proved.
`SyncRounds` has the shape of its copies as a part of `MergeIsSound`
(`CopiesAreRecords`), `HostKeyPromptsProofs` the types as `Types`.

**The findings.**

* `sync_conflict`: with If-Match, `retry_merged` answers the remote's etag when the
  remote copy wins, and `publish` records it although nothing landed that copy here.
  The next pull skips the object, and the device keeps its older copy until somebody
  edits the record again. The module comment of `engine.rs` calls the rule this breaks
  "the whole safety property". It is why `NoLandingSkipped` speaks of the devices that
  put without If-Match.
* `sync_stranded`: a pull that fails after `writeEtags` has advanced the map
  (`scheduler.ts:632`), in that write, in the reads of `publish` or in the push command
  (`:647`), forgets what the reconcile owed: the catch at `:665` puts no mark back. The
  copy is behind the etag skip and not dirty, so nothing sends it until the record is
  edited again, which the comment on `publish` (`:556-563`) sets out to prevent. It is why
  `OwedIsMarked` and `Settles` exempt the history in which it happened (`stranded`).
* `pty_last_line`: the waiter of a shell joins its reader and not its flusher, so the
  exit can overtake the chunk the flusher holds; the exit ends the route and the chunk
  is lost. `session.rs:318` says the last line cannot race the exit. It is why
  `StreamInOrder` and `AllArrives` leave that chunk out (`excused`).

**What the properties leave out, and why.** Each of these was met while
modelling; checking the property without its exception shows the history.

* `NewestSurvives` is about the newest edit made outside the window between a
  pull's read of the stores and its apply (`firm`), whatever edits are made inside such
  windows: `applyRemote` compares a landed record with a newer local *tombstone* only,
  and overwrites a newer local record. `Settles` promises nothing when the last edit
  fell in such a window, and exempts a device that is in the state of `sync_conflict`.
* `OwedIsMarked` and `Settles` promise nothing once an app has ended or sync was
  switched off (`interrupted`): `runPush` writes the taken marks away before the push,
  and while sync is off it drops them.
* `RoundsSettle` is for two devices: the `encrypted` backfill changes a winner
  without changing its stamp, and three copies of one stamp can overwrite one
  another for ever (three devices, all with the carry toggle, one stamp).
* `ReferenceKeepsName` exempts the end of a yield and the end of a Stop: both mark
  the row stopped without asking whose row it is by then.
* `DeletedStaysDown` of `ForwardRules` is refuted as it stands:
  `pageMustStopFirst` (`controller.ts:539`) answers for a terminal's rule before
  it looks at the page's own dial, so a rule deleted while a terminal holds it can
  come up afterwards, which the comment at `ForwardsPage.tsx:183` rules out.
* The stream properties of `PtyDaemon` exempt a backlog the reader sheds, which the
  code gives up (`MAX_PENDING`), the chunk that loses the race of `pty_last_line` (both
  in `excused`), an event that a session lost to its app's full writer queue or
  to the caps of the early buffer (`saturated`, per connection and session), and the
  seam between the replay of an attach and what follows it.
  `AttachLosesNothing` is refuted: the scrollback is copied before the
  subscription, and what comes in between is in neither ("no interleave, no
  loss", `client.rs`). `NoSelfAdoption` is refuted: the poll lists a session whose
  own tab has not read its reply yet (`stolen`). `RacingClientServed` is refuted:
  a client behind the wake connection is not in `client_count`, and the daemon
  ends under its handshake (`server.rs:308-312` says it is served). After 32 tabs
  closed here the early buffer is full of exits nobody will collect; no run
  reaches that number of sessions.
* `NoOrphanShell` of `TerminalSession` exempts the shells the daemon runs for calls it
  never answered (`abandoned`): `client.rs:296-306` rejects on its timeout or a lost
  connection, and nothing in the app names the shell. The poll gives a fresh one a tab;
  a saved one is older than the poll's watermark, one whose close was lost has been seen
  as owned by an earlier poll, and both stay in the daemon.
* `NoDeadEnd` exempts an SSH shell whose ending overtook the answer of its open
  (`overtaken`): `finishSsh` clears the handle and the answer puts it back.
  `WatchdogSparesSpeakers` is refuted: a re-attach that answers after its timeout
  for a dead session clears `firstByteEpoch` under the shell that Enter opened
  meanwhile. `OpenSettles` exempts a local shell that keeps ending before its open
  is answered in the last pane of a workspace, which is respawned each time.
* `QuestionsMatchHandshakes` and `LeaverTakesQuestions` exempt questions that
  come up for nobody (`stray`): one whose event is overtaken by the reply of its
  connect, and one that reaches a Test after its deadline, which enqueues it
  although nothing will dismiss it. A certificate question whose handshake lapsed
  stays behind the error overlay of its RDP pane, whose `catch` dismisses nothing,
  until the pane is unmounted or reconnects. `LeaverTakesQuestions` is about what
  is on screen when the caller leaves: a question raised by the dial afterwards is
  put in a set nobody reads any more and waits for the user or for its timeout
  (`tunnel.ts:131` calls a prompt that outlives its pane the leak).
* The properties of `RemoteForwards` exempt a contested port: the rollback of a
  refused open removes whatever the registry holds for the port (`KNOWN-LIMITS.md`
  names the key, not this consequence).
* `AckedSurvive` and `SnapshotNeverShrinks` exempt a torn file *and* a refusal
  in one history (`TornAndFaulty`): a restore that cannot be written leaves the
  torn file to be read as an empty one. `AckedSurvive` is for one window: two
  windows that save at once write from caches of their own, a loss the comment in
  `save` of `fileKeyValueStore.ts` accepts. `CacheCoherent` is
  for one window, or for windows that stay open on a file that is there and not
  torn (`Undisturbed`): one that ends between its write and its event never
  announces it, and a recovery announces nothing. `BlindNeverWritten` is for one window: another window's
  event clears a refusal with the blind value still pending.

**Bounds.** `Entry`, `Claim`, `Attempt` and `Epoch` bound objects alive at once,
not objects ever created, because names are reused; two entries of a bastion and
two claims of a target are what a late release needs to meet a successor. Two
devices are enough for every race over one record that involves one loser; two
edits give a winner and a loser, or an edit made while another settles, and one device
puts with If-Match so that every kind of put meets the other. Two faults let one
failure meet another, or the end of an app. One or two attempts
for the two windows of `stores` make giving up reachable (the code has 3; the
window alone uses that). Two dials are a dial and the one that replaces it under
a late leaver, two hops make one connect ask twice. `pty_stream` has one shell,
so a queue, a scrollback and a backlog of one or two chunks are enough to make each limit bite; two connections give the
restart of the app, of which the last stays. Two epochs are the spawn a pane is in
and the one it superseded, three reconnects make the ladder end (with three epochs TLC finds no violation of the
safety properties either). The two windows
of `stores` start from an existing file; the first start of a profile is the lone window's. Where a cfg says `CHECK_DEADLOCK FALSE`
the bounds on edits and faults, or the end of the connection, really stop the
system; `tunnel`, `rules_owners` and `host_key_prompts` check deadlock.

**Fairness.** `tunnel`: every promise the code awaits settles (the
handshake and the host-key question have timeouts, commands answer or fail with
their session) and the event loop runs what is queued; users, shells and
connections need not act. `rules_owners`: dials, closes, binds and timers
complete; clicks and tabs are free. `sync_passes`: a pass that has begun goes on,
and each device comes back to the foreground (the focus event pulls) for ever.
`sync_rounds`: each device pulls for ever. `terminal_pane`: timers fire, messages
arrive and an SSH open is answered (its dial has timeouts); of the backend of a
local pane nothing is assumed but the timeout of its open, and nothing of the
user.

**Mutants.** Each property has a mutant in the module it is about, an operator
that changes one mapped definition the way a plausible slip would; TLC finds the
property violated under the run's own cfg.

## 4. Proofs

TLAPS proves the following for every value of the constants that satisfies the
named assumption of the module.

**`SshTunnelProofs`** (`ConstantsAssumption`: finite callers, total maps,
distinct null values). `IndInv` of `SshTunnel` adds to the properties what makes
them inductive: what a caller holds in each `pc` (`CallerOK`), that a claim of a
caller whose session is the current one is the current entry of its key
(`ClaimCurrent`), and how an entry's dial, backend and map state go together.
`ClaimCurrent` is the heart: `releaseForward` finds its entry by key, and only
this says that the entry it decrements is the one its reference was taken on.
`TakeRef`/`GiveRef` and their forward twins reduce each action to a set of
holders that gains or loses one caller, `Counting` turns that into the count,
and `Release` is shared by every action that ends in `releaseSession`. Results:
`TypeCorrect`, `CountsExact`, `NobodyRobbed`, `NothingLeaked`,
`ForwardsFollowSession`, `DropsSpareHolders`; `CountsExact` is `CountsHolders`,
the counts of sessions and of forwards. `ListenersExact` needs more: `PortInv`
ties a bound port to its forward's promise and its session, a promise that has
not settled to the caller that made it, and says that a forward that is being
closed has left the map and has no user, so that the port it takes down is
nobody's.

The refinement is the last result of the module, `TunnelImplementsSharing`:
`Spec => ImplementsSharing`. From `IndInv`, a step that moves no reference and neither map
nor backend is a stutter (`Invisible`); `sessionFor` is `Join` (`JoinStep`), every
`releaseSession` is `Leave` (`LeaveStep`); the backend's steps are `ComeUp`,
`Break`, `Forget` and `Close`. `Close` is where the invariant is needed: that a
session queued for its close has no holder and is not current, whoever dialled
meanwhile.

**`ForwardRulesProofs`** (`ForwardRulesAssumption`). `IndInv` adds
`EpochsOnFile` (the epoch on file for a session is the one with tabs) and
`RunsApart` (a run that is not over has claimed nothing). The page's steps leave
the terminals alone and vice versa but for the checks at the ends of each wait,
so the proof has one lemma for each side. Results: `RulesTypeCorrect`,
`RulesOneOwner`, `RulesClaimsMatch`, for any number of sessions and tabs. `NameInv`
says that a rule whose Start is on file, whose retry is pending or whose launch
has not come has no claim in its row, and that a Start on file has cancelled the
retry: so no step that rewrites the row drops the name of a reference
(`RulesReferenceKeepsName`).

The same module proves `RemoteForwards` (`RemoteForwardsAssumption`), whose invariant is
`RemoteInv`. The mutex is held by the
one opener whose request is out (`HandleInv`); an opener has a port from the
server's answer to its close, its own or an ephemeral one (`BoundInv`). On a port
that is not contested, the server's listener and the opener that has the port
determine each other (`ServerInv`), and the registry holds exactly the opener that
`Registers` there (`RegistryInv`): a pinned one from its request, so that a
connection that overtakes the answer is routed, any other from the answer. Results:
`ForwardsInvariance`, `ForwardsRouted`, `ForwardsNoOrphan`, for any number of
openers and ports.

**`SyncProofs`** (`SyncAssumption`). Any of the devices may put with If-Match. `IndInv`
says for each await of a pass of a device that does not (`sync_conflict` shows that
this is needed) what it owes `NoLandingSkipped` there: the copy
read is not above the store, an answered etag is current only if what is about to
land, or has landed, is at least the remote copy, and what is owed is not above
the store. `StampsPast` makes a new edit newer than all of these. `OthersKeep`
shows that a device's step cannot hurt another's pass except through a put, and
`PlaceKeeps` that a put ages every etag that it does not keep true. Results:
`SyncTypeCorrect`, `SyncInvariance`,
`SyncNoLandingSkipped`.

The second, `AllMarked`, is for every device. A device `Covered` for a copy has
nothing above it that is not marked; `MarkInv` says at each await which copy that
is: the one listed, the one about to land, the one owed, and once an etag is
recorded as current the remote's. It holds as long as no pull has failed over something
it owed and had hidden (`stranded`). Result: `SyncOwedIsMarked`, through every other
failure. The third, `NewestInv`, is that some device holds the newest firm edit in the
copy that no pass is about to replace (`FirmHeld`, `Base`: what the pull read, while one
is under way), because no landing is older than what the pull read (`LandsUp`). Result:
`SyncNewestSurvives`, with edits at any moment, crashes and switches.

The fourth is about the other view of the sync, `SyncRounds`, which shares only the
devices with `Sync` (`Devices`). `RoundsInv` says what an envelope can be wherever it
is: a tombstone without record and body, or a record of a key; and one key is a
hardware key everywhere or nowhere (`OneKind`), which is why the `encrypted` answer
and the fingerprint of the exceptions stay with a record that can have them. The
merge agrees both ways because the keys it compares are totally ordered
(`KeysCompare`) and two envelopes with the same key are the same (`KeysTell`); its
result is a fixed point because the exceptions change nothing the second time
(`ExceptionsSettle`). Result: `RoundsMergeIsSound`, for any devices, toggles, stamps,
names and bodies (`RoundsAssumption`).

**`RecoveredStoreProofs`** (`StoreAssumption`, which leaves the situations open:
any windows, keys, attempts and bounds). `CacheInv` is for all windows: what a
cache holds, or a read that has answered is about to install, is the file, unless
a change event is on its way or about to be sent (`Told`). The rest is about a
window that is alone. Its event comes before its commit resolves, and only a
refused read has blind values (`QueueInv`); what is on its way to a file is the
pending edits over the cache (`BytesInv`); an edit it made is pending or in the
file (`EditInv`); and the snapshot is behind the file by no acknowledged edit
(`SnapshotInv`, `AckedInv`), where a history has refusals or tears but not both.
The step that needs all of it is the recovery after a tear: the snapshot it
restores holds every edit that was acknowledged. Results: `StoreInvariance`,
`StoreTypes`, `StoreAckedSurvive`, `StoreSeesOwnEdits`, `StoreBlindNeverWritten`,
`StoreCacheCoherent`, and the action property `StoreSnapshotNeverShrinks`.

**`TerminalSessionProofs`** (`ConstantsAssumption`: any epochs, a ladder of any
length). A spawn epoch goes through its call, its shell, its ending and its close
request in that order (`EpochInv`); the handle is the current epoch's
(`HandleInv`); `ptyOpening` says that the current epoch's call is out and not
late (`OpeningInv`). `AnswerInv` is the heart of `NoDeadEnd`: the answer on its way
to the current epoch is about a shell that runs, one whose ending will be heard, or
one whose ending the pane has acted on, so installing its handle leaves a way on.
`SshInv` says that an SSH pane has no timers of a local one and no strays, and
`SpokeInv` whose output `spoke` is about. `LostInv`: no call, handle or request is about
an abandoned shell, so nothing can mistake it for the pane's. The properties are conjuncts of `IndInv`.
Results: `TerminalInvariance`, `TerminalTypes`, `TerminalNoOrphan`,
`TerminalNoDeadEnd`, `TerminalWatched`.

**`HostKeyPromptsProofs`** (`PromptsAssumption`: any callers, dials and hops).
`BackendInv` follows a question through the backend: it is asked once, by the
handshake that is paused on it or has failed since; an answer under way is to
such a handshake; no question is both trusted and rejected, and a trusted one is
not asked of its connect again. `WindowInv` says who waits behind which question:
what a caller awaits (`AwaitsInv`) and where its flags may stand (`StandsInv`);
that a dial has announced what is on screen for it (`RaisedInv`) to watchers that
listen; and that a caller knows the questions it waits behind, its own and those
of the dial it rides, but for the strays (`KnowsInv`). `KnowsInv` is what
`LeaverTakesQuestions` needs, since a teardown rejects what its caller knows.
`WindowKeeps` covers the backend's steps, `OneLeaves` those of a caller that
leaves, `Others` the callers a step is not about; every other action has a lemma.
Results: `PromptsInvariance`, `PromptsMatch`, `PromptsOneAnswer`, and the action
property `PromptsLeaver`.

**`PtyDaemonProofs`** (`PtyDaemonAssumption`: any numbers of connections, panes,
shells and chunks, and limits of any size). `Types` is stronger than `TypeOK`: it
says what the wires and the dispatchers hold, and that no queue passes its limit.
`ShellInv`: a shell that runs is in the map or was closed by the quit of the app,
and its session is filled or being filled; a session of the map that is dead has
had its shell end; no shell has perished. `SpawnInv`: a dispatcher that spawns or
fills is the only one at work on its session. `LinkInv` is about what is on its way:
frames, requests and panes name only sessions the app can know of (`Known`), whose
pty exists unless the session has left the map, so only the last app's quit can
close in the spawn window; and calls are on connections that are up. `CountInv`
counts the Opens under way, so that session ids stay within their bound. The idle
exit is where all of it is needed: no client is left, so no request is queued and
no dispatcher is between its reservation and its fill, no session of the map is
alive, and so no shell runs. `ServesLinks`, `TailLinks`, `CloseShells` and
`AppKeeps` are the lemmas that whole groups of actions share. Results:
`DaemonInvariance`, `DaemonTypesHold`, `DaemonNoOrphanShell`.

**`PtyStreamProofs`** (the same assumption) proves `StreamInOrder` and `AllArrives`. The
invariant of the first is `StreamIndInv`; TLC found the first version of several of its
parts not to be inductive. What is on its way to a pane is in up to five places: the
threads of the shell, the dispatcher, the wire, the early buffer, the view. The parts say
what each place has (`AppInv`, `OwnInv`, `LineInv`, `SubInv`, `KillInv` and `ReplyInv` are
in `PtyDaemonProofs`), and one part puts them in a row:

* `AppInv`: one app is connected at a time; one that is away has
  no frame, route or buffer; a route leads to the pane that shows the session, or
  did; a reply is meant for the pane that waits for it.
* `OwnInv`: the opening of a session is in one place, and while it is under way no
  pane has the session; later no other pane has it unless the poll stole it.
  Without it, a second route would split the stream.
* `LineInv`: what the reader left pending, what the flusher took and what the waiter
  took rises and is the end of what the shell wrote; once the waiter has begun,
  what the flusher still holds is `excused`.
* `SubInv`: a connection that has anything of a session is subscribed to it as long as
  the session is held. It is why nothing is missing at the front: `openReserves`
  subscribes before the shell exists.
* `KillInv`, `ReplyInv`, `FrameInv`: only an app that quits clears all its routes;
  replies are replies; a frame rises.
* `StreamInv`: for each connection and session that lost nothing, the buffer, the frames
  on the wire and what is still due form a `Chain`: disjoint stretches in order whose
  gaps are excused, from chunk 1 when the pane opened the shell. Each step
  of the code is one step of a chain: write, send, receive, lose, end. These are lemmas
  about sets of numbers, without the state.
* `KeptInOrder`: a pane whose route ended with the exit keeps what it shows.

The proof has one lemma per part and kind of step (`ThreadStream`, `ServesStream`,
`HearsStream`, `PaneStream`, ...); `ThreadStill`, `DispatchStill`, `ConnStill`,
`Hears`, `Registers`, `Closes`, `AsksFor`, `Leaves` are what a step does, so that most
lemmas never expand an action. Result: `DaemonStreamInOrder`.

`AllArrives` is a statement about quiet states, so it follows from an invariant too:
`ArriveIndInv`, which adds to `StreamIndInv` where the end of a shell is.

* `AliveInv`: a session that was closed, or whose waiter has announced the end while it
  was in the map, is not alive.
* `EndInv`: if such a session is the stream of a pane that opened it, or is opening it,
  the exit is on the wire or in the buffer. `close_session` tells the subscribers before it
  forgets them, `sinkExit` as the waiter ends; and a session that is neither in the map
  nor closed has no such pane.
* `LastInv`: when a shell ended by itself, its waiter has ended by the time the exit is on a
  wire, and what follows the exit there is excused. It is what forbids the exit from
  overtaking the tail.
* `HeardInv`: a pane whose route has gone shows the exit and, unless the session was
  closed, everything the shell wrote. `reader_loop` drops the route with the exit, so a
  frame behind it would be lost; `LastInv` and a drained chain (`Drained`) say there is
  none.

In a quiet state a pane with a route has a chain with nothing on the wire and nothing due,
so the view has it all (`RoutedArrived`); one without has it by `HeardInv`. Result:
`DaemonAllArrives`.

**Only model-checked.** Liveness (`WaitersAnswered`, `ReleasedSessionCloses`,
`StartingSettles`, `Settles`, `RoundsSettle`, `OpenSettles`), which is out of the
prover's reach. `AllArrives` is the safety half of the delivery of output: that every
behaviour without new output and requests does become quiet is argued at `Quiet`
(each such step consumes something) and not proved.

## 5. Not modelled, and what could follow

Not modelled for good: rendering, formatting, parsing of imported files,
cryptography, calls of git and of the operating system, and protocols that
libraries speak. `PROJECT.json` names each part with the reason.

What a continuation would take up, in order:

1. `FramePull`: the pull credit against the edge-triggered signal.
2. `PtyDaemon`: a daemon that crashes, the reconnect after it and the in-process
   fallback. `TerminalSession`: the hold of a quit.
3. Tombstone expiry and prune in `Sync`; `CredentialMove`; the group tree's
   read-time repair as an algorithm.
