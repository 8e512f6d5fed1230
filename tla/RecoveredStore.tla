--------------------------- MODULE RecoveredStore ---------------------------
(***************************************************************************)
(* One store file and its .bak snapshot, shared by the windows of the app: *)
(* createRecoveredStore (src/lib/recoveredStore.ts), the recovery pass and *)
(* the snapshot (src/lib/storeRecovery.ts), and the whole-file store with  *)
(* a cache per window (src/lib/fileKeyValueStore.ts).                      *)
(*                                                                         *)
(* An edit is a read-modify-write in the window's write queue: it reads    *)
(* the keys it touches, sets them and commits.  The value of a key is the  *)
(* set of edits it carries, so an edit that is lost is seen to be missing. *)
(* What a window does between two awaits on the backend is one step: the   *)
(* change event is a macrotask and cannot run inside it.                   *)
(***************************************************************************)
EXTENDS Naturals

CONSTANTS
  Key,         \* the keys of the file
  Profiles     \* the situations considered, each a record of
               \*   window   the webviews that open this store
               \*   touches  touches[w]: the sets of keys an edit of window w may set
               \*   attempts CONTENDED_ATTEMPTS
               \*   fresh    is there no store file yet?
               \*   edits    bound on the edits, over all windows
               \*   faults   bound on reads and writes the file system refuses
               \*   closes   bound on windows that end, in whatever state they are in
               \*   tears    bound on files a power cut leaves without their contents

ASSUME StoreAssumption ==
  /\ Key # {}
  /\ \A p \in Profiles :
       /\ p.window # {} /\ p.touches \in [p.window -> SUBSET SUBSET Key]
       /\ p.attempts \in Nat \ {0} /\ p.fresh \in BOOLEAN
       /\ p.edits \in Nat /\ p.faults \in Nat /\ p.closes \in Nat /\ p.tears \in Nat

VARIABLES
  profile,     \* the situation of this behaviour
  primary,     \* the store file
  snapshot,    \* the .bak beside it
  win,         \* win[w]: the state of the store module in window w
  news,        \* news[w]: change events on their way to window w
  edits,       \* edits asked for so far
  acked,       \* <<k, e>>: edit e set key k and its commit resolved
  faults, closes, tears

Window == profile.window
Attempts == profile.attempts
MaxEdits == profile.edits

bounds == <<faults, closes, tears>>
vars == <<profile, primary, snapshot, win, news, edits, acked, bounds>>

Edit == 1..MaxEdits
Map == [Key -> SUBSET Edit]
EmptyMap == [k \in Key |-> {}]

(* A file is missing, torn (empty, nul or unparseable) or holds a map.     *)
File == [kind : {"missing", "torn", "ok"}, map : Map]
Missing == [kind |-> "missing", map |-> EmptyMap]
Torn == [kind |-> "torn", map |-> EmptyMap]
Holding(map) == [kind |-> "ok", map |-> map]

(* down; recover to restore: initialize up to its listen; first: its load; *)
(* idle; get, save: an edit awaits load(); path to resolve: the awaits of  *)
(* save() and commit() after it, the snapshot of initialize among them.    *)
Pc == {"down", "recover", "fallback", "restore", "first", "idle", "get", "save",
       "path", "write", "landed", "snap", "snapWrite", "resolve"}

(* keys, edit: what the edit in hand sets.  cache, pending and held (the   *)
(* keys that are in pending), loaded, refused: as in the code.  attempt,   *)
(* moved: the loop of save() and whether generation moved since it looked. *)
(* bytes: what is on its way to a file.  await: events ahead of this       *)
(* commit's own.  ask, got, unseen, stale, try: the read in flight.        *)
(* blind: keys of pending whose value was built on a read that failed.     *)
(* made: <<k, e>>, the edits of this window since it opened.               *)
Win == [pc : Pc, keys : SUBSET Key, edit : 0..MaxEdits,
        cache : Map, pending : Map, held : SUBSET Key, loaded : BOOLEAN, refused : BOOLEAN,
        attempt : 1..Attempts, moved : BOOLEAN, bytes : Map, await : Nat,
        ask : {"none", "asked", "answered"}, got : Map, unseen : BOOLEAN,
        stale : BOOLEAN, try : 1..Attempts, blind : SUBSET Key,
        made : SUBSET (Key \X Edit)]

Closed == [pc |-> "down", keys |-> {}, edit |-> 0,
           cache |-> EmptyMap, pending |-> EmptyMap, held |-> {}, loaded |-> FALSE,
           refused |-> FALSE, attempt |-> 1, moved |-> FALSE, bytes |-> EmptyMap, await |-> 0,
           ask |-> "none", got |-> EmptyMap, unseen |-> FALSE, stale |-> FALSE, try |-> 1,
           blind |-> {}, made |-> {}]

Init ==
  /\ profile \in Profiles
  /\ primary = IF profile.fresh THEN Missing ELSE Holding(EmptyMap)
  /\ snapshot = primary
  /\ win = [w \in Window |-> Closed]
  /\ news = [w \in Window |-> 0]
  /\ edits = 0 /\ acked = {}
  /\ faults = 0 /\ closes = 0 /\ tears = 0

Fault == faults < profile.faults /\ faults' = faults + 1
Sets(w, x) == win' = [win EXCEPT ![w] = x]
Goto(w, where) == Sets(w, [win[w] EXCEPT !.pc = where])

(* listen has been called, so change events reach the window.              *)
Listening(w) == win[w].pc \notin {"down", "recover", "fallback", "restore"}

----------------------------------------------------------------------------
(* The first use of a store runs initialize once: settle().                *)
settle(w) ==
  /\ win[w].pc = "down"
  /\ Goto(w, "recover")
  /\ UNCHANGED <<primary, snapshot, news, edits, acked, bounds>>

(* Mutant: a torn file is left for the store to read.                      *)
recoverNothing(w) ==
  /\ win[w].pc = "recover"
  /\ Goto(w, "first")
  /\ UNCHANGED <<primary, snapshot, news, edits, acked, faults, closes, tears>>

(* recover: a good primary is left alone, and so is one that would not     *)
(* open.  Then listen.                                                     *)
recover(w) ==
  /\ win[w].pc = "recover"
  /\ \/ Goto(w, IF primary.kind = "ok" THEN "first" ELSE "fallback") /\ UNCHANGED faults
     \/ Fault /\ Goto(w, "first")
  /\ UNCHANGED <<primary, snapshot, news, edits, acked, closes, tears>>

(* Otherwise a good snapshot is to replace it.                             *)
fallback(w) ==
  /\ win[w].pc = "fallback"
  /\ \/ /\ Sets(w, IF snapshot.kind = "ok"
                   THEN [win[w] EXCEPT !.pc = "restore", !.bytes = snapshot.map]
                   ELSE [win[w] EXCEPT !.pc = "first"])
        /\ UNCHANGED faults
     \/ Fault /\ Goto(w, "first")
  /\ UNCHANGED <<primary, snapshot, news, edits, acked, closes, tears>>

(* The snapshot is written over the primary, or the write is refused and   *)
(* only reported.                                                          *)
restore(w) ==
  /\ win[w].pc = "restore"
  /\ Goto(w, "first")
  /\ \/ primary' = Holding(win[w].bytes) /\ UNCHANGED faults
     \/ Fault /\ UNCHANGED primary
  /\ UNCHANGED <<snapshot, news, edits, acked, closes, tears>>

----------------------------------------------------------------------------
(* Mutant: the file is written whatever the read was.                      *)
AfterAnyLoad(x) ==
  [x EXCEPT !.pc = "path", !.moved = FALSE,
            !.bytes = [k \in Key |-> IF k \in x.held THEN x.pending[k] ELSE x.cache[k]]]

(* save() once load() has resolved: nothing is written over a file that    *)
(* could not be read (the edit rejects and stays pending); otherwise the   *)
(* payload is built before the next await.                                 *)
AfterLoad(x) ==
  IF x.refused
  THEN [x EXCEPT !.pc = "idle"]
  ELSE [x EXCEPT !.pc = "path", !.moved = FALSE,
                 !.bytes = [k \in Key |-> IF k \in x.held THEN x.pending[k] ELSE x.cache[k]]]

Save(x, attempt) ==
  IF x.loaded THEN AfterLoad([x EXCEPT !.attempt = attempt])
  ELSE [x EXCEPT !.pc = "save", !.attempt = attempt]

(* The read of an edit has resolved: its keys are set, pending values      *)
(* winning over cached ones, and it commits.                               *)
AfterGet(x) ==
  Save([x EXCEPT !.pending = [k \in Key |->
                    IF k \in x.keys
                    THEN (IF k \in x.held THEN x.pending[k] ELSE x.cache[k]) \cup {x.edit}
                    ELSE x.pending[k]],
                 !.held = @ \cup x.keys,
                 !.blind = IF x.refused THEN @ \cup (x.keys \ x.held) ELSE @], 1)

(* Whoever awaits load() goes on when it resolves.                         *)
Resumed(x) ==
  CASE x.pc = "get"   -> AfterGet(x)
    [] x.pc = "save"  -> AfterLoad(x)
    [] x.pc = "first" -> [x EXCEPT !.pc = "snap"]
    [] OTHER          -> x

(* load: one read in flight, shared; it is asked for by whoever awaits it, *)
(* or by a list that reloads on a change event.                            *)
load(w) ==
  /\ Listening(w) /\ ~win[w].loaded /\ win[w].ask = "none"
  /\ Sets(w, [win[w] EXCEPT !.ask = "asked", !.stale = FALSE, !.try = 1])
  /\ UNCHANGED <<primary, snapshot, news, edits, acked, bounds>>

(* fs_read_file: the map, or nothing at all from a file that is missing or *)
(* torn; a file that would not open is unseen.                             *)
read(w) ==
  /\ win[w].ask = "asked"
  /\ \/ /\ Sets(w, [win[w] EXCEPT !.ask = "answered", !.got = primary.map, !.unseen = FALSE])
        /\ UNCHANGED faults
     \/ /\ Fault
        /\ Sets(w, [win[w] EXCEPT !.ask = "answered", !.got = EmptyMap, !.unseen = TRUE])
  /\ UNCHANGED <<primary, snapshot, news, edits, acked, closes, tears>>

(* Mutant: what was read is installed though the file has moved on.        *)
fillStale(w) ==
  /\ win[w].ask = "answered"
  /\ Sets(w, Resumed([win[w] EXCEPT !.ask = "none", !.cache = win[w].got,
                                    !.refused = win[w].unseen, !.loaded = TRUE]))
  /\ UNCHANGED <<primary, snapshot, news, edits, acked, bounds>>

(* fill: bytes read before a change event are read again, Attempts times   *)
(* at most; after that they are used once and not kept.                    *)
fill(w) ==
  /\ win[w].ask = "answered"
  /\ IF win[w].stale /\ win[w].try < Attempts
     THEN Sets(w, [win[w] EXCEPT !.ask = "asked", !.stale = FALSE, !.try = @ + 1])
     ELSE Sets(w, Resumed([win[w] EXCEPT !.ask = "none", !.cache = win[w].got,
                                         !.refused = win[w].unseen, !.loaded = ~win[w].stale]))
  /\ UNCHANGED <<primary, snapshot, news, edits, acked, bounds>>

(* The change event: the cache is dropped, pending is kept.                *)
invalidate(w) ==
  /\ news[w] > 0 /\ Listening(w)
  /\ news' = [news EXCEPT ![w] = @ - 1]
  /\ Sets(w, [win[w] EXCEPT !.moved = TRUE, !.stale = TRUE, !.loaded = FALSE,
                            !.cache = EmptyMap, !.refused = FALSE,
                            !.await = IF @ > 0 THEN @ - 1 ELSE 0])
  /\ UNCHANGED <<primary, snapshot, edits, acked, bounds>>

----------------------------------------------------------------------------
(* The next operation of the write queue: a mutator of a store layer.  A   *)
(* key this window has pending is read without load().                     *)
enqueueWrite(w, keys) ==
  LET x == [win[w] EXCEPT !.keys = keys, !.edit = edits + 1,
                          !.made = @ \cup {<<k, edits + 1>> : k \in keys}]
  IN /\ win[w].pc = "idle"
     /\ edits < MaxEdits
     /\ edits' = edits + 1
     /\ Sets(w, IF win[w].loaded \/ keys \subseteq win[w].held
                THEN AfterGet(x) ELSE [x EXCEPT !.pc = "get"])
     /\ UNCHANGED <<primary, snapshot, news, acked, bounds>>

(* primaryPath() has answered: when a change event came in the meantime    *)
(* the payload is built again, Attempts times at most.                     *)
path(w) ==
  /\ win[w].pc = "path"
  /\ Sets(w, IF win[w].moved /\ win[w].attempt < Attempts
             THEN Save(win[w], win[w].attempt + 1)
             ELSE [win[w] EXCEPT !.pc = "write"])
  /\ UNCHANGED <<primary, snapshot, news, edits, acked, bounds>>

(* Mutant: a write that fails takes the pending keys with it.              *)
writeRollsBack(w) ==
  /\ win[w].pc = "write"
  /\ \/ primary' = Holding(win[w].bytes) /\ Goto(w, "landed") /\ UNCHANGED faults
     \/ /\ Fault /\ UNCHANGED primary
        /\ Sets(w, [win[w] EXCEPT !.pc = "idle", !.pending = EmptyMap, !.held = {}])
  /\ UNCHANGED <<snapshot, news, edits, acked, closes, tears>>

(* fs_write_file: one atomic replacement, or a rejection that leaves the   *)
(* file and the pending keys as they are.                                  *)
write(w) ==
  /\ win[w].pc = "write"
  /\ \/ primary' = Holding(win[w].bytes) /\ Goto(w, "landed") /\ UNCHANGED faults
     \/ Fault /\ Goto(w, "idle") /\ UNCHANGED primary
  /\ UNCHANGED <<snapshot, news, edits, acked, closes, tears>>

(* The write has answered: what was written is cached and no longer        *)
(* pending, and every window that listens is told, this one too.           *)
commit(w) ==
  /\ win[w].pc = "landed"
  /\ news' = [v \in Window |-> IF Listening(v) THEN news[v] + 1 ELSE news[v]]
  /\ Sets(w, [win[w] EXCEPT !.pc = "snap",
                !.cache = [k \in Key |-> IF k \in win[w].held THEN win[w].bytes[k] ELSE @[k]],
                !.pending = EmptyMap, !.held = {}, !.blind = {}, !.await = news[w] + 1])
  /\ UNCHANGED <<primary, snapshot, edits, acked, bounds>>

(* snapshotStoreFile, its two reads: only a good primary is copied, and    *)
(* never over a snapshot that would not open.  initialize takes one before *)
(* the first edit, a commit after its save.                                *)
Snapped(x) == [x EXCEPT !.pc = IF x.edit = 0 THEN "idle" ELSE "resolve"]

snapshotStoreFile(w) ==
  /\ win[w].pc = "snap"
  /\ \/ /\ Sets(w, IF primary.kind = "ok"
                   THEN [win[w] EXCEPT !.pc = "snapWrite", !.bytes = primary.map]
                   ELSE Snapped(win[w]))
        /\ UNCHANGED faults
     \/ Fault /\ Sets(w, Snapped(win[w]))
  /\ UNCHANGED <<primary, snapshot, news, edits, acked, closes, tears>>

(* And its write.                                                          *)
snapshotWrite(w) ==
  /\ win[w].pc = "snapWrite"
  /\ Sets(w, Snapped(win[w]))
  /\ \/ snapshot' = Holding(win[w].bytes) /\ UNCHANGED faults
     \/ Fault /\ UNCHANGED snapshot
  /\ UNCHANGED <<primary, news, edits, acked, closes, tears>>

(* commit() resolves: the snapshot is done and emit has handed this window *)
(* its own event.                                                          *)
resolve(w) ==
  /\ win[w].pc = "resolve" /\ win[w].await = 0
  /\ acked' = acked \cup {<<k, win[w].edit>> : k \in win[w].keys}
  /\ Goto(w, "idle")
  /\ UNCHANGED <<primary, snapshot, news, edits, bounds>>

----------------------------------------------------------------------------
(* A window ends; its memory goes with it.                                 *)
close(w) ==
  /\ win[w].pc # "down" /\ closes < profile.closes
  /\ closes' = closes + 1
  /\ Sets(w, Closed)
  /\ news' = [news EXCEPT ![w] = 0]
  /\ UNCHANGED <<primary, snapshot, edits, acked, faults, tears>>

(* A power cut leaves the store file without its contents.                 *)
tear ==
  /\ \A w \in Window : win[w].pc = "down"
  /\ primary.kind = "ok" /\ tears < profile.tears
  /\ tears' = tears + 1
  /\ primary' = Torn
  /\ UNCHANGED <<snapshot, win, news, edits, acked, faults, closes>>

Step(w) ==
  \/ recover(w) \/ fallback(w) \/ restore(w) \/ load(w) \/ read(w) \/ fill(w) \/ invalidate(w)
  \/ path(w) \/ write(w) \/ commit(w) \/ snapshotStoreFile(w) \/ snapshotWrite(w)
  \/ resolve(w)

Next ==
  /\ UNCHANGED profile
  /\ \/ \E w \in Window :
          \/ settle(w) \/ Step(w) \/ close(w)
          \/ \E keys \in profile.touches[w] : enqueueWrite(w, keys)
     \/ tear

Spec == Init /\ [][Next]_vars

----------------------------------------------------------------------------
(* What the two files and every window hold.                               *)
TypeOK ==
  /\ primary \in File /\ snapshot \in File
  /\ win \in [Window -> Win]
  /\ news \in [Window -> Nat]
  /\ edits \in 0..MaxEdits
  /\ acked \subseteq Key \X Edit
  /\ faults \in 0..profile.faults /\ closes \in 0..profile.closes /\ tears \in 0..profile.tears

(* What the next start finds: the file, or the snapshot that replaces it.  *)
Durable == IF primary.kind = "ok" THEN primary.map ELSE snapshot.map

(* The file has been torn and the file system has refused something too.   *)
TornAndFaulty == tears > 0 /\ faults > 0

(* Two windows that save at once write from caches of their own, a loss    *)
(* that the comment in save of fileKeyValueStore.ts accepts.               *)
OneWindow == \E w \in Window : Window = {w}

(* An acknowledged edit survives: once its commit has resolved it is in    *)
(* the file, or in the snapshot that recovery puts in the file's place     *)
(* (commit of recoveredStore.ts: save, then snapshot, then resolve).  Both *)
(* troubles together are more than the snapshot is for: a restore that is  *)
(* refused leaves the torn file to be read as an empty one.                *)
AckedSurvive == OneWindow /\ ~TornAndFaulty => \A a \in acked : a[2] \in Durable[a[1]]

(* An edit stays in the view of the session that made it: it is pending,   *)
(* or the cache in use has it, or the file the next load reads (pending of *)
(* fileKeyValueStore.ts: a failed commit is not rolled back, and a change  *)
(* event does not drop it).                                                *)
View(x, k) ==
  IF k \in x.held THEN x.pending[k] ELSE IF x.loaded THEN x.cache[k] ELSE primary.map[k]

SessionSeesOwnEdits ==
  OneWindow => \A w \in Window :
    win[w].pc = "idle" /\ ~win[w].refused => \A a \in win[w].made : a[2] \in View(win[w], a[1])

(* A good snapshot is replaced only by one that holds all it held: it is   *)
(* the last good copy whenever the file is torn (the guards of             *)
(* snapshotStoreFile).                                                     *)
SnapshotNeverShrinks ==
  [][OneWindow /\ snapshot.kind = "ok" /\ ~TornAndFaulty
       => \A k \in Key : snapshot.map[k] \subseteq snapshot'.map[k]]_vars

(* A value built on a read that failed is never written (refused of        *)
(* fileKeyValueStore.ts: a file this layer cannot read is not destroyed).  *)
BlindNeverWritten ==
  OneWindow => \A w \in Window : win[w].pc \in {"path", "write"} => win[w].blind = {}

(* A second window may start, but none recovers the file behind another's  *)
(* back and none ends between its write and the event that announces it.   *)
Undisturbed == OneWindow \/ (~profile.fresh /\ profile.tears = 0 /\ profile.closes = 0)

(* No window is left behind: when no change event is on its way and no     *)
(* write waits to be announced, a cache in use says what the file says     *)
(* (generation and stale of fileKeyValueStore.ts; the subscription of      *)
(* initialize comes before the first load).                                *)
CacheCoherent ==
  Undisturbed => \A w \in Window :
    /\ win[w].loaded /\ ~win[w].refused /\ news[w] = 0
    /\ \A v \in Window : win[v].pc # "landed"
    => win[w].cache = primary.map
============================================================================
