------------------------ MODULE RecoveredStoreProofs ------------------------
(***************************************************************************)
(* RecoveredStore is proved here for any keys, edits, attempts and bounds: *)
(* what one window promises of its edits, and that the caches of several   *)
(* windows follow the file.                                                *)
(***************************************************************************)
EXTENDS RecoveredStore, TLAPS

Types ==
  /\ profile \in Profiles
  /\ primary \in File /\ snapshot \in File
  /\ win \in [Window -> Win] /\ news \in [Window -> Nat]
  /\ \A w \in Window :
       win[w].pc \in {"get", "save", "path", "write", "landed", "resolve"} => win[w].edit # 0
  /\ edits \in 0..MaxEdits /\ acked \subseteq Key \X Edit
  /\ faults \in 0..profile.faults /\ closes \in 0..profile.closes /\ tears \in 0..profile.tears

(* A file without contents is read as the empty map.                       *)
FileInv ==
  /\ primary.kind # "ok" => primary.map = EmptyMap
  /\ snapshot.kind # "ok" => snapshot.map = EmptyMap

(* Nothing is read before the window listens.  A file that is there and is *)
(* never torn is not recovered.                                            *)
StartInv ==
  /\ \A w \in Window : ~Listening(w) => ~win[w].loaded /\ win[w].ask = "none"
  /\ ~profile.fresh /\ profile.tears = 0 =>
       primary.kind = "ok" /\ \A w \in Window : win[w].pc \notin {"fallback", "restore"}

(* What a cache holds, and what a read is about to put there, is the file, *)
(* unless an event that says otherwise is on its way or about to be sent.  *)
Told(w) == news[w] > 0 \/ \E v \in Window : win[v].pc = "landed"

CacheInv ==
  Undisturbed => \A w \in Window :
    /\ win[w].loaded /\ ~win[w].refused => Told(w) \/ win[w].cache = primary.map
    /\ win[w].ask = "answered" /\ ~win[w].unseen /\ ~win[w].stale
         => Told(w) \/ win[w].got = primary.map

(* The rest is about a window that is alone.  Its own event is the only    *)
(* one, and it has come before the next read or edit.                      *)
QueueInv(w) ==
  LET x == win[w] IN
  /\ x.await = news[w] /\ news[w] <= 1
  /\ news[w] > 0 => /\ x.pc \in {"snap", "snapWrite", "resolve"} /\ x.edit # 0
                  /\ x.loaded /\ ~x.refused
  /\ x.ask # "none" => ~x.loaded /\ ~x.stale
  /\ x.refused => x.loaded
  /\ x.blind # {} => x.refused
  /\ x.pc \in {"path", "write", "landed"} => x.loaded /\ ~x.refused
  /\ ~Listening(w) \/ x.pc = "first" => x.keys = {} /\ x.held = {} /\ x.made = {}

(* What is on its way to a file.                                           *)
BytesInv(w) ==
  LET x == win[w] IN
  /\ x.pc \in {"path", "write", "landed"} =>
       \A k \in Key : x.bytes[k] = IF k \in x.held THEN x.pending[k] ELSE x.cache[k]
  /\ x.pc \in {"landed", "snapWrite"} => primary = Holding(x.bytes)
  /\ x.pc \in {"fallback", "restore"} => primary.kind # "ok"
  /\ x.pc = "restore" => snapshot = Holding(x.bytes)

(* Where the edits are: pending over what the file has, or in the file.    *)
EditInv(w) ==
  LET x == win[w] IN
  /\ x.pc \in {"save", "path", "write", "landed"} =>
       x.keys \subseteq x.held /\ \A k \in x.keys : x.edit \in x.pending[k]
  /\ x.pc \in {"snap", "snapWrite", "resolve"} => \A k \in x.keys : x.edit \in primary.map[k]
  /\ ~x.refused => \A k \in x.held : primary.map[k] \subseteq x.pending[k]
  /\ ~x.refused => \A a \in x.made :
       \/ x.pc = "get" /\ a[1] \in x.keys /\ a[2] = x.edit
       \/ a[2] \in IF a[1] \in x.held THEN x.pending[a[1]] ELSE primary.map[a[1]]

(* The snapshot is behind the file by no acknowledged edit, as long as the *)
(* file system refuses nothing.                                            *)
SnapshotInv(w) ==
  LET x == win[w] IN
  /\ faults = 0 /\ x.pc = "resolve" => \A k \in x.keys : x.edit \in snapshot.map[k]
  /\ faults = 0 /\ Listening(w) /\ primary.kind # "ok" => snapshot.kind # "ok"

AckedInv ==
  /\ tears = 0 /\ primary.kind # "ok" => snapshot.kind # "ok" /\ acked = {}
  /\ primary.kind = "ok" /\ snapshot.kind = "ok" /\ ~TornAndFaulty =>
       \A k \in Key : snapshot.map[k] \subseteq primary.map[k]
  /\ faults = 0 => \A a \in acked : a[2] \in snapshot.map[a[1]]
  /\ primary.kind = "ok" /\ ~TornAndFaulty => \A a \in acked : a[2] \in primary.map[a[1]]

AloneInv ==
  OneWindow => /\ AckedInv
               /\ \A w \in Window : QueueInv(w) /\ BytesInv(w) /\ EditInv(w) /\ SnapshotInv(w)

IndInv == Types /\ FileInv /\ StartInv /\ CacheInv /\ AloneInv

-----------------------------------------------------------------------------
(* The initial state.                                                      *)
LEMMA InitIndInv == Init => IndInv
<1> SUFFICES ASSUME Init PROVE IndInv
  OBVIOUS
<1> USE StoreAssumption
<1>1. /\ profile \in Profiles /\ EmptyMap \in Map /\ Attempts \in Nat \ {0} /\ MaxEdits \in Nat
      /\ profile.faults \in Nat /\ profile.closes \in Nat /\ profile.tears \in Nat
      /\ profile.fresh \in BOOLEAN
  BY DEF Init, EmptyMap, Map, Attempts, MaxEdits
<1>2. Closed \in Win
  BY <1>1 DEF Closed, Win, Pc
<1>3. Types
  BY <1>1, <1>2 DEF Init, Types, File, Missing, Holding, Closed
<1>4. \A w \in Window : win[w] = Closed /\ news[w] = 0
  BY DEF Init
<1>5. FileInv /\ StartInv
  BY <1>1, <1>4 DEF Init, FileInv, StartInv, Missing, Holding, Closed
<1>6. CacheInv
  BY <1>4 DEF CacheInv, Closed
<1>7. AckedInv
  BY <1>1 DEF Init, AckedInv, Missing, Holding, TornAndFaulty
<1>8. ASSUME NEW w \in Window PROVE QueueInv(w) /\ BytesInv(w) /\ EditInv(w) /\ SnapshotInv(w)
  BY <1>4 DEF QueueInv, BytesInv, EditInv, SnapshotInv, Closed, Listening
<1> QED BY <1>3, <1>5, <1>6, <1>7, <1>8 DEF IndInv, AloneInv

-----------------------------------------------------------------------------
(* The situation stays, and with it everything that depends on it alone.   *)
LEMMA SituationStays ==
  ASSUME UNCHANGED profile
  PROVE  /\ Window' = Window /\ Win' = Win /\ File' = File /\ Edit' = Edit /\ MaxEdits' = MaxEdits
         /\ Attempts' = Attempts /\ Map' = Map
         /\ OneWindow' = OneWindow /\ Undisturbed' = Undisturbed
BY DEF Window, Win, File, Edit, MaxEdits, Attempts, Map, OneWindow, Undisturbed

LEMMA SituationTypes ==
  ASSUME Types
  PROVE  /\ EmptyMap \in Map /\ Attempts \in Nat \ {0} /\ MaxEdits \in Nat
         /\ profile.faults \in Nat /\ profile.closes \in Nat /\ profile.tears \in Nat
         /\ profile.fresh \in BOOLEAN
BY StoreAssumption DEF Types, EmptyMap, Map, Attempts, MaxEdits

(* What a lone window may use, and has to show.                            *)
LEMMA AloneNow ==
  ASSUME IndInv, OneWindow, NEW w \in Window
  PROVE  /\ Window = {w} /\ AckedInv
         /\ QueueInv(w) /\ BytesInv(w) /\ EditInv(w) /\ SnapshotInv(w)
BY DEF IndInv, AloneInv, OneWindow

LEMMA AloneNext ==
  ASSUME UNCHANGED profile, NEW w \in Window,
         OneWindow => AckedInv' /\ QueueInv(w)' /\ BytesInv(w)' /\ EditInv(w)' /\ SnapshotInv(w)'
  PROVE  AloneInv'
<1> SUFFICES ASSUME OneWindow PROVE AloneInv'
  BY SituationStays DEF AloneInv
<1>1. Window' = {w}
  BY SituationStays DEF OneWindow
<1> QED BY <1>1 DEF AloneInv

(* A step of window w that writes nothing to the file and tells nobody.    *)
LEMMA CacheNext ==
  ASSUME CacheInv, UNCHANGED <<profile, news, primary>>, NEW w \in Window,
         \A v \in Window \ {w} : win'[v] = win[v],
         win'[w].pc = "landed" <=> win[w].pc = "landed",
         Undisturbed =>
           /\ (win[w].loaded /\ ~win[w].refused => Told(w) \/ win[w].cache = primary.map)'
           /\ (win[w].ask = "answered" /\ ~win[w].unseen /\ ~win[w].stale
                => Told(w) \/ win[w].got = primary.map)'
  PROVE  CacheInv'
<1>1. Window' = Window /\ Undisturbed' = Undisturbed
  BY SituationStays
<1>2. ASSUME NEW v \in Window, Told(v) PROVE Told(v)'
  BY <1>1, <1>2 DEF Told
<1> QED BY <1>1, <1>2 DEF CacheInv

(* y is x but for pc, bytes and the loop of save().                        *)
Kept(x, y) ==
  /\ y.keys = x.keys /\ y.edit = x.edit /\ y.cache = x.cache /\ y.pending = x.pending
  /\ y.held = x.held /\ y.loaded = x.loaded /\ y.refused = x.refused /\ y.await = x.await
  /\ y.ask = x.ask /\ y.got = x.got /\ y.unseen = x.unseen /\ y.stale = x.stale
  /\ y.blind = x.blind /\ y.made = x.made

(* Only window w has moved, to a state of the right kind.                  *)
Moves(w, y) ==
  /\ win' \in [Window -> Win] /\ win'[w] = y
  /\ \A v \in Window \ {w} : win'[v] = win[v]

LEMMA SetsMoves == ASSUME Types, NEW w \in Window, NEW y \in Win, Sets(w, y) PROVE Moves(w, y)
BY DEF Types, Sets, Moves

LEMMA GotoMoves ==
  ASSUME Types, NEW w \in Window, NEW where \in Pc, Goto(w, where)
  PROVE  /\ Moves(w, win'[w]) /\ win'[w].pc = where
         /\ Kept(win[w], win'[w]) /\ win'[w].bytes = win[w].bytes
<1> DEFINE y == [win[w] EXCEPT !.pc = where]
<1>1. win[w] \in Win
  BY DEF Types
<1>2. y \in Win /\ y.pc = where /\ Kept(win[w], y) /\ y.bytes = win[w].bytes
  BY <1>1 DEF Win, Kept
<1>3. Moves(w, y)
  BY <1>2, SetsMoves DEF Goto
<1> QED BY <1>2, <1>3 DEF Moves

LEMMA CacheKept ==
  ASSUME CacheInv, UNCHANGED <<profile, news, primary>>, NEW w \in Window, Moves(w, win'[w]),
         win'[w].pc = "landed" <=> win[w].pc = "landed", Kept(win[w], win'[w])
  PROVE  CacheInv'
<1>1. ASSUME Told(w) PROVE Told(w)'
  BY <1>1, SituationStays DEF Told, Moves
<1> QED BY <1>1, CacheNext DEF CacheInv, Kept, Moves

(* The file system refuses something, or nothing.                          *)
LEMMA FaultCount ==
  ASSUME Types, UNCHANGED <<profile, tears>>, faults' = faults \/ Fault
  PROVE  /\ faults' \in 0..profile.faults /\ (faults' = 0 => faults = 0) /\ (Fault => faults' # 0)
         /\ TornAndFaulty => TornAndFaulty'
BY SituationTypes DEF Types, Fault, TornAndFaulty

LEMMA AckedKept ==
  ASSUME Types, UNCHANGED <<profile, primary, snapshot, acked, tears>>,
         faults' = faults \/ Fault, AckedInv
  PROVE  AckedInv'
BY FaultCount DEF AckedInv

-----------------------------------------------------------------------------
(* One lemma for each action.                                              *)
LEMMA SettleKeeps ==
  ASSUME IndInv, UNCHANGED profile, NEW w \in Window, settle(w) PROVE IndInv'
<1> USE SituationStays
<1>a. /\ win[w].pc = "down" /\ UNCHANGED <<primary, snapshot, news, edits, acked, bounds>>
      /\ Moves(w, win'[w]) /\ win'[w].pc = "recover"
      /\ Kept(win[w], win'[w]) /\ win'[w].bytes = win[w].bytes
  BY GotoMoves DEF settle, IndInv, Pc
<1>1. Types'
  BY <1>a DEF IndInv, Types, Moves, bounds
<1>2. FileInv' /\ StartInv'
  BY <1>a DEF IndInv, FileInv, StartInv, Moves, Kept, Listening
<1>3. CacheInv'
  BY <1>a, CacheKept DEF IndInv
<1>4. AloneInv'
  <2> SUFFICES ASSUME OneWindow
               PROVE  AckedInv' /\ QueueInv(w)' /\ BytesInv(w)' /\ EditInv(w)' /\ SnapshotInv(w)'
    BY AloneNext
  <2> QED BY <1>a, AloneNow DEF AckedInv, TornAndFaulty, QueueInv, BytesInv, EditInv,
             SnapshotInv,
                                Kept, Listening, bounds
<1> QED BY <1>1, <1>2, <1>3, <1>4 DEF IndInv

LEMMA RecoverKeeps ==
  ASSUME IndInv, UNCHANGED profile, NEW w \in Window, recover(w) PROVE IndInv'
<1> USE SituationStays
<1>a. /\ win[w].pc = "recover" /\ UNCHANGED <<primary, snapshot, news, edits, acked, closes, tears>>
      /\ Moves(w, win'[w]) /\ Kept(win[w], win'[w]) /\ win'[w].bytes = win[w].bytes
      /\ \/ win'[w].pc = (IF primary.kind = "ok" THEN "first" ELSE "fallback") /\ faults' = faults
         \/ win'[w].pc = "first" /\ Fault
  BY GotoMoves DEF recover, IndInv, Pc
<1>b. faults' \in 0..profile.faults /\ (faults' = 0 => faults = 0) /\ (Fault => faults' # 0)
  BY <1>a, FaultCount DEF IndInv
<1>1. Types'
  BY <1>a, <1>b DEF IndInv, Types, Moves
<1>2. FileInv' /\ StartInv'
  BY <1>a DEF IndInv, FileInv, StartInv, Moves, Kept, Listening
<1>3. CacheInv'
  BY <1>a, CacheKept DEF IndInv
<1>4. AloneInv'
  <2> SUFFICES ASSUME OneWindow
               PROVE  AckedInv' /\ QueueInv(w)' /\ BytesInv(w)' /\ EditInv(w)' /\ SnapshotInv(w)'
    BY AloneNext
  <2>1. AckedInv'
    BY <1>a, AckedKept, AloneNow DEF IndInv
  <2>2. win[w].held = {} /\ win[w].keys = {} /\ win[w].made = {}
    BY <1>a, AloneNow DEF QueueInv, Listening
  <2>3. QueueInv(w)'
    BY <1>a, AloneNow DEF QueueInv, Kept, Listening
  <2>4. BytesInv(w)' /\ EditInv(w)'
    BY <1>a, <2>2, AloneNow DEF BytesInv, EditInv, Kept
  <2>5. SnapshotInv(w)'
    BY <1>a, <1>b, AloneNow DEF SnapshotInv, Kept, Listening
  <2> QED BY <2>1, <2>3, <2>4, <2>5
<1> QED BY <1>1, <1>2, <1>3, <1>4 DEF IndInv

LEMMA FallbackKeeps ==
  ASSUME IndInv, UNCHANGED profile, NEW w \in Window, fallback(w) PROVE IndInv'
<1> USE SituationStays
<1>a. /\ win[w].pc = "fallback" /\ UNCHANGED <<primary, snapshot, news, edits, acked, closes, tears>>
      /\ faults' = faults \/ Fault
  BY DEF fallback
<1>b. /\ Moves(w, win'[w]) /\ Kept(win[w], win'[w])
      /\ \/ win'[w].pc = "restore" /\ snapshot.kind = "ok" /\ win'[w].bytes = snapshot.map
         \/ win'[w].pc = "first" /\ (faults' = faults => snapshot.kind # "ok")
  <2>1. win[w] \in Win /\ snapshot.map \in Map /\ faults \in Nat
    BY SituationTypes DEF IndInv, Types, File
  <2>2. CASE snapshot.kind = "ok" /\ Sets(w, [win[w] EXCEPT !.pc = "restore", !.bytes = snapshot.map])
    <3> DEFINE y == [win[w] EXCEPT !.pc = "restore", !.bytes = snapshot.map]
    <3>1. y \in Win
      BY <2>1 DEF Win, Pc
    <3>2. Kept(win[w], y) /\ y.pc = "restore" /\ y.bytes = snapshot.map
      BY <2>1 DEF Win, Kept
    <3> QED BY <2>2, <3>1, <3>2, SetsMoves DEF Moves, IndInv
  <2>3. CASE snapshot.kind # "ok" /\ Goto(w, "first")
    BY <2>3, GotoMoves DEF IndInv, Pc
  <2>4. CASE Fault /\ Goto(w, "first")
    BY <2>1, <2>4, GotoMoves DEF IndInv, Pc, Fault
  <2> QED BY <2>2, <2>3, <2>4 DEF fallback, Goto
<1>c. faults' \in 0..profile.faults /\ (faults' = 0 => faults = 0) /\ (Fault => faults' # 0)
  BY <1>a, FaultCount DEF IndInv
<1>1. Types'
  BY <1>a, <1>b, <1>c DEF IndInv, Types, Moves, Kept
<1>2. FileInv' /\ StartInv'
  BY <1>a, <1>b DEF IndInv, FileInv, StartInv, Moves, Kept, Listening
<1>3. CacheInv'
  BY <1>a, <1>b, CacheKept DEF IndInv
<1>4. AloneInv'
  <2> SUFFICES ASSUME OneWindow
               PROVE  AckedInv' /\ QueueInv(w)' /\ BytesInv(w)' /\ EditInv(w)' /\ SnapshotInv(w)'
    BY AloneNext
  <2>1. AckedInv'
    BY <1>a, AckedKept, AloneNow DEF IndInv
  <2>2. win[w].held = {} /\ win[w].keys = {} /\ win[w].made = {} /\ primary.kind # "ok"
    BY <1>a, AloneNow DEF QueueInv, BytesInv, Listening
  <2>3. QueueInv(w)'
    BY <1>a, <1>b, AloneNow DEF QueueInv, Kept, Listening
  <2>4. BytesInv(w)'
    BY <1>a, <1>b, <2>2 DEF BytesInv, Kept, IndInv, Types, File, Holding
  <2>5. EditInv(w)'
    BY <1>a, <1>b, <2>2, AloneNow DEF EditInv, Kept
  <2>6. SnapshotInv(w)'
    BY <1>a, <1>b, <1>c, <2>2, AloneNow DEF SnapshotInv, Kept, Listening
  <2> QED BY <2>1, <2>3, <2>4, <2>5, <2>6
<1> QED BY <1>1, <1>2, <1>3, <1>4 DEF IndInv

LEMMA RestoreKeeps ==
  ASSUME IndInv, UNCHANGED profile, NEW w \in Window, restore(w) PROVE IndInv'
<1> USE SituationStays
<1>a. /\ win[w].pc = "restore" /\ UNCHANGED <<snapshot, news, edits, acked, closes, tears>>
      /\ Moves(w, win'[w]) /\ Kept(win[w], win'[w]) /\ win'[w].pc = "first"
      /\ \/ primary' = Holding(win[w].bytes) /\ faults' = faults
         \/ primary' = primary /\ Fault
  BY GotoMoves DEF restore, IndInv, Pc
<1>b. faults' \in 0..profile.faults /\ (faults' = 0 => faults = 0) /\ (Fault => faults' # 0)
      /\ (TornAndFaulty => TornAndFaulty')
  BY <1>a, FaultCount DEF IndInv
<1>c. primary' \in File /\ (primary'.kind # "ok" => primary'.map = EmptyMap)
      /\ (primary'.kind = "ok" \/ primary' = primary)
  BY <1>a DEF IndInv, Types, FileInv, File, Win, Holding
<1>1. Types'
  BY <1>a, <1>b, <1>c DEF IndInv, Types, Moves, Kept
<1>2. FileInv' /\ StartInv'
  BY <1>a, <1>c DEF IndInv, FileInv, StartInv, Moves, Kept, Listening, EmptyMap
<1>3. CacheInv'
  <2>1. CASE Undisturbed /\ ~OneWindow
    BY <1>a, <2>1 DEF IndInv, StartInv, Undisturbed
  <2>2. CASE OneWindow
    <3>1. Window' = {w} /\ ~win'[w].loaded /\ win'[w].ask = "none"
      BY <1>a, <2>2 DEF OneWindow, IndInv, StartInv, Listening, Kept
    <3> QED BY <3>1 DEF CacheInv
  <2> QED BY <2>1, <2>2 DEF CacheInv, Undisturbed
<1>4. AloneInv'
  <2> SUFFICES ASSUME OneWindow
               PROVE  AckedInv' /\ QueueInv(w)' /\ BytesInv(w)' /\ EditInv(w)' /\ SnapshotInv(w)'
    BY AloneNext
  <2>2. /\ win[w].held = {} /\ win[w].keys = {} /\ win[w].made = {}
        /\ primary.kind # "ok" /\ snapshot = Holding(win[w].bytes)
    BY <1>a, AloneNow DEF QueueInv, BytesInv, Listening
  <2>1. AckedInv'
    <3>1. CASE primary' = snapshot
      <4>1. faults \in Nat /\ tears \in Nat /\ faults' \in Nat /\ tears' = tears
        BY <1>a, <1>b, SituationTypes DEF IndInv, Types
      <4>2. ~TornAndFaulty' => tears = 0 \/ faults = 0
        BY <1>b, <4>1 DEF TornAndFaulty
      <4> QED BY <1>a, <1>b, <2>2, <3>1, <4>2, AloneNow DEF AckedInv, Holding
    <3>2. CASE primary' = primary /\ Fault
      BY <1>a, <3>2, AckedKept, AloneNow DEF IndInv
    <3> QED BY <1>a, <2>2, <3>1, <3>2
  <2>3. QueueInv(w)'
    BY <1>a, AloneNow DEF QueueInv, Kept, Listening
  <2>4. BytesInv(w)' /\ EditInv(w)'
    BY <1>a, <2>2 DEF BytesInv, EditInv, Kept
  <2>5. SnapshotInv(w)'
    BY <1>a, <1>b, <2>2 DEF SnapshotInv, Kept, Holding
  <2> QED BY <2>1, <2>3, <2>4, <2>5
<1> QED BY <1>1, <1>2, <1>3, <1>4 DEF IndInv

LEMMA LoadKeeps ==
  ASSUME IndInv, UNCHANGED profile, NEW w \in Window, load(w) PROVE IndInv'
<1> USE SituationStays
<1> DEFINE x == win[w]
           y == [x EXCEPT !.ask = "asked", !.stale = FALSE, !.try = 1]
<1>a. /\ Listening(w) /\ ~x.loaded /\ x.ask = "none" /\ Sets(w, y)
      /\ UNCHANGED <<primary, snapshot, news, edits, acked, faults, closes, tears>>
  BY DEF load, bounds
<1>b. x \in Win /\ 1 \in 1..Attempts
  BY SituationTypes DEF IndInv, Types
<1>c. y \in Win
  BY <1>b DEF Win
<1>d. /\ y.pc = x.pc /\ y.keys = x.keys /\ y.edit = x.edit /\ y.cache = x.cache
      /\ y.pending = x.pending /\ y.held = x.held /\ y.loaded = x.loaded /\ y.refused = x.refused
      /\ y.bytes = x.bytes /\ y.await = x.await /\ y.ask = "asked" /\ ~y.stale
      /\ y.blind = x.blind /\ y.made = x.made
  BY <1>b DEF Win
<1>e. Moves(w, y)
  BY <1>a, <1>c, SetsMoves DEF IndInv
<1> HIDE DEF y
<1>1. Types'
  BY <1>a, <1>d, <1>e DEF IndInv, Types, Moves
<1>2. FileInv' /\ StartInv'
  BY <1>a, <1>d, <1>e DEF IndInv, FileInv, StartInv, Moves, Listening
<1>3. CacheInv'
  BY <1>a, <1>d, <1>e, CacheNext DEF IndInv, Moves
<1>4. AloneInv'
  <2> SUFFICES ASSUME OneWindow
               PROVE  AckedInv' /\ QueueInv(w)' /\ BytesInv(w)' /\ EditInv(w)' /\ SnapshotInv(w)'
    BY AloneNext
  <2>1. AckedInv'
    BY <1>a, AckedKept, AloneNow DEF IndInv
  <2>2. QueueInv(w)'
    BY <1>a, <1>d, <1>e, AloneNow DEF QueueInv, Listening, Moves
  <2>3. BytesInv(w)'
    BY <1>a, <1>d, <1>e, AloneNow DEF BytesInv, Moves
  <2>4. EditInv(w)'
    BY <1>a, <1>d, <1>e, AloneNow DEF EditInv, Moves
  <2>5. SnapshotInv(w)'
    BY <1>a, <1>d, <1>e, AloneNow DEF SnapshotInv, Listening, Moves
  <2> QED BY <2>1, <2>2, <2>3, <2>4, <2>5
<1> QED BY <1>1, <1>2, <1>3, <1>4 DEF IndInv

LEMMA ReadKeeps ==
  ASSUME IndInv, UNCHANGED profile, NEW w \in Window, read(w) PROVE IndInv'
<1> USE SituationStays
<1> DEFINE x == win[w]
           Y(got, unseen) == [x EXCEPT !.ask = "answered", !.got = got, !.unseen = unseen]
<1>a. /\ x.ask = "asked" /\ UNCHANGED <<primary, snapshot, news, edits, acked, closes, tears>>
      /\ faults' = faults \/ Fault
  BY DEF read
<1>b. PICK got \in Map, unseen \in BOOLEAN :
        Sets(w, Y(got, unseen)) /\ (unseen \/ got = primary.map)
  BY SituationTypes DEF read, IndInv, Types, File
<1> DEFINE y == Y(got, unseen)
<1>c. x \in Win
  BY DEF IndInv, Types
<1>d. y \in Win
  BY <1>c DEF Win
<1>e. /\ y.pc = x.pc /\ y.keys = x.keys /\ y.edit = x.edit /\ y.cache = x.cache
      /\ y.pending = x.pending /\ y.held = x.held /\ y.loaded = x.loaded /\ y.refused = x.refused
      /\ y.bytes = x.bytes /\ y.await = x.await /\ y.ask = "answered" /\ y.stale = x.stale
      /\ y.blind = x.blind /\ y.made = x.made /\ y.got = got /\ y.unseen = unseen
  BY <1>c DEF Win
<1>f. Moves(w, y)
  BY <1>b, <1>d, SetsMoves DEF IndInv
<1> HIDE DEF y
<1>g. faults' \in 0..profile.faults /\ (faults' = 0 => faults = 0)
  BY <1>a, FaultCount DEF IndInv
<1>1. Types'
  BY <1>a, <1>e, <1>f, <1>g DEF IndInv, Types, Moves
<1>2. FileInv' /\ StartInv'
  BY <1>a, <1>e, <1>f DEF IndInv, FileInv, StartInv, Moves, Listening
<1>3. CacheInv'
  <2>1. ASSUME Told(w) PROVE Told(w)'
    BY <1>a, <1>e, <1>f, <2>1 DEF Told, Moves
  <2> QED BY <1>a, <1>b, <1>e, <1>f, <2>1, CacheNext DEF IndInv, CacheInv, Moves
<1>4. AloneInv'
  <2> SUFFICES ASSUME OneWindow
               PROVE  AckedInv' /\ QueueInv(w)' /\ BytesInv(w)' /\ EditInv(w)' /\ SnapshotInv(w)'
    BY AloneNext
  <2>1. AckedInv'
    BY <1>a, AckedKept, AloneNow DEF IndInv
  <2>2. QueueInv(w)'
    BY <1>a, <1>e, <1>f, AloneNow DEF QueueInv, Listening, Moves
  <2>3. BytesInv(w)'
    BY <1>a, <1>e, <1>f, AloneNow DEF BytesInv, Moves
  <2>4. EditInv(w)'
    BY <1>a, <1>e, <1>f, AloneNow DEF EditInv, Moves
  <2>5. SnapshotInv(w)'
    BY <1>a, <1>e, <1>f, <1>g, AloneNow DEF SnapshotInv, Listening, Moves
  <2> QED BY <2>1, <2>2, <2>3, <2>4, <2>5
<1> QED BY <1>1, <1>2, <1>3, <1>4 DEF IndInv

LEMMA InvalidateKeeps ==
  ASSUME IndInv, UNCHANGED profile, NEW w \in Window, invalidate(w) PROVE IndInv'
<1> USE SituationStays
<1> DEFINE x == win[w]
           left == IF x.await > 0 THEN x.await - 1 ELSE 0
           y == [x EXCEPT !.moved = TRUE, !.stale = TRUE, !.loaded = FALSE, !.cache = EmptyMap,
                          !.refused = FALSE, !.await = left]
<1>a. /\ news[w] > 0 /\ Listening(w) /\ news' = [news EXCEPT ![w] = @ - 1] /\ Sets(w, y)
      /\ UNCHANGED <<primary, snapshot, edits, acked, faults, closes, tears>>
  BY DEF invalidate, bounds
<1>b. x \in Win /\ EmptyMap \in Map /\ left \in Nat /\ news[w] \in Nat
      /\ news' \in [Window -> Nat] /\ news'[w] = news[w] - 1
      /\ \A v \in Window \ {w} : news'[v] = news[v]
  <2>1. x \in Win /\ EmptyMap \in Map /\ news \in [Window -> Nat]
    BY SituationTypes DEF IndInv, Types
  <2>2. x.await \in Nat
    BY <2>1 DEF Win
  <2> QED BY <1>a, <2>1, <2>2
<1> HIDE DEF left
<1>c. y \in Win
  BY <1>b DEF Win
<1>d. /\ y.pc = x.pc /\ y.keys = x.keys /\ y.edit = x.edit
      /\ y.pending = x.pending /\ y.held = x.held /\ ~y.loaded /\ ~y.refused
      /\ y.bytes = x.bytes /\ y.await = left /\ y.ask = x.ask /\ y.stale
      /\ y.blind = x.blind /\ y.made = x.made
  BY <1>b DEF Win
<1>e. Moves(w, y)
  BY <1>a, <1>c, SetsMoves DEF IndInv
<1> HIDE DEF y
<1>1. Types'
  BY <1>a, <1>b, <1>d, <1>e DEF IndInv, Types, Moves
<1>2. FileInv' /\ StartInv'
  BY <1>a, <1>d, <1>e DEF IndInv, FileInv, StartInv, Moves, Listening
<1>3. CacheInv'
  <2>1. ASSUME NEW v \in Window \ {w}, Told(v) PROVE Told(v)'
    BY <1>a, <1>b, <1>d, <1>e, <2>1 DEF Told, Moves
  <2>2. ASSUME NEW v \in Window, Undisturbed
        PROVE  /\ (win[v].loaded /\ ~win[v].refused => Told(v) \/ win[v].cache = primary.map)'
               /\ (win[v].ask = "answered" /\ ~win[v].unseen /\ ~win[v].stale
                    => Told(v) \/ win[v].got = primary.map)'
    <3>1. CASE v = w
      BY <1>d, <1>e, <3>1 DEF Moves
    <3>2. CASE v # w
      BY <1>a, <1>e, <2>1, <2>2, <3>2 DEF IndInv, CacheInv, Moves
    <3> QED BY <3>1, <3>2
  <2> QED BY <2>2 DEF CacheInv
<1>4. AloneInv'
  <2> SUFFICES ASSUME OneWindow
               PROVE  AckedInv' /\ QueueInv(w)' /\ BytesInv(w)' /\ EditInv(w)' /\ SnapshotInv(w)'
    BY AloneNext
  <2>1. AckedInv'
    BY <1>a, AckedKept, AloneNow DEF IndInv
  <2>2. /\ left = news'[w] /\ x.pc \in {"snap", "snapWrite", "resolve"} /\ x.ask = "none"
    BY <1>a, <1>b, AloneNow DEF QueueInv, left
  <2>3. x.blind = {} /\ ~x.refused
    BY <1>a, AloneNow DEF QueueInv
  <2>4. QueueInv(w)'
    BY <1>a, <1>b, <1>d, <1>e, <2>2, <2>3, AloneNow DEF QueueInv, Listening, Moves
  <2>5. BytesInv(w)'
    BY <1>a, <1>d, <1>e, <2>2, AloneNow DEF BytesInv, Moves
  <2>6. EditInv(w)'
    BY <1>a, <1>d, <1>e, <2>2, <2>3, AloneNow DEF EditInv, Moves
  <2>7. SnapshotInv(w)'
    BY <1>a, <1>d, <1>e, AloneNow DEF SnapshotInv, Listening, Moves
  <2> QED BY <2>1, <2>4, <2>5, <2>6, <2>7
<1> QED BY <1>1, <1>2, <1>3, <1>4 DEF IndInv

-----------------------------------------------------------------------------
(* What save() and the read of an edit make of the window's state.         *)
Payload(x, y) == \A k \in Key : y.bytes[k] = IF k \in x.held THEN x.pending[k] ELSE x.cache[k]

(* load() has resolved for save(): y follows x.                            *)
AfterLoadIs(x, y) ==
  /\ y \in Win /\ Kept(x, y)
  /\ \/ x.refused /\ y.pc = "idle"
     \/ ~x.refused /\ y.pc = "path" /\ Payload(x, y)

SaveIs(x, y) ==
  /\ y \in Win /\ Kept(x, y)
  /\ \/ ~x.loaded /\ y.pc = "save"
     \/ x.loaded /\ x.refused /\ y.pc = "idle"
     \/ x.loaded /\ ~x.refused /\ y.pc = "path" /\ Payload(x, y)

LEMMA AfterLoadFacts == ASSUME Types, NEW x \in Win PROVE AfterLoadIs(x, AfterLoad(x))
<1> DEFINE bytes == [k \in Key |-> IF k \in x.held THEN x.pending[k] ELSE x.cache[k]]
<1>1. bytes \in Map
  BY DEF Win, Map
<1>2. CASE x.refused
  <2> DEFINE y == [x EXCEPT !.pc = "idle"]
  <2>1. AfterLoad(x) = y
    BY <1>2 DEF AfterLoad
  <2>2. y \in Win /\ y.pc = "idle"
    BY DEF Win, Pc
  <2>3. Kept(x, y)
    BY DEF Win, Kept
  <2> QED BY <1>2, <2>1, <2>2, <2>3 DEF AfterLoadIs
<1>3. CASE ~x.refused
  <2> DEFINE y == [x EXCEPT !.pc = "path", !.moved = FALSE, !.bytes = bytes]
  <2>1. AfterLoad(x) = y
    BY <1>3 DEF AfterLoad
  <2>2. \A k \in Key : bytes[k] = IF k \in x.held THEN x.pending[k] ELSE x.cache[k]
    OBVIOUS
  <2> HIDE DEF bytes
  <2>3. y \in Win
    BY <1>1 DEF Win, Pc
  <2>4. Kept(x, y) /\ y.pc = "path" /\ y.bytes = bytes
    BY DEF Win, Kept
  <2> QED BY <1>3, <2>1, <2>2, <2>3, <2>4 DEF AfterLoadIs, Payload
<1> QED BY <1>2, <1>3

LEMMA SaveFacts ==
  ASSUME Types, NEW x \in Win, NEW attempt \in 1..Attempts PROVE SaveIs(x, Save(x, attempt))
<1>1. CASE x.loaded
  <2> DEFINE u == [x EXCEPT !.attempt = attempt]
  <2>1. u \in Win
    BY DEF Win
  <2>2. Kept(x, u)
    BY DEF Win, Kept
  <2>3. Save(x, attempt) = AfterLoad(u)
    BY <1>1 DEF Save
  <2> HIDE DEF u
  <2>4. AfterLoadIs(u, AfterLoad(u))
    BY <2>1, AfterLoadFacts
  <2> QED BY <1>1, <2>2, <2>3, <2>4 DEF AfterLoadIs, SaveIs, Kept, Payload
<1>2. CASE ~x.loaded
  <2> DEFINE y == [x EXCEPT !.pc = "save", !.attempt = attempt]
  <2>1. y \in Win
    BY DEF Win, Pc
  <2>2. Kept(x, y) /\ y.pc = "save"
    BY DEF Win, Kept
  <2> QED BY <1>2, <2>1, <2>2 DEF Save, SaveIs
<1> QED BY <1>1, <1>2

(* The edit is in: every key it sets has it, on top of what was pending or *)
(* in the cache, and the rest of the window's state goes on to save().     *)
AfterGetIs(x, y) ==
  /\ y \in Win
  /\ y.keys = x.keys /\ y.edit = x.edit /\ y.cache = x.cache /\ y.loaded = x.loaded
  /\ y.refused = x.refused /\ y.await = x.await /\ y.ask = x.ask /\ y.got = x.got
  /\ y.unseen = x.unseen /\ y.stale = x.stale /\ y.made = x.made
  /\ y.held = x.held \cup x.keys
  /\ y.blind # {} => x.blind # {} \/ x.refused
  /\ \A k \in Key :
       y.pending[k] = IF k \in x.keys
                      THEN (IF k \in x.held THEN x.pending[k] ELSE x.cache[k]) \cup {x.edit}
                      ELSE x.pending[k]
  /\ \/ ~x.loaded /\ y.pc = "save"
     \/ x.loaded /\ x.refused /\ y.pc = "idle"
     \/ x.loaded /\ ~x.refused /\ y.pc = "path" /\ Payload(y, y)

LEMMA AfterGetFacts ==
  ASSUME Types, NEW x \in Win, x.edit \in Edit PROVE AfterGetIs(x, AfterGet(x))
<1> DEFINE pending == [k \in Key |->
                         IF k \in x.keys
                         THEN (IF k \in x.held THEN x.pending[k] ELSE x.cache[k]) \cup {x.edit}
                         ELSE x.pending[k]]
           blind == IF x.refused THEN x.blind \cup (x.keys \ x.held) ELSE x.blind
           u == [x EXCEPT !.pending = pending, !.held = @ \cup x.keys, !.blind = blind]
<1>1. pending \in Map /\ blind \subseteq Key
  BY DEF Win, Map
<1>2. /\ AfterGet(x) = Save(u, 1)
      /\ 1 \in 1..Attempts
  BY SituationTypes DEF AfterGet
<1>3. /\ blind # {} => x.blind # {} \/ x.refused
      /\ \A k \in Key :
           pending[k] = IF k \in x.keys
                        THEN (IF k \in x.held THEN x.pending[k] ELSE x.cache[k]) \cup {x.edit}
                        ELSE x.pending[k]
  OBVIOUS
<1> HIDE DEF pending, blind
<1>4. u \in Win
  BY <1>1 DEF Win
<1>5. /\ u.keys = x.keys /\ u.edit = x.edit /\ u.cache = x.cache /\ u.loaded = x.loaded
      /\ u.refused = x.refused /\ u.await = x.await /\ u.ask = x.ask /\ u.got = x.got
      /\ u.unseen = x.unseen /\ u.stale = x.stale /\ u.made = x.made
      /\ u.held = x.held \cup x.keys /\ u.pending = pending /\ u.blind = blind
  BY DEF Win
<1> HIDE DEF u
<1>6. SaveIs(u, Save(u, 1))
  BY <1>2, <1>4, SaveFacts
<1> QED BY <1>2, <1>3, <1>5, <1>6 DEF SaveIs, AfterGetIs, Kept, Payload

-----------------------------------------------------------------------------
(* The write queue.                                                        *)
LEMMA PathKeeps ==
  ASSUME IndInv, UNCHANGED profile, NEW w \in Window, path(w) PROVE IndInv'
<1> USE SituationStays
<1> DEFINE x == win[w]
<1>a. /\ x.pc = "path"
      /\ UNCHANGED <<primary, snapshot, news, edits, acked, faults, closes, tears>>
  BY DEF path, bounds
<1>b. /\ Moves(w, win'[w]) /\ Kept(x, win'[w])
      /\ \/ win'[w].pc = "write" /\ win'[w].bytes = x.bytes
         \/ SaveIs(x, win'[w])
  <2>1. CASE x.moved /\ x.attempt < Attempts
    <3>1. x \in Win /\ x.attempt + 1 \in 1..Attempts
      BY <2>1, SituationTypes DEF IndInv, Types, Win
    <3>2. SaveIs(x, Save(x, x.attempt + 1)) /\ Sets(w, Save(x, x.attempt + 1))
      BY <2>1, <3>1, SaveFacts DEF path, IndInv
    <3> QED BY <3>2, SetsMoves DEF SaveIs, Moves, IndInv
  <2>2. CASE ~(x.moved /\ x.attempt < Attempts)
    BY <2>2, GotoMoves DEF path, Goto, IndInv, Pc
  <2> QED BY <2>1, <2>2
<1>1. Types'
  BY <1>a, <1>b DEF IndInv, Types, Moves, Kept, SaveIs
<1>2. FileInv' /\ StartInv'
  BY <1>a, <1>b DEF IndInv, FileInv, StartInv, Moves, Kept, SaveIs, Listening
<1>3. CacheInv'
  BY <1>a, <1>b, CacheKept DEF IndInv, SaveIs
<1>4. AloneInv'
  <2> SUFFICES ASSUME OneWindow
               PROVE  AckedInv' /\ QueueInv(w)' /\ BytesInv(w)' /\ EditInv(w)' /\ SnapshotInv(w)'
    BY AloneNext
  <2>1. AckedInv'
    BY <1>a, AckedKept, AloneNow DEF IndInv
  <2>2. \/ win'[w].pc = "write" /\ win'[w].bytes = x.bytes
        \/ win'[w].pc = "path" /\ Payload(x, win'[w])
    BY <1>a, <1>b, AloneNow DEF QueueInv, SaveIs
  <2>3. QueueInv(w)'
    BY <1>a, <1>b, <2>2, AloneNow DEF QueueInv, Kept, Listening
  <2>4. BytesInv(w)'
    BY <1>a, <1>b, <2>2, AloneNow DEF BytesInv, Kept, Payload
  <2>5. EditInv(w)'
    BY <1>a, <1>b, <2>2, AloneNow DEF EditInv, Kept
  <2>6. SnapshotInv(w)'
    BY <1>a, <1>b, <2>2, AloneNow DEF SnapshotInv, Listening
  <2> QED BY <2>1, <2>3, <2>4, <2>5, <2>6
<1> QED BY <1>1, <1>2, <1>3, <1>4 DEF IndInv

(* The write lands or is refused.                                          *)
LEMMA WriteLands ==
  ASSUME IndInv, UNCHANGED profile, NEW w \in Window, win[w].pc = "write",
         primary' = Holding(win[w].bytes), Goto(w, "landed"),
         UNCHANGED <<snapshot, news, edits, acked, faults, closes, tears>>
  PROVE  IndInv'
<1> USE SituationStays
<1> DEFINE x == win[w]
<1>a. /\ Moves(w, win'[w]) /\ Kept(x, win'[w]) /\ win'[w].pc = "landed" /\ win'[w].bytes = x.bytes
  BY GotoMoves DEF IndInv, Pc
<1>b. primary' \in File /\ primary'.kind = "ok" /\ primary'.map = x.bytes
  BY DEF IndInv, Types, File, Win, Holding
<1>1. Types'
  BY <1>a, <1>b DEF IndInv, Types, Moves, Kept
<1>2. FileInv' /\ StartInv'
  BY <1>a, <1>b DEF IndInv, FileInv, StartInv, Moves, Kept, Listening, EmptyMap
<1>3. CacheInv'
  <2>1. ASSUME NEW v \in Window PROVE Told(v)'
    BY <1>a DEF Told
  <2> QED BY <2>1 DEF CacheInv
<1>4. AloneInv'
  <2> SUFFICES ASSUME OneWindow
               PROVE  AckedInv' /\ QueueInv(w)' /\ BytesInv(w)' /\ EditInv(w)' /\ SnapshotInv(w)'
    BY AloneNext
  <2>1. x.loaded /\ ~x.refused /\ ~Told(w)
    BY AloneNow DEF QueueInv, Told, IndInv, Types
  <2>2. x.cache = primary.map
    BY <2>1 DEF IndInv, CacheInv, Undisturbed
  <2>3. /\ \A k \in Key : x.bytes[k] = IF k \in x.held THEN x.pending[k] ELSE primary.map[k]
        /\ \A k \in Key : primary.map[k] \subseteq x.bytes[k]
        /\ x.held \subseteq Key
    BY <2>1, <2>2, AloneNow DEF BytesInv, EditInv, IndInv, Types, Win
  <2>4. AckedInv'
    <3>1. tears \in Nat /\ faults \in Nat
      BY SituationTypes DEF IndInv, Types
    <3>2. CASE primary.kind = "ok"
      BY <1>b, <2>3, <3>2, AloneNow DEF AckedInv, TornAndFaulty, IndInv, Types
    <3>3. CASE primary.kind # "ok" /\ tears = 0
      BY <1>b, <3>3, AloneNow DEF AckedInv, TornAndFaulty
    <3>4. CASE primary.kind # "ok" /\ tears > 0 /\ faults = 0
      <4>1. snapshot.kind # "ok" /\ snapshot.map = EmptyMap
        BY <3>4, AloneNow DEF SnapshotInv, Listening, IndInv, FileInv
      <4>2. acked = {}
        BY <3>4, <4>1, AloneNow DEF AckedInv, IndInv, Types, EmptyMap
      <4> QED BY <1>b, <4>1, <4>2 DEF AckedInv
    <3>5. CASE primary.kind # "ok" /\ tears > 0 /\ faults > 0
      BY <1>b, <3>5, AloneNow DEF AckedInv, TornAndFaulty
    <3> QED BY <3>1, <3>2, <3>3, <3>4, <3>5
  <2>5. QueueInv(w)'
    BY <1>a, <2>1, AloneNow DEF QueueInv, Kept, Listening
  <2>6. BytesInv(w)'
    BY <1>a, <1>b, AloneNow DEF BytesInv, Kept
  <2>7. EditInv(w)'
    <3>1. \A a \in x.made : a[1] \in Key
      BY DEF IndInv, Types, Win
    <3> QED BY <1>a, <1>b, <2>3, <3>1, AloneNow DEF EditInv, Kept
  <2>8. SnapshotInv(w)'
    BY <1>a, <1>b DEF SnapshotInv
  <2> QED BY <2>4, <2>5, <2>6, <2>7, <2>8
<1> QED BY <1>1, <1>2, <1>3, <1>4 DEF IndInv

LEMMA WriteKeeps ==
  ASSUME IndInv, UNCHANGED profile, NEW w \in Window, write(w) PROVE IndInv'
<1> USE SituationStays
<1>1. CASE primary' = Holding(win[w].bytes) /\ Goto(w, "landed") /\ UNCHANGED faults
  BY <1>1, WriteLands DEF write
<1>2. CASE Fault /\ Goto(w, "idle") /\ UNCHANGED primary
  <2>a. /\ win[w].pc = "write" /\ UNCHANGED <<primary, snapshot, news, edits, acked, closes, tears>>
        /\ Moves(w, win'[w]) /\ Kept(win[w], win'[w]) /\ win'[w].pc = "idle"
    BY <1>2, GotoMoves DEF write, IndInv, Pc
  <2>b. faults' \in 0..profile.faults /\ (faults' = 0 => faults = 0)
    BY <1>2, <2>a, FaultCount DEF IndInv
  <2>1. Types'
    BY <2>a, <2>b DEF IndInv, Types, Moves
  <2>2. FileInv' /\ StartInv'
    BY <2>a DEF IndInv, FileInv, StartInv, Moves, Kept, Listening
  <2>3. CacheInv'
    BY <2>a, CacheKept DEF IndInv
  <2>4. AloneInv'
    <3> SUFFICES ASSUME OneWindow
                 PROVE  AckedInv' /\ QueueInv(w)' /\ BytesInv(w)' /\ EditInv(w)' /\ SnapshotInv(w)'
      BY AloneNext
    <3>1. AckedInv'
      BY <1>2, <2>a, AckedKept, AloneNow DEF IndInv
    <3>2. QueueInv(w)' /\ BytesInv(w)'
      BY <2>a, AloneNow DEF QueueInv, BytesInv, Kept, Listening
    <3>3. EditInv(w)'
      BY <2>a, AloneNow DEF EditInv, Kept
    <3>4. SnapshotInv(w)'
      BY <2>a, <2>b, AloneNow DEF SnapshotInv, Listening
    <3> QED BY <3>1, <3>2, <3>3, <3>4
  <2> QED BY <2>1, <2>2, <2>3, <2>4 DEF IndInv
<1> QED BY <1>1, <1>2 DEF write

LEMMA CommitKeeps ==
  ASSUME IndInv, UNCHANGED profile, NEW w \in Window, commit(w) PROVE IndInv'
<1> USE SituationStays
<1> DEFINE x == win[w]
           cache == [k \in Key |-> IF k \in x.held THEN x.bytes[k] ELSE x.cache[k]]
           told == news[w] + 1
           y == [x EXCEPT !.pc = "snap", !.cache = cache, !.pending = EmptyMap, !.held = {},
                          !.blind = {}, !.await = told]
<1>n. told \in Nat
  BY DEF IndInv, Types
<1>t. told = news[w] + 1
  OBVIOUS
<1>a. /\ x.pc = "landed" /\ Sets(w, y)
      /\ news' = [v \in Window |-> IF Listening(v) THEN news[v] + 1 ELSE news[v]]
      /\ UNCHANGED <<primary, snapshot, edits, acked, faults, closes, tears>>
  BY <1>t DEF commit, bounds
<1>b. x \in Win /\ EmptyMap \in Map /\ cache \in Map
      /\ news' \in [Window -> Nat] /\ news'[w] = told
  BY <1>a, <1>t, SituationTypes DEF IndInv, Types, Win, Map, Listening
<1> HIDE DEF cache, told
<1>c. y \in Win
  <2> DEFINE z == [x EXCEPT !.pc = "snap", !.held = {}, !.blind = {}]
  <2>1. z \in Win
    BY <1>b DEF Win, Pc
  <2> DEFINE u == [z EXCEPT !.cache = cache, !.pending = EmptyMap]
  <2>2. y = [u EXCEPT !.await = told]
    BY <1>b DEF Win
  <2> HIDE DEF z
  <2>3. u \in Win
    BY <1>b, <2>1 DEF Win
  <2> HIDE DEF u
  <2>4. [u EXCEPT !.await = told] \in Win
    BY <1>n, <2>3 DEF Win
  <2> QED BY <2>2, <2>4
<1>d. /\ y.pc = "snap" /\ y.keys = x.keys /\ y.edit = x.edit /\ y.held = {}
      /\ y.loaded = x.loaded /\ y.refused = x.refused /\ y.await = told /\ y.ask = x.ask
      /\ y.stale = x.stale /\ y.blind = {} /\ y.made = x.made
  BY <1>b DEF Win
<1>e. Moves(w, y)
  BY <1>a, <1>c, SetsMoves DEF IndInv
<1> HIDE DEF y
<1>1. Types'
  BY <1>a, <1>b, <1>d, <1>e DEF IndInv, Types, Moves
<1>2. FileInv' /\ StartInv'
  BY <1>a, <1>d, <1>e DEF IndInv, FileInv, StartInv, Moves, Listening
<1>3. CacheInv'
  <2>1. ASSUME NEW v \in Window, (win[v].loaded \/ win[v].ask # "none")' PROVE Told(v)'
    <3>1. Listening(v)' /\ (Listening(v)' => Listening(v))
      BY <1>2, <1>a, <1>d, <1>e, <2>1 DEF StartInv, Listening, Moves
    <3>2. news'[v] = news[v] + 1 /\ news[v] \in Nat
      BY <1>a, <3>1 DEF IndInv, Types
    <3> QED BY <3>2 DEF Told
  <2> QED BY <2>1 DEF CacheInv
<1>4. AloneInv'
  <2> SUFFICES ASSUME OneWindow
               PROVE  AckedInv' /\ QueueInv(w)' /\ BytesInv(w)' /\ EditInv(w)' /\ SnapshotInv(w)'
    BY AloneNext
  <2>1. AckedInv'
    BY <1>a, AckedKept, AloneNow DEF IndInv
  <2>2. /\ x.loaded /\ ~x.refused /\ news[w] = 0 /\ primary.kind = "ok" /\ primary.map = x.bytes
        /\ \A k \in x.held : x.bytes[k] = x.pending[k]
    BY <1>a, AloneNow DEF QueueInv, BytesInv, Holding, IndInv, Types, Win
  <2>3. QueueInv(w)'
    <3>1. told = 1 /\ x.ask = "none"
      BY <1>t, <2>2, AloneNow DEF QueueInv
    <3>2. win'[w] = y /\ news'[w] = 1
      BY <1>b, <1>e, <3>1 DEF Moves
    <3>3. /\ win'[w].await = news'[w] /\ news'[w] <= 1
          /\ win'[w].pc = "snap" /\ win'[w].loaded /\ ~win'[w].refused
          /\ win'[w].ask = "none" /\ win'[w].blind = {}
      <4>1. win'[w].await = news'[w]
        BY <1>d, <3>1, <3>2
      <4>2. news'[w] <= 1
        BY <3>2
      <4>3. win'[w].pc = "snap"
        BY <1>d, <3>2
      <4>4. win'[w].loaded
        BY <1>d, <2>2, <3>2
      <4>5. ~win'[w].refused
        BY <1>d, <2>2, <3>2
      <4>6. win'[w].ask = "none"
        BY <1>d, <3>1, <3>2
      <4>7. win'[w].blind = {}
        BY <1>d, <3>2
      <4> QED BY <4>1, <4>2, <4>3, <4>4, <4>5, <4>6, <4>7
    <3>4. win'[w].edit # 0
      BY <1>a, <1>d, <3>2 DEF IndInv, Types
    <3> QED BY <3>3, <3>4 DEF QueueInv, Listening
  <2>4. BytesInv(w)'
    BY <1>d, <1>e DEF BytesInv, Moves
  <2>5. EditInv(w)'
    BY <1>a, <1>d, <1>e, <2>2, AloneNow DEF EditInv, Moves
  <2>6. SnapshotInv(w)'
    BY <1>a, <1>d, <1>e, <2>2 DEF SnapshotInv, Moves
  <2> QED BY <2>1, <2>3, <2>4, <2>5, <2>6
<1> QED BY <1>1, <1>2, <1>3, <1>4 DEF IndInv

-----------------------------------------------------------------------------
(* The snapshot.                                                           *)
LEMMA SnappedFacts ==
  ASSUME Types, NEW x \in Win
  PROVE  /\ Snapped(x) \in Win /\ Kept(x, Snapped(x))
         /\ Snapped(x).pc = IF x.edit = 0 THEN "idle" ELSE "resolve"
<1> DEFINE pc == IF x.edit = 0 THEN "idle" ELSE "resolve"
<1>1. /\ pc \in {"idle", "resolve"} /\ pc = IF x.edit = 0 THEN "idle" ELSE "resolve"
      /\ Snapped(x) = [x EXCEPT !.pc = pc]
  BY DEF Snapped
<1> HIDE DEF pc
<1>2. [x EXCEPT !.pc = pc] \in Win
  BY <1>1 DEF Win, Pc
<1>3. Kept(x, [x EXCEPT !.pc = pc]) /\ [x EXCEPT !.pc = pc].pc = pc
  BY DEF Win, Kept
<1> QED BY <1>1, <1>2, <1>3

LEMMA SnapshotReadKeeps ==
  ASSUME IndInv, UNCHANGED profile, NEW w \in Window, snapshotStoreFile(w) PROVE IndInv'
<1> USE SituationStays
<1> DEFINE x == win[w]
<1>a. /\ x.pc = "snap" /\ UNCHANGED <<primary, snapshot, news, edits, acked, closes, tears>>
      /\ faults' = faults \/ Fault
  BY DEF snapshotStoreFile
<1>b. /\ Moves(w, win'[w]) /\ Kept(x, win'[w])
      /\ \/ win'[w].pc = "snapWrite" /\ primary.kind = "ok" /\ win'[w].bytes = primary.map
         \/ /\ win'[w].pc = IF x.edit = 0 THEN "idle" ELSE "resolve"
            /\ Fault \/ primary.kind # "ok"
  <2>1. x \in Win /\ primary.map \in Map
    BY DEF IndInv, Types, File
  <2>2. CASE primary.kind = "ok" /\ Sets(w, [x EXCEPT !.pc = "snapWrite", !.bytes = primary.map])
    <3> DEFINE y == [x EXCEPT !.pc = "snapWrite", !.bytes = primary.map]
    <3>1. y \in Win
      BY <2>1 DEF Win, Pc
    <3>2. Kept(x, y) /\ y.pc = "snapWrite" /\ y.bytes = primary.map
      BY <2>1 DEF Win, Kept
    <3> QED BY <2>2, <3>1, <3>2, SetsMoves DEF Moves, IndInv
  <2>3. CASE (Fault \/ primary.kind # "ok") /\ Sets(w, Snapped(x))
    BY <2>1, <2>3, SetsMoves, SnappedFacts DEF Moves, IndInv
  <2> QED BY <2>2, <2>3 DEF snapshotStoreFile
<1>c. faults' \in 0..profile.faults /\ (faults' = 0 => faults = 0) /\ (Fault => faults' # 0)
  BY <1>a, FaultCount DEF IndInv
<1>1. Types'
  BY <1>a, <1>b, <1>c DEF IndInv, Types, Moves, Kept
<1>2. FileInv' /\ StartInv'
  BY <1>a, <1>b DEF IndInv, FileInv, StartInv, Moves, Kept, Listening
<1>3. CacheInv'
  BY <1>a, <1>b, CacheKept DEF IndInv
<1>4. AloneInv'
  <2> SUFFICES ASSUME OneWindow
               PROVE  AckedInv' /\ QueueInv(w)' /\ BytesInv(w)' /\ EditInv(w)' /\ SnapshotInv(w)'
    BY AloneNext
  <2>1. AckedInv'
    BY <1>a, AckedKept, AloneNow DEF IndInv
  <2>2. primary.kind # "ok" => x.keys = {}
    BY <1>a, AloneNow DEF EditInv, IndInv, FileInv, Types, Win, EmptyMap
  <2>3. QueueInv(w)'
    <3>1. news[w] > 0 => win'[w].pc \in {"snap", "snapWrite", "resolve"}
      BY <1>b, AloneNow DEF QueueInv
    <3> QED BY <1>a, <1>b, AloneNow DEF QueueInv, Kept, Listening
  <2>4. BytesInv(w)'
    BY <1>a, <1>b, AloneNow DEF BytesInv, Kept, IndInv, Types, File, Holding
  <2>5. EditInv(w)'
    BY <1>a, <1>b, AloneNow DEF EditInv, Kept
  <2>6. SnapshotInv(w)'
    BY <1>a, <1>b, <1>c, <2>2, AloneNow DEF SnapshotInv, Kept, Listening
  <2> QED BY <2>1, <2>3, <2>4, <2>5, <2>6
<1> QED BY <1>1, <1>2, <1>3, <1>4 DEF IndInv

LEMMA SnapshotWriteKeeps ==
  ASSUME IndInv, UNCHANGED profile, NEW w \in Window, snapshotWrite(w) PROVE IndInv'
<1> USE SituationStays
<1> DEFINE x == win[w]
<1>a. /\ x.pc = "snapWrite" /\ UNCHANGED <<primary, news, edits, acked, closes, tears>>
      /\ \/ snapshot' = Holding(x.bytes) /\ faults' = faults
         \/ snapshot' = snapshot /\ Fault
  BY DEF snapshotWrite
<1>b. /\ Moves(w, win'[w]) /\ Kept(x, win'[w])
      /\ win'[w].pc = IF x.edit = 0 THEN "idle" ELSE "resolve"
  BY SetsMoves, SnappedFacts DEF snapshotWrite, Moves, IndInv, Types
<1>c. faults' \in 0..profile.faults /\ (faults' = 0 => faults = 0) /\ (Fault => faults' # 0)
  BY <1>a, FaultCount DEF IndInv
<1>d. snapshot' \in File /\ (snapshot'.kind # "ok" => snapshot'.map = EmptyMap)
  BY <1>a DEF IndInv, Types, FileInv, File, Win, Holding
<1>1. Types'
  BY <1>a, <1>b, <1>c, <1>d DEF IndInv, Types, Moves, Kept
<1>2. FileInv' /\ StartInv'
  BY <1>a, <1>b, <1>d DEF IndInv, FileInv, StartInv, Moves, Kept, Listening, EmptyMap
<1>3. CacheInv'
  BY <1>a, <1>b, CacheKept DEF IndInv
<1>4. AloneInv'
  <2> SUFFICES ASSUME OneWindow
               PROVE  AckedInv' /\ QueueInv(w)' /\ BytesInv(w)' /\ EditInv(w)' /\ SnapshotInv(w)'
    BY AloneNext
  <2>1. primary = Holding(x.bytes) /\ primary.kind = "ok"
    BY <1>a, AloneNow DEF BytesInv, Holding
  <2>2. AckedInv'
    <3>1. CASE snapshot' = primary /\ faults' = faults
      BY <1>a, <2>1, <3>1, AloneNow DEF AckedInv, TornAndFaulty
    <3>2. CASE snapshot' = snapshot /\ Fault
      BY <1>a, <3>2, AckedKept, AloneNow DEF IndInv
    <3> QED BY <1>a, <2>1, <3>1, <3>2
  <2>3. QueueInv(w)'
    BY <1>a, <1>b, AloneNow DEF QueueInv, Kept, Listening
  <2>4. BytesInv(w)' /\ EditInv(w)'
    BY <1>a, <1>b, AloneNow DEF BytesInv, EditInv, Kept
  <2>5. SnapshotInv(w)'
    BY <1>a, <1>b, <1>c, <2>1, AloneNow DEF SnapshotInv, EditInv, Kept
  <2> QED BY <2>2, <2>3, <2>4, <2>5
<1> QED BY <1>1, <1>2, <1>3, <1>4 DEF IndInv

LEMMA ResolveKeeps ==
  ASSUME IndInv, UNCHANGED profile, NEW w \in Window, resolve(w) PROVE IndInv'
<1> USE SituationStays
<1> DEFINE x == win[w]
<1>a. /\ x.pc = "resolve" /\ x.await = 0
      /\ acked' = acked \cup {<<k, x.edit>> : k \in x.keys}
      /\ UNCHANGED <<primary, snapshot, news, edits, faults, closes, tears>>
      /\ Moves(w, win'[w]) /\ Kept(x, win'[w]) /\ win'[w].pc = "idle"
  BY GotoMoves DEF resolve, bounds, IndInv, Pc
<1>b. {<<k, x.edit>> : k \in x.keys} \subseteq Key \X Edit
  <2>1. x \in Win /\ x.edit # 0 /\ MaxEdits \in Nat
    BY <1>a, SituationTypes DEF IndInv, Types
  <2>2. x.keys \subseteq Key /\ x.edit \in Edit
    BY <2>1 DEF Win, Edit
  <2> QED BY <2>2
<1>1. Types'
  BY <1>a, <1>b DEF IndInv, Types, Moves, Kept
<1>2. FileInv' /\ StartInv'
  BY <1>a DEF IndInv, FileInv, StartInv, Moves, Kept, Listening
<1>3. CacheInv'
  BY <1>a, CacheKept DEF IndInv
<1>4. AloneInv'
  <2> SUFFICES ASSUME OneWindow
               PROVE  AckedInv' /\ QueueInv(w)' /\ BytesInv(w)' /\ EditInv(w)' /\ SnapshotInv(w)'
    BY AloneNext
  <2>1. /\ \A k \in x.keys : x.edit \in primary.map[k]
        /\ x.keys # {} => primary.kind = "ok"
        /\ faults = 0 => \A k \in x.keys : x.edit \in snapshot.map[k]
    BY <1>a, AloneNow DEF EditInv, SnapshotInv, IndInv, FileInv, Types, Win, EmptyMap
  <2>2. AckedInv'
    BY <1>a, <2>1, AloneNow DEF AckedInv, TornAndFaulty
  <2>3. QueueInv(w)'
    BY <1>a, AloneNow DEF QueueInv, Kept, Listening
  <2>4. BytesInv(w)' /\ EditInv(w)'
    BY <1>a, AloneNow DEF BytesInv, EditInv, Kept
  <2>5. SnapshotInv(w)'
    BY <1>a, AloneNow DEF SnapshotInv, Listening
  <2> QED BY <2>2, <2>3, <2>4, <2>5
<1> QED BY <1>1, <1>2, <1>3, <1>4 DEF IndInv

-----------------------------------------------------------------------------
(* The end of a window, and of the machine.                                *)
LEMMA CloseKeeps ==
  ASSUME IndInv, UNCHANGED profile, NEW w \in Window, close(w) PROVE IndInv'
<1> USE SituationStays
<1>a. /\ closes < profile.closes /\ closes' = closes + 1 /\ news' = [news EXCEPT ![w] = 0]
      /\ UNCHANGED <<primary, snapshot, edits, acked, faults, tears>> /\ Sets(w, Closed)
  BY DEF close
<1>b. Closed \in Win
  BY SituationTypes DEF Closed, Win, Pc, IndInv
<1>c. Moves(w, Closed)
  BY <1>a, <1>b, SetsMoves DEF IndInv
<1>1. Types'
  <2>1. closes' \in 0..profile.closes /\ news' \in [Window -> Nat]
    BY <1>a, SituationTypes DEF IndInv, Types
  <2>2. \A v \in Window : win'[v] = win[v] \/ win'[v].pc = "down"
    BY <1>c DEF Moves, Closed
  <2> QED BY <1>a, <1>c, <2>1, <2>2 DEF IndInv, Types, Moves
<1>2. FileInv' /\ StartInv'
  BY <1>a, <1>c DEF IndInv, FileInv, StartInv, Moves, Listening, Closed
<1>3. CacheInv'
  <2>1. CASE Undisturbed /\ ~OneWindow
    BY <1>a, <2>1 DEF IndInv, Types, Undisturbed
  <2>2. CASE OneWindow
    <3>1. Window' = {w} /\ ~win'[w].loaded /\ win'[w].ask = "none"
      BY <1>c, <2>2 DEF OneWindow, Moves, Closed
    <3> QED BY <3>1 DEF CacheInv
  <2> QED BY <2>1, <2>2 DEF CacheInv, Undisturbed
<1>4. AloneInv'
  <2> SUFFICES ASSUME OneWindow
               PROVE  AckedInv' /\ QueueInv(w)' /\ BytesInv(w)' /\ EditInv(w)' /\ SnapshotInv(w)'
    BY AloneNext
  <2>1. AckedInv'
    BY <1>a, AckedKept, AloneNow DEF IndInv
  <2>2. QueueInv(w)'
    BY <1>a, <1>c DEF QueueInv, Closed, Moves, IndInv, Types
  <2>3. BytesInv(w)' /\ EditInv(w)' /\ SnapshotInv(w)'
    BY <1>c DEF BytesInv, EditInv, SnapshotInv, Closed, Moves, Listening
  <2> QED BY <2>1, <2>2, <2>3
<1> QED BY <1>1, <1>2, <1>3, <1>4 DEF IndInv

LEMMA TearKeeps == ASSUME IndInv, UNCHANGED profile, tear PROVE IndInv'
<1> USE SituationStays
<1>a. /\ \A w \in Window : win[w].pc = "down"
      /\ primary.kind = "ok" /\ tears < profile.tears /\ tears' = tears + 1 /\ primary' = Torn
      /\ UNCHANGED <<snapshot, win, news, edits, acked, faults, closes>>
  BY DEF tear
<1>b. primary' \in File /\ primary'.kind # "ok" /\ primary'.map = EmptyMap /\ tears \in Nat
  BY <1>a, SituationTypes DEF IndInv, Types, File, Torn
<1>1. Types'
  BY <1>a, <1>b, SituationTypes DEF IndInv, Types
<1>2. FileInv' /\ StartInv'
  BY <1>a, <1>b DEF IndInv, FileInv, StartInv, Listening, EmptyMap
<1>3. CacheInv'
  BY <1>a DEF IndInv, StartInv, CacheInv, Listening
<1>4. AloneInv'
  <2> PICK w \in Window : TRUE
    BY StoreAssumption DEF IndInv, Types, Window
  <2> SUFFICES ASSUME OneWindow
               PROVE  AckedInv' /\ QueueInv(w)' /\ BytesInv(w)' /\ EditInv(w)' /\ SnapshotInv(w)'
    BY AloneNext
  <2>1. AckedInv'
    BY <1>a, <1>b, AloneNow DEF AckedInv
  <2>2. QueueInv(w)'
    BY <1>a, AloneNow DEF QueueInv, Listening
  <2>3. win[w].held = {} /\ win[w].made = {}
    BY <1>a, AloneNow DEF QueueInv, Listening
  <2>4. BytesInv(w)' /\ EditInv(w)' /\ SnapshotInv(w)'
    BY <1>a, <2>3 DEF BytesInv, EditInv, SnapshotInv, Listening
  <2> QED BY <2>1, <2>2, <2>4
<1> QED BY <1>1, <1>2, <1>3, <1>4 DEF IndInv
-----------------------------------------------------------------------------
(* The answer to a read, and the edit that awaits it.                      *)

(* y is what is left of x once its read has been installed.                *)
Installs(x, y) ==
  /\ y \in Win /\ y.keys = x.keys /\ y.edit = x.edit /\ y.made = x.made /\ y.await = x.await
  /\ y.ask = "none" /\ y.stale = x.stale
  /\ y.cache = x.got /\ y.refused = x.unseen /\ y.loaded = ~x.stale

LEMMA SnapFacts ==
  ASSUME NEW u \in Win
  PROVE  LET y == [u EXCEPT !.pc = "snap"] IN y \in Win /\ Kept(u, y) /\ y.pc = "snap"
<1>1. [u EXCEPT !.pc = "snap"] \in Win
  BY DEF Win, Pc
<1>2. Kept(u, [u EXCEPT !.pc = "snap"]) /\ [u EXCEPT !.pc = "snap"].pc = "snap"
  BY DEF Win, Kept
<1> QED BY <1>1, <1>2

Installed(x) ==
  [x EXCEPT !.ask = "none", !.cache = x.got, !.refused = x.unseen, !.loaded = ~x.stale]

(* And y is that with whoever awaited the read gone on.                    *)
InstallIs(x, u, y) ==
  /\ Installs(x, u) /\ u.pc = x.pc /\ u.pending = x.pending /\ u.held = x.held
  /\ u.bytes = x.bytes /\ u.blind = x.blind
  /\ Installs(x, y)
  /\ \/ x.pc = "get" /\ AfterGetIs(u, y)
     \/ x.pc = "save" /\ AfterLoadIs(u, y)
     \/ x.pc = "first" /\ Kept(u, y) /\ y.pc = "snap"
     \/ x.pc \notin {"get", "save", "first"} /\ y = u

LEMMA InstallFacts ==
  ASSUME Types, NEW x \in Win, x.pc = "get" => x.edit \in Edit
  PROVE  InstallIs(x, Installed(x), Resumed(Installed(x)))
<1> DEFINE u == Installed(x)
<1> SUFFICES InstallIs(x, u, Resumed(u))
  OBVIOUS
<1>1. u \in Win
  BY DEF Win, Installed
<1>2. /\ u.keys = x.keys /\ u.edit = x.edit /\ u.made = x.made /\ u.await = x.await
      /\ u.ask = "none" /\ u.stale = x.stale
      /\ u.cache = x.got /\ u.refused = x.unseen /\ u.loaded = ~x.stale
      /\ u.pc = x.pc /\ u.pending = x.pending /\ u.held = x.held
      /\ u.bytes = x.bytes /\ u.blind = x.blind
  BY DEF Win, Installed
<1> HIDE DEF u
<1>3. CASE x.pc = "get"
  <2>1. Resumed(u) = AfterGet(u)
    BY <1>2, <1>3 DEF Resumed
  <2>2. AfterGetIs(u, AfterGet(u))
    BY <1>1, <1>2, <1>3, AfterGetFacts
  <2> QED BY <1>1, <1>2, <1>3, <2>1, <2>2 DEF AfterGetIs, Installs, InstallIs
<1>4. CASE x.pc = "save"
  <2>1. Resumed(u) = AfterLoad(u)
    BY <1>2, <1>4 DEF Resumed
  <2>2. AfterLoadIs(u, AfterLoad(u))
    BY <1>1, AfterLoadFacts
  <2> QED BY <1>1, <1>2, <1>4, <2>1, <2>2 DEF AfterLoadIs, Installs, Kept, InstallIs
<1>5. CASE x.pc = "first"
  <2> DEFINE y == [u EXCEPT !.pc = "snap"]
  <2>1. Resumed(u) = y
    BY <1>2, <1>5 DEF Resumed
  <2>2. y \in Win /\ Kept(u, y) /\ y.pc = "snap"
    BY <1>1, SnapFacts
  <2> HIDE DEF y
  <2> QED BY <1>1, <1>2, <1>5, <2>1, <2>2 DEF Installs, Kept, InstallIs
<1>6. CASE x.pc \notin {"get", "save", "first"}
  <2>1. Resumed(u) = u
    BY <1>2, <1>6 DEF Resumed
  <2> QED BY <1>1, <1>2, <1>6, <2>1 DEF Installs, InstallIs
<1> QED BY <1>3, <1>4, <1>5, <1>6

(* An answer that came too late is asked for again.                        *)
LEMMA FillAgain ==
  ASSUME IndInv, UNCHANGED profile, NEW w \in Window, fill(w),
         win[w].stale, win[w].try < Attempts
  PROVE  IndInv'
<1> USE SituationStays
<1> DEFINE x == win[w]
           try == x.try + 1
           y == [x EXCEPT !.ask = "asked", !.stale = FALSE, !.try = try]
<1>a. /\ x.ask = "answered" /\ Sets(w, y)
      /\ UNCHANGED <<primary, snapshot, news, edits, acked, faults, closes, tears>>
  BY DEF fill, bounds
<1>b. x \in Win /\ try \in 1..Attempts
  <2>1. x \in Win /\ Attempts \in Nat
    BY SituationTypes DEF IndInv, Types
  <2>2. x.try \in 1..Attempts
    BY <2>1 DEF Win
  <2> QED BY <2>1, <2>2
<1> HIDE DEF try
<1>c. y \in Win
  BY <1>b DEF Win
<1>d. /\ y.pc = x.pc /\ y.edit = x.edit /\ y.cache = x.cache /\ y.loaded = x.loaded
      /\ y.refused = x.refused /\ y.ask = "asked"
  BY <1>b DEF Win
<1>e. Moves(w, y)
  BY <1>a, <1>c, SetsMoves DEF IndInv
<1> HIDE DEF y
<1>1. Types'
  BY <1>a, <1>d, <1>e DEF IndInv, Types, Moves
<1>2. FileInv' /\ StartInv'
  BY <1>a, <1>d, <1>e DEF IndInv, FileInv, StartInv, Moves, Listening
<1>3. CacheInv'
  <2>1. ASSUME Told(w) PROVE Told(w)'
    BY <1>a, <1>d, <1>e, <2>1 DEF Told, Moves
  <2> QED BY <1>a, <1>d, <1>e, <2>1, CacheNext DEF IndInv, CacheInv, Moves
<1>4. ~OneWindow
  BY <1>a, AloneNow DEF QueueInv
<1>5. AloneInv'
  BY <1>4, AloneNext
<1> QED BY <1>1, <1>2, <1>3, <1>5 DEF IndInv

LEMMA FillKeeps ==
  ASSUME IndInv, UNCHANGED profile, NEW w \in Window, fill(w) PROVE IndInv'
<1> USE SituationStays
<1> SUFFICES ASSUME ~(win[w].stale /\ win[w].try < Attempts) PROVE IndInv'
  BY FillAgain
<1> DEFINE x == win[w]
           u == Installed(x)
           y == Resumed(u)
<1>a. /\ x.ask = "answered" /\ Sets(w, y)
      /\ UNCHANGED <<primary, snapshot, news, edits, acked, faults, closes, tears>>
  BY DEF fill, bounds, Installed
<1>b. /\ Types /\ x \in Win /\ (x.pc = "get" => x.edit \in Edit)
  <2>1. x \in Win /\ MaxEdits \in Nat /\ (x.pc = "get" => x.edit # 0)
    BY SituationTypes DEF IndInv, Types
  <2>2. x.edit \in 0..MaxEdits
    BY <2>1 DEF Win
  <2> QED BY <2>1, <2>2 DEF Edit, IndInv
<1>i. InstallIs(x, u, y)
  BY <1>b, InstallFacts
<1> HIDE DEF y, u
<1>c. /\ Installs(x, u) /\ u.pc = x.pc /\ u.pending = x.pending /\ u.held = x.held
      /\ u.bytes = x.bytes /\ u.blind = x.blind
      /\ Installs(x, y)
      /\ \/ x.pc = "get" /\ AfterGetIs(u, y)
         \/ x.pc = "save" /\ AfterLoadIs(u, y)
         \/ x.pc = "first" /\ Kept(u, y) /\ y.pc = "snap"
         \/ x.pc \notin {"get", "save", "first"} /\ y = u
  BY <1>i DEF InstallIs
<1>d. Moves(w, y)
  BY <1>a, <1>c, SetsMoves DEF Installs, IndInv
<1>e. /\ y.pc = "landed" <=> x.pc = "landed"
      /\ y.pc \in {"down", "recover", "fallback", "restore"}
           <=> x.pc \in {"down", "recover", "fallback", "restore"}
      /\ y.pc \in {"fallback", "restore"} => x.pc \in {"fallback", "restore"}
      /\ y.pc = "resolve" => x.pc = "resolve"
      /\ y.pc \in {"get", "save", "path", "write", "landed", "resolve"}
           => x.pc \in {"get", "save", "path", "write", "landed", "resolve"}
  BY <1>c DEF AfterGetIs, AfterLoadIs
<1>1. Types'
  BY <1>a, <1>c, <1>d, <1>e DEF IndInv, Types, Moves, Installs
<1>2. FileInv' /\ StartInv'
  <2>1. Listening(w)
    BY <1>a DEF IndInv, StartInv
  <2> QED BY <1>a, <1>d, <1>e, <2>1 DEF IndInv, FileInv, StartInv, Moves, Listening
<1>3. CacheInv'
  <2>1. ASSUME Told(w) PROVE Told(w)'
    BY <1>a, <1>d, <1>e, <2>1 DEF Told, Moves
  <2>2. /\ y.ask = "none" /\ y.cache = x.got
        /\ y.loaded /\ ~y.refused => ~x.unseen /\ ~x.stale
    BY <1>c DEF Installs
  <2>3. Undisturbed /\ y.loaded /\ ~y.refused => Told(w)' \/ y.cache = primary.map
    BY <1>a, <2>1, <2>2 DEF IndInv, CacheInv
  <2>4. win'[w] = y /\ \A v \in Window \ {w} : win'[v] = win[v]
    BY <1>d DEF Moves
  <2> QED BY <1>a, <1>e, <2>2, <2>3, <2>4, CacheNext DEF IndInv
<1>4. AloneInv'
  <2> SUFFICES ASSUME OneWindow
               PROVE  AckedInv' /\ QueueInv(w)' /\ BytesInv(w)' /\ EditInv(w)' /\ SnapshotInv(w)'
    BY AloneNext
  <2>1. AckedInv'
    BY <1>a, AckedKept, AloneNow DEF IndInv
  <2>2. /\ ~x.loaded /\ ~x.stale /\ ~x.refused /\ x.blind = {} /\ news[w] = 0 /\ x.await = 0
        /\ x.pc \notin {"path", "write", "landed"} /\ Listening(w)
    <3>1. ~x.loaded /\ ~x.stale
      BY <1>a, AloneNow DEF QueueInv
    <3>2. Listening(w)
      BY <1>a DEF IndInv, StartInv
    <3>3. news[w] \in Nat
      BY DEF IndInv, Types
    <3> QED BY <3>1, <3>2, <3>3, AloneNow DEF QueueInv
  <2>3. ~x.unseen => x.got = primary.map
    <3>1. ~Told(w) /\ Undisturbed
      BY <2>2, AloneNow DEF Told, Undisturbed
    <3> QED BY <1>a, <2>2, <3>1 DEF IndInv, CacheInv
  <2>4. win'[w] = y /\ y.loaded /\ y.refused = x.unseen /\ y.cache = x.got
    BY <1>c, <1>d, <2>2 DEF Installs, Moves
  <2>5. /\ y.blind # {} => y.refused
        /\ y.pc \in {"path", "write", "landed"} => ~y.refused /\ Payload(y, y)
    BY <1>c, <2>2 DEF AfterGetIs, AfterLoadIs, Installs, Kept, Payload
  <2>6. QueueInv(w)'
    <3>1. y.ask = "none" /\ y.await = 0 /\ y.pc # "first" /\ Listening(w)'
      BY <1>c, <1>e, <2>2, <2>4 DEF Installs, AfterGetIs, AfterLoadIs, Listening
    <3> QED BY <1>a, <2>2, <2>4, <2>5, <3>1 DEF QueueInv
  <2>7. BytesInv(w)'
    <3>1. y.pc \notin {"landed", "fallback", "restore"}
      BY <1>e, <2>2, <2>4 DEF Listening
    <3>2. y.pc = "snapWrite" => x.pc = "snapWrite" /\ y.bytes = x.bytes
      BY <1>c DEF AfterGetIs, AfterLoadIs
    <3> QED BY <1>a, <2>4, <2>5, <3>1, <3>2, AloneNow DEF BytesInv, Payload
  <2>8. EditInv(w)'
    <3>1. CASE x.pc = "get"
      <4>1. AfterGetIs(u, y) /\ Installs(x, u) /\ u.pending = x.pending /\ u.held = x.held
        BY <1>c, <3>1
      <4>2. /\ y.keys = x.keys /\ y.edit = x.edit /\ y.made = x.made
            /\ y.held = x.held \cup x.keys /\ y.pc \in {"idle", "path"}
            /\ \A k \in Key :
                 y.pending[k] = IF k \in x.keys
                                THEN (IF k \in x.held THEN x.pending[k] ELSE x.got[k]) \cup {x.edit}
                                ELSE x.pending[k]
        BY <4>1, <2>2 DEF AfterGetIs, Installs
      <4>3. x.keys \subseteq Key /\ x.held \subseteq Key /\ x.made \subseteq Key \X Edit
        BY <1>b DEF Win
      <4>4. y.keys \subseteq y.held /\ \A k \in y.keys : y.edit \in y.pending[k]
        BY <4>2, <4>3
      <4>5. /\ \A k \in x.held : primary.map[k] \subseteq x.pending[k]
            /\ \A a \in x.made :
                 \/ a[1] \in x.keys /\ a[2] = x.edit
                 \/ a[2] \in IF a[1] \in x.held THEN x.pending[a[1]] ELSE primary.map[a[1]]
        BY <2>2, AloneNow DEF EditInv
      <4>6. ~y.refused => \A k \in y.held : primary.map[k] \subseteq y.pending[k]
        BY <2>3, <2>4, <4>2, <4>3, <4>5
      <4>7. ~y.refused => \A a \in y.made :
              a[2] \in IF a[1] \in y.held THEN y.pending[a[1]] ELSE primary.map[a[1]]
        <5> SUFFICES ASSUME ~y.refused, NEW a \in y.made
                     PROVE  a[2] \in IF a[1] \in y.held THEN y.pending[a[1]] ELSE primary.map[a[1]]
          OBVIOUS
        <5>1. x.got = primary.map /\ a \in x.made /\ a[1] \in Key
          BY <2>3, <2>4, <4>2, <4>3
        <5> QED BY <4>2, <4>5, <5>1
      <4> QED BY <1>a, <2>4, <4>2, <4>4, <4>6, <4>7 DEF EditInv
    <3>2. CASE x.pc # "get"
      <4>1. /\ y.keys = x.keys /\ y.edit = x.edit /\ y.made = x.made
            /\ y.held = x.held /\ y.pending = x.pending
        BY <1>c, <3>2 DEF AfterLoadIs, Installs, Kept
      <4>2. y.pc \in {"save", "path", "write", "landed"} => x.pc = "save"
        BY <1>c, <2>2, <3>2 DEF AfterLoadIs
      <4>3. y.pc \in {"snap", "snapWrite", "resolve"} =>
              x.keys = {} \/ x.pc \in {"snap", "snapWrite", "resolve"}
        BY <1>c, <3>2, AloneNow DEF AfterLoadIs, QueueInv
      <4> QED BY <1>a, <2>2, <2>4, <3>2, <4>1, <4>2, <4>3, AloneNow DEF EditInv
    <3> QED BY <3>1, <3>2
  <2>9. SnapshotInv(w)'
    <3>1. y.keys = x.keys /\ y.edit = x.edit
      BY <1>c DEF Installs
    <3> QED BY <1>a, <1>e, <2>2, <2>4, <3>1, AloneNow DEF SnapshotInv
  <2> QED BY <2>1, <2>6, <2>7, <2>8, <2>9
<1> QED BY <1>1, <1>2, <1>3, <1>4 DEF IndInv

(* The edit that is taken up, and the read it may have to wait for.        *)
Taken(x, keys, e) ==
  [x EXCEPT !.keys = keys, !.edit = e, !.made = @ \cup {<<k, e>> : k \in keys}]

TakenIs(x, keys, e, u) ==
  /\ u \in Win /\ u.keys = keys /\ u.edit = e /\ u.made = x.made \cup {<<k, e>> : k \in keys}
  /\ u.cache = x.cache /\ u.pending = x.pending /\ u.held = x.held /\ u.loaded = x.loaded
  /\ u.refused = x.refused /\ u.await = x.await /\ u.ask = x.ask /\ u.got = x.got
  /\ u.unseen = x.unseen /\ u.stale = x.stale /\ u.blind = x.blind

LEMMA TakenFacts ==
  ASSUME Types, NEW x \in Win, NEW keys \in SUBSET Key, NEW e \in Edit
  PROVE  TakenIs(x, keys, e, Taken(x, keys, e))
<1> DEFINE made == x.made \cup {<<k, e>> : k \in keys}
           u == [x EXCEPT !.keys = keys, !.edit = e, !.made = made]
<1>1. made \subseteq Key \X Edit
  BY DEF Win
<1>2. e \in 0..MaxEdits
  BY SituationTypes DEF Edit
<1>3. Taken(x, keys, e) = u /\ made = x.made \cup {<<k, e>> : k \in keys}
  BY DEF Taken
<1> HIDE DEF made
<1>4. u \in Win
  BY <1>1, <1>2 DEF Win
<1>5. /\ u.keys = keys /\ u.edit = e /\ u.made = made
      /\ u.cache = x.cache /\ u.pending = x.pending /\ u.held = x.held /\ u.loaded = x.loaded
      /\ u.refused = x.refused /\ u.await = x.await /\ u.ask = x.ask /\ u.got = x.got
      /\ u.unseen = x.unseen /\ u.stale = x.stale /\ u.blind = x.blind
  BY DEF Win
<1> HIDE DEF u
<1> QED BY <1>3, <1>4, <1>5 DEF TakenIs

LEMMA GetFacts ==
  ASSUME NEW u \in Win
  PROVE  LET y == [u EXCEPT !.pc = "get"] IN y \in Win /\ Kept(u, y) /\ y.pc = "get"
<1>1. [u EXCEPT !.pc = "get"] \in Win
  BY DEF Win, Pc
<1>2. Kept(u, [u EXCEPT !.pc = "get"]) /\ [u EXCEPT !.pc = "get"].pc = "get"
  BY DEF Win, Kept
<1> QED BY <1>1, <1>2

LEMMA EnqueueKeeps ==
  ASSUME IndInv, UNCHANGED profile, NEW w \in Window, NEW keys \in profile.touches[w],
         enqueueWrite(w, keys)
  PROVE  IndInv'
<1> USE SituationStays
<1> DEFINE x == win[w]
           e == edits + 1
           u == Taken(x, keys, e)
           now == x.loaded \/ keys \subseteq x.held
           y == IF now THEN AfterGet(u) ELSE [u EXCEPT !.pc = "get"]
<1>a. /\ x.pc = "idle" /\ edits' = e /\ Sets(w, y)
      /\ UNCHANGED <<primary, snapshot, news, acked, faults, closes, tears>>
  BY DEF enqueueWrite, bounds, Taken
<1>b. /\ Types /\ x \in Win /\ keys \in SUBSET Key /\ e \in Edit /\ e # 0
  <2>1. edits \in 0..MaxEdits /\ edits < MaxEdits /\ MaxEdits \in Nat
    BY SituationTypes DEF IndInv, Types, enqueueWrite
  <2>2. e \in Edit /\ e # 0
    BY <2>1 DEF Edit
  <2>3. Types /\ x \in Win /\ profile \in Profiles
    BY DEF IndInv, Types
  <2>4. keys \in SUBSET Key
    BY <2>3, StoreAssumption DEF Window
  <2> QED BY <2>2, <2>3, <2>4
<1>c. TakenIs(x, keys, e, u)
  BY <1>b, TakenFacts
<1> HIDE DEF u, e
<1>d. \/ now /\ AfterGetIs(u, y)
      \/ ~now /\ y \in Win /\ Kept(u, y) /\ y.pc = "get"
  <2>1. u \in Win /\ u.edit \in Edit
    BY <1>b, <1>c DEF TakenIs
  <2>2. AfterGetIs(u, AfterGet(u))
    BY <1>b, <2>1, AfterGetFacts
  <2>3. [u EXCEPT !.pc = "get"] \in Win /\ Kept(u, [u EXCEPT !.pc = "get"])
        /\ [u EXCEPT !.pc = "get"].pc = "get"
    BY <2>1, GetFacts
  <2> HIDE DEF now
  <2> QED BY <2>2, <2>3
<1>e. now = (x.loaded \/ keys \subseteq x.held)
  OBVIOUS
<1> HIDE DEF y, now
<1>f. /\ y \in Win /\ y.keys = keys /\ y.edit = e /\ y.made = x.made \cup {<<k, e>> : k \in keys}
      /\ y.cache = x.cache /\ y.loaded = x.loaded /\ y.refused = x.refused /\ y.await = x.await
      /\ y.ask = x.ask /\ y.got = x.got /\ y.unseen = x.unseen /\ y.stale = x.stale
      /\ y.pc \in {"get", "save", "idle", "path"}
      /\ y.blind # {} => x.blind # {} \/ x.refused
  BY <1>c, <1>d DEF TakenIs, AfterGetIs, Kept
<1>g. Moves(w, y)
  BY <1>a, <1>f, SetsMoves DEF IndInv
<1>h. win'[w] = y /\ \A v \in Window \ {w} : win'[v] = win[v]
  BY <1>g DEF Moves
<1>1. Types'
  <2>1. edits' \in 0..MaxEdits
    BY <1>a, <1>b, SituationTypes DEF Edit
  <2>2. \A v \in Window :
          win'[v].pc \in {"get", "save", "path", "write", "landed", "resolve"} => win'[v].edit # 0
    BY <1>b, <1>f, <1>h DEF Types
  <2> QED BY <1>a, <1>b, <1>g, <2>1, <2>2 DEF Types, Moves
<1>2. FileInv' /\ StartInv'
  BY <1>a, <1>f, <1>h DEF IndInv, FileInv, StartInv, Listening
<1>3. CacheInv'
  <2>1. ASSUME Told(w) PROVE Told(w)'
    BY <1>a, <1>h, <2>1 DEF Told
  <2> QED BY <1>a, <1>f, <1>h, <2>1, CacheNext DEF IndInv, CacheInv
<1>4. AloneInv'
  <2> SUFFICES ASSUME OneWindow
               PROVE  AckedInv' /\ QueueInv(w)' /\ BytesInv(w)' /\ EditInv(w)' /\ SnapshotInv(w)'
    BY AloneNext
  <2>1. AckedInv'
    BY <1>a, AckedKept, AloneNow DEF IndInv
  <2>2. ~(news[w] > 0) /\ x.await = news[w]
    BY <1>a, AloneNow DEF QueueInv
  <2>3. x.loaded /\ ~x.refused => x.cache = primary.map
    <3>1. ~Told(w) /\ Undisturbed
      BY <1>a, <2>2, AloneNow DEF Told, Undisturbed
    <3> QED BY <3>1 DEF IndInv, CacheInv
  <2>4. y.pc = "path" => x.loaded /\ ~x.refused /\ Payload(y, y)
    BY <1>c, <1>d DEF TakenIs, AfterGetIs, Kept
  <2>5. QueueInv(w)'
    <3>1. /\ news[w] <= 1 /\ (x.ask # "none" => ~x.loaded /\ ~x.stale) /\ (x.refused => x.loaded)
          /\ x.blind # {} => x.refused
      BY AloneNow DEF QueueInv
    <3>2. Listening(w)' /\ y.pc \notin {"first", "write", "landed"}
      BY <1>f, <1>h DEF Listening
    <3> QED BY <1>a, <1>f, <1>h, <2>2, <2>4, <3>1, <3>2 DEF QueueInv
  <2>6. BytesInv(w)'
    BY <1>f, <1>h, <2>4 DEF BytesInv, Payload
  <2>7. EditInv(w)'
    <3>1. /\ x.held \subseteq Key /\ x.made \subseteq Key \X Edit
      BY <1>b DEF Win
    <3>2. ~x.refused =>
            /\ \A k \in x.held : primary.map[k] \subseteq x.pending[k]
            /\ \A a \in x.made :
                 a[2] \in IF a[1] \in x.held THEN x.pending[a[1]] ELSE primary.map[a[1]]
      BY <1>a, AloneNow DEF EditInv
    <3>3. CASE now
      <4>1. /\ y.held = x.held \cup keys /\ y.pc \in {"save", "idle", "path"}
            /\ \A k \in Key :
                 y.pending[k] = IF k \in keys
                                THEN (IF k \in x.held THEN x.pending[k] ELSE x.cache[k]) \cup {e}
                                ELSE x.pending[k]
        BY <1>c, <1>d, <3>3 DEF TakenIs, AfterGetIs
      <4>2. keys \subseteq y.held /\ \A k \in keys : e \in y.pending[k]
        BY <1>b, <4>1
      <4>3. ~x.refused => \A k \in keys \ x.held : x.cache[k] = primary.map[k]
        BY <1>e, <2>3, <3>3
      <4>4. ~x.refused => \A k \in y.held : primary.map[k] \subseteq y.pending[k]
        BY <1>b, <3>1, <3>2, <4>1, <4>3
      <4>5. ~x.refused => \A a \in y.made :
              a[2] \in IF a[1] \in y.held THEN y.pending[a[1]] ELSE primary.map[a[1]]
        <5> SUFFICES ASSUME ~x.refused, NEW a \in y.made
                     PROVE  a[2] \in IF a[1] \in y.held THEN y.pending[a[1]] ELSE primary.map[a[1]]
          OBVIOUS
        <5>1. CASE a \in x.made
          <6>1. a[1] \in Key
            BY <3>1, <5>1
          <6>2. a[2] \in IF a[1] \in x.held THEN x.pending[a[1]] ELSE primary.map[a[1]]
            BY <3>2, <5>1
          <6>3. a[1] \in keys \ x.held => x.cache[a[1]] = primary.map[a[1]]
            BY <4>3
          <6> QED BY <4>1, <6>1, <6>2, <6>3
        <5>2. CASE a \in {<<k, e>> : k \in keys}
          BY <4>2, <5>2
        <5> QED BY <1>f, <5>1, <5>2
      <4> QED BY <1>a, <1>f, <1>h, <4>1, <4>2, <4>4, <4>5 DEF EditInv
    <3>4. CASE ~now
      <4>1. y.pc = "get" /\ y.held = x.held /\ y.pending = x.pending
        BY <1>c, <1>d, <3>4 DEF TakenIs, Kept
      <4>2. ~x.refused => \A a \in y.made :
              \/ a[1] \in y.keys /\ a[2] = y.edit
              \/ a[2] \in IF a[1] \in y.held THEN y.pending[a[1]] ELSE primary.map[a[1]]
        <5> SUFFICES ASSUME ~x.refused, NEW a \in y.made
                     PROVE  \/ a[1] \in y.keys /\ a[2] = y.edit
                            \/ a[2] \in IF a[1] \in y.held THEN y.pending[a[1]]
                                                           ELSE primary.map[a[1]]
          OBVIOUS
        <5>1. CASE a \in x.made
          BY <3>2, <4>1, <5>1
        <5>2. CASE a \in {<<k, e>> : k \in keys}
          BY <1>f, <5>2
        <5> QED BY <1>f, <5>1, <5>2
      <4> QED BY <1>a, <1>f, <1>h, <3>2, <4>1, <4>2 DEF EditInv
    <3> QED BY <3>3, <3>4
  <2>8. SnapshotInv(w)'
    BY <1>a, <1>f, <1>h, AloneNow DEF SnapshotInv, Listening
  <2> QED BY <2>1, <2>5, <2>6, <2>7, <2>8
<1> QED BY <1>1, <1>2, <1>3, <1>4 DEF IndInv

-----------------------------------------------------------------------------
(* The invariant holds, for every situation: whatever a window is doing    *)
(* when the file system refuses it, when it ends or when a file is torn.   *)
THEOREM StoreInvariance == Spec => []IndInv
<1>1. IndInv /\ [Next]_vars => IndInv'
  <2> SUFFICES ASSUME IndInv, [Next]_vars PROVE IndInv'
    OBVIOUS
  <2>1. CASE Next
    <3>1. UNCHANGED profile
      BY <2>1 DEF Next
    <3>2. ASSUME NEW w \in Window, settle(w) \/ Step(w) \/ close(w) PROVE IndInv'
      <4>1. CASE settle(w) \/ recover(w) \/ fallback(w) \/ restore(w) \/ close(w)
        BY <3>1, <4>1, SettleKeeps, RecoverKeeps, FallbackKeeps, RestoreKeeps, CloseKeeps
      <4>2. CASE load(w) \/ read(w) \/ fill(w) \/ invalidate(w)
        BY <3>1, <4>2, LoadKeeps, ReadKeeps, FillKeeps, InvalidateKeeps
      <4>3. CASE path(w) \/ write(w) \/ commit(w)
        BY <3>1, <4>3, PathKeeps, WriteKeeps, CommitKeeps
      <4>4. CASE snapshotStoreFile(w) \/ snapshotWrite(w) \/ resolve(w)
        BY <3>1, <4>4, SnapshotReadKeeps, SnapshotWriteKeeps, ResolveKeeps
      <4> QED BY <3>2, <4>1, <4>2, <4>3, <4>4 DEF Step
    <3>3. ASSUME NEW w \in Window, NEW keys \in profile.touches[w], enqueueWrite(w, keys)
          PROVE  IndInv'
      BY <3>1, <3>3, EnqueueKeeps
    <3>4. CASE tear
      BY <3>1, <3>4, TearKeeps
    <3> QED BY <2>1, <3>2, <3>3, <3>4 DEF Next
  <2>2. CASE UNCHANGED vars
    <3>1. UNCHANGED <<profile, primary, snapshot, win, news, edits, acked, faults, closes, tears>>
      BY <2>2 DEF vars, bounds
    <3>2. Types' /\ FileInv' /\ StartInv'
      BY <3>1, SituationStays DEF IndInv, Types, FileInv, StartInv, Listening
    <3>3. CacheInv'
      BY <3>1, SituationStays DEF IndInv, CacheInv, Told
    <3>4. OneWindow => AckedInv'
      BY <3>1 DEF IndInv, AloneInv, AckedInv, TornAndFaulty
    <3>5. ASSUME OneWindow, NEW w \in Window
          PROVE  QueueInv(w)' /\ BytesInv(w)' /\ EditInv(w)' /\ SnapshotInv(w)'
      BY <3>1, <3>5 DEF IndInv, AloneInv, QueueInv, BytesInv, EditInv, SnapshotInv,
         Listening
    <3> QED BY <3>1, <3>2, <3>3, <3>4, <3>5, SituationStays DEF IndInv, AloneInv
  <2> QED BY <2>1, <2>2
<1> QED BY <1>1, InitIndInv, PTL DEF Spec

(* What the two files and every window hold stays of its kind: no edit     *)
(* counter or retry loop runs past its bound.                              *)
THEOREM StoreTypes == Spec => []TypeOK
<1>1. IndInv => TypeOK
  BY DEF IndInv, Types, TypeOK
<1> QED BY <1>1, StoreInvariance, PTL

(* An acknowledged edit of a lone window survives refused reads and        *)
(* writes, closes at any step, and torn files, as long as not both tears   *)
(* and refusals happen: a good file holds it (commit of recoveredStore.ts  *)
(* resolves after save), and when the file is torn the snapshot does, for  *)
(* it was taken before the commit resolved.                                *)
THEOREM StoreAckedSurvive == Spec => []AckedSurvive
<1>1. IndInv => AckedSurvive
  <2> SUFFICES ASSUME IndInv, OneWindow, ~TornAndFaulty, NEW a \in acked
               PROVE  a[2] \in Durable[a[1]]
    BY DEF AckedSurvive
  <2>1. AckedInv /\ tears \in Nat /\ faults \in Nat
    BY SituationTypes DEF IndInv, AloneInv, Types
  <2>2. tears = 0 \/ faults = 0
    BY <2>1 DEF TornAndFaulty
  <2> QED BY <2>1, <2>2 DEF AckedInv, Durable
<1> QED BY <1>1, StoreInvariance, PTL

(* An edit stays in the view of the session that made it.  Pending values  *)
(* are built over what the file has and are dropped only by the commit     *)
(* that wrote them; the event of that commit has come before the window is *)
(* idle again, so a cache in use is the file.                              *)
THEOREM StoreSeesOwnEdits == Spec => []SessionSeesOwnEdits
<1>1. IndInv => SessionSeesOwnEdits
  <2> SUFFICES ASSUME IndInv, OneWindow, NEW w \in Window, win[w].pc = "idle", ~win[w].refused,
                      NEW a \in win[w].made
               PROVE  a[2] \in View(win[w], a[1])
    BY DEF SessionSeesOwnEdits
  <2>1. a[2] \in IF a[1] \in win[w].held THEN win[w].pending[a[1]] ELSE primary.map[a[1]]
    BY AloneNow DEF EditInv
  <2>2. ~Told(w) /\ Undisturbed
    BY AloneNow DEF QueueInv, Told, Undisturbed
  <2>3. win[w].loaded => win[w].cache = primary.map
    BY <2>2 DEF IndInv, CacheInv
  <2> QED BY <2>1, <2>3 DEF View
<1> QED BY <1>1, StoreInvariance, PTL

(* A value built on a read that failed is never written: as long as one is *)
(* pending the window is refused, and save() writes nothing then.          *)
THEOREM StoreBlindNeverWritten == Spec => []BlindNeverWritten
<1>1. IndInv => BlindNeverWritten
  BY DEF IndInv, AloneInv, BlindNeverWritten, QueueInv
<1> QED BY <1>1, StoreInvariance, PTL

(* No window is left behind, with any number of windows: a read that a     *)
(* change event overtook is not installed for good, and a write that has   *)
(* landed is announced to every window that listens.                       *)
THEOREM StoreCacheCoherent == Spec => []CacheCoherent
<1>1. IndInv => CacheCoherent
  <2> SUFFICES ASSUME IndInv, Undisturbed, NEW w \in Window, win[w].loaded, ~win[w].refused,
                      news[w] = 0, \A v \in Window : win[v].pc # "landed"
               PROVE  win[w].cache = primary.map
    BY DEF CacheCoherent
  <2>1. ~Told(w)
    BY DEF Told
  <2> QED BY <2>1 DEF IndInv, CacheInv
<1> QED BY <1>1, StoreInvariance, PTL

(* A good snapshot is replaced only by one that holds all it held: what    *)
(* snapshotStoreFile is about to write is the file, and the file is never  *)
(* behind the snapshot.                                                    *)
THEOREM StoreSnapshotNeverShrinks == Spec => SnapshotNeverShrinks
<1> DEFINE Grows == OneWindow /\ snapshot.kind = "ok" /\ ~TornAndFaulty
                      => \A k \in Key : snapshot.map[k] \subseteq snapshot'.map[k]
<1>1. IndInv /\ [Next]_vars => [Grows]_vars
  <2> SUFFICES ASSUME IndInv, Next, OneWindow, snapshot.kind = "ok", ~TornAndFaulty
               PROVE  \A k \in Key : snapshot.map[k] \subseteq snapshot'.map[k]
    OBVIOUS
  <2>1. CASE snapshot' = snapshot
    BY <2>1
  <2>2. ASSUME NEW w \in Window, snapshotWrite(w), snapshot' = Holding(win[w].bytes)
        PROVE  \A k \in Key : snapshot.map[k] \subseteq snapshot'.map[k]
    <3>1. AckedInv /\ BytesInv(w)
      BY DEF IndInv, AloneInv
    <3>2. snapshot' = primary /\ primary.kind = "ok"
      BY <2>2, <3>1 DEF BytesInv, snapshotWrite, Holding
    <3> QED BY <3>1, <3>2 DEF AckedInv
  <2>3. snapshot' = snapshot \/ \E w \in Window : snapshotWrite(w) /\ snapshot' = Holding(win[w].bytes)
    <3>1. ASSUME NEW w \in Window, settle(w) \/ Step(w) \/ close(w)
          PROVE  \/ snapshot' = snapshot
                 \/ snapshotWrite(w) /\ snapshot' = Holding(win[w].bytes)
      BY <3>1 DEF settle, Step, close, recover, fallback, restore, load, read, fill,
         invalidate,
                  path, write, commit, snapshotStoreFile, snapshotWrite, resolve
    <3>2. ASSUME NEW w \in Window, NEW keys \in profile.touches[w], enqueueWrite(w, keys)
          PROVE  snapshot' = snapshot
      BY <3>2 DEF enqueueWrite
    <3>3. tear => snapshot' = snapshot
      BY DEF tear
    <3> QED BY <3>1, <3>2, <3>3 DEF Next
  <2> QED BY <2>1, <2>2, <2>3
<1> QED BY <1>1, StoreInvariance, PTL DEF Spec, SnapshotNeverShrinks
=============================================================================
