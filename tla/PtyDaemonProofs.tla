-------------------------- MODULE PtyDaemonProofs --------------------------
(***************************************************************************)
(* PtyDaemon is proved here for any number of connections, panes, shells   *)
(* and chunks and for limits of any size: its queues stay within them, and *)
(* no shell is left behind by its session or lost to an idle daemon.  What *)
(* the app has of the daemon's sessions (AppInv), who holds a session      *)
(* (OwnInv), what its threads have not sent yet (LineInv) and who is       *)
(* subscribed to it (SubInv) is kept by every step, as PtyStreamProofs     *)
(* needs it.                                                               *)
(***************************************************************************)
EXTENDS PtyDaemon, FiniteSetTheorems, SequenceTheorems, TLAPS

Message ==
  [k : {"Data"}, s : Session, chunk : Seq(Chunk)] \cup [k : {"Exit"}, s : Session]
  \cup [k : {"OpenOk"}, p : Pane, s : Session] \cup [k : {"Err"}, p : Pane] \cup [k : {"Killed"}]
  \cup [k : {"AttachOk"}, p : Pane, s : Session, copy : Seq(Chunk), alive : BOOLEAN]
Request ==
  [k : {"Open"}, p : Pane] \cup [k : {"Attach"}, p : Pane, s : Session]
  \cup [k : {"Close"}, s : Session] \cup [k : {"KillAll"}]
Dispatch ==
  [at : {"idle"}] \cup [at : {"reply"}, msg : Message]
  \cup [at : {"spawn", "fill"}, s : Session, p : Pane]
  \cup [at : {"copied"}, s : Session, p : Pane, copy : Seq(Chunk), alive : BOOLEAN]

(* The variables of the daemon and of its threads.                         *)
DaemonTypes ==
  /\ service \in {"serving", "asked", "resting", "down"} /\ opened \in Nat
  /\ map \subseteq 1 .. opened /\ filled \subseteq 1 .. opened /\ closed \subseteq 1 .. opened
  /\ dropping \subseteq closed /\ map \cap closed = {} /\ Cardinality(map) <= MAX_SESSIONS
  /\ alive \in [Session -> BOOLEAN]
  /\ subscribers \in [Session -> SUBSET Client]
  /\ dispatch \in [Client -> Dispatch]

ThreadTypes ==
  /\ scrollback \in [Session -> Seq(Chunk)] /\ pending \in [Session -> Seq(Chunk)]
  /\ \A s \in Session : /\ Len(pending[s]) <= MAX_PENDING
                        /\ Len(scrollback[s]) <= SCROLLBACK_CAP + SCROLLBACK_SLACK
  /\ wrote \in [Session -> 0 .. MaxChunks]
  /\ shell \in [Session -> {"none", "run", "ended", "perished"}]
  /\ flusher \in [Session -> [at : {"rest", "took", "appended", "ended"}, chunk : Seq(Chunk)]]
  /\ waiter \in [Session -> [at : {"rest", "appended", "tailed", "ended"}, chunk : Seq(Chunk)]]

(* The wires and the app.                                                  *)
WireTypes ==
  /\ conn \in [Client -> {"off", "dialled", "counted", "up", "left", "gone", "refused"}]
  /\ requests \in [Client -> Seq(Request)]
  /\ wire \in [Client -> Seq(Message)]
  /\ \A c \in Client : Len(wire[c]) <= WRITER_QUEUE

AppTypes ==
  /\ DOMAIN early = Client /\ \A c \in Client : DOMAIN early[c] = Session
  /\ \A c \in Client : Cardinality({s \in Session : early[c][s] # <<>>}) <= MAX_EARLY_SESSIONS
  /\ DOMAIN pane = Pane
  /\ \A p \in Pane : pane[p].at \in {"new", "asked", "answered", "shown", "closed", "failed", "lost"}
  /\ opens \in 0 .. MaxOpens

Types == DaemonTypes /\ ThreadTypes /\ WireTypes /\ AppTypes

----------------------------------------------------------------------------
(* The shells. *)

(* Only the quit of the last app closes a session before its pty exists,   *)
(* and that app stays connected.                                           *)
Quit == MaxClients \in Client /\ conn[MaxClients] = "up"
Owned(s) == s \in map \/ (s \in closed /\ Quit)

ShellInv ==
  \A s \in Session :
    /\ s > opened => shell[s] = "none" /\ alive[s] = TRUE
    /\ s \in filled => shell[s] \in {"run", "ended"}
    /\ s \in freed => shell[s] = "ended"
    /\ waiter[s].at \in {"appended", "tailed"} => shell[s] = "ended"
    /\ s \in map /\ alive[s] = FALSE => shell[s] = "ended"
    /\ shell[s] # "perished"
    /\ shell[s] = "run" => /\ Owned(s)
                           /\ s \in filled \/ \E c \in Client :
                                dispatch[c].at = "fill" /\ dispatch[c].s = s

(* The dispatcher that spawns a shell is the only one that has to do with  *)
(* it, up to the answer.                                                   *)
SpawnInv ==
  \A c \in Client : dispatch[c].at \in {"spawn", "fill"} =>
    /\ dispatch[c].s \in 1 .. opened /\ dispatch[c].s \notin filled
    /\ dispatch[c].at = "spawn" => shell[dispatch[c].s] = "none" /\ Owned(dispatch[c].s)
    /\ dispatch[c].at = "fill" => shell[dispatch[c].s] \in {"run", "ended"}
    /\ \A d \in Client : dispatch[d].at \in {"spawn", "fill"} /\ dispatch[d].s = dispatch[c].s =>
         d = c

----------------------------------------------------------------------------
(* What is on its way between the app and the daemon. *)

(* The app has only heard of shells whose pty exists.                      *)
Known == {s \in 1 .. opened : s \in map => s \in filled}
Opens(m) == m.k \in {"OpenOk", "AttachOk"}

DispatchInv ==
  \A c \in Client :
    /\ dispatch[c].at # "idle" => requests[c] # <<>>
    /\ dispatch[c].at = "copied" => dispatch[c].s \in Known
    /\ dispatch[c].at = "reply" /\ Opens(dispatch[c].msg) => dispatch[c].msg.s \in Known

RequestInv ==
  \A c \in Client :
    /\ requests[c] # <<>> => conn[c] \in {"up", "left"}
    /\ \A i \in 1 .. Len(requests[c]) :
         /\ requests[c][i].k = "Close" => requests[c][i].s \in Known
         /\ requests[c][i].k = "KillAll" => c = MaxClients /\ conn[c] = "up"

WireInv ==
  \A c \in Client : \A i \in 1 .. Len(wire[c]) : Opens(wire[c][i]) => wire[c][i].s \in Known

(* A pane's call is on a connection that is up.                            *)
Call(r) ==
  r = [at |-> r.at, c |-> r.c, s |-> r.s, opener |-> r.opener, seam |-> r.seam, alive |-> r.alive]
PaneInv ==
  \A p \in Pane :
    /\ pane[p].at \in {"asked", "answered", "shown"} =>
         Call(pane[p]) /\ pane[p].c \in Client /\ conn[pane[p].c] = "up"
    /\ pane[p].at \notin {"asked", "answered", "shown"} => pane[p].c = None
    /\ pane[p].at \in {"answered", "shown", "lost"} => pane[p].s \in Known

(* The Opens the daemon has not come to, one for each pane that sent one,  *)
(* are counted by opens.                                                   *)
IsOpen(c, i, p) == requests[c][i].k = "Open" /\ requests[c][i].p = p
Waiting == {p \in Pane : \E c \in Client : \E i \in 1 .. Len(requests[c]) :
                            IsOpen(c, i, p) /\ (i > 1 \/ dispatch[c].at = "idle")}
OpenOnce ==
  \A p \in Pane, c \in Client : \A i \in 1 .. Len(requests[c]) : IsOpen(c, i, p) =>
    /\ pane[p].at # "new"
    /\ \A d \in Client : \A j \in 1 .. Len(requests[d]) : IsOpen(d, j, p) => c = d /\ i = j
CountInv == OpenOnce /\ opened + Cardinality(Waiting) <= opens

LinkInv == DispatchInv /\ RequestInv /\ WireInv /\ PaneInv

IndInv == Types /\ ShellInv /\ SpawnInv /\ LinkInv /\ CountInv

----------------------------------------------------------------------------
(* The queues. *)

LEMMA MinTwo ==
  ASSUME NEW a \in Nat, NEW b \in Nat
  PROVE  Min({a, b}) \in Nat /\ Min({a, b}) <= a /\ Min({a, b}) <= b /\ Min({a, b}) \in {a, b}
<1>1. \E x \in {a, b} : \A y \in {a, b} : x =< y
  <2>1. CASE a <= b
    BY <2>1
  <2>2. CASE b <= a
    BY <2>2
  <2> QED BY <2>1, <2>2
<1>2. Min({a, b}) \in {a, b} /\ \A y \in {a, b} : Min({a, b}) =< y
  BY <1>1 DEF Min
<1> QED BY <1>2

(* A finite set can be put in a sequence.                                  *)
LEMMA SetToSeqIs ==
  ASSUME NEW S, IsFiniteSet(S)
  PROVE  SetToSeq(S) \in Seq(S)
<1>1. Cardinality(S) \in Nat /\ ExistsBijection(1 .. Cardinality(S), S)
  BY FS_CardinalityType
<1>2. PICK f : f \in Bijection(1 .. Cardinality(S), S)
  BY <1>1 DEF ExistsBijection
<1>3. f \in [1 .. Cardinality(S) -> S] /\ IsInjective(f)
  BY <1>2 DEF Bijection, Injection, IsInjective
<1>4. SetToSeq(S) \in [1 .. Cardinality(S) -> S]
  BY <1>3 DEF SetToSeq
<1> QED BY <1>1, <1>4

(* trySend adds some of the messages it is given, within the limit.        *)
LEMMA TrySendKeeps ==
  ASSUME WireTypes, NEW msgs \in [Client -> Seq(Message)], trySend(msgs)
  PROVE  /\ wire' \in [Client -> Seq(Message)]
         /\ \A c \in Client : Len(wire'[c]) <= WRITER_QUEUE
         /\ \A c \in Client : \A i \in 1 .. Len(wire'[c]) :
              \/ i \in 1 .. Len(wire[c]) /\ wire'[c][i] = wire[c][i]
              \/ \E j \in 1 .. Len(msgs[c]) : wire'[c][i] = msgs[c][j]
<1>1. ASSUME NEW c \in Client
      PROVE  /\ wire'[c] \in Seq(Message) /\ Len(wire'[c]) <= WRITER_QUEUE
             /\ \A i \in 1 .. Len(wire'[c]) :
                  \/ i \in 1 .. Len(wire[c]) /\ wire'[c][i] = wire[c][i]
                  \/ \E j \in 1 .. Len(msgs[c]) : wire'[c][i] = msgs[c][j]
  <2> DEFINE all == wire[c] \o msgs[c]
             n == Min({Len(all), WRITER_QUEUE})
  <2>1. wire[c] \in Seq(Message) /\ msgs[c] \in Seq(Message) /\ Len(wire[c]) <= WRITER_QUEUE
    BY DEF WireTypes
  <2>2. CASE conn[c] # "up"
    BY <2>1, <2>2 DEF trySend
  <2>3. CASE conn[c] = "up"
    <3>1. wire'[c] = SubSeq(all, 1, n)
      BY <2>3 DEF trySend
    <3>2. /\ all \in Seq(Message) /\ Len(all) = Len(wire[c]) + Len(msgs[c])
          /\ \A i \in 1 .. Len(all) :
               all[i] = IF i <= Len(wire[c]) THEN wire[c][i] ELSE msgs[c][i - Len(wire[c])]
      BY <2>1
    <3>3. n \in Nat /\ n <= Len(all) /\ n <= WRITER_QUEUE
      <4>1. Len(all) \in Nat /\ WRITER_QUEUE \in Nat
        BY <3>2, PtyDaemonAssumption
      <4> HIDE DEF all
      <4> QED BY <4>1, MinTwo
    <3> HIDE DEF all, n
    <3>4. /\ SubSeq(all, 1, n) \in Seq(Message) /\ Len(SubSeq(all, 1, n)) = n
          /\ \A i \in 1 .. n : SubSeq(all, 1, n)[i] = all[i]
      BY <3>2, <3>3
    <3>5. ASSUME NEW i \in 1 .. n
          PROVE  \/ i \in 1 .. Len(wire[c]) /\ all[i] = wire[c][i]
                 \/ \E j \in 1 .. Len(msgs[c]) : all[i] = msgs[c][j]
      <4>1. CASE i <= Len(wire[c])
        BY <2>1, <3>2, <3>3, <4>1
      <4>2. CASE i > Len(wire[c])
        <5>1. i - Len(wire[c]) \in 1 .. Len(msgs[c]) /\ all[i] = msgs[c][i - Len(wire[c])]
          BY <2>1, <3>2, <3>3, <4>2
        <5> QED BY <5>1
      <4> QED BY <2>1, <4>1, <4>2
    <3> QED BY <3>1, <3>3, <3>4, <3>5
  <2> QED BY <2>2, <2>3
<1>2. DOMAIN wire' = Client /\ wire' = [c \in Client |-> wire'[c]]
  BY DEF trySend
<1> QED BY <1>1, <1>2

(* One event fanned out.                                                   *)
LEMMA FanOutKeeps ==
  ASSUME WireTypes, NEW s \in Session, NEW msg \in Message, fanOut(s, msg)
  PROVE  /\ wire' \in [Client -> Seq(Message)]
         /\ \A c \in Client : Len(wire'[c]) <= WRITER_QUEUE
         /\ \A c \in Client : \A i \in 1 .. Len(wire'[c]) :
              \/ i \in 1 .. Len(wire[c]) /\ wire'[c][i] = wire[c][i]
              \/ wire'[c][i] = msg
<1> DEFINE msgs == [c \in Client |-> IF c \in subscribers[s] THEN <<msg>> ELSE <<>>]
<1>1. msgs \in [Client -> Seq(Message)]
  OBVIOUS
<1>2. \A c \in Client : \A j \in 1 .. Len(msgs[c]) : msgs[c][j] = msg
  <2>1. \A c \in Client : msgs[c] = <<msg>> \/ msgs[c] = <<>>
    OBVIOUS
  <2> HIDE DEF msgs
  <2> QED BY <2>1
<1>3. trySend(msgs)
  BY DEF fanOut
<1> HIDE DEF msgs
<1>4. /\ wire' \in [Client -> Seq(Message)]
      /\ \A c \in Client : Len(wire'[c]) <= WRITER_QUEUE
      /\ \A c \in Client : \A i \in 1 .. Len(wire'[c]) :
           \/ i \in 1 .. Len(wire[c]) /\ wire'[c][i] = wire[c][i]
           \/ \E j \in 1 .. Len(msgs[c]) : wire'[c][i] = msgs[c][j]
  BY <1>1, <1>3, TrySendKeeps
<1> QED BY <1>2, <1>4

(* extendScrollback keeps the last chunks.                                 *)
LEMMA ExtendKeeps ==
  ASSUME ThreadTypes, NEW s \in Session, NEW bytes \in Seq(Chunk)
  PROVE  /\ extendScrollback(s, bytes) \in Seq(Chunk)
         /\ Len(extendScrollback(s, bytes)) <= SCROLLBACK_CAP + SCROLLBACK_SLACK
<1> DEFINE all == scrollback[s] \o bytes
<1>1. all \in Seq(Chunk) /\ Len(all) \in Nat
  BY DEF ThreadTypes
<1>2. CASE Len(all) > SCROLLBACK_CAP + SCROLLBACK_SLACK
  <2>1. extendScrollback(s, bytes) = SubSeq(all, Len(all) - SCROLLBACK_CAP + 1, Len(all))
    BY <1>2 DEF extendScrollback
  <2> HIDE DEF all
  <2>2. /\ SubSeq(all, Len(all) - SCROLLBACK_CAP + 1, Len(all)) \in Seq(Chunk)
        /\ Len(SubSeq(all, Len(all) - SCROLLBACK_CAP + 1, Len(all))) = SCROLLBACK_CAP
    BY <1>1, <1>2, PtyDaemonAssumption
  <2> QED BY <2>1, <2>2, PtyDaemonAssumption
<1>3. CASE ~(Len(all) > SCROLLBACK_CAP + SCROLLBACK_SLACK)
  BY <1>1, <1>3, PtyDaemonAssumption DEF extendScrollback
<1> QED BY <1>2, <1>3

----------------------------------------------------------------------------
(* What is under way stays true. *)

(* No session that the app may know comes back without its pty.            *)
Grows ==
  /\ opened <= opened' /\ opened' \in Nat
  /\ \A s \in 1 .. opened : s \in map' => s \in map /\ (s \in filled => s \in filled')

LEMMA KnownStays ==
  ASSUME DaemonTypes, Grows
  PROVE  Known \subseteq Known'
BY DEF DaemonTypes, Grows, Known

LEMMA DispatchStays ==
  ASSUME DaemonTypes, Grows, DispatchInv, UNCHANGED dispatch,
         \A c \in Client : requests[c] # <<>> => requests'[c] # <<>>
  PROVE  DispatchInv'
BY KnownStays DEF DispatchInv

LEMMA RequestStays ==
  ASSUME DaemonTypes, Grows, RequestInv, UNCHANGED requests,
         \A c \in Client : conn[c] \in {"up", "left"} =>
            conn'[c] \in {"up", "left"} /\ (c = MaxClients /\ conn[c] = "up" => conn'[c] = "up")
  PROVE  RequestInv'
BY KnownStays DEF RequestInv

LEMMA WireStays ==
  ASSUME DaemonTypes, Grows, WireInv,
         \A c \in Client : \A i \in 1 .. Len(wire'[c]) :
            \/ \E j \in 1 .. Len(wire[c]) : wire'[c][i] = wire[c][j]
            \/ ~Opens(wire'[c][i])
  PROVE  WireInv'
<1> SUFFICES ASSUME NEW c \in Client, NEW i \in 1 .. Len(wire'[c]), Opens(wire'[c][i])
             PROVE  wire'[c][i].s \in Known'
  BY DEF WireInv, Opens
<1>1. PICK j \in 1 .. Len(wire[c]) : wire'[c][i] = wire[c][j]
  OBVIOUS
<1>2. wire[c][j].s \in Known
  BY <1>1 DEF WireInv, Opens
<1>3. wire[c][j].s \in Known'
  BY <1>2, KnownStays
<1> QED BY <1>1, <1>3

LEMMA PaneStays ==
  ASSUME DaemonTypes, Grows, PaneInv, UNCHANGED pane,
         \A c \in Client : conn[c] = "up" => conn'[c] = "up"
  PROVE  PaneInv'
BY KnownStays DEF PaneInv

LEMMA CountStays ==
  ASSUME CountInv, UNCHANGED <<opened, dispatch, requests, opens>>,
         \A p \in Pane : pane[p].at # "new" => pane'[p].at # "new"
  PROVE  CountInv'
<1>1. OpenOnce'
  BY DEF CountInv, OpenOnce, IsOpen
<1>2. Waiting' = Waiting
  BY DEF Waiting, IsOpen
<1> QED BY <1>1, <1>2 DEF CountInv

----------------------------------------------------------------------------
(* The threads of a shell. *)

(* They leave the dispatchers and the requests alone.                      *)
LEMMA ThreadLinks ==
  ASSUME IndInv, UNCHANGED <<opened, map, filled, dispatch, conn, requests, pane, opens>>,
         \A c \in Client : \A i \in 1 .. Len(wire'[c]) :
            \/ \E j \in 1 .. Len(wire[c]) : wire'[c][i] = wire[c][j]
            \/ ~Opens(wire'[c][i])
  PROVE  LinkInv' /\ CountInv'
<1>1. DaemonTypes /\ Grows /\ DispatchInv /\ RequestInv /\ WireInv /\ PaneInv
  BY DEF IndInv, Types, DaemonTypes, Grows, LinkInv
<1>2. DispatchInv'
  BY <1>1, DispatchStays
<1>3. RequestInv'
  BY <1>1, RequestStays
<1>4. WireInv'
  BY <1>1, WireStays
<1>5. PaneInv'
  BY <1>1, PaneStays
<1>6. CountInv'
  BY CountStays DEF IndInv
<1> QED BY <1>2, <1>3, <1>4, <1>5, <1>6 DEF LinkInv

(* A step that disturbs neither the wires nor the app.                     *)
LEMMA QuietLinks ==
  ASSUME IndInv, UNCHANGED <<opened, map, filled, dispatch, wires, pane, opens>>
  PROVE  LinkInv' /\ CountInv'
<1>1. UNCHANGED <<conn, requests, wire>>
  BY DEF wires
<1> QED BY <1>1, ThreadLinks

LEMMA WritesKeeps == ASSUME IndInv, NEW s \in Session, shellWrites(s) PROVE IndInv'
<1>1. /\ shell[s] = "run" /\ wrote[s] < MaxChunks
      /\ wrote' = [wrote EXCEPT ![s] = @ + 1]
      /\ UNCHANGED <<daemon, shell, flusher, waiter, wires, app, closed>>
      /\ LET overflow == Len(pending[s]) + 1 > MAX_PENDING
         IN  pending' = [pending EXCEPT ![s] = (IF overflow THEN <<>> ELSE @) \o <<wrote[s] + 1>>]
  BY DEF shellWrites
<1>2. ThreadTypes'
  <2>1. wrote[s] + 1 \in Chunk /\ wrote' \in [Session -> 0 .. MaxChunks]
    BY <1>1, PtyDaemonAssumption DEF IndInv, Types, ThreadTypes, Chunk
  <2>2. /\ pending[s] \in Seq(Chunk) /\ Len(pending[s]) <= MAX_PENDING
        /\ pending \in [Session -> Seq(Chunk)]
    BY DEF IndInv, Types, ThreadTypes
  <2> DEFINE q == (IF Len(pending[s]) + 1 > MAX_PENDING THEN <<>> ELSE pending[s])
                  \o <<wrote[s] + 1>>
  <2>3. q \in Seq(Chunk) /\ Len(q) <= MAX_PENDING
    BY <2>1, <2>2, PtyDaemonAssumption
  <2>4. pending' = [pending EXCEPT ![s] = q]
    BY <1>1
  <2> HIDE DEF q
  <2>5. /\ pending' \in [Session -> Seq(Chunk)]
        /\ \A t \in Session : Len(pending'[t]) <= MAX_PENDING
    BY <2>2, <2>3, <2>4 DEF IndInv, Types, ThreadTypes
  <2> QED BY <1>1, <2>1, <2>5 DEF IndInv, Types, ThreadTypes, daemon
<1>3. Types'
  BY <1>1, <1>2 DEF IndInv, Types, DaemonTypes, WireTypes, AppTypes, daemon, wires, app
<1>4. ShellInv' /\ SpawnInv'
  BY <1>1 DEF IndInv, ShellInv, SpawnInv, Owned, Quit, daemon, wires
<1>5. LinkInv' /\ CountInv'
  BY <1>1, QuietLinks DEF daemon, app
<1> QED BY <1>3, <1>4, <1>5 DEF IndInv

LEMMA EndsKeeps == ASSUME IndInv, NEW s \in Session, shellEnds(s) PROVE IndInv'
<1>1. /\ shell[s] = "run" /\ shell' = [shell EXCEPT ![s] = "ended"]
      /\ UNCHANGED <<daemon, wrote, pending, flusher, waiter, wires, app, closed>>
  BY DEF shellEnds, history
<1>2. Types'
  BY <1>1 DEF IndInv, Types, DaemonTypes, ThreadTypes, WireTypes, AppTypes, daemon, wires,
     app
<1>3. shell \in [Session -> {"none", "run", "ended", "perished"}]
  BY DEF IndInv, Types, ThreadTypes
<1>4. ShellInv'
  BY <1>1, <1>3 DEF IndInv, ShellInv, Owned, Quit, daemon, wires
<1>5. SpawnInv'
  <2>1. \A c \in Client : dispatch[c].at \in {"spawn", "fill"} => dispatch[c].s \in Session
    BY DEF IndInv, Types, DaemonTypes, Dispatch
  <2> QED BY <1>1, <1>3, <2>1 DEF IndInv, SpawnInv, Owned, Quit, daemon, wires
<1>6. LinkInv' /\ CountInv'
  BY <1>1, QuietLinks DEF daemon, app
<1> QED BY <1>2, <1>4, <1>5, <1>6 DEF IndInv

LEMMA DropKeeps == ASSUME IndInv, NEW s \in Session, sessionDrop(s) PROVE IndInv'
<1>1. /\ s \in filled /\ freed' = freed \cup {s} /\ shell' = [shell EXCEPT ![s] = "ended"]
      /\ scrollback' = [scrollback EXCEPT ![s] = <<>>]
      /\ subscribers' = [subscribers EXCEPT ![s] = {}]
      /\ UNCHANGED <<service, opened, map, filled, dropping, alive, dispatch, wrote, pending,
                     flusher, waiter, wires, app, closed>>
  BY DEF sessionDrop, history
<1>2. DaemonTypes'
  BY <1>1 DEF IndInv, Types, DaemonTypes
<1>3. ThreadTypes'
  <2>1. scrollback' \in [Session -> Seq(Chunk)]
    BY <1>1 DEF IndInv, Types, ThreadTypes
  <2>2. \A t \in Session : Len(scrollback'[t]) <= SCROLLBACK_CAP + SCROLLBACK_SLACK
    BY <1>1, PtyDaemonAssumption DEF IndInv, Types, ThreadTypes
  <2> QED BY <1>1, <2>1, <2>2 DEF IndInv, Types, ThreadTypes
<1>4. Types'
  BY <1>1, <1>2, <1>3 DEF IndInv, Types, WireTypes, AppTypes, wires, app
<1>5. shell \in [Session -> {"none", "run", "ended", "perished"}]
  BY DEF IndInv, Types, ThreadTypes
<1>6. ShellInv'
  BY <1>1, <1>5 DEF IndInv, Types, DaemonTypes, ShellInv, Owned, Quit, wires
<1>7. SpawnInv'
  <2>1. \A c \in Client : dispatch[c].at \in {"spawn", "fill"} =>
          dispatch[c].s \in Session /\ dispatch[c].s # s
    BY <1>1 DEF IndInv, Types, DaemonTypes, Dispatch, SpawnInv
  <2> QED BY <1>1, <1>5, <2>1 DEF IndInv, SpawnInv, Owned, Quit, wires
<1>8. LinkInv' /\ CountInv'
  BY <1>1, QuietLinks DEF app
<1> QED BY <1>4, <1>6, <1>7, <1>8 DEF IndInv

(* A step of the flusher or of the waiter, on either side of its message.  *)
ThreadFrame ==
  UNCHANGED <<service, opened, map, filled, dropping, freed, subscribers, dispatch,
              shell, wrote, conn, requests, app, closed>>

LEMMA ThreadKeeps ==
  ASSUME IndInv, ThreadFrame, ThreadTypes',
         \A s \in Session :
           /\ waiter'[s].at \in {"appended", "tailed"} => shell[s] = "ended"
           /\ alive'[s] # alive[s] => alive'[s] = FALSE /\ shell[s] = "ended",
         alive' \in [Session -> BOOLEAN],
         wire' \in [Client -> Seq(Message)], \A c \in Client : Len(wire'[c]) <= WRITER_QUEUE,
         \A c \in Client : \A i \in 1 .. Len(wire'[c]) :
            \/ \E j \in 1 .. Len(wire[c]) : wire'[c][i] = wire[c][j]
            \/ ~Opens(wire'[c][i])
  PROVE  IndInv'
<1>1. Types'
  BY DEF IndInv, Types, DaemonTypes, WireTypes, AppTypes, ThreadFrame, app
<1>2. ShellInv'
  BY DEF IndInv, ShellInv, Owned, Quit, ThreadFrame
<1>3. SpawnInv'
  BY DEF IndInv, SpawnInv, Owned, Quit, ThreadFrame
<1>4. LinkInv' /\ CountInv'
  BY ThreadLinks DEF ThreadFrame, app
<1> QED BY <1>1, <1>2, <1>3, <1>4 DEF IndInv

LEMMA WireFacts ==
  ASSUME IndInv
  PROVE  /\ wire \in [Client -> Seq(Message)] /\ \A c \in Client : Len(wire[c]) <= WRITER_QUEUE
         /\ WireTypes /\ ThreadTypes /\ alive \in [Session -> BOOLEAN]
         /\ \A s \in Session : waiter[s].at \in {"appended", "tailed"} => shell[s] = "ended"
BY DEF IndInv, Types, DaemonTypes, WireTypes, ShellInv

LEMMA TakesKeeps == ASSUME IndInv, NEW s \in Session, flusherTakes(s) PROVE IndInv'
<1> USE WireFacts
<1>1. /\ ThreadFrame /\ UNCHANGED <<alive, wire, waiter, scrollback>>
      /\ flusher' = [flusher EXCEPT ![s] = [at |-> "took", chunk |-> pending[s]]]
      /\ pending' = [pending EXCEPT ![s] = <<>>]
  BY DEF flusherTakes, ThreadFrame, daemon, wires, history
<1>2. ThreadTypes'
  BY <1>1, PtyDaemonAssumption DEF ThreadTypes, ThreadFrame
<1> QED BY <1>1, <1>2, ThreadKeeps

LEMMA AppendsKeeps == ASSUME IndInv, NEW s \in Session, flusherAppends(s) PROVE IndInv'
<1> USE WireFacts
<1>1. /\ ThreadFrame /\ UNCHANGED <<alive, wire, waiter, pending>>
      /\ flusher' = [flusher EXCEPT ![s].at = IF Held(s) THEN "appended" ELSE "ended"]
      /\ scrollback' = IF Held(s) THEN [scrollback EXCEPT ![s] = extendScrollback(s, flusher[s].chunk)]
                       ELSE scrollback
  BY DEF flusherAppends, ThreadFrame, wires, history
<1>2. ThreadTypes'
  <2>1. flusher[s].chunk \in Seq(Chunk)
    BY DEF ThreadTypes
  <2> DEFINE new == extendScrollback(s, flusher[s].chunk)
  <2>2. new \in Seq(Chunk) /\ Len(new) <= SCROLLBACK_CAP + SCROLLBACK_SLACK
    BY <2>1, ExtendKeeps
  <2>3. scrollback' = scrollback \/ scrollback' = [scrollback EXCEPT ![s] = new]
    BY <1>1
  <2>0. /\ scrollback \in [Session -> Seq(Chunk)]
        /\ \A u \in Session : Len(scrollback[u]) <= SCROLLBACK_CAP + SCROLLBACK_SLACK
    BY DEF ThreadTypes
  <2> HIDE DEF new
  <2>4. /\ scrollback' \in [Session -> Seq(Chunk)]
        /\ \A u \in Session : Len(scrollback'[u]) <= SCROLLBACK_CAP + SCROLLBACK_SLACK
    <3>1. CASE scrollback' = scrollback
      BY <2>0, <3>1
    <3>2. CASE scrollback' = [scrollback EXCEPT ![s] = new]
      BY <2>0, <2>2, <3>2
    <3> QED BY <2>3, <3>1, <3>2
  <2>5. flusher' \in [Session -> [at : {"rest", "took", "appended", "ended"}, chunk : Seq(Chunk)]]
    BY <1>1 DEF ThreadTypes
  <2> QED BY <1>1, <2>4, <2>5 DEF ThreadTypes, ThreadFrame
<1> QED BY <1>1, <1>2, ThreadKeeps

(* What a message of a thread does to the wires.                           *)
LEMMA DataFans ==
  ASSUME IndInv, NEW s \in Session, NEW msg \in Message, ~Opens(msg), fanOut(s, msg)
  PROVE  /\ wire' \in [Client -> Seq(Message)]
         /\ \A c \in Client : Len(wire'[c]) <= WRITER_QUEUE
         /\ \A c \in Client : \A i \in 1 .. Len(wire'[c]) :
              \/ \E j \in 1 .. Len(wire[c]) : wire'[c][i] = wire[c][j]
              \/ ~Opens(wire'[c][i])
<1>1. \A c \in Client : \A i \in 1 .. Len(wire'[c]) :
        \/ i \in 1 .. Len(wire[c]) /\ wire'[c][i] = wire[c][i]
        \/ wire'[c][i] = msg
  BY WireFacts, FanOutKeeps
<1> QED BY <1>1, WireFacts, FanOutKeeps

LEMMA FansOutKeeps == ASSUME IndInv, NEW s \in Session, flusherFansOut(s) PROVE IndInv'
<1> USE WireFacts
<1> DEFINE msg == [k |-> "Data", s |-> s, chunk |-> flusher[s].chunk]
<1>1. /\ ThreadFrame /\ UNCHANGED <<alive, waiter, pending, scrollback>>
      /\ flusher' = [flusher EXCEPT ![s] = Resting] /\ fanOut(s, msg)
  BY DEF flusherFansOut, ThreadFrame, daemon
<1>2. msg \in Message /\ msg.k = "Data"
  BY DEF ThreadTypes, Message
<1>3. ThreadTypes'
  BY <1>1 DEF ThreadTypes, ThreadFrame, Resting
<1> HIDE DEF msg
<1>4. ~Opens(msg)
  BY <1>2 DEF Opens
<1> QED BY <1>1, <1>2, <1>3, <1>4, DataFans, ThreadKeeps

LEMMA WaiterTakesKeeps == ASSUME IndInv, NEW s \in Session, waiterTakes(s) PROVE IndInv'
<1> USE WireFacts
<1> DEFINE tail == pending[s] # <<>> /\ Held(s)
           new == extendScrollback(s, pending[s])
<1>1. /\ ThreadFrame /\ UNCHANGED <<alive, wire, flusher>> /\ shell[s] = "ended"
      /\ waiter' = [waiter EXCEPT ![s] = IF tail THEN [at |-> "appended", chunk |-> pending[s]]
                                         ELSE [at |-> "tailed", chunk |-> <<>>]]
      /\ scrollback' = IF tail THEN [scrollback EXCEPT ![s] = new] ELSE scrollback
      /\ pending' = [pending EXCEPT ![s] = <<>>]
  BY DEF waiterTakes, ThreadFrame, wires
<1>2. pending[s] \in Seq(Chunk)
  BY DEF ThreadTypes
<1>3. new \in Seq(Chunk) /\ Len(new) <= SCROLLBACK_CAP + SCROLLBACK_SLACK
  BY <1>2, ExtendKeeps
<1>4. \/ waiter' = [waiter EXCEPT ![s] = [at |-> "appended", chunk |-> pending[s]]]
      \/ waiter' = [waiter EXCEPT ![s] = [at |-> "tailed", chunk |-> <<>>]]
  BY <1>1
<1>5. scrollback' = scrollback \/ scrollback' = [scrollback EXCEPT ![s] = new]
  BY <1>1
<1> HIDE DEF tail, new
<1>6. /\ scrollback' \in [Session -> Seq(Chunk)]
      /\ \A u \in Session : Len(scrollback'[u]) <= SCROLLBACK_CAP + SCROLLBACK_SLACK
  BY <1>3, <1>5 DEF ThreadTypes
<1>7. /\ waiter' \in [Session -> [at : {"rest", "appended", "tailed", "ended"}, chunk : Seq(Chunk)]]
      /\ \A u \in Session : waiter'[u].at \in {"appended", "tailed"} => shell[u] = "ended"
  BY <1>1, <1>2, <1>4 DEF ThreadTypes
<1>8. /\ pending' \in [Session -> Seq(Chunk)]
      /\ \A u \in Session : Len(pending'[u]) <= MAX_PENDING
  BY <1>1, PtyDaemonAssumption DEF ThreadTypes
<1>9. ThreadTypes'
  BY <1>1, <1>6, <1>7, <1>8 DEF ThreadTypes, ThreadFrame
<1> QED BY <1>1, <1>7, <1>9, ThreadKeeps

LEMMA WaiterFansOutKeeps == ASSUME IndInv, NEW s \in Session, waiterFansOut(s) PROVE IndInv'
<1> USE WireFacts
<1> DEFINE msg == [k |-> "Data", s |-> s, chunk |-> waiter[s].chunk]
<1>1. /\ ThreadFrame /\ UNCHANGED <<alive, flusher, pending, scrollback>>
      /\ waiter[s].at = "appended"
      /\ waiter' = [waiter EXCEPT ![s].at = "tailed"] /\ fanOut(s, msg)
  BY DEF waiterFansOut, ThreadFrame, daemon
<1>2. msg \in Message /\ msg.k = "Data"
  BY DEF ThreadTypes, Message
<1>3. ThreadTypes'
  BY <1>1 DEF ThreadTypes, ThreadFrame
<1>4. \A u \in Session : waiter'[u].at \in {"appended", "tailed"} => shell[u] = "ended"
  BY <1>1 DEF ThreadTypes
<1> HIDE DEF msg
<1>5. ~Opens(msg)
  BY <1>2 DEF Opens
<1> QED BY <1>1, <1>2, <1>3, <1>4, <1>5, DataFans, ThreadKeeps

LEMMA ExitKeeps == ASSUME IndInv, NEW s \in Session, sinkExit(s) PROVE IndInv'
<1> USE WireFacts
<1> DEFINE msg == [k |-> "Exit", s |-> s]
<1>1. /\ ThreadFrame /\ UNCHANGED <<flusher, pending, scrollback>>
      /\ waiter[s].at = "tailed"
      /\ waiter' = [waiter EXCEPT ![s] = [at |-> "ended", chunk |-> <<>>]]
      /\ \/ alive' = [alive EXCEPT ![s] = FALSE] /\ fanOut(s, msg)
         \/ UNCHANGED <<alive, wire>>
  BY DEF sinkExit, ThreadFrame
<1>2. msg \in Message /\ msg.k = "Exit"
  BY DEF Message
<1>3. ThreadTypes'
  BY <1>1 DEF ThreadTypes, ThreadFrame
<1>4. \A u \in Session : waiter'[u].at \in {"appended", "tailed"} => shell[u] = "ended"
  BY <1>1 DEF ThreadTypes
<1>5. /\ alive' \in [Session -> BOOLEAN]
      /\ \A u \in Session : alive'[u] # alive[u] => alive'[u] = FALSE /\ shell[u] = "ended"
  BY <1>1
<1> HIDE DEF msg
<1>6. ~Opens(msg)
  BY <1>2 DEF Opens
<1> QED BY <1>1, <1>2, <1>3, <1>4, <1>5, <1>6, DataFans, ThreadKeeps

(* The thread that closes a session lets go of it.                         *)
LEMMA DropThreadKeeps == ASSUME IndInv, NEW s \in Session, dropThread(s) PROVE IndInv'
<1>1. /\ dropping' = dropping \ {s}
      /\ UNCHANGED <<service, opened, map, filled, freed, alive, scrollback, subscribers,
                     dispatch, threads, wires, app, closed>>
  BY DEF dropThread, history
<1>2. Types'
  BY <1>1 DEF IndInv, Types, DaemonTypes, ThreadTypes, WireTypes, AppTypes, threads, wires,
     app
<1>3. ShellInv' /\ SpawnInv'
  BY <1>1 DEF IndInv, ShellInv, SpawnInv, Owned, Quit, threads, wires
<1>4. LinkInv' /\ CountInv'
  BY <1>1, QuietLinks DEF app
<1> QED BY <1>2, <1>3, <1>4 DEF IndInv

----------------------------------------------------------------------------
(* The dispatcher of a connection. *)

LEMMA WaitingFinite == IsFiniteSet(Waiting) /\ Cardinality(Waiting) \in Nat
<1>1. Waiting \subseteq Pane
  BY DEF Waiting
<1>2. IsFiniteSet(Pane)
  BY FS_Interval, PtyDaemonAssumption DEF Pane
<1> QED BY <1>1, <1>2, FS_Subset, FS_CardinalityType

LEMMA OpenedInSession == ASSUME IndInv PROVE opened <= MaxOpens /\ 1 .. opened \subseteq Session
<1>2. Cardinality(Waiting) \in Nat
  BY WaitingFinite
<1>3. opened <= MaxOpens
  BY <1>2, PtyDaemonAssumption DEF IndInv, CountInv, Types, DaemonTypes, AppTypes
<1> QED BY <1>3, PtyDaemonAssumption DEF Session, IndInv, Types, DaemonTypes

LEMMA DispatchFacts ==
  ASSUME IndInv
  PROVE  /\ DaemonTypes /\ WireTypes /\ DispatchInv /\ RequestInv /\ WireInv /\ PaneInv
         /\ CountInv
         /\ dispatch \in [Client -> Dispatch] /\ requests \in [Client -> Seq(Request)]
         /\ map \subseteq Session /\ filled \subseteq Session
<1>1. map \subseteq 1 .. opened /\ filled \subseteq 1 .. opened
  BY DEF IndInv, Types, DaemonTypes
<1>2. map \subseteq Session /\ filled \subseteq Session
  BY <1>1, OpenedInSession
<1> QED BY <1>2 DEF IndInv, Types, DaemonTypes, WireTypes, LinkInv

LEMMA OpenOnceStays == ASSUME OpenOnce, UNCHANGED <<requests, pane>> PROVE OpenOnce'
BY DEF OpenOnce, IsOpen

(* Fewer Opens wait.                                                       *)
LEMMA CountLess ==
  ASSUME IndInv, OpenOnce', Waiting' \subseteq Waiting, UNCHANGED <<opened, opens>>
  PROVE  CountInv'
<1>2. IsFiniteSet(Waiting) /\ Cardinality(Waiting) \in Nat
  BY WaitingFinite
<1>3. Cardinality(Waiting') <= Cardinality(Waiting) /\ Cardinality(Waiting') \in Nat
  BY <1>2, FS_Subset, FS_CardinalityType
<1>4. Cardinality(Waiting)' = Cardinality(Waiting')
  OBVIOUS
<1> QED BY <1>2, <1>3, <1>4 DEF CountInv, IndInv, Types, DaemonTypes, AppTypes

(* The dispatcher of c goes on with the request it serves.                 *)
LEMMA ServesLinks ==
  ASSUME IndInv, Grows, NEW c \in Client, NEW new \in Dispatch, requests[c] # <<>>,
         dispatch' = [dispatch EXCEPT ![c] = new], new.at # "idle",
         new.at = "copied" => new.s \in Known',
         new.at = "reply" /\ Opens(new.msg) => new.msg.s \in Known',
         UNCHANGED <<conn, requests, pane>>,
         \A d \in Client : \A i \in 1 .. Len(wire'[d]) :
            \/ \E j \in 1 .. Len(wire[d]) : wire'[d][i] = wire[d][j]
            \/ ~Opens(wire'[d][i])
  PROVE  /\ LinkInv' /\ OpenOnce' /\ Waiting' \subseteq Waiting
         /\ \A p \in Pane : requests[c][1].k = "Open" /\ requests[c][1].p = p => p \notin Waiting'
<1> USE DispatchFacts
<1>1. DispatchInv'
  <2> SUFFICES ASSUME NEW d \in Client
               PROVE  /\ dispatch'[d].at # "idle" => requests'[d] # <<>>
                      /\ dispatch'[d].at = "copied" => dispatch'[d].s \in Known'
                      /\ dispatch'[d].at = "reply" /\ Opens(dispatch'[d].msg) =>
                           dispatch'[d].msg.s \in Known'
    BY DEF DispatchInv, Opens
  <2>1. CASE d = c
    BY <2>1
  <2>2. CASE d # c
    BY <2>2, KnownStays DEF DispatchInv
  <2> QED BY <2>1, <2>2
<1>2. RequestInv'
  BY RequestStays
<1>3. WireInv'
  BY WireStays
<1>4. PaneInv'
  BY PaneStays
<1>5. OpenOnce'
  BY OpenOnceStays DEF CountInv
<1>6. ASSUME NEW p \in Waiting'
      PROVE  p \in Waiting /\ ~(requests[c][1].k = "Open" /\ requests[c][1].p = p)
  <2>0. PICK d \in Client : \E i \in 1 .. Len(requests[d]) :
          IsOpen(d, i, p) /\ (i > 1 \/ dispatch'[d].at = "idle")
    BY <1>6 DEF Waiting, IsOpen
  <2>1. PICK i \in 1 .. Len(requests[d]) :
          IsOpen(d, i, p) /\ (i > 1 \/ dispatch'[d].at = "idle")
    BY <2>0
  <2>2. p \in Pane
    BY <1>6 DEF Waiting
  <2>3. d = c => i > 1
    BY <2>1
  <2>4. p \in Waiting
    BY <2>1, <2>2, <2>3 DEF Waiting
  <2>5. 1 \in 1 .. Len(requests[c])
    OBVIOUS
  <2>6. IsOpen(c, 1, p) => d = c /\ i = 1
    BY <2>1, <2>2, <2>5 DEF CountInv, OpenOnce
  <2> QED BY <2>3, <2>4, <2>6 DEF IsOpen
<1> QED BY <1>1, <1>2, <1>3, <1>4, <1>5, <1>6 DEF LinkInv

(* The request that was served goes from the queue.                        *)
LEMMA TailLinks ==
  ASSUME IndInv, Grows, NEW c \in Client, requests[c] # <<>>,
         requests' = [requests EXCEPT ![c] = Tail(@)],
         dispatch' = dispatch \/ dispatch' = [dispatch EXCEPT ![c] = Idle],
         dispatch'[c].at = "idle", UNCHANGED <<conn, pane>>, WireInv'
  PROVE  /\ LinkInv' /\ OpenOnce' /\ Waiting' \subseteq Waiting
         /\ requests' \in [Client -> Seq(Request)]
<1> USE DispatchFacts
<1>1. /\ requests' \in [Client -> Seq(Request)]
      /\ Len(requests'[c]) = Len(requests[c]) - 1 /\ Len(requests[c]) \in Nat
      /\ \A i \in 1 .. Len(requests'[c]) : requests'[c][i] = requests[c][i + 1]
      /\ \A d \in Client : d # c => requests'[d] = requests[d]
  <2>1. requests[c] \in Seq(Request)
    OBVIOUS
  <2>2. /\ Tail(requests[c]) \in Seq(Request) /\ Len(Tail(requests[c])) = Len(requests[c]) - 1
        /\ Len(requests[c]) \in Nat
        /\ \A i \in 1 .. Len(requests[c]) - 1 : Tail(requests[c])[i] = requests[c][i + 1]
    BY <2>1
  <2> QED BY <2>2
<1>2. \A d \in Client : \A i \in 1 .. Len(requests'[d]) :
        \E j \in 1 .. Len(requests[d]) :
          requests'[d][i] = requests[d][j] /\ j = IF d = c THEN i + 1 ELSE i
  <2> SUFFICES ASSUME NEW d \in Client, NEW i \in 1 .. Len(requests'[d])
               PROVE  \E j \in 1 .. Len(requests[d]) :
                        requests'[d][i] = requests[d][j] /\ j = IF d = c THEN i + 1 ELSE i
    OBVIOUS
  <2>1. CASE d = c
    <3>1. i + 1 \in 1 .. Len(requests[c]) /\ requests'[c][i] = requests[c][i + 1]
      BY <1>1, <2>1
    <3> QED BY <2>1, <3>1
  <2>2. CASE d # c
    BY <1>1, <2>2
  <2> QED BY <2>1, <2>2
<1>3. DispatchInv'
  <2> SUFFICES ASSUME NEW d \in Client
               PROVE  /\ dispatch'[d].at # "idle" => requests'[d] # <<>>
                      /\ dispatch'[d].at = "copied" => dispatch'[d].s \in Known'
                      /\ dispatch'[d].at = "reply" /\ Opens(dispatch'[d].msg) =>
                           dispatch'[d].msg.s \in Known'
    BY DEF DispatchInv, Opens
  <2>1. CASE d = c
    BY <2>1
  <2>2. CASE d # c
    BY <1>1, <2>2, KnownStays DEF DispatchInv, Idle
  <2> QED BY <2>1, <2>2
<1>4. RequestInv'
  <2>1. ASSUME NEW d \in Client, requests'[d] # <<>> PROVE conn'[d] \in {"up", "left"}
    <3>1. requests[d] # <<>>
      BY <1>1, <2>1
    <3> QED BY <3>1 DEF RequestInv
  <2>2. ASSUME NEW d \in Client, NEW i \in 1 .. Len(requests'[d])
        PROVE  /\ requests'[d][i].k = "Close" => requests'[d][i].s \in Known'
               /\ requests'[d][i].k = "KillAll" => d = MaxClients /\ conn'[d] = "up"
    <3>1. PICK j \in 1 .. Len(requests[d]) : requests'[d][i] = requests[d][j]
      BY <1>2
    <3> QED BY <3>1, KnownStays DEF RequestInv
  <2> QED BY <2>1, <2>2 DEF RequestInv
<1>5. PaneInv'
  BY PaneStays
<1>6. OpenOnce'
  <2> SUFFICES ASSUME NEW p \in Pane, NEW d \in Client, NEW i \in 1 .. Len(requests'[d]),
                      IsOpen(d, i, p)'
               PROVE  /\ pane'[p].at # "new"
                      /\ \A e \in Client : \A j \in 1 .. Len(requests'[e]) :
                           IsOpen(e, j, p)' => d = e /\ i = j
    BY DEF OpenOnce
  <2>1. PICK i1 \in 1 .. Len(requests[d]) :
          requests'[d][i] = requests[d][i1] /\ i1 = IF d = c THEN i + 1 ELSE i
    BY <1>2
  <2>2. IsOpen(d, i1, p)
    BY <2>1 DEF IsOpen
  <2>3. ASSUME NEW e \in Client, NEW j \in 1 .. Len(requests'[e]), IsOpen(e, j, p)'
        PROVE  d = e /\ i = j
    <3>1. PICK j1 \in 1 .. Len(requests[e]) :
            requests'[e][j] = requests[e][j1] /\ j1 = IF e = c THEN j + 1 ELSE j
      BY <1>2
    <3>2. IsOpen(e, j1, p)
      BY <2>3, <3>1 DEF IsOpen
    <3>3. d = e /\ i1 = j1
      BY <2>2, <3>2 DEF CountInv, OpenOnce
    <3> QED BY <2>1, <3>1, <3>3
  <2> QED BY <2>2, <2>3 DEF CountInv, OpenOnce
<1>7. ASSUME NEW p \in Waiting' PROVE p \in Waiting
  <2>0. PICK d \in Client : \E i \in 1 .. Len(requests'[d]) :
          /\ requests'[d][i].k = "Open" /\ requests'[d][i].p = p
          /\ i > 1 \/ dispatch'[d].at = "idle"
    BY <1>7 DEF Waiting, IsOpen
  <2>1. PICK i \in 1 .. Len(requests'[d]) :
          /\ requests'[d][i].k = "Open" /\ requests'[d][i].p = p
          /\ i > 1 \/ dispatch'[d].at = "idle"
    BY <2>0
  <2>2. PICK j \in 1 .. Len(requests[d]) :
          requests'[d][i] = requests[d][j] /\ j = IF d = c THEN i + 1 ELSE i
    BY <1>2
  <2>3. IsOpen(d, j, p) /\ p \in Pane
    BY <1>7, <2>1, <2>2 DEF IsOpen, Waiting
  <2>4. j > 1 \/ dispatch[d].at = "idle"
    BY <2>1, <2>2
  <2> QED BY <2>3, <2>4 DEF Waiting
<1> QED BY <1>1, <1>3, <1>4, <1>5, <1>6, <1>7 DEF LinkInv

LEMMA SessionsFinite == IsFiniteSet(Session)
BY FS_Interval, PtyDaemonAssumption DEF Session

(* close_session: the wires get exits, a filled shell ends.                *)
LEMMA CloseWires ==
  ASSUME IndInv, NEW S \in SUBSET Session, NEW kept, closeSessions(S, kept)
  PROVE  /\ wire' \in [Client -> Seq(Message)]
         /\ \A c \in Client : Len(wire'[c]) <= WRITER_QUEUE
         /\ \A c \in Client : \A i \in 1 .. Len(wire'[c]) :
              \/ \E j \in 1 .. Len(wire[c]) : wire'[c][i] = wire[c][j]
              \/ ~Opens(wire'[c][i])
<1> USE WireFacts
<1> DEFINE on(c) == {s \in S : c \in subscribers[s]}
           exits(c) == {[k |-> "Exit", s |-> s] : s \in on(c)}
           msgs == [c \in Client |-> SetToSeq(exits(c))]
<1>1. trySend(msgs)
  BY DEF closeSessions
<1>2. ASSUME NEW c \in Client
      PROVE  /\ IsFiniteSet(exits(c)) /\ exits(c) \subseteq Message
             /\ \A m \in exits(c) : ~Opens(m)
  <2>1. IsFiniteSet(on(c))
    <3>1. IsFiniteSet(Session) /\ on(c) \subseteq Session
      BY SessionsFinite
    <3> HIDE DEF on
    <3> QED BY <3>1, FS_Subset
  <2> DEFINE f == [s \in on(c) |-> [k |-> "Exit", s |-> s]]
  <2>2. f \in Surjection(on(c), exits(c))
    BY DEF Surjection
  <2>3. IsFiniteSet(exits(c))
    BY <2>1, <2>2, FS_Surjection
  <2>4. \A s \in on(c) : s \in Session
    OBVIOUS
  <2> HIDE DEF on
  <2>5. exits(c) \subseteq Message
    BY <2>4 DEF Message
  <2>6. \A m \in exits(c) : ~Opens(m)
    BY DEF Opens
  <2> QED BY <2>3, <2>5, <2>6
<1> HIDE DEF exits
<1>3. ASSUME NEW c \in Client
      PROVE  /\ msgs[c] \in Seq(Message)
             /\ \A j \in 1 .. Len(msgs[c]) : ~Opens(msgs[c][j])
  <2>1. msgs[c] \in Seq(exits(c))
    BY <1>2, SetToSeqIs
  <2> HIDE DEF msgs
  <2>2. msgs[c] \in Seq(Message)
    BY <1>2, <2>1
  <2>3. \A j \in 1 .. Len(msgs[c]) : msgs[c][j] \in exits(c)
    BY <2>1
  <2> QED BY <1>2, <2>2, <2>3
<1>4. msgs \in [Client -> Seq(Message)]
  BY <1>3
<1> HIDE DEF msgs
<1>5. \A c \in Client : \A i \in 1 .. Len(wire'[c]) :
        \/ i \in 1 .. Len(wire[c]) /\ wire'[c][i] = wire[c][i]
        \/ \E j \in 1 .. Len(msgs[c]) : wire'[c][i] = msgs[c][j]
  BY <1>1, <1>4, TrySendKeeps
<1>6. ASSUME NEW c \in Client, NEW i \in 1 .. Len(wire'[c])
      PROVE  \/ \E j \in 1 .. Len(wire[c]) : wire'[c][i] = wire[c][j]
             \/ ~Opens(wire'[c][i])
  BY <1>3, <1>5
<1> QED BY <1>1, <1>4, <1>6, TrySendKeeps

LEMMA CloseTypes ==
  ASSUME IndInv, NEW S \in SUBSET map, NEW kept, closeSessions(S, kept)
  PROVE  /\ map' = kept /\ closed' = closed \cup S /\ dropping' = dropping \cup S
         /\ shell' \in [Session -> {"none", "run", "ended", "perished"}]
         /\ alive' \in [Session -> BOOLEAN]
         /\ \A s \in Session : /\ shell'[s] = IF s \in S \cap filled THEN "ended" ELSE shell[s]
                               /\ s \in S => alive'[s] = FALSE
                               /\ s \notin S => alive'[s] = alive[s]
<1>1. /\ shell \in [Session -> {"none", "run", "ended", "perished"}]
      /\ alive \in [Session -> BOOLEAN]
  BY DEF IndInv, Types, DaemonTypes, ThreadTypes
<1>2. shell' = [s \in Session |-> IF s \in S \cap filled THEN "ended" ELSE shell[s]]
  BY DEF closeSessions
<1>3. alive' = [s \in Session |-> s \notin S /\ alive[s]]
  BY DEF closeSessions
<1>4. /\ shell' \in [Session -> {"none", "run", "ended", "perished"}]
      /\ \A s \in Session : shell'[s] = IF s \in S \cap filled THEN "ended" ELSE shell[s]
  BY <1>1, <1>2
<1>5. \A s \in Session : alive'[s] = (s \notin S /\ alive[s])
  BY <1>3
<1>6. ASSUME NEW s \in Session
      PROVE  /\ s \in S => alive'[s] = FALSE
             /\ s \notin S => alive'[s] = alive[s]
  <2>1. CASE s \in S
    BY <1>5, <2>1
  <2>2. CASE s \notin S
    <3>1. alive[s] = TRUE \/ alive[s] = FALSE
      BY <1>1
    <3> QED BY <1>5, <2>2, <3>1
  <2> QED BY <2>1, <2>2
<1>7. alive' \in [Session -> BOOLEAN]
  BY <1>3
<1> QED BY <1>4, <1>6, <1>7 DEF closeSessions

(* The shells of the sessions that are closed.                             *)
LEMMA CloseShells ==
  ASSUME IndInv, NEW S \in SUBSET map, closeSessions(S, map \ S),
         UNCHANGED <<opened, filled, freed, waiter, conn>>,
         \A s \in S : s \in filled \/ shell[s] = "ended" \/ Quit,
         \A c \in Client : dispatch[c].at \in {"spawn", "fill"} \/ dispatch'[c].at \in {"spawn", "fill"}
                              => dispatch'[c] = dispatch[c]
  PROVE  ShellInv' /\ SpawnInv'
<1>1. /\ map' = map \ S /\ closed' = closed \cup S
      /\ \A s \in Session : /\ shell'[s] = IF s \in S \cap filled THEN "ended" ELSE shell[s]
                            /\ s \in S => alive'[s] = FALSE
                            /\ s \notin S => alive'[s] = alive[s]
  BY CloseTypes
<1>2. map \subseteq 1 .. opened /\ opened \in Nat /\ 1 .. opened \subseteq Session /\ Quit' = Quit
  BY OpenedInSession DEF IndInv, Types, DaemonTypes, Quit
<1>3. \A s : Owned(s) => s \in map' \/ (s \in closed' /\ Quit) \/ s \in S
  BY <1>1 DEF Owned
<1>4. ShellInv'
  <2> SUFFICES ASSUME NEW s \in Session
               PROVE  /\ s > opened => shell'[s] = "none" /\ alive'[s] = TRUE
                      /\ s \in filled => shell'[s] \in {"run", "ended"}
                      /\ s \in freed => shell'[s] = "ended"
                      /\ waiter[s].at \in {"appended", "tailed"} => shell'[s] = "ended"
                      /\ s \in map' /\ alive'[s] = FALSE => shell'[s] = "ended"
                      /\ shell'[s] # "perished"
                      /\ shell'[s] = "run" =>
                           /\ s \in map' \/ (s \in closed' /\ Quit)
                           /\ s \in filled \/ \E c \in Client :
                                dispatch'[c].at = "fill" /\ dispatch'[c].s = s
    BY <1>2 DEF ShellInv, Owned
  <2>0. s > opened => s \notin S
    <3>1. s \in S => s \in 1 .. opened
      BY <1>2
    <3> QED BY <1>2, <3>1
  <2>1. /\ s > opened => shell[s] = "none" /\ alive[s] = TRUE
        /\ s \in filled => shell[s] \in {"run", "ended"}
        /\ s \in freed => shell[s] = "ended"
        /\ waiter[s].at \in {"appended", "tailed"} => shell[s] = "ended"
        /\ s \in map /\ alive[s] = FALSE => shell[s] = "ended"
        /\ shell[s] # "perished"
        /\ shell[s] = "run" => Owned(s)
        /\ shell[s] = "run" =>
             s \in filled \/ \E c \in Client : dispatch[c].at = "fill" /\ dispatch[c].s = s
    BY DEF IndInv, ShellInv
  <2>2. CASE s \in S \cap filled
    BY <1>1, <2>0, <2>1, <2>2
  <2>3. CASE s \notin S \cap filled
    <3>1. shell'[s] = shell[s]
      BY <1>1, <2>3
    <3>2. shell[s] = "run" =>
            s \in filled \/ \E c \in Client : dispatch'[c].at = "fill" /\ dispatch'[c].s = s
      BY <2>1
    <3>3. shell[s] = "run" => s \in map' \/ (s \in closed' /\ Quit)
      BY <1>1, <1>3, <2>1, <2>3
    <3>4. s \in map' => alive'[s] = alive[s] /\ s \in map
      BY <1>1
    <3> QED BY <1>1, <2>0, <2>1, <3>1, <3>2, <3>3, <3>4
  <2> QED BY <2>2, <2>3
<1>5. SpawnInv'
  <2> SUFFICES ASSUME NEW c \in Client, dispatch'[c].at \in {"spawn", "fill"}
               PROVE  /\ dispatch'[c].s \in 1 .. opened /\ dispatch'[c].s \notin filled
                      /\ dispatch'[c].at = "spawn" => /\ shell'[dispatch'[c].s] = "none"
                                                      /\ \/ dispatch'[c].s \in map'
                                                         \/ dispatch'[c].s \in closed' /\ Quit
                      /\ dispatch'[c].at = "fill" => shell'[dispatch'[c].s] \in {"run", "ended"}
                      /\ \A d \in Client : dispatch'[d].at \in {"spawn", "fill"}
                                              /\ dispatch'[d].s = dispatch'[c].s => d = c
    BY <1>2 DEF SpawnInv, Owned
  <2>1. dispatch'[c] = dispatch[c] /\ dispatch[c].at \in {"spawn", "fill"}
    OBVIOUS
  <2>2. /\ dispatch[c].s \in 1 .. opened /\ dispatch[c].s \notin filled
        /\ dispatch[c].at = "spawn" => shell[dispatch[c].s] = "none" /\ Owned(dispatch[c].s)
        /\ dispatch[c].at = "fill" => shell[dispatch[c].s] \in {"run", "ended"}
        /\ \A d \in Client :
             dispatch[d].at \in {"spawn", "fill"} /\ dispatch[d].s = dispatch[c].s => d = c
    BY <2>1 DEF IndInv, SpawnInv
  <2>3. shell'[dispatch[c].s] = shell[dispatch[c].s]
    BY <1>1, <1>2, <2>2
  <2>4. dispatch[c].s \in S /\ dispatch[c].at = "spawn" => Quit
    BY <2>2
  <2>5. \A d \in Client : dispatch'[d].at \in {"spawn", "fill"} /\ dispatch'[d].s = dispatch[c].s => d = c
    BY <2>2
  <2> QED BY <1>1, <1>3, <2>1, <2>2, <2>3, <2>4, <2>5
<1> QED BY <1>4, <1>5

(* A dispatcher that spawns nothing.                                       *)
LEMMA SpawnsSame ==
  ASSUME NEW c \in Client, NEW new \in Dispatch, dispatch \in [Client -> Dispatch],
         dispatch[c].at \notin {"spawn", "fill"}, new.at \notin {"spawn", "fill"},
         dispatch' = [dispatch EXCEPT ![c] = new]
  PROVE  /\ dispatch' \in [Client -> Dispatch]
         /\ \A d \in Client :
              dispatch[d].at \in {"spawn", "fill"} \/ dispatch'[d].at \in {"spawn", "fill"}
                                 => dispatch'[d] = dispatch[d]
OBVIOUS

LEMMA MapFinite ==
  ASSUME IndInv, NEW S \in SUBSET map
  PROVE  IsFiniteSet(S) /\ Cardinality(S) \in Nat /\ Cardinality(S) <= MAX_SESSIONS
<1>1. map \subseteq Session
  BY DispatchFacts
<1>2. IsFiniteSet(map)
  BY <1>1, SessionsFinite, FS_Subset
<1>3. IsFiniteSet(S) /\ Cardinality(S) <= Cardinality(map)
  BY <1>2, FS_Subset
<1>4. Cardinality(S) \in Nat /\ Cardinality(map) \in Nat
  BY <1>2, <1>3, FS_CardinalityType
<1> QED BY <1>3, <1>4, PtyDaemonAssumption DEF IndInv, Types, DaemonTypes

(* The head of the queue is a request.                                     *)
LEMMA HeadIsRequest ==
  ASSUME IndInv, NEW c \in Client, requests[c] # <<>>
  PROVE  Head1(c) \in Request /\ Head1(c) = requests[c][1] /\ 1 \in 1 .. Len(requests[c])
<1>1. requests[c] \in Seq(Request)
  BY DispatchFacts
<1> QED BY <1>1 DEF Head1

LEMMA ServeCloseKeeps == ASSUME IndInv, NEW c \in Client, serveClose(c) PROVE IndInv'
<1> DEFINE S == {Head1(c).s} \cap map
<1> USE DispatchFacts
<1>1. /\ dispatch[c].at = "idle" /\ requests[c] # <<>> /\ Head1(c).k = "Close"
      /\ closeSessions(S, map \ S) /\ requests' = [requests EXCEPT ![c] = Tail(@)]
      /\ UNCHANGED <<service, opened, filled, freed, scrollback, subscribers, dispatch, wrote,
                     pending, flusher, waiter, conn, app>>
  BY DEF serveClose, Asks
<1>2. S \in SUBSET map /\ S \in SUBSET Session /\ map \ S \in SUBSET map
  OBVIOUS
<1>3. \A s \in S : s \in filled
  <2>1. Head1(c).s \in Known
    BY <1>1, HeadIsRequest DEF RequestInv
  <2> QED BY <2>1 DEF Known
<1> HIDE DEF S
<1>4. ShellInv' /\ SpawnInv'
  BY <1>1, <1>2, <1>3, CloseShells
<1>5. /\ map' = map \ S /\ closed' = closed \cup S /\ dropping' = dropping \cup S
      /\ shell' \in [Session -> {"none", "run", "ended", "perished"}]
      /\ alive' \in [Session -> BOOLEAN]
  BY <1>1, <1>2, CloseTypes
<1>6. Grows
  BY <1>1, <1>5 DEF Grows, DaemonTypes
<1>7. /\ wire' \in [Client -> Seq(Message)] /\ \A d \in Client : Len(wire'[d]) <= WRITER_QUEUE
      /\ WireInv'
  BY <1>1, <1>2, <1>6, CloseWires, WireStays
<1>8. /\ LinkInv' /\ OpenOnce' /\ Waiting' \subseteq Waiting
      /\ requests' \in [Client -> Seq(Request)]
  BY <1>1, <1>6, <1>7, TailLinks DEF app
<1>9. CountInv'
  BY <1>1, <1>8, CountLess DEF app
<1>10. DaemonTypes'
  <2>1. Cardinality(map \ S) <= MAX_SESSIONS
    BY <1>2, MapFinite
  <2> QED BY <1>1, <1>2, <1>5, <2>1 DEF DaemonTypes
<1>11. Types'
  BY <1>1, <1>5, <1>7, <1>8, <1>10 DEF IndInv, Types, ThreadTypes, WireTypes, AppTypes, app
<1> QED BY <1>4, <1>8, <1>9, <1>11 DEF IndInv

LEMMA KillAllKeeps == ASSUME IndInv, NEW c \in Client, serveKillAll(c) PROVE IndInv'
<1> USE DispatchFacts
<1> DEFINE new == [at |-> "reply", msg |-> [k |-> "Killed"]]
<1>1. /\ dispatch[c].at = "idle" /\ requests[c] # <<>> /\ Head1(c).k = "KillAll"
      /\ closeSessions(map, {}) /\ dispatch' = [dispatch EXCEPT ![c] = new]
      /\ UNCHANGED <<service, opened, filled, freed, scrollback, subscribers, wrote,
                     pending, flusher, waiter, conn, requests, app>>
  BY DEF serveKillAll, Asks, Answer
<1>2. map \in SUBSET map /\ map \in SUBSET Session /\ {} = map \ map
  OBVIOUS
<1>3. Quit
  BY <1>1, HeadIsRequest DEF RequestInv, Quit
<1>4. new \in Dispatch /\ new.at = "reply" /\ ~Opens(new.msg)
  BY DEF Dispatch, Message, Opens
<1> HIDE DEF new
<1>5. /\ dispatch' \in [Client -> Dispatch]
      /\ \A d \in Client :
           dispatch[d].at \in {"spawn", "fill"} \/ dispatch'[d].at \in {"spawn", "fill"}
                              => dispatch'[d] = dispatch[d]
  BY <1>1, <1>4, SpawnsSame
<1>6. ShellInv' /\ SpawnInv'
  BY <1>1, <1>2, <1>3, <1>5, CloseShells
<1>7. /\ map' = {} /\ closed' = closed \cup map /\ dropping' = dropping \cup map
      /\ shell' \in [Session -> {"none", "run", "ended", "perished"}]
      /\ alive' \in [Session -> BOOLEAN]
  BY <1>1, <1>2, CloseTypes
<1>8. Grows
  BY <1>1, <1>7 DEF Grows, DaemonTypes
<1>9. /\ wire' \in [Client -> Seq(Message)] /\ \A d \in Client : Len(wire'[d]) <= WRITER_QUEUE
      /\ \A d \in Client : \A i \in 1 .. Len(wire'[d]) :
              \/ \E j \in 1 .. Len(wire[d]) : wire'[d][i] = wire[d][j]
              \/ ~Opens(wire'[d][i])
  BY <1>1, <1>2, CloseWires
<1>10. LinkInv' /\ OpenOnce' /\ Waiting' \subseteq Waiting
  BY <1>1, <1>4, <1>8, <1>9, ServesLinks DEF app
<1>11. CountInv'
  BY <1>1, <1>10, CountLess DEF app
<1>12. DaemonTypes'
  <2>1. Cardinality({}) <= MAX_SESSIONS
    BY FS_EmptySet, PtyDaemonAssumption
  <2> QED BY <1>1, <1>5, <1>7, <2>1 DEF DaemonTypes
<1>13. Types'
  BY <1>1, <1>7, <1>9, <1>12 DEF IndInv, Types, ThreadTypes, WireTypes, AppTypes, app
<1> QED BY <1>6, <1>10, <1>11, <1>13 DEF IndInv

(* A dispatcher that holds a request, and what it is in the middle of.     *)
LEMMA Serving ==
  ASSUME IndInv, NEW c \in Client, dispatch[c].at # "idle"
  PROVE  /\ requests[c] # <<>>
         /\ dispatch[c].at \in {"spawn", "fill"} =>
              dispatch[c] \in [at : {"spawn", "fill"}, s : Session, p : Pane]
         /\ dispatch[c].at = "copied" =>
              dispatch[c] \in [at : {"copied"}, s : Session, p : Pane, copy : Seq(Chunk), alive : BOOLEAN]
         /\ dispatch[c].at = "reply" => dispatch[c] \in [at : {"reply"}, msg : Message]
<1>1. dispatch[c] \in Dispatch /\ requests[c] # <<>>
  BY DispatchFacts DEF DispatchInv
<1> QED BY <1>1 DEF Dispatch

(* A step of a dispatcher that only answers or copies.                     *)
LEMMA AnswersKeeps ==
  ASSUME IndInv, NEW c \in Client, NEW new \in Dispatch, requests[c] # <<>>,
         dispatch[c].at \notin {"spawn", "fill"}, new.at \in {"copied", "reply"},
         dispatch' = [dispatch EXCEPT ![c] = new],
         new.at = "copied" => new.s \in Known,
         new.at = "reply" /\ Opens(new.msg) => new.msg.s \in Known,
         subscribers' \in [Session -> SUBSET Client],
         UNCHANGED <<service, opened, map, filled, dropping, freed, alive, scrollback, threads,
                     wires, app, closed>>
  PROVE  IndInv'
<1> USE DispatchFacts
<1>1. /\ dispatch' \in [Client -> Dispatch]
      /\ \A d \in Client :
           dispatch[d].at \in {"spawn", "fill"} \/ dispatch'[d].at \in {"spawn", "fill"}
                              => dispatch'[d] = dispatch[d]
  BY SpawnsSame
<1>2. Types'
  BY <1>1 DEF IndInv, Types, DaemonTypes, ThreadTypes, WireTypes, AppTypes, threads, wires,
     app
<1>3. Grows /\ Known' = Known
  BY DEF Grows, DaemonTypes, Known
<1>4. ShellInv' /\ SpawnInv'
  <2>1. ShellInv'
    BY <1>1 DEF IndInv, ShellInv, Owned, Quit, threads, wires
  <2>2. SpawnInv'
    BY <1>1 DEF IndInv, SpawnInv, Owned, Quit, threads, wires
  <2> QED BY <2>1, <2>2
<1>5. LinkInv' /\ OpenOnce' /\ Waiting' \subseteq Waiting
  BY <1>3, ServesLinks DEF wires, app
<1>6. CountInv'
  BY <1>5, CountLess DEF app
<1> QED BY <1>2, <1>4, <1>5, <1>6 DEF IndInv

LEMMA AttachCopiesKeeps == ASSUME IndInv, NEW c \in Client, attachCopies(c) PROVE IndInv'
<1> DEFINE s == Head1(c).s
           copied == [at |-> "copied", s |-> s, p |-> Head1(c).p, copy |-> scrollback[s], alive |-> alive[s]]
           err == [at |-> "reply", msg |-> [k |-> "Err", p |-> Head1(c).p]]
<1>1. /\ dispatch[c].at = "idle" /\ requests[c] # <<>> /\ Head1(c).k = "Attach"
      /\ \/ s \in map \cap filled /\ dispatch' = [dispatch EXCEPT ![c] = copied]
         \/ dispatch' = [dispatch EXCEPT ![c] = err]
      /\ UNCHANGED <<service, opened, map, filled, dropping, freed, alive, scrollback,
                     subscribers,
                     threads, wires, app, closed>>
  BY DEF attachCopies, Asks, Answer, history
<1>2. Head1(c) \in Request
  BY <1>1, HeadIsRequest
<1>3. s \in Session /\ Head1(c).p \in Pane
  BY <1>1, <1>2 DEF Request
<1>4. copied \in Dispatch /\ copied.at = "copied" /\ copied.s = s
  BY <1>3 DEF IndInv, Types, DaemonTypes, ThreadTypes, Dispatch
<1>5. err \in Dispatch /\ err.at = "reply" /\ ~Opens(err.msg)
  BY <1>3 DEF Dispatch, Message, Opens
<1>6. subscribers' \in [Session -> SUBSET Client]
  BY <1>1, DispatchFacts DEF DaemonTypes
<1>7. s \in map \cap filled => s \in Known
  BY DispatchFacts DEF Known, DaemonTypes
<1> HIDE DEF copied, err, s
<1> QED BY <1>1, <1>4, <1>5, <1>6, <1>7, AnswersKeeps

LEMMA AttachSubscribesKeeps == ASSUME IndInv, NEW c \in Client, attachSubscribes(c) PROVE IndInv'
<1> DEFINE d == dispatch[c]
           msg == [k |-> "AttachOk", p |-> d.p, s |-> d.s, copy |-> d.copy, alive |-> d.alive]
           new == [at |-> "reply", msg |-> msg]
<1>1. /\ d.at = "copied" /\ dispatch' = [dispatch EXCEPT ![c] = new]
      /\ subscribers' = [subscribers EXCEPT ![d.s] = @ \cup {c}]
      /\ UNCHANGED <<service, opened, map, filled, dropping, freed, alive, scrollback,
                     threads, wires, app, closed>>
  BY DEF attachSubscribes, Answer, history
<1>2. /\ requests[c] # <<>>
      /\ d \in [at : {"copied"}, s : Session, p : Pane, copy : Seq(Chunk), alive : BOOLEAN]
  BY <1>1, Serving
<1>3. d.s \in Known
  BY <1>1, DispatchFacts DEF DispatchInv
<1>4. msg \in Message /\ msg.s = d.s
  BY <1>2 DEF Message
<1>5. subscribers' \in [Session -> SUBSET Client]
  <2>1. subscribers \in [Session -> SUBSET Client]
    BY DispatchFacts DEF DaemonTypes
  <2> HIDE DEF d
  <2> QED BY <1>1, <2>1
<1> HIDE DEF msg
<1>6. new \in Dispatch /\ new.at = "reply" /\ new.msg = msg
  BY <1>4 DEF Dispatch
<1> HIDE DEF new
<1> QED BY <1>1, <1>2, <1>3, <1>4, <1>5, <1>6, AnswersKeeps

(* What the dispatcher that spawns knows of its shell.                     *)
LEMMA Spawning ==
  ASSUME IndInv, NEW c \in Client, dispatch[c].at \in {"spawn", "fill"}
  PROVE  /\ requests[c] # <<>> /\ dispatch[c] \in [at : {"spawn", "fill"}, s : Session, p : Pane]
         /\ dispatch[c].s \in 1 .. opened /\ dispatch[c].s \notin filled
         /\ dispatch[c].at = "spawn" => /\ shell[dispatch[c].s] = "none" /\ Owned(dispatch[c].s)
                                        /\ dispatch[c].s \notin freed
                                        /\ waiter[dispatch[c].s].at \notin {"appended", "tailed"}
                                        /\ dispatch[c].s \in map => alive[dispatch[c].s] = TRUE
         /\ dispatch[c].at = "fill" => shell[dispatch[c].s] \in {"run", "ended"}
         /\ \A d \in Client : dispatch[d].at \in {"spawn", "fill"} /\ d # c =>
              dispatch[d].s # dispatch[c].s
<1>1. dispatch[c] \in [at : {"spawn", "fill"}, s : Session, p : Pane] /\ requests[c] # <<>>
  BY Serving
<1>2. dispatch[c].s \in Session
  BY <1>1
<1>3. alive \in [Session -> BOOLEAN] /\ alive[dispatch[c].s] \in BOOLEAN
  BY <1>2, DispatchFacts DEF DaemonTypes
<1>4. /\ shell[dispatch[c].s] = "none" => dispatch[c].s \notin freed
      /\ shell[dispatch[c].s] = "none" => waiter[dispatch[c].s].at \notin {"appended", "tailed"}
      /\ dispatch[c].s \in map /\ alive[dispatch[c].s] = FALSE => shell[dispatch[c].s] = "ended"
  BY <1>2 DEF IndInv, ShellInv
<1>5. /\ dispatch[c].s \in 1 .. opened /\ dispatch[c].s \notin filled
      /\ dispatch[c].at = "spawn" => shell[dispatch[c].s] = "none" /\ Owned(dispatch[c].s)
      /\ dispatch[c].at = "fill" => shell[dispatch[c].s] \in {"run", "ended"}
      /\ \A d \in Client : dispatch[d].at \in {"spawn", "fill"} /\ d # c =>
           dispatch[d].s # dispatch[c].s
  BY DEF IndInv, SpawnInv
<1> QED BY <1>1, <1>3, <1>4, <1>5

LEMMA OpenSpawnsKeeps == ASSUME IndInv, NEW c \in Client, openSpawns(c) PROVE IndInv'
<1> DEFINE s == dispatch[c].s
           new == [dispatch[c] EXCEPT !.at = "fill"]
<1> USE DispatchFacts
<1>1. /\ dispatch[c].at = "spawn" /\ shell' = [shell EXCEPT ![s] = "run"]
      /\ dispatch' = [dispatch EXCEPT ![c] = new]
      /\ UNCHANGED <<service, opened, map, filled, dropping, freed, alive, scrollback,
                     subscribers,
                     wrote, pending, flusher, waiter, wires, app, closed>>
  BY DEF openSpawns, history
<1>2. /\ requests[c] # <<>> /\ dispatch[c] \in [at : {"spawn", "fill"}, s : Session, p : Pane]
      /\ s \in 1 .. opened /\ s \notin filled /\ shell[s] = "none" /\ Owned(s) /\ s \notin freed
      /\ waiter[s].at \notin {"appended", "tailed"} /\ (s \in map => alive[s] = TRUE)
      /\ \A d \in Client : dispatch[d].at \in {"spawn", "fill"} /\ d # c => dispatch[d].s # s
  BY <1>1, Spawning
<1>3. new \in Dispatch /\ new.at = "fill" /\ new.s = s
  BY <1>2 DEF Dispatch
<1> HIDE DEF new
<1>4. /\ dispatch' \in [Client -> Dispatch] /\ dispatch'[c] = new
      /\ \A d \in Client : d # c => dispatch'[d] = dispatch[d]
  BY <1>1, <1>3
<1>5. s \in Session /\ opened \in Nat
  BY <1>2 DEF DaemonTypes
<1>6. shell \in [Session -> {"none", "run", "ended", "perished"}]
  BY DEF IndInv, Types, ThreadTypes
<1> HIDE DEF s
<1>7. /\ shell' \in [Session -> {"none", "run", "ended", "perished"}] /\ shell'[s] = "run"
      /\ \A t \in Session : t # s => shell'[t] = shell[t]
  BY <1>1, <1>5, <1>6
<1>8. Types'
  <2>1. DaemonTypes'
    BY <1>1, <1>4 DEF IndInv, Types, DaemonTypes
  <2>2. ThreadTypes'
    BY <1>1, <1>7 DEF IndInv, Types, ThreadTypes
  <2> QED BY <1>1, <2>1, <2>2 DEF IndInv, Types, WireTypes, AppTypes, wires, app
<1>9. ShellInv'
  <2> SUFFICES ASSUME NEW t \in Session
               PROVE  /\ t > opened => shell'[t] = "none" /\ alive[t] = TRUE
                      /\ t \in filled => shell'[t] \in {"run", "ended"}
                      /\ t \in freed => shell'[t] = "ended"
                      /\ waiter[t].at \in {"appended", "tailed"} => shell'[t] = "ended"
                      /\ t \in map /\ alive[t] = FALSE => shell'[t] = "ended"
                      /\ shell'[t] # "perished"
                      /\ shell'[t] = "run" =>
                           /\ Owned(t)
                           /\ t \in filled \/ \E d \in Client :
                                dispatch'[d].at = "fill" /\ dispatch'[d].s = t
    BY <1>1 DEF ShellInv, Owned, Quit, wires
  <2>1. CASE t = s
    BY <1>2, <1>3, <1>4, <1>5, <1>7, <2>1
  <2>2. CASE t # s
    <3>1. shell'[t] = shell[t]
      BY <1>7, <2>2
    <3>2. \A d \in Client : dispatch[d].at = "fill" => d # c /\ dispatch'[d] = dispatch[d]
      BY <1>1, <1>4
    <3> QED BY <3>1, <3>2 DEF IndInv, ShellInv
  <2> QED BY <2>1, <2>2
<1>10. SpawnInv'
  <2> SUFFICES ASSUME NEW d \in Client, dispatch'[d].at \in {"spawn", "fill"}
               PROVE  /\ dispatch'[d].s \in 1 .. opened /\ dispatch'[d].s \notin filled
                      /\ dispatch'[d].at = "spawn" =>
                           shell'[dispatch'[d].s] = "none" /\ Owned(dispatch'[d].s)
                      /\ dispatch'[d].at = "fill" => shell'[dispatch'[d].s] \in {"run", "ended"}
                      /\ \A e \in Client : dispatch'[e].at \in {"spawn", "fill"}
                                             /\ dispatch'[e].s = dispatch'[d].s => e = d
    BY <1>1 DEF SpawnInv, Owned, Quit, wires
  <2>1. CASE d = c
    BY <1>2, <1>3, <1>4, <1>7, <2>1
  <2>2. CASE d # c
    <3>1. dispatch'[d] = dispatch[d] /\ dispatch[d].s # s
      BY <1>2, <1>4, <2>2
    <3>2. /\ dispatch[d].s \in Session /\ dispatch[d].s \in 1 .. opened
          /\ dispatch[d].s \notin filled
          /\ dispatch[d].at = "spawn" => shell[dispatch[d].s] = "none" /\ Owned(dispatch[d].s)
          /\ dispatch[d].at = "fill" => shell[dispatch[d].s] \in {"run", "ended"}
          /\ \A e \in Client : dispatch[e].at \in {"spawn", "fill"} /\ e # d =>
               dispatch[e].s # dispatch[d].s
      BY <3>1, Spawning
    <3>3. shell'[dispatch[d].s] = shell[dispatch[d].s]
      BY <1>7, <3>1, <3>2
    <3>4. \A e \in Client : e # c => dispatch'[e] = dispatch[e]
      BY <1>4
    <3>5. dispatch'[c].s # dispatch[d].s
      BY <1>3, <1>4, <3>1
    <3> QED BY <3>1, <3>2, <3>3, <3>4, <3>5
  <2> QED BY <2>1, <2>2
<1>11. Grows
  BY <1>1 DEF Grows, DaemonTypes
<1>12. LinkInv' /\ OpenOnce' /\ Waiting' \subseteq Waiting
  BY <1>1, <1>2, <1>3, <1>11, ServesLinks DEF wires, app
<1>13. CountInv'
  BY <1>1, <1>12, CountLess DEF app
<1> QED BY <1>8, <1>9, <1>10, <1>12, <1>13 DEF IndInv

(* The spawner lets go of its shell.                                       *)
LEMMA SpawnEnds ==
  ASSUME IndInv, NEW c \in Client, dispatch[c].at \in {"spawn", "fill"},
         NEW new \in Dispatch, new.at = "reply", dispatch' = [dispatch EXCEPT ![c] = new],
         UNCHANGED <<opened, freed, alive, threads, conn, closed>>,
         \/ /\ dispatch[c].at = "spawn" /\ map' = map \ {dispatch[c].s} /\ UNCHANGED filled
         \/ /\ dispatch[c].at = "fill" /\ filled' = filled \cup {dispatch[c].s} /\ UNCHANGED map
  PROVE  ShellInv' /\ SpawnInv' /\ dispatch' \in [Client -> Dispatch]
<1> USE DispatchFacts
<1> DEFINE s == dispatch[c].s
<1>1. /\ s \in Session /\ s \in 1 .. opened /\ s \notin filled
      /\ dispatch[c].at = "spawn" => shell[s] = "none"
      /\ dispatch[c].at = "fill" => shell[s] \in {"run", "ended"}
      /\ \A d \in Client : dispatch[d].at \in {"spawn", "fill"} /\ d # c => dispatch[d].s # s
  BY Spawning
<1>2. /\ dispatch' \in [Client -> Dispatch] /\ dispatch'[c] = new
      /\ \A d \in Client : d # c => dispatch'[d] = dispatch[d]
  OBVIOUS
<1>3. /\ opened' = opened /\ freed' = freed /\ alive' = alive /\ shell' = shell
      /\ waiter' = waiter /\ closed' = closed /\ conn' = conn
  BY DEF threads
<1>4. /\ map' \subseteq map /\ \A t \in map : t # s => t \in map'
      /\ filled \subseteq filled' /\ \A t \in filled' :
           t \in filled \/ (t = s /\ dispatch[c].at = "fill")
      /\ s \in map => s \in map' \/ dispatch[c].at = "spawn"
      /\ dispatch[c].at = "fill" => s \in filled'
  OBVIOUS
<1> HIDE DEF s
<1>5. ShellInv'
  <2> SUFFICES ASSUME NEW t \in Session
               PROVE  /\ t > opened' => shell'[t] = "none" /\ alive'[t] = TRUE
                      /\ t \in filled' => shell'[t] \in {"run", "ended"}
                      /\ t \in freed' => shell'[t] = "ended"
                      /\ waiter'[t].at \in {"appended", "tailed"} => shell'[t] = "ended"
                      /\ t \in map' /\ alive'[t] = FALSE => shell'[t] = "ended"
                      /\ shell'[t] # "perished"
                      /\ shell'[t] = "run" =>
                           /\ t \in map' \/ (t \in closed' /\ Quit')
                           /\ t \in filled' \/ \E d \in Client :
                                dispatch'[d].at = "fill" /\ dispatch'[d].s = t
    BY DEF ShellInv, Owned
  <2>1. /\ t > opened => shell[t] = "none" /\ alive[t] = TRUE
        /\ t \in filled => shell[t] \in {"run", "ended"}
        /\ t \in freed => shell[t] = "ended"
        /\ waiter[t].at \in {"appended", "tailed"} => shell[t] = "ended"
        /\ t \in map /\ alive[t] = FALSE => shell[t] = "ended"
        /\ shell[t] # "perished"
        /\ shell[t] = "run" => t \in map \/ (t \in closed /\ Quit)
        /\ shell[t] = "run" =>
             t \in filled \/ \E d \in Client : dispatch[d].at = "fill" /\ dispatch[d].s = t
    BY DEF IndInv, ShellInv, Owned
  <2>2. t \in filled' => shell[t] \in {"run", "ended"}
    BY <1>1, <1>4, <2>1
  <2>3. shell[t] = "run" => t \in map' \/ (t \in closed /\ Quit)
    BY <1>1, <1>4, <2>1
  <2>4. shell[t] = "run" =>
          t \in filled' \/ \E d \in Client : dispatch'[d].at = "fill" /\ dispatch'[d].s = t
    BY <1>2, <1>4, <2>1 DEF s
  <2>5. Quit' = Quit
    BY <1>3 DEF Quit
  <2> QED BY <1>3, <1>4, <2>1, <2>2, <2>3, <2>4, <2>5
<1>6. SpawnInv'
  <2> SUFFICES ASSUME NEW d \in Client, dispatch'[d].at \in {"spawn", "fill"}
               PROVE  /\ dispatch'[d].s \in 1 .. opened /\ dispatch'[d].s \notin filled'
                      /\ dispatch'[d].at = "spawn" => /\ shell[dispatch'[d].s] = "none"
                                                      /\ \/ dispatch'[d].s \in map'
                                                         \/ dispatch'[d].s \in closed /\ Quit
                      /\ dispatch'[d].at = "fill" => shell[dispatch'[d].s] \in {"run", "ended"}
                      /\ \A e \in Client : dispatch'[e].at \in {"spawn", "fill"}
                                             /\ dispatch'[e].s = dispatch'[d].s => e = d
    BY <1>3 DEF SpawnInv, Owned, Quit
  <2>1. d # c /\ dispatch'[d] = dispatch[d] /\ dispatch[d].s # s
    BY <1>1, <1>2
  <2>2. /\ dispatch[d].s \in 1 .. opened /\ dispatch[d].s \notin filled
        /\ dispatch[d].at = "spawn" => shell[dispatch[d].s] = "none"
        /\ dispatch[d].at = "spawn" => dispatch[d].s \in map \/ (dispatch[d].s \in closed /\ Quit)
        /\ dispatch[d].at = "fill" => shell[dispatch[d].s] \in {"run", "ended"}
        /\ \A e \in Client : dispatch[e].at \in {"spawn", "fill"} /\ e # d =>
             dispatch[e].s # dispatch[d].s
    BY <2>1, Spawning DEF Owned
  <2>3. \A e \in Client : dispatch'[e].at \in {"spawn", "fill"} =>
          e # c /\ dispatch'[e] = dispatch[e]
    BY <1>2
  <2> QED BY <1>4, <2>1, <2>2, <2>3
<1> QED BY <1>2, <1>5, <1>6

LEMMA OpenSpawnFailsKeeps == ASSUME IndInv, NEW c \in Client, openSpawnFails(c) PROVE IndInv'
<1> USE DispatchFacts
<1> DEFINE new == [at |-> "reply", msg |-> [k |-> "Err", p |-> dispatch[c].p]]
<1>1. /\ dispatch[c].at = "spawn" /\ map' = map \ {dispatch[c].s}
      /\ dispatch' = [dispatch EXCEPT ![c] = new]
      /\ UNCHANGED <<service, opened, filled, dropping, freed, alive, scrollback, subscribers,
                     threads, wires, app, closed>>
  BY DEF openSpawnFails, Answer, history
<1>2. requests[c] # <<>> /\ dispatch[c] \in [at : {"spawn", "fill"}, s : Session, p : Pane]
  BY <1>1, Serving
<1>3. new \in Dispatch /\ new.at = "reply" /\ ~Opens(new.msg)
  BY <1>2 DEF Dispatch, Message, Opens
<1> HIDE DEF new
<1>4. ShellInv' /\ SpawnInv' /\ dispatch' \in [Client -> Dispatch]
  BY <1>1, <1>3, SpawnEnds DEF wires
<1>5. DaemonTypes'
  <2>1. map' \in SUBSET map
    BY <1>1
  <2>2. Cardinality(map') <= MAX_SESSIONS
    BY <2>1, MapFinite
  <2> QED BY <1>1, <1>4, <2>1, <2>2 DEF DaemonTypes
<1>6. Types'
  BY <1>1, <1>5 DEF IndInv, Types, ThreadTypes, WireTypes, AppTypes, threads, wires, app
<1>7. Grows
  BY <1>1 DEF Grows, DaemonTypes
<1>8. LinkInv' /\ OpenOnce' /\ Waiting' \subseteq Waiting
  BY <1>1, <1>2, <1>3, <1>7, ServesLinks DEF wires, app
<1>9. CountInv'
  BY <1>1, <1>8, CountLess DEF app
<1> QED BY <1>4, <1>6, <1>8, <1>9 DEF IndInv

LEMMA OpenFillsKeeps == ASSUME IndInv, NEW c \in Client, openFills(c) PROVE IndInv'
<1> USE DispatchFacts
<1> DEFINE msg == [k |-> "OpenOk", p |-> dispatch[c].p, s |-> dispatch[c].s]
           new == [at |-> "reply", msg |-> msg]
<1>1. /\ dispatch[c].at = "fill" /\ filled' = filled \cup {dispatch[c].s}
      /\ dispatch' = [dispatch EXCEPT ![c] = new]
      /\ UNCHANGED <<service, opened, map, dropping, freed, alive, scrollback, subscribers,
                     threads, wires, app, closed>>
  BY DEF openFills, Answer, history
<1>2. /\ requests[c] # <<>> /\ dispatch[c] \in [at : {"spawn", "fill"}, s : Session, p : Pane]
      /\ dispatch[c].s \in 1 .. opened
  BY <1>1, Spawning
<1>3. msg \in Message /\ msg.s = dispatch[c].s
  BY <1>2 DEF Message
<1> HIDE DEF msg
<1>4. new \in Dispatch /\ new.at = "reply" /\ new.msg = msg
  BY <1>3 DEF Dispatch
<1> HIDE DEF new
<1>5. ShellInv' /\ SpawnInv' /\ dispatch' \in [Client -> Dispatch]
  BY <1>1, <1>4, SpawnEnds DEF wires
<1>6. DaemonTypes'
  BY <1>1, <1>2, <1>5 DEF DaemonTypes
<1>7. Types'
  BY <1>1, <1>6 DEF IndInv, Types, ThreadTypes, WireTypes, AppTypes, threads, wires, app
<1>8. Grows /\ dispatch[c].s \in Known'
  BY <1>1, <1>2 DEF Grows, DaemonTypes, Known
<1>9. LinkInv' /\ OpenOnce' /\ Waiting' \subseteq Waiting
  BY <1>1, <1>2, <1>3, <1>4, <1>8, ServesLinks DEF wires, app
<1>10. CountInv'
  BY <1>1, <1>9, CountLess DEF app
<1> QED BY <1>5, <1>7, <1>9, <1>10 DEF IndInv

LEMMA ReplyKeeps == ASSUME IndInv, NEW c \in Client, reply(c) PROVE IndInv'
<1> USE DispatchFacts
<1> DEFINE msg == dispatch[c].msg
<1>1. /\ dispatch[c].at = "reply" /\ (conn[c] = "up" => Len(wire[c]) < WRITER_QUEUE)
      /\ wire' = IF conn[c] = "up" THEN [wire EXCEPT ![c] = Append(@, msg)] ELSE wire
      /\ requests' = [requests EXCEPT ![c] = Tail(@)] /\ dispatch' = [dispatch EXCEPT ![c] = Idle]
      /\ UNCHANGED <<service, opened, map, filled, dropping, freed, alive, scrollback,
                     subscribers,
                     threads, conn, app, closed>>
  BY DEF reply, history
<1>2. requests[c] # <<>> /\ msg \in Message
  BY <1>1, Serving
<1>3. Opens(msg) => msg.s \in Known
  BY <1>1 DEF DispatchInv
<1>4. Grows /\ Known' = Known
  BY <1>1 DEF Grows, DaemonTypes, Known
<1>5. wire[c] \in Seq(Message) /\ wire \in [Client -> Seq(Message)] /\ WRITER_QUEUE \in Nat
  BY PtyDaemonAssumption DEF WireTypes
<1> HIDE DEF msg
<1>6. /\ Append(wire[c], msg) \in Seq(Message) /\ Len(Append(wire[c], msg)) = Len(wire[c]) + 1
      /\ Len(wire[c]) \in Nat /\ Append(wire[c], msg)[Len(wire[c]) + 1] = msg
      /\ \A i \in 1 .. Len(wire[c]) : Append(wire[c], msg)[i] = wire[c][i]
  BY <1>2, <1>5
<1>7. /\ wire' \in [Client -> Seq(Message)]
      /\ \A d \in Client :
           wire'[d] = wire[d] \/ (d = c /\ conn[c] = "up" /\ wire'[d] = Append(wire[c], msg))
  BY <1>1, <1>5, <1>6
<1>8. \A d \in Client : Len(wire'[d]) <= WRITER_QUEUE
  BY <1>1, <1>5, <1>6, <1>7 DEF WireTypes
<1>9. WireInv'
  <2> SUFFICES ASSUME NEW d \in Client, NEW i \in 1 .. Len(wire'[d]), Opens(wire'[d][i])
               PROVE  wire'[d][i].s \in Known
    BY <1>4 DEF WireInv, Opens
  <2>1. CASE wire'[d] = wire[d]
    BY <2>1 DEF WireInv
  <2>2. CASE d = c /\ wire'[d] = Append(wire[c], msg)
    <3>1. i \in 1 .. Len(wire[c]) \/ i = Len(wire[c]) + 1
      BY <1>6, <2>2
    <3> QED BY <1>3, <1>6, <2>2, <3>1 DEF WireInv
  <2> QED BY <1>7, <2>1, <2>2
<1>10. dispatch' \in [Client -> Dispatch] /\ dispatch'[c] = Idle
       /\ \A d \in Client : d # c => dispatch'[d] = dispatch[d]
  BY <1>1 DEF Idle, Dispatch
<1>11. \A d \in Client : dispatch[d].at \in {"spawn", "fill"} \/ dispatch'[d].at \in {"spawn", "fill"}
                           => dispatch'[d] = dispatch[d]
  BY <1>1, <1>10 DEF Idle
<1>12. ShellInv'
  BY <1>1, <1>11 DEF IndInv, ShellInv, Owned, Quit, threads
<1>13. SpawnInv'
  BY <1>1, <1>11 DEF IndInv, SpawnInv, Owned, Quit, threads
<1>14. dispatch'[c].at = "idle"
  BY <1>10 DEF Idle
<1>15. /\ LinkInv' /\ OpenOnce' /\ Waiting' \subseteq Waiting
       /\ requests' \in [Client -> Seq(Request)]
  BY <1>1, <1>2, <1>4, <1>9, <1>14, TailLinks DEF app
<1>16. CountInv'
  BY <1>1, <1>15, CountLess DEF app
<1>17. Types'
  <2>1. DaemonTypes'
    BY <1>1, <1>10 DEF DaemonTypes
  <2>2. ThreadTypes' /\ AppTypes'
    BY <1>1 DEF IndInv, Types, ThreadTypes, AppTypes, threads, app
  <2> QED BY <1>1, <1>7, <1>8, <1>15, <2>1, <2>2 DEF Types, WireTypes
<1> QED BY <1>12, <1>13, <1>15, <1>16, <1>17 DEF IndInv

(* A client that left is only gone once its requests were served.          *)
LEMMA UnsubscribeKeeps == ASSUME IndInv, NEW c \in Client, unsubscribe(c) PROVE IndInv'
<1> USE DispatchFacts
<1>1. /\ conn[c] = "left" /\ requests[c] = <<>> /\ conn' = [conn EXCEPT ![c] = "gone"]
      /\ subscribers' = [s \in Session |-> IF s \in map THEN subscribers[s] \ {c} ELSE subscribers[s]]
      /\ UNCHANGED <<service, opened, map, filled, dropping, freed, alive, scrollback, dispatch,
                     threads, requests, wire, app, closed>>
  BY DEF unsubscribe, history
<1>2. /\ conn' \in [Client -> {"off", "dialled", "counted", "up", "left", "gone", "refused"}]
      /\ \A d \in Client : (conn'[d] = "up" <=> conn[d] = "up") /\ (d # c => conn'[d] = conn[d])
  BY <1>1 DEF WireTypes
<1>3. Types'
  <2>1. subscribers' \in [Session -> SUBSET Client]
    BY <1>1 DEF DaemonTypes
  <2>2. DaemonTypes'
    BY <1>1, <2>1 DEF DaemonTypes
  <2>3. ThreadTypes' /\ AppTypes'
    BY <1>1 DEF IndInv, Types, ThreadTypes, AppTypes, threads, app
  <2> QED BY <1>1, <1>2, <2>2, <2>3 DEF Types, WireTypes
<1>4. Quit' = Quit
  BY <1>2 DEF Quit
<1>5. ShellInv' /\ SpawnInv'
  <2>1. ShellInv'
    BY <1>1, <1>4 DEF IndInv, ShellInv, Owned, threads
  <2>2. SpawnInv'
    BY <1>1, <1>4 DEF IndInv, SpawnInv, Owned, threads
  <2> QED BY <2>1, <2>2
<1>6. Grows
  BY <1>1 DEF Grows, DaemonTypes
<1>7. LinkInv'
  <2>1. DispatchInv'
    BY <1>1, <1>6, DispatchStays
  <2>2. RequestInv'
    <3> SUFFICES ASSUME NEW d \in Client
                 PROVE  /\ requests[d] # <<>> => conn'[d] \in {"up", "left"}
                        /\ \A i \in 1 .. Len(requests[d]) :
                             /\ requests[d][i].k = "Close" => requests[d][i].s \in Known'
                             /\ requests[d][i].k = "KillAll" => d = MaxClients /\ conn'[d] = "up"
      BY <1>1 DEF RequestInv
    <3> QED BY <1>1, <1>2, <1>6, KnownStays DEF RequestInv
  <2>3. WireInv'
    BY <1>1, <1>6, WireStays
  <2>4. PaneInv'
    BY <1>1, <1>2, <1>6, PaneStays DEF app
  <2> QED BY <2>1, <2>2, <2>3, <2>4 DEF LinkInv
<1>8. CountInv'
  BY <1>1, CountStays DEF app
<1> QED BY <1>3, <1>5, <1>7, <1>8 DEF IndInv

(* Only shells that have ended are reaped.                                 *)
LEMMA ReapableEnded ==
  ASSUME IndInv
  PROVE  reapable \in SUBSET map /\ \A s \in reapable : shell[s] = "ended"
<1>1. reapable \in SUBSET map /\ \A s \in reapable : ~alive[s]
  BY DEF reapable
<1>2. ASSUME NEW s \in reapable PROVE shell[s] = "ended"
  <2>1. s \in Session /\ s \in map
    BY <1>1, DispatchFacts
  <2>2. alive[s] \in BOOLEAN
    BY <2>1, DispatchFacts DEF DaemonTypes
  <2>3. alive[s] = FALSE
    BY <1>1, <2>2
  <2>4. s \in map /\ alive[s] = FALSE => shell[s] = "ended"
    BY <2>1 DEF IndInv, ShellInv
  <2> QED BY <2>1, <2>3, <2>4
<1> QED BY <1>1, <1>2

(* An Open that is come to is one that was counted.                        *)
LEMMA OpenCounts ==
  ASSUME IndInv, NEW c \in Client, Asks(c, "Open")
  PROVE  /\ Head1(c).p \in Waiting /\ Head1(c).p \in Pane /\ requests[c][1].k = "Open"
         /\ requests[c][1].p = Head1(c).p
         /\ IsFiniteSet(Waiting) /\ Cardinality(Waiting) \in Nat
         /\ opened + 1 \in Session
         /\ \A W \in SUBSET (Waiting \ {Head1(c).p}) : opened + 1 + Cardinality(W) <= opens
<1> DEFINE p == Head1(c).p
<1>1. /\ dispatch[c].at = "idle" /\ requests[c] # <<>> /\ Head1(c).k = "Open"
      /\ Head1(c) \in Request /\ Head1(c) = requests[c][1] /\ 1 \in 1 .. Len(requests[c])
  BY HeadIsRequest DEF Asks
<1>2. p \in Pane
  BY <1>1 DEF Request
<1>3. IsOpen(c, 1, p)
  BY <1>1 DEF IsOpen
<1>4. p \in Waiting
  BY <1>1, <1>2, <1>3 DEF Waiting
<1>6. IsFiniteSet(Waiting) /\ Cardinality(Waiting) \in Nat
  BY WaitingFinite
<1> HIDE DEF p
<1>7. IsFiniteSet(Waiting \ {p}) /\ Cardinality(Waiting \ {p}) = Cardinality(Waiting) - 1
  BY <1>4, <1>6, FS_RemoveElement
<1>8. Cardinality(Waiting \ {p}) \in Nat
  BY <1>7, FS_CardinalityType
<1>9. opened \in Nat /\ opens \in Nat /\ opens <= MaxOpens /\ MaxOpens \in Nat
      /\ opened + Cardinality(Waiting) <= opens
  BY PtyDaemonAssumption DEF IndInv, CountInv, Types, DaemonTypes, AppTypes
<1>10. opened + 1 \in Session
  BY <1>6, <1>7, <1>8, <1>9 DEF Session
<1>11. ASSUME NEW W \in SUBSET (Waiting \ {p}) PROVE opened + 1 + Cardinality(W) <= opens
  <2>1. Cardinality(W) \in Nat /\ Cardinality(W) <= Cardinality(Waiting \ {p})
    BY <1>7, FS_Subset, FS_CardinalityType
  <2> QED BY <1>6, <1>7, <1>9, <2>1
<1> QED BY <1>1, <1>2, <1>4, <1>6, <1>10, <1>11 DEF p

(* No room: the daemon is at its limit of sessions.                        *)
LEMMA RefusesKeeps ==
  ASSUME IndInv, NEW c \in Client, Asks(c, "Open"),
         closeSessions(reapable, map \ reapable), Answer(c, [k |-> "Err", p |-> Head1(c).p]),
         UNCHANGED <<service, opened, filled, freed, scrollback, subscribers, wrote, pending,
                     flusher, waiter, conn, requests, app>>
  PROVE  IndInv'
<1> USE DispatchFacts
<1> DEFINE new == [at |-> "reply", msg |-> [k |-> "Err", p |-> Head1(c).p]]
<1>1. /\ dispatch[c].at = "idle" /\ requests[c] # <<>> /\ dispatch' = [dispatch EXCEPT ![c] = new]
      /\ Head1(c).p \in Pane
  BY OpenCounts DEF Asks, Answer
<1>2. /\ reapable \in SUBSET map /\ reapable \in SUBSET Session /\ map \ reapable \in SUBSET map
      /\ \A s \in reapable : shell[s] = "ended"
  BY ReapableEnded
<1>4. new \in Dispatch /\ new.at = "reply" /\ ~Opens(new.msg)
  BY <1>1 DEF Dispatch, Message, Opens
<1> HIDE DEF new
<1>5. /\ dispatch' \in [Client -> Dispatch]
      /\ \A d \in Client :
           dispatch[d].at \in {"spawn", "fill"} \/ dispatch'[d].at \in {"spawn", "fill"}
                              => dispatch'[d] = dispatch[d]
  BY <1>1, <1>4, SpawnsSame
<1>6. ShellInv' /\ SpawnInv'
  BY <1>2, <1>5, CloseShells
<1>7. /\ map' = map \ reapable /\ closed' = closed \cup reapable
      /\ dropping' = dropping \cup reapable
      /\ shell' \in [Session -> {"none", "run", "ended", "perished"}]
      /\ alive' \in [Session -> BOOLEAN]
  BY <1>2, CloseTypes
<1>8. Grows
  BY <1>7 DEF Grows, DaemonTypes
<1>9. /\ wire' \in [Client -> Seq(Message)] /\ \A d \in Client : Len(wire'[d]) <= WRITER_QUEUE
      /\ \A d \in Client : \A i \in 1 .. Len(wire'[d]) :
              \/ \E j \in 1 .. Len(wire[d]) : wire'[d][i] = wire[d][j]
              \/ ~Opens(wire'[d][i])
  BY <1>2, CloseWires
<1>10. LinkInv' /\ OpenOnce' /\ Waiting' \subseteq Waiting
  BY <1>1, <1>4, <1>8, <1>9, ServesLinks DEF app
<1>11. CountInv'
  BY <1>10, CountLess DEF app
<1>12. DaemonTypes'
  <2>1. Cardinality(map \ reapable) <= MAX_SESSIONS
    BY <1>2, MapFinite
  <2> HIDE DEF reapable
  <2> QED BY <1>2, <1>5, <1>7, <2>1 DEF DaemonTypes
<1>13. Types'
  BY <1>7, <1>9, <1>12 DEF IndInv, Types, ThreadTypes, WireTypes, AppTypes, app
<1> QED BY <1>6, <1>10, <1>11, <1>13 DEF IndInv

(* Room: the session is in the map before its pty exists.                  *)
LEMMA ReservesKeeps ==
  ASSUME IndInv, NEW c \in Client, Asks(c, "Open"), NEW n, n = opened + 1,
         closeSessions(reapable, (map \ reapable) \cup {n}),
         Cardinality(map \ reapable) < MAX_SESSIONS, opened' = n,
         subscribers' = [subscribers EXCEPT ![n] = {c}],
         dispatch' = [dispatch EXCEPT ![c] = [at |-> "spawn", s |-> n, p |-> Head1(c).p]],
         UNCHANGED <<service, filled, freed, scrollback, wrote, pending, flusher, waiter,
                     conn, requests, app>>
  PROVE  IndInv'
<1> USE DispatchFacts
<1> DEFINE new == [at |-> "spawn", s |-> n, p |-> Head1(c).p]
<1>1. /\ dispatch[c].at = "idle" /\ requests[c] # <<>> /\ n \in Session /\ Head1(c).p \in Pane
      /\ requests[c][1].k = "Open" /\ requests[c][1].p = Head1(c).p
      /\ \A W \in SUBSET (Waiting \ {Head1(c).p}) : n + Cardinality(W) <= opens
  BY OpenCounts DEF Asks
<1>2. /\ reapable \in SUBSET map /\ reapable \in SUBSET Session /\ map \ reapable \in SUBSET map
      /\ \A s \in reapable : shell[s] = "ended"
  BY ReapableEnded
<1>3. /\ map' = (map \ reapable) \cup {n} /\ closed' = closed \cup reapable
      /\ dropping' = dropping \cup reapable
      /\ shell' \in [Session -> {"none", "run", "ended", "perished"}]
      /\ alive' \in [Session -> BOOLEAN]
      /\ \A s \in Session : /\ shell'[s] = IF s \in reapable \cap filled THEN "ended" ELSE shell[s]
                            /\ s \in reapable => alive'[s] = FALSE
                            /\ s \notin reapable => alive'[s] = alive[s]
  BY <1>2, CloseTypes
<1>4. /\ wire' \in [Client -> Seq(Message)] /\ \A d \in Client : Len(wire'[d]) <= WRITER_QUEUE
      /\ \A d \in Client : \A i \in 1 .. Len(wire'[d]) :
              \/ \E j \in 1 .. Len(wire[d]) : wire'[d][i] = wire[d][j]
              \/ ~Opens(wire'[d][i])
  BY <1>2, CloseWires
<1>5. /\ opened \in Nat /\ map \subseteq 1 .. opened /\ filled \subseteq 1 .. opened
      /\ closed \subseteq 1 .. opened /\ map \cap closed = {}
      /\ \A s \in 1 .. opened : s \in 1 .. n /\ s # n
      /\ n \in 1 .. n
  BY DEF DaemonTypes
<1> HIDE DEF reapable
<1>6. n \notin map /\ n \notin filled /\ n \notin closed /\ n \notin reapable
  BY <1>2, <1>5
<1>7. new \in Dispatch /\ new.at = "spawn" /\ new.s = n
  BY <1>1 DEF Dispatch
<1> HIDE DEF new
<1>8. dispatch' = [dispatch EXCEPT ![c] = new]
  BY DEF new
<1>9. /\ dispatch' \in [Client -> Dispatch] /\ dispatch'[c] = new
      /\ \A d \in Client : d # c => dispatch'[d] = dispatch[d]
  BY <1>7, <1>8
<1>10. \A s \in Session : shell'[s] = shell[s]
  BY <1>2, <1>3
<1>11. shell[n] = "none" /\ alive'[n] = TRUE
  BY <1>1, <1>3, <1>5, <1>6 DEF IndInv, ShellInv
<1>12. Quit' = Quit
  BY DEF Quit
<1>13. \A s \in Session : Owned(s) /\ shell[s] # "ended" => s \in map' \/ (s \in closed' /\ Quit')
  BY <1>2, <1>3, <1>12 DEF Owned
<1>14. ShellInv'
  <2> SUFFICES ASSUME NEW t \in Session
               PROVE  /\ t > n => shell'[t] = "none" /\ alive'[t] = TRUE
                      /\ t \in filled => shell'[t] \in {"run", "ended"}
                      /\ t \in freed => shell'[t] = "ended"
                      /\ waiter[t].at \in {"appended", "tailed"} => shell'[t] = "ended"
                      /\ t \in map' /\ alive'[t] = FALSE => shell'[t] = "ended"
                      /\ shell'[t] # "perished"
                      /\ shell'[t] = "run" =>
                           /\ t \in map' \/ (t \in closed' /\ Quit')
                           /\ t \in filled \/ \E d \in Client :
                                dispatch'[d].at = "fill" /\ dispatch'[d].s = t
    BY DEF ShellInv, Owned
  <2>1. /\ t > opened => shell[t] = "none" /\ alive[t] = TRUE
        /\ t \in filled => shell[t] \in {"run", "ended"}
        /\ t \in freed => shell[t] = "ended"
        /\ waiter[t].at \in {"appended", "tailed"} => shell[t] = "ended"
        /\ t \in map /\ alive[t] = FALSE => shell[t] = "ended"
        /\ shell[t] # "perished"
        /\ shell[t] = "run" => Owned(t)
        /\ shell[t] = "run" =>
             t \in filled \/ \E d \in Client : dispatch[d].at = "fill" /\ dispatch[d].s = t
    BY DEF IndInv, ShellInv
  <2>2. t > n => t > opened /\ t \notin reapable
    <3>1. t \in Nat /\ (t \in reapable => t \in 1 .. opened)
      BY <1>2, <1>5 DEF Session
    <3> QED BY <1>5, <3>1
  <2>3. \A d \in Client : dispatch[d].at = "fill" => dispatch'[d] = dispatch[d]
    BY <1>1, <1>9
  <2>4. t > n => shell'[t] = "none" /\ alive'[t] = TRUE
    BY <1>3, <1>10, <2>1, <2>2
  <2>5. t \in map' /\ alive'[t] = FALSE => shell'[t] = "ended"
    BY <1>3, <1>10, <1>11, <2>1
  <2>6. shell'[t] = "run" => t \in map' \/ (t \in closed' /\ Quit')
    BY <1>10, <1>13, <2>1
  <2>7. shell'[t] = "run" =>
          t \in filled \/ \E d \in Client : dispatch'[d].at = "fill" /\ dispatch'[d].s = t
    BY <1>10, <2>1, <2>3
  <2> QED BY <1>10, <2>1, <2>4, <2>5, <2>6, <2>7
<1>15. SpawnInv'
  <2> SUFFICES ASSUME NEW d \in Client, dispatch'[d].at \in {"spawn", "fill"}
               PROVE  /\ dispatch'[d].s \in 1 .. n /\ dispatch'[d].s \notin filled
                      /\ dispatch'[d].at = "spawn" => /\ shell'[dispatch'[d].s] = "none"
                                                      /\ \/ dispatch'[d].s \in map'
                                                         \/ dispatch'[d].s \in closed' /\ Quit'
                      /\ dispatch'[d].at = "fill" => shell'[dispatch'[d].s] \in {"run", "ended"}
                      /\ \A e \in Client : dispatch'[e].at \in {"spawn", "fill"}
                                             /\ dispatch'[e].s = dispatch'[d].s => e = d
    BY DEF SpawnInv, Owned
  <2>0. \A e \in Client : e # c /\ dispatch'[e].at \in {"spawn", "fill"} =>
          /\ dispatch'[e] = dispatch[e] /\ dispatch[e].s \in 1 .. opened /\ dispatch[e].s # n
    <3>1. \A e \in Client : dispatch[e].at \in {"spawn", "fill"} => dispatch[e].s \in 1 .. opened
      BY DEF IndInv, SpawnInv
    <3> QED BY <1>5, <1>9, <3>1
  <2>1. CASE d = c
    BY <1>1, <1>3, <1>5, <1>6, <1>7, <1>9, <1>10, <1>11, <2>0, <2>1
  <2>2. CASE d # c
    <3>1. dispatch'[d] = dispatch[d] /\ dispatch[d].s \in 1 .. n /\ dispatch[d].s # n
      BY <1>5, <2>0, <2>2
    <3>2. /\ dispatch[d].s \in Session /\ dispatch[d].s \notin filled
          /\ dispatch[d].at = "spawn" => shell[dispatch[d].s] = "none" /\ Owned(dispatch[d].s)
          /\ dispatch[d].at = "fill" => shell[dispatch[d].s] \in {"run", "ended"}
          /\ \A e \in Client : dispatch[e].at \in {"spawn", "fill"} /\ e # d =>
               dispatch[e].s # dispatch[d].s
      BY <3>1, Spawning
    <3>3. shell'[dispatch[d].s] = shell[dispatch[d].s]
      BY <1>10, <3>2
    <3>4. dispatch[d].at = "spawn" =>
            dispatch[d].s \in map' \/ (dispatch[d].s \in closed' /\ Quit')
      BY <1>13, <3>2
    <3>5. \A e \in Client : dispatch'[e].at \in {"spawn", "fill"}
                              /\ dispatch'[e].s = dispatch[d].s => e = d
      BY <1>7, <1>9, <2>0, <3>1, <3>2
    <3> QED BY <3>1, <3>2, <3>3, <3>4, <3>5
  <2> QED BY <2>1, <2>2
<1>16. Grows
  <2>1. opened <= n /\ n \in Nat
    BY <1>5
  <2> QED BY <1>3, <1>5, <2>1 DEF Grows
<1>17. /\ LinkInv' /\ OpenOnce' /\ Waiting' \subseteq Waiting /\ Head1(c).p \notin Waiting'
  BY <1>1, <1>4, <1>7, <1>8, <1>16, ServesLinks DEF app
<1>18. CountInv'
  <2>1. Waiting' \in SUBSET (Waiting \ {Head1(c).p})
    BY <1>17
  <2> DEFINE W == Waiting'
  <2>2. n + Cardinality(W) <= opens
    BY <1>1, <2>1
  <2>3. Cardinality(Waiting)' = Cardinality(W)
    OBVIOUS
  <2> HIDE DEF W
  <2>4. opened' = n /\ opens' = opens
    BY DEF app
  <2> QED BY <1>17, <2>2, <2>3, <2>4 DEF CountInv
<1>19. DaemonTypes'
  <2>1. IsFiniteSet(map \ reapable) /\ Cardinality(map \ reapable) \in Nat
    BY <1>2, MapFinite
  <2>2. n \notin map \ reapable
    BY <1>6
  <2>3. Cardinality((map \ reapable) \cup {n}) = Cardinality(map \ reapable) + 1
    BY <2>1, <2>2, FS_AddElement
  <2>4. Cardinality(map') <= MAX_SESSIONS
    BY <1>3, <2>1, <2>3, PtyDaemonAssumption
  <2>5. subscribers' \in [Session -> SUBSET Client]
    BY DEF DaemonTypes
  <2>6. opened' \in Nat /\ 1 .. opened' = 1 .. n
    BY <1>5
  <2>7. map' \subseteq 1 .. n /\ filled' \subseteq 1 .. n /\ closed' \subseteq 1 .. n
    BY <1>2, <1>3, <1>5
  <2>8. dropping' \subseteq closed' /\ map' \cap closed' = {}
    BY <1>2, <1>3, <1>5, <1>6 DEF DaemonTypes
  <2>9. service' \in {"serving", "asked", "resting", "down"}
    BY DEF DaemonTypes
  <2> QED BY <1>3, <1>9, <2>4, <2>5, <2>6, <2>7, <2>8, <2>9 DEF DaemonTypes
<1>20. Types'
  <2>1. ThreadTypes' /\ AppTypes'
    BY <1>3 DEF IndInv, Types, ThreadTypes, AppTypes, app
  <2> QED BY <1>4, <1>19, <2>1 DEF Types, WireTypes
<1> QED BY <1>14, <1>15, <1>17, <1>18, <1>20 DEF IndInv

LEMMA OpenReservesKeeps == ASSUME IndInv, NEW c \in Client, openReserves(c) PROVE IndInv'
<1> DEFINE n == opened + 1
           kept == map \ reapable
           room == Cardinality(kept) < MAX_SESSIONS
<1>1. /\ Asks(c, "Open") /\ closeSessions(reapable, IF room THEN kept \cup {n} ELSE kept)
      /\ IF room
         THEN /\ opened' = n
              /\ subscribers' = [subscribers EXCEPT ![n] = {c}]
              /\ dispatch' = [dispatch EXCEPT ![c] = [at |-> "spawn", s |-> n, p |-> Head1(c).p]]
         ELSE /\ Answer(c, [k |-> "Err", p |-> Head1(c).p])
              /\ UNCHANGED <<opened, subscribers>>
      /\ UNCHANGED <<service, filled, freed, scrollback, wrote, pending, flusher, waiter,
                     conn, requests, app>>
  BY DEF openReserves
<1>2. CASE room
  <2>1. closeSessions(reapable, kept \cup {n})
    BY <1>1, <1>2
  <2> HIDE DEF n
  <2> QED BY <1>1, <1>2, <2>1, ReservesKeeps DEF n
<1>3. CASE ~room
  <2>1. closeSessions(reapable, kept)
    BY <1>1, <1>3
  <2> QED BY <1>1, <1>3, <2>1, RefusesKeeps
<1> QED BY <1>2, <1>3

----------------------------------------------------------------------------
(* The accept loop and the idle watcher. *)

(* A step that leaves the daemon's sessions alone.                         *)
LEMMA SessionsSame ==
  ASSUME IndInv, service' \in {"serving", "asked", "resting", "down"}, Quit => Quit',
         UNCHANGED <<opened, map, filled, dropping, freed, alive, scrollback, subscribers, dispatch,
                     threads, closed>>
  PROVE  DaemonTypes' /\ ThreadTypes' /\ ShellInv' /\ SpawnInv' /\ Grows /\ Known' = Known
<1>1. \A s : Owned(s) => s \in map' \/ (s \in closed' /\ Quit')
  BY DEF Owned
<1>2. DaemonTypes'
  BY DEF IndInv, Types, DaemonTypes
<1>3. ThreadTypes'
  BY DEF IndInv, Types, ThreadTypes, threads
<1>4. shell' = shell /\ waiter' = waiter
  BY DEF threads
<1>5. ShellInv'
  <2>1. \A s : Owned(s) => Owned(s)'
    BY <1>1 DEF Owned
  <2> QED BY <1>4, <2>1 DEF IndInv, ShellInv
<1>6. SpawnInv'
  <2>1. \A s : Owned(s) => Owned(s)'
    BY <1>1 DEF Owned
  <2> QED BY <1>4, <2>1 DEF IndInv, SpawnInv
<1>7. Grows /\ Known' = Known
  BY DEF IndInv, Types, DaemonTypes, Grows, Known
<1> QED BY <1>2, <1>3, <1>5, <1>6, <1>7

ConnStates == {"off", "dialled", "counted", "up", "left", "gone", "refused"}

(* A connection that is not up yet changes.                                *)
LEMMA ConnKeeps ==
  ASSUME IndInv, service' \in {"serving", "asked", "resting", "down"},
         conn' \in [Client -> ConnStates],
         \A c \in Client : conn[c] \in {"up", "left"} => conn'[c] = conn[c],
         UNCHANGED <<opened, map, filled, dropping, freed, alive, scrollback, subscribers, dispatch,
                     threads, requests, wire, early, pane, opens, closed>>
  PROVE  IndInv'
<1> USE DispatchFacts
<1>1. Quit => Quit'
  BY DEF Quit
<1>2. DaemonTypes' /\ ThreadTypes' /\ ShellInv' /\ SpawnInv' /\ Grows
  BY <1>1, SessionsSame
<1>3. DispatchInv'
  BY <1>2, DispatchStays
<1>4. RequestInv'
  BY <1>2, RequestStays
<1>5. WireInv'
  BY <1>2, WireStays
<1>6. PaneInv'
  BY <1>2, PaneStays
<1>7. CountInv'
  BY CountStays
<1>8. WireTypes' /\ AppTypes'
  BY DEF IndInv, Types, WireTypes, AppTypes, ConnStates
<1> QED BY <1>2, <1>3, <1>4, <1>5, <1>6, <1>7, <1>8 DEF IndInv, Types, LinkInv

LEMMA ConnIs == ASSUME IndInv PROVE conn \in [Client -> ConnStates]
BY DEF IndInv, Types, WireTypes, ConnStates

LEMMA WatcherKeeps == ASSUME IndInv, idle_watcher \/ acceptWake PROVE IndInv'
<1>1. /\ service' \in {"asked", "resting"}
      /\ UNCHANGED <<opened, map, filled, dropping, freed, alive, scrollback, subscribers,
                     dispatch,
                     threads, wires, app, closed>>
  BY DEF idle_watcher, acceptWake, history
<1> QED BY <1>1, ConnIs, ConnKeeps DEF wires, app

LEMMA AcceptKeeps == ASSUME IndInv, NEW c \in Client, accept(c) PROVE IndInv'
<1>1. /\ conn[c] = "dialled"
      /\ \/ service' = service /\ Welcomed({c})
         \/ service' = "resting" /\ conn' = [conn EXCEPT ![c] = "counted"]
      /\ UNCHANGED <<opened, map, filled, dropping, freed, alive, scrollback, subscribers,
                     dispatch,
                     threads, requests, wire, early, pane, opens, closed>>
  BY DEF accept, history
<1>2. service' \in {"serving", "asked", "resting", "down"}
  BY <1>1, DispatchFacts DEF DaemonTypes
<1>3. /\ conn' \in [Client -> ConnStates]
      /\ \A d \in Client : conn[d] \in {"up", "left"} => conn'[d] = conn[d]
  BY <1>1, ConnIs DEF Welcomed, ConnStates
<1> QED BY <1>1, <1>2, <1>3, ConnKeeps

LEMMA ConnectKeeps == ASSUME IndInv, NEW c \in Client, connect(c) PROVE IndInv'
<1>1. /\ conn[c] = "off"
      /\ \/ service' = service /\ conn' = [conn EXCEPT ![c] = "dialled"]
         \/ service' = "serving" /\ Welcomed({c})
      /\ UNCHANGED <<opened, map, filled, dropping, freed, alive, scrollback, subscribers,
                     dispatch,
                     threads, requests, wire, early, pane, opens, closed>>
  BY DEF connect, history
<1>2. service' \in {"serving", "asked", "resting", "down"}
  BY <1>1, DispatchFacts DEF DaemonTypes
<1>3. /\ conn' \in [Client -> ConnStates]
      /\ \A d \in Client : conn[d] \in {"up", "left"} => conn'[d] = conn[d]
  BY <1>1, ConnIs DEF Welcomed, ConnStates
<1> QED BY <1>1, <1>2, <1>3, ConnKeeps

(* The last look found no client and no live session: nothing that the     *)
(* process takes with it was in use.                                       *)
LEMMA ExitsKeeps ==
  ASSUME IndInv, Counted = {}, \A s \in map : ~alive[s], Exits
  PROVE  IndInv'
<1> USE DispatchFacts
<1>1. /\ service' = "down" /\ map' = {} /\ filled' = {} /\ dropping' = {}
      /\ scrollback' = [s \in Session |-> <<>>] /\ subscribers' = [s \in Session |-> {}]
      /\ shell' = [s \in Session |-> IF shell[s] = "run" THEN "perished" ELSE shell[s]]
      /\ pending' = [s \in Session |-> <<>>]
      /\ flusher' = [s \in Session |-> IF s <= opened THEN [at |-> "ended", chunk |-> <<>>] ELSE flusher[s]]
      /\ waiter' = [s \in Session |-> IF s <= opened THEN [at |-> "ended", chunk |-> <<>>] ELSE waiter[s]]
      /\ conn' = [c \in Client |-> IF conn[c] = "dialled" THEN "refused" ELSE conn[c]]
      /\ UNCHANGED <<opened, freed, alive, dispatch, wrote, requests, wire, app, closed>>
  BY DEF Exits, history
<1>2. \A c \in Client : conn[c] \notin {"counted", "up", "left"}
  BY DEF Counted
<1>3. \A c \in Client : requests[c] = <<>> /\ dispatch[c].at = "idle"
  BY <1>2 DEF RequestInv, DispatchInv
<1>4. ~Quit
  BY <1>2 DEF Quit
<1>5. \A s \in Session : shell[s] # "run"
  <2> SUFFICES ASSUME NEW s \in Session, shell[s] = "run" PROVE FALSE
    OBVIOUS
  <2>1. Owned(s) /\ (s \in map /\ alive[s] = FALSE => shell[s] = "ended")
    BY DEF IndInv, ShellInv
  <2>2. s \in map
    BY <1>4, <2>1 DEF Owned
  <2>3. alive[s] \in BOOLEAN
    BY DEF DaemonTypes
  <2> QED BY <2>1, <2>2, <2>3
<1>6. shell \in [Session -> {"none", "run", "ended", "perished"}]
  BY DEF IndInv, Types, ThreadTypes
<1>7. shell' = shell
  BY <1>1, <1>5, <1>6
<1>8. conn' \in [Client -> ConnStates] /\ \A c \in Client : conn'[c] = "up" <=> conn[c] = "up"
  BY <1>1, ConnIs DEF ConnStates
<1>9. Grows
  BY <1>1 DEF Grows, DaemonTypes
<1>10. DaemonTypes'
  <2>1. Cardinality({}) <= MAX_SESSIONS
    BY FS_EmptySet, PtyDaemonAssumption
  <2> QED BY <1>1, <2>1 DEF DaemonTypes
<1>11. ThreadTypes'
  <2>1. ThreadTypes
    BY DEF IndInv, Types
  <2>2. scrollback' \in [Session -> Seq(Chunk)] /\ pending' \in [Session -> Seq(Chunk)]
    BY <1>1
  <2>3. \A s \in Session : /\ Len(pending'[s]) <= MAX_PENDING
                           /\ Len(scrollback'[s]) <= SCROLLBACK_CAP + SCROLLBACK_SLACK
    BY <1>1, PtyDaemonAssumption
  <2>4. flusher' \in [Session -> [at : {"rest", "took", "appended", "ended"}, chunk : Seq(Chunk)]]
    BY <1>1, <2>1 DEF ThreadTypes
  <2>5. waiter' \in [Session -> [at : {"rest", "appended", "tailed", "ended"}, chunk : Seq(Chunk)]]
    BY <1>1, <2>1 DEF ThreadTypes
  <2> QED BY <1>1, <1>6, <1>7, <2>1, <2>2, <2>3, <2>4, <2>5 DEF ThreadTypes
<1>12. ShellInv'
  <2> SUFFICES ASSUME NEW s \in Session
               PROVE  /\ s > opened => shell[s] = "none" /\ alive[s] = TRUE
                      /\ s \in freed => shell[s] = "ended"
                      /\ waiter'[s].at \in {"appended", "tailed"} => shell[s] = "ended"
                      /\ shell[s] \notin {"perished", "run"}
    BY <1>1, <1>7 DEF ShellInv
  <2>1. waiter'[s].at \in {"appended", "tailed"} => waiter'[s] = waiter[s]
    BY <1>1
  <2> QED BY <1>5, <2>1 DEF IndInv, ShellInv
<1>13. SpawnInv'
  BY <1>1, <1>3 DEF SpawnInv
<1>14. LinkInv'
  <2>1. DispatchInv'
    BY <1>1, <1>3 DEF DispatchInv
  <2>2. RequestInv'
    BY <1>1, <1>3 DEF RequestInv
  <2>3. WireInv'
    BY <1>1, <1>9, WireStays
  <2>4. PaneInv'
    BY <1>1, <1>8, <1>9, PaneStays DEF app
  <2> QED BY <2>1, <2>2, <2>3, <2>4 DEF LinkInv
<1>15. CountInv'
  BY <1>1, CountStays DEF app
<1>16. WireTypes' /\ AppTypes'
  BY <1>1, <1>8 DEF IndInv, Types, WireTypes, AppTypes, ConnStates, app
<1> QED BY <1>10, <1>11, <1>12, <1>13, <1>14, <1>15, <1>16 DEF IndInv, Types

LEMMA ShutdownCheckKeeps == ASSUME IndInv, shutdownCheck PROVE IndInv'
<1>1. CASE Counted = {} /\ \A s \in map : ~alive[s]
  BY <1>1, ExitsKeeps DEF shutdownCheck
<1>2. CASE ~(Counted = {} /\ \A s \in map : ~alive[s])
  <2>1. /\ service' = "serving" /\ Welcomed({c \in Client : conn[c] = "counted"})
        /\ UNCHANGED <<opened, map, filled, dropping, freed, alive, scrollback, subscribers,
                       dispatch,
                       threads, requests, wire, early, pane, opens, closed>>
    BY <1>2 DEF shutdownCheck, Resumes, history
  <2>2. /\ conn' \in [Client -> ConnStates]
        /\ \A d \in Client : conn[d] \in {"up", "left"} => conn'[d] = conn[d]
    BY <2>1, ConnIs DEF Welcomed, ConnStates
  <2> QED BY <2>1, <2>2, ConnKeeps
<1> QED BY <1>1, <1>2

----------------------------------------------------------------------------
(* The client in the app. *)

(* A pane that was given a new record.                                     *)
Sound(r) ==
  /\ r.at \in {"asked", "answered", "shown", "closed", "failed", "lost"}
  /\ r.at \in {"asked", "answered", "shown"} => Call(r) /\ r.c \in Client /\ conn[r.c] = "up"
  /\ r.at \notin {"asked", "answered", "shown"} => r.c = None
  /\ r.at \in {"answered", "shown", "lost"} => r.s \in Known
PanesMove == DOMAIN pane' = Pane /\ \A q \in Pane : pane'[q] = pane[q] \/ Sound(pane'[q])
EarlyMoves ==
  /\ DOMAIN early' = Client /\ \A c \in Client : DOMAIN early'[c] = Session
  /\ \A c \in Client : Cardinality({s \in Session : early'[c][s] # <<>>}) <= MAX_EARLY_SESSIONS

(* The app does what it likes with its panes, its buffers and the frames   *)
(* that came, and asks.                                                    *)
LEMMA AppKeeps ==
  ASSUME IndInv, UNCHANGED <<daemon, threads, closed, conn>>, PanesMove, EarlyMoves,
         requests' \in [Client -> Seq(Request)], DispatchInv', RequestInv', CountInv',
         opens' \in 0 .. MaxOpens,
         wire' \in [Client -> Seq(Message)], \A c \in Client : Len(wire'[c]) <= WRITER_QUEUE,
         \A c \in Client : \A i \in 1 .. Len(wire'[c]) :
           \E j \in 1 .. Len(wire[c]) : wire'[c][i] = wire[c][j]
  PROVE  IndInv'
<1> USE DispatchFacts
<1>0. UNCHANGED <<service, opened, map, filled, dropping, freed, alive, scrollback, subscribers, dispatch>>
  BY DEF daemon
<1>1. (Quit => Quit') /\ service' \in {"serving", "asked", "resting", "down"}
  BY <1>0 DEF Quit, DaemonTypes
<1>2. DaemonTypes' /\ ThreadTypes' /\ ShellInv' /\ SpawnInv' /\ Grows /\ Known' = Known
  BY <1>0, <1>1, SessionsSame
<1>3. WireInv'
  BY <1>2, WireStays
<1>4. PaneInv'
  <2> SUFFICES ASSUME NEW q \in Pane
               PROVE  /\ pane'[q].at \in {"asked", "answered", "shown"} =>
                           Call(pane'[q]) /\ pane'[q].c \in Client /\ conn'[pane'[q].c] = "up"
                      /\ pane'[q].at \notin {"asked", "answered", "shown"} => pane'[q].c = None
                      /\ pane'[q].at \in {"answered", "shown", "lost"} => pane'[q].s \in Known'
    BY DEF PaneInv, Call
  <2>1. CASE pane'[q] = pane[q]
    BY <1>2, <2>1 DEF PaneInv
  <2>2. CASE Sound(pane'[q])
    BY <1>2, <2>2 DEF Sound
  <2> QED BY <2>1, <2>2 DEF PanesMove
<1>5. AppTypes'
  <2>1. \A q \in Pane : pane'[q].at \in {"new", "asked", "answered", "shown", "closed", "failed", "lost"}
    BY DEF PanesMove, Sound, IndInv, Types, AppTypes
  <2> QED BY <2>1 DEF AppTypes, PanesMove, EarlyMoves
<1>6. WireTypes'
  BY DEF WireTypes
<1> QED BY <1>2, <1>3, <1>4, <1>5, <1>6 DEF IndInv, Types, LinkInv

LEMMA PanesStayOld ==
  ASSUME PanesMove
  PROVE  \A q \in Pane : pane[q].at # "new" => pane'[q].at # "new"
BY DEF PanesMove, Sound

(* Nothing is asked.                                                       *)
LEMMA HearsKeeps ==
  ASSUME IndInv, UNCHANGED <<daemon, threads, closed, conn, requests, opens>>, PanesMove,
         EarlyMoves,
         wire' \in [Client -> Seq(Message)], \A c \in Client : Len(wire'[c]) <= WRITER_QUEUE,
         \A c \in Client : \A i \in 1 .. Len(wire'[c]) :
           \E j \in 1 .. Len(wire[c]) : wire'[c][i] = wire[c][j]
  PROVE  IndInv'
<1> USE DispatchFacts
<1>1. UNCHANGED <<opened, map, filled, dispatch>> /\ Grows
  BY DEF daemon, DaemonTypes, Grows
<1>2. DispatchInv'
  BY <1>1, DispatchStays
<1>3. RequestInv'
  BY <1>1, RequestStays
<1>4. CountInv'
  BY <1>1, PanesStayOld, CountStays
<1>5. opens' \in 0 .. MaxOpens
  BY DEF IndInv, Types, AppTypes
<1> QED BY <1>2, <1>3, <1>4, <1>5, AppKeeps

(* A frame is taken from the wire.                                         *)
LEMMA FrameTaken ==
  ASSUME IndInv, NEW c \in Client, wire[c] # <<>>, Received(c)
  PROVE  /\ wire' \in [Client -> Seq(Message)] /\ \A d \in Client : Len(wire'[d]) <= WRITER_QUEUE
         /\ \A d \in Client :
              \A i \in 1 .. Len(wire'[d]) : \E j \in 1 .. Len(wire[d]) : wire'[d][i] = wire[d][j]
         /\ Head(wire[c]) \in Message /\ (Opens(Head(wire[c])) => Head(wire[c]).s \in Known)
<1>1. /\ wire \in [Client -> Seq(Message)] /\ \A d \in Client : Len(wire[d]) <= WRITER_QUEUE
      /\ wire[c] \in Seq(Message)
  BY WireFacts
<1>2. /\ Tail(wire[c]) \in Seq(Message) /\ Len(Tail(wire[c])) = Len(wire[c]) - 1
      /\ Len(wire[c]) \in Nat /\ 1 \in 1 .. Len(wire[c]) /\ Head(wire[c]) = wire[c][1]
      /\ \A i \in 1 .. Len(wire[c]) - 1 :
           i + 1 \in 1 .. Len(wire[c]) /\ Tail(wire[c])[i] = wire[c][i + 1]
  BY <1>1
<1>3. /\ wire' \in [Client -> Seq(Message)] /\ wire'[c] = Tail(wire[c])
      /\ \A d \in Client : d # c => wire'[d] = wire[d]
  BY <1>1, <1>2 DEF Received
<1>4. ASSUME NEW d \in Client PROVE Len(wire'[d]) <= WRITER_QUEUE
  <2>1. CASE d = c
    <3>1. Len(wire'[c]) = Len(wire[c]) - 1 /\ Len(wire[c]) <= WRITER_QUEUE
      BY <1>1, <1>2, <1>3
    <3> QED BY <1>2, <2>1, <3>1, PtyDaemonAssumption
  <2>2. CASE d # c
    BY <1>1, <1>3, <2>2
  <2> QED BY <2>1, <2>2
<1>5. ASSUME NEW d \in Client, NEW i \in 1 .. Len(wire'[d])
      PROVE  \E j \in 1 .. Len(wire[d]) : wire'[d][i] = wire[d][j]
  <2>1. CASE d = c
    <3>1. i + 1 \in 1 .. Len(wire[c]) /\ wire'[c][i] = wire[c][i + 1]
      BY <1>2, <1>3, <2>1
    <3> QED BY <2>1, <3>1
  <2>2. CASE d # c
    BY <1>3, <2>2
  <2> QED BY <2>1, <2>2
<1>6. Head(wire[c]) \in Message /\ (Opens(Head(wire[c])) => Head(wire[c]).s \in Known)
  BY <1>1, <1>2, DispatchFacts DEF WireInv
<1> QED BY <1>3, <1>4, <1>5, <1>6

(* Less is buffered.                                                       *)
LEMMA EarlyShrinks ==
  ASSUME IndInv, DOMAIN early' = Client, \A c \in Client : DOMAIN early'[c] = Session,
         \A c \in Client : \A s \in Session : early'[c][s] # <<>> => early[c][s] # <<>>
  PROVE  EarlyMoves
<1>1. ASSUME NEW c \in Client
      PROVE  Cardinality({s \in Session : early'[c][s] # <<>>}) <= MAX_EARLY_SESSIONS
  <2> DEFINE A == {s \in Session : early[c][s] # <<>>}
             B == {s \in Session : early'[c][s] # <<>>}
  <2>1. A \subseteq Session /\ B \subseteq A
    OBVIOUS
  <2>2. Cardinality(A) <= MAX_EARLY_SESSIONS
    BY DEF IndInv, Types, AppTypes
  <2> HIDE DEF A, B
  <2>3. IsFiniteSet(A) /\ Cardinality(A) \in Nat
    BY <2>1, SessionsFinite, FS_Subset, FS_CardinalityType
  <2>4. Cardinality(B) <= Cardinality(A) /\ Cardinality(B) \in Nat
    BY <2>1, <2>3, FS_Subset, FS_CardinalityType
  <2>5. Cardinality(B) <= MAX_EARLY_SESSIONS
    BY <2>2, <2>3, <2>4, PtyDaemonAssumption
  <2> QED BY <2>5 DEF B
<1> QED BY <1>1 DEF EarlyMoves

(* buffer_early keeps to the limit of sessions.                            *)
LEMMA EarlyBuffers ==
  ASSUME IndInv, NEW c \in Client, NEW s \in Session, NEW event,
         buffer_early(c, s, event)
  PROVE  EarlyMoves
<1> DEFINE A == {t \in Session : early[c][t] # <<>>}
           B == {t \in Session : early'[c][t] # <<>>}
           b == early'[c][s]
<1>0. /\ DOMAIN early = Client /\ \A d \in Client : DOMAIN early[d] = Session
      /\ \A d \in Client : Cardinality({t \in Session : early[d][t] # <<>>}) <= MAX_EARLY_SESSIONS
  BY DEF IndInv, Types, AppTypes
<1>1. s \notin A /\ ~(Cardinality(A) < MAX_EARLY_SESSIONS) => early' = early
  BY DEF buffer_early, earlyRoom
<1>2. /\ DOMAIN early' = Client /\ \A d \in Client : DOMAIN early'[d] = Session
      /\ \A d \in Client : d # c => early'[d] = early[d]
      /\ early'[c][s] = b /\ \A t \in Session : t # s => early'[c][t] = early[c][t]
  <2>1. early' = early \/ early' = [early EXCEPT ![c][s] = @ \o event]
    BY DEF buffer_early
  <2> QED BY <1>0, <2>1
<1>3. IsFiniteSet(A) /\ Cardinality(A) \in Nat
  <2>1. A \subseteq Session
    OBVIOUS
  <2> HIDE DEF A
  <2> QED BY <2>1, SessionsFinite, FS_Subset, FS_CardinalityType
<1>4. Cardinality(A) <= MAX_EARLY_SESSIONS
  BY <1>0
<1>5. B \subseteq A \cup {s} /\ (s \in B /\ s \notin A => Cardinality(A) < MAX_EARLY_SESSIONS)
  BY <1>1, <1>2, <1>3, PtyDaemonAssumption
<1>6. Cardinality(B) <= MAX_EARLY_SESSIONS
  <2> HIDE DEF A, B
  <2>1. CASE s \in B /\ s \notin A
    <3>1. IsFiniteSet(A \cup {s}) /\ Cardinality(A \cup {s}) = Cardinality(A) + 1
      BY <1>3, <2>1, FS_AddElement
    <3>2. Cardinality(B) <= Cardinality(A \cup {s}) /\ Cardinality(B) \in Nat
      BY <1>5, <3>1, FS_Subset, FS_CardinalityType
    <3> QED BY <1>3, <1>5, <2>1, <3>1, <3>2, PtyDaemonAssumption
  <2>2. CASE s \notin B \/ s \in A
    <3>1. B \subseteq A
      BY <1>5, <2>2
    <3>2. Cardinality(B) <= Cardinality(A) /\ Cardinality(B) \in Nat
      BY <1>3, <3>1, FS_Subset, FS_CardinalityType
    <3> QED BY <1>3, <1>4, <3>2, PtyDaemonAssumption
  <2> QED BY <2>1, <2>2
<1>7. ASSUME NEW d \in Client
      PROVE  Cardinality({t \in Session : early'[d][t] # <<>>}) <= MAX_EARLY_SESSIONS
  <2>1. CASE d = c
    BY <1>6, <2>1
  <2>2. CASE d # c
    <3>1. {t \in Session : early'[d][t] # <<>>} = {t \in Session : early[d][t] # <<>>}
      BY <1>2, <2>2
    <3> QED BY <1>0, <3>1
  <2> QED BY <2>1, <2>2
<1> QED BY <1>2, <1>7 DEF EarlyMoves

LEMMA EarlySame == ASSUME IndInv, UNCHANGED early PROVE EarlyMoves
BY DEF IndInv, Types, AppTypes, EarlyMoves

LEMMA PanesSame == ASSUME IndInv, UNCHANGED pane PROVE PanesMove
BY DEF IndInv, Types, AppTypes, PanesMove

LEMMA RequestTimesOutKeeps == ASSUME IndInv, NEW p \in Pane, requestTimesOut(p) PROVE IndInv'
<1> DEFINE r == [at |-> "failed", c |-> None]
<1>1. /\ pane' = [pane EXCEPT ![p] = r]
      /\ UNCHANGED <<daemon, threads, wires, early, opens, closed>>
  BY DEF requestTimesOut, history
<1>2. Sound(r)
  BY DEF Sound
<1> HIDE DEF r
<1>3. PanesMove
  BY <1>1, <1>2 DEF PanesMove, IndInv, Types, AppTypes
<1>4. EarlyMoves
  BY <1>1, EarlySame
<1> QED BY <1>1, <1>3, <1>4, WireFacts, HearsKeeps DEF wires

LEMMA ReceiveDataKeeps == ASSUME IndInv, NEW c \in Client, receiveData(c) PROVE IndInv'
<1> DEFINE m == Head(wire[c])
<1>1. /\ wire[c] # <<>> /\ m.k = "Data" /\ Received(c)
      /\ \/ UNCHANGED early
         \/ buffer_early(c, m.s, m.chunk)
      /\ UNCHANGED <<daemon, threads, conn, requests, pane, opens, closed>>
  BY DEF receiveData, Incoming, history
<1>2. m \in Message
  BY <1>1, FrameTaken
<1>3. m.s \in Session
  BY <1>1, <1>2 DEF Message
<1> HIDE DEF m
<1>4. EarlyMoves
  BY <1>1, <1>3, EarlySame, EarlyBuffers
<1> QED BY <1>1, <1>4, PanesSame, FrameTaken, HearsKeeps

LEMMA ReceiveExitKeeps == ASSUME IndInv, NEW c \in Client, receiveExit(c) PROVE IndInv'
<1> DEFINE m == Head(wire[c])
<1>1. /\ wire[c] # <<>> /\ m.k = "Exit" /\ Received(c)
      /\ \/ early' = [early EXCEPT ![c][m.s] = <<>>]
         \/ buffer_early(c, m.s, <<Exit>>)
      /\ UNCHANGED <<daemon, threads, conn, requests, pane, opens, closed>>
  BY DEF receiveExit, Incoming, history
<1>2. m \in Message
  BY <1>1, FrameTaken
<1>3. m.s \in Session
  BY <1>1, <1>2 DEF Message
<1> HIDE DEF m
<1>4. EarlyMoves
  <2>1. CASE early' = [early EXCEPT ![c][m.s] = <<>>]
    <3>1. DOMAIN early = Client /\ \A d \in Client : DOMAIN early[d] = Session
      BY DEF IndInv, Types, AppTypes
    <3>2. /\ DOMAIN early' = Client /\ \A d \in Client : DOMAIN early'[d] = Session
          /\ \A d \in Client : \A s \in Session : early'[d][s] # <<>> => early[d][s] # <<>>
      BY <2>1, <3>1
    <3> QED BY <3>2, EarlyShrinks
  <2>2. CASE buffer_early(c, m.s, <<Exit>>)
    BY <1>3, <2>2, EarlyBuffers
  <2> QED BY <1>1, <2>1, <2>2
<1> QED BY <1>1, <1>4, PanesSame, FrameTaken, HearsKeeps

LEMMA ReceiveKilledKeeps == ASSUME IndInv, NEW c \in Client, receiveKilled(c) PROVE IndInv'
<1>1. /\ wire[c] # <<>> /\ Received(c) /\ early' = [early EXCEPT ![c] = [s \in Session |-> <<>>]]
      /\ UNCHANGED <<daemon, threads, conn, requests, pane, opens, closed>>
  BY DEF receiveKilled, Incoming, history
<1>2. EarlyMoves
  <2>1. DOMAIN early = Client /\ \A d \in Client : DOMAIN early[d] = Session
    BY DEF IndInv, Types, AppTypes
  <2>2. /\ DOMAIN early' = Client /\ \A d \in Client : DOMAIN early'[d] = Session
        /\ \A d \in Client : \A s \in Session : early'[d][s] # <<>> => early[d][s] # <<>>
    BY <1>1, <2>1
  <2> QED BY <2>2, EarlyShrinks
<1> QED BY <1>1, <1>2, PanesSame, FrameTaken, HearsKeeps

LEMMA ReceiveReplyKeeps == ASSUME IndInv, NEW c \in Client, receiveReply(c) PROVE IndInv'
<1> DEFINE m == Head(wire[c])
           b == (m.k = "OpenOk" \/ m.alive)
           answered == [pane[m.p] EXCEPT !.at = "answered", !.s = m.s, !.alive = b]
           failed == [at |-> "failed", c |-> None]
<1>1. /\ wire[c] # <<>> /\ m.k \in {"OpenOk", "AttachOk", "Err"} /\ Received(c)
      /\ \/ pane' = pane
         \/ m.k = "Err" /\ pane' = [pane EXCEPT ![m.p] = failed]
         \/ m.k # "Err" /\ pane[m.p].at = "asked" /\ pane' = [pane EXCEPT ![m.p] = answered]
      /\ UNCHANGED <<daemon, threads, conn, requests, early, opens, closed>>
  BY DEF receiveReply, Incoming, history
<1>2. m \in Message /\ (Opens(m) => m.s \in Known)
  BY <1>1, FrameTaken
<1>3. m.p \in Pane
  BY <1>1, <1>2 DEF Message
<1>4. m.k # "Err" => m.s \in Known
  BY <1>1, <1>2 DEF Opens
<1>5. Sound(failed)
  BY DEF Sound
<1> HIDE DEF m, b
<1>6. m.k # "Err" /\ pane[m.p].at = "asked" => Sound(answered)
  <2> SUFFICES ASSUME m.k # "Err", pane[m.p].at = "asked" PROVE Sound(answered)
    OBVIOUS
  <2>1. Call(pane[m.p]) /\ pane[m.p].c \in Client /\ conn[pane[m.p].c] = "up"
    BY <1>3, DispatchFacts DEF PaneInv
  <2>2. PICK r : r = pane[m.p]
    OBVIOUS
  <2>3. answered = [r EXCEPT !.at = "answered", !.s = m.s, !.alive = b]
    BY <2>2
  <2>4. Call(r) /\ r.c \in Client /\ conn[r.c] = "up"
    BY <2>1, <2>2
  <2> HIDE DEF answered
  <2>5. answered = [at |-> "answered", c |-> r.c, s |-> m.s, opener |-> r.opener, seam |-> r.seam, alive |-> b]
    BY <2>3, <2>4 DEF Call
  <2>6. Call(answered) /\ answered.at = "answered" /\ answered.c = r.c /\ answered.s = m.s
    BY <2>5 DEF Call
  <2> QED BY <1>4, <2>4, <2>6 DEF Sound
<1> HIDE DEF answered, failed
<1>7. PanesMove
  BY <1>1, <1>3, <1>5, <1>6 DEF PanesMove, IndInv, Types, AppTypes
<1>8. EarlyMoves
  BY <1>1, EarlySame
<1> QED BY <1>1, <1>7, <1>8, FrameTaken, HearsKeeps

LEMMA RegisterKeeps == ASSUME IndInv, NEW p \in Pane, register(p) PROVE IndInv'
<1> DEFINE n == Len(view[p])
           shown == [pane[p] EXCEPT !.at = "shown", !.seam = n]
<1>1. /\ pane[p].at = "answered" /\ pane' = [pane EXCEPT ![p].at = "shown", ![p].seam = n]
      /\ early' = [early EXCEPT ![pane[p].c][pane[p].s] = <<>>]
      /\ UNCHANGED <<daemon, threads, wires, opens, closed>>
  BY DEF register, history
<1> HIDE DEF n
<1>2. Call(pane[p]) /\ pane[p].c \in Client /\ conn[pane[p].c] = "up" /\ pane[p].s \in Known
  BY <1>1, DispatchFacts DEF PaneInv
<1>3. Sound(shown)
  <2>1. PICK r : r = pane[p]
    OBVIOUS
  <2>2. shown = [r EXCEPT !.at = "shown", !.seam = n]
    BY <2>1
  <2>3. Call(r) /\ r.c \in Client /\ conn[r.c] = "up" /\ r.s \in Known
    BY <1>2, <2>1
  <2> HIDE DEF shown
  <2>4. shown = [at |-> "shown", c |-> r.c, s |-> r.s, opener |-> r.opener, seam |-> n, alive |-> r.alive]
    BY <2>2, <2>3 DEF Call
  <2>5. Call(shown) /\ shown.at = "shown" /\ shown.c = r.c /\ shown.s = r.s
    BY <2>4 DEF Call
  <2> QED BY <2>3, <2>5 DEF Sound
<1>4. DOMAIN pane' = Pane /\ pane'[p] = shown /\ \A q \in Pane : q # p => pane'[q] = pane[q]
  BY <1>1 DEF IndInv, Types, AppTypes
<1> HIDE DEF shown
<1>5. PanesMove
  BY <1>3, <1>4 DEF PanesMove
<1>6. EarlyMoves
  <2>1. DOMAIN early = Client /\ \A d \in Client : DOMAIN early[d] = Session
    BY DEF IndInv, Types, AppTypes
  <2>2. /\ DOMAIN early' = Client /\ \A d \in Client : DOMAIN early'[d] = Session
        /\ \A d \in Client : \A s \in Session : early'[d][s] # <<>> => early[d][s] # <<>>
    BY <1>1, <2>1
  <2> QED BY <2>2, EarlyShrinks
<1> QED BY <1>1, <1>5, <1>6, WireFacts, HearsKeeps DEF wires

(* A request is sent on a connection that is up.                           *)
LEMMA SendFacts ==
  ASSUME IndInv, NEW c \in Client, NEW msg \in Request, Send(c, msg), conn[c] = "up",
         msg.k = "Close" => msg.s \in Known, msg.k = "KillAll" => c = MaxClients,
         UNCHANGED <<opened, map, filled, dispatch, conn>>
  PROVE  /\ requests' \in [Client -> Seq(Request)] /\ DispatchInv' /\ RequestInv'
         /\ \A d \in Client : \A i \in 1 .. Len(requests[d]) :
              i \in 1 .. Len(requests'[d]) /\ requests'[d][i] = requests[d][i]
         /\ \A d \in Client : \A i \in 1 .. Len(requests'[d]) :
              \/ i \in 1 .. Len(requests[d]) /\ requests'[d][i] = requests[d][i]
              \/ d = c /\ i = Len(requests[c]) + 1 /\ requests'[d][i] = msg
<1> USE DispatchFacts
<1>1. requests[c] \in Seq(Request)
  OBVIOUS
<1>2. /\ Append(requests[c], msg) \in Seq(Request)
      /\ Len(Append(requests[c], msg)) = Len(requests[c]) + 1
      /\ Len(requests[c]) \in Nat /\ Append(requests[c], msg)[Len(requests[c]) + 1] = msg
      /\ \A i \in 1 .. Len(requests[c]) : Append(requests[c], msg)[i] = requests[c][i]
  BY <1>1
<1>3. /\ requests' \in [Client -> Seq(Request)] /\ requests'[c] = Append(requests[c], msg)
      /\ \A d \in Client : d # c => requests'[d] = requests[d]
  BY <1>2 DEF Send
<1>4. ASSUME NEW d \in Client, NEW i \in 1 .. Len(requests[d])
      PROVE  i \in 1 .. Len(requests'[d]) /\ requests'[d][i] = requests[d][i]
  <2>1. CASE d = c
    <3>1. requests'[d] = Append(requests[c], msg) /\ i \in 1 .. Len(requests[c])
      BY <1>3, <2>1
    <3>2. i \in 1 .. Len(requests'[d])
      BY <1>2, <3>1
    <3>3. requests'[d][i] = requests[c][i]
      BY <1>2, <3>1
    <3> QED BY <2>1, <3>2, <3>3
  <2>2. CASE d # c
    BY <1>3, <2>2
  <2> QED BY <2>1, <2>2
<1>5. ASSUME NEW d \in Client, NEW i \in 1 .. Len(requests'[d])
      PROVE  \/ i \in 1 .. Len(requests[d]) /\ requests'[d][i] = requests[d][i]
             \/ d = c /\ i = Len(requests[c]) + 1 /\ requests'[d][i] = msg
  <2>1. CASE d = c
    <3>1. i \in 1 .. Len(requests[c]) \/ i = Len(requests[c]) + 1
      BY <1>2, <1>3, <2>1
    <3>2. requests'[d] = Append(requests[c], msg)
      BY <1>3, <2>1
    <3>3. CASE i \in 1 .. Len(requests[c])
      BY <1>2, <2>1, <3>2, <3>3
    <3>4. CASE i = Len(requests[c]) + 1
      BY <1>2, <2>1, <3>2, <3>4
    <3> QED BY <3>1, <3>3, <3>4
  <2>2. CASE d # c
    BY <1>3, <2>2
  <2> QED BY <2>1, <2>2
<1>6. Grows /\ Known' = Known
  BY DEF Grows, DaemonTypes, Known
<1>7. DispatchInv'
  <2>1. \A d \in Client : requests[d] # <<>> => requests'[d] # <<>>
    <3> SUFFICES ASSUME NEW d \in Client, requests[d] # <<>> PROVE requests'[d] # <<>>
      OBVIOUS
    <3>1. requests[d] \in Seq(Request)
      OBVIOUS
    <3>2. 1 \in 1 .. Len(requests[d])
      BY <3>1
    <3>3. 1 \in 1 .. Len(requests'[d])
      BY <1>4, <3>2
    <3> QED BY <3>3
  <2> QED BY <1>6, <2>1, DispatchStays
<1>8. RequestInv'
  <2> SUFFICES ASSUME NEW d \in Client
               PROVE  /\ requests'[d] # <<>> => conn'[d] \in {"up", "left"}
                      /\ \A i \in 1 .. Len(requests'[d]) :
                           /\ requests'[d][i].k = "Close" => requests'[d][i].s \in Known'
                           /\ requests'[d][i].k = "KillAll" => d = MaxClients /\ conn'[d] = "up"
    BY DEF RequestInv
  <2>1. requests'[d] # <<>> => conn'[d] \in {"up", "left"}
    BY <1>3 DEF RequestInv
  <2>2. ASSUME NEW i \in 1 .. Len(requests'[d])
        PROVE  /\ requests'[d][i].k = "Close" => requests'[d][i].s \in Known'
               /\ requests'[d][i].k = "KillAll" => d = MaxClients /\ conn'[d] = "up"
    <3>1. CASE i \in 1 .. Len(requests[d]) /\ requests'[d][i] = requests[d][i]
      BY <1>6, <3>1 DEF RequestInv
    <3>2. CASE d = c /\ requests'[d][i] = msg
      BY <1>6, <3>2
    <3> QED BY <1>5, <3>1, <3>2
  <2> QED BY <2>1, <2>2
<1> QED BY <1>3, <1>4, <1>5, <1>7, <1>8

(* What is sent is no Open: no more of them wait.                          *)
LEMMA SendNoOpen ==
  ASSUME IndInv, NEW c \in Client, NEW msg \in Request, Send(c, msg), conn[c] = "up",
         msg.k # "Open",
         msg.k = "Close" => msg.s \in Known, msg.k = "KillAll" => c = MaxClients,
         UNCHANGED <<opened, map, filled, dispatch, conn, opens>>,
         \A q \in Pane : pane[q].at # "new" => pane'[q].at # "new"
  PROVE  CountInv'
<1> USE DispatchFacts
<1>1. \A d \in Client : \A i \in 1 .. Len(requests'[d]) :
        \/ i \in 1 .. Len(requests[d]) /\ requests'[d][i] = requests[d][i]
        \/ requests'[d][i].k # "Open"
  BY SendFacts
<1>2. \A p, d, i : d \in Client /\ i \in 1 .. Len(requests'[d]) /\ IsOpen(d, i, p)'
        => i \in 1 .. Len(requests[d]) /\ IsOpen(d, i, p)
  BY <1>1 DEF IsOpen
<1>3. OpenOnce'
  <2> SUFFICES ASSUME NEW p \in Pane, NEW d \in Client, NEW i \in 1 .. Len(requests'[d]),
                      IsOpen(d, i, p)'
               PROVE  /\ pane'[p].at # "new"
                      /\ \A e \in Client : \A j \in 1 .. Len(requests'[e]) : IsOpen(e, j, p)' =>
                           d = e /\ i = j
    BY DEF OpenOnce
  <2>1. i \in 1 .. Len(requests[d]) /\ IsOpen(d, i, p)
    BY <1>2
  <2>2. pane[p].at # "new"
    BY <2>1 DEF CountInv, OpenOnce
  <2>3. ASSUME NEW e \in Client, NEW j \in 1 .. Len(requests'[e]), IsOpen(e, j, p)'
        PROVE  d = e /\ i = j
    <3>1. j \in 1 .. Len(requests[e]) /\ IsOpen(e, j, p)
      BY <1>2, <2>3
    <3> QED BY <2>1, <3>1 DEF CountInv, OpenOnce
  <2> QED BY <2>2, <2>3
<1>4. Waiting' \subseteq Waiting
  <2> SUFFICES ASSUME NEW p \in Waiting' PROVE p \in Waiting
    OBVIOUS
  <2>1. p \in Pane /\ \E d \in Client : \E i \in 1 .. Len(requests'[d]) :
          IsOpen(d, i, p)' /\ (i > 1 \/ dispatch'[d].at = "idle")
    BY DEF Waiting
  <2>2. PICK d \in Client : \E i \in 1 .. Len(requests'[d]) :
          IsOpen(d, i, p)' /\ (i > 1 \/ dispatch'[d].at = "idle")
    BY <2>1
  <2>3. PICK i \in 1 .. Len(requests'[d]) :
          IsOpen(d, i, p)' /\ (i > 1 \/ dispatch'[d].at = "idle")
    BY <2>2
  <2>4. i \in 1 .. Len(requests[d]) /\ IsOpen(d, i, p)
    BY <1>2, <2>3
  <2> QED BY <2>1, <2>3, <2>4 DEF Waiting
<1> QED BY <1>3, <1>4, CountLess

(* A pane asks, and what it was is gone.                                   *)
LEMMA AsksKeeps ==
  ASSUME IndInv, NEW c \in Client, NEW msg \in Request, Send(c, msg), conn[c] = "up",
         msg.k # "Open",
         msg.k = "Close" => msg.s \in Known, msg.k = "KillAll" => c = MaxClients,
         UNCHANGED <<daemon, threads, conn, wire, opens, closed>>, PanesMove, EarlyMoves
  PROVE  IndInv'
<1>1. UNCHANGED <<opened, map, filled, dispatch>>
  BY DEF daemon
<1>2. requests' \in [Client -> Seq(Request)] /\ DispatchInv' /\ RequestInv'
  BY <1>1, SendFacts
<1>3. CountInv'
  BY <1>1, PanesStayOld, SendNoOpen
<1>4. opens' \in 0 .. MaxOpens
  BY DEF IndInv, Types, AppTypes
<1> QED BY <1>2, <1>3, <1>4, WireFacts, AppKeeps

LEMMA PtyOpenKeeps == ASSUME IndInv, NEW p \in Pane, NEW c \in Client, pty_open(p, c) PROVE IndInv'
<1> USE DispatchFacts
<1> DEFINE r == [at |-> "asked", c |-> c, s |-> None, opener |-> TRUE, seam |-> 0, alive |-> FALSE]
           msg == [k |-> "Open", p |-> p]
<1>1. /\ pane[p].at = "new" /\ conn[c] = "up" /\ opens < MaxOpens /\ opens' = opens + 1
      /\ pane' = [pane EXCEPT ![p] = r] /\ Send(c, msg)
      /\ UNCHANGED <<daemon, threads, conn, wire, early, closed>>
  BY DEF pty_open, New, history
<1>2. UNCHANGED <<opened, map, filled, dispatch>>
  BY <1>1 DEF daemon
<1>3. Sound(r)
  BY <1>1 DEF Sound, Call
<1> HIDE DEF r
<1>4. PanesMove
  BY <1>1, <1>3 DEF PanesMove, IndInv, Types, AppTypes
<1>5. EarlyMoves
  BY <1>1, EarlySame
<1>6. msg \in Request /\ msg.k = "Open" /\ msg.p = p
  BY DEF Request
<1> HIDE DEF msg
<1>7. /\ requests' \in [Client -> Seq(Request)] /\ DispatchInv' /\ RequestInv'
      /\ \A d \in Client : \A i \in 1 .. Len(requests'[d]) :
              \/ i \in 1 .. Len(requests[d]) /\ requests'[d][i] = requests[d][i]
              \/ d = c /\ i = Len(requests[c]) + 1 /\ requests'[d][i] = msg
  BY <1>1, <1>2, <1>6, SendFacts
<1>8. \A q, d, i : d \in Client /\ i \in 1 .. Len(requests'[d]) /\ IsOpen(d, i, q)'
        => \/ i \in 1 .. Len(requests[d]) /\ IsOpen(d, i, q)
           \/ q = p /\ d = c /\ i = Len(requests[c]) + 1
  BY <1>6, <1>7 DEF IsOpen
<1>9. \A d \in Client : \A i \in 1 .. Len(requests[d]) : ~IsOpen(d, i, p)
  BY <1>1 DEF CountInv, OpenOnce
<1>10. OpenOnce'
  <2> SUFFICES ASSUME NEW q \in Pane, NEW d \in Client, NEW i \in 1 .. Len(requests'[d]),
                      IsOpen(d, i, q)'
               PROVE  /\ pane'[q].at # "new"
                      /\ \A e \in Client : \A j \in 1 .. Len(requests'[e]) : IsOpen(e, j, q)' =>
                           d = e /\ i = j
    BY DEF OpenOnce
  <2>1. CASE q = p
    <3>1. pane'[p].at # "new"
      BY <1>1, <1>3 DEF Sound, IndInv, Types, AppTypes
    <3>2. ASSUME NEW e \in Client, NEW j \in 1 .. Len(requests'[e]), IsOpen(e, j, p)'
          PROVE  e = c /\ j = Len(requests[c]) + 1
      <4>1. ~(j \in 1 .. Len(requests[e]) /\ IsOpen(e, j, p))
        BY <1>9
      <4>2. \/ j \in 1 .. Len(requests[e]) /\ IsOpen(e, j, p)
            \/ p = p /\ e = c /\ j = Len(requests[c]) + 1
        BY ONLY <1>8, <3>2, Zenon
      <4> QED BY <4>1, <4>2
    <3>3. d = c /\ i = Len(requests[c]) + 1
      BY <2>1, <3>2
    <3>4. \A e \in Client : \A j \in 1 .. Len(requests'[e]) : IsOpen(e, j, q)' => d = e /\ i = j
      BY <2>1, <3>2, <3>3
    <3> QED BY <2>1, <3>1, <3>4
  <2>2. CASE q # p
    <3>1. i \in 1 .. Len(requests[d]) /\ IsOpen(d, i, q)
      BY <1>8, <2>2
    <3>2. pane[q].at # "new" /\ pane'[q] = pane[q]
      BY <1>1, <2>2, <3>1 DEF CountInv, OpenOnce, IndInv, Types, AppTypes
    <3>3. ASSUME NEW e \in Client, NEW j \in 1 .. Len(requests'[e]), IsOpen(e, j, q)'
          PROVE  d = e /\ i = j
      <4>1. j \in 1 .. Len(requests[e]) /\ IsOpen(e, j, q)
        BY <1>8, <2>2, <3>3
      <4> QED BY <3>1, <4>1 DEF CountInv, OpenOnce
    <3> QED BY <3>2, <3>3
  <2> QED BY <2>1, <2>2
<1>11. Waiting' \subseteq Waiting \cup {p}
  <2> SUFFICES ASSUME NEW q \in Waiting', q # p PROVE q \in Waiting
    OBVIOUS
  <2>1. q \in Pane /\ \E d \in Client : \E i \in 1 .. Len(requests'[d]) :
          IsOpen(d, i, q)' /\ (i > 1 \/ dispatch'[d].at = "idle")
    BY DEF Waiting
  <2>2. PICK d \in Client : \E i \in 1 .. Len(requests'[d]) :
          IsOpen(d, i, q)' /\ (i > 1 \/ dispatch'[d].at = "idle")
    BY <2>1
  <2>3. PICK i \in 1 .. Len(requests'[d]) :
          IsOpen(d, i, q)' /\ (i > 1 \/ dispatch'[d].at = "idle")
    BY <2>2
  <2>4. i \in 1 .. Len(requests[d]) /\ IsOpen(d, i, q)
    BY <1>8, <2>3
  <2> QED BY <1>2, <2>1, <2>3, <2>4 DEF Waiting
<1>12. CountInv'
  <2> DEFINE W == Waiting'
  <2>2. IsFiniteSet(Waiting) /\ Cardinality(Waiting) \in Nat
    BY WaitingFinite
  <2>3. W \subseteq Waiting \cup {p} /\ Cardinality(Waiting)' = Cardinality(W)
    BY <1>11
  <2> HIDE DEF W
  <2>1. /\ IsFiniteSet(Waiting \cup {p})
        /\ Cardinality(Waiting \cup {p}) =
             IF p \in Waiting THEN Cardinality(Waiting) ELSE Cardinality(Waiting) + 1
    BY <2>2, FS_AddElement
  <2>4. /\ IsFiniteSet(Waiting \cup {p}) /\ Cardinality(Waiting \cup {p}) \in Nat
        /\ Cardinality(Waiting \cup {p}) <= Cardinality(Waiting) + 1
    BY <2>1, <2>2
  <2>5. Cardinality(W) \in Nat /\ Cardinality(W) <= Cardinality(Waiting \cup {p})
    BY <2>3, <2>4, FS_Subset, FS_CardinalityType
  <2>6. opened \in Nat /\ opens \in Nat /\ opened + Cardinality(Waiting) <= opens
    BY DEF CountInv, IndInv, Types, DaemonTypes, AppTypes
  <2>7. opened + Cardinality(W) <= opens + 1
    BY <2>2, <2>4, <2>5, <2>6
  <2> QED BY <1>1, <1>2, <1>10, <2>3, <2>7 DEF CountInv
<1>13. opens' \in 0 .. MaxOpens
  BY <1>1, PtyDaemonAssumption DEF IndInv, Types, AppTypes
<1> QED BY <1>1, <1>4, <1>5, <1>7, <1>12, <1>13, WireFacts, AppKeeps

LEMMA PtyAttachKeeps ==
  ASSUME IndInv, NEW p \in Pane, NEW c \in Client, NEW q \in Pane, pty_attach(p, c, q)
  PROVE  IndInv'
<1> DEFINE r == [at |-> "asked", c |-> c, s |-> pane[q].s, opener |-> FALSE, seam |-> 0, alive |-> FALSE]
           msg == [k |-> "Attach", p |-> p, s |-> pane[q].s]
<1>1. /\ conn[c] = "up" /\ pane[q].at \in {"shown", "lost"} /\ pane[p].at = "new"
      /\ \/ pane' = [pane EXCEPT ![p] = r, ![q] = Lost(q)]
         \/ pane' = [pane EXCEPT ![p] = r]
      /\ Send(c, msg)
      /\ UNCHANGED <<daemon, threads, conn, wire, early, opens, closed>>
  BY DEF pty_attach, New, history
<1>2. pane[q].s \in Known
  BY <1>1, DispatchFacts DEF PaneInv
<1>3. Sound(r)
  BY <1>1 DEF Sound, Call
<1>4. Sound(Lost(q))
  BY <1>1, <1>2 DEF Sound, Lost
<1>5. pane[q].s \in Session
  BY <1>2, OpenedInSession DEF Known
<1> HIDE DEF r
<1>6. PanesMove
  <2> DEFINE l == Lost(q)
  <2>1. DOMAIN pane = Pane
    BY DEF IndInv, Types, AppTypes
  <2>2. Sound(l)
    BY <1>4
  <2>3. pane' = [pane EXCEPT ![p] = r, ![q] = l] \/ pane' = [pane EXCEPT ![p] = r]
    BY <1>1
  <2> HIDE DEF l
  <2>4. DOMAIN pane' = Pane /\ \A u \in Pane : pane'[u] = pane[u] \/ pane'[u] = r \/ pane'[u] = l
    BY <2>1, <2>3
  <2>5. ASSUME NEW u \in Pane PROVE pane'[u] = pane[u] \/ Sound(pane'[u])
    <3>1. CASE pane'[u] = r
      BY <1>3, <3>1
    <3>2. CASE pane'[u] = l
      BY <2>2, <3>2
    <3> QED BY <2>4, <3>1, <3>2
  <2> QED BY <2>4, <2>5 DEF PanesMove
<1>7. EarlyMoves
  BY <1>1, EarlySame
<1>8. msg \in Request /\ msg.k = "Attach"
  BY <1>5 DEF Request
<1> HIDE DEF msg
<1> QED BY <1>1, <1>6, <1>7, <1>8, AsksKeeps

LEMMA AdoptKeeps == ASSUME IndInv, NEW c \in Client, adopt(c) PROVE IndInv'
<1>1. /\ conn[c] = "up"
      /\ UNCHANGED <<daemon, threads, conn, wire, early, opens, closed>>
      /\ \E s \in map, p \in Pane :
           /\ pane' = [pane EXCEPT ![p] = [at |-> "asked", c |-> c, s |-> s, opener |-> FALSE, seam |-> 0, alive |-> FALSE]]
           /\ Send(c, [k |-> "Attach", p |-> p, s |-> s])
  BY DEF adopt
<1>2. PICK s \in map, p \in Pane :
           /\ pane' = [pane EXCEPT ![p] = [at |-> "asked", c |-> c, s |-> s, opener |-> FALSE, seam |-> 0, alive |-> FALSE]]
           /\ Send(c, [k |-> "Attach", p |-> p, s |-> s])
  BY <1>1
<1> DEFINE r == [at |-> "asked", c |-> c, s |-> s, opener |-> FALSE, seam |-> 0, alive |-> FALSE]
           msg == [k |-> "Attach", p |-> p, s |-> s]
<1>3. s \in Session
  BY DispatchFacts
<1>4. Sound(r)
  BY <1>1 DEF Sound, Call
<1>5. pane' = [pane EXCEPT ![p] = r] /\ Send(c, msg)
  BY <1>2
<1> HIDE DEF r
<1>6. PanesMove
  BY <1>4, <1>5 DEF PanesMove, IndInv, Types, AppTypes
<1>7. EarlyMoves
  BY <1>1, EarlySame
<1>8. msg \in Request /\ msg.k = "Attach"
  BY <1>3 DEF Request
<1> HIDE DEF msg
<1> QED BY <1>1, <1>5, <1>6, <1>7, <1>8, AsksKeeps

LEMMA PtyCloseKeeps == ASSUME IndInv, NEW p \in Pane, pty_close(p) PROVE IndInv'
<1> DEFINE r == [at |-> "closed", c |-> None]
           c == pane[p].c
           s == pane[p].s
           msg == [k |-> "Close", s |-> s]
<1>1. /\ pane[p].at = "shown" /\ pane' = [pane EXCEPT ![p] = r]
      /\ early' = [early EXCEPT ![c][s] = <<>>] /\ Send(c, msg)
      /\ UNCHANGED <<daemon, threads, conn, wire, opens, closed>>
  BY DEF pty_close, history
<1>2. c \in Client /\ conn[c] = "up" /\ s \in Known
  BY <1>1, DispatchFacts DEF PaneInv
<1>3. s \in Session
  BY <1>2, OpenedInSession DEF Known
<1> HIDE DEF c, s
<1>4. Sound(r)
  BY DEF Sound
<1> HIDE DEF r
<1>5. PanesMove
  BY <1>1, <1>4 DEF PanesMove, IndInv, Types, AppTypes
<1>6. EarlyMoves
  <2>1. DOMAIN early = Client /\ \A d \in Client : DOMAIN early[d] = Session
    BY DEF IndInv, Types, AppTypes
  <2>2. /\ DOMAIN early' = Client /\ \A d \in Client : DOMAIN early'[d] = Session
        /\ \A d \in Client : \A t \in Session : early'[d][t] # <<>> => early[d][t] # <<>>
    BY <1>1, <2>1
  <2> QED BY <2>2, EarlyShrinks
<1>7. msg \in Request /\ msg.k = "Close" /\ msg.s = s
  BY <1>3 DEF Request
<1> HIDE DEF msg
<1> QED BY <1>1, <1>2, <1>5, <1>6, <1>7, AsksKeeps

LEMMA PtyKillAllKeeps == ASSUME IndInv, NEW c \in Client, pty_kill_all(c) PROVE IndInv'
<1> DEFINE r == [at |-> "closed", c |-> None]
           msg == [k |-> "KillAll"]
<1>1. /\ conn[c] = "up" /\ c = MaxClients
      /\ pane' = [q \in Pane |-> IF q \in Of(c) THEN r ELSE pane[q]] /\ Send(c, msg)
      /\ UNCHANGED <<daemon, threads, conn, wire, early, opens, closed>>
  BY DEF pty_kill_all, history
<1>2. Sound(r)
  BY DEF Sound
<1> HIDE DEF r
<1>3. PanesMove
  BY <1>1, <1>2 DEF PanesMove
<1>4. EarlyMoves
  BY <1>1, EarlySame
<1>5. msg \in Request /\ msg.k = "KillAll"
  BY DEF Request
<1> HIDE DEF msg
<1> QED BY <1>1, <1>3, <1>4, <1>5, AsksKeeps

(* The app goes, and its panes with it.                                    *)
LEMMA DisconnectKeeps == ASSUME IndInv, NEW c \in Client, disconnect(c) PROVE IndInv'
<1> USE DispatchFacts
<1>1. /\ conn[c] = "up" /\ c < MaxClients /\ conn' = [conn EXCEPT ![c] = "left"]
      /\ wire' = [wire EXCEPT ![c] = <<>>]
      /\ early' = [early EXCEPT ![c] = [s \in Session |-> <<>>]]
      /\ pane' = [p \in Pane |-> IF p \in Of(c) THEN Lost(p) ELSE pane[p]]
      /\ UNCHANGED <<daemon, threads, requests, opens, closed>>
  BY DEF disconnect, history
<1>2. UNCHANGED <<service, opened, map, filled, dropping, freed, alive, scrollback, subscribers, dispatch>>
  BY <1>1 DEF daemon
<1>3. /\ conn' \in [Client -> ConnStates] /\ conn'[c] = "left"
      /\ \A d \in Client : d # c => conn'[d] = conn[d]
  BY <1>1, ConnIs DEF ConnStates
<1>4. c # MaxClients
  BY <1>1, PtyDaemonAssumption DEF Client
<1>5. (Quit => Quit') /\ service' \in {"serving", "asked", "resting", "down"}
  BY <1>2, <1>3, <1>4 DEF Quit, DaemonTypes
<1>6. DaemonTypes' /\ ThreadTypes' /\ ShellInv' /\ SpawnInv' /\ Grows /\ Known' = Known
  BY <1>1, <1>2, <1>5, SessionsSame
<1>7. /\ wire' \in [Client -> Seq(Message)] /\ wire'[c] = <<>>
      /\ \A d \in Client : d # c => wire'[d] = wire[d]
  BY <1>1 DEF WireTypes
<1>8. WireTypes'
  <2>1. ASSUME NEW d \in Client PROVE Len(wire'[d]) <= WRITER_QUEUE
    <3>1. CASE d = c
      <4>1. Len(wire'[c]) = 0
        BY <1>7
      <4> QED BY <3>1, <4>1, PtyDaemonAssumption
    <3>2. CASE d # c
      BY <1>7, <3>2 DEF WireTypes
    <3> QED BY <3>1, <3>2
  <2> QED BY <1>1, <1>3, <1>7, <2>1 DEF WireTypes, ConnStates
<1>9. DispatchInv'
  BY <1>1, <1>2, <1>6, DispatchStays
<1>10. RequestInv'
  <2>1. \A d \in Client : conn[d] \in {"up", "left"} =>
          conn'[d] \in {"up", "left"} /\ (d = MaxClients /\ conn[d] = "up" => conn'[d] = "up")
    BY <1>3, <1>4
  <2> QED BY <1>1, <1>6, <2>1, RequestStays
<1>11. WireInv'
  <2>1. ASSUME NEW d \in Client, NEW i \in 1 .. Len(wire'[d])
        PROVE  \E j \in 1 .. Len(wire[d]) : wire'[d][i] = wire[d][j]
    <3>1. d # c
      <4>1. Len(wire'[c]) = 0
        BY <1>7
      <4> QED BY <4>1
    <3> QED BY <1>7, <3>1
  <2> QED BY <1>6, <2>1, WireStays
<1>12. \A p \in Pane : \/ pane'[p] = pane[p] /\ pane[p].c # c
                       \/ pane'[p].at \in {"failed", "lost"} /\ pane'[p].c = None
                            /\ (pane'[p].at = "lost" => pane[p].at \in {"shown", "lost"} /\ pane'[p].s = pane[p].s)
  <2> SUFFICES ASSUME NEW p \in Pane
               PROVE  \/ pane'[p] = pane[p] /\ pane[p].c # c
                      \/ pane'[p].at \in {"failed", "lost"} /\ pane'[p].c = None
                           /\ (pane'[p].at = "lost" => pane[p].at \in {"shown", "lost"} /\ pane'[p].s = pane[p].s)
    OBVIOUS
  <2>1. CASE p \in Of(c)
    <3>1. pane'[p] = Lost(p)
      BY <1>1, <2>1
    <3>2. CASE pane[p].at \in {"shown", "lost"}
      <4>1. pane'[p] = [at |-> "lost", c |-> None, s |-> pane[p].s]
        BY <3>1, <3>2 DEF Lost
      <4> QED BY <3>2, <4>1
    <3>3. CASE pane[p].at \notin {"shown", "lost"}
      <4>1. pane'[p] = [at |-> "failed", c |-> None]
        BY <3>1, <3>3 DEF Lost
      <4> QED BY <4>1
    <3> QED BY <3>2, <3>3
  <2>2. CASE p \notin Of(c)
    BY <1>1, <2>2 DEF Of
  <2> QED BY <2>1, <2>2
<1>13. PaneInv'
  <2> SUFFICES ASSUME NEW p \in Pane
               PROVE  /\ pane'[p].at \in {"asked", "answered", "shown"} =>
                           Call(pane'[p]) /\ pane'[p].c \in Client /\ conn'[pane'[p].c] = "up"
                      /\ pane'[p].at \notin {"asked", "answered", "shown"} => pane'[p].c = None
                      /\ pane'[p].at \in {"answered", "shown", "lost"} => pane'[p].s \in Known'
    BY DEF PaneInv, Call
  <2>1. CASE pane'[p] = pane[p] /\ pane[p].c # c
    BY <1>3, <1>6, <2>1 DEF PaneInv
  <2>2. CASE pane'[p].at \in {"failed", "lost"} /\ pane'[p].c = None
               /\ (pane'[p].at = "lost" => pane[p].at \in {"shown", "lost"} /\ pane'[p].s = pane[p].s)
    BY <1>6, <2>2 DEF PaneInv
  <2> QED BY <1>12, <2>1, <2>2
<1>14. \A p \in Pane : /\ pane[p].at # "new" => pane'[p].at # "new"
                       /\ pane'[p].at \in {"new", "asked", "answered", "shown", "closed", "failed", "lost"}
  BY <1>12 DEF IndInv, Types, AppTypes
<1>15. CountInv'
  BY <1>1, <1>2, <1>14, CountStays
<1>16. EarlyMoves
  <2>1. DOMAIN early = Client /\ \A d \in Client : DOMAIN early[d] = Session
    BY DEF IndInv, Types, AppTypes
  <2>2. /\ DOMAIN early' = Client /\ \A d \in Client : DOMAIN early'[d] = Session
        /\ \A d \in Client : \A s \in Session : early'[d][s] # <<>> => early[d][s] # <<>>
    BY <1>1, <2>1
  <2> QED BY <2>2, EarlyShrinks
<1>17. AppTypes'
  <2>1. DOMAIN pane' = Pane /\ opens' \in 0 .. MaxOpens
    BY <1>1 DEF IndInv, Types, AppTypes
  <2> QED BY <1>14, <1>16, <2>1 DEF AppTypes, EarlyMoves
<1> QED BY <1>6, <1>8, <1>9, <1>10, <1>11, <1>13, <1>15, <1>17 DEF IndInv, Types, LinkInv

----------------------------------------------------------------------------
(* The app and what it has of the daemon's sessions. *)

(* One sequence of chunks after another. *)
LEMMA Joins ==
  ASSUME NEW a \in Seq(Nat), NEW b \in Seq(Nat)
  PROVE  /\ a \o b \in Seq(Nat) /\ Len(a \o b) = Len(a) + Len(b)
         /\ \A i \in 1 .. Len(a) : (a \o b)[i] = a[i]
         /\ \A i \in 1 .. Len(b) : (a \o b)[Len(a) + i] = b[i]
         /\ \A i \in 1 .. Len(a) + Len(b) : i <= Len(a) \/ i - Len(a) \in 1 .. Len(b)
         /\ ToSet(a \o b) = ToSet(a) \cup ToSet(b)
<1>1. /\ a \o b \in Seq(Nat) /\ Len(a \o b) = Len(a) + Len(b)
      /\ \A i \in 1 .. Len(a) : (a \o b)[i] = a[i]
      /\ \A i \in 1 .. Len(b) : (a \o b)[Len(a) + i] = b[i]
      /\ \A i \in 1 .. Len(a) + Len(b) : i <= Len(a) \/ i - Len(a) \in 1 .. Len(b)
  OBVIOUS
<1> DEFINE c == a \o b
<1>2. DOMAIN c = 1 .. Len(a) + Len(b) /\ DOMAIN a = 1 .. Len(a) /\ DOMAIN b = 1 .. Len(b)
  BY <1>1
<1>3. Len(a) \in Nat /\ Len(b) \in Nat
  OBVIOUS
<1> HIDE DEF c
<1>4. ASSUME NEW x \in ToSet(c) PROVE x \in ToSet(a) \cup ToSet(b)
  <2>1. PICK i \in DOMAIN c : x = c[i]
    BY DEF ToSet
  <2>2. CASE i <= Len(a)
    BY <1>1, <1>2, <1>3, <2>1, <2>2 DEF ToSet, c
  <2>3. CASE i - Len(a) \in 1 .. Len(b)
    <3>1. x = b[i - Len(a)]
      <4>1. c[Len(a) + (i - Len(a))] = b[i - Len(a)]
        BY <1>1, <2>3 DEF c
      <4>2. Len(a) + (i - Len(a)) = i
        BY <1>2, <1>3, <2>1
      <4> QED BY <2>1, <4>1, <4>2
    <3> QED BY <1>2, <2>3, <3>1 DEF ToSet
  <2> QED BY <1>1, <1>2, <2>1, <2>2, <2>3
<1>5. ASSUME NEW x \in ToSet(a) PROVE x \in ToSet(c)
  <2>1. PICK i \in 1 .. Len(a) : x = a[i]
    BY <1>2 DEF ToSet
  <2>2. c[i] = x /\ i \in DOMAIN c
    BY <1>1, <1>2, <1>3, <2>1 DEF c
  <2> QED BY <2>2 DEF ToSet
<1>6. ASSUME NEW x \in ToSet(b) PROVE x \in ToSet(c)
  <2>1. PICK i \in 1 .. Len(b) : x = b[i]
    BY <1>2 DEF ToSet
  <2>2. c[Len(a) + i] = x /\ Len(a) + i \in DOMAIN c
    BY <1>1, <1>2, <1>3, <2>1 DEF c
  <2> QED BY <2>2 DEF ToSet
<1>7. ToSet(c) = ToSet(a) \cup ToSet(b)
  BY <1>4, <1>5, <1>6
<1> QED BY <1>1, <1>7 DEF c

Rising(q) == \A i, j \in DOMAIN q : i < j => q[i] < q[j]
ToldRising(q, X) == \A i, j \in Told(q, X) : i < j => q[i] < q[j]

(* The types of the app's variables.                                       *)
AppKinds ==
  /\ view \in [Pane -> Seq(Nat)]
  /\ channels \in [Client -> [Session -> Pane \cup {None}]]
  /\ early \in [Client -> [Session -> Seq(Nat)]]
  /\ DOMAIN known = Client /\ DOMAIN excused = Session /\ quitting \subseteq Client
  /\ \A p \in Pane : pane[p].at \in {"asked", "answered", "shown"} =>
       /\ pane[p].opener \in BOOLEAN /\ pane[p].seam \in 0 .. Len(view[p])
       /\ pane[p].at = "asked" => /\ pane[p].seam = 0
                                  /\ IF pane[p].opener THEN pane[p].s = None ELSE pane[p].s \in 1 .. opened

(* One app at a time; one that is away has no frame, no route, no buffer.  *)
ConnOrder ==
  \A c \in Client : conn[c] # "off" => \A d \in Client : d < c => conn[d] \in {"left", "gone"}
AwayInv ==
  \A c \in Client : conn[c] # "up" =>
    wire[c] = <<>> /\ \A s \in Session : early[c][s] = <<>> /\ channels[c][s] = None

(* A route leads to the pane that shows the session, or did.               *)
RouteInv ==
  \A c \in Client, s \in Session : channels[c][s] # None =>
    LET q == channels[c][s]
    IN  /\ s <= opened /\ early[c][s] = <<>>
        /\ pane[q].at \in {"shown", "lost", "closed"}
        /\ pane[q].at = "shown" => pane[q].c = c /\ pane[q].s = s
        /\ pane[q].at = "lost" => pane[q].s = s
        /\ pane[q].at = "closed" => c \in quitting
KnownInv == \A p \in Pane : pane[p].at = "shown" => pane[p].s \in known[pane[p].c]
QuitInv == \A c \in quitting : \A p \in Pane : pane[p].c # c

(* What is asked and answered is meant for the pane that calls, until the  *)
(* pane stops waiting.                                                     *)
Calls(p, c, opener) ==
  p \in Pane /\ pane[p].at # "new" /\ (pane[p].at = "asked" => pane[p].c = c /\ pane[p].opener = opener)
Attaches(p, c, s) == Calls(p, c, FALSE) /\ (pane[p].at = "asked" => pane[p].s = s)
Asked(c, r) ==
  /\ r.k = "Open" => Calls(r.p, c, TRUE)
  /\ r.k = "Attach" => Attaches(r.p, c, r.s)
Fits(c, m) ==
  /\ m.k = "OpenOk" => Calls(m.p, c, TRUE)
  /\ m.k = "AttachOk" => Attaches(m.p, c, m.s)
Works(c, d) ==
  /\ d.at \in {"spawn", "fill"} => Calls(d.p, c, TRUE)
  /\ d.at = "copied" => Attaches(d.p, c, d.s)
  /\ d.at = "reply" => Fits(c, d.msg)
AskInv ==
  \A c \in Client :
    /\ Works(c, dispatch[c])
    /\ \A i \in 1 .. Len(requests[c]) : Asked(c, requests[c][i])
    /\ \A i \in 1 .. Len(wire[c]) : Fits(c, wire[c][i])

AppInv == AppKinds /\ ConnOrder /\ AwayInv /\ RouteInv /\ KnownInv /\ QuitInv /\ AskInv

(* Where the opening of a session is, on its way to the pane.              *)
OpenAt(c, i, s) ==
  \/ i = 0 /\ dispatch[c].at \in {"spawn", "fill"} /\ dispatch[c].s = s
  \/ i = 0 /\ dispatch[c].at = "reply" /\ dispatch[c].msg.k = "OpenOk" /\ dispatch[c].msg.s = s
  \/ i \in 1 .. Len(wire[c]) /\ wire[c][i].k = "OpenOk" /\ wire[c][i].s = s
Has(q, s) == pane[q].at \in {"asked", "answered", "shown", "lost"} /\ pane[q].s = s

(* Until it has arrived there, no pane has the session; then, unless it is *)
(* stolen, no other pane.                                                  *)
OpenInv ==
  \A c \in Client : conn[c] = "up" => \A s \in Session : \A i \in Nat : OpenAt(c, i, s) =>
    /\ s <= opened /\ channels[c][s] = None
    /\ \A j \in Nat : OpenAt(c, j, s) => i = j
    /\ \A q \in Pane : ~Has(q, s)
HolderInv ==
  \A p \in Pane : pane[p].at \in {"answered", "shown"} /\ pane[p].opener /\ pane[p].s \notin stolen =>
    \A q \in Pane : q # p => ~Has(q, pane[p].s)
OwnInv == OpenInv /\ HolderInv

----------------------------------------------------------------------------
(* A pane only asks once. *)
PanesGo ==
  \A p \in Pane : \/ pane'[p] = pane[p]
                  \/ pane'[p].at # "new" /\ (pane'[p].at = "asked" => pane[p].at = "new")

LEMMA CallsGo ==
  ASSUME PanesGo, NEW p, NEW c, NEW o, Calls(p, c, o)
  PROVE  Calls(p, c, o)'
<1>1. /\ p \in Pane /\ pane[p].at # "new"
      /\ (pane[p].at = "asked" => pane[p].c = c /\ pane[p].opener = o)
  BY DEF Calls
<1>2. pane'[p] = pane[p] \/ (pane'[p].at # "new" /\ pane'[p].at # "asked")
  BY <1>1 DEF PanesGo
<1>3. CASE pane'[p] = pane[p]
  BY <1>1, <1>3 DEF Calls
<1>4. CASE pane'[p].at # "new" /\ pane'[p].at # "asked"
  BY <1>1, <1>4 DEF Calls
<1> QED BY <1>2, <1>3, <1>4

LEMMA AttachesGo ==
  ASSUME PanesGo, NEW p, NEW c, NEW s, Attaches(p, c, s)
  PROVE  Attaches(p, c, s)'
<1>1. Calls(p, c, FALSE) /\ Calls(p, c, FALSE)'
  BY CallsGo DEF Attaches
<1>2. p \in Pane /\ pane[p].at # "new" /\ (pane[p].at = "asked" => pane[p].s = s)
  BY DEF Attaches, Calls
<1>3. pane'[p].at = "asked" => pane'[p] = pane[p]
  BY <1>2 DEF PanesGo
<1> QED BY <1>1, <1>2, <1>3 DEF Attaches

LEMMA AskStays ==
  ASSUME PanesGo, \A c \in Client : Works(c, dispatch'[c]),
         \A c \in Client : \A i \in 1 .. Len(requests'[c]) : Asked(c, requests'[c][i]),
         \A c \in Client : \A i \in 1 .. Len(wire'[c]) : Fits(c, wire'[c][i])
  PROVE  AskInv'
<1>1. ASSUME NEW c, NEW m, Fits(c, m) PROVE Fits(c, m)'
  BY <1>1, CallsGo, AttachesGo DEF Fits
<1>2. ASSUME NEW c, NEW m, Asked(c, m) PROVE Asked(c, m)'
  BY <1>2, CallsGo, AttachesGo DEF Asked
<1>3. ASSUME NEW c, NEW d, Works(c, d) PROVE Works(c, d)'
  BY <1>1, <1>3, CallsGo, AttachesGo DEF Works
<1> SUFFICES ASSUME NEW c \in Client
             PROVE  /\ Works(c, dispatch[c])'
                    /\ \A i \in 1 .. Len(requests'[c]) : Asked(c, requests[c][i])'
                    /\ \A i \in 1 .. Len(wire'[c]) : Fits(c, wire[c][i])'
  BY DEF AskInv
<1>4. Works(c, dispatch[c])'
  <2>1. PICK d : d = dispatch'[c]
    OBVIOUS
  <2>2. Works(c, d)'
    BY <1>3, <2>1
  <2> QED BY <2>1, <2>2
<1>5. ASSUME NEW i \in 1 .. Len(requests'[c]) PROVE Asked(c, requests[c][i])'
  <2>1. PICK d : d = requests'[c][i]
    OBVIOUS
  <2>2. Asked(c, d)'
    BY <1>2, <2>1
  <2> QED BY <2>1, <2>2
<1>6. ASSUME NEW i \in 1 .. Len(wire'[c]) PROVE Fits(c, wire[c][i])'
  <2>1. PICK d : d = wire'[c][i]
    OBVIOUS
  <2>2. Fits(c, d)'
    BY <1>1, <2>1
  <2> QED BY <2>1, <2>2
<1> QED BY <1>4, <1>5, <1>6

(* What the app has stays as it is. *)
LEMMA AppStill ==
  ASSUME IndInv, AppInv, UNCHANGED <<app, conn>>, opened <= opened', opened' \in Nat,
         DOMAIN excused' = Session,
         \A c \in Client : conn[c] # "up" => wire'[c] = wire[c]
  PROVE  AppKinds' /\ ConnOrder' /\ AwayInv' /\ RouteInv' /\ KnownInv' /\ QuitInv' /\ PanesGo
<1>1. AppKinds'
  <2>1. \A s \in 1 .. opened : s \in 1 .. opened'
    BY DEF IndInv, Types, DaemonTypes
  <2> QED BY <2>1 DEF AppInv, AppKinds, app
<1>2. ConnOrder' /\ KnownInv' /\ QuitInv' /\ PanesGo
  BY DEF AppInv, ConnOrder, KnownInv, QuitInv, PanesGo, app
<1>3. AwayInv'
  BY DEF AppInv, AwayInv, app
<1>4. RouteInv'
  <2>1. \A s \in Session : s <= opened => s <= opened'
    BY DEF IndInv, Types, DaemonTypes, Session
  <2> QED BY <2>1 DEF AppInv, RouteInv, app
<1> QED BY <1>1, <1>2, <1>3, <1>4

(* Frames without a reply are added to the wires of subscribers. *)
WireAdds ==
  \A c \in Client :
    /\ Len(wire'[c]) \in Nat /\ Len(wire[c]) <= Len(wire'[c])
    /\ \A i \in 1 .. Len(wire[c]) : wire'[c][i] = wire[c][i]
    /\ \A i \in Len(wire[c]) + 1 .. Len(wire'[c]) :
         /\ wire'[c][i].k \in {"Data", "Exit"} /\ c \in subscribers[wire'[c][i].s]
         /\ wire'[c][i].s \in Session
    /\ conn[c] # "up" => wire'[c] = wire[c]

LEMMA WireStill == ASSUME IndInv, UNCHANGED wire PROVE WireAdds
<1>1. \A c \in Client : Len(wire[c]) \in Nat
  BY DEF IndInv, Types, WireTypes
<1> QED BY <1>1 DEF WireAdds

LEMMA TrySendIs ==
  ASSUME WireTypes, NEW msgs \in [Client -> Seq(Message)], trySend(msgs), NEW c \in Client
  PROVE  /\ Len(wire'[c]) \in Nat /\ Len(wire[c]) <= Len(wire'[c])
         /\ \A i \in 1 .. Len(wire[c]) : wire'[c][i] = wire[c][i]
         /\ \A i \in Len(wire[c]) + 1 .. Len(wire'[c]) :
              \E j \in 1 .. Len(msgs[c]) : wire'[c][i] = msgs[c][j]
         /\ conn[c] # "up" => wire'[c] = wire[c]
<1> DEFINE all == wire[c] \o msgs[c]
           n == Min({Len(all), WRITER_QUEUE})
<1>1. wire[c] \in Seq(Message) /\ msgs[c] \in Seq(Message) /\ Len(wire[c]) <= WRITER_QUEUE
  BY DEF WireTypes
<1>2. CASE conn[c] # "up"
  <2>1. wire'[c] = wire[c]
    BY <1>2 DEF trySend
  <2> QED BY <1>1, <2>1
<1>3. CASE conn[c] = "up"
  <2>1. wire'[c] = SubSeq(all, 1, n)
    BY <1>3 DEF trySend
  <2>2. /\ all \in Seq(Message) /\ Len(all) = Len(wire[c]) + Len(msgs[c])
        /\ \A i \in 1 .. Len(all) :
             all[i] = IF i <= Len(wire[c]) THEN wire[c][i] ELSE msgs[c][i - Len(wire[c])]
    BY <1>1
  <2>3. n \in Nat /\ n <= Len(all) /\ n <= WRITER_QUEUE /\ n \in {Len(all), WRITER_QUEUE}
    <3>1. Len(all) \in Nat /\ WRITER_QUEUE \in Nat
      BY <2>2, PtyDaemonAssumption
    <3> HIDE DEF all
    <3> QED BY <3>1, MinTwo
  <2> HIDE DEF all, n
  <2>4. /\ Len(SubSeq(all, 1, n)) = n
        /\ \A i \in 1 .. n : SubSeq(all, 1, n)[i] = all[i]
    BY <2>2, <2>3
  <2>5. Len(wire[c]) <= n /\ Len(wire[c]) \in Nat
    BY <1>1, <2>2, <2>3
  <2>6. ASSUME NEW i \in Len(wire[c]) + 1 .. n
        PROVE  \E j \in 1 .. Len(msgs[c]) : all[i] = msgs[c][j]
    <3>1. i - Len(wire[c]) \in 1 .. Len(msgs[c]) /\ all[i] = msgs[c][i - Len(wire[c])]
      BY <1>1, <2>2, <2>3
    <3> QED BY <3>1
  <2>7. \A i \in 1 .. Len(wire[c]) : all[i] = wire[c][i] /\ i \in 1 .. n
    BY <1>1, <2>2, <2>3, <2>5
  <2>8. \A i \in Len(wire[c]) + 1 .. n : i \in 1 .. n
    BY <2>3, <2>5
  <2> QED BY <1>3, <2>1, <2>3, <2>4, <2>5, <2>6, <2>7, <2>8
<1> QED BY <1>2, <1>3

LEMMA TrySendAdds ==
  ASSUME WireTypes, NEW msgs \in [Client -> Seq(Message)], trySend(msgs),
         \A c \in Client : \A i \in 1 .. Len(msgs[c]) :
            /\ msgs[c][i].k \in {"Data", "Exit"} /\ c \in subscribers[msgs[c][i].s]
            /\ msgs[c][i].s \in Session
  PROVE  WireAdds
BY TrySendIs DEF WireAdds

LEMMA AppendIs ==
  ASSUME NEW S, NEW q \in Seq(S), NEW x \in S
  PROVE  /\ q \o <<x>> = Append(q, x) /\ Len(Append(q, x)) = Len(q) + 1 /\ Append(q, x) \in Seq(S)
         /\ SubSeq(Append(q, x), 1, Len(q)) = q
         /\ SubSeq(Append(q, x), 1, Len(q) + 1) = Append(q, x)
         /\ q \o <<>> = q /\ SubSeq(q, 1, Len(q)) = q
<1>1. q \o <<x>> = Append(q, x)
  BY AppendIsConcat, Zenon
<1>2. Append(q, x) \in Seq(S) /\ Len(Append(q, x)) = Len(q) + 1
  OBVIOUS
<1>3. SubSeq(q, 1, Len(q)) = q
  BY SubSeqFull, Zenon
<1>4. SubSeq(Append(q, x), 1, Len(q) + 1) = Append(q, x)
  BY <1>2, SubSeqFull, Zenon
<1>5. q \o <<>> = q
  BY ConcatEmptySeq, Zenon
<1>6. <<x>> \in Seq(S)
  OBVIOUS
<1>7. SubSeq(q \o <<x>>, 1, Len(q)) = SubSeq(q, 1, Len(q))
  <2>1. Len(q) \in 0 .. Len(q)
    OBVIOUS
  <2> DEFINE a == Append(q, x)
  <2>2. /\ a \in Seq(S) /\ Len(a) = Len(q) + 1 /\ Len(q) \in Nat
        /\ \A i \in 1 .. Len(q) : a[i] = q[i]
    OBVIOUS
  <2> HIDE DEF a
  <2>3. /\ SubSeq(a, 1, Len(q)) \in Seq(S) /\ Len(SubSeq(a, 1, Len(q))) = Len(q)
        /\ \A i \in 1 .. Len(q) : SubSeq(a, 1, Len(q))[i] = a[i]
    BY <2>2
  <2>4. \A i \in 1 .. Len(q) : SubSeq(a, 1, Len(q))[i] = q[i]
    BY <2>2, <2>3
  <2>5. SubSeq(a, 1, Len(q)) = q
    <3> DEFINE b == SubSeq(a, 1, Len(q))
    <3>1. b \in Seq(S) /\ Len(b) = Len(q) /\ \A i \in 1 .. Len(b) : b[i] = q[i]
      BY <2>3, <2>4
    <3> HIDE DEF b
    <3>2. b = q
      BY <3>1, SeqEqual, Zenon
    <3> QED BY <3>2 DEF b
  <2> QED BY <1>1, <1>3, <2>5 DEF a
<1> QED BY <1>1, <1>2, <1>3, <1>4, <1>5, <1>7

(* One frame is fanned out: a subscriber gets it or has lost it. *)
LEMMA FanOutIs ==
  ASSUME WireTypes, NEW s \in Session, NEW msg \in Message, fanOut(s, msg), msg.s = s
  PROVE  \A c \in Client :
           \/ wire'[c] = wire[c] /\ (conn[c] # "up" \/ c \notin subscribers[s] \/ <<c, s>> \in saturated')
           \/ conn[c] = "up" /\ c \in subscribers[s] /\ wire'[c] = Append(wire[c], msg)
<1> DEFINE msgs == [c \in Client |-> IF c \in subscribers[s] THEN <<msg>> ELSE <<>>]
<1>1. trySend(msgs)
  BY DEF fanOut
<1>2. \A c \in Client : msgs[c] = IF c \in subscribers[s] THEN <<msg>> ELSE <<>>
  OBVIOUS
<1> HIDE DEF msgs
<1> SUFFICES ASSUME NEW c \in Client, conn[c] = "up"
             PROVE  \/ wire'[c] = wire[c] /\ (c \notin subscribers[s] \/ <<c, s>> \in saturated')
                    \/ c \in subscribers[s] /\ wire'[c] = Append(wire[c], msg)
  BY <1>1 DEF trySend
<1>3. wire[c] \in Seq(Message) /\ Len(wire[c]) <= WRITER_QUEUE /\ Len(wire[c]) \in Nat
  BY DEF WireTypes
<1>0. /\ wire[c] \o <<msg>> = Append(wire[c], msg) /\ Len(Append(wire[c], msg)) = Len(wire[c]) + 1
      /\ SubSeq(Append(wire[c], msg), 1, Len(wire[c])) = wire[c]
      /\ SubSeq(Append(wire[c], msg), 1, Len(wire[c]) + 1) = Append(wire[c], msg)
  <2>1. ASSUME NEW q \in Seq(Message), NEW x \in Message
        PROVE  /\ q \o <<x>> = Append(q, x) /\ Len(Append(q, x)) = Len(q) + 1
               /\ SubSeq(Append(q, x), 1, Len(q)) = q
               /\ SubSeq(Append(q, x), 1, Len(q) + 1) = Append(q, x)
    BY AppendIs
  <2> QED BY <1>3, <2>1, Zenon
<1>4. wire'[c] = SubSeq(wire[c] \o msgs[c], 1, Min({Len(wire[c] \o msgs[c]), WRITER_QUEUE}))
  BY <1>1 DEF trySend
<1>5. CASE c \notin subscribers[s]
  <2>1. wire[c] \o msgs[c] = wire[c]
    <3>1. msgs[c] = <<>>
      BY <1>2, <1>5
    <3> QED BY <1>3, <3>1, ConcatEmptySeq, Zenon
  <2>2. Min({Len(wire[c]), WRITER_QUEUE}) = Len(wire[c])
    <3>1. /\ Min({Len(wire[c]), WRITER_QUEUE}) \in {Len(wire[c]), WRITER_QUEUE}
          /\ Min({Len(wire[c]), WRITER_QUEUE}) <= Len(wire[c])
      BY <1>3, MinTwo, PtyDaemonAssumption
    <3> QED BY <1>3, <3>1, PtyDaemonAssumption
  <2>3. SubSeq(wire[c], 1, Len(wire[c])) = wire[c]
    BY <1>3, SubSeqFull, Zenon
  <2> QED BY <1>4, <1>5, <2>1, <2>2, <2>3
<1>6. CASE c \in subscribers[s] /\ Len(wire[c]) < WRITER_QUEUE
  <2>1. wire[c] \o msgs[c] = Append(wire[c], msg) /\ Len(Append(wire[c], msg)) = Len(wire[c]) + 1
    <3>1. msgs[c] = <<msg>>
      BY <1>2, <1>6
    <3> QED BY <1>0, <3>1
  <2>2. Min({Len(wire[c]) + 1, WRITER_QUEUE}) = Len(wire[c]) + 1
    <3>1. Min({Len(wire[c]) + 1, WRITER_QUEUE}) \in {Len(wire[c]) + 1, WRITER_QUEUE}
      <4>1. Len(wire[c]) + 1 \in Nat /\ WRITER_QUEUE \in Nat
        BY <1>3, PtyDaemonAssumption
      <4> QED BY <4>1, MinTwo, Zenon
    <3>2. Min({Len(wire[c]) + 1, WRITER_QUEUE}) <= Len(wire[c]) + 1
      BY <1>3, MinTwo, PtyDaemonAssumption
    <3> QED BY <1>3, <1>6, <3>1, <3>2, PtyDaemonAssumption
  <2>3. SubSeq(Append(wire[c], msg), 1, Len(wire[c]) + 1) = Append(wire[c], msg)
    BY <1>0
  <2> QED BY <1>4, <1>6, <2>1, <2>2, <2>3
<1>7. CASE c \in subscribers[s] /\ Len(wire[c]) = WRITER_QUEUE
  <2>1. wire[c] \o msgs[c] = Append(wire[c], msg) /\ Len(Append(wire[c], msg)) = Len(wire[c]) + 1
    <3>1. msgs[c] = <<msg>>
      BY <1>2, <1>7
    <3> QED BY <1>0, <3>1
  <2>2. Min({Len(wire[c]) + 1, WRITER_QUEUE}) = Len(wire[c])
    <3>1. Min({Len(wire[c]) + 1, WRITER_QUEUE}) \in {Len(wire[c]) + 1, WRITER_QUEUE}
      <4>1. Len(wire[c]) + 1 \in Nat /\ WRITER_QUEUE \in Nat
        BY <1>3, PtyDaemonAssumption
      <4> QED BY <4>1, MinTwo, Zenon
    <3>2. Min({Len(wire[c]) + 1, WRITER_QUEUE}) <= WRITER_QUEUE
      BY <1>3, MinTwo, PtyDaemonAssumption
    <3> QED BY <1>3, <1>7, <3>1, <3>2, PtyDaemonAssumption
  <2>3. SubSeq(Append(wire[c], msg), 1, Len(wire[c])) = wire[c]
    BY <1>0
  <2>4. <<c, s>> \in overflows(msgs)
    <3>1. msgs[c] = <<msg>>
      BY <1>2, <1>7
    <3>2. Len(msgs[c]) = 1 /\ msgs[c][1].s = s
      BY <3>1
    <3>3. /\ Len(wire[c]) + Len(msgs[c]) > WRITER_QUEUE
          /\ \E i \in 1 .. Len(msgs[c]) : msgs[c][i].s = s
      BY <1>3, <1>7, <3>2
    <3> QED BY <3>3 DEF overflows
  <2>5. <<c, s>> \in saturated'
    BY <1>1, <2>4 DEF trySend
  <2> QED BY <1>4, <2>1, <2>2, <2>3, <2>5
<1> QED BY <1>3, <1>5, <1>6, <1>7, PtyDaemonAssumption

LEMMA FanOutAdds ==
  ASSUME WireTypes, NEW s \in Session, NEW msg \in Message, fanOut(s, msg), msg.s = s,
         msg.k \in {"Data", "Exit"}
  PROVE  WireAdds
<1> DEFINE msgs == [c \in Client |-> IF c \in subscribers[s] THEN <<msg>> ELSE <<>>]
<1>1. trySend(msgs)
  BY DEF fanOut
<1>2. msgs \in [Client -> Seq(Message)]
  OBVIOUS
<1>3. \A c \in Client : \A i \in 1 .. Len(msgs[c]) : msgs[c][i] = msg /\ c \in subscribers[s]
  <2>1. \A c \in Client : (msgs[c] = <<msg>> /\ c \in subscribers[s]) \/ msgs[c] = <<>>
    OBVIOUS
  <2> HIDE DEF msgs
  <2> QED BY <2>1
<1> HIDE DEF msgs
<1> QED BY <1>1, <1>2, <1>3, TrySendAdds

LEMMA CloseAdds ==
  ASSUME IndInv, NEW S \in SUBSET Session, NEW kept, closeSessions(S, kept)
  PROVE  /\ WireAdds
         /\ \A c \in Client : \A i \in Len(wire[c]) + 1 .. Len(wire'[c]) : wire'[c][i].k = "Exit"
<1> USE WireFacts
<1> DEFINE on(c) == {s \in S : c \in subscribers[s]}
           exits(c) == {[k |-> "Exit", s |-> s] : s \in on(c)}
           msgs == [c \in Client |-> SetToSeq(exits(c))]
<1>1. trySend(msgs)
  BY DEF closeSessions
<1>2. ASSUME NEW c \in Client
      PROVE  /\ IsFiniteSet(exits(c)) /\ exits(c) \subseteq Message
             /\ \A m \in exits(c) : m.k = "Exit" /\ c \in subscribers[m.s] /\ m.s \in Session
  <2>1. IsFiniteSet(on(c))
    <3>1. IsFiniteSet(Session) /\ on(c) \subseteq Session
      BY SessionsFinite
    <3> HIDE DEF on
    <3> QED BY <3>1, FS_Subset
  <2> DEFINE f == [s \in on(c) |-> [k |-> "Exit", s |-> s]]
  <2>2. f \in Surjection(on(c), exits(c))
    BY DEF Surjection
  <2>3. IsFiniteSet(exits(c))
    BY <2>1, <2>2, FS_Surjection
  <2>4. \A s \in on(c) : s \in Session /\ c \in subscribers[s]
    OBVIOUS
  <2> HIDE DEF on
  <2>5. exits(c) \subseteq Message
    BY <2>4 DEF Message
  <2> QED BY <2>3, <2>4, <2>5
<1> HIDE DEF exits
<1>3. ASSUME NEW c \in Client
      PROVE  /\ msgs[c] \in Seq(Message)
             /\ \A j \in 1 .. Len(msgs[c]) : msgs[c][j] \in exits(c)
  <2>1. msgs[c] \in Seq(exits(c))
    BY <1>2, SetToSeqIs
  <2> HIDE DEF msgs
  <2>2. msgs[c] \in Seq(Message)
    BY <1>2, <2>1
  <2> QED BY <2>1, <2>2
<1>4. msgs \in [Client -> Seq(Message)]
  BY <1>3
<1>7. \A c \in Client : \A i \in 1 .. Len(msgs[c]) :
        msgs[c][i].k = "Exit" /\ c \in subscribers[msgs[c][i].s] /\ msgs[c][i].s \in Session
  <2>1. \A c \in Client : \A m \in exits(c) :
          m.k = "Exit" /\ c \in subscribers[m.s] /\ m.s \in Session
    BY <1>2
  <2> HIDE DEF msgs
  <2> QED BY <1>3, <2>1
<1> HIDE DEF msgs
<1>8. WireAdds
  BY <1>1, <1>4, <1>7, TrySendAdds
<1>9. ASSUME NEW c \in Client, NEW i \in Len(wire[c]) + 1 .. Len(wire'[c])
      PROVE  wire'[c][i].k = "Exit"
  <2>1. \A m \in Len(wire[c]) + 1 .. Len(wire'[c]) :
          \E j \in 1 .. Len(msgs[c]) : wire'[c][m] = msgs[c][j]
    BY <1>1, <1>4, TrySendIs
  <2>2. PICK j \in 1 .. Len(msgs[c]) : wire'[c][i] = msgs[c][j]
    BY <1>9, <2>1
  <2> QED BY <1>7, <2>2
<1> QED BY <1>8, <1>9

(* A thread of a shell takes a step.                                       *)
threadOf(s) == shellWrites(s) \/ shellEnds(s) \/ threadStep(s)
ThreadStill ==
  /\ WireAdds /\ UNCHANGED <<app, conn, dispatch, requests, opened, map, filled, closed, stolen>>
  /\ \A c \in Client, s \in Session : <<c, s>> \in saturated => <<c, s>> \in saturated'
  /\ DOMAIN excused = Session => DOMAIN excused' = Session

LEMMA ThreadStands == ASSUME IndInv, NEW s \in Session, threadOf(s) PROVE ThreadStill
<1> USE WireFacts
<1>1. CASE shellWrites(s)
  BY <1>1, WireStill DEF shellWrites, ThreadStill, daemon, wires, history
<1>2. CASE shellEnds(s)
  BY <1>2, WireStill DEF shellEnds, ThreadStill, daemon, wires, history
<1>3. CASE flusherTakes(s)
  BY <1>3, WireStill DEF flusherTakes, ThreadStill, daemon, wires, history
<1>4. CASE flusherAppends(s)
  BY <1>4, WireStill DEF flusherAppends, ThreadStill, wires, history
<1>5. CASE flusherFansOut(s)
  <2> DEFINE msg == [k |-> "Data", s |-> s, chunk |-> flusher[s].chunk]
  <2>1. fanOut(s, msg) /\ saturated \subseteq saturated'
    BY <1>5 DEF flusherFansOut, fanOut, trySend
  <2>2. msg \in Message /\ msg.k = "Data" /\ msg.s = s
    BY DEF ThreadTypes, Message
  <2> HIDE DEF msg
  <2>3. WireAdds
    BY <2>1, <2>2, FanOutAdds
  <2> QED BY <1>5, <2>1, <2>3 DEF flusherFansOut, ThreadStill, daemon
<1>6. CASE waiterTakes(s)
  BY <1>6, WireStill DEF waiterTakes, ThreadStill, wires
<1>7. CASE waiterFansOut(s)
  <2> DEFINE msg == [k |-> "Data", s |-> s, chunk |-> waiter[s].chunk]
  <2>1. fanOut(s, msg) /\ saturated \subseteq saturated'
    BY <1>7 DEF waiterFansOut, fanOut, trySend
  <2>2. msg \in Message /\ msg.k = "Data" /\ msg.s = s
    BY DEF ThreadTypes, Message
  <2> HIDE DEF msg
  <2>3. WireAdds
    BY <2>1, <2>2, FanOutAdds
  <2> QED BY <1>7, <2>1, <2>3 DEF waiterFansOut, ThreadStill, daemon
<1>8. CASE sinkExit(s)
  <2> DEFINE msg == [k |-> "Exit", s |-> s]
  <2>1. fanOut(s, msg) \/ UNCHANGED <<wire, saturated>>
    BY <1>8 DEF sinkExit
  <2>0. saturated \subseteq saturated'
    BY <2>1 DEF fanOut, trySend
  <2>2. msg \in Message /\ msg.k = "Exit" /\ msg.s = s
    BY DEF Message
  <2> HIDE DEF msg
  <2>3. WireAdds
    BY <2>1, <2>2, FanOutAdds, WireStill
  <2> QED BY <1>8, <2>0, <2>3 DEF sinkExit, ThreadStill
<1>9. CASE sessionDrop(s)
  BY <1>9, WireStill DEF sessionDrop, ThreadStill, wires, history
<1>10. CASE dropThread(s)
  BY <1>10, WireStill DEF dropThread, ThreadStill, wires, history
<1> QED BY <1>1, <1>2, <1>3, <1>4, <1>5, <1>6, <1>7, <1>8, <1>9, <1>10 DEF threadOf,
           threadStep

(* What is on a wire either was or is no reply. *)
LEMMA WireAddsFits ==
  ASSUME AppInv, WireAdds
  PROVE  \A c \in Client : \A i \in 1 .. Len(wire'[c]) : Fits(c, wire'[c][i])
<1> SUFFICES ASSUME NEW c \in Client, NEW i \in 1 .. Len(wire'[c]) PROVE Fits(c, wire'[c][i])
  OBVIOUS
<1>1. Len(wire'[c]) \in Nat /\ Len(wire[c]) <= Len(wire'[c]) /\ Len(wire[c]) \in Nat
  BY DEF WireAdds
<1>2. CASE i \in 1 .. Len(wire[c])
  BY <1>2 DEF WireAdds, AppInv, AskInv
<1>3. CASE i \in Len(wire[c]) + 1 .. Len(wire'[c])
  BY <1>3 DEF WireAdds, Fits
<1> QED BY <1>1, <1>2, <1>3

LEMMA ThreadApp == ASSUME IndInv, AppInv, ThreadStill PROVE AppInv'
<1>1. opened' = opened /\ opened' \in Nat /\ opened <= opened' /\ DOMAIN excused' = Session
  BY DEF ThreadStill, IndInv, Types, DaemonTypes, AppInv, AppKinds
<1>2. AppKinds' /\ ConnOrder' /\ AwayInv' /\ RouteInv' /\ KnownInv' /\ QuitInv' /\ PanesGo
  <2>1. \A c \in Client : conn[c] # "up" => wire'[c] = wire[c]
    BY DEF ThreadStill, WireAdds
  <2>2. UNCHANGED <<app, conn>>
    BY DEF ThreadStill
  <2> QED BY <1>1, <2>1, <2>2, AppStill
<1>3. AskInv'
  <2>1. \A c \in Client : Works(c, dispatch'[c])
    BY DEF AppInv, AskInv, ThreadStill
  <2>2. \A c \in Client : \A i \in 1 .. Len(requests'[c]) : Asked(c, requests'[c][i])
    BY DEF AppInv, AskInv, ThreadStill
  <2>3. \A c \in Client : \A i \in 1 .. Len(wire'[c]) : Fits(c, wire'[c][i])
    BY WireAddsFits DEF ThreadStill
  <2> QED BY <1>2, <2>1, <2>2, <2>3, AskStays
<1> QED BY <1>2, <1>3 DEF AppInv

----------------------------------------------------------------------------
(* The dispatchers. *)

LEMMA TailIs ==
  ASSUME NEW S, NEW q \in Seq(S), q # <<>>
  PROVE  /\ Tail(q) \in Seq(S) /\ Len(Tail(q)) = Len(q) - 1 /\ Head(q) = q[1]
         /\ Len(q) \in Nat \ {0}
         /\ \A i \in 1 .. Len(Tail(q)) : Tail(q)[i] = q[i + 1] /\ i + 1 \in 1 .. Len(q)
         /\ 1 \in 1 .. Len(q)
OBVIOUS

LEMMA AskedStay ==
  ASSUME IndInv, AppInv, NEW c \in Client,
         requests' = requests \/ (requests[c] # <<>> /\ requests' = [requests EXCEPT ![c] = Tail(@)])
  PROVE  \A d \in Client : \A i \in 1 .. Len(requests'[d]) : Asked(d, requests'[d][i])
<1> SUFFICES ASSUME NEW d \in Client, NEW i \in 1 .. Len(requests'[d])
             PROVE  Asked(d, requests'[d][i])
  OBVIOUS
<1>1. requests \in [Client -> Seq(Request)] /\ requests[d] \in Seq(Request)
  BY DEF IndInv, Types, WireTypes
<1>2. CASE requests'[d] = requests[d]
  BY <1>2 DEF AppInv, AskInv
<1>3. CASE requests'[d] = Tail(requests[d]) /\ requests[d] # <<>>
  <2>1. requests'[d][i] = requests[d][i + 1] /\ i + 1 \in 1 .. Len(requests[d])
    BY <1>1, <1>3, TailIs
  <2> QED BY <2>1 DEF AppInv, AskInv
<1> QED BY <1>1, <1>2, <1>3

LEMMA DispatchApp ==
  ASSUME IndInv, AppInv, NEW c \in Client, UNCHANGED <<app, conn, excused>>, WireAdds,
         opened <= opened', opened' \in Nat, dispatch' = [dispatch EXCEPT ![c] = dispatch'[c]],
         Works(c, dispatch'[c]),
         requests' = requests \/ (requests[c] # <<>> /\ requests' = [requests EXCEPT ![c] = Tail(@)])
  PROVE  AppInv'
<1>1. AppKinds' /\ ConnOrder' /\ AwayInv' /\ RouteInv' /\ KnownInv' /\ QuitInv' /\ PanesGo
  <2>1. \A d \in Client : conn[d] # "up" => wire'[d] = wire[d]
    BY DEF WireAdds
  <2>2. DOMAIN excused' = Session
    BY DEF AppInv, AppKinds
  <2>3. UNCHANGED <<app, conn>>
    OBVIOUS
  <2> QED BY <2>1, <2>2, <2>3, AppStill
<1>2. \A d \in Client : d # c => dispatch'[d] = dispatch[d]
  BY DispatchFacts
<1>3. \A d \in Client : Works(d, dispatch'[d])
  BY <1>2 DEF AppInv, AskInv
<1>4. \A d \in Client : \A i \in 1 .. Len(requests'[d]) : Asked(d, requests'[d][i])
  BY AskedStay
<1>5. \A d \in Client : \A i \in 1 .. Len(wire'[d]) : Fits(d, wire'[d][i])
  BY WireAddsFits
<1>6. AskInv'
  BY <1>1, <1>3, <1>4, <1>5, AskStays
<1> QED BY <1>1, <1>6 DEF AppInv

(* What a step of a dispatcher leaves alone. *)
DispatchStill(c) ==
  /\ UNCHANGED <<app, conn, excused, stolen>> /\ WireAdds
  /\ opened <= opened' /\ opened' \in Nat /\ dispatch' = [dispatch EXCEPT ![c] = dispatch'[c]]
  /\ requests' = requests \/ (requests[c] # <<>> /\ requests' = [requests EXCEPT ![c] = Tail(@)])
  /\ saturated \subseteq saturated'

LEMMA AnswerIs ==
  ASSUME IndInv, NEW c \in Client, NEW new, dispatch' = [dispatch EXCEPT ![c] = new]
  PROVE  dispatch' = [dispatch EXCEPT ![c] = dispatch'[c]] /\ dispatch'[c] = new
BY DispatchFacts

LEMMA ReservesApp == ASSUME IndInv, AppInv, NEW c \in Client, openReserves(c) PROVE DispatchStill(c) /\ AppInv'
<1> DEFINE p == Head1(c).p
           spawn == [at |-> "spawn", s |-> opened + 1, p |-> p]
           err == [at |-> "reply", msg |-> [k |-> "Err", p |-> p]]
<1>1. /\ Asks(c, "Open") /\ \E kept : closeSessions(reapable, kept)
      /\ UNCHANGED <<app, conn, excused, stolen, requests>>
      /\ \/ opened' = opened + 1 /\ dispatch' = [dispatch EXCEPT ![c] = spawn]
         \/ opened' = opened /\ dispatch' = [dispatch EXCEPT ![c] = err]
  BY DEF openReserves, Answer
<1>2. reapable \in SUBSET Session
  BY DispatchFacts DEF reapable
<1>3. WireAdds /\ saturated \subseteq saturated'
  BY <1>1, <1>2, CloseAdds DEF closeSessions, trySend
<1>4. opened \in Nat
  BY DEF IndInv, Types, DaemonTypes
<1>5. dispatch' = [dispatch EXCEPT ![c] = dispatch'[c]] /\ dispatch'[c] \in {spawn, err}
  BY <1>1, AnswerIs
<1>6. DispatchStill(c)
  BY <1>1, <1>3, <1>4, <1>5 DEF DispatchStill
<1>7. Asked(c, requests[c][1]) /\ Head1(c) = requests[c][1] /\ Head1(c).k = "Open"
  BY <1>1, HeadIsRequest DEF Asks, AppInv, AskInv
<1>8. Calls(p, c, TRUE)
  BY <1>7 DEF Asked
<1>9. Works(c, dispatch'[c])
  <2>1. spawn.at = "spawn" /\ spawn.p = p /\ err.at = "reply" /\ err.msg.k = "Err"
    OBVIOUS
  <2> HIDE DEF spawn, err, p
  <2>2. CASE dispatch'[c] = spawn
    BY <1>8, <2>1, <2>2 DEF Works
  <2>3. CASE dispatch'[c] = err
    BY <2>1, <2>3 DEF Works, Fits
  <2> QED BY <1>5, <2>2, <2>3
<1> QED BY <1>6, <1>9, DispatchApp DEF DispatchStill

LEMMA SpawnsApp ==
  ASSUME IndInv, AppInv, NEW c \in Client, openSpawns(c) \/ openSpawnFails(c) \/ openFills(c)
  PROVE  DispatchStill(c) /\ AppInv'
<1>1. /\ dispatch[c].at \in {"spawn", "fill"}
      /\ UNCHANGED <<app, conn, excused, stolen, requests, wire, saturated, opened>>
      /\ \/ dispatch' = [dispatch EXCEPT ![c].at = "fill"]
         \/ dispatch' = [dispatch EXCEPT ![c] = [at |-> "reply", msg |-> [k |-> "Err", p |-> dispatch[c].p]]]
         \/ dispatch' = [dispatch EXCEPT ![c] = [at |-> "reply",
              msg |-> [k |-> "OpenOk", p |-> dispatch[c].p, s |-> dispatch[c].s]]]
  BY DEF openSpawns, openSpawnFails, openFills, Answer, wires, history
<1>2. Calls(dispatch[c].p, c, TRUE)
  BY <1>1 DEF AppInv, AskInv, Works
<1>3. dispatch[c] \in [at : {"spawn", "fill"}, s : Session, p : Pane]
  BY <1>1, Spawning
<1>4. dispatch' = [dispatch EXCEPT ![c] = dispatch'[c]]
  BY <1>1, DispatchFacts
<1>5. Works(c, dispatch'[c])
  <2>1. CASE dispatch' = [dispatch EXCEPT ![c].at = "fill"]
    <3>1. dispatch'[c].at = "fill" /\ dispatch'[c].p = dispatch[c].p
      BY <1>3, <2>1, DispatchFacts
    <3> QED BY <1>2, <3>1 DEF Works
  <2>2. CASE dispatch' = [dispatch EXCEPT ![c] = [at |-> "reply", msg |-> [k |-> "Err", p |-> dispatch[c].p]]]
    BY <2>2, DispatchFacts DEF Works, Fits
  <2>3. CASE dispatch' = [dispatch EXCEPT ![c] = [at |-> "reply",
                            msg |-> [k |-> "OpenOk", p |-> dispatch[c].p, s |-> dispatch[c].s]]]
    BY <1>2, <2>3, DispatchFacts DEF Works, Fits
  <2> QED BY <1>1, <2>1, <2>2, <2>3
<1>6. DispatchStill(c)
  BY <1>1, <1>4, WireStill DEF DispatchStill, IndInv, Types, DaemonTypes
<1> QED BY <1>5, <1>6, DispatchApp DEF DispatchStill

LEMMA AttachApp ==
  ASSUME IndInv, AppInv, NEW c \in Client, attachCopies(c) \/ attachSubscribes(c)
  PROVE  DispatchStill(c) /\ AppInv'
<1>1. /\ UNCHANGED <<app, conn, excused, stolen, requests, wire, saturated, opened>>
      /\ \/ /\ Asks(c, "Attach")
            /\ \/ dispatch' = [dispatch EXCEPT ![c] = [at |-> "copied", s |-> Head1(c).s, p |-> Head1(c).p,
                                              copy |-> scrollback[Head1(c).s], alive |-> alive[Head1(c).s]]]
               \/ dispatch' = [dispatch EXCEPT ![c] = [at |-> "reply", msg |-> [k |-> "Err", p |-> Head1(c).p]]]
         \/ /\ dispatch[c].at = "copied"
            /\ dispatch' = [dispatch EXCEPT ![c] = [at |-> "reply",
                 msg |-> [k |-> "AttachOk", p |-> dispatch[c].p, s |-> dispatch[c].s,
                          copy |-> dispatch[c].copy, alive |-> dispatch[c].alive]]]
  BY DEF attachCopies, attachSubscribes, Answer, wires, history
<1>2. dispatch' = [dispatch EXCEPT ![c] = dispatch'[c]]
  BY <1>1, DispatchFacts
<1>3. Works(c, dispatch'[c])
  <2>1. CASE Asks(c, "Attach") /\
             dispatch' = [dispatch EXCEPT ![c] = [at |-> "copied", s |-> Head1(c).s, p |-> Head1(c).p,
                                            copy |-> scrollback[Head1(c).s], alive |-> alive[Head1(c).s]]]
    <3>1. Asked(c, requests[c][1]) /\ Head1(c) = requests[c][1] /\ Head1(c).k = "Attach"
      BY <2>1, HeadIsRequest DEF Asks, AppInv, AskInv
    <3>2. Attaches(Head1(c).p, c, Head1(c).s)
      BY <3>1 DEF Asked
    <3>3. dispatch'[c].at = "copied" /\ dispatch'[c].s = Head1(c).s /\ dispatch'[c].p = Head1(c).p
      BY <2>1, DispatchFacts
    <3> QED BY <3>2, <3>3 DEF Works
  <2>2. CASE dispatch' = [dispatch EXCEPT ![c] = [at |-> "reply", msg |-> [k |-> "Err", p |-> Head1(c).p]]]
    BY <2>2, DispatchFacts DEF Works, Fits
  <2>3. CASE /\ dispatch[c].at = "copied"
             /\ dispatch' = [dispatch EXCEPT ![c] = [at |-> "reply",
                  msg |-> [k |-> "AttachOk", p |-> dispatch[c].p, s |-> dispatch[c].s,
                           copy |-> dispatch[c].copy, alive |-> dispatch[c].alive]]]
    <3>1. Attaches(dispatch[c].p, c, dispatch[c].s)
      BY <2>3 DEF AppInv, AskInv, Works
    <3>2. /\ dispatch'[c].at = "reply" /\ dispatch'[c].msg.k = "AttachOk"
          /\ dispatch'[c].msg.p = dispatch[c].p /\ dispatch'[c].msg.s = dispatch[c].s
      BY <2>3, DispatchFacts
    <3> QED BY <3>1, <3>2 DEF Works, Fits
  <2> QED BY <1>1, <2>1, <2>2, <2>3
<1>4. DispatchStill(c)
  BY <1>1, <1>2, WireStill DEF DispatchStill, IndInv, Types, DaemonTypes
<1> QED BY <1>3, <1>4, DispatchApp DEF DispatchStill

LEMMA ServesApp ==
  ASSUME IndInv, AppInv, NEW c \in Client, serveClose(c) \/ serveKillAll(c)
  PROVE  DispatchStill(c) /\ AppInv'
<1>1. /\ \E S \in SUBSET Session : \E kept : closeSessions(S, kept)
      /\ UNCHANGED <<app, conn, excused, stolen, opened>>
      /\ requests[c] # <<>>
      /\ requests' = requests \/ requests' = [requests EXCEPT ![c] = Tail(@)]
      /\ dispatch' = dispatch \/ dispatch' = [dispatch EXCEPT ![c] = [at |-> "reply", msg |-> [k |-> "Killed"]]]
  <2>1. map \in SUBSET Session /\ {Head1(c).s} \cap map \in SUBSET Session
    BY DispatchFacts
  <2> QED BY <2>1 DEF serveClose, serveKillAll, Answer, Asks
<1>2. WireAdds /\ saturated \subseteq saturated'
  BY <1>1, CloseAdds DEF closeSessions, trySend
<1>3. dispatch' = [dispatch EXCEPT ![c] = dispatch'[c]]
  BY <1>1, DispatchFacts
<1>4. Works(c, dispatch'[c])
  <2>1. CASE dispatch' = dispatch
    BY <2>1 DEF AppInv, AskInv
  <2>2. CASE dispatch' = [dispatch EXCEPT ![c] = [at |-> "reply", msg |-> [k |-> "Killed"]]]
    BY <2>2, DispatchFacts DEF Works, Fits
  <2> QED BY <1>1, <2>1, <2>2
<1>5. DispatchStill(c)
  BY <1>1, <1>2, <1>3 DEF DispatchStill, IndInv, Types, DaemonTypes
<1> QED BY <1>4, <1>5, DispatchApp DEF DispatchStill

(* A reply is put on the wire.                                             *)
ReplyStill(c) ==
  /\ UNCHANGED <<app, conn, excused, stolen, saturated, opened, map, closed>>
  /\ dispatch[c].at = "reply"
  /\ dispatch' = [dispatch EXCEPT ![c] = Idle] /\ requests' = [requests EXCEPT ![c] = Tail(@)]
  /\ wire' = IF conn[c] = "up" THEN [wire EXCEPT ![c] = Append(@, dispatch[c].msg)] ELSE wire

LEMMA ReplyApp == ASSUME IndInv, AppInv, NEW c \in Client, reply(c) PROVE ReplyStill(c) /\ AppInv'
<1>1. ReplyStill(c)
  BY DEF reply, ReplyStill, history
<1>2. requests[c] # <<>> /\ dispatch[c].msg \in Message
  BY <1>1, Serving DEF ReplyStill
<1>3. AppKinds' /\ ConnOrder' /\ AwayInv' /\ RouteInv' /\ KnownInv' /\ QuitInv' /\ PanesGo
  <2>1. /\ \A d \in Client : conn[d] # "up" => wire'[d] = wire[d]
        /\ DOMAIN excused' = Session /\ opened <= opened' /\ opened' \in Nat
        /\ UNCHANGED <<app, conn>>
    BY <1>1, DispatchFacts DEF ReplyStill, AppInv, AppKinds, DaemonTypes, WireTypes
  <2> QED BY <2>1, AppStill
<1>4. \A d \in Client : Works(d, dispatch'[d])
  <2>1. \A d \in Client : dispatch'[d] = dispatch[d] \/ dispatch'[d] = Idle
    BY <1>1, DispatchFacts DEF ReplyStill
  <2>2. \A d \in Client : Works(d, dispatch[d])
    BY DEF AppInv, AskInv
  <2>3. \A d \in Client : Works(d, Idle)
    BY DEF Works, Idle
  <2> QED BY <2>1, <2>2, <2>3
<1>5. \A d \in Client : \A i \in 1 .. Len(requests'[d]) : Asked(d, requests'[d][i])
  BY <1>1, <1>2, AskedStay DEF ReplyStill
<1>6. ASSUME NEW d \in Client, NEW i \in 1 .. Len(wire'[d]) PROVE Fits(d, wire'[d][i])
  <2>1. wire[d] \in Seq(Message) /\ wire \in [Client -> Seq(Message)]
    BY DispatchFacts DEF WireTypes
  <2>2. CASE wire'[d] = wire[d]
    BY <2>2 DEF AppInv, AskInv
  <2>3. CASE d = c /\ wire'[c] = Append(wire[c], dispatch[c].msg)
    <3>1. CASE i \in 1 .. Len(wire[d])
      <4>1. wire'[d][i] = wire[d][i]
        BY <2>1, <2>3, <3>1
      <4> QED BY <3>1, <4>1 DEF AppInv, AskInv
    <3>2. CASE i = Len(wire[d]) + 1
      <4>1. wire'[d][i] = dispatch[c].msg
        BY <2>1, <2>3, <3>2
      <4> QED BY <1>1, <2>3, <4>1 DEF AppInv, AskInv, Works, ReplyStill
    <3> QED BY <2>1, <2>3, <3>1, <3>2
  <2> QED BY <1>1, <2>1, <2>2, <2>3 DEF ReplyStill
<1>7. AskInv'
  BY <1>3, <1>4, <1>5, <1>6, AskStays
<1> QED BY <1>1, <1>3, <1>7 DEF AppInv

----------------------------------------------------------------------------
(* The accept loop and the connections. *)

ConnStill ==
  /\ UNCHANGED <<channels, early, pane, view, quitting, requests, wire, dispatch, opened,
                 excused, saturated, stolen, closed>>
  /\ DOMAIN known' = DOMAIN known
  /\ \A c \in Client :
       /\ conn[c] = "up" => known'[c] = known[c]
       /\ \/ conn'[c] = conn[c]
          \/ conn[c] \in {"off", "dialled", "counted"}
          \/ conn[c] = "left" /\ conn'[c] = "gone"
       /\ conn[c] = "off" /\ conn'[c] # "off" => \A d \in Client : d < c =>
            conn[d] \in {"left", "gone"}

connStep ==
  \/ \E c \in Client : connect(c) \/ accept(c) \/ unsubscribe(c)
  \/ idle_watcher \/ acceptWake \/ shutdownCheck

LEMMA ConnStands == ASSUME IndInv, AppInv, connStep PROVE ConnStill
<1>0. DOMAIN known = Client /\ DOMAIN conn = Client
  BY DEF AppInv, AppKinds, IndInv, Types, WireTypes
<1>1. CASE \E c \in Client : connect(c)
  <2>1. PICK c \in Client : connect(c)
    BY <1>1
  <2>2. /\ conn[c] = "off" /\ \A d \in Client : d < c => conn[d] \in {"left", "gone"}
    <3>1. \A d \in Client : d < c => d \in 1 .. c - 1
      BY DEF Client
    <3> QED BY <2>1, <3>1 DEF connect
  <2>3. \/ conn' = [conn EXCEPT ![c] = "dialled"] /\ UNCHANGED known
        \/ Welcomed({c})
    BY <2>1 DEF connect
  <2>4. /\ DOMAIN known' = Client
        /\ \A d \in Client : d # c => known'[d] = known[d] /\ conn'[d] = conn[d]
    BY <1>0, <2>3 DEF Welcomed
  <2> QED BY <1>0, <2>1, <2>2, <2>4 DEF connect, ConnStill, history
<1>2. CASE \E c \in Client : accept(c)
  <2>1. PICK c \in Client : accept(c)
    BY <1>2
  <2>2. conn[c] = "dialled"
    BY <2>1 DEF accept
  <2>3. \/ conn' = [conn EXCEPT ![c] = "counted"] /\ UNCHANGED known
        \/ Welcomed({c})
    BY <2>1 DEF accept
  <2>4. /\ DOMAIN known' = Client
        /\ \A d \in Client : d # c => known'[d] = known[d] /\ conn'[d] = conn[d]
    BY <1>0, <2>3 DEF Welcomed
  <2> QED BY <1>0, <2>1, <2>2, <2>4 DEF accept, ConnStill, history
<1>3. CASE \E c \in Client : unsubscribe(c)
  BY <1>0, <1>3 DEF unsubscribe, ConnStill, app, history
<1>4. CASE idle_watcher \/ acceptWake
  BY <1>4 DEF idle_watcher, acceptWake, ConnStill, app, wires, history
<1>5. CASE shutdownCheck
  <2>1. CASE Exits
    BY <1>0, <2>1 DEF Exits, ConnStill, app, history
  <2>2. CASE Resumes
    <3>1. /\ DOMAIN known' = Client
          /\ \A d \in Client : conn[d] # "counted" => known'[d] = known[d] /\ conn'[d] = conn[d]
      BY <1>0, <2>2 DEF Resumes, Welcomed
    <3> QED BY <1>0, <2>2, <3>1 DEF Resumes, ConnStill, history
  <2> QED BY <1>5, <2>1, <2>2 DEF shutdownCheck
<1> QED BY <1>1, <1>2, <1>3, <1>4, <1>5 DEF connStep

LEMMA ConnApp == ASSUME IndInv, AppInv, ConnStill PROVE AppInv'
<1>1. AppKinds'
  BY DEF AppInv, AppKinds, ConnStill
<1>2. ConnOrder'
  <2> SUFFICES ASSUME NEW c \in Client, conn'[c] # "off", NEW d \in Client, d < c
               PROVE  conn'[d] \in {"left", "gone"}
    BY DEF ConnOrder
  <2>1. conn[d] \in {"left", "gone"}
    BY DEF AppInv, ConnOrder, ConnStill
  <2> QED BY <2>1 DEF ConnStill
<1>3. AwayInv'
  <2> SUFFICES ASSUME NEW c \in Client, conn'[c] # "up" PROVE conn[c] # "up"
    BY DEF AppInv, AwayInv, ConnStill
  <2> QED BY DEF ConnStill
<1>4. RouteInv' /\ QuitInv'
  BY DEF AppInv, RouteInv, QuitInv, ConnStill
<1>5. KnownInv'
  <2> SUFFICES ASSUME NEW p \in Pane, pane[p].at = "shown" PROVE pane[p].s \in known'[pane[p].c]
    BY DEF KnownInv, ConnStill
  <2>1. pane[p].c \in Client /\ conn[pane[p].c] = "up"
    BY DispatchFacts DEF PaneInv
  <2> QED BY <2>1 DEF ConnStill, AppInv, KnownInv
<1>6. AskInv'
  <2>1. UNCHANGED <<dispatch, requests, wire, pane>>
    BY DEF ConnStill
  <2> QED BY <2>1 DEF AppInv, AskInv, Works, Asked, Fits, Attaches, Calls
<1> QED BY <1>1, <1>2, <1>3, <1>4, <1>5, <1>6 DEF AppInv

----------------------------------------------------------------------------
(* The app. *)

LEMMA ChunksAre == Seq(Chunk) \subseteq Seq(Nat)
<1>1. Chunk \subseteq Nat
  BY DEF Chunk
<1> QED BY <1>1, SeqMonotonic, Zenon

LEMMA ViewGrows ==
  ASSUME view \in [Pane -> Seq(Nat)], NEW p \in Pane, NEW b \in Seq(Nat),
         view' = view \/ view' = [view EXCEPT ![p] = @ \o b]
  PROVE  view' \in [Pane -> Seq(Nat)] /\ \A q \in Pane : Len(view[q]) <= Len(view'[q])
<1>1. view[p] \o b \in Seq(Nat) /\ Len(view[p]) <= Len(view[p] \o b)
  BY Joins
<1>2. \A q \in Pane : Len(view[q]) \in Nat
  OBVIOUS
<1>3. CASE view' = view
  BY <1>2, <1>3
<1>4. CASE view' = [view EXCEPT ![p] = @ \o b]
  <2> DEFINE w == view[p] \o b
  <2>1. view' = [view EXCEPT ![p] = w]
    BY <1>4
  <2>2. w \in Seq(Nat) /\ Len(view[p]) <= Len(w)
    BY <1>1
  <2> HIDE DEF w
  <2>3. view' \in [Pane -> Seq(Nat)]
    BY <2>1, <2>2
  <2>4. \A q \in Pane : view'[q] = view[q] \/ (q = p /\ view'[q] = w)
    BY <2>1
  <2>5. Len(w) \in Nat
    BY <2>2
  <2>6. \A q \in Pane : Len(view[q]) <= Len(view'[q])
    <3> SUFFICES ASSUME NEW q \in Pane PROVE Len(view[q]) <= Len(view'[q])
      OBVIOUS
    <3>1. CASE view'[q] = view[q]
      BY <1>2, <3>1
    <3>2. CASE q = p /\ view'[q] = w
      BY <2>2, <3>2
    <3> QED BY <2>4, <3>1, <3>2
  <2> QED BY <2>3, <2>6
<1> QED BY <1>3, <1>4

LEMMA EarlyGrows ==
  ASSUME early \in [Client -> [Session -> Seq(Nat)]], NEW c \in Client, NEW s \in Session,
         NEW b \in Seq(Nat),
         buffer_early(c, s, b)
  PROVE  /\ early' \in [Client -> [Session -> Seq(Nat)]]
         /\ \A d \in Client, t \in Session : d # c \/ t # s => early'[d][t] = early[d][t]
         /\ early'[c][s] = early[c][s] \o b \/ (early'[c][s] = early[c][s] /\ <<c, s>> \in saturated')
         /\ saturated \subseteq saturated'
<1> DEFINE w == early[c][s] \o b
           e == [early[c] EXCEPT ![s] = w]
<1>1. w \in Seq(Nat)
  BY Joins
<1>2. \/ early' = [early EXCEPT ![c] = e] /\ saturated' = saturated
      \/ early' = early /\ saturated' = saturated \cup {<<c, s>>}
  BY DEF buffer_early
<1>3. e \in [Session -> Seq(Nat)] /\ e[s] = w /\ \A t \in Session : t # s => e[t] = early[c][t]
  <2>1. early[c] \in [Session -> Seq(Nat)]
    OBVIOUS
  <2> HIDE DEF w
  <2> QED BY <1>1, <2>1
<1>4. w = early[c][s] \o b
  OBVIOUS
<1> HIDE DEF w, e
<1>5. CASE early' = [early EXCEPT ![c] = e] /\ saturated' = saturated
  BY <1>3, <1>4, <1>5
<1>6. CASE early' = early /\ saturated' = saturated \cup {<<c, s>>}
  BY <1>6
<1> QED BY <1>2, <1>5, <1>6

(* The frame that is received. *)
LEMMA Frame ==
  ASSUME IndInv, NEW c \in Client, conn[c] = "up", wire[c] # <<>>, Received(c)
  PROVE  /\ Head(wire[c]) \in Message /\ Head(wire[c]) = wire[c][1] /\ 1 \in 1 .. Len(wire[c])
         /\ Len(wire[c]) \in Nat \ {0} /\ wire'[c] = Tail(wire[c])
         /\ Len(wire'[c]) = Len(wire[c]) - 1
         /\ \A i \in 1 .. Len(wire'[c]) :
              wire'[c][i] = wire[c][i + 1] /\ i + 1 \in 1 .. Len(wire[c])
         /\ \A d \in Client : d # c => wire'[d] = wire[d]
<1>1. wire \in [Client -> Seq(Message)] /\ wire[c] \in Seq(Message)
  BY DispatchFacts DEF WireTypes
<1>2. wire' = [wire EXCEPT ![c] = Tail(wire[c])]
  BY DEF Received
<1> QED BY <1>1, <1>2, TailIs

LEMMA FramesFit ==
  ASSUME IndInv, AppInv, NEW c \in Client,
         UNCHANGED wire \/ (conn[c] = "up" /\ wire[c] # <<>> /\ Received(c))
  PROVE  \A d \in Client : \A i \in 1 .. Len(wire'[d]) : Fits(d, wire'[d][i])
<1> SUFFICES ASSUME NEW d \in Client, NEW i \in 1 .. Len(wire'[d]) PROVE Fits(d, wire'[d][i])
  OBVIOUS
<1>1. CASE wire'[d] = wire[d]
  BY <1>1 DEF AppInv, AskInv
<1>2. CASE d = c /\ conn[c] = "up" /\ wire[c] # <<>> /\ Received(c)
  <2>1. wire'[d][i] = wire[d][i + 1] /\ i + 1 \in 1 .. Len(wire[d])
    BY <1>2, Frame
  <2> QED BY <2>1 DEF AppInv, AskInv
<1> QED BY <1>1, <1>2, Frame

(* A step of the app of c that asks the daemon nothing. *)
LEMMA HearsAsks ==
  ASSUME IndInv, AppInv, NEW c \in Client, PanesGo, UNCHANGED <<dispatch, requests>>,
         UNCHANGED wire \/ (conn[c] = "up" /\ wire[c] # <<>> /\ Received(c))
  PROVE  AskInv'
<1>1. \A d \in Client : Works(d, dispatch'[d])
  BY DEF AppInv, AskInv
<1>2. \A d \in Client : \A i \in 1 .. Len(requests'[d]) : Asked(d, requests'[d][i])
  BY DEF AppInv, AskInv
<1>3. \A d \in Client : \A i \in 1 .. Len(wire'[d]) : Fits(d, wire'[d][i])
  BY FramesFit
<1> QED BY <1>1, <1>2, <1>3, AskStays

(* One that asks. *)
LEMMA SendAsks ==
  ASSUME IndInv, AppInv, NEW c \in Client, PanesGo, UNCHANGED <<dispatch, wire>>,
         NEW r \in Request, Send(c, r), Asked(c, r)'
  PROVE  AskInv'
<1>1. requests \in [Client -> Seq(Request)] /\ requests[c] \in Seq(Request)
  BY DispatchFacts
<1> DEFINE old == AskInv
<1>2. ASSUME NEW d, NEW m, Asked(d, m) PROVE Asked(d, m)'
  BY <1>2, CallsGo, AttachesGo DEF Asked
<1>3. ASSUME NEW d, NEW m, Fits(d, m) PROVE Fits(d, m)'
  BY <1>3, CallsGo, AttachesGo DEF Fits
<1>4. ASSUME NEW d, NEW w, Works(d, w) PROVE Works(d, w)'
  BY <1>3, <1>4, CallsGo, AttachesGo DEF Works
<1> SUFFICES ASSUME NEW d \in Client
             PROVE  /\ Works(d, dispatch[d])'
                    /\ \A i \in 1 .. Len(requests'[d]) : Asked(d, requests[d][i])'
                    /\ \A i \in 1 .. Len(wire'[d]) : Fits(d, wire[d][i])'
  BY DEF AskInv
<1>5. Works(d, dispatch[d])'
  <2>1. PICK w : w = dispatch[d]
    OBVIOUS
  <2>2. Works(d, w)
    BY <2>1 DEF AppInv, AskInv
  <2> QED BY <1>4, <2>1, <2>2
<1>6. ASSUME NEW i \in 1 .. Len(requests'[d]) PROVE Asked(d, requests[d][i])'
  <2>1. PICK m : m = requests'[d][i]
    OBVIOUS
  <2>2. (m = r /\ d = c) \/ (i \in 1 .. Len(requests[d]) /\ m = requests[d][i])
    BY <1>1, <2>1 DEF Send
  <2>3. CASE i \in 1 .. Len(requests[d]) /\ m = requests[d][i]
    <3>1. Asked(d, m)
      BY <2>3 DEF AppInv, AskInv
    <3> QED BY <1>2, <2>1, <3>1
  <2> QED BY <2>1, <2>2, <2>3
<1>7. ASSUME NEW i \in 1 .. Len(wire'[d]) PROVE Fits(d, wire[d][i])'
  <2>1. PICK m : m = wire[d][i]
    OBVIOUS
  <2>2. Fits(d, m)
    BY <2>1 DEF AppInv, AskInv
  <2> QED BY <1>3, <2>1, <2>2
<1> QED BY <1>5, <1>6, <1>7

LEMMA KindsGo ==
  ASSUME AppKinds, UNCHANGED <<opened, excused>>, DOMAIN known' = Client,
         quitting' \subseteq Client,
         view' \in [Pane -> Seq(Nat)], channels' \in [Client -> [Session -> Pane \cup {None}]],
         early' \in [Client -> [Session -> Seq(Nat)]],
         \A p \in Pane :
           \/ pane'[p] = pane[p] /\ Len(view[p]) <= Len(view'[p])
           \/ pane'[p].at \in {"asked", "answered", "shown"} =>
                /\ pane'[p].opener \in BOOLEAN /\ pane'[p].seam \in 0 .. Len(view'[p])
                /\ pane'[p].at = "asked" => /\ pane'[p].seam = 0
                                            /\ IF pane'[p].opener THEN pane'[p].s = None
                                               ELSE pane'[p].s \in 1 .. opened
  PROVE  AppKinds'
<1>1. ASSUME NEW p \in Pane, pane'[p].at \in {"asked", "answered", "shown"}
      PROVE  /\ pane'[p].opener \in BOOLEAN /\ pane'[p].seam \in 0 .. Len(view'[p])
             /\ pane'[p].at = "asked" => /\ pane'[p].seam = 0
                                         /\ IF pane'[p].opener THEN pane'[p].s = None
                                            ELSE pane'[p].s \in 1 .. opened'
  <2>1. CASE pane'[p] = pane[p] /\ Len(view[p]) <= Len(view'[p])
    <3>1. /\ pane[p].opener \in BOOLEAN /\ pane[p].seam \in 0 .. Len(view[p])
          /\ pane[p].at = "asked" => /\ pane[p].seam = 0
                                     /\ IF pane[p].opener THEN pane[p].s = None ELSE pane[p].s \in 1 .. opened
      BY <1>1, <2>1 DEF AppKinds
    <3>2. Len(view[p]) \in Nat /\ Len(view'[p]) \in Nat
      BY DEF AppKinds
    <3>3. pane'[p].seam \in 0 .. Len(view'[p])
      BY <2>1, <3>1, <3>2
    <3> QED BY <2>1, <3>1, <3>3
  <2>2. CASE ~(pane'[p] = pane[p] /\ Len(view[p]) <= Len(view'[p]))
    BY <1>1, <2>2
  <2> QED BY <2>1, <2>2
<1> QED BY <1>1 DEF AppKinds

(* A route of the app that receives stays, or goes.                        *)
LEMMA RouteStays ==
  ASSUME AppInv, UNCHANGED <<opened, pane, quitting>>,
         \A d \in Client, t \in Session :
           channels'[d][t] # None =>
             channels'[d][t] = channels[d][t] /\ (early'[d][t] = early[d][t] \/ early'[d][t] = <<>>)
  PROVE  RouteInv'
BY DEF AppInv, RouteInv

LEMMA AwayStays ==
  ASSUME AwayInv, UNCHANGED conn, NEW c \in Client, conn[c] = "up",
         \A d \in Client : d # c => wire'[d] = wire[d],
         \A d \in Client, t \in Session :
           d # c => early'[d][t] = early[d][t] /\ channels'[d][t] = channels[d][t]
  PROVE  AwayInv'
<1> SUFFICES ASSUME NEW d \in Client, conn[d] # "up", NEW t \in Session
             PROVE  wire'[d] = <<>> /\ early'[d][t] = <<>> /\ channels'[d][t] = None
  <2>1. ASSUME NEW d \in Client, conn[d] # "up" PROVE wire'[d] = <<>>
    BY <2>1 DEF AwayInv
  <2> QED BY <2>1 DEF AwayInv
<1> QED BY DEF AwayInv

LEMMA RouteGone ==
  ASSUME channels \in [Client -> [Session -> Pane \cup {None}]],
         early \in [Client -> [Session -> Seq(Nat)]], NEW c \in Client, NEW s \in Session,
         channels' = [channels EXCEPT ![c][s] = None], early' = [early EXCEPT ![c][s] = <<>>]
  PROVE  /\ channels' \in [Client -> [Session -> Pane \cup {None}]]
         /\ early' \in [Client -> [Session -> Seq(Nat)]]
         /\ channels'[c][s] = None /\ early'[c][s] = <<>>
         /\ \A d \in Client, t \in Session : d # c \/ t # s =>
              channels'[d][t] = channels[d][t] /\ early'[d][t] = early[d][t]
         /\ \A d \in Client, t \in Session : channels'[d][t] # None =>
              channels'[d][t] = channels[d][t] /\ early'[d][t] = early[d][t]
<1>1. ASSUME NEW d \in Client, NEW t \in Session, d # c \/ t # s
      PROVE  channels'[d][t] = channels[d][t] /\ early'[d][t] = early[d][t]
  BY <1>1
<1>2. channels'[c][s] = None /\ early'[c][s] = <<>>
  OBVIOUS
<1>3. channels' \in [Client -> [Session -> Pane \cup {None}]]
  OBVIOUS
<1>4. early' \in [Client -> [Session -> Seq(Nat)]]
  OBVIOUS
<1> QED BY <1>1, <1>2, <1>3, <1>4

LEMMA ReceiveDataApp == ASSUME IndInv, AppInv, NEW c \in Client, receiveData(c) PROVE AppInv'
<1> DEFINE m == Head(wire[c])
           s == m.s
           p == channels[c][s]
<1>1. /\ conn[c] = "up" /\ wire[c] # <<>> /\ Received(c) /\ m.k = "Data"
      /\ UNCHANGED <<daemon, conn, requests, channels, pane, quitting, known, excused>>
      /\ IF p # None THEN Deliver(p, m.chunk) /\ UNCHANGED early
         ELSE buffer_early(c, s, m.chunk) /\ UNCHANGED view
  BY DEF receiveData, Incoming
<1>2. m \in Message
  BY <1>1, Frame
<1>3. s \in Session /\ m.chunk \in Seq(Nat)
  BY <1>1, <1>2, ChunksAre DEF Message
<1> HIDE DEF m
<1>4. AppKinds
  BY DEF AppInv
<1>5. p \in Pane \cup {None}
  BY <1>3, <1>4 DEF AppKinds
<1>6. view' \in [Pane -> Seq(Nat)] /\ \A q \in Pane : Len(view[q]) <= Len(view'[q])
  <2>1. CASE p # None
    <3>1. p \in Pane /\ (view' = view \/ view' = [view EXCEPT ![p] = @ \o m.chunk])
      BY <1>1, <1>5, <2>1 DEF Deliver
    <3> HIDE DEF p
    <3> QED BY <1>3, <1>4, <3>1, ViewGrows DEF AppKinds
  <2>2. CASE p = None
    BY <1>1, <1>4, <2>2 DEF AppKinds
  <2> QED BY <2>1, <2>2
<1>7. /\ early' \in [Client -> [Session -> Seq(Nat)]]
      /\ \A d \in Client, t \in Session : channels[d][t] # None => early'[d][t] = early[d][t]
      /\ \A d \in Client, t \in Session : d # c => early'[d][t] = early[d][t]
  <2>1. CASE p # None
    BY <1>1, <1>4, <2>1 DEF AppKinds
  <2>2. CASE p = None
    <3>1. buffer_early(c, s, m.chunk)
      BY <1>1, <2>2
    <3>2. /\ early' \in [Client -> [Session -> Seq(Nat)]]
          /\ \A d \in Client, t \in Session : d # c \/ t # s => early'[d][t] = early[d][t]
      <4> DEFINE b == m.chunk
      <4>1. /\ early \in [Client -> [Session -> Seq(Nat)]] /\ s \in Session /\ b \in Seq(Nat)
            /\ buffer_early(c, s, b)
        BY <1>3, <1>4, <3>1 DEF AppKinds
      <4> HIDE DEF s, b
      <4> QED BY <4>1, EarlyGrows
    <3> QED BY <2>2, <3>2
  <2> QED BY <2>1, <2>2
<1> HIDE DEF s, p
<1>8. AppKinds'
  <2>1. /\ UNCHANGED <<opened, excused>> /\ DOMAIN known' = Client /\ quitting' \subseteq Client
        /\ channels' \in [Client -> [Session -> Pane \cup {None}]]
        /\ \A q \in Pane : pane'[q] = pane[q] /\ Len(view[q]) <= Len(view'[q])
    BY <1>1, <1>4, <1>6 DEF AppKinds, daemon
  <2> QED BY <1>4, <1>6, <1>7, <2>1, KindsGo
<1>9. ConnOrder' /\ KnownInv' /\ QuitInv' /\ PanesGo
  BY <1>1 DEF AppInv, ConnOrder, KnownInv, QuitInv, PanesGo
<1>10. AwayInv'
  BY <1>1, <1>7, Frame, AwayStays DEF AppInv
<1>11. RouteInv'
  BY <1>1, <1>7, RouteStays DEF daemon
<1>12. AskInv'
  BY <1>1, <1>9, HearsAsks DEF daemon
<1> QED BY <1>8, <1>9, <1>10, <1>11, <1>12 DEF AppInv

LEMMA ReceiveExitApp == ASSUME IndInv, AppInv, NEW c \in Client, receiveExit(c) PROVE AppInv'
<1> DEFINE m == Head(wire[c])
           s == m.s
           p == channels[c][s]
<1>1. /\ conn[c] = "up" /\ wire[c] # <<>> /\ Received(c) /\ m.k = "Exit"
      /\ UNCHANGED <<daemon, conn, requests, pane, quitting, known, excused>>
      /\ IF p # None THEN /\ Deliver(p, <<Exit>>) /\ channels' = [channels EXCEPT ![c][s] = None]
                          /\ early' = [early EXCEPT ![c][s] = <<>>]
         ELSE buffer_early(c, s, <<Exit>>) /\ UNCHANGED <<view, channels>>
  BY DEF receiveExit, Incoming
<1>2. m \in Message
  BY <1>1, Frame
<1>3. s \in Session
  BY <1>1, <1>2 DEF Message
<1>31. <<Exit>> \in Seq(Nat)
  BY DEF Exit
<1> HIDE DEF m
<1>4. AppKinds
  BY DEF AppInv
<1>5. p \in Pane \cup {None}
  BY <1>3, <1>4 DEF AppKinds
<1>6. view' \in [Pane -> Seq(Nat)] /\ \A q \in Pane : Len(view[q]) <= Len(view'[q])
  <2>1. CASE p # None
    <3>1. p \in Pane /\ (view' = view \/ view' = [view EXCEPT ![p] = @ \o <<Exit>>])
      BY <1>1, <1>5, <2>1 DEF Deliver
    <3> HIDE DEF p
    <3> QED BY <1>31, <1>4, <3>1, ViewGrows DEF AppKinds
  <2>2. CASE p = None
    BY <1>1, <1>4, <2>2 DEF AppKinds
  <2> QED BY <2>1, <2>2
<1>7. /\ early' \in [Client -> [Session -> Seq(Nat)]]
      /\ channels' \in [Client -> [Session -> Pane \cup {None}]]
      /\ \A d \in Client, t \in Session : channels'[d][t] # None =>
           channels'[d][t] = channels[d][t] /\ early'[d][t] = early[d][t]
      /\ \A d \in Client, t \in Session : d # c =>
           early'[d][t] = early[d][t] /\ channels'[d][t] = channels[d][t]
  <2>1. CASE p # None
    <3>1. channels' = [channels EXCEPT ![c][s] = None] /\ early' = [early EXCEPT ![c][s] = <<>>]
      BY <1>1, <2>1
    <3>2. /\ channels \in [Client -> [Session -> Pane \cup {None}]]
          /\ early \in [Client -> [Session -> Seq(Nat)]]
      BY <1>4 DEF AppKinds
    <3> HIDE DEF s
    <3> QED BY <1>3, <3>1, <3>2, RouteGone
  <2>2. CASE p = None
    <3>1. buffer_early(c, s, <<Exit>>) /\ channels' = channels
      BY <1>1, <2>2
    <3>2. /\ early' \in [Client -> [Session -> Seq(Nat)]]
          /\ \A d \in Client, t \in Session : d # c \/ t # s => early'[d][t] = early[d][t]
      <4> DEFINE b == <<Exit>>
      <4>1. /\ early \in [Client -> [Session -> Seq(Nat)]] /\ s \in Session /\ b \in Seq(Nat)
            /\ buffer_early(c, s, b)
        BY <1>3, <1>31, <1>4, <3>1 DEF AppKinds
      <4> HIDE DEF s, b
      <4> QED BY <4>1, EarlyGrows
    <3> QED BY <1>4, <2>2, <3>1, <3>2 DEF AppKinds
  <2> QED BY <2>1, <2>2
<1> HIDE DEF s, p
<1>8. AppKinds'
  <2>1. /\ UNCHANGED <<opened, excused>> /\ DOMAIN known' = Client /\ quitting' \subseteq Client
        /\ \A q \in Pane : pane'[q] = pane[q] /\ Len(view[q]) <= Len(view'[q])
    BY <1>1, <1>4, <1>6 DEF AppKinds, daemon
  <2> QED BY <1>4, <1>6, <1>7, <2>1, KindsGo
<1>9. ConnOrder' /\ KnownInv' /\ QuitInv' /\ PanesGo
  BY <1>1 DEF AppInv, ConnOrder, KnownInv, QuitInv, PanesGo
<1>10. AwayInv'
  BY <1>1, <1>7, Frame, AwayStays DEF AppInv
<1>11. RouteInv'
  BY <1>1, <1>7, RouteStays DEF daemon
<1>12. AskInv'
  BY <1>1, <1>9, HearsAsks DEF daemon
<1> QED BY <1>8, <1>9, <1>10, <1>11, <1>12 DEF AppInv

LEMMA ReceiveKilledApp == ASSUME IndInv, AppInv, NEW c \in Client, receiveKilled(c) PROVE AppInv'
<1>1. /\ conn[c] = "up" /\ wire[c] # <<>> /\ Received(c)
      /\ UNCHANGED <<daemon, conn, requests, pane, view, quitting, known, excused>>
      /\ channels' = [channels EXCEPT ![c] = [s \in Session |-> None]]
      /\ early' = [early EXCEPT ![c] = [s \in Session |-> <<>>]]
  BY DEF receiveKilled, Incoming, history
<1>4. AppKinds
  BY DEF AppInv
<1>7. /\ early' \in [Client -> [Session -> Seq(Nat)]]
      /\ channels' \in [Client -> [Session -> Pane \cup {None}]]
      /\ \A d \in Client, t \in Session : channels'[d][t] # None =>
           channels'[d][t] = channels[d][t] /\ early'[d][t] = early[d][t]
      /\ \A d \in Client, t \in Session : d # c =>
           early'[d][t] = early[d][t] /\ channels'[d][t] = channels[d][t]
  <2>1. \A d \in Client, t \in Session :
           \/ d = c /\ channels'[d][t] = None /\ early'[d][t] = <<>>
           \/ d # c /\ channels'[d][t] = channels[d][t] /\ early'[d][t] = early[d][t]
    BY <1>1, <1>4 DEF AppKinds
  <2> QED BY <1>1, <1>4, <2>1 DEF AppKinds
<1>8. AppKinds'
  <2>1. /\ UNCHANGED <<opened, excused>> /\ DOMAIN known' = Client /\ view' \in [Pane -> Seq(Nat)]
        /\ quitting' \subseteq Client
        /\ \A q \in Pane : pane'[q] = pane[q] /\ Len(view[q]) <= Len(view'[q])
    BY <1>1, <1>4 DEF AppKinds, daemon
  <2> QED BY <1>4, <1>7, <2>1, KindsGo
<1>9. ConnOrder' /\ KnownInv' /\ QuitInv' /\ PanesGo
  BY <1>1 DEF AppInv, ConnOrder, KnownInv, QuitInv, PanesGo
<1>10. AwayInv'
  BY <1>1, <1>7, Frame, AwayStays DEF AppInv
<1>11. RouteInv'
  BY <1>1, <1>7, RouteStays DEF daemon
<1>12. AskInv'
  BY <1>1, <1>9, HearsAsks DEF daemon
<1> QED BY <1>8, <1>9, <1>10, <1>11, <1>12 DEF AppInv

LEMMA CallIs ==
  ASSUME IndInv, AppInv, NEW p \in Pane, pane[p].at \in {"asked", "answered", "shown"}
  PROVE  /\ pane[p].c \in Client /\ conn[pane[p].c] = "up" /\ pane[p].c \notin quitting
         /\ pane[p].opener \in BOOLEAN /\ pane[p].seam \in 0 .. Len(view[p])
         /\ view[p] \in Seq(Nat)
         /\ pane[p] = [at |-> pane[p].at, c |-> pane[p].c, s |-> pane[p].s,
                       opener |-> pane[p].opener, seam |-> pane[p].seam, alive |-> pane[p].alive]
         /\ pane[p].at \in {"answered", "shown"} => pane[p].s \in Session /\ pane[p].s <= opened
<1>1. Call(pane[p]) /\ pane[p].c \in Client /\ conn[pane[p].c] = "up"
  BY DispatchFacts DEF PaneInv
<1>2. pane[p].at \in {"answered", "shown"} => pane[p].s \in Session /\ pane[p].s <= opened
  <2>1. pane[p].at \in {"answered", "shown"} => pane[p].s \in 1 .. opened
    BY DispatchFacts DEF PaneInv, Known
  <2> QED BY <2>1, OpenedInSession, DispatchFacts DEF DaemonTypes
<1>3. pane[p].c \notin quitting
  BY DEF AppInv, QuitInv
<1>4. pane[p].opener \in BOOLEAN /\ pane[p].seam \in 0 .. Len(view[p]) /\ view[p] \in Seq(Nat)
  BY DEF AppInv, AppKinds
<1> QED BY <1>1, <1>2, <1>3, <1>4 DEF Call

(* What a reply does to the pane it is for.                                *)
LEMMA ReplyIs ==
  ASSUME IndInv, AppInv, NEW c \in Client, receiveReply(c), NEW m, m = Head(wire[c])
  PROVE  /\ conn[c] = "up" /\ wire[c] # <<>> /\ Received(c) /\ m \in Message /\ Fits(c, m)
         /\ UNCHANGED <<daemon, threads, conn, requests, channels, early, quitting, known,
                        excused, saturated,
                        closed, stolen>>
         /\ m.k \in {"OpenOk", "AttachOk", "Err"} /\ m.p \in Pane /\ m = wire[c][1]
         /\ \A q \in Pane : q # m.p => pane'[q] = pane[q] /\ view'[q] = view[q]
         /\ view' \in [Pane -> Seq(Nat)]
         /\ \/ pane[m.p].at # "asked" /\ UNCHANGED <<pane, view>>
            \/ /\ pane[m.p].at = "asked" /\ m.k = "Err"
               /\ pane'[m.p] = [at |-> "failed", c |-> None] /\ view' = view
            \/ /\ pane[m.p].at = "asked" /\ m.k \in {"OpenOk", "AttachOk"}
               /\ pane[m.p].c = c /\ pane[m.p].opener = (m.k = "OpenOk") /\ m.s \in Session
               /\ m.k = "AttachOk" => pane[m.p].s = m.s /\ m.copy \in Seq(Nat)
               /\ pane'[m.p].at = "answered" /\ pane'[m.p].c = c /\ pane'[m.p].s = m.s
               /\ pane'[m.p].opener = pane[m.p].opener /\ pane'[m.p].seam = 0
               /\ view'[m.p] = IF m.k = "AttachOk" THEN m.copy ELSE view[m.p]
<1>1. /\ conn[c] = "up" /\ wire[c] # <<>> /\ Received(c)
      /\ m.k \in {"OpenOk", "AttachOk", "Err"}
      /\ UNCHANGED <<daemon, threads, conn, requests, channels, early, quitting, known, excused,
                     saturated,
                     closed, stolen>>
      /\ pane' = IF pane[m.p].at # "asked" THEN pane
                 ELSE [pane EXCEPT ![m.p] = IF m.k = "Err" THEN [at |-> "failed", c |-> None]
                         ELSE [@ EXCEPT !.at = "answered", !.s = m.s, !.alive = (m.k = "OpenOk" \/ m.alive)]]
      /\ view' = IF m.k = "AttachOk" /\ pane[m.p].at = "asked" THEN [view EXCEPT ![m.p] = m.copy] ELSE view
  BY DEF receiveReply, Incoming, history
<1>2. m \in Message /\ m = wire[c][1] /\ 1 \in 1 .. Len(wire[c])
  BY <1>1, Frame
<1>3. Fits(c, m)
  BY <1>2 DEF AppInv, AskInv
<1>4. /\ m.p \in Pane /\ (m.k \in {"OpenOk", "AttachOk"} => m.s \in Session)
      /\ (m.k = "AttachOk" => m.copy \in Seq(Nat))
  BY <1>1, <1>2, ChunksAre DEF Message
<1>5. DOMAIN pane = Pane /\ DOMAIN view = Pane
  BY DEF IndInv, Types, AppTypes, AppInv, AppKinds
<1>6. /\ (\A q \in Pane : q # m.p => pane'[q] = pane[q] /\ view'[q] = view[q])
      /\ view' \in [Pane -> Seq(Nat)]
  <2>1. \A q \in Pane : q # m.p => pane'[q] = pane[q] /\ view'[q] = view[q]
    BY <1>1, <1>5
  <2>2. view' \in [Pane -> Seq(Nat)]
    BY <1>1, <1>4 DEF AppInv, AppKinds
  <2> QED BY <2>1, <2>2
<1>7. CASE pane[m.p].at # "asked"
  BY <1>1, <1>2, <1>3, <1>4, <1>6, <1>7
<1>8. CASE pane[m.p].at = "asked" /\ m.k = "Err"
  BY <1>1, <1>2, <1>3, <1>4, <1>5, <1>6, <1>8
<1>9. CASE pane[m.p].at = "asked" /\ m.k \in {"OpenOk", "AttachOk"}
  <2>1. /\ pane[m.p].c = c /\ pane[m.p].opener = (m.k = "OpenOk")
        /\ m.k = "AttachOk" => pane[m.p].s = m.s
    BY <1>3, <1>4, <1>9 DEF Fits, Attaches, Calls
  <2>2. pane[m.p].seam = 0
    BY <1>4, <1>9 DEF AppInv, AppKinds
  <2>3. PICK r : r = pane[m.p]
    OBVIOUS
  <2>4. r = [at |-> r.at, c |-> r.c, s |-> r.s, opener |-> r.opener, seam |-> r.seam, alive |-> r.alive]
    BY <1>4, <1>9, <2>3, CallIs
  <2>5. pane'[m.p] = [r EXCEPT !.at = "answered", !.s = m.s, !.alive = (m.k = "OpenOk" \/ m.alive)]
    BY <1>1, <1>4, <1>5, <1>9, <2>3
  <2>6. /\ pane'[m.p].at = "answered" /\ pane'[m.p].c = r.c /\ pane'[m.p].s = m.s
        /\ pane'[m.p].opener = r.opener /\ pane'[m.p].seam = r.seam
    BY <2>4, <2>5
  <2>7. view'[m.p] = IF m.k = "AttachOk" THEN m.copy ELSE view[m.p]
    BY <1>1, <1>4, <1>5, <1>9
  <2> QED BY <1>1, <1>2, <1>3, <1>4, <1>6, <1>9, <2>1, <2>2, <2>3, <2>6, <2>7
<1> QED BY <1>1, <1>7, <1>8, <1>9

LEMMA NoneIs == None \notin Client /\ None \notin Pane /\ None \notin Session
BY PtyDaemonAssumption DEF Client, Pane, Session

LEMMA ReceiveReplyApp == ASSUME IndInv, AppInv, NEW c \in Client, receiveReply(c) PROVE AppInv'
<1> DEFINE m == Head(wire[c])
<1>1. /\ conn[c] = "up" /\ wire[c] # <<>> /\ Received(c) /\ m.p \in Pane
      /\ UNCHANGED <<daemon, threads, conn, requests, channels, early, quitting, known, excused>>
      /\ \A q \in Pane : q # m.p => pane'[q] = pane[q] /\ view'[q] = view[q]
      /\ view' \in [Pane -> Seq(Nat)]
      /\ \/ pane[m.p].at # "asked" /\ UNCHANGED <<pane, view>>
         \/ /\ pane[m.p].at = "asked"
            /\ pane'[m.p].at = "failed" /\ pane'[m.p].c = None /\ view' = view
         \/ /\ pane[m.p].at = "asked" /\ pane[m.p].c = c /\ m.s \in Session
            /\ pane'[m.p].at = "answered" /\ pane'[m.p].c = c
            /\ pane'[m.p].opener = pane[m.p].opener /\ pane'[m.p].seam = 0
            /\ view'[m.p] \in Seq(Nat)
  <2>1. \A q \in Pane : view[q] \in Seq(Nat)
    BY DEF AppInv, AppKinds
  <2>2. pane'[m.p] = [at |-> "failed", c |-> None] =>
          pane'[m.p].at = "failed" /\ pane'[m.p].c = None
    OBVIOUS
  <2>3. ASSUME NEW n, n = m
        PROVE  n.k \in {"OpenOk", "AttachOk"} => \/ n.k = "AttachOk" \/ n.k = "OpenOk"
    OBVIOUS
  <2> QED BY <2>1, <2>2, ReplyIs
<1> HIDE DEF m
<1>2. AppKinds
  BY DEF AppInv
<1>3. view' \in [Pane -> Seq(Nat)]
  BY <1>1
<1>4. PanesGo
  BY <1>1 DEF PanesGo
<1>5. AppKinds'
  <2>1. /\ UNCHANGED <<opened, excused>> /\ DOMAIN known' = Client /\ quitting' \subseteq Client
        /\ early' \in [Client -> [Session -> Seq(Nat)]]
        /\ channels' \in [Client -> [Session -> Pane \cup {None}]]
    BY <1>1, <1>2 DEF AppKinds, daemon
  <2>2. ASSUME NEW q \in Pane
        PROVE  \/ pane'[q] = pane[q] /\ Len(view[q]) <= Len(view'[q])
               \/ pane'[q].at \in {"asked", "answered", "shown"} =>
                    /\ pane'[q].opener \in BOOLEAN /\ pane'[q].seam \in 0 .. Len(view'[q])
                    /\ pane'[q].at = "asked" => /\ pane'[q].seam = 0
                                                /\ IF pane'[q].opener THEN pane'[q].s = None
                                                   ELSE pane'[q].s \in 1 .. opened
    <3>1. Len(view[q]) \in Nat /\ Len(view'[q]) \in Nat
      BY <1>2, <1>3 DEF AppKinds
    <3>2. CASE pane'[q] = pane[q] /\ view'[q] = view[q]
      BY <3>1, <3>2
    <3>3. CASE pane'[q].at = "failed"
      BY <3>3
    <3>4. CASE /\ q = m.p /\ pane[q].at = "asked" /\ pane'[q].at = "answered"
               /\ pane'[q].opener = pane[q].opener /\ pane'[q].seam = 0
      <4>1. pane[q].opener \in BOOLEAN
        BY <1>2, <3>4 DEF AppKinds
      <4> QED BY <3>1, <3>4, <4>1
    <3> QED BY <1>1, <3>2, <3>3, <3>4
  <2> QED BY <1>2, <1>3, <2>1, <2>2, KindsGo
<1>6. ConnOrder'
  BY <1>1 DEF AppInv, ConnOrder
<1>7. AwayInv'
  BY <1>1, Frame, AwayStays DEF AppInv
<1>8. RouteInv'
  <2> SUFFICES ASSUME NEW d \in Client, NEW t \in Session, channels[d][t] # None
               PROVE  pane'[channels[d][t]] = pane[channels[d][t]]
    BY <1>1 DEF AppInv, RouteInv, daemon
  <2>1. channels[d][t] \in Pane
    BY <1>2 DEF AppKinds
  <2>2. pane[channels[d][t]].at # "asked"
    BY DEF AppInv, RouteInv
  <2> QED BY <1>1, <2>1, <2>2
<1>9. KnownInv'
  <2> SUFFICES ASSUME NEW q \in Pane, pane'[q].at = "shown" PROVE pane'[q] = pane[q]
    BY <1>1 DEF AppInv, KnownInv
  <2> QED BY <1>1
<1>10. QuitInv'
  <2> SUFFICES ASSUME NEW d \in quitting, NEW q \in Pane PROVE pane'[q].c # d
    BY <1>1 DEF QuitInv
  <2>1. d # None /\ pane[q].c # d
    BY <1>2, NoneIs DEF AppKinds, AppInv, QuitInv
  <2> QED BY <1>1, <2>1
<1>11. AskInv'
  BY <1>1, <1>4, HearsAsks DEF daemon
<1> QED BY <1>5, <1>6, <1>7, <1>8, <1>9, <1>10, <1>11 DEF AppInv

(* What register does to the route, the buffer and the pane.                *)
Registers(p, c, s) ==
  /\ pane[p].at = "answered" /\ c = pane[p].c /\ s = pane[p].s /\ conn[c] = "up"
  /\ c \notin quitting
  /\ s <= opened
  /\ UNCHANGED <<daemon, threads, wires, quitting, excused, saturated, closed, stolen>>
  /\ channels' \in [Client -> [Session -> Pane \cup {None}]]
  /\ early' \in [Client -> [Session -> Seq(Nat)]]
  /\ channels'[c][s] = p /\ early'[c][s] = <<>>
  /\ \A d \in Client, t \in Session :
       d # c \/ t # s => channels'[d][t] = channels[d][t] /\ early'[d][t] = early[d][t]
  /\ \A q \in Pane : q # p => pane'[q] = pane[q] /\ view'[q] = view[q]
  /\ view' \in [Pane -> Seq(Nat)] /\ view'[p] = view[p] \o early[c][s]
  /\ view[p] \in Seq(Nat) /\ early[c][s] \in Seq(Nat)
  /\ pane'[p].at = "shown" /\ pane'[p].c = c /\ pane'[p].s = s /\ pane'[p].opener = pane[p].opener
  /\ pane'[p].seam = Len(view[p])
  /\ known' = [known EXCEPT ![c] = @ \cup {s}]

LEMMA RegisterIs ==
  ASSUME IndInv, AppInv, NEW p \in Pane, register(p)
  PROVE  \E c \in Client, s \in Session : Registers(p, c, s)
<1>01. PICK c : c = pane[p].c
  OBVIOUS
<1>02. PICK s : s = pane[p].s
  OBVIOUS
<1>1. /\ pane[p].at = "answered" /\ channels' = [channels EXCEPT ![c][s] = p]
      /\ early' = [early EXCEPT ![c][s] = <<>>]
      /\ view' = [view EXCEPT ![p] = @ \o early[c][s]]
      /\ pane' = [pane EXCEPT ![p].at = "shown", ![p].seam = Len(view[p])]
      /\ known' = [known EXCEPT ![c] = @ \cup {s}]
      /\ UNCHANGED <<daemon, threads, wires, quitting, excused, saturated, closed, stolen>>
  BY <1>01, <1>02 DEF register, history
<1>2. /\ c \in Client /\ conn[c] = "up" /\ c \notin quitting /\ s \in Session /\ s <= opened
      /\ view[p] \in Seq(Nat)
      /\ pane[p] = [at |-> pane[p].at, c |-> pane[p].c, s |-> pane[p].s,
                    opener |-> pane[p].opener, seam |-> pane[p].seam, alive |-> pane[p].alive]
  BY <1>01, <1>02, <1>1, CallIs
<1>3. /\ channels \in [Client -> [Session -> Pane \cup {None}]]
      /\ early \in [Client -> [Session -> Seq(Nat)]]
      /\ view \in [Pane -> Seq(Nat)] /\ DOMAIN pane = Pane
  BY DEF AppInv, AppKinds, IndInv, Types, AppTypes
<1>4. early[c][s] \in Seq(Nat)
  BY <1>2, <1>3
<1>5. /\ channels' \in [Client -> [Session -> Pane \cup {None}]]
      /\ early' \in [Client -> [Session -> Seq(Nat)]]
  <2>1. channels' \in [Client -> [Session -> Pane \cup {None}]]
    BY <1>1, <1>2, <1>3
  <2>2. early' \in [Client -> [Session -> Seq(Nat)]]
    BY <1>1, <1>2, <1>3
  <2> QED BY <2>1, <2>2
<1>6. channels'[c][s] = p /\ early'[c][s] = <<>>
  BY <1>1, <1>2, <1>3
<1>7. \A d \in Client, t \in Session :
        d # c \/ t # s => channels'[d][t] = channels[d][t] /\ early'[d][t] = early[d][t]
  <2> SUFFICES ASSUME NEW d \in Client, NEW t \in Session, d # c \/ t # s
               PROVE  channels'[d][t] = channels[d][t] /\ early'[d][t] = early[d][t]
    OBVIOUS
  <2>1. CASE d # c
    BY <1>1, <1>2, <1>3, <2>1
  <2>2. CASE d = c /\ t # s
    BY <1>1, <1>2, <1>3, <2>2
  <2> QED BY <2>1, <2>2
<1>8. view' \in [Pane -> Seq(Nat)] /\ view'[p] = view[p] \o early[c][s]
  <2>1. view[p] \o early[c][s] \in Seq(Nat)
    BY <1>2, <1>4
  <2> QED BY <1>1, <1>3, <2>1
<1>9. \A q \in Pane : q # p => pane'[q] = pane[q] /\ view'[q] = view[q]
  BY <1>1, <1>3
<1>10. /\ pane'[p].at = "shown" /\ pane'[p].c = c /\ pane'[p].s = s
       /\ pane'[p].opener = pane[p].opener
       /\ pane'[p].seam = Len(view[p])
  <2>1. PICK r : r = pane[p]
    OBVIOUS
  <2>2. PICK n : n = Len(view[p])
    OBVIOUS
  <2>3. pane'[p] = [r EXCEPT !.at = "shown", !.seam = n]
    BY <1>1, <1>3, <2>1, <2>2
  <2>4. r = [at |-> r.at, c |-> r.c, s |-> r.s, opener |-> r.opener, seam |-> r.seam, alive |-> r.alive]
    BY <1>2, <2>1
  <2>5. /\ pane'[p].at = "shown" /\ pane'[p].c = r.c /\ pane'[p].s = r.s
        /\ pane'[p].opener = r.opener
        /\ pane'[p].seam = n
    BY <2>3, <2>4
  <2> QED BY <1>01, <1>02, <2>1, <2>2, <2>5
<1>11. Registers(p, c, s)
  BY <1>01, <1>02, <1>1, <1>2, <1>4, <1>5, <1>6, <1>7, <1>8, <1>9, <1>10 DEF Registers
<1> QED BY <1>2, <1>11

LEMMA RegisterApp == ASSUME IndInv, AppInv, NEW p \in Pane, register(p) PROVE AppInv'
<1>01. PICK c \in Client, s \in Session : Registers(p, c, s)
  BY RegisterIs
<1>1. /\ pane[p].at = "answered" /\ conn[c] = "up" /\ c \notin quitting
      /\ s <= opened
      /\ UNCHANGED <<daemon, threads, wires, quitting, excused>>
      /\ channels' \in [Client -> [Session -> Pane \cup {None}]]
      /\ early' \in [Client -> [Session -> Seq(Nat)]]
      /\ channels'[c][s] = p /\ early'[c][s] = <<>>
      /\ \A d \in Client, t \in Session :
           d # c \/ t # s => channels'[d][t] = channels[d][t] /\ early'[d][t] = early[d][t]
      /\ \A q \in Pane : q # p => pane'[q] = pane[q] /\ view'[q] = view[q]
      /\ view' \in [Pane -> Seq(Nat)] /\ view'[p] = view[p] \o early[c][s]
      /\ view[p] \in Seq(Nat) /\ early[c][s] \in Seq(Nat)
      /\ pane'[p].at = "shown" /\ pane'[p].c = c /\ pane'[p].s = s
      /\ pane'[p].opener = pane[p].opener
      /\ pane'[p].seam = Len(view[p])
      /\ known' = [known EXCEPT ![c] = @ \cup {s}]
  BY <1>01 DEF Registers
<1>0. pane[p].opener \in BOOLEAN
  BY <1>1, CallIs
<1>2. AppKinds
  BY DEF AppInv
<1>3. AppKinds'
  <2>1. /\ UNCHANGED <<opened, excused>> /\ DOMAIN known' = Client /\ quitting' \subseteq Client
    BY <1>1, <1>2 DEF AppKinds, daemon
  <2>2. ASSUME NEW q \in Pane
        PROVE  \/ pane'[q] = pane[q] /\ Len(view[q]) <= Len(view'[q])
               \/ pane'[q].at \in {"asked", "answered", "shown"} =>
                    /\ pane'[q].opener \in BOOLEAN /\ pane'[q].seam \in 0 .. Len(view'[q])
                    /\ pane'[q].at = "asked" => /\ pane'[q].seam = 0
                                                /\ IF pane'[q].opener THEN pane'[q].s = None
                                                   ELSE pane'[q].s \in 1 .. opened
    <3>1. Len(view[q]) \in Nat
      BY <1>2 DEF AppKinds
    <3>2. CASE q # p
      BY <1>1, <3>1, <3>2
    <3>3. CASE q = p
      <4>1. Len(view'[p]) = Len(view[p]) + Len(early[c][s]) /\ Len(early[c][s]) \in Nat
        BY <1>1, Joins
      <4>2. Len(view[p]) \in 0 .. Len(view'[p])
        <5>1. PICK n : n = Len(view'[p])
          OBVIOUS
        <5>2. PICK k : k = Len(view[p])
          OBVIOUS
        <5>3. PICK e : e = Len(early[c][s])
          OBVIOUS
        <5>4. n = k + e /\ e \in Nat
          BY <4>1, <5>1, <5>2, <5>3, Zenon
        <5>5. k \in Nat
          BY <3>1, <3>3, <5>2
        <5>6. k \in 0 .. n
          BY <5>4, <5>5
        <5> QED BY <5>1, <5>2, <5>6, Zenon
      <4>3. pane'[q].opener \in BOOLEAN /\ pane'[q].at # "asked"
        BY <1>0, <1>1, <3>3
      <4>4. pane'[q].seam \in 0 .. Len(view'[q])
        BY <1>1, <3>3, <4>2, Zenon
      <4> QED BY <4>3, <4>4
    <3> QED BY <3>2, <3>3
  <2> QED BY <1>1, <1>2, <2>1, <2>2, KindsGo
<1>4. PanesGo
  BY <1>1 DEF PanesGo
<1>5. ConnOrder' /\ AwayInv'
  <2>1. ConnOrder'
    BY <1>1 DEF AppInv, ConnOrder, wires
  <2>2. UNCHANGED <<conn, wire>>
    BY <1>1 DEF wires
  <2>3. AwayInv'
    BY <1>1, <2>2, AwayStays DEF AppInv
  <2> QED BY <2>1, <2>3
<1>6. RouteInv'
  <2> SUFFICES ASSUME NEW d \in Client, NEW t \in Session, channels'[d][t] # None
               PROVE  LET q == channels'[d][t]
                      IN  /\ t <= opened' /\ early'[d][t] = <<>>
                          /\ pane'[q].at \in {"shown", "lost", "closed"}
                          /\ pane'[q].at = "shown" => pane'[q].c = d /\ pane'[q].s = t
                          /\ pane'[q].at = "lost" => pane'[q].s = t
                          /\ pane'[q].at = "closed" => d \in quitting'
    BY DEF RouteInv
  <2>1. CASE d = c /\ t = s
    BY <1>1, <2>1 DEF daemon
  <2>2. CASE d # c \/ t # s
    <3>1. channels'[d][t] = channels[d][t] /\ early'[d][t] = early[d][t]
      BY <1>1, <2>2
    <3>2. channels[d][t] \in Pane
      BY <1>2, <3>1 DEF AppKinds
    <3>3. channels[d][t] # p
      BY <1>1, <3>1 DEF AppInv, RouteInv
    <3>4. pane'[channels[d][t]] = pane[channels[d][t]]
      BY <1>1, <3>2, <3>3
    <3> QED BY <1>1, <3>1, <3>4 DEF AppInv, RouteInv, daemon
  <2> QED BY <2>1, <2>2
<1>7. KnownInv'
  <2> SUFFICES ASSUME NEW q \in Pane, pane'[q].at = "shown"
               PROVE  pane'[q].s \in known'[pane'[q].c]
    BY DEF KnownInv
  <2>0. DOMAIN known = Client
    BY <1>2 DEF AppKinds
  <2>1. CASE q = p
    BY <1>1, <2>0, <2>1
  <2>2. CASE q # p
    <3>1. pane'[q] = pane[q] /\ pane[q].s \in known[pane[q].c]
      BY <1>1, <2>2 DEF AppInv, KnownInv
    <3>2. pane[q].c \in Client
      BY <3>1, CallIs
    <3> QED BY <1>1, <2>0, <3>1, <3>2
  <2> QED BY <2>1, <2>2
<1>8. QuitInv'
  <2> SUFFICES ASSUME NEW d \in quitting, NEW q \in Pane PROVE pane'[q].c # d
    BY <1>1 DEF QuitInv
  <2>1. CASE q = p
    BY <1>1, <2>1
  <2>2. CASE q # p
    <3>1. pane'[q] = pane[q] /\ pane[q].c # d
      BY <1>1, <2>2 DEF AppInv, QuitInv
    <3> QED BY <3>1
  <2> QED BY <2>1, <2>2
<1>9. AskInv'
  BY <1>1, <1>4, HearsAsks DEF daemon, wires
<1> QED BY <1>3, <1>5, <1>6, <1>7, <1>8, <1>9 DEF AppInv

(* The routes that stay lead to panes that stay, are lost or closed.       *)
LEMMA RouteKeeps ==
  ASSUME AppInv, opened' = opened, quitting \subseteq quitting',
         \A d \in Client, t \in Session : channels'[d][t] # None =>
           /\ channels'[d][t] = channels[d][t]
           /\ early'[d][t] = early[d][t] \/ early'[d][t] = <<>>
           /\ \/ pane'[channels[d][t]] = pane[channels[d][t]]
              \/ pane'[channels[d][t]].at = "lost" /\ pane'[channels[d][t]].s = t
              \/ pane'[channels[d][t]].at = "closed" /\ d \in quitting'
  PROVE  RouteInv'
<1> SUFFICES ASSUME NEW d \in Client, NEW t \in Session, channels'[d][t] # None
             PROVE  LET q == channels'[d][t]
                    IN  /\ t <= opened' /\ early'[d][t] = <<>>
                        /\ pane'[q].at \in {"shown", "lost", "closed"}
                        /\ pane'[q].at = "shown" => pane'[q].c = d /\ pane'[q].s = t
                        /\ pane'[q].at = "lost" => pane'[q].s = t
                        /\ pane'[q].at = "closed" => d \in quitting'
  BY DEF RouteInv
<1>1. PICK q : q = channels[d][t]
  OBVIOUS
<1>2. /\ channels'[d][t] = q /\ q # None /\ (early'[d][t] = early[d][t] \/ early'[d][t] = <<>>)
      /\ \/ pane'[q] = pane[q]
         \/ pane'[q].at = "lost" /\ pane'[q].s = t
         \/ pane'[q].at = "closed" /\ d \in quitting'
  BY <1>1
<1>3. /\ t <= opened /\ early[d][t] = <<>>
      /\ pane[q].at \in {"shown", "lost", "closed"}
      /\ pane[q].at = "shown" => pane[q].c = d /\ pane[q].s = t
      /\ pane[q].at = "lost" => pane[q].s = t
      /\ pane[q].at = "closed" => d \in quitting
  BY <1>1, <1>2 DEF AppInv, RouteInv
<1>4. /\ t <= opened' /\ early'[d][t] = <<>>
      /\ pane'[q].at \in {"shown", "lost", "closed"}
      /\ pane'[q].at = "shown" => pane'[q].c = d /\ pane'[q].s = t
      /\ pane'[q].at = "lost" => pane'[q].s = t
      /\ pane'[q].at = "closed" => d \in quitting'
  BY <1>2, <1>3
<1> QED BY <1>2, <1>4, Zenon

LEMMA TimesOutApp == ASSUME IndInv, AppInv, NEW p \in Pane, requestTimesOut(p) PROVE AppInv'
<1>0. DOMAIN pane = Pane /\ AppKinds
  BY DEF AppInv, IndInv, Types, AppTypes
<1>1. /\ pane[p].at = "asked"
      /\ UNCHANGED <<daemon, threads, wires, channels, early, view, quitting, known, excused>>
      /\ pane'[p].at = "failed" /\ pane'[p].c = None
      /\ \A q \in Pane : q # p => pane'[q] = pane[q]
  <2>1. PICK r : r = [at |-> "failed", c |-> None]
    OBVIOUS
  <2>2. pane' = [pane EXCEPT ![p] = r] /\ r.at = "failed" /\ r.c = None
    BY <2>1 DEF requestTimesOut
  <2> QED BY <1>0, <2>2 DEF requestTimesOut, history
<1>2. PanesGo
  BY <1>1 DEF PanesGo
<1>3. AppKinds'
  <2>1. /\ UNCHANGED <<opened, excused>> /\ DOMAIN known' = Client /\ quitting' \subseteq Client
        /\ view' \in [Pane -> Seq(Nat)] /\ channels' \in [Client -> [Session -> Pane \cup {None}]]
        /\ early' \in [Client -> [Session -> Seq(Nat)]]
    BY <1>0, <1>1 DEF AppKinds, daemon
  <2>2. \A q \in Pane : Len(view[q]) \in Nat /\ Len(view[q]) <= Len(view'[q])
    BY <1>0, <1>1 DEF AppKinds
  <2>3. \A q \in Pane : (pane'[q] = pane[q] /\ Len(view[q]) <= Len(view'[q])) \/ pane'[q].at = "failed"
    BY <1>1, <2>2
  <2> QED BY <1>0, <2>1, <2>3, KindsGo
<1>4. ConnOrder' /\ AwayInv'
  BY <1>1 DEF AppInv, ConnOrder, AwayInv, wires
<1>5. RouteInv'
  <2> SUFFICES ASSUME NEW d \in Client, NEW t \in Session, channels[d][t] # None
               PROVE  pane'[channels[d][t]] = pane[channels[d][t]]
    BY <1>1 DEF AppInv, RouteInv, daemon
  <2>1. channels[d][t] \in Pane
    BY <1>0 DEF AppKinds
  <2>2. pane[channels[d][t]].at # "asked"
    BY DEF AppInv, RouteInv
  <2> QED BY <1>1, <2>1, <2>2
<1>6. KnownInv'
  <2> SUFFICES ASSUME NEW q \in Pane, pane'[q].at = "shown" PROVE pane'[q] = pane[q]
    BY <1>1 DEF AppInv, KnownInv
  <2> QED BY <1>1
<1>7. QuitInv'
  <2> SUFFICES ASSUME NEW d \in quitting, NEW q \in Pane PROVE pane'[q].c # d
    BY <1>1 DEF QuitInv
  <2>1. d # None /\ pane[q].c # d
    BY <1>0, NoneIs DEF AppKinds, AppInv, QuitInv
  <2> QED BY <1>1, <2>1
<1>8. AskInv'
  <2>1. pane[p].c \in Client
    BY <1>1, CallIs
  <2>2. UNCHANGED <<dispatch, requests>> /\ UNCHANGED wire
    BY <1>1 DEF daemon, wires
  <2> QED BY <1>2, <2>1, <2>2, HearsAsks
<1> QED BY <1>3, <1>4, <1>5, <1>6, <1>7, <1>8 DEF AppInv

(* What pty_close does to the route and the pane.                          *)
Closes(p, c, s) ==
  /\ pane[p].at = "shown" /\ c = pane[p].c /\ s = pane[p].s /\ conn[c] = "up" /\ c \notin quitting
  /\ UNCHANGED <<daemon, threads, conn, wire, quitting, known, excused, saturated, closed,
                 stolen>>
  /\ channels' = [channels EXCEPT ![c][s] = None] /\ early' = [early EXCEPT ![c][s] = <<>>]
  /\ pane'[p].at = "closed" /\ pane'[p].c = None /\ view'[p] = <<>>
  /\ view' \in [Pane -> Seq(Nat)]
  /\ \A q \in Pane : q # p => pane'[q] = pane[q] /\ view'[q] = view[q]
  /\ \E r \in Request : r.k = "Close" /\ Send(c, r)

LEMMA CloseIs ==
  ASSUME IndInv, AppInv, NEW p \in Pane, pty_close(p)
  PROVE  \E c \in Client, s \in Session : Closes(p, c, s)
<1>1. PICK c : c = pane[p].c
  OBVIOUS
<1>2. PICK s : s = pane[p].s
  OBVIOUS
<1>3. pane[p].at = "shown" /\ c \in Client /\ conn[c] = "up" /\ c \notin quitting /\ s \in Session
  BY <1>1, <1>2, CallIs DEF pty_close
<1>4. PICK r : r = [at |-> "closed", c |-> None]
  OBVIOUS
<1>5. /\ pane' = [pane EXCEPT ![p] = r] /\ view' = [view EXCEPT ![p] = <<>>]
      /\ channels' = [channels EXCEPT ![c][s] = None] /\ early' = [early EXCEPT ![c][s] = <<>>]
      /\ UNCHANGED <<daemon, threads, conn, wire, quitting, known, excused, saturated, closed,
                     stolen>>
  BY <1>1, <1>2, <1>4 DEF pty_close, history
<1>6. PICK m : m = [k |-> "Close", s |-> s]
  OBVIOUS
<1>7. m \in Request /\ m.k = "Close" /\ Send(c, m)
  <2>1. m \in Request
    BY <1>3, <1>6 DEF Request
  <2> QED BY <1>1, <1>2, <1>6, <2>1 DEF pty_close
<1>8. DOMAIN pane = Pane /\ view \in [Pane -> Seq(Nat)] /\ r.at = "closed" /\ r.c = None
  BY <1>4 DEF AppInv, AppKinds, IndInv, Types, AppTypes
<1>9. /\ pane'[p].at = "closed" /\ pane'[p].c = None /\ view'[p] = <<>>
      /\ \A q \in Pane : q # p => pane'[q] = pane[q] /\ view'[q] = view[q]
  BY <1>5, <1>8
<1>10. view' \in [Pane -> Seq(Nat)]
  BY <1>5, <1>8
<1>11. Closes(p, c, s)
  BY <1>1, <1>2, <1>3, <1>5, <1>7, <1>9, <1>10 DEF Closes
<1> QED BY <1>3, <1>11

LEMMA CloseApp == ASSUME IndInv, AppInv, NEW p \in Pane, pty_close(p) PROVE AppInv'
<1>1. PICK c \in Client, s \in Session : Closes(p, c, s)
  BY CloseIs
<1>2. AppKinds
  BY DEF AppInv
<1>3. /\ channels' \in [Client -> [Session -> Pane \cup {None}]]
      /\ early' \in [Client -> [Session -> Seq(Nat)]]
      /\ channels'[c][s] = None /\ early'[c][s] = <<>>
      /\ \A d \in Client, t \in Session : d # c \/ t # s =>
           channels'[d][t] = channels[d][t] /\ early'[d][t] = early[d][t]
      /\ \A d \in Client, t \in Session : channels'[d][t] # None =>
           channels'[d][t] = channels[d][t] /\ early'[d][t] = early[d][t]
  <2>1. /\ channels \in [Client -> [Session -> Pane \cup {None}]]
        /\ early \in [Client -> [Session -> Seq(Nat)]]
    BY <1>2 DEF AppKinds
  <2>2. channels' = [channels EXCEPT ![c][s] = None] /\ early' = [early EXCEPT ![c][s] = <<>>]
    BY <1>1 DEF Closes
  <2> QED BY <2>1, <2>2, RouteGone
<1>4. PanesGo
  BY <1>1 DEF PanesGo, Closes
<1>5. AppKinds'
  <2>1. /\ UNCHANGED <<opened, excused>> /\ DOMAIN known' = Client /\ quitting' \subseteq Client
        /\ view' \in [Pane -> Seq(Nat)]
    BY <1>1, <1>2 DEF AppKinds, daemon, Closes
  <2>2. \A q \in Pane : Len(view[q]) \in Nat /\ (q # p => Len(view[q]) <= Len(view'[q]))
    BY <1>1, <1>2 DEF AppKinds, Closes
  <2>3. \A q \in Pane : (pane'[q] = pane[q] /\ Len(view[q]) <= Len(view'[q])) \/ pane'[q].at = "closed"
    BY <1>1, <2>2 DEF Closes
  <2> QED BY <1>2, <1>3, <2>1, <2>3, KindsGo
<1>6. ConnOrder'
  BY <1>1 DEF AppInv, ConnOrder, Closes
<1>7. AwayInv'
  BY <1>1, <1>3, AwayStays DEF AppInv, Closes
<1>8. RouteInv'
  <2>1. ASSUME NEW d \in Client, NEW t \in Session, channels'[d][t] # None
        PROVE  pane'[channels[d][t]] = pane[channels[d][t]]
    <3>1. channels'[d][t] = channels[d][t] /\ channels[d][t] \in Pane /\ (d # c \/ t # s)
      BY <1>2, <1>3, <2>1 DEF AppKinds
    <3>2. channels[d][t] # p
      BY <1>1, <2>1, <3>1 DEF AppInv, RouteInv, Closes
    <3> QED BY <1>1, <3>1, <3>2 DEF Closes
  <2>2. opened' = opened /\ quitting \subseteq quitting'
    BY <1>1 DEF Closes, daemon
  <2> QED BY <1>3, <2>1, <2>2, RouteKeeps
<1>9. KnownInv'
  <2> SUFFICES ASSUME NEW q \in Pane, pane'[q].at = "shown" PROVE pane'[q] = pane[q]
    BY <1>1 DEF AppInv, KnownInv, Closes
  <2> QED BY <1>1 DEF Closes
<1>10. QuitInv'
  <2> SUFFICES ASSUME NEW d \in quitting, NEW q \in Pane PROVE pane'[q].c # d
    BY <1>1 DEF QuitInv, Closes
  <2>1. d # None /\ pane[q].c # d
    BY <1>2, NoneIs DEF AppKinds, AppInv, QuitInv
  <2> QED BY <1>1, <2>1 DEF Closes
<1>11. AskInv'
  <2>1. PICK r \in Request : r.k = "Close" /\ Send(c, r)
    BY <1>1 DEF Closes
  <2>2. Asked(c, r)'
    BY <2>1 DEF Asked
  <2>3. UNCHANGED <<dispatch, wire>>
    BY <1>1 DEF Closes, daemon
  <2> QED BY <1>4, <2>1, <2>2, <2>3, SendAsks
<1> QED BY <1>5, <1>6, <1>7, <1>8, <1>9, <1>10, <1>11 DEF AppInv

(* A new pane asks, for a shell of its own or for session t; its app's     *)
(* pane that showed t may be lost by that.                                 *)
AsksFor(p, c, open, t) ==
  /\ pane[p].at = "new" /\ conn[c] = "up" /\ c \notin quitting /\ open \in BOOLEAN
  /\ UNCHANGED <<daemon, threads, conn, wire, channels, early, quitting, excused, saturated,
                 closed>>
  /\ pane'[p].at = "asked" /\ pane'[p].c = c /\ pane'[p].opener = open /\ pane'[p].seam = 0
  /\ pane'[p].s = t
  /\ view' \in [Pane -> Seq(Nat)]
  /\ \A q \in Pane : q # p =>
       \/ pane'[q] = pane[q] /\ view'[q] = view[q]
       \/ /\ pane[q].at = "shown" /\ pane[q].c = c /\ pane[q].s = t /\ ~open
          /\ pane'[q].at = "lost" /\ pane'[q].c = None /\ pane'[q].s = t
  /\ DOMAIN known' = Client /\ \A d \in Client : known[d] \subseteq known'[d]
  /\ IF open THEN t = None ELSE t \in Session /\ t \in 1 .. opened
  /\ \E r \in Request : r.p = p /\ Send(c, r) /\ IF open THEN r.k = "Open" ELSE r.k = "Attach" /\ r.s = t

LEMMA AsksApp ==
  ASSUME IndInv, AppInv, NEW p \in Pane, NEW c \in Client, NEW open, NEW t, AsksFor(p, c, open, t)
  PROVE  AppInv'
<1>0. AppKinds
  BY DEF AppInv
<1>1. PanesGo
  BY DEF PanesGo, AsksFor
<1>2. AppKinds'
  <2>1. /\ UNCHANGED <<opened, excused>> /\ DOMAIN known' = Client /\ quitting' \subseteq Client
        /\ view' \in [Pane -> Seq(Nat)] /\ channels' \in [Client -> [Session -> Pane \cup {None}]]
        /\ early' \in [Client -> [Session -> Seq(Nat)]]
    BY <1>0 DEF AppKinds, daemon, AsksFor
  <2>2. ASSUME NEW q \in Pane
        PROVE  \/ pane'[q] = pane[q] /\ Len(view[q]) <= Len(view'[q])
               \/ pane'[q].at \in {"asked", "answered", "shown"} =>
                    /\ pane'[q].opener \in BOOLEAN /\ pane'[q].seam \in 0 .. Len(view'[q])
                    /\ pane'[q].at = "asked" => /\ pane'[q].seam = 0
                                                /\ IF pane'[q].opener THEN pane'[q].s = None
                                                   ELSE pane'[q].s \in 1 .. opened
    <3>1. Len(view[q]) \in Nat /\ Len(view'[q]) \in Nat
      BY <1>0, <2>1 DEF AppKinds
    <3>2. CASE q = p
      <4>1. 0 \in 0 .. Len(view'[q])
        BY <3>1
      <4> QED BY <3>2, <4>1 DEF AsksFor
    <3>3. CASE pane'[q] = pane[q] /\ view'[q] = view[q]
      BY <3>1, <3>3
    <3>4. CASE pane'[q].at = "lost"
      BY <3>4
    <3> QED BY <3>2, <3>3, <3>4 DEF AsksFor
  <2> QED BY <1>0, <2>1, <2>2, KindsGo
<1>3. ConnOrder' /\ AwayInv'
  BY DEF AppInv, ConnOrder, AwayInv, AsksFor
<1>4. RouteInv'
  <2>1. ASSUME NEW d \in Client, NEW u \in Session, channels[d][u] # None
        PROVE  \/ pane'[channels[d][u]] = pane[channels[d][u]]
               \/ pane'[channels[d][u]].at = "lost" /\ pane'[channels[d][u]].s = u
    <3>1. PICK q \in Pane : q = channels[d][u]
      BY <1>0, <2>1 DEF AppKinds
    <3>2. pane[q].at # "new" /\ (pane[q].at = "shown" => pane[q].s = u)
      BY <2>1, <3>1 DEF AppInv, RouteInv
    <3> QED BY <3>1, <3>2 DEF AsksFor
  <2> QED BY <2>1, RouteKeeps DEF AsksFor, daemon
<1>5. KnownInv'
  <2> SUFFICES ASSUME NEW q \in Pane, pane'[q].at = "shown"
               PROVE  pane'[q].s \in known'[pane'[q].c]
    BY DEF KnownInv
  <2>1. pane'[q] = pane[q] /\ pane[q].s \in known[pane[q].c]
    BY DEF AppInv, KnownInv, AsksFor
  <2>2. pane[q].c \in Client
    BY <2>1, CallIs
  <2> QED BY <2>1, <2>2 DEF AsksFor
<1>6. QuitInv'
  <2> SUFFICES ASSUME NEW d \in quitting, NEW q \in Pane PROVE pane'[q].c # d
    BY DEF QuitInv, AsksFor
  <2>1. d # None /\ pane[q].c # d
    BY <1>0, NoneIs DEF AppKinds, AppInv, QuitInv
  <2> QED BY <2>1 DEF AsksFor
<1>7. AskInv'
  <2>1. PICK r \in Request : r.p = p /\ Send(c, r) /\ IF open THEN r.k = "Open" ELSE r.k = "Attach" /\ r.s = t
    BY DEF AsksFor
  <2>2. Asked(c, r)'
    <3>1. CASE open
      BY <2>1, <3>1 DEF Asked, Calls, AsksFor
    <3>2. CASE ~open
      BY <2>1, <3>2 DEF Asked, Attaches, Calls, AsksFor
    <3> QED BY <3>1, <3>2
  <2>3. UNCHANGED <<dispatch, wire>>
    BY DEF AsksFor, daemon
  <2> QED BY <1>1, <2>1, <2>2, <2>3, SendAsks
<1> QED BY <1>2, <1>3, <1>4, <1>5, <1>6, <1>7 DEF AppInv

LEMMA OpenAsks ==
  ASSUME IndInv, AppInv, NEW p \in Pane, NEW c \in Client, pty_open(p, c)
  PROVE  AsksFor(p, c, TRUE, None) /\ UNCHANGED <<known, stolen, view>>
<1>0. DOMAIN pane = Pane /\ AppKinds
  BY DEF AppInv, IndInv, Types, AppTypes
<1>1. PICK r : r = [at |-> "asked", c |-> c, s |-> None, opener |-> TRUE, seam |-> 0, alive |-> FALSE]
  OBVIOUS
<1>2. /\ pane' = [pane EXCEPT ![p] = r]
      /\ r.at = "asked" /\ r.c = c /\ r.s = None /\ r.opener = TRUE /\ r.seam = 0
  BY <1>1 DEF pty_open
<1>3. PICK m : m = [k |-> "Open", p |-> p]
  OBVIOUS
<1>4. m \in Request /\ m.p = p /\ m.k = "Open" /\ Send(c, m)
  BY <1>3 DEF pty_open, Request
<1>5. /\ pane[p].at = "new" /\ conn[c] = "up" /\ c \notin quitting
      /\ UNCHANGED <<daemon, threads, conn, wire, channels, early, view, quitting, known,
                     excused, saturated,
                     closed, stolen>>
  BY DEF pty_open, New, history
<1>6. pane'[p] = r /\ \A q \in Pane : q # p => pane'[q] = pane[q]
  BY <1>0, <1>2
<1>7. view' \in [Pane -> Seq(Nat)] /\ DOMAIN known' = Client
  BY <1>0, <1>5 DEF AppKinds
<1> QED BY <1>2, <1>4, <1>5, <1>6, <1>7 DEF AsksFor

(* The tick of the poll. *)
Adopts(p, c, t) ==
  /\ AsksFor(p, c, FALSE, t) /\ t \notin known[c] /\ t \in map
  /\ dispatch[c].at = "idle" /\ wire[c] = <<>> /\ UNCHANGED view
  /\ stolen' = IF \E q \in Of(c) : pane[q].at = "answered" /\ pane[q].s = t THEN stolen \cup {t} ELSE stolen

LEMMA AdoptAsks ==
  ASSUME IndInv, AppInv, NEW c \in Client, adopt(c)
  PROVE  \E p \in Pane, t \in Session : Adopts(p, c, t)
<1>0. DOMAIN pane = Pane /\ AppKinds
  BY DEF AppInv, IndInv, Types, AppTypes
<1>01. PICK t \in map \ known[c] : \E p \in Pane :
         /\ New(p) /\ Send(c, [k |-> "Attach", p |-> p, s |-> t])
         /\ pane' = [pane EXCEPT ![p] = [at |-> "asked", c |-> c, s |-> t, opener |-> FALSE, seam |-> 0, alive |-> FALSE]]
         /\ known' = [known EXCEPT ![c] = @ \cup {t}]
         /\ stolen' = IF \E q \in Of(c) : pane[q].at = "answered" /\ pane[q].s = t
                      THEN stolen \cup {t} ELSE stolen
  BY DEF adopt
<1>02. PICK p \in Pane :
         /\ New(p) /\ Send(c, [k |-> "Attach", p |-> p, s |-> t])
         /\ pane' = [pane EXCEPT ![p] = [at |-> "asked", c |-> c, s |-> t, opener |-> FALSE, seam |-> 0, alive |-> FALSE]]
         /\ known' = [known EXCEPT ![c] = @ \cup {t}]
         /\ stolen' = IF \E q \in Of(c) : pane[q].at = "answered" /\ pane[q].s = t
                      THEN stolen \cup {t} ELSE stolen
  BY <1>01
<1>03. t \in Session /\ t \in 1 .. opened /\ t \in map /\ t \notin known[c]
  BY <1>01, DispatchFacts DEF DaemonTypes
<1>1. PICK r : r = [at |-> "asked", c |-> c, s |-> t, opener |-> FALSE, seam |-> 0, alive |-> FALSE]
  OBVIOUS
<1>2. /\ pane' = [pane EXCEPT ![p] = r]
      /\ r.at = "asked" /\ r.c = c /\ r.s = t /\ r.opener = FALSE /\ r.seam = 0
  BY <1>02, <1>1
<1>3. PICK m : m = [k |-> "Attach", p |-> p, s |-> t]
  OBVIOUS
<1>4. m \in Request /\ m.p = p /\ m.k = "Attach" /\ m.s = t /\ Send(c, m)
  BY <1>02, <1>03, <1>3 DEF Request
<1>5. /\ pane[p].at = "new" /\ conn[c] = "up" /\ c \notin quitting /\ dispatch[c].at = "idle"
      /\ wire[c] = <<>>
      /\ UNCHANGED <<daemon, threads, conn, wire, channels, early, view, quitting, excused,
                     saturated, closed>>
  BY <1>02 DEF adopt, New
<1>6. pane'[p] = r /\ \A q \in Pane : q # p => pane'[q] = pane[q]
  BY <1>0, <1>2
<1>7. /\ view' \in [Pane -> Seq(Nat)] /\ DOMAIN known' = Client
      /\ \A d \in Client : known[d] \subseteq known'[d]
  BY <1>0, <1>02, <1>5 DEF AppKinds
<1>8. AsksFor(p, c, FALSE, t)
  BY <1>03, <1>2, <1>4, <1>5, <1>6, <1>7 DEF AsksFor
<1>9. Adopts(p, c, t)
  BY <1>02, <1>03, <1>5, <1>8 DEF Adopts
<1> QED BY <1>03, <1>9

LEMMA AttachAsks ==
  ASSUME IndInv, AppInv, NEW p \in Pane, NEW c \in Client, NEW q \in Pane, pty_attach(p, c, q)
  PROVE  /\ q # p /\ pane[q].at \in {"shown", "lost"} /\ UNCHANGED stolen
         /\ pane[q].c = c => pane'[q].at = "lost"
         /\ AsksFor(p, c, FALSE, pane[q].s) /\ pane[q].s \in Session
<1>0. DOMAIN pane = Pane /\ AppKinds
  BY DEF AppInv, IndInv, Types, AppTypes
<1>01. PICK t : t = pane[q].s
  OBVIOUS
<1>02. pane[q].at \in {"shown", "lost"} /\ pane[p].at = "new" /\ q # p
  BY DEF pty_attach, New
<1>03. t \in Session /\ t \in 1 .. opened
  <2>1. t \in Known
    BY <1>01, <1>02, DispatchFacts DEF PaneInv
  <2> QED BY <2>1, OpenedInSession DEF Known
<1>1. PICK r : r = [at |-> "asked", c |-> c, s |-> t, opener |-> FALSE, seam |-> 0, alive |-> FALSE]
  OBVIOUS
<1>11. PICK l : l = [at |-> "lost", c |-> None, s |-> t]
  OBVIOUS
<1>12. l.at = "lost" /\ l.c = None /\ l.s = t
  BY <1>11
<1>2. /\ pane' = IF pane[q].c = c THEN [pane EXCEPT ![p] = r, ![q] = l] ELSE [pane EXCEPT ![p] = r]
      /\ view' = IF pane[q].c = c THEN [view EXCEPT ![q] = <<>>] ELSE view
      /\ r.at = "asked" /\ r.c = c /\ r.s = t /\ r.opener = FALSE /\ r.seam = 0
  BY <1>01, <1>02, <1>1, <1>11 DEF pty_attach, Lost
<1>3. PICK m : m = [k |-> "Attach", p |-> p, s |-> t]
  OBVIOUS
<1>4. m \in Request /\ m.p = p /\ m.k = "Attach" /\ m.s = t /\ Send(c, m)
  BY <1>01, <1>03, <1>3 DEF Request, pty_attach
<1>5. /\ conn[c] = "up" /\ c \notin quitting
      /\ UNCHANGED <<daemon, threads, conn, wire, channels, early, quitting, excused, saturated,
                     closed, stolen>>
      /\ known' = [known EXCEPT ![c] = @ \cup {t}]
  BY <1>01 DEF pty_attach, history
<1>6. /\ pane'[p] = r /\ view' \in [Pane -> Seq(Nat)]
      /\ \A u \in Pane : u # p =>
           \/ pane'[u] = pane[u] /\ view'[u] = view[u]
           \/ u = q /\ pane[q].c = c /\ pane'[u] = l
  <2>1. CASE pane[q].c = c
    <3>1. pane' = [pane EXCEPT ![p] = r, ![q] = l] /\ view' = [view EXCEPT ![q] = <<>>]
      BY <1>2, <2>1
    <3>2. view \in [Pane -> Seq(Nat)]
      BY <1>0 DEF AppKinds
    <3> QED BY <1>0, <1>02, <2>1, <3>1, <3>2
  <2>2. CASE pane[q].c # c
    <3>1. pane' = [pane EXCEPT ![p] = r] /\ view' = view
      BY <1>2, <2>2
    <3> QED BY <1>0, <3>1 DEF AppKinds
  <2> QED BY <2>1, <2>2
<1>7. DOMAIN known' = Client /\ \A d \in Client : known[d] \subseteq known'[d]
  BY <1>0, <1>5 DEF AppKinds
<1>8. pane[q].c = c => pane[q].at = "shown"
  <2>1. pane[q].at = "lost" => pane[q].c = None
    BY DispatchFacts DEF PaneInv
  <2> QED BY <1>02, <2>1, NoneIs
<1>9. AsksFor(p, c, FALSE, t)
  <2>1. \A u \in Pane : u # p =>
           \/ pane'[u] = pane[u] /\ view'[u] = view[u]
           \/ /\ pane[u].at = "shown" /\ pane[u].c = c /\ pane[u].s = t
              /\ pane'[u].at = "lost" /\ pane'[u].c = None /\ pane'[u].s = t
    BY <1>01, <1>12, <1>6, <1>8
  <2> QED BY <1>02, <1>03, <1>2, <1>4, <1>5, <1>6, <1>7, <2>1 DEF AsksFor
<1>10. pane[q].c = c => pane'[q].at = "lost"
  BY <1>0, <1>02, <1>12, <1>2
<1> QED BY <1>01, <1>02, <1>03, <1>5, <1>9, <1>10

(* The quit of the last app: its panes are closed.                         *)
Quits(c) ==
  /\ conn[c] = "up" /\ quitting' = quitting \cup {c}
  /\ UNCHANGED <<daemon, threads, conn, wire, channels, early, known, excused, saturated, closed,
                 stolen>>
  /\ view' \in [Pane -> Seq(Nat)]
  /\ \A q \in Pane : IF pane[q].c = c THEN pane'[q].at = "closed" /\ pane'[q].c = None
                     ELSE pane'[q] = pane[q] /\ view'[q] = view[q]
  /\ \E r \in Request : r.k = "KillAll" /\ Send(c, r)

LEMMA QuitsIs == ASSUME IndInv, AppInv, NEW c \in Client, pty_kill_all(c) PROVE Quits(c)
<1>0. DOMAIN pane = Pane /\ AppKinds
  BY DEF AppInv, IndInv, Types, AppTypes
<1>1. PICK r : r = [at |-> "closed", c |-> None]
  OBVIOUS
<1>2. r.at = "closed" /\ r.c = None
  BY <1>1
<1>3. PICK m : m = [k |-> "KillAll"]
  OBVIOUS
<1>4. m \in Request /\ m.k = "KillAll" /\ Send(c, m)
  BY <1>3 DEF pty_kill_all, Request
<1>5. \A q \in Pane : IF pane[q].c = c THEN pane'[q] = r /\ view'[q] = <<>>
                      ELSE pane'[q] = pane[q] /\ view'[q] = view[q]
  BY <1>1 DEF pty_kill_all, Of
<1>6. view' \in [Pane -> Seq(Nat)]
  <2>1. view' = [q \in Pane |-> IF q \in Of(c) THEN <<>> ELSE view[q]]
    BY DEF pty_kill_all
  <2>2. \A q \in Pane : view[q] \in Seq(Nat) /\ <<>> \in Seq(Nat)
    BY <1>0 DEF AppKinds
  <2> QED BY <2>1, <2>2
<1>7. /\ conn[c] = "up" /\ quitting' = quitting \cup {c}
      /\ UNCHANGED <<daemon, threads, conn, wire, channels, early, known, excused, saturated,
                     closed, stolen>>
  BY DEF pty_kill_all, history
<1>8. \A q \in Pane : IF pane[q].c = c THEN pane'[q].at = "closed" /\ pane'[q].c = None
                      ELSE pane'[q] = pane[q] /\ view'[q] = view[q]
  BY <1>2, <1>5
<1> QED BY <1>4, <1>6, <1>7, <1>8 DEF Quits

LEMMA QuitsApp == ASSUME IndInv, AppInv, NEW c \in Client, Quits(c) PROVE AppInv'
<1>0. AppKinds
  BY DEF AppInv
<1>1. PanesGo
  BY DEF PanesGo, Quits
<1>2. AppKinds'
  <2>1. /\ UNCHANGED <<opened, excused>> /\ DOMAIN known' = Client /\ quitting' \subseteq Client
        /\ view' \in [Pane -> Seq(Nat)] /\ channels' \in [Client -> [Session -> Pane \cup {None}]]
        /\ early' \in [Client -> [Session -> Seq(Nat)]]
    BY <1>0 DEF AppKinds, daemon, Quits
  <2>2. \A q \in Pane : Len(view[q]) \in Nat
    BY <1>0 DEF AppKinds
  <2>3. \A q \in Pane : (pane'[q] = pane[q] /\ Len(view[q]) <= Len(view'[q])) \/ pane'[q].at = "closed"
    BY <2>2 DEF Quits
  <2> QED BY <1>0, <2>1, <2>3, KindsGo
<1>3. ConnOrder' /\ AwayInv'
  BY DEF AppInv, ConnOrder, AwayInv, Quits
<1>4. RouteInv'
  <2>1. ASSUME NEW d \in Client, NEW u \in Session, channels[d][u] # None
        PROVE  \/ pane'[channels[d][u]] = pane[channels[d][u]]
               \/ pane'[channels[d][u]].at = "closed" /\ d \in quitting'
    <3>1. PICK q \in Pane : q = channels[d][u]
      BY <1>0, <2>1 DEF AppKinds
    <3>2. pane[q].at \in {"shown", "lost", "closed"} /\ (pane[q].at = "shown" => pane[q].c = d)
      BY <2>1, <3>1 DEF AppInv, RouteInv
    <3>3. pane[q].at \in {"lost", "closed"} => pane[q].c = None
      BY DispatchFacts DEF PaneInv
    <3>4. c # None
      BY NoneIs
    <3> QED BY <3>1, <3>2, <3>3, <3>4 DEF Quits
  <2>2. opened' = opened /\ quitting \subseteq quitting' /\ UNCHANGED <<channels, early>>
    BY DEF Quits, daemon
  <2> QED BY <2>1, <2>2, RouteKeeps
<1>5. KnownInv'
  <2> SUFFICES ASSUME NEW q \in Pane, pane'[q].at = "shown" PROVE pane'[q] = pane[q]
    BY DEF AppInv, KnownInv, Quits
  <2> QED BY DEF Quits
<1>6. QuitInv'
  <2> SUFFICES ASSUME NEW d \in quitting', NEW q \in Pane PROVE pane'[q].c # d
    BY DEF QuitInv
  <2>1. d \in quitting \cup {c} /\ d # None /\ (d # c => pane[q].c # d)
    BY <1>0, NoneIs DEF AppKinds, AppInv, QuitInv, Quits
  <2> QED BY <2>1 DEF Quits
<1>7. AskInv'
  <2>1. PICK r \in Request : r.k = "KillAll" /\ Send(c, r)
    BY DEF Quits
  <2>2. Asked(c, r)'
    BY <2>1 DEF Asked
  <2>3. UNCHANGED <<dispatch, wire>>
    BY DEF Quits, daemon
  <2> QED BY <1>1, <2>1, <2>2, <2>3, SendAsks
<1> QED BY <1>2, <1>3, <1>4, <1>5, <1>6, <1>7 DEF AppInv

(* The app of a connection goes, and its panes with it.                    *)
Leaves(c) ==
  /\ conn[c] = "up" /\ conn' = [conn EXCEPT ![c] = "left"]
  /\ UNCHANGED <<daemon, threads, requests, quitting, excused, saturated, closed, stolen>>
  /\ \A d \in Client : IF d = c THEN wire'[d] = <<>>
                       ELSE wire'[d] = wire[d] /\ known'[d] = known[d] /\ conn'[d] = conn[d]
  /\ \A d \in Client, t \in Session :
       IF d = c THEN early'[d][t] = <<>> /\ channels'[d][t] = None
       ELSE early'[d][t] = early[d][t] /\ channels'[d][t] = channels[d][t]
  /\ early' \in [Client -> [Session -> Seq(Nat)]]
  /\ channels' \in [Client -> [Session -> Pane \cup {None}]]
  /\ view' \in [Pane -> Seq(Nat)] /\ DOMAIN known' = Client
  /\ \A q \in Pane : IF pane[q].c # c THEN pane'[q] = pane[q] /\ view'[q] = view[q]
                     ELSE /\ pane'[q].c = None
                          /\ \/ pane'[q].at = "failed"
                             \/ pane'[q].at = "lost" /\ pane[q].at \in {"shown", "lost"} /\ pane'[q].s = pane[q].s

LEMMA LeavesIs == ASSUME IndInv, AppInv, NEW c \in Client, disconnect(c) PROVE Leaves(c)
<1>0. DOMAIN pane = Pane /\ AppKinds /\ DOMAIN wire = Client /\ DOMAIN conn = Client
  BY DEF AppInv, IndInv, Types, AppTypes, WireTypes
<1>1. /\ conn[c] = "up" /\ conn' = [conn EXCEPT ![c] = "left"]
      /\ UNCHANGED <<daemon, threads, requests, quitting, excused, saturated, closed, stolen>>
      /\ wire' = [wire EXCEPT ![c] = <<>>] /\ known' = [known EXCEPT ![c] = {}]
  BY DEF disconnect, history
<1>2. \A d \in Client : IF d = c THEN wire'[d] = <<>>
                        ELSE wire'[d] = wire[d] /\ known'[d] = known[d] /\ conn'[d] = conn[d]
  BY <1>0, <1>1 DEF AppKinds
<1>3. /\ early' \in [Client -> [Session -> Seq(Nat)]]
      /\ channels' \in [Client -> [Session -> Pane \cup {None}]]
  <2>1. PICK e : e = [s \in Session |-> <<>>]
    OBVIOUS
  <2>2. PICK n : n = [s \in Session |-> None]
    OBVIOUS
  <2>3. e \in [Session -> Seq(Nat)] /\ n \in [Session -> Pane \cup {None}]
    BY <2>1, <2>2
  <2>4. early' = [early EXCEPT ![c] = e] /\ channels' = [channels EXCEPT ![c] = n]
    BY <2>1, <2>2 DEF disconnect
  <2> QED BY <1>0, <2>3, <2>4 DEF AppKinds
<1>4. \A d \in Client, t \in Session :
        IF d = c THEN early'[d][t] = <<>> /\ channels'[d][t] = None
        ELSE early'[d][t] = early[d][t] /\ channels'[d][t] = channels[d][t]
  BY <1>0 DEF disconnect, AppKinds
<1>5. view' \in [Pane -> Seq(Nat)]
  <2>1. view' = [q \in Pane |-> IF q \in Of(c) THEN <<>> ELSE view[q]]
    BY DEF disconnect
  <2>2. \A q \in Pane : view[q] \in Seq(Nat) /\ <<>> \in Seq(Nat)
    BY <1>0 DEF AppKinds
  <2> QED BY <2>1, <2>2
<1>6. ASSUME NEW q \in Pane, pane[q].c # c PROVE pane'[q] = pane[q] /\ view'[q] = view[q]
  BY <1>6 DEF disconnect, Of
<1>7. ASSUME NEW q \in Pane, pane[q].c = c
      PROVE  /\ pane'[q].c = None
             /\ \/ pane'[q].at = "failed"
                \/ pane'[q].at = "lost" /\ pane[q].at \in {"shown", "lost"} /\ pane'[q].s = pane[q].s
  <2>1. pane'[q] = Lost(q)
    BY <1>7 DEF disconnect, Of
  <2>2. PICK l : l = [at |-> "lost", c |-> None, s |-> pane[q].s]
    OBVIOUS
  <2>3. PICK f : f = [at |-> "failed", c |-> None]
    OBVIOUS
  <2>4. l.at = "lost" /\ l.c = None /\ l.s = pane[q].s /\ f.at = "failed" /\ f.c = None
    BY <2>2, <2>3
  <2>5. (pane[q].at \in {"shown", "lost"} /\ pane'[q] = l) \/ pane'[q] = f
    BY <2>1, <2>2, <2>3 DEF Lost
  <2> QED BY <2>4, <2>5
<1>8. DOMAIN known' = Client
  BY <1>0, <1>1 DEF AppKinds
<1> QED BY <1>1, <1>2, <1>3, <1>4, <1>5, <1>6, <1>7, <1>8 DEF Leaves

LEMMA LeavesApp == ASSUME IndInv, AppInv, NEW c \in Client, Leaves(c) PROVE AppInv'
<1>0. AppKinds /\ DOMAIN conn = Client
  BY DEF AppInv, IndInv, Types, WireTypes
<1>01. conn'[c] = "left" /\ \A d \in Client : d # c => conn'[d] = conn[d]
  BY <1>0 DEF Leaves
<1>1. PanesGo
  BY DEF PanesGo, Leaves
<1>2. AppKinds'
  <2>1. /\ UNCHANGED <<opened, excused>> /\ DOMAIN known' = Client /\ quitting' \subseteq Client
        /\ view' \in [Pane -> Seq(Nat)] /\ channels' \in [Client -> [Session -> Pane \cup {None}]]
        /\ early' \in [Client -> [Session -> Seq(Nat)]]
    BY <1>0 DEF AppKinds, daemon, Leaves
  <2>2. \A q \in Pane : Len(view[q]) \in Nat
    BY <1>0 DEF AppKinds
  <2>3. \A q \in Pane : (pane'[q] = pane[q] /\ Len(view[q]) <= Len(view'[q])) \/ pane'[q].at \in {"failed", "lost"}
    BY <2>2 DEF Leaves
  <2> QED BY <1>0, <2>1, <2>3, KindsGo
<1>3. ConnOrder'
  BY <1>01 DEF AppInv, ConnOrder, Leaves
<1>31. AwayInv'
  <2>1. ASSUME NEW d \in Client, conn'[d] # "up" PROVE wire'[d] = <<>>
    <3>1. CASE d = c
      BY <3>1 DEF Leaves
    <3>2. CASE d # c
      <4>1. conn[d] # "up" /\ wire'[d] = wire[d]
        BY <1>01, <2>1, <3>2 DEF Leaves
      <4> QED BY <4>1 DEF AppInv, AwayInv
    <3> QED BY <3>1, <3>2
  <2>2. ASSUME NEW d \in Client, conn'[d] # "up", NEW t \in Session
        PROVE  early'[d][t] = <<>> /\ channels'[d][t] = None
    <3>1. CASE d = c
      BY <3>1 DEF Leaves
    <3>2. CASE d # c
      <4>1. conn[d] # "up" /\ early'[d][t] = early[d][t] /\ channels'[d][t] = channels[d][t]
        BY <1>01, <2>2, <3>2 DEF Leaves
      <4> QED BY <4>1 DEF AppInv, AwayInv
    <3> QED BY <3>1, <3>2
  <2> QED BY <2>1, <2>2 DEF AwayInv
<1>4. RouteInv'
  <2>1. ASSUME NEW d \in Client, NEW u \in Session, channels'[d][u] # None
        PROVE  /\ channels'[d][u] = channels[d][u] /\ early'[d][u] = early[d][u]
               /\ pane'[channels[d][u]] = pane[channels[d][u]]
    <3>0. d # c /\ channels'[d][u] = channels[d][u] /\ early'[d][u] = early[d][u]
      BY <2>1 DEF Leaves
    <3>1. PICK q \in Pane : q = channels[d][u]
      BY <1>0, <2>1, <3>0 DEF AppKinds
    <3>2. pane[q].at \in {"shown", "lost", "closed"} /\ (pane[q].at = "shown" => pane[q].c = d)
      BY <2>1, <3>0, <3>1 DEF AppInv, RouteInv
    <3>3. pane[q].at \in {"lost", "closed"} => pane[q].c = None
      BY DispatchFacts DEF PaneInv
    <3>4. c # None
      BY NoneIs
    <3> QED BY <3>0, <3>1, <3>2, <3>3, <3>4 DEF Leaves
  <2>2. opened' = opened /\ quitting \subseteq quitting'
    BY DEF Leaves, daemon
  <2> QED BY <2>1, <2>2, RouteKeeps
<1>5. KnownInv'
  <2> SUFFICES ASSUME NEW q \in Pane, pane'[q].at = "shown"
               PROVE  pane'[q].s \in known'[pane'[q].c]
    BY DEF KnownInv
  <2>1. pane'[q] = pane[q] /\ pane[q].s \in known[pane[q].c] /\ pane[q].c # c
    BY DEF AppInv, KnownInv, Leaves
  <2>2. pane[q].c \in Client
    BY <2>1, CallIs
  <2> QED BY <2>1, <2>2 DEF Leaves
<1>6. QuitInv'
  <2> SUFFICES ASSUME NEW d \in quitting, NEW q \in Pane PROVE pane'[q].c # d
    BY DEF QuitInv, Leaves
  <2>1. d # None /\ pane[q].c # d
    BY <1>0, NoneIs DEF AppKinds, AppInv, QuitInv
  <2> QED BY <2>1 DEF Leaves
<1>7. AskInv'
  <2>1. \A d \in Client : Works(d, dispatch'[d])
    BY DEF AppInv, AskInv, Leaves, daemon
  <2>2. \A d \in Client : \A i \in 1 .. Len(requests'[d]) : Asked(d, requests'[d][i])
    BY DEF AppInv, AskInv, Leaves
  <2>3. \A d \in Client : \A i \in 1 .. Len(wire'[d]) : Fits(d, wire'[d][i])
    <3> SUFFICES ASSUME NEW d \in Client, NEW i \in 1 .. Len(wire'[d]) PROVE Fits(d, wire'[d][i])
      OBVIOUS
    <3>1. wire'[d] # <<>>
      OBVIOUS
    <3> QED BY <3>1 DEF AppInv, AskInv, Leaves
  <2> QED BY <1>1, <2>1, <2>2, <2>3, AskStays
<1> QED BY <1>2, <1>3, <1>31, <1>4, <1>5, <1>6, <1>7 DEF AppInv

LEMMA InitApp == ASSUME Init PROVE AppInv
<1>1. AppKinds
  <2>1. /\ view \in [Pane -> Seq(Nat)] /\ channels \in [Client -> [Session -> Pane \cup {None}]]
        /\ early \in [Client -> [Session -> Seq(Nat)]]
    BY DEF Init
  <2>2. DOMAIN known = Client /\ DOMAIN excused = Session /\ quitting \subseteq Client
    BY DEF Init
  <2>3. \A p \in Pane : pane[p].at = "new"
    BY DEF Init
  <2> QED BY <2>1, <2>2, <2>3 DEF AppKinds
<1>2. ConnOrder /\ AwayInv /\ RouteInv /\ KnownInv /\ QuitInv
  <2>1. \A p \in Pane : pane[p].at = "new"
    BY DEF Init
  <2>2. /\ \A c \in Client : conn[c] = "off" /\ wire[c] = <<>>
        /\ \A c \in Client, s \in Session : early[c][s] = <<>> /\ channels[c][s] = None
        /\ quitting = {}
    BY DEF Init
  <2>3. ConnOrder /\ AwayInv
    BY <2>2 DEF ConnOrder, AwayInv
  <2>4. RouteInv
    BY <2>2 DEF RouteInv
  <2>5. KnownInv
    BY <2>1 DEF KnownInv
  <2>6. QuitInv
    BY <2>2 DEF QuitInv
  <2> QED BY <2>3, <2>4, <2>5, <2>6
<1>3. AskInv
  <2>1. \A c \in Client : dispatch[c].at = "idle" /\ Len(requests[c]) = 0 /\ Len(wire[c]) = 0
    BY DEF Init, Idle
  <2>2. ASSUME NEW c \in Client PROVE Works(c, dispatch[c])
    BY <2>1 DEF Works
  <2> QED BY <2>1, <2>2 DEF AskInv
<1> QED BY <1>1, <1>2, <1>3 DEF AppInv

----------------------------------------------------------------------------
(* No pane has a session twice. *)

Holds(p) == pane[p].at \in {"answered", "shown"} /\ pane[p].opener

LEMMA OwnKeeps ==
  ASSUME IndInv, AppInv, OwnInv, opened <= opened', opened' \in Nat, stolen \subseteq stolen',
         \A c \in Client, s \in Session : \A i \in Nat : conn'[c] = "up" /\ OpenAt(c, i, s)' =>
            /\ conn[c] = "up" /\ OpenAt(c, i, s)
            /\ channels'[c][s] # None => channels[c][s] # None,
         \A q \in Pane, s \in Session : Has(q, s)' => Has(q, s),
         \A p \in Pane : Holds(p)' => Holds(p) /\ pane'[p].s = pane[p].s
  PROVE  OwnInv'
<1>0. opened \in Nat
  BY DispatchFacts DEF DaemonTypes
<1>1. OpenInv'
  <2> SUFFICES ASSUME NEW c \in Client, conn'[c] = "up", NEW s \in Session, NEW i \in Nat,
                      OpenAt(c, i, s)'
               PROVE  /\ s <= opened' /\ channels'[c][s] = None
                      /\ \A j \in Nat : OpenAt(c, j, s)' => i = j
                      /\ \A q \in Pane : ~Has(q, s)'
    BY Zenon DEF OpenInv
  <2>1. conn[c] = "up" /\ OpenAt(c, i, s) /\ (channels'[c][s] # None => channels[c][s] # None)
    BY Zenon
  <2>2. /\ s <= opened /\ channels[c][s] = None
        /\ \A j \in Nat : OpenAt(c, j, s) => i = j
        /\ \A q \in Pane : ~Has(q, s)
    BY <2>1, Zenon DEF OwnInv, OpenInv
  <2>3. s <= opened'
    BY <1>0, <2>2 DEF Session
  <2>4. \A j \in Nat : OpenAt(c, j, s)' => i = j
    BY <2>2, Zenon
  <2>5. \A q \in Pane : ~Has(q, s)'
    BY <2>2, Zenon
  <2> QED BY <2>1, <2>2, <2>3, <2>4, <2>5, Zenon
<1>2. HolderInv'
  <2> SUFFICES ASSUME NEW p \in Pane, Holds(p)', pane'[p].s \notin stolen', NEW q \in Pane, q # p
               PROVE  ~Has(q, pane[p].s)'
    BY Zenon DEF HolderInv, Holds
  <2>1. Holds(p) /\ pane'[p].s = pane[p].s /\ pane[p].s \notin stolen
    OBVIOUS
  <2>2. pane[p].s \in Session
    BY <2>1, CallIs DEF Holds
  <2>3. ~Has(q, pane[p].s)
    BY <2>1, Zenon DEF OwnInv, HolderInv, Holds
  <2>4. PICK s \in Session : s = pane[p].s
    BY <2>2
  <2>5. ~Has(q, s)'
    BY <2>3, <2>4, Zenon
  <2> QED BY <2>1, <2>4, <2>5 DEF Has
<1> QED BY <1>1, <1>2 DEF OwnInv

(* The panes as they are. *)
LEMMA OwnStill ==
  ASSUME IndInv, AppInv, OwnInv, UNCHANGED <<pane, channels, conn, stolen>>, opened <= opened',
         opened' \in Nat,
         \A c \in Client, s \in Session : \A i \in Nat : conn[c] = "up" /\ OpenAt(c, i, s)' =>
           OpenAt(c, i, s)
  PROVE  OwnInv'
<1>1. \A q \in Pane, s \in Session : Has(q, s)' => Has(q, s)
  BY DEF Has
<1>2. \A p \in Pane : Holds(p)' => Holds(p) /\ pane'[p].s = pane[p].s
  BY DEF Holds
<1>3. stolen \subseteq stolen'
  OBVIOUS
<1>4. \A c \in Client, s \in Session : \A i \in Nat : conn'[c] = "up" /\ OpenAt(c, i, s)' =>
            /\ conn[c] = "up" /\ OpenAt(c, i, s)
            /\ channels'[c][s] # None => channels[c][s] # None
  BY Zenon
<1> QED BY <1>1, <1>2, <1>3, <1>4, OwnKeeps, Zenon

LEMMA AddsOpen ==
  ASSUME WireAdds, NEW c \in Client, NEW i \in Nat, i \in 1 .. Len(wire'[c]),
         wire'[c][i].k = "OpenOk"
  PROVE  i \in 1 .. Len(wire[c]) /\ wire'[c][i] = wire[c][i]
<1>1. Len(wire'[c]) \in Nat /\ Len(wire[c]) <= Len(wire'[c]) /\ Len(wire[c]) \in Nat
  BY DEF WireAdds
<1>2. CASE i \in 1 .. Len(wire[c])
  BY <1>2 DEF WireAdds
<1>3. CASE i \in Len(wire[c]) + 1 .. Len(wire'[c])
  BY <1>3 DEF WireAdds
<1> QED BY <1>1, <1>2, <1>3

LEMMA ThreadOwn == ASSUME IndInv, AppInv, OwnInv, ThreadStill PROVE OwnInv'
<1>1. /\ UNCHANGED <<pane, channels, conn, stolen, dispatch>> /\ opened <= opened'
      /\ opened' \in Nat
      /\ WireAdds
  BY DispatchFacts DEF ThreadStill, app, DaemonTypes
<1>2. ASSUME NEW c \in Client, NEW s \in Session, NEW i \in Nat, OpenAt(c, i, s)'
      PROVE  OpenAt(c, i, s)
  BY <1>1, <1>2, AddsOpen DEF OpenAt
<1> QED BY <1>1, <1>2, OwnStill

(* A dispatcher that has no opening, or keeps the one it has. *)
LEMMA DispatchOwn ==
  ASSUME IndInv, AppInv, OwnInv, NEW c \in Client, DispatchStill(c),
         \A s \in Session : OpenAt(c, 0, s)' => OpenAt(c, 0, s)
  PROVE  OwnInv'
<1>1. /\ UNCHANGED <<pane, channels, conn, stolen>> /\ opened <= opened' /\ opened' \in Nat
      /\ WireAdds
      /\ \A d \in Client : d # c => dispatch'[d] = dispatch[d]
  BY DispatchFacts DEF DispatchStill, app
<1>2. ASSUME NEW d \in Client, NEW s \in Session, NEW i \in Nat, OpenAt(d, i, s)'
      PROVE  OpenAt(d, i, s)
  <2>1. CASE i = 0 /\ d = c
    BY <1>2, <2>1
  <2>2. CASE i = 0 /\ d # c
    BY <1>1, <1>2, <2>2 DEF OpenAt
  <2>3. CASE i # 0
    BY <1>1, <1>2, <2>3, AddsOpen DEF OpenAt
  <2> QED BY <2>1, <2>2, <2>3
<1> QED BY <1>1, <1>2, OwnStill

LEMMA SpawnsOwn ==
  ASSUME IndInv, AppInv, OwnInv, NEW c \in Client,
         openSpawns(c) \/ openSpawnFails(c) \/ openFills(c)
  PROVE  OwnInv'
<1>1. /\ dispatch[c].at \in {"spawn", "fill"}
      /\ \/ dispatch' = [dispatch EXCEPT ![c].at = "fill"]
         \/ dispatch' = [dispatch EXCEPT ![c] = [at |-> "reply", msg |-> [k |-> "Err", p |-> dispatch[c].p]]]
         \/ dispatch' = [dispatch EXCEPT ![c] = [at |-> "reply",
              msg |-> [k |-> "OpenOk", p |-> dispatch[c].p, s |-> dispatch[c].s]]]
  BY DEF openSpawns, openSpawnFails, openFills, Answer
<1>2. dispatch[c] \in [at : {"spawn", "fill"}, s : Session, p : Pane]
  BY <1>1, Spawning
<1>3. ASSUME NEW s \in Session, OpenAt(c, 0, s)' PROVE OpenAt(c, 0, s)
  <2>1. CASE dispatch' = [dispatch EXCEPT ![c].at = "fill"]
    <3>1. dispatch'[c].at = "fill" /\ dispatch'[c].s = dispatch[c].s
      BY <1>2, <2>1, DispatchFacts
    <3> QED BY <1>1, <1>3, <3>1 DEF OpenAt
  <2>2. CASE dispatch' = [dispatch EXCEPT ![c] = [at |-> "reply", msg |-> [k |-> "Err", p |-> dispatch[c].p]]]
    <3>1. dispatch'[c].at = "reply" /\ dispatch'[c].msg.k = "Err"
      BY <2>2, DispatchFacts
    <3> QED BY <1>3, <3>1 DEF OpenAt
  <2>3. CASE dispatch' = [dispatch EXCEPT ![c] = [at |-> "reply",
                            msg |-> [k |-> "OpenOk", p |-> dispatch[c].p, s |-> dispatch[c].s]]]
    <3>1. dispatch'[c].at = "reply" /\ dispatch'[c].msg.s = dispatch[c].s
      BY <2>3, DispatchFacts
    <3> QED BY <1>1, <1>3, <3>1 DEF OpenAt
  <2> QED BY <1>1, <2>1, <2>2, <2>3
<1> QED BY <1>3, SpawnsApp, DispatchOwn

LEMMA ServesOwn ==
  ASSUME IndInv, AppInv, OwnInv, NEW c \in Client,
         attachCopies(c) \/ attachSubscribes(c) \/ serveClose(c) \/ serveKillAll(c)
  PROVE  OwnInv'
<1>1. DispatchStill(c)
  BY AttachApp, ServesApp
<1>2. \/ dispatch' = dispatch
      \/ dispatch' = [dispatch EXCEPT ![c] = [at |-> "reply", msg |-> [k |-> "Killed"]]]
      \/ dispatch' = [dispatch EXCEPT ![c] = [at |-> "copied", s |-> Head1(c).s, p |-> Head1(c).p,
                                        copy |-> scrollback[Head1(c).s], alive |-> alive[Head1(c).s]]]
      \/ dispatch' = [dispatch EXCEPT ![c] = [at |-> "reply", msg |-> [k |-> "Err", p |-> Head1(c).p]]]
      \/ dispatch' = [dispatch EXCEPT ![c] = [at |-> "reply",
                 msg |-> [k |-> "AttachOk", p |-> dispatch[c].p, s |-> dispatch[c].s,
                          copy |-> dispatch[c].copy, alive |-> dispatch[c].alive]]]
  BY DEF attachCopies, attachSubscribes, serveClose, serveKillAll, Answer
<1>3. \/ dispatch' = dispatch
      \/ dispatch'[c].at = "copied"
      \/ dispatch'[c].at = "reply" /\ dispatch'[c].msg.k \in {"Killed", "Err", "AttachOk"}
  BY <1>2, DispatchFacts
<1>4. ASSUME NEW s \in Session, OpenAt(c, 0, s)' PROVE OpenAt(c, 0, s)
  BY <1>3, <1>4 DEF OpenAt
<1> QED BY <1>1, <1>4, DispatchOwn

LEMMA HasOpened ==
  ASSUME IndInv, AppInv, NEW q \in Pane, NEW s \in Session, Has(q, s)
  PROVE  s <= opened
<1>0. opened \in Nat
  BY DispatchFacts DEF DaemonTypes
<1>1. CASE pane[q].at \in {"answered", "shown", "lost"}
  <2>1. pane[q].s \in Known
    BY <1>1, DispatchFacts DEF PaneInv
  <2> QED BY <1>0, <2>1 DEF Known, Has
<1>2. CASE pane[q].at = "asked"
  <2>1. IF pane[q].opener THEN pane[q].s = None ELSE pane[q].s \in 1 .. opened
    BY <1>2 DEF AppInv, AppKinds
  <2> QED BY <1>0, <2>1, NoneIs DEF Has
<1> QED BY <1>1, <1>2 DEF Has

LEMMA ReservesOwn == ASSUME IndInv, AppInv, OwnInv, NEW c \in Client, openReserves(c) PROVE OwnInv'
<1>1. DispatchStill(c)
  BY ReservesApp
<1>2. \/ opened' = opened + 1 /\ dispatch' = [dispatch EXCEPT ![c] = [at |-> "spawn", s |-> opened + 1, p |-> Head1(c).p]]
      \/ dispatch' = [dispatch EXCEPT ![c] = [at |-> "reply", msg |-> [k |-> "Err", p |-> Head1(c).p]]]
  BY DEF openReserves, Answer
<1>3. CASE dispatch' = [dispatch EXCEPT ![c] = [at |-> "reply", msg |-> [k |-> "Err", p |-> Head1(c).p]]]
  <2>1. dispatch'[c].at = "reply" /\ dispatch'[c].msg.k = "Err"
    BY <1>3, DispatchFacts
  <2>2. \A s \in Session : OpenAt(c, 0, s)' => OpenAt(c, 0, s)
    BY <2>1 DEF OpenAt
  <2> QED BY <1>1, <2>2, DispatchOwn
<1>4. CASE /\ opened' = opened + 1
           /\ dispatch' = [dispatch EXCEPT ![c] = [at |-> "spawn", s |-> opened + 1, p |-> Head1(c).p]]
  <2>0. opened \in Nat
    BY DispatchFacts DEF DaemonTypes
  <2>1. /\ UNCHANGED <<pane, channels, conn, stolen>> /\ WireAdds /\ dispatch'[c].at = "spawn"
        /\ dispatch'[c].s = opened + 1
        /\ \A d \in Client : d # c => dispatch'[d] = dispatch[d]
    BY <1>1, <1>4, DispatchFacts DEF DispatchStill, app
  <2>2. ASSUME NEW d \in Client, NEW s \in Session, NEW i \in Nat, OpenAt(d, i, s)'
        PROVE  OpenAt(d, i, s) \/ (d = c /\ i = 0 /\ s = opened + 1)
    <3>1. CASE i = 0 /\ d = c
      BY <2>1, <2>2, <3>1 DEF OpenAt
    <3>2. CASE i = 0 /\ d # c
      BY <2>1, <2>2, <3>2 DEF OpenAt
    <3>3. CASE i # 0
      BY <2>1, <2>2, <3>3, AddsOpen DEF OpenAt
    <3> QED BY <3>1, <3>2, <3>3
  <2>3. HolderInv'
    BY <2>1 DEF OwnInv, HolderInv, Has
  <2>4. OpenInv'
    <3> SUFFICES ASSUME NEW d \in Client, conn[d] = "up", NEW s \in Session, NEW i \in Nat,
                        OpenAt(d, i, s)'
                 PROVE  /\ s <= opened' /\ channels[d][s] = None
                        /\ \A j \in Nat : OpenAt(d, j, s)' => i = j
                        /\ \A q \in Pane : ~Has(q, s)'
      BY <2>1 DEF OpenInv
    <3>0. \A j \in Nat : OpenAt(d, j, s) => s <= opened
      BY Zenon DEF OwnInv, OpenInv
    <3>1. CASE s = opened + 1
      <4>1. ~(s <= opened)
        BY <2>0, <3>1
      <4>2. \A j \in Nat : ~OpenAt(d, j, s)
        BY <3>0, <4>1, Zenon
      <4>3. i = 0 /\ \A j \in Nat : OpenAt(d, j, s)' => j = 0
        BY <2>2, <4>2
      <4>4. channels[d][s] = None
        BY <4>1 DEF AppInv, RouteInv
      <4>5. \A q \in Pane : ~Has(q, s)'
        <5>1. \A q \in Pane : ~Has(q, s)
          BY <4>1, HasOpened
        <5> QED BY <2>1, <5>1 DEF Has
      <4> QED BY <1>4, <2>0, <3>1, <4>3, <4>4, <4>5
    <3>2. CASE s # opened + 1
      <4>1. OpenAt(d, i, s) /\ \A j \in Nat : OpenAt(d, j, s)' => OpenAt(d, j, s)
        BY <2>2, <3>2
      <4>2. /\ s <= opened /\ channels[d][s] = None
            /\ \A j \in Nat : OpenAt(d, j, s) => i = j
            /\ \A q \in Pane : ~Has(q, s)
        BY <4>1, Zenon DEF OwnInv, OpenInv
      <4>3. \A j \in Nat : OpenAt(d, j, s)' => i = j
        BY <4>1, <4>2, Zenon
      <4>4. \A q \in Pane : ~Has(q, s)'
        BY <2>1, <4>2 DEF Has
      <4>5. s <= opened'
        BY <1>4, <2>0, <4>2 DEF Session
      <4> QED BY <4>2, <4>3, <4>4, <4>5
    <3> QED BY <3>1, <3>2
  <2> QED BY <2>3, <2>4 DEF OwnInv
<1> QED BY <1>2, <1>3, <1>4

(* A reply moves from the dispatcher to the end of the wire. *)
LEMMA ReplyOwn == ASSUME IndInv, AppInv, OwnInv, NEW c \in Client, ReplyStill(c) PROVE OwnInv'
<1>1. /\ UNCHANGED <<pane, channels, conn, stolen, opened>> /\ dispatch[c].at = "reply"
      /\ dispatch'[c].at = "idle"
      /\ \A d \in Client : d # c => dispatch'[d] = dispatch[d]
  BY DispatchFacts DEF ReplyStill, app, Idle
<1>2. /\ wire[c] \in Seq(Message) /\ Len(wire[c]) \in Nat
      /\ \A d \in Client : d # c => wire'[d] = wire[d]
      /\ conn[c] = "up" => wire'[c] = Append(wire[c], dispatch[c].msg)
  BY DispatchFacts DEF ReplyStill, WireTypes
<1>3. ASSUME conn[c] = "up"
      PROVE  /\ Len(wire'[c]) = Len(wire[c]) + 1 /\ wire'[c][Len(wire[c]) + 1] = dispatch[c].msg
             /\ \A i \in 1 .. Len(wire[c]) : wire'[c][i] = wire[c][i]
  BY <1>2, <1>3
<1>4. ASSUME NEW s \in Session, NEW i \in Nat, conn[c] = "up", OpenAt(c, i, s)'
      PROVE  \/ i = Len(wire[c]) + 1 /\ OpenAt(c, 0, s)
             \/ i \in 1 .. Len(wire[c]) /\ OpenAt(c, i, s)
  <2>1. i \in 1 .. Len(wire'[c]) /\ wire'[c][i].k = "OpenOk" /\ wire'[c][i].s = s
    BY <1>1, <1>4 DEF OpenAt
  <2>2. i \in 1 .. Len(wire[c]) \/ i = Len(wire[c]) + 1
    BY <1>2, <1>3, <1>4, <2>1
  <2>3. CASE i \in 1 .. Len(wire[c])
    BY <1>3, <1>4, <2>1, <2>3 DEF OpenAt
  <2>4. CASE i = Len(wire[c]) + 1
    BY <1>1, <1>3, <1>4, <2>1, <2>4 DEF OpenAt
  <2> QED BY <2>2, <2>3, <2>4
<1>5. ASSUME NEW d \in Client, d # c, NEW s \in Session, NEW i \in Nat, OpenAt(d, i, s)'
      PROVE  OpenAt(d, i, s)
  BY <1>1, <1>2, <1>5 DEF OpenAt
<1>6. HolderInv'
  BY <1>1 DEF OwnInv, HolderInv, Has
<1>7. \A q \in Pane, s \in Session : Has(q, s)' => Has(q, s)
  BY <1>1 DEF Has
<1>8. OpenInv'
  <2> SUFFICES ASSUME NEW d \in Client, conn[d] = "up", NEW s \in Session, NEW i \in Nat,
                      OpenAt(d, i, s)'
               PROVE  /\ s <= opened /\ channels[d][s] = None
                      /\ \A j \in Nat : OpenAt(d, j, s)' => i = j
                      /\ \A q \in Pane : ~Has(q, s)'
    BY <1>1 DEF OpenInv
  <2>1. PICK k \in Nat :
          /\ OpenAt(d, k, s) /\ (d # c => k = i)
          /\ d = c => ((i = Len(wire[c]) + 1 /\ k = 0) \/ (i \in 1 .. Len(wire[c]) /\ k = i))
    <3>1. CASE d = c
      BY <1>4, <3>1
    <3>2. CASE d # c
      BY <1>5, <3>2
    <3> QED BY <3>1, <3>2
  <2>2. /\ s <= opened /\ channels[d][s] = None
        /\ \A j \in Nat : OpenAt(d, j, s) => k = j
        /\ \A q \in Pane : ~Has(q, s)
    BY <2>1, Zenon DEF OwnInv, OpenInv
  <2>3. ASSUME NEW j \in Nat, OpenAt(d, j, s)' PROVE i = j
    <3>1. CASE d = c
      <4>1. \/ j = Len(wire[c]) + 1 /\ k = 0
            \/ j \in 1 .. Len(wire[c]) /\ k = j
        BY <1>4, <2>2, <2>3, <3>1
      <4> QED BY <1>2, <2>1, <3>1, <4>1
    <3>2. CASE d # c
      BY <1>5, <2>1, <2>2, <2>3, <3>2
    <3> QED BY <3>1, <3>2
  <2>4. \A q \in Pane : ~Has(q, s)'
    BY <1>7, <2>2
  <2> QED BY <2>2, <2>3, <2>4
<1> QED BY <1>6, <1>8 DEF OwnInv

(* A connection that comes up has nothing under way.                       *)
LEMMA NothingOpen ==
  ASSUME IndInv, AppInv, NEW c \in Client, conn[c] \notin {"up", "left"}, NEW s \in Session,
         NEW i \in Nat
  PROVE  ~OpenAt(c, i, s)
<1>1. requests[c] = <<>>
  BY DispatchFacts DEF RequestInv
<1>2. dispatch[c].at = "idle"
  BY <1>1, DispatchFacts DEF DispatchInv
<1>3. Len(wire[c]) = 0
  BY DEF AppInv, AwayInv
<1> QED BY <1>2, <1>3 DEF OpenAt

LEMMA ConnOwn == ASSUME IndInv, AppInv, OwnInv, ConnStill PROVE OwnInv'
<1>1. /\ UNCHANGED <<pane, channels, dispatch, wire, stolen, opened>> /\ opened <= opened'
      /\ opened' \in Nat
  BY DispatchFacts DEF ConnStill, DaemonTypes
<1>2. \A c \in Client, s \in Session : \A i \in Nat : OpenAt(c, i, s)' => OpenAt(c, i, s)
  BY <1>1 DEF OpenAt
<1>3. ASSUME NEW c \in Client, NEW s \in Session, NEW i \in Nat, conn'[c] = "up", OpenAt(c, i, s)'
      PROVE  conn[c] = "up"
  <2>1. conn[c] # "up" => conn[c] \notin {"up", "left"}
    BY <1>3 DEF ConnStill
  <2> QED BY <1>2, <1>3, <2>1, NothingOpen, Zenon
<1>4. \A q \in Pane, s \in Session : Has(q, s)' => Has(q, s)
  BY <1>1 DEF Has
<1>5. \A p \in Pane : Holds(p)' => Holds(p) /\ pane'[p].s = pane[p].s
  BY <1>1 DEF Holds
<1>6. stolen \subseteq stolen'
  BY <1>1
<1>7. \A c \in Client, s \in Session : \A i \in Nat : conn'[c] = "up" /\ OpenAt(c, i, s)' =>
            /\ conn[c] = "up" /\ OpenAt(c, i, s)
            /\ channels'[c][s] # None => channels[c][s] # None
  <2>1. UNCHANGED channels
    BY <1>1
  <2> QED BY <1>2, <1>3, <2>1, Zenon
<1> QED BY <1>1, <1>4, <1>5, <1>6, <1>7, OwnKeeps, Zenon

LEMMA OneUp ==
  ASSUME IndInv, AppInv, NEW c \in Client, NEW d \in Client, conn[c] = "up", conn[d] = "up"
  PROVE  c = d
<1>1. ~(c < d) /\ ~(d < c)
  BY DEF AppInv, ConnOrder
<1> QED BY <1>1 DEF Client

(* A frame is taken from the wire; with an opening its pane gets the       *)
(* session.                                                                *)
LEMMA HearsOwn ==
  ASSUME IndInv, AppInv, OwnInv, NEW c \in Client, conn[c] = "up", wire[c] # <<>>, Received(c),
         UNCHANGED <<dispatch, conn, opened>>,
         \A d \in Client, s \in Session : channels'[d][s] # None => channels[d][s] # None,
         \A q \in Pane, s \in Session :
            Has(q, s)' => Has(q, s) \/ (wire[c][1].k = "OpenOk" /\ wire[c][1].s = s)
  PROVE  OpenInv'
<1> SUFFICES ASSUME NEW d \in Client, conn'[d] = "up", NEW s \in Session, NEW i \in Nat,
                    OpenAt(d, i, s)'
             PROVE  /\ s <= opened' /\ channels'[d][s] = None
                    /\ \A j \in Nat : OpenAt(d, j, s)' => i = j
                    /\ \A q \in Pane : ~Has(q, s)'
  BY Zenon DEF OpenInv
<1>1. d = c /\ conn[d] = "up"
  BY OneUp
<1>2. /\ Len(wire[c]) \in Nat \ {0} /\ Len(wire'[c]) = Len(wire[c]) - 1 /\ 1 \in 1 .. Len(wire[c])
      /\ \A j \in 1 .. Len(wire'[c]) : wire'[c][j] = wire[c][j + 1] /\ j + 1 \in 1 .. Len(wire[c])
  BY Frame
<1>3. ASSUME NEW j \in Nat, OpenAt(c, j, s)'
      PROVE  (j = 0 /\ OpenAt(c, 0, s)) \/ (j # 0 /\ OpenAt(c, j + 1, s))
  <2>1. CASE j = 0
    BY <1>3, <2>1 DEF OpenAt
  <2>2. CASE j # 0
    BY <1>2, <1>3, <2>2 DEF OpenAt
  <2> QED BY <2>1, <2>2
<1>4. PICK k \in Nat : OpenAt(c, k, s) /\ (i = 0 => k = 0) /\ (i # 0 => k = i + 1)
  BY <1>1, <1>3
<1>5. /\ s <= opened /\ channels[c][s] = None
      /\ \A j \in Nat : OpenAt(c, j, s) => k = j
      /\ \A q \in Pane : ~Has(q, s)
  BY <1>1, <1>4, Zenon DEF OwnInv, OpenInv
<1>6. ASSUME NEW j \in Nat, OpenAt(c, j, s)' PROVE i = j
  BY <1>3, <1>4, <1>5, <1>6
<1>7. ~(wire[c][1].k = "OpenOk" /\ wire[c][1].s = s)
  <2>1. ASSUME wire[c][1].k = "OpenOk" /\ wire[c][1].s = s PROVE FALSE
    <3>1. OpenAt(c, 1, s)
      BY <1>2, <2>1 DEF OpenAt
    <3>2. k = 1
      BY <1>5, <3>1
    <3> QED BY <1>4, <3>2
  <2> QED BY <2>1
<1>8. \A q \in Pane : ~Has(q, s)'
  BY <1>5, <1>7, Zenon
<1>9. s <= opened' /\ channels'[d][s] = None
  BY <1>1, <1>5
<1>10. \A j \in Nat : OpenAt(d, j, s)' => i = j
  BY <1>1, <1>6
<1> QED BY <1>8, <1>9, <1>10

LEMMA ReceiveOwn ==
  ASSUME IndInv, AppInv, OwnInv, NEW c \in Client,
         receiveData(c) \/ receiveExit(c) \/ receiveKilled(c)
  PROVE  OwnInv'
<1>1. /\ conn[c] = "up" /\ wire[c] # <<>> /\ Received(c)
      /\ UNCHANGED <<dispatch, conn, opened, pane, stolen>>
      /\ \/ channels' = channels
         \/ \E s \in Session : channels' = [channels EXCEPT ![c][s] = None]
         \/ channels' = [channels EXCEPT ![c] = [s \in Session |-> None]]
  <2>1. CASE receiveData(c)
    BY <2>1 DEF receiveData, Incoming, daemon
  <2>2. CASE receiveExit(c)
    <3>0. PICK m : m = Head(wire[c])
      OBVIOUS
    <3>1. /\ conn[c] = "up" /\ wire[c] # <<>> /\ Received(c) /\ m.k = "Exit"
          /\ UNCHANGED <<dispatch, conn, opened, pane, stolen>>
          /\ channels' = channels \/ channels' = [channels EXCEPT ![c][m.s] = None]
      BY <2>2, <3>0 DEF receiveExit, Incoming, daemon
    <3>2. m.s \in Session
      BY <3>0, <3>1, Frame DEF Message
    <3> QED BY <3>1, <3>2
  <2>3. CASE receiveKilled(c)
    BY <2>3 DEF receiveKilled, Incoming, daemon, history
  <2> QED BY <2>1, <2>2, <2>3
<1>2. \A d \in Client, s \in Session : channels'[d][s] # None => channels[d][s] # None
  <2>0. channels \in [Client -> [Session -> Pane \cup {None}]]
    BY DEF AppInv, AppKinds
  <2>1. CASE channels' = channels
    BY <2>1
  <2>2. CASE \E s \in Session : channels' = [channels EXCEPT ![c][s] = None]
    BY <2>0, <2>2
  <2>3. CASE channels' = [channels EXCEPT ![c] = [s \in Session |-> None]]
    BY <2>0, <2>3
  <2> QED BY <1>1, <2>1, <2>2, <2>3
<1>3. \A q \in Pane, s \in Session : Has(q, s)' => Has(q, s)
  BY <1>1 DEF Has
<1>4. OpenInv'
  BY <1>1, <1>2, <1>3, HearsOwn
<1>5. HolderInv'
  BY <1>1 DEF OwnInv, HolderInv, Has
<1> QED BY <1>4, <1>5 DEF OwnInv

LEMMA ReceiveReplyOwn == ASSUME IndInv, AppInv, OwnInv, NEW c \in Client, receiveReply(c) PROVE OwnInv'
<1>0. PICK m : m = Head(wire[c])
  OBVIOUS
<1>1. /\ conn[c] = "up" /\ wire[c] # <<>> /\ Received(c) /\ m.p \in Pane /\ m = wire[c][1]
      /\ UNCHANGED <<dispatch, conn, opened, stolen, channels>>
      /\ \A q \in Pane : q # m.p => pane'[q] = pane[q]
      /\ \/ UNCHANGED pane
         \/ pane'[m.p].at = "failed"
         \/ /\ pane[m.p].at = "asked" /\ m.s \in Session
            /\ (m.k = "OpenOk" /\ pane[m.p].opener = TRUE)
                 \/ (m.k = "AttachOk" /\ pane[m.p].opener = FALSE /\ pane[m.p].s = m.s)
            /\ pane'[m.p].at = "answered" /\ pane'[m.p].s = m.s
            /\ pane'[m.p].opener = pane[m.p].opener
  <2>1. PICK r : r = [at |-> "failed", c |-> None]
    OBVIOUS
  <2>2. r.at = "failed"
    BY <2>1
  <2>3. /\ conn[c] = "up" /\ wire[c] # <<>> /\ Received(c) /\ m.p \in Pane /\ m = wire[c][1]
        /\ UNCHANGED <<dispatch, conn, opened, stolen, channels>>
        /\ \A q \in Pane : q # m.p => pane'[q] = pane[q]
    BY <1>0, ReplyIs DEF daemon
  <2>4. \/ UNCHANGED pane
        \/ pane'[m.p] = r
        \/ /\ pane[m.p].at = "asked" /\ m.k \in {"OpenOk", "AttachOk"}
           /\ pane[m.p].opener = (m.k = "OpenOk") /\ m.s \in Session
           /\ m.k = "AttachOk" => pane[m.p].s = m.s
           /\ pane'[m.p].at = "answered" /\ pane'[m.p].s = m.s
           /\ pane'[m.p].opener = pane[m.p].opener
    BY <1>0, <2>1, ReplyIs
  <2>5. ASSUME m.k \in {"OpenOk", "AttachOk"}, pane[m.p].opener = (m.k = "OpenOk"),
               m.k = "AttachOk" => pane[m.p].s = m.s
        PROVE  \/ m.k = "OpenOk" /\ pane[m.p].opener = TRUE
               \/ m.k = "AttachOk" /\ pane[m.p].opener = FALSE /\ pane[m.p].s = m.s
    BY <2>5
  <2>6. \/ UNCHANGED pane
        \/ pane'[m.p].at = "failed"
        \/ /\ pane[m.p].at = "asked" /\ m.s \in Session
           /\ (m.k = "OpenOk" /\ pane[m.p].opener = TRUE)
                \/ (m.k = "AttachOk" /\ pane[m.p].opener = FALSE /\ pane[m.p].s = m.s)
           /\ pane'[m.p].at = "answered" /\ pane'[m.p].s = m.s
           /\ pane'[m.p].opener = pane[m.p].opener
    BY <2>2, <2>4, <2>5, Zenon
  <2> QED BY <2>3, <2>6, Zenon
<1>2. \A q \in Pane, s \in Session : q # m.p => (Has(q, s)' <=> Has(q, s))
  BY <1>1 DEF Has
<1>3. \A s \in Session : Has(m.p, s)' => Has(m.p, s) \/ (m.k = "OpenOk" /\ m.s = s)
  BY <1>1 DEF Has
<1>4. OpenInv'
  <2>1. \A q \in Pane, s \in Session :
            Has(q, s)' => Has(q, s) \/ (wire[c][1].k = "OpenOk" /\ wire[c][1].s = s)
    BY <1>1, <1>2, <1>3, Zenon
  <2>2. \A d \in Client, s \in Session : channels'[d][s] # None => channels[d][s] # None
    BY <1>1
  <2> QED BY <1>1, <2>1, <2>2, HearsOwn
<1>5. HolderInv'
  <2> SUFFICES ASSUME NEW p \in Pane, Holds(p)', pane'[p].s \notin stolen', NEW q \in Pane, q # p
               PROVE  ~Has(q, pane[p].s)'
    BY Zenon DEF HolderInv, Holds
  <2>0. PICK t : t = pane'[p].s
    OBVIOUS
  <2>1. CASE Holds(p) /\ pane[p].s = t
    <3>1. t \in Session /\ t \notin stolen
      BY <1>1, <2>0, <2>1, CallIs DEF Holds
    <3>2. ~Has(q, t)
      BY <2>1, <3>1, Zenon DEF OwnInv, HolderInv, Holds
    <3>3. CASE q = m.p /\ m.k = "OpenOk" /\ m.s = t
      <4>1. OpenAt(c, 1, t)
        BY <1>1, <3>3, Frame DEF OpenAt
      <4>2. ~Has(p, t)
        BY <1>1, <3>1, <4>1, Zenon DEF OwnInv, OpenInv
      <4> QED BY <2>1, <4>2 DEF Has, Holds
    <3>4. CASE ~(q = m.p /\ m.k = "OpenOk" /\ m.s = t)
      <4>1. ~Has(q, t)'
        BY <1>2, <1>3, <3>1, <3>2, <3>4
      <4> QED BY <2>0, <4>1 DEF Has
    <3> QED BY <3>3, <3>4
  <2>2. CASE ~(Holds(p) /\ pane[p].s = t)
    <3>1. p = m.p /\ m.k = "OpenOk" /\ m.s = t /\ t \in Session
      BY <1>1, <2>0, <2>2 DEF Holds
    <3>2. OpenAt(c, 1, t)
      BY <1>1, <3>1, Frame DEF OpenAt
    <3>3. ~Has(q, t)
      BY <1>1, <3>1, <3>2, Zenon DEF OwnInv, OpenInv
    <3>4. ~Has(q, t)'
      BY <1>2, <3>1, <3>3
    <3> QED BY <2>0, <3>4 DEF Has
  <2> QED BY <2>1, <2>2
<1> QED BY <1>4, <1>5 DEF OwnInv

LEMMA RegisterOwn == ASSUME IndInv, AppInv, OwnInv, NEW p \in Pane, register(p) PROVE OwnInv'
<1>0. PICK c \in Client, s \in Session : Registers(p, c, s)
  BY RegisterIs
<1>1. /\ pane[p].at = "answered" /\ s = pane[p].s
      /\ UNCHANGED <<wire, dispatch, conn, opened, stolen>>
      /\ \A d \in Client, t \in Session : d # c \/ t # s => channels'[d][t] = channels[d][t]
      /\ \A q \in Pane : q # p => pane'[q] = pane[q]
      /\ pane'[p].at = "shown" /\ pane'[p].s = pane[p].s /\ pane'[p].opener = pane[p].opener
  BY <1>0 DEF Registers, daemon, wires
<1>2. \A q \in Pane, t \in Session : Has(q, t)' => Has(q, t)
  BY <1>1 DEF Has
<1>3. \A q \in Pane : Holds(q)' => Holds(q) /\ pane'[q].s = pane[q].s
  BY <1>1 DEF Holds
<1>4. stolen \subseteq stolen' /\ opened <= opened' /\ opened' \in Nat
  BY <1>1, DispatchFacts DEF DaemonTypes
<1>5. ASSUME NEW d \in Client, NEW t \in Session, NEW i \in Nat, conn'[d] = "up", OpenAt(d, i, t)'
      PROVE  /\ conn[d] = "up" /\ OpenAt(d, i, t)
             /\ (channels'[d][t] # None => channels[d][t] # None)
  <2>1. conn[d] = "up" /\ OpenAt(d, i, t)
    BY <1>1, <1>5 DEF OpenAt
  <2>2. ~Has(p, t)
    BY <2>1, Zenon DEF OwnInv, OpenInv
  <2>3. t # s
    BY <1>1, <2>2 DEF Has
  <2> QED BY <1>1, <2>1, <2>3
<1> QED BY <1>2, <1>3, <1>4, <1>5, OwnKeeps, Zenon

(* A step that takes panes and routes away.                                *)
LEMMA LessOwn ==
  ASSUME IndInv, AppInv, OwnInv, UNCHANGED <<dispatch, opened, stolen>>,
         \A d \in Client : conn'[d] = "up" => conn[d] = "up" /\ wire'[d] = wire[d],
         \A d \in Client, t \in Session : channels'[d][t] # None => channels[d][t] # None,
         \A q \in Pane : \/ pane'[q] = pane[q] \/ pane'[q].at \in {"failed", "closed"}
                         \/ pane'[q].at = "lost" /\ pane[q].at \in {"shown", "lost"} /\ pane'[q].s = pane[q].s
  PROVE  OwnInv'
<1>2. \A q \in Pane, t \in Session : Has(q, t)' => Has(q, t)
  BY DEF Has
<1>3. \A q \in Pane : Holds(q)' => Holds(q) /\ pane'[q].s = pane[q].s
  BY DEF Holds
<1>4. stolen \subseteq stolen' /\ opened <= opened' /\ opened' \in Nat
  BY DispatchFacts DEF DaemonTypes
<1>5. ASSUME NEW d \in Client, NEW t \in Session, NEW i \in Nat, conn'[d] = "up", OpenAt(d, i, t)'
      PROVE  /\ conn[d] = "up" /\ OpenAt(d, i, t)
             /\ (channels'[d][t] # None => channels[d][t] # None)
  <2>1. conn[d] = "up" /\ OpenAt(d, i, t)
    BY <1>5 DEF OpenAt
  <2> QED BY <2>1
<1> QED BY <1>2, <1>3, <1>4, <1>5, OwnKeeps, Zenon

LEMMA TimesOutOwn == ASSUME IndInv, AppInv, OwnInv, NEW p \in Pane, requestTimesOut(p) PROVE OwnInv'
<1>0. DOMAIN pane = Pane
  BY DEF IndInv, Types, AppTypes
<1>1. UNCHANGED <<dispatch, opened, stolen, conn, wire, channels>>
  BY DEF requestTimesOut, daemon, wires, history
<1>2. \A q \in Pane : pane'[q] = pane[q] \/ pane'[q].at = "failed"
  <2>1. PICK r : r = [at |-> "failed", c |-> None]
    OBVIOUS
  <2>2. pane' = [pane EXCEPT ![p] = r] /\ r.at = "failed"
    BY <2>1 DEF requestTimesOut
  <2> QED BY <1>0, <2>2
<1> QED BY <1>1, <1>2, LessOwn

LEMMA CloseOwn == ASSUME IndInv, AppInv, OwnInv, NEW p \in Pane, pty_close(p) PROVE OwnInv'
<1>0. PICK c \in Client, s \in Session : Closes(p, c, s)
  BY CloseIs
<1>1. UNCHANGED <<dispatch, opened, stolen, conn, wire>>
  BY <1>0 DEF Closes, daemon
<1>2. \A d \in Client, t \in Session : channels'[d][t] # None => channels[d][t] # None
  <2>1. channels \in [Client -> [Session -> Pane \cup {None}]]
    BY DEF AppInv, AppKinds
  <2>2. channels' = [channels EXCEPT ![c][s] = None]
    BY <1>0 DEF Closes
  <2> QED BY <2>1, <2>2
<1>3. \A q \in Pane : pane'[q] = pane[q] \/ pane'[q].at = "closed"
  BY <1>0 DEF Closes
<1> QED BY <1>1, <1>2, <1>3, LessOwn

LEMMA QuitsOwn == ASSUME IndInv, AppInv, OwnInv, NEW c \in Client, Quits(c) PROVE OwnInv'
<1>1. UNCHANGED <<dispatch, opened, stolen, conn, wire, channels>>
  BY DEF Quits, daemon
<1>2. \A q \in Pane : pane'[q] = pane[q] \/ pane'[q].at = "closed"
  BY DEF Quits
<1> QED BY <1>1, <1>2, LessOwn

LEMMA LeavesOwn == ASSUME IndInv, AppInv, OwnInv, NEW c \in Client, Leaves(c) PROVE OwnInv'
<1>1. UNCHANGED <<dispatch, opened, stolen>>
  BY DEF Leaves, daemon
<1>2. \A d \in Client : conn'[d] = "up" => conn[d] = "up" /\ wire'[d] = wire[d]
  <2>1. DOMAIN conn = Client
    BY DispatchFacts DEF WireTypes
  <2>2. conn'[c] = "left" /\ \A d \in Client : d # c => conn'[d] = conn[d] /\ wire'[d] = wire[d]
    BY <2>1 DEF Leaves
  <2> QED BY <2>2
<1>3. \A d \in Client, t \in Session : channels'[d][t] # None => channels[d][t] # None
  BY DEF Leaves
<1>4. \A q \in Pane : \/ pane'[q] = pane[q] \/ pane'[q].at \in {"failed", "closed"}
                      \/ pane'[q].at = "lost" /\ pane[q].at \in {"shown", "lost"} /\ pane'[q].s = pane[q].s
  BY DEF Leaves
<1> QED BY <1>1, <1>2, <1>3, <1>4, LessOwn

(* A pane asks for a session that nothing is opening, and that no other    *)
(* pane holds when it does.                                                *)
LEMMA AsksOwn ==
  ASSUME IndInv, AppInv, OwnInv, NEW p \in Pane, NEW c \in Client, NEW open, NEW t,
         AsksFor(p, c, open, t),
         stolen \subseteq stolen',
         ~open => \A i \in Nat : ~OpenAt(c, i, t),
         \A r \in Pane : Holds(r)' /\ pane[r].s \notin stolen' => open \/ pane[r].s # t
  PROVE  OwnInv'
<1>1. /\ UNCHANGED <<dispatch, opened, conn, wire, channels>> /\ pane[p].at = "new"
      /\ conn[c] = "up"
      /\ pane'[p].at = "asked" /\ pane'[p].s = t
      /\ \A q \in Pane : q # p =>
           \/ pane'[q] = pane[q]
           \/ pane[q].at = "shown" /\ pane'[q].at = "lost" /\ pane'[q].s = pane[q].s
      /\ IF open THEN t = None ELSE t \in Session
  BY DEF AsksFor, daemon
<1>2. \A q \in Pane, s \in Session : Has(q, s)' => Has(q, s) \/ (q = p /\ s = t /\ ~open)
  BY <1>1, NoneIs DEF Has
<1>3. OpenInv'
  <2> SUFFICES ASSUME NEW d \in Client, conn'[d] = "up", NEW s \in Session, NEW i \in Nat,
                      OpenAt(d, i, s)'
               PROVE  /\ s <= opened' /\ channels'[d][s] = None
                      /\ \A j \in Nat : OpenAt(d, j, s)' => i = j
                      /\ \A q \in Pane : ~Has(q, s)'
    BY Zenon DEF OpenInv
  <2>1. d = c
    BY <1>1, OneUp
  <2>2. \A j \in Nat : OpenAt(d, j, s)' => OpenAt(d, j, s)
    BY <1>1 DEF OpenAt
  <2>3. OpenAt(d, i, s)
    BY <2>2, Zenon
  <2>4. /\ s <= opened /\ channels[d][s] = None
        /\ \A j \in Nat : OpenAt(d, j, s) => i = j
        /\ \A q \in Pane : ~Has(q, s)
    BY <1>1, <2>3, Zenon DEF OwnInv, OpenInv
  <2>5. ~(s = t /\ ~open)
    BY <2>1, <2>3
  <2>6. \A q \in Pane : ~Has(q, s)'
    BY <1>2, <2>4, <2>5, Zenon
  <2>7. \A j \in Nat : OpenAt(d, j, s)' => i = j
    BY <2>2, <2>4, Zenon
  <2> QED BY <1>1, <2>4, <2>6, <2>7
<1>4. HolderInv'
  <2> SUFFICES ASSUME NEW r \in Pane, Holds(r)', pane'[r].s \notin stolen', NEW q \in Pane, q # r
               PROVE  ~Has(q, pane[r].s)'
    BY Zenon DEF HolderInv, Holds
  <2>1. Holds(r) /\ pane'[r].s = pane[r].s /\ pane[r].s \notin stolen
    BY <1>1 DEF Holds
  <2>2. pane[r].s \in Session
    BY <2>1, CallIs DEF Holds
  <2>3. ~Has(q, pane[r].s)
    BY <2>1, Zenon DEF OwnInv, HolderInv, Holds
  <2>4. open \/ pane[r].s # t
    BY <2>1
  <2>5. PICK s \in Session : s = pane[r].s
    BY <2>2
  <2>6. ~Has(q, s)'
    BY <1>2, <2>3, <2>4, <2>5
  <2> QED BY <2>1, <2>5, <2>6 DEF Has
<1> QED BY <1>3, <1>4 DEF OwnInv

LEMMA OpenOwn == ASSUME IndInv, AppInv, OwnInv, NEW p \in Pane, NEW c \in Client, pty_open(p, c) PROVE OwnInv'
<1>1. AsksFor(p, c, TRUE, None) /\ stolen \subseteq stolen'
  BY OpenAsks
<1> QED BY <1>1, AsksOwn

LEMMA AttachOwn ==
  ASSUME IndInv, AppInv, OwnInv, NEW p \in Pane, NEW c \in Client, NEW q \in Pane,
         pty_attach(p, c, q)
  PROVE  OwnInv'
<1>0. PICK t : t = pane[q].s
  OBVIOUS
<1>1. /\ q # p /\ pane[q].at \in {"shown", "lost"} /\ stolen \subseteq stolen' /\ t \in Session
      /\ AsksFor(p, c, FALSE, t) /\ (pane[q].c = c => pane'[q].at = "lost") /\ conn[c] = "up"
  <2>1. /\ q # p /\ pane[q].at \in {"shown", "lost"} /\ UNCHANGED stolen
        /\ pane[q].c = c => pane'[q].at = "lost"
        /\ AsksFor(p, c, FALSE, pane[q].s) /\ pane[q].s \in Session
    BY AttachAsks
  <2>2. conn[c] = "up"
    BY <2>1 DEF AsksFor
  <2> QED BY <1>0, <2>1, <2>2
<1>2. \A i \in Nat : ~OpenAt(c, i, t)
  <2>1. Has(q, t)
    BY <1>0, <1>1 DEF Has
  <2> QED BY <1>1, <2>1, Zenon DEF OwnInv, OpenInv
<1>3. ASSUME NEW r \in Pane, Holds(r)', pane[r].s \notin stolen' PROVE pane[r].s # t
  <2>1. Holds(r) /\ pane[r].s \notin stolen
    BY <1>1, <1>3 DEF AsksFor, Holds
  <2>2. ASSUME pane[r].s = t PROVE FALSE
    <3>1. Has(q, t)
      BY <1>0, <1>1 DEF Has
    <3>2. q = r
      BY <2>1, <2>2, <3>1, Zenon DEF OwnInv, HolderInv, Holds
    <3>3. pane[q].c \in Client /\ conn[pane[q].c] = "up"
      BY <2>1, <3>2, CallIs DEF Holds
    <3>4. pane[q].c = c
      BY <1>1, <3>3, OneUp
    <3> QED BY <1>1, <1>3, <3>2, <3>4 DEF Holds
  <2> QED BY <2>2
<1> QED BY <1>1, <1>2, <1>3, AsksOwn

LEMMA AdoptOwn == ASSUME IndInv, AppInv, OwnInv, NEW c \in Client, adopt(c) PROVE OwnInv'
<1>0. PICK p \in Pane, t \in Session : Adopts(p, c, t)
  BY AdoptAsks
<1>1. /\ AsksFor(p, c, FALSE, t) /\ t \notin known[c]
      /\ stolen' = IF \E q \in Of(c) : pane[q].at = "answered" /\ pane[q].s = t
                   THEN stolen \cup {t} ELSE stolen
  BY <1>0 DEF Adopts
<1>2. dispatch[c].at = "idle" /\ Len(wire[c]) = 0 /\ conn[c] = "up"
  BY <1>0, <1>1 DEF AsksFor, Adopts
<1>3. \A i \in Nat : ~OpenAt(c, i, t)
  BY <1>2 DEF OpenAt
<1>4. ASSUME NEW r \in Pane, Holds(r)', pane[r].s \notin stolen' PROVE pane[r].s # t
  <2>1. Holds(r)
    BY <1>1, <1>4 DEF AsksFor, Holds
  <2>2. pane[r].c = c
    BY <1>2, <2>1, CallIs, OneUp DEF Holds
  <2>3. ASSUME pane[r].s = t PROVE FALSE
    <3>1. CASE pane[r].at = "shown"
      <4>1. pane[r].s \in known[pane[r].c]
        BY <3>1 DEF AppInv, KnownInv
      <4> QED BY <1>1, <2>2, <2>3, <4>1
    <3>2. CASE pane[r].at = "answered"
      <4>1. r \in Of(c)
        BY <2>2 DEF Of
      <4> QED BY <1>1, <1>4, <2>3, <3>2, <4>1
    <3> QED BY <2>1, <3>1, <3>2 DEF Holds
  <2> QED BY <2>3
<1>5. stolen \subseteq stolen'
  BY <1>1
<1> QED BY <1>1, <1>3, <1>4, <1>5, AsksOwn

LEMMA InitOwn == ASSUME Init PROVE OwnInv
<1>1. \A c \in Client : conn[c] = "off"
  BY DEF Init
<1>2. \A p \in Pane : pane[p].at = "new"
  BY DEF Init
<1> QED BY <1>1, <1>2 DEF OwnInv, OpenInv, HolderInv

----------------------------------------------------------------------------
(* What the threads of a shell have not sent yet. *)

(* What is on its way through the threads of a shell. *)
Taken(s) == IF flusher[s].at \in {"took", "appended"} THEN ToSet(flusher[s].chunk) ELSE {}
Left(s) == IF waiter[s].at = "appended" THEN ToSet(waiter[s].chunk) ELSE {}
Coming(s) == ToSet(pending[s]) \cup Taken(s) \cup Left(s)

(* It is in order, and it is the end of what the shell wrote.              *)
Line(s) ==
  /\ Rising(pending[s]) /\ Rising(flusher[s].chunk) /\ Rising(waiter[s].chunk)
  /\ Coming(s) \subseteq 1 .. wrote[s]
  /\ \A x \in Taken(s), y \in ToSet(pending[s]) : x < y
  /\ \A x \in Coming(s) \ excused[s] : \A n \in x .. wrote[s] : n \in Coming(s) \cup excused[s]
  /\ waiter[s].at # "rest" =>
       shell[s] # "run" /\ pending[s] = <<>> /\ Taken(s) \subseteq excused[s]
Begun(s) ==
  /\ s > opened => waiter[s] = Resting /\ flusher[s] = Resting /\ subscribers[s] = {}
  /\ shell[s] = "none" => wrote[s] = 0 /\ pending[s] = <<>>
LineInv ==
  /\ \A s \in Session : Line(s) /\ Begun(s)
  /\ \A c \in Client : dispatch[c].at = "spawn" => waiter[dispatch[c].s].at = "rest"

LEMMA LineStill ==
  ASSUME NEW s, Line(s), pending'[s] = pending[s], flusher'[s] = flusher[s],
         waiter'[s] = waiter[s],
         wrote'[s] = wrote[s], excused'[s] = excused[s],
         shell'[s] = "run" => shell[s] = "run" \/ waiter[s].at = "rest"
  PROVE  Line(s)'
<1>1. Coming(s)' = Coming(s) /\ Taken(s)' = Taken(s)
  BY DEF Coming, Taken, Left
<1> QED BY <1>1 DEF Line, Rising

LEMMA BegunStill ==
  ASSUME NEW s \in Session, Begun(s), opened \in Nat, opened' \in Nat, opened <= opened',
         wrote'[s] = wrote[s], pending'[s] = pending[s], shell'[s] = "none" => shell[s] = "none",
         s > opened' => waiter'[s] = waiter[s] /\ flusher'[s] = flusher[s] /\ subscribers'[s] = subscribers[s]
  PROVE  Begun(s)'
<1>1. s > opened' => s > opened
  BY DEF Session
<1> QED BY <1>1 DEF Begun

(* A thread of s touches s only. *)
LEMMA LineThread ==
  ASSUME IndInv, AppInv, LineInv, NEW s \in Session, Line(s)', Begun(s)',
         waiter'[s].at = "rest" \/ waiter'[s] = waiter[s] \/ shell[s] # "none",
         UNCHANGED <<opened, dispatch>>,
         \A t \in Session \ {s} :
           /\ pending'[t] = pending[t] /\ flusher'[t] = flusher[t] /\ waiter'[t] = waiter[t]
           /\ wrote'[t] = wrote[t] /\ excused'[t] = excused[t] /\ shell'[t] = shell[t]
           /\ subscribers'[t] = subscribers[t]
  PROVE  LineInv'
<1>1. ASSUME NEW t \in Session PROVE Line(t)' /\ Begun(t)'
  <2>1. CASE t = s
    BY <2>1
  <2>2. CASE t # s
    <3>1. Line(t)'
      BY <2>2, LineStill DEF LineInv
    <3>2. Begun(t)'
      <4>1. opened \in Nat /\ opened' \in Nat /\ opened <= opened'
        BY DEF IndInv, Types, DaemonTypes
      <4> QED BY <2>2, <4>1, BegunStill DEF LineInv
    <3> QED BY <3>1, <3>2
  <2> QED BY <2>1, <2>2
<1>2. ASSUME NEW c \in Client, dispatch'[c].at = "spawn" PROVE waiter'[dispatch'[c].s].at = "rest"
  <2>1. /\ dispatch[c].at = "spawn" /\ dispatch'[c].s = dispatch[c].s
        /\ shell[dispatch[c].s] = "none"
    BY <1>2 DEF IndInv, SpawnInv
  <2>2. dispatch[c].s \in Session
    BY <2>1, OpenedInSession DEF IndInv, SpawnInv
  <2>3. waiter[dispatch[c].s].at = "rest"
    BY <2>1 DEF LineInv
  <2> QED BY <2>1, <2>2, <2>3
<1> QED BY <1>1, <1>2 DEF LineInv

LEMMA NoChunk == ToSet(<<>>) = {} /\ Rising(<<>>)
BY DEF ToSet, Rising

LEMMA OneMore ==
  ASSUME NEW q \in Seq(Nat), NEW x \in Nat
  PROVE  /\ q \o <<x>> \in Seq(Nat) /\ ToSet(q \o <<x>>) = ToSet(q) \cup {x}
         /\ Rising(q) /\ (\A y \in ToSet(q) : y < x) => Rising(q \o <<x>>)
         /\ <<>> \o <<x>> = <<x>> /\ ToSet(<<x>>) = {x} /\ Rising(<<x>>)
<1>1. <<x>> \in Seq(Nat) /\ Len(<<x>>) = 1 /\ <<x>>[1] = x /\ DOMAIN <<x>> = {1}
  OBVIOUS
<1>2. ToSet(<<x>>) = {x} /\ Rising(<<x>>)
  BY <1>1 DEF ToSet, Rising
<1>3. <<>> \o <<x>> = <<x>>
  OBVIOUS
<1> DEFINE b == <<x>>
           r == q \o b
<1>4. /\ r \in Seq(Nat) /\ Len(r) = Len(q) + Len(b)
      /\ \A i \in 1 .. Len(q) : r[i] = q[i]
      /\ \A i \in 1 .. Len(b) : r[Len(q) + i] = b[i]
      /\ ToSet(r) = ToSet(q) \cup ToSet(b)
  BY <1>1, Joins
<1>5. Len(q) \in Nat /\ DOMAIN q = 1 .. Len(q) /\ DOMAIN r = 1 .. Len(q) + 1 /\ r[Len(q) + 1] = x
  BY <1>1, <1>4
<1> HIDE DEF r, b
<1>6. ASSUME Rising(q), \A y \in ToSet(q) : y < x PROVE Rising(r)
  <2> SUFFICES ASSUME NEW i \in DOMAIN r, NEW j \in DOMAIN r, i < j PROVE r[i] < r[j]
    BY DEF Rising
  <2>1. i \in DOMAIN q /\ r[i] = q[i]
    BY <1>4, <1>5
  <2>2. CASE j = Len(q) + 1
    BY <1>5, <1>6, <2>1, <2>2 DEF ToSet
  <2>3. CASE j # Len(q) + 1
    <3>1. j \in DOMAIN q /\ r[j] = q[j]
      BY <1>4, <1>5, <2>3
    <3> QED BY <1>6, <2>1, <3>1 DEF Rising
  <2> QED BY <2>2, <2>3
<1> QED BY <1>2, <1>3, <1>4, <1>6 DEF r, b

LEMMA ThreadSeqs ==
  ASSUME IndInv, NEW s \in Session
  PROVE  /\ pending[s] \in Seq(Nat) /\ flusher[s].chunk \in Seq(Nat)
         /\ waiter[s].chunk \in Seq(Nat)
         /\ wrote[s] \in Nat
         /\ flusher[s].at \in {"rest", "took", "appended", "ended"}
         /\ waiter[s].at \in {"rest", "appended", "tailed", "ended"}
         /\ DOMAIN flusher = Session /\ DOMAIN waiter = Session /\ DOMAIN pending = Session
<1>1. /\ pending[s] \in Seq(Chunk) /\ flusher[s].chunk \in Seq(Chunk)
      /\ waiter[s].chunk \in Seq(Chunk)
      /\ flusher[s].at \in {"rest", "took", "appended", "ended"}
      /\ waiter[s].at \in {"rest", "appended", "tailed", "ended"}
      /\ DOMAIN flusher = Session /\ DOMAIN waiter = Session /\ DOMAIN pending = Session
      /\ wrote[s] \in 0 .. MaxChunks
  BY WireFacts DEF ThreadTypes
<1>2. wrote[s] \in Nat
  BY <1>1, PtyDaemonAssumption
<1> QED BY <1>1, <1>2, ChunksAre

LEMMA WritesIs ==
  ASSUME IndInv, AppInv, LineInv, NEW s \in Session, shellWrites(s)
  PROVE  /\ wrote'[s] = wrote[s] + 1
         /\ UNCHANGED <<flusher, waiter, shell, opened, dispatch, subscribers>>
         /\ \A t \in Session \ {s} :
              pending'[t] = pending[t] /\ wrote'[t] = wrote[t] /\ excused'[t] = excused[t]
         /\ Taken(s)' = Taken(s) /\ Left(s)' = {} /\ Left(s) = {}
         /\ Rising(pending'[s])
         /\ ToSet(pending'[s]) \subseteq ToSet(pending[s]) \cup {wrote[s] + 1}
         /\ Coming(s)' \subseteq Coming(s) \cup {wrote[s] + 1} /\ wrote[s] + 1 \in Coming(s)'
         /\ Coming(s) \subseteq Coming(s)' \cup excused'[s] /\ excused[s] \subseteq excused'[s]
<1> DEFINE w == wrote[s]
           X == excused[s]
<1>1. /\ pending[s] \in Seq(Nat) /\ flusher[s].chunk \in Seq(Nat) /\ waiter[s].chunk \in Seq(Nat)
      /\ w \in Nat
      /\ DOMAIN pending = Session /\ DOMAIN wrote = Session /\ DOMAIN excused = Session
  BY ThreadSeqs, WireFacts DEF ThreadTypes, AppInv, AppKinds
<1>2. Line(s) /\ Begun(s) /\ shell[s] = "run" /\ waiter[s].at = "rest"
  BY DEF LineInv, Line, shellWrites
<1>3. /\ wrote'[s] = w + 1 /\ UNCHANGED <<flusher, waiter, shell, opened, dispatch, subscribers>>
      /\ \/ pending'[s] = pending[s] \o <<w + 1>> /\ excused'[s] = X
         \/ pending'[s] = <<w + 1>> /\ excused'[s] = X \cup ToSet(pending[s])
      /\ \A t \in Session \ {s} :
           pending'[t] = pending[t] /\ wrote'[t] = wrote[t] /\ excused'[t] = excused[t]
  <2>1. /\ wrote' = [wrote EXCEPT ![s] = w + 1]
        /\ UNCHANGED <<flusher, waiter, shell, opened, dispatch, subscribers>>
    BY DEF shellWrites, daemon
  <2>2. <<>> \o <<w + 1>> = <<w + 1>>
    OBVIOUS
  <2>3. CASE Len(pending[s]) + 1 > MAX_PENDING
    <3>1. /\ pending' = [pending EXCEPT ![s] = <<>> \o <<w + 1>>]
          /\ excused' = [excused EXCEPT ![s] = @ \cup ToSet(pending[s])]
      BY <2>3 DEF shellWrites
    <3> QED BY <1>1, <2>1, <2>2, <3>1
  <2>4. CASE ~(Len(pending[s]) + 1 > MAX_PENDING)
    <3>1. /\ pending' = [pending EXCEPT ![s] = @ \o <<w + 1>>]
          /\ excused' = [excused EXCEPT ![s] = @]
      BY <2>4 DEF shellWrites
    <3> QED BY <1>1, <2>1, <3>1
  <2> QED BY <2>3, <2>4
<1> HIDE DEF w, X
<1>4. /\ Rising(pending[s]) /\ Rising(flusher[s].chunk) /\ Rising(waiter[s].chunk)
      /\ ToSet(pending[s]) \subseteq 1 .. w /\ Taken(s) \subseteq 1 .. w /\ Left(s) = {}
      /\ \A x \in Taken(s), y \in ToSet(pending[s]) : x < y
      /\ \A x \in Coming(s) \ X : \A n \in x .. w : n \in Coming(s) \cup X
  BY <1>2 DEF Line, Coming, w, X, Left
<1>5. Taken(s)' = Taken(s) /\ Left(s)' = {} /\ Left(s) = {}
  BY <1>2, <1>3 DEF Taken, Left
<1>6. /\ Rising(pending'[s]) /\ ToSet(pending'[s]) \subseteq ToSet(pending[s]) \cup {w + 1}
      /\ w + 1 \in ToSet(pending'[s])
      /\ ToSet(pending[s]) \subseteq ToSet(pending'[s]) \cup excused'[s]
      /\ X \subseteq excused'[s]
  <2>1. w + 1 \in Nat /\ \A y \in ToSet(pending[s]) : y < w + 1
    BY <1>1, <1>4
  <2>2. /\ ToSet(pending[s] \o <<w + 1>>) = ToSet(pending[s]) \cup {w + 1}
        /\ Rising(pending[s] \o <<w + 1>>)
        /\ ToSet(<<w + 1>>) = {w + 1} /\ Rising(<<w + 1>>)
    BY <1>1, <1>4, <2>1, OneMore
  <2> QED BY <1>3, <2>2
<1>7. /\ Coming(s)' \subseteq Coming(s) \cup {w + 1} /\ w + 1 \in Coming(s)'
      /\ Coming(s) \subseteq Coming(s)' \cup excused'[s]
  BY <1>4, <1>5, <1>6 DEF Coming
<1> QED BY <1>3, <1>5, <1>6, <1>7 DEF w, X

LEMMA WritesLine == ASSUME IndInv, AppInv, LineInv, NEW s \in Session, shellWrites(s) PROVE LineInv'
<1> DEFINE w == wrote[s]
           X == excused[s]
<1>1. w \in Nat
  BY ThreadSeqs
<1>2. Line(s) /\ Begun(s) /\ shell[s] = "run" /\ waiter[s].at = "rest"
  BY DEF LineInv, Line, shellWrites
<1>3. /\ wrote'[s] = w + 1 /\ UNCHANGED <<flusher, waiter, shell, opened, dispatch, subscribers>>
      /\ \A t \in Session \ {s} :
           pending'[t] = pending[t] /\ wrote'[t] = wrote[t] /\ excused'[t] = excused[t]
      /\ Taken(s)' = Taken(s) /\ Rising(pending'[s])
      /\ ToSet(pending'[s]) \subseteq ToSet(pending[s]) \cup {w + 1}
      /\ Coming(s)' \subseteq Coming(s) \cup {w + 1} /\ w + 1 \in Coming(s)'
      /\ Coming(s) \subseteq Coming(s)' \cup excused'[s] /\ X \subseteq excused'[s]
  BY WritesIs
<1>4. /\ Rising(flusher[s].chunk) /\ Rising(waiter[s].chunk)
      /\ Coming(s) \subseteq 1 .. w /\ Taken(s) \subseteq 1 .. w
      /\ \A x \in Taken(s), y \in ToSet(pending[s]) : x < y
      /\ \A x \in Coming(s) \ X : \A n \in x .. w : n \in Coming(s) \cup X
  BY <1>2 DEF Line, Coming, w, X
<1> HIDE DEF w, X
<1>8. Line(s)'
  <2>1. Coming(s)' \subseteq 1 .. w + 1
    <3>2. \A n \in 1 .. w : n \in 1 .. w + 1
      BY <1>1
    <3>3. w + 1 \in 1 .. w + 1
      BY <1>1
    <3> QED BY <1>3, <1>4, <3>2, <3>3
  <2>2. \A x \in Taken(s)', y \in ToSet(pending'[s]) : x < y
    <3>1. \A x \in Taken(s) : x < w + 1
      BY <1>1, <1>4
    <3> QED BY <1>3, <1>4, <3>1
  <2>3. ASSUME NEW x \in Coming(s)' \ excused'[s], NEW n \in x .. w + 1
        PROVE  n \in Coming(s)' \cup excused'[s]
    <3>1. x \in Nat /\ n \in Nat /\ (n = w + 1 \/ n \in x .. w)
      BY <1>1, <2>1
    <3>2. CASE n = w + 1
      BY <1>3, <3>2
    <3>3. CASE n \in x .. w
      <4>1. x # w + 1
        BY <1>1, <3>3
      <4>2. x \in Coming(s) \ X
        BY <1>3, <4>1
      <4> QED BY <1>3, <1>4, <3>3, <4>2
    <3> QED BY <3>1, <3>2, <3>3
  <2>4. /\ Rising(pending[s])' /\ Rising(flusher[s].chunk)' /\ Rising(waiter[s].chunk)'
        /\ waiter'[s].at = "rest" /\ wrote'[s] = w + 1
    BY <1>2, <1>3, <1>4 DEF Rising
  <2> QED BY <2>1, <2>2, <2>3, <2>4 DEF Line
<1>9. Begun(s)'
  BY <1>2, <1>3 DEF Begun, IndInv, ShellInv
<1> QED BY <1>2, <1>3, <1>8, <1>9, LineThread

LEMMA EndsLine == ASSUME IndInv, AppInv, LineInv, NEW s \in Session, shellEnds(s) PROVE LineInv'
<1>0. DOMAIN shell = Session
  BY WireFacts DEF ThreadTypes
<1>1. /\ UNCHANGED <<opened, dispatch, pending, flusher, waiter, wrote, excused, subscribers>>
      /\ shell'[s] = "ended" /\ \A t \in Session \ {s} : shell'[t] = shell[t]
  BY <1>0 DEF shellEnds, daemon, history
<1>2. Line(s)'
  BY <1>1, LineStill DEF LineInv
<1>3. Begun(s)'
  BY <1>1 DEF LineInv, Begun
<1> QED BY <1>1, <1>2, <1>3, LineThread

LEMMA TakesLine == ASSUME IndInv, AppInv, LineInv, NEW s \in Session, flusherTakes(s) PROVE LineInv'
<1>1. DOMAIN flusher = Session /\ DOMAIN pending = Session
  BY ThreadSeqs
<1>2. /\ flusher[s].at = "rest" /\ shell[s] # "none" /\ pending[s] # <<>>
      /\ flusher'[s].at = "took" /\ flusher'[s].chunk = pending[s] /\ pending'[s] = <<>>
      /\ UNCHANGED <<opened, dispatch, shell, wrote, waiter, excused, subscribers>>
      /\ \A t \in Session \ {s} : pending'[t] = pending[t] /\ flusher'[t] = flusher[t]
  BY <1>1 DEF flusherTakes, daemon, history
<1>3. Line(s) /\ Begun(s)
  BY DEF LineInv
<1>4. /\ Taken(s) = {} /\ Taken(s)' = ToSet(pending[s]) /\ Coming(s)' = Coming(s)
      /\ Left(s)' = Left(s)
      /\ ToSet(pending'[s]) = {} /\ Rising(pending'[s])
  BY <1>2, NoChunk DEF Coming, Taken, Left
<1>5. Line(s)'
  BY <1>2, <1>3, <1>4 DEF Line, Rising
<1>6. Begun(s)'
  BY <1>2, <1>3 DEF Begun, IndInv, ShellInv
<1> QED BY <1>2, <1>5, <1>6, LineThread

(* What the flusher held is out of the line. *)
LEMMA TakenGoes ==
  ASSUME IndInv, NEW s \in Session, Line(s), Taken(s)' = {}, Left(s)' = Left(s),
         wrote'[s] = wrote[s], pending'[s] = pending[s], excused'[s] = excused[s],
         shell'[s] = shell[s],
         waiter'[s] = waiter[s], Rising(flusher[s].chunk)'
  PROVE  Line(s)'
<1>1. Coming(s)' = ToSet(pending[s]) \cup Left(s) /\ Coming(s) = Coming(s)' \cup Taken(s)
  BY DEF Coming
<1>2. wrote[s] \in Nat
  BY ThreadSeqs
<1>3. ASSUME NEW x \in Coming(s)' \ excused[s], NEW n \in x .. wrote[s]
      PROVE  n \in Coming(s)' \cup excused[s]
  <2>1. n \in Coming(s) \cup excused[s] /\ x \in 1 .. wrote[s]
    BY <1>1, <1>3 DEF Line
  <2>2. CASE n \in Taken(s)
    <3>1. CASE x \in Left(s)
      <4>1. n \in excused[s]
        BY <2>2, <3>1 DEF Line, Left
      <4> QED BY <4>1
    <3>2. CASE x \in ToSet(pending[s])
      <4>1. n < x
        BY <2>2, <3>2 DEF Line
      <4> QED BY <1>2, <2>1, <4>1
    <3> QED BY <1>1, <1>3, <3>1, <3>2
  <2> QED BY <1>1, <2>1, <2>2
<1>4. Coming(s)' \subseteq 1 .. wrote[s]
  BY <1>1 DEF Line
<1> QED BY <1>3, <1>4 DEF Line, Rising

LEMMA AppendsLine == ASSUME IndInv, AppInv, LineInv, NEW s \in Session, flusherAppends(s) PROVE LineInv'
<1>1. DOMAIN flusher = Session
  BY ThreadSeqs
<1>2. /\ flusher[s].at = "took" /\ flusher'[s].at \in {"appended", "ended"}
      /\ flusher'[s].chunk = flusher[s].chunk
      /\ UNCHANGED <<opened, dispatch, shell, wrote, pending, waiter, excused, subscribers>>
      /\ \A t \in Session \ {s} : flusher'[t] = flusher[t]
      /\ flusher'[s].at = IF Held(s) THEN "appended" ELSE "ended"
  BY <1>1 DEF flusherAppends, history
<1>3. Line(s) /\ Begun(s)
  BY DEF LineInv
<1>4. /\ Taken(s)' \subseteq Taken(s) /\ Left(s)' = Left(s) /\ Coming(s)' \subseteq Coming(s)
      /\ Taken(s)' = Taken(s) \/ Taken(s)' = {}
  BY <1>2 DEF Coming, Taken, Left
<1>7. ~(s > opened)
  BY <1>2, <1>3 DEF Begun, Resting
<1>5. Line(s)'
  <2>1. CASE Taken(s)' = Taken(s)
    <3>1. Coming(s)' = Coming(s)
      BY <1>2, <1>4, <2>1 DEF Coming
    <3> QED BY <1>2, <1>3, <2>1, <3>1 DEF Line, Rising
  <2>2. CASE Taken(s)' = {}
    <3>1. Rising(flusher[s].chunk)'
      BY <1>2, <1>3 DEF Line, Rising
    <3> QED BY <1>2, <1>3, <1>4, <2>2, <3>1, TakenGoes
  <2> QED BY <1>4, <2>1, <2>2
<1>6. Begun(s)'
  BY <1>2, <1>3, <1>7 DEF Begun
<1> QED BY <1>2, <1>5, <1>6, LineThread

LEMMA FansLine == ASSUME IndInv, AppInv, LineInv, NEW s \in Session, flusherFansOut(s) PROVE LineInv'
<1>1. DOMAIN flusher = Session
  BY ThreadSeqs
<1>2. /\ flusher[s].at = "appended" /\ flusher'[s] = Resting
      /\ UNCHANGED <<opened, dispatch, shell, wrote, pending, waiter, excused, subscribers>>
      /\ \A t \in Session \ {s} : flusher'[t] = flusher[t]
  BY <1>1 DEF flusherFansOut, daemon
<1>3. Line(s) /\ Begun(s)
  BY DEF LineInv
<1>4. Taken(s)' = {} /\ Left(s)' = Left(s) /\ Rising(flusher'[s].chunk)
  BY <1>2, NoChunk DEF Taken, Left, Resting
<1>5. Line(s)'
  <2>1. Rising(flusher[s].chunk)'
    BY <1>4 DEF Rising
  <2> QED BY <1>2, <1>3, <1>4, <2>1, TakenGoes
<1>6. Begun(s)'
  BY <1>2, <1>3 DEF Begun
<1> QED BY <1>2, <1>5, <1>6, LineThread

LEMMA WaiterTakesLine == ASSUME IndInv, AppInv, LineInv, NEW s \in Session, waiterTakes(s) PROVE LineInv'
<1>1. DOMAIN waiter = Session /\ DOMAIN pending = Session /\ DOMAIN excused = Session
  BY ThreadSeqs DEF AppInv, AppKinds
<1>2. /\ waiter[s].at = "rest" /\ shell[s] = "ended" /\ pending'[s] = <<>>
      /\ excused'[s] = excused[s] \cup ToSet(flusher[s].chunk)
      /\ \/ waiter'[s].at = "appended" /\ waiter'[s].chunk = pending[s]
         \/ waiter'[s].at = "tailed" /\ waiter'[s].chunk = <<>>
      /\ UNCHANGED <<opened, dispatch, shell, wrote, flusher, subscribers>>
      /\ \A t \in Session \ {s} :
           waiter'[t] = waiter[t] /\ pending'[t] = pending[t] /\ excused'[t] = excused[t]
  <2>1. \/ waiter'[s] = [at |-> "appended", chunk |-> pending[s]]
        \/ waiter'[s] = [at |-> "tailed", chunk |-> <<>>]
    BY <1>1 DEF waiterTakes
  <2> QED BY <1>1, <2>1 DEF waiterTakes
<1>3. Line(s) /\ Begun(s)
  BY DEF LineInv
<1>4. /\ Taken(s)' = Taken(s) /\ Taken(s) \subseteq excused'[s]
      /\ Left(s)' \in {{}, ToSet(pending[s])} /\ Left(s) = {}
      /\ ToSet(pending'[s]) = {} /\ Rising(pending'[s]) /\ Rising(waiter'[s].chunk)
      /\ Rising(flusher'[s].chunk)
  BY <1>2, <1>3, NoChunk DEF Taken, Left, Line
<1>5. Coming(s)' = Left(s)' \cup Taken(s) /\ Coming(s) = ToSet(pending[s]) \cup Taken(s)
  BY <1>4 DEF Coming
<1>6. Line(s)'
  <2>1. ASSUME NEW x \in Coming(s)' \ excused'[s], NEW n \in x .. wrote[s]
        PROVE  n \in Coming(s)' \cup excused'[s]
    <3>1. x \in ToSet(pending[s]) /\ Coming(s)' = Coming(s)
      BY <1>4, <1>5, <2>1
    <3>2. n \in Coming(s) \cup excused[s]
      BY <1>2, <1>3, <2>1, <3>1 DEF Line
    <3> QED BY <1>2, <3>1, <3>2
  <2>2. Coming(s)' \subseteq 1 .. wrote[s]
    BY <1>3, <1>4, <1>5 DEF Line
  <2> QED BY <1>2, <1>4, <2>1, <2>2 DEF Line, Rising
<1>7. Begun(s)'
  BY <1>2, <1>3 DEF Begun, IndInv, ShellInv
<1> QED BY <1>2, <1>6, <1>7, LineThread

(* The waiter has passed on what was left. *)
LEMMA WaiterLine ==
  ASSUME IndInv, AppInv, LineInv, NEW s \in Session, waiter[s].at \in {"appended", "tailed"},
         waiter'[s].at \in {"tailed", "ended"}, waiter'[s].chunk \in {waiter[s].chunk, <<>>},
         UNCHANGED <<opened, dispatch, shell, wrote, pending, flusher, excused, subscribers>>,
         \A t \in Session \ {s} : waiter'[t] = waiter[t]
  PROVE  LineInv'
<1>1. /\ Line(s) /\ Begun(s) /\ shell[s] = "ended" /\ pending[s] = <<>>
      /\ Taken(s) \subseteq excused[s]
  BY WireFacts DEF LineInv, Line
<1>2. /\ Taken(s)' = Taken(s) /\ Left(s)' = {} /\ Coming(s)' = Taken(s)
      /\ Taken(s) \subseteq Coming(s)
      /\ Rising(waiter'[s].chunk)
  BY <1>1, NoChunk DEF Taken, Left, Coming, Line
<1>3. Line(s)'
  BY <1>1, <1>2 DEF Line, Rising
<1>4. Begun(s)'
  BY <1>1 DEF Begun, IndInv, ShellInv
<1> QED BY <1>1, <1>3, <1>4, LineThread

LEMMA WaiterFansLine == ASSUME IndInv, AppInv, LineInv, NEW s \in Session, waiterFansOut(s) PROVE LineInv'
<1>1. DOMAIN waiter = Session
  BY ThreadSeqs
<1>2. /\ waiter[s].at = "appended" /\ waiter'[s].at = "tailed"
      /\ waiter'[s].chunk = waiter[s].chunk
      /\ UNCHANGED <<opened, dispatch, shell, wrote, pending, flusher, excused, subscribers>>
      /\ \A t \in Session \ {s} : waiter'[t] = waiter[t]
  BY <1>1 DEF waiterFansOut, daemon
<1> QED BY <1>2, WaiterLine

LEMMA ExitLine == ASSUME IndInv, AppInv, LineInv, NEW s \in Session, sinkExit(s) PROVE LineInv'
<1>1. DOMAIN waiter = Session
  BY ThreadSeqs
<1>2. /\ waiter[s].at = "tailed" /\ waiter'[s].at = "ended" /\ waiter'[s].chunk = <<>>
      /\ UNCHANGED <<opened, dispatch, shell, wrote, pending, flusher, excused, subscribers>>
      /\ \A t \in Session \ {s} : waiter'[t] = waiter[t]
  BY <1>1 DEF sinkExit
<1> QED BY <1>2, WaiterLine

LEMMA DropLine == ASSUME IndInv, AppInv, LineInv, NEW s \in Session, sessionDrop(s) PROVE LineInv'
<1>1. DOMAIN shell = Session /\ DOMAIN subscribers = Session
  BY WireFacts DEF ThreadTypes, IndInv, Types, DaemonTypes
<1>2. /\ shell'[s] = "ended" /\ subscribers'[s] = {}
      /\ UNCHANGED <<opened, dispatch, wrote, pending, flusher, waiter, excused>>
      /\ \A t \in Session \ {s} : shell'[t] = shell[t] /\ subscribers'[t] = subscribers[t]
  BY <1>1 DEF sessionDrop, history
<1>3. Line(s)'
  BY <1>2, LineStill DEF LineInv
<1>4. Begun(s)'
  BY <1>2 DEF LineInv, Begun
<1> QED BY <1>2, <1>3, <1>4, LineThread

LEMMA ThreadLine == ASSUME IndInv, AppInv, LineInv, NEW s \in Session, threadOf(s) PROVE LineInv'
<1>1. CASE dropThread(s)
  <2>1. \A t \in Session : Line(t)'
    BY <1>1, LineStill DEF dropThread, threads, history, LineInv
  <2>2. UNCHANGED <<opened, dispatch, shell, wrote, pending, flusher, waiter, subscribers>>
    BY <1>1 DEF dropThread, threads
  <2> QED BY <2>1, <2>2 DEF LineInv, Begun
<1> QED BY <1>1, WritesLine, EndsLine, TakesLine, AppendsLine, FansLine, WaiterTakesLine,
           WaiterFansLine, ExitLine,
           DropLine DEF threadOf, threadStep

(* The dispatchers and the accept loop. *)

(* Nothing of the threads changes, a spawned shell aside.                  *)
LEMMA LineStays ==
  ASSUME IndInv, LineInv, UNCHANGED <<wrote, pending, flusher, waiter, excused>>,
         opened' \in Nat, opened <= opened',
         \A s \in Session :
           /\ shell'[s] \in {shell[s], "ended"} \/ (shell'[s] = "run" /\ waiter[s].at = "rest")
           /\ s > opened' => subscribers'[s] = subscribers[s],
         \A c \in Client : dispatch'[c].at = "spawn" =>
           (dispatch[c].at = "spawn" /\ dispatch'[c].s = dispatch[c].s) \/ waiter[dispatch'[c].s].at = "rest"
  PROVE  LineInv'
<1>1. ASSUME NEW s \in Session PROVE Line(s)' /\ Begun(s)'
  <2>1. Line(s)'
    BY LineStill DEF LineInv
  <2>2. shell'[s] = "none" => shell[s] = "none"
    OBVIOUS
  <2>3. opened \in Nat /\ Begun(s)
    BY DEF IndInv, Types, DaemonTypes, LineInv
  <2> QED BY <2>1, <2>2, <2>3, BegunStill
<1>2. \A c \in Client : dispatch'[c].at = "spawn" => waiter'[dispatch'[c].s].at = "rest"
  BY DEF LineInv
<1> QED BY <1>1, <1>2 DEF LineInv

LEMMA ReservesLine == ASSUME IndInv, AppInv, LineInv, NEW c \in Client, openReserves(c) PROVE LineInv'
<1>1. /\ UNCHANGED <<wrote, pending, flusher, waiter, excused>> /\ opened \in Nat
      /\ \A s \in Session : shell'[s] \in {shell[s], "ended"}
      /\ DOMAIN subscribers = Session /\ DOMAIN dispatch = Client
  BY DEF openReserves, closeSessions, IndInv, Types, DaemonTypes
<1>2. CASE opened' = opened + 1 /\ subscribers' = [subscribers EXCEPT ![opened + 1] = {c}]
           /\ dispatch' = [dispatch EXCEPT ![c] = [at |-> "spawn", s |-> opened + 1, p |-> Head1(c).p]]
  <2>0. opened + 1 \in Session
    <3>1. PICK d : d = dispatch'[c]
      OBVIOUS
    <3>2. d \in Dispatch
      BY <3>1, OpenReservesKeeps DEF IndInv, Types, DaemonTypes
    <3>3. d.at = "spawn" /\ d.s = opened + 1
      BY <1>1, <1>2, <3>1
    <3> QED BY <3>2, <3>3 DEF Dispatch
  <2>1. /\ dispatch'[c].s = opened + 1 /\ opened + 1 > opened
    BY <1>1, <1>2
  <2>2. waiter[opened + 1].at = "rest"
    BY <2>0, <2>1 DEF LineInv, Begun, Resting
  <2>3. \A s \in Session : s > opened' => subscribers'[s] = subscribers[s]
    BY <1>1, <1>2 DEF Session
  <2>4. \A d \in Client : d # c => dispatch'[d] = dispatch[d]
    BY <1>1, <1>2
  <2>5. opened' \in Nat /\ opened <= opened'
    BY <1>1, <1>2
  <2> QED BY <1>1, <2>1, <2>2, <2>3, <2>4, <2>5, LineStays
<1>3. CASE UNCHANGED <<opened, subscribers>> /\ \E m : Answer(c, m)
  <2>1. \A d \in Client : dispatch'[d].at = "spawn" => dispatch'[d] = dispatch[d]
    BY <1>1, <1>3 DEF Answer
  <2> QED BY <1>1, <1>3, <2>1, LineStays
<1> QED BY <1>2, <1>3 DEF openReserves

LEMMA SpawnsLine ==
  ASSUME IndInv, AppInv, LineInv, NEW c \in Client,
         openSpawns(c) \/ openSpawnFails(c) \/ openFills(c)
  PROVE  LineInv'
<1>1. DOMAIN shell = Session /\ DOMAIN dispatch = Client /\ opened \in Nat
  BY WireFacts DEF ThreadTypes, IndInv, Types, DaemonTypes
<1>2. UNCHANGED <<opened, wrote, pending, flusher, waiter, excused, subscribers>>
  BY DEF openSpawns, openSpawnFails, openFills, threads, history
<1>3. \A s \in Session : shell'[s] = shell[s] \/ (shell'[s] = "run" /\ waiter[s].at = "rest")
  <2>1. CASE openSpawns(c)
    <3>1. /\ dispatch[c].at = "spawn" /\ shell' = [shell EXCEPT ![dispatch[c].s] = "run"]
          /\ waiter[dispatch[c].s].at = "rest"
      BY <2>1 DEF openSpawns, LineInv
    <3> QED BY <1>1, <3>1
  <2>2. CASE ~openSpawns(c)
    BY <2>2 DEF openSpawnFails, openFills, threads
  <2> QED BY <2>1, <2>2
<1>4. \A d \in Client : dispatch'[d].at = "spawn" => dispatch'[d] = dispatch[d]
  <2>1. dispatch[c] \in [at : {"spawn", "fill"}, s : Session, p : Pane]
    BY Spawning DEF openSpawns, openSpawnFails, openFills
  <2>2. dispatch'[c].at # "spawn" /\ \A d \in Client : d # c => dispatch'[d] = dispatch[d]
    BY <1>1, <2>1 DEF openSpawns, openSpawnFails, openFills, Answer
  <2> QED BY <2>2
<1> QED BY <1>1, <1>2, <1>3, <1>4, LineStays

LEMMA ServesLine ==
  ASSUME IndInv, AppInv, LineInv, NEW c \in Client,
         attachCopies(c) \/ attachSubscribes(c) \/ serveClose(c) \/ serveKillAll(c) \/ reply(c) \/ unsubscribe(c)
  PROVE  LineInv'
<1>1. DOMAIN dispatch = Client /\ opened \in Nat /\ subscribers \in [Session -> SUBSET Client]
  BY DEF IndInv, Types, DaemonTypes
<1>2. /\ UNCHANGED <<opened, wrote, pending, flusher, waiter, excused>>
      /\ \A s \in Session : shell'[s] \in {shell[s], "ended"}
  BY DEF attachCopies, attachSubscribes, serveClose, serveKillAll, reply, unsubscribe,
     closeSessions, threads, history
<1>3. \A d \in Client : dispatch'[d].at = "spawn" => dispatch'[d] = dispatch[d]
  BY <1>1 DEF attachCopies, attachSubscribes, serveClose, serveKillAll, reply, unsubscribe,
     Answer, Idle
<1>4. \A s \in Session : s > opened' => subscribers'[s] = subscribers[s]
  <2>1. CASE attachSubscribes(c)
    <3>1. dispatch[c].s \in 1 .. opened
      BY <2>1, DispatchFacts DEF attachSubscribes, IndInv, LinkInv, DispatchInv, Known
    <3>2. subscribers' = [subscribers EXCEPT ![dispatch[c].s] = @ \cup {c}]
      BY <2>1 DEF attachSubscribes
    <3> QED BY <1>1, <1>2, <3>1, <3>2 DEF Session
  <2>2. CASE unsubscribe(c)
    <3>1. \A s \in Session : s > opened => subscribers[s] = {}
      BY DEF LineInv, Begun
    <3>2. \A s \in Session : subscribers'[s] \subseteq subscribers[s]
      BY <2>2 DEF unsubscribe
    <3> QED BY <1>2, <3>1, <3>2
  <2>3. CASE ~attachSubscribes(c) /\ ~unsubscribe(c)
    BY <2>3 DEF attachCopies, serveClose, serveKillAll, reply
  <2> QED BY <2>1, <2>2, <2>3
<1> QED BY <1>1, <1>2, <1>3, <1>4, LineStays

LEMMA ExitsLine == ASSUME IndInv, AppInv, LineInv, Counted = {}, Exits PROVE LineInv'
<1>1. \A c \in Client : dispatch'[c].at # "spawn"
  <2>1. \A c \in Client : requests[c] = <<>>
    BY DispatchFacts DEF RequestInv, Counted
  <2> QED BY <2>1, DispatchFacts DEF DispatchInv, Exits
<1>2. ASSUME NEW s \in Session PROVE Line(s)' /\ Begun(s)'
  <2>1. /\ pending'[s] = <<>> /\ shell'[s] # "run" /\ wrote' = wrote /\ opened' = opened
        /\ shell'[s] = "none" => shell[s] = "none"
        /\ subscribers'[s] = {}
        /\ s <= opened => flusher'[s] = [at |-> "ended", chunk |-> <<>>] /\ waiter'[s] = [at |-> "ended", chunk |-> <<>>]
        /\ ~(s <= opened) => flusher'[s] = flusher[s] /\ waiter'[s] = waiter[s]
    BY DEF Exits
  <2>2. opened \in Nat /\ Begun(s)
    BY DispatchFacts DEF DaemonTypes, LineInv
  <2>3. ~(s <= opened) => s > opened
    BY <2>2 DEF Session
  <2>4. /\ flusher'[s].chunk = <<>> /\ waiter'[s].chunk = <<>>
        /\ flusher'[s].at \in {"rest", "ended"} /\ waiter'[s].at \in {"rest", "ended"}
    BY <2>1, <2>2, <2>3 DEF Begun, Resting
  <2>5. Coming(s)' = {} /\ Taken(s)' = {}
    BY <2>1, <2>4, NoChunk DEF Coming, Taken, Left
  <2>6. Rising(pending[s])' /\ Rising(flusher[s].chunk)' /\ Rising(waiter[s].chunk)'
    BY <2>1, <2>4 DEF Rising
  <2>7. Line(s)'
    BY <2>1, <2>5, <2>6 DEF Line
  <2>8. Begun(s)'
    BY <2>1, <2>2, <2>3 DEF Begun, Session
  <2> QED BY <2>7, <2>8
<1> QED BY <1>1, <1>2 DEF LineInv

LEMMA ConnLine == ASSUME IndInv, AppInv, LineInv, connStep PROVE LineInv'
<1>1. CASE \E c \in Client : unsubscribe(c)
  BY <1>1, ServesLine
<1>2. CASE shutdownCheck /\ Exits
  <2>1. CASE Counted = {}
    BY <1>2, <2>1, ExitsLine
  <2>2. CASE Counted # {}
    <3>1. Resumes
      BY <1>2, <2>2 DEF shutdownCheck
    <3>2. FALSE
      BY <1>2, <3>1 DEF Exits, Resumes
    <3> QED BY <3>2
  <2> QED BY <2>1, <2>2
<1>3. CASE \/ \E c \in Client : connect(c) \/ accept(c)
           \/ idle_watcher \/ acceptWake \/ (shutdownCheck /\ Resumes)
  <2>1. UNCHANGED <<opened, shell, subscribers, dispatch, wrote, pending, flusher, waiter, excused>>
    BY <1>3 DEF connect, accept, idle_watcher, acceptWake, Resumes, threads, history
  <2>2. opened \in Nat
    BY DispatchFacts DEF DaemonTypes
  <2> QED BY <2>1, <2>2, LineStays
<1> QED BY <1>1, <1>2, <1>3 DEF connStep, shutdownCheck

(* The app has no part in it. *)
AppStep(c) ==
  \/ readerStep(c) \/ disconnect(c) \/ pty_kill_all(c) \/ adopt(c)
  \/ \E p \in Pane : register(p) \/ requestTimesOut(p) \/ pty_close(p) \/ pty_open(p, c)
  \/ \E p \in Pane, q \in Pane : pty_attach(p, c, q)

LEMMA AppDaemon == ASSUME NEW c, AppStep(c) PROVE UNCHANGED <<daemon, threads, excused, closed>>
<1>1. CASE readerStep(c)
  BY <1>1 DEF readerStep, receiveData, receiveExit, receiveReply, receiveKilled, history
<1>2. CASE disconnect(c) \/ pty_kill_all(c) \/ adopt(c)
  BY <1>2 DEF disconnect, pty_kill_all, adopt, history
<1>3. CASE \E p \in Pane : register(p) \/ requestTimesOut(p) \/ pty_close(p) \/ pty_open(p, c)
  BY <1>3 DEF register, requestTimesOut, pty_close, pty_open, history
<1>4. CASE \E p \in Pane, q \in Pane : pty_attach(p, c, q)
  BY <1>4 DEF pty_attach, history
<1> QED BY <1>1, <1>2, <1>3, <1>4 DEF AppStep

LEMMA AppLine == ASSUME IndInv, LineInv, UNCHANGED <<daemon, threads, excused>> PROVE LineInv'
<1>1. opened \in Nat
  BY DispatchFacts DEF DaemonTypes
<1>2. UNCHANGED <<opened, shell, subscribers, dispatch, wrote, pending, flusher, waiter, excused>>
  BY DEF daemon, threads
<1> QED BY <1>1, <1>2, LineStays

LEMMA InitLine == ASSUME Init PROVE LineInv
<1>1. ASSUME NEW s \in Session PROVE Line(s) /\ Begun(s)
  <2>1. /\ pending[s] = <<>> /\ flusher[s] = Resting /\ waiter[s] = Resting /\ subscribers[s] = {}
        /\ wrote[s] = 0
        /\ opened = 0 /\ shell[s] = "none"
    BY DEF Init
  <2>2. /\ flusher[s].chunk = <<>> /\ waiter[s].chunk = <<>> /\ flusher[s].at = "rest"
        /\ waiter[s].at = "rest"
    BY <2>1 DEF Resting
  <2>3. Coming(s) = {} /\ Taken(s) = {}
    BY <2>1, <2>2, NoChunk DEF Coming, Taken, Left
  <2>4. Line(s)
    BY <2>1, <2>2, <2>3, NoChunk DEF Line
  <2> QED BY <2>1, <2>4 DEF Begun
<1>2. \A c \in Client : dispatch[c].at = "idle"
  BY DEF Init, Idle
<1> QED BY <1>1, <1>2 DEF LineInv

----------------------------------------------------------------------------
(* The requests and the answers. *)

(* Only an app that quits asks for the end of every shell.                 *)
KillInv ==
  \A c \in Client \ quitting :
    /\ \A i \in 1 .. Len(requests[c]) : requests[c][i].k # "KillAll"
    /\ dispatch[c].at = "reply" => dispatch[c].msg.k # "Killed"
    /\ \A i \in 1 .. Len(wire[c]) : wire[c][i].k # "Killed"

LEMMA KillStays ==
  ASSUME KillInv, quitting \subseteq quitting',
         \A c \in Client \ quitting' :
           /\ \A i \in 1 .. Len(requests'[c]) :
                requests'[c][i].k # "KillAll" \/ \E j \in 1 .. Len(requests[c]) :
                  requests'[c][i] = requests[c][j]
           /\ dispatch'[c] = dispatch[c] \/ (dispatch'[c].at = "reply" => dispatch'[c].msg.k # "Killed")
           /\ \A i \in 1 .. Len(wire'[c]) :
                wire'[c][i].k # "Killed" \/ \E j \in 1 .. Len(wire[c]) : wire'[c][i] = wire[c][j]
  PROVE  KillInv'
BY DEF KillInv

LEMMA AddsIs ==
  ASSUME WireAdds, NEW c \in Client, NEW i \in 1 .. Len(wire'[c])
  PROVE  \/ i \in 1 .. Len(wire[c]) /\ wire'[c][i] = wire[c][i]
         \/ /\ wire'[c][i].k \in {"Data", "Exit"} /\ c \in subscribers[wire'[c][i].s] /\ wire'[c][i].s \in Session
            /\ conn[c] = "up" /\ i \in Len(wire[c]) + 1 .. Len(wire'[c])
<1>1. Len(wire'[c]) \in Nat /\ Len(wire[c]) <= Len(wire'[c]) /\ Len(wire[c]) \in Nat
  BY DEF WireAdds
<1>2. CASE i \in 1 .. Len(wire[c])
  BY <1>2 DEF WireAdds
<1>3. CASE i \in Len(wire[c]) + 1 .. Len(wire'[c])
  <2>1. wire'[c] # wire[c]
    BY <1>1, <1>3
  <2> QED BY <1>3, <2>1 DEF WireAdds
<1> QED BY <1>1, <1>2, <1>3

LEMMA LessRequests ==
  ASSUME IndInv, NEW c \in Client,
         requests' = requests \/ (requests[c] # <<>> /\ requests' = [requests EXCEPT ![c] = Tail(@)])
  PROVE  \A d \in Client : \A i \in 1 .. Len(requests'[d]) :
            \E j \in 1 .. Len(requests[d]) : requests'[d][i] = requests[d][j]
<1> SUFFICES ASSUME NEW d \in Client, NEW i \in 1 .. Len(requests'[d])
             PROVE  \E j \in 1 .. Len(requests[d]) : requests'[d][i] = requests[d][j]
  OBVIOUS
<1>1. requests \in [Client -> Seq(Request)] /\ requests[d] \in Seq(Request)
  BY DEF IndInv, Types, WireTypes
<1>2. CASE requests'[d] = requests[d]
  BY <1>2
<1>3. CASE requests'[d] = Tail(requests[d]) /\ requests[d] # <<>>
  <2>1. requests'[d][i] = requests[d][i + 1] /\ i + 1 \in 1 .. Len(requests[d])
    BY <1>1, <1>3, TailIs
  <2> QED BY <2>1
<1> QED BY <1>1, <1>2, <1>3

LEMMA MoreRequests ==
  ASSUME IndInv, NEW c \in Client, NEW r \in Request, Send(c, r)
  PROVE  \A d \in Client : \A i \in 1 .. Len(requests'[d]) :
            (d = c /\ requests'[d][i] = r) \/ \E j \in 1 .. Len(requests[d]) :
              requests'[d][i] = requests[d][j]
<1> SUFFICES ASSUME NEW d \in Client, NEW i \in 1 .. Len(requests'[d])
             PROVE  \/ (d = c /\ requests'[d][i] = r)
                    \/ \E j \in 1 .. Len(requests[d]) : requests'[d][i] = requests[d][j]
  OBVIOUS
<1>1. requests \in [Client -> Seq(Request)] /\ requests[c] \in Seq(Request)
  BY DEF IndInv, Types, WireTypes
<1>2. CASE d # c
  <2>1. requests'[d] = requests[d]
    BY <1>1, <1>2 DEF Send
  <2> QED BY <2>1
<1>3. CASE d = c
  <2>1. requests'[d] = Append(requests[d], r)
    BY <1>1, <1>3 DEF Send
  <2>2. i = Len(requests[d]) + 1 \/ i \in 1 .. Len(requests[d])
    BY <1>1, <1>3, <2>1
  <2> QED BY <1>1, <1>3, <2>1, <2>2
<1> QED BY <1>2, <1>3

LEMMA ThreadKill == ASSUME IndInv, KillInv, ThreadStill PROVE KillInv'
<1>1. UNCHANGED <<quitting, dispatch, requests>> /\ WireAdds
  BY DEF ThreadStill, app
<1>2. \A c \in Client : \A i \in 1 .. Len(wire'[c]) :
        wire'[c][i].k # "Killed" \/ \E j \in 1 .. Len(wire[c]) : wire'[c][i] = wire[c][j]
  BY <1>1, AddsIs
<1> QED BY <1>1, <1>2, KillStays

LEMMA DispatchKill ==
  ASSUME IndInv, KillInv, NEW c \in Client, DispatchStill(c),
         c \in quitting \/ dispatch'[c] = dispatch[c] \/ (dispatch'[c].at = "reply" => dispatch'[c].msg.k # "Killed")
  PROVE  KillInv'
<1>1. /\ UNCHANGED quitting /\ WireAdds /\ \A d \in Client : d # c => dispatch'[d] = dispatch[d]
      /\ requests' = requests \/ (requests[c] # <<>> /\ requests' = [requests EXCEPT ![c] = Tail(@)])
  BY DispatchFacts DEF DispatchStill, app
<1>2. \A d \in Client : \A i \in 1 .. Len(wire'[d]) :
        wire'[d][i].k # "Killed" \/ \E j \in 1 .. Len(wire[d]) : wire'[d][i] = wire[d][j]
  BY <1>1, AddsIs
<1>3. \A d \in Client : \A i \in 1 .. Len(requests'[d]) :
        \E j \in 1 .. Len(requests[d]) : requests'[d][i] = requests[d][j]
  BY <1>1, LessRequests
<1> QED BY <1>1, <1>2, <1>3, KillStays

LEMMA DispatchesKill ==
  ASSUME IndInv, AppInv, KillInv, NEW c \in Client,
         \/ openReserves(c) \/ openSpawns(c) \/ openSpawnFails(c) \/ openFills(c)
         \/ attachCopies(c) \/ attachSubscribes(c) \/ serveClose(c) \/ serveKillAll(c)
  PROVE  KillInv'
<1>1. DispatchStill(c)
  BY ReservesApp, SpawnsApp, AttachApp, ServesApp
<1>2. CASE serveKillAll(c)
  <2>1. /\ requests[c] # <<>> /\ Head1(c) = requests[c][1] /\ Head1(c).k = "KillAll"
        /\ 1 \in 1 .. Len(requests[c])
    BY <1>2, HeadIsRequest, TailIs, DispatchFacts DEF serveKillAll, Asks
  <2>2. c \in quitting
    BY <2>1 DEF KillInv
  <2> QED BY <1>1, <2>2, DispatchKill
<1>3. CASE serveClose(c)
  BY <1>1, <1>3, DispatchKill DEF serveClose
<1>4. CASE openSpawns(c)
  <2>1. dispatch'[c].at = "fill"
    BY <1>4, Spawning, DispatchFacts DEF openSpawns
  <2> QED BY <1>1, <2>1, DispatchKill
<1>5. CASE \/ openReserves(c) \/ openSpawnFails(c) \/ openFills(c) \/ attachCopies(c)
           \/ attachSubscribes(c)
  <2>1. dispatch'[c].at = "reply" => dispatch'[c].msg.k # "Killed"
    BY <1>5, DispatchFacts DEF openReserves, openSpawnFails, openFills, attachCopies,
       attachSubscribes, Answer
  <2> QED BY <1>1, <2>1, DispatchKill
<1> QED BY <1>2, <1>3, <1>4, <1>5

LEMMA ReplyKill == ASSUME IndInv, KillInv, NEW c \in Client, ReplyStill(c) PROVE KillInv'
<1>1. /\ UNCHANGED quitting /\ dispatch[c].at = "reply" /\ \A d \in Client :
           dispatch'[d] = dispatch[d] \/ dispatch'[d].at = "idle"
      /\ requests[c] # <<>> /\ requests' = [requests EXCEPT ![c] = Tail(@)]
  BY DispatchFacts DEF ReplyStill, app, Idle, DispatchInv
<1>2. \A d \in Client : \A i \in 1 .. Len(requests'[d]) :
        \E j \in 1 .. Len(requests[d]) : requests'[d][i] = requests[d][j]
  BY <1>1, LessRequests
<1>3. ASSUME NEW d \in Client \ quitting', NEW i \in 1 .. Len(wire'[d])
      PROVE  wire'[d][i].k # "Killed" \/ \E j \in 1 .. Len(wire[d]) : wire'[d][i] = wire[d][j]
  <2>1. CASE wire'[d] = wire[d]
    BY <2>1
  <2>2. CASE d = c /\ wire'[d] = Append(wire[d], dispatch[d].msg)
    <3>1. wire[d] \in Seq(Message)
      BY DispatchFacts DEF WireTypes
  <3>2. (i \in 1 .. Len(wire[d]) /\ wire'[d][i] = wire[d][i]) \/ wire'[d][i] = dispatch[d].msg
      BY <2>2, <3>1
    <3>3. dispatch[d].msg.k # "Killed"
      BY <1>1, <2>2 DEF KillInv
    <3> QED BY <3>2, <3>3
  <2> QED BY <2>1, <2>2, DispatchFacts DEF ReplyStill, WireTypes
<1> QED BY <1>1, <1>2, <1>3, KillStays

LEMMA ConnKill == ASSUME KillInv, ConnStill PROVE KillInv'
BY KillStays DEF ConnStill

(* The app hears, or asks.                                                 *)
LEMMA HearKill ==
  ASSUME IndInv, KillInv, UNCHANGED <<requests, dispatch, quitting>>,
         \A c \in Client : wire'[c] = wire[c] \/ wire'[c] = <<>> \/ (conn[c] = "up" /\ wire[c] # <<>> /\ Received(c))
  PROVE  KillInv'
<1>1. ASSUME NEW d \in Client, NEW i \in 1 .. Len(wire'[d])
      PROVE  \E j \in 1 .. Len(wire[d]) : wire'[d][i] = wire[d][j]
  <2>1. CASE wire'[d] = wire[d]
    BY <2>1
  <2>2. CASE conn[d] = "up" /\ wire[d] # <<>> /\ Received(d)
    BY <2>2, Frame
  <2>3. CASE wire'[d] = <<>>
    BY <2>3
  <2> QED BY <2>1, <2>2, <2>3
<1> QED BY <1>1, KillStays

LEMMA SendKill ==
  ASSUME IndInv, KillInv, NEW c \in Client, NEW r \in Request, Send(c, r),
         UNCHANGED <<wire, dispatch>>,
         quitting \subseteq quitting', r.k # "KillAll" \/ c \in quitting'
  PROVE  KillInv'
<1>1. \A d \in Client : \A i \in 1 .. Len(requests'[d]) :
         (d = c /\ requests'[d][i] = r) \/ \E j \in 1 .. Len(requests[d]) :
           requests'[d][i] = requests[d][j]
  BY MoreRequests
<1> QED BY <1>1, KillStays

LEMMA AppKill == ASSUME IndInv, AppInv, KillInv, NEW c \in Client, AppStep(c) PROVE KillInv'
<1>0. WireTypes
  BY DispatchFacts
<1>1. CASE readerStep(c)
  <2>1. /\ UNCHANGED <<requests, dispatch, quitting>> /\ conn[c] = "up" /\ wire[c] # <<>>
        /\ Received(c)
    BY <1>1 DEF readerStep, receiveData, receiveExit, receiveReply, receiveKilled,
       Incoming, daemon
  <2>2. \A d \in Client : d # c => wire'[d] = wire[d]
    BY <2>1, Frame
  <2> QED BY <2>1, <2>2, HearKill
<1>2. CASE disconnect(c)
  <2>1. UNCHANGED <<requests, dispatch, quitting>> /\ \A d \in Client :
          wire'[d] = wire[d] \/ wire'[d] = <<>>
    BY <1>0, <1>2 DEF disconnect, daemon, WireTypes
  <2> QED BY <2>1, HearKill
<1>3. CASE pty_kill_all(c)
  <2>1. Quits(c)
    BY <1>3, QuitsIs
  <2>2. PICK r \in Request : r.k = "KillAll" /\ Send(c, r)
    BY <2>1 DEF Quits
  <2> QED BY <2>1, <2>2, SendKill DEF Quits, daemon
<1>4. ASSUME NEW p \in Pane, NEW open, NEW t, AsksFor(p, c, open, t) PROVE KillInv'
  <2>1. PICK r \in Request : Send(c, r) /\ r.k # "KillAll"
    BY <1>4 DEF AsksFor
  <2> QED BY <1>4, <2>1, SendKill DEF AsksFor, daemon
<1>5. CASE adopt(c)
  <2>1. PICK p \in Pane, t \in Session : AsksFor(p, c, FALSE, t)
    BY <1>5, AdoptAsks DEF Adopts
  <2> QED BY <1>4, <2>1
<1>6. CASE \E p \in Pane : register(p) \/ requestTimesOut(p)
  <2>1. UNCHANGED <<requests, dispatch, quitting, wire>>
    BY <1>6 DEF register, requestTimesOut, daemon, wires
  <2> QED BY <2>1, HearKill
<1>7. CASE \E p \in Pane : pty_close(p)
  <2>1. PICK p \in Pane : pty_close(p)
    BY <1>7
  <2>2. PICK d \in Client, s \in Session : Closes(p, d, s)
    BY <2>1, CloseIs
  <2>3. PICK r \in Request : r.k = "Close" /\ Send(d, r)
    BY <2>2 DEF Closes
  <2> QED BY <2>2, <2>3, SendKill DEF Closes, daemon
<1>8. CASE \E p \in Pane : pty_open(p, c)
  BY <1>4, <1>8, OpenAsks
<1>9. CASE \E p \in Pane, q \in Pane : pty_attach(p, c, q)
  BY <1>4, <1>9, AttachAsks
<1> QED BY <1>1, <1>2, <1>3, <1>5, <1>6, <1>7, <1>8, <1>9 DEF AppStep

LEMMA InitKill == ASSUME Init PROVE KillInv
BY DEF Init, KillInv, Idle

(* A dispatcher replies to what it was asked. *)
ReplyInv == \A c \in Client : dispatch[c].at = "reply" =>
  dispatch[c].msg.k \in {"OpenOk", "AttachOk", "Err", "Killed"}

LEMMA ReplyStays ==
  ASSUME ReplyInv,
         \A c \in Client : \/ dispatch'[c] = dispatch[c]
                           \/ dispatch'[c].at = "reply" =>
                                dispatch'[c].msg.k \in {"OpenOk", "AttachOk", "Err", "Killed"}
  PROVE  ReplyInv'
BY DEF ReplyInv

LEMMA DispatchReply == ASSUME IndInv, ReplyInv, NEW c \in Client, dispatchStep(c) PROVE ReplyInv'
<1>0. DOMAIN dispatch = Client
  BY DispatchFacts
<1>1. CASE openReserves(c)
  <2>1. \/ dispatch' = [dispatch EXCEPT ![c] = [at |-> "spawn", s |-> opened + 1, p |-> Head1(c).p]]
        \/ dispatch' = [dispatch EXCEPT ![c] = [at |-> "reply", msg |-> [k |-> "Err", p |-> Head1(c).p]]]
    BY <1>1 DEF openReserves, Answer
  <2>2. \A d \in Client : \/ dispatch'[d] = dispatch[d]
                          \/ dispatch'[d].at = "reply" =>
                               dispatch'[d].msg.k \in {"OpenOk", "AttachOk", "Err", "Killed"}
    BY <1>0, <2>1
  <2> QED BY <2>2, ReplyStays
<1>2. CASE openSpawns(c)
  <2>1. dispatch'[c].at = "fill" /\ \A d \in Client : d # c => dispatch'[d] = dispatch[d]
    BY <1>0, <1>2, Spawning DEF openSpawns
  <2> QED BY <2>1, ReplyStays
<1>3. CASE \/ openSpawnFails(c) \/ openFills(c) \/ attachCopies(c) \/ attachSubscribes(c)
           \/ serveKillAll(c)
  <2>1. \A d \in Client : \/ dispatch'[d] = dispatch[d]
                          \/ dispatch'[d].at = "reply" =>
                               dispatch'[d].msg.k \in {"OpenOk", "AttachOk", "Err", "Killed"}
    BY <1>0, <1>3 DEF openSpawnFails, openFills, attachCopies, attachSubscribes,
       serveKillAll, Answer
  <2> QED BY <2>1, ReplyStays
<1>4. CASE serveClose(c) \/ reply(c) \/ unsubscribe(c)
  <2>1. \A d \in Client : dispatch'[d] = dispatch[d] \/ dispatch'[d].at # "reply"
    BY <1>0, <1>4 DEF serveClose, reply, unsubscribe, Idle
  <2> QED BY <2>1, ReplyStays
<1> QED BY <1>1, <1>2, <1>3, <1>4 DEF dispatchStep

LEMMA InitReply == ASSUME Init PROVE ReplyInv
BY DEF Init, ReplyInv, Idle

----------------------------------------------------------------------------
(* Who is subscribed. *)

(* Where c has something of session s, or of its opening: at its           *)
(* dispatcher, on its wire, in the app.                                    *)
InHand(d, s) ==
  \/ d.at \in {"spawn", "fill"} /\ d.s = s
  \/ d.at = "reply" /\ Opens(d.msg) /\ d.msg.s = s
OnWire(w, s) == \E i \in 1 .. Len(w) :
  w[i].k \in {"OpenOk", "AttachOk", "Data", "Exit"} /\ w[i].s = s
InApp(c, s) ==
  \/ \E p \in Pane : pane[p].at = "answered" /\ pane[p].c = c /\ pane[p].s = s
  \/ channels[c][s] # None \/ early[c][s] # <<>>
Joined(c, s) == InHand(dispatch[c], s) \/ OnWire(wire[c], s) \/ InApp(c, s)

(* Such a connection is subscribed to the session, as long as that lives.  *)
SubInv ==
  \A c \in Client, s \in Session :
    conn[c] = "up" /\ Joined(c, s) => s <= opened /\ (Held(s) => c \in subscribers[s])

LEMMA SubStays ==
  ASSUME IndInv, SubInv, opened' \in Nat, opened <= opened',
         \A s \in Session : s <= opened /\ Held(s)' => Held(s),
         \A c \in Client, s \in Session : conn'[c] = "up" /\ Joined(c, s)' =>
           \/ conn[c] = "up" /\ Joined(c, s)
           \/ s <= opened /\ c \in subscribers[s]
           \/ s <= opened' /\ c \in subscribers'[s],
         \A c \in Client, s \in Session :
           conn'[c] = "up" /\ Held(s)' /\ s <= opened /\ c \in subscribers[s] =>
             c \in subscribers'[s]
  PROVE  SubInv'
<1>1. opened \in Nat
  BY DispatchFacts DEF DaemonTypes
<1> SUFFICES ASSUME NEW c \in Client, NEW s \in Session, conn'[c] = "up", Joined(c, s)'
             PROVE  s <= opened' /\ (Held(s)' => c \in subscribers'[s])
  BY DEF SubInv
<1>2. CASE conn[c] = "up" /\ Joined(c, s)
  <2>1. s <= opened /\ (Held(s) => c \in subscribers[s])
    BY <1>2 DEF SubInv
  <2> QED BY <1>1, <2>1 DEF Session
<1>3. CASE s <= opened /\ c \in subscribers[s]
  BY <1>1, <1>3 DEF Session
<1> QED BY <1>2, <1>3

(* Whom a session is held by.                                              *)
LEMMA HeldGoes ==
  ASSUME NEW s, s \in map' \cup dropping' => Held(s),
         \A c \in Client : dispatch'[c].at \in {"spawn", "fill", "copied"} /\ dispatch'[c].s = s =>
            Held(s) \/ (dispatch[c].at \in {"spawn", "fill", "copied"} /\ dispatch[c].s = s),
         flusher'[s].at = "appended" => Held(s) \/ flusher[s].at = "appended",
         waiter'[s].at = "appended" => Held(s) \/ waiter[s].at = "appended"
  PROVE  Held(s)' => Held(s)
<1> SUFFICES ASSUME Held(s)' PROVE Held(s)
  OBVIOUS
<1>1. CASE s \in map' \cup dropping'
  BY <1>1
<1>2. CASE \E c \in Client : dispatch'[c].at \in {"spawn", "fill", "copied"} /\ dispatch'[c].s = s
  BY <1>2 DEF Held
<1>3. CASE flusher'[s].at = "appended" \/ waiter'[s].at = "appended"
  BY <1>3 DEF Held
<1> QED BY <1>1, <1>2, <1>3 DEF Held

LEMMA ThreadHeld ==
  ASSUME IndInv, NEW s \in Session, threadOf(s)
  PROVE  \A t \in Session : Held(t)' => Held(t)
<1> SUFFICES ASSUME NEW t \in Session PROVE Held(t)' => Held(t)
  OBVIOUS
<1>0. DOMAIN flusher = Session /\ DOMAIN waiter = Session
  BY ThreadSeqs
<1>1. UNCHANGED <<map, dispatch>>
  BY DEF threadOf, threadStep, shellWrites, shellEnds, flusherTakes, flusherAppends,
     flusherFansOut, waiterTakes,
         waiterFansOut, sinkExit, sessionDrop, dropThread, daemon
<1>2. dropping' \subseteq dropping
  BY DEF threadOf, threadStep, shellWrites, shellEnds, flusherTakes, flusherAppends,
     flusherFansOut, waiterTakes,
         waiterFansOut, sinkExit, sessionDrop, dropThread, daemon
<1>3. flusher'[t].at = "appended" => Held(t) \/ flusher[t].at = "appended"
  <2>1. CASE flusherTakes(s)
    BY <1>0, <2>1 DEF flusherTakes
  <2>2. CASE flusherAppends(s)
    BY <1>0, <2>2 DEF flusherAppends
  <2>3. CASE flusherFansOut(s)
    BY <1>0, <2>3 DEF flusherFansOut, Resting
  <2>4. CASE ~(flusherTakes(s) \/ flusherAppends(s) \/ flusherFansOut(s))
    <3>1. UNCHANGED flusher
      BY <2>4 DEF threadOf, threadStep, shellWrites, shellEnds, waiterTakes, waiterFansOut,
         sinkExit, sessionDrop,
                  dropThread, threads
    <3> QED BY <3>1
  <2> QED BY <2>1, <2>2, <2>3, <2>4
<1>4. waiter'[t].at = "appended" => Held(t) \/ waiter[t].at = "appended"
  <2>1. CASE waiterTakes(s)
    <3>1. CASE pending[s] # <<>> /\ Held(s)
      BY <1>0, <2>1, <3>1 DEF waiterTakes
    <3>2. CASE ~(pending[s] # <<>> /\ Held(s))
      BY <1>0, <2>1, <3>2 DEF waiterTakes
    <3> QED BY <3>1, <3>2
  <2>2. CASE waiterFansOut(s)
    BY <1>0, <2>2 DEF waiterFansOut
  <2>3. CASE sinkExit(s)
    BY <1>0, <2>3 DEF sinkExit
  <2>4. CASE ~(waiterTakes(s) \/ waiterFansOut(s) \/ sinkExit(s))
    <3>1. UNCHANGED waiter
      BY <2>4 DEF threadOf, threadStep, shellWrites, shellEnds, flusherTakes,
         flusherAppends, flusherFansOut,
                  sessionDrop, dropThread, threads
    <3> QED BY <3>1
  <2> QED BY <2>1, <2>2, <2>3, <2>4
<1>5. t \in map' \cup dropping' => Held(t)
  BY <1>1, <1>2 DEF Held
<1> QED BY <1>1, <1>3, <1>4, <1>5, HeldGoes

LEMMA ThreadSubs ==
  ASSUME IndInv, NEW s \in Session, threadOf(s)
  PROVE  \/ UNCHANGED subscribers
         \/ (~Held(s) /\ subscribers' = [subscribers EXCEPT ![s] = {}] /\ UNCHANGED wire)
BY DEF threadOf, threadStep, shellWrites, shellEnds, flusherTakes, flusherAppends,
   flusherFansOut, waiterTakes,
       waiterFansOut, sinkExit, sessionDrop, dropThread, daemon, wires

(* Frames are only added for subscribers. *)
LEMMA JoinedAdds ==
  ASSUME IndInv, LineInv, WireAdds, UNCHANGED app
  PROVE  \A c \in Client, s \in Session :
           Joined(c, s)' => Joined(c, s) \/ InHand(dispatch'[c], s) \/ (s <= opened /\ c \in subscribers[s])
<1> SUFFICES ASSUME NEW c \in Client, NEW s \in Session, Joined(c, s)', ~InHand(dispatch'[c], s)
             PROVE  Joined(c, s) \/ (s <= opened /\ c \in subscribers[s])
  OBVIOUS
<1>1. CASE InApp(c, s)'
  BY <1>1 DEF InApp, Joined, app
<1>2. CASE OnWire(wire'[c], s)
  <2>1. PICK i \in 1 .. Len(wire'[c]) :
          wire'[c][i].k \in {"OpenOk", "AttachOk", "Data", "Exit"} /\ wire'[c][i].s = s
    BY <1>2 DEF OnWire
  <2>2. CASE i \in 1 .. Len(wire[c]) /\ wire'[c][i] = wire[c][i]
    BY <2>1, <2>2 DEF Joined, OnWire
  <2>3. CASE c \in subscribers[wire'[c][i].s]
    <3>1. ~(s > opened)
      BY <2>1, <2>3 DEF LineInv, Begun
    <3>2. s <= opened
      BY <3>1, DispatchFacts DEF Session, DaemonTypes
    <3> QED BY <2>1, <2>3, <3>2
  <2> QED BY <2>2, <2>3, AddsIs
<1> QED BY <1>1, <1>2 DEF Joined

LEMMA ThreadSub ==
  ASSUME IndInv, AppInv, LineInv, SubInv, NEW s \in Session, threadOf(s)
  PROVE  SubInv'
<1>1. ThreadStill
  BY ThreadStands
<1>2. \A t \in Session : Held(t)' => Held(t)
  BY ThreadHeld
<1>3. \A c \in Client, t \in Session : Joined(c, t)' =>
        Joined(c, t) \/ (t <= opened /\ c \in subscribers[t])
  BY <1>1, JoinedAdds DEF ThreadStill, Joined
<1>4. ASSUME NEW c \in Client, NEW t \in Session, conn'[c] = "up", Joined(c, t)'
      PROVE  (conn[c] = "up" /\ Joined(c, t)) \/ (t <= opened /\ c \in subscribers[t])
  BY <1>1, <1>3, <1>4 DEF ThreadStill
<1>5. ASSUME NEW c \in Client, NEW t \in Session, Held(t)', c \in subscribers[t]
      PROVE  c \in subscribers'[t]
  <2>1. Held(t)
    BY <1>2, <1>5
  <2>2. subscribers'[t] = subscribers[t]
    BY <2>1, ThreadSubs, DispatchFacts DEF DaemonTypes
  <2> QED BY <1>5, <2>2
<1>6. opened' \in Nat /\ opened <= opened'
  BY <1>1, DispatchFacts DEF ThreadStill, DaemonTypes
<1> QED BY <1>2, <1>4, <1>5, <1>6, SubStays

(* A dispatcher subscribes the connection before it has something for it. *)
LEMMA DispatchSub ==
  ASSUME IndInv, AppInv, LineInv, SubInv, NEW c \in Client, DispatchStill(c),
         \A s \in Session : s <= opened /\ Held(s)' => Held(s),
         \A s \in Session : InHand(dispatch'[c], s) =>
            \/ InHand(dispatch[c], s)
            \/ s <= opened /\ c \in subscribers[s]
            \/ s <= opened' /\ c \in subscribers'[s],
         \A d \in Client, s \in Session : Held(s)' /\ s <= opened /\ d \in subscribers[s] =>
           d \in subscribers'[s]
  PROVE  SubInv'
<1>1. /\ UNCHANGED <<app, conn>> /\ WireAdds /\ opened <= opened' /\ opened' \in Nat
      /\ \A d \in Client : d # c => dispatch'[d] = dispatch[d]
  BY DispatchFacts DEF DispatchStill
<1>2. \A d \in Client, s \in Session :
        Joined(d, s)' => Joined(d, s) \/ InHand(dispatch'[d], s) \/ (s <= opened /\ d \in subscribers[s])
  BY <1>1, JoinedAdds
<1>3. ASSUME NEW d \in Client, NEW s \in Session, conn'[d] = "up", Joined(d, s)'
      PROVE  \/ conn[d] = "up" /\ Joined(d, s)
             \/ s <= opened /\ d \in subscribers[s]
             \/ s <= opened' /\ d \in subscribers'[s]
  <2>1. conn[d] = "up"
    BY <1>1, <1>3
  <2>2. CASE InHand(dispatch'[d], s) /\ d = c
    BY <2>1, <2>2 DEF Joined
  <2>3. CASE InHand(dispatch'[d], s) /\ d # c
    BY <1>1, <2>1, <2>3 DEF Joined
  <2> QED BY <1>2, <1>3, <2>1, <2>2, <2>3
<1> QED BY <1>1, <1>3, SubStays

(* What the end of an open does, and the other requests. *)
LEMMA SpawnsIs ==
  ASSUME IndInv, NEW c \in Client, openSpawns(c) \/ openSpawnFails(c) \/ openFills(c)
  PROVE  /\ dispatch[c].at \in {"spawn", "fill"}
         /\ UNCHANGED <<subscribers, dropping, wrote, pending, flusher, waiter, wire>>
         /\ map' \subseteq map
         /\ \A d \in Client : d # c => dispatch'[d] = dispatch[d]
         /\ \/ dispatch'[c].at = "fill" /\ dispatch'[c].s = dispatch[c].s
            \/ dispatch'[c].at = "reply" /\ dispatch'[c].msg.k = "Err"
            \/ dispatch'[c].at = "reply" /\ dispatch'[c].msg.s = dispatch[c].s
<1>1. /\ dispatch[c].at \in {"spawn", "fill"} /\ map' \subseteq map
      /\ UNCHANGED <<subscribers, dropping, wrote, pending, flusher, waiter, wire>>
      /\ \/ dispatch' = [dispatch EXCEPT ![c].at = "fill"]
         \/ dispatch' = [dispatch EXCEPT ![c] = [at |-> "reply", msg |-> [k |-> "Err", p |-> dispatch[c].p]]]
         \/ dispatch' = [dispatch EXCEPT ![c] = [at |-> "reply",
              msg |-> [k |-> "OpenOk", p |-> dispatch[c].p, s |-> dispatch[c].s]]]
  BY DEF openSpawns, openSpawnFails, openFills, Answer, threads, wires
<1>2. dispatch[c] \in [at : {"spawn", "fill"}, s : Session, p : Pane]
  BY <1>1, Spawning
<1> QED BY <1>1, <1>2, DispatchFacts

LEMMA SpawnsHeld ==
  ASSUME IndInv, NEW c \in Client, openSpawns(c) \/ openSpawnFails(c) \/ openFills(c),
         NEW s \in Session
  PROVE  Held(s)' => Held(s)
<1>1. s \in map' \cup dropping' => Held(s)
  BY SpawnsIs DEF Held
<1>2. \A d \in Client : dispatch'[d].at \in {"spawn", "fill", "copied"} /\ dispatch'[d].s = s =>
          Held(s) \/ (dispatch[d].at \in {"spawn", "fill", "copied"} /\ dispatch[d].s = s)
  BY SpawnsIs
<1>3. flusher'[s] = flusher[s] /\ waiter'[s] = waiter[s]
  BY SpawnsIs
<1> QED BY <1>1, <1>2, <1>3, HeldGoes

LEMMA SpawnsSub ==
  ASSUME IndInv, AppInv, LineInv, SubInv, NEW c \in Client,
         openSpawns(c) \/ openSpawnFails(c) \/ openFills(c)
  PROVE  SubInv'
<1>1. DispatchStill(c) /\ UNCHANGED subscribers
  BY SpawnsApp, SpawnsIs
<1>2. \A s \in Session : InHand(dispatch'[c], s) => InHand(dispatch[c], s)
  BY SpawnsIs DEF InHand, Opens
<1>3. \A s \in Session : Held(s)' => Held(s)
  BY SpawnsHeld
<1> QED BY <1>1, <1>2, <1>3, DispatchSub

LEMMA ServesIs ==
  ASSUME IndInv, NEW c \in Client,
         attachCopies(c) \/ attachSubscribes(c) \/ serveClose(c) \/ serveKillAll(c)
  PROVE  /\ map' \cup dropping' \subseteq map \cup dropping
         /\ UNCHANGED <<wrote, pending, flusher, waiter>>
         /\ \A d \in Client : d # c => dispatch'[d] = dispatch[d]
         /\ \/ UNCHANGED <<dispatch, subscribers>>
            \/ dispatch'[c].at = "reply" /\ dispatch'[c].msg.k \in {"Killed", "Err"} /\ UNCHANGED subscribers
            \/ dispatch'[c].at = "copied" /\ dispatch'[c].s \in map /\ UNCHANGED subscribers
            \/ /\ dispatch[c].at = "copied" /\ dispatch'[c].at = "reply"
               /\ dispatch'[c].msg.k = "AttachOk" /\ dispatch'[c].msg.s = dispatch[c].s
               /\ subscribers' = [subscribers EXCEPT ![dispatch[c].s] = @ \cup {c}]
<1>1. /\ map' \cup dropping' \subseteq map \cup dropping
      /\ UNCHANGED <<wrote, pending, flusher, waiter>>
  BY DEF attachCopies, attachSubscribes, serveClose, serveKillAll, closeSessions, threads
<1>2. CASE attachCopies(c)
  BY <1>1, <1>2, DispatchFacts DEF attachCopies, Answer
<1>3. CASE attachSubscribes(c)
  BY <1>1, <1>3, DispatchFacts DEF attachSubscribes, Answer
<1>4. CASE serveClose(c)
  BY <1>1, <1>4, DispatchFacts DEF serveClose
<1>5. CASE serveKillAll(c)
  BY <1>1, <1>5, DispatchFacts DEF serveKillAll, Answer
<1> QED BY <1>2, <1>3, <1>4, <1>5

LEMMA ServesHeld ==
  ASSUME IndInv, NEW c \in Client, NEW s \in Session,
         attachCopies(c) \/ attachSubscribes(c) \/ serveClose(c) \/ serveKillAll(c)
  PROVE  Held(s)' => Held(s)
<1>1. s \in map' \cup dropping' => Held(s)
  BY ServesIs DEF Held
<1>2. \A d \in Client : dispatch'[d].at \in {"spawn", "fill", "copied"} /\ dispatch'[d].s = s =>
          Held(s) \/ (dispatch[d].at \in {"spawn", "fill", "copied"} /\ dispatch[d].s = s)
  BY ServesIs DEF Held
<1>3. flusher'[s] = flusher[s] /\ waiter'[s] = waiter[s]
  BY ServesIs
<1> QED BY <1>1, <1>2, <1>3, HeldGoes

LEMMA ServesSub ==
  ASSUME IndInv, AppInv, LineInv, SubInv, NEW c \in Client,
         attachCopies(c) \/ attachSubscribes(c) \/ serveClose(c) \/ serveKillAll(c)
  PROVE  SubInv'
<1>1. DispatchStill(c)
  BY AttachApp, ServesApp
<1>2. opened \in Nat /\ opened <= opened' /\ opened' \in Nat
  BY <1>1, DispatchFacts DEF DispatchStill, DaemonTypes
<1>3. \A s \in Session : Held(s)' => Held(s)
  BY ServesHeld
<1>sb. \/ subscribers' = subscribers
       \/ subscribers' = [subscribers EXCEPT ![dispatch[c].s] = @ \cup {c}]
  BY ServesIs
<1>dm. subscribers \in [Session -> SUBSET Client]
  BY DispatchFacts DEF DaemonTypes
<1>4. ASSUME NEW d \in Client, NEW s \in Session, d \in subscribers[s] PROVE d \in subscribers'[s]
  BY <1>4, <1>sb, <1>dm
<1>5. ASSUME NEW s \in Session, InHand(dispatch'[c], s)
      PROVE  InHand(dispatch[c], s) \/ (s <= opened' /\ c \in subscribers'[s])
  <2>1. CASE UNCHANGED <<dispatch, subscribers>>
    BY <1>5, <2>1
  <2>2. CASE dispatch'[c].at = "reply" /\ dispatch'[c].msg.k \in {"Killed", "Err"}
    BY <1>5, <2>2 DEF InHand, Opens
  <2>3. CASE dispatch'[c].at = "copied"
    BY <1>5, <2>3 DEF InHand
  <2>4. CASE /\ dispatch[c].at = "copied" /\ dispatch'[c].at = "reply"
             /\ dispatch'[c].msg.s = dispatch[c].s
             /\ subscribers' = [subscribers EXCEPT ![dispatch[c].s] = @ \cup {c}]
    <3>1. s = dispatch[c].s /\ s \in 1 .. opened
      BY <1>5, <2>4, DispatchFacts DEF InHand, DispatchInv, Known
    <3>2. c \in subscribers'[s]
      BY <2>4, <3>1, DispatchFacts DEF DaemonTypes
    <3> QED BY <1>2, <3>1, <3>2
  <2> QED BY <2>1, <2>2, <2>3, <2>4, ServesIs
<1> QED BY <1>1, <1>3, <1>4, <1>5, DispatchSub

(* What openReserves does to the sessions and to its dispatcher. *)
Reserves(c) ==
  \/ /\ opened + 1 \in Session /\ opened' = opened + 1
     /\ map' \subseteq map \cup {opened + 1}
     /\ subscribers' \in [Session -> SUBSET Client] /\ subscribers'[opened + 1] = {c}
     /\ \A s \in Session : s # opened + 1 => subscribers'[s] = subscribers[s]
     /\ dispatch'[c].at = "spawn" /\ dispatch'[c].s = opened + 1
  \/ /\ UNCHANGED <<opened, subscribers>> /\ map' \subseteq map
     /\ dispatch'[c].at = "reply" /\ dispatch'[c].msg.k = "Err"

LEMMA ReservesIs ==
  ASSUME IndInv, NEW c \in Client, openReserves(c)
  PROVE  /\ Reserves(c) /\ dropping' \subseteq dropping \cup map
         /\ UNCHANGED <<wrote, pending, flusher, waiter, excused, stolen, conn, app>>
         /\ opened \in Nat /\ dispatch[c].at = "idle"
         /\ closeSessions(reapable, map')
<1>1. /\ dropping' \subseteq dropping \cup map /\ dispatch[c].at = "idle"
      /\ UNCHANGED <<wrote, pending, flusher, waiter, excused, stolen, conn, app>>
      /\ opened \in Nat
      /\ DOMAIN dispatch = Client /\ subscribers \in [Session -> SUBSET Client]
      /\ closeSessions(reapable, map')
  BY DEF openReserves, closeSessions, reapable, Asks, IndInv, Types, DaemonTypes
<1>2. CASE /\ opened' = opened + 1 /\ subscribers' = [subscribers EXCEPT ![opened + 1] = {c}]
           /\ dispatch' = [dispatch EXCEPT ![c] = [at |-> "spawn", s |-> opened + 1, p |-> Head1(c).p]]
           /\ map' \subseteq map \cup {opened + 1}
  <2>1. PICK d : d = dispatch'[c]
    OBVIOUS
  <2>2. d \in Dispatch
    BY <2>1, OpenReservesKeeps DEF IndInv, Types, DaemonTypes
  <2>3. d.at = "spawn" /\ d.s = opened + 1
    BY <1>1, <1>2, <2>1
  <2>4. opened + 1 \in Session
    BY <2>2, <2>3 DEF Dispatch
  <2>5. /\ subscribers' \in [Session -> SUBSET Client] /\ subscribers'[opened + 1] = {c}
        /\ \A s \in Session : s # opened + 1 => subscribers'[s] = subscribers[s]
    BY <1>1, <1>2, <2>4
  <2> QED BY <1>1, <1>2, <2>1, <2>3, <2>4, <2>5 DEF Reserves
<1>3. CASE /\ UNCHANGED <<opened, subscribers>> /\ Answer(c, [k |-> "Err", p |-> Head1(c).p])
           /\ map' \subseteq map
  BY <1>1, <1>3 DEF Reserves, Answer
<1> QED BY <1>1, <1>2, <1>3 DEF openReserves, closeSessions

LEMMA ReservesHeld ==
  ASSUME IndInv, AppInv, NEW c \in Client, openReserves(c), NEW s \in Session, s <= opened
  PROVE  Held(s)' => Held(s)
<1>1. /\ Reserves(c) /\ dropping' \subseteq dropping \cup map /\ UNCHANGED <<flusher, waiter>>
      /\ opened \in Nat
  BY ReservesIs
<1>2. s # opened + 1
  BY <1>1 DEF Session
<1>3. s \in map' \cup dropping' => Held(s)
  BY <1>1, <1>2 DEF Held, Reserves
<1>4. \A d \in Client : d # c => dispatch'[d] = dispatch[d]
  BY ReservesApp, DispatchFacts DEF DispatchStill
<1>5. \A d \in Client : dispatch'[d].at \in {"spawn", "fill", "copied"} /\ dispatch'[d].s = s =>
          Held(s) \/ (dispatch[d].at \in {"spawn", "fill", "copied"} /\ dispatch[d].s = s)
  BY <1>1, <1>2, <1>4 DEF Reserves
<1>6. flusher'[s] = flusher[s] /\ waiter'[s] = waiter[s]
  BY <1>1
<1> QED BY <1>3, <1>5, <1>6, HeldGoes

LEMMA ReservesSub == ASSUME IndInv, AppInv, LineInv, SubInv, NEW c \in Client, openReserves(c) PROVE SubInv'
<1>1. DispatchStill(c)
  BY ReservesApp
<1>2. Reserves(c) /\ opened \in Nat
  BY ReservesIs
<1>3. \A s \in Session : s <= opened /\ Held(s)' => Held(s)
  BY ReservesHeld
<1>4. \A s \in Session : InHand(dispatch'[c], s) => s <= opened' /\ c \in subscribers'[s]
  BY <1>2 DEF Reserves, InHand, Opens
<1>5. \A d \in Client, s \in Session : s <= opened /\ d \in subscribers[s] =>
        d \in subscribers'[s]
  BY <1>2 DEF Reserves, Session
<1> QED BY <1>1, <1>3, <1>4, <1>5, DispatchSub

LEMMA ReplyHeld ==
  ASSUME IndInv, AppInv, NEW c \in Client, reply(c), NEW s \in Session
  PROVE  Held(s)' => Held(s)
<1>1. /\ UNCHANGED <<map, dropping, flusher, waiter>>
      /\ dispatch'[c] = Idle /\ \A d \in Client : d # c => dispatch'[d] = dispatch[d]
  BY DispatchFacts DEF reply, threads
<1>2. s \in map' \cup dropping' => Held(s)
  BY <1>1 DEF Held
<1>3. \A d \in Client : dispatch'[d].at \in {"spawn", "fill", "copied"} =>
        dispatch'[d] = dispatch[d]
  BY <1>1 DEF Idle
<1>4. flusher'[s] = flusher[s] /\ waiter'[s] = waiter[s]
  BY <1>1
<1> QED BY <1>2, <1>3, <1>4, HeldGoes

LEMMA ReplySub == ASSUME IndInv, AppInv, ReplyInv, LineInv, SubInv, NEW c \in Client, reply(c) PROVE SubInv'
<1>0. opened \in Nat
  BY DispatchFacts DEF DaemonTypes
<1>1. ReplyStill(c) /\ UNCHANGED <<subscribers, map, dropping, flusher, waiter>>
  BY ReplyApp DEF reply, threads
<1>2. /\ UNCHANGED <<app, conn, opened>> /\ dispatch[c].at = "reply"
      /\ dispatch'[c] = Idle /\ \A d \in Client : d # c =>
           dispatch'[d] = dispatch[d] /\ wire'[d] = wire[d]
      /\ wire'[c] = wire[c] \/ wire'[c] = Append(wire[c], dispatch[c].msg)
  BY <1>1, DispatchFacts DEF ReplyStill, WireTypes
<1>3. \A s \in Session : Held(s)' => Held(s)
  BY ReplyHeld
<1>4. ASSUME NEW d \in Client, NEW s \in Session, Joined(d, s)' PROVE Joined(d, s)
  <2>1. CASE InHand(dispatch'[d], s)
    BY <1>2, <2>1 DEF InHand, Idle, Joined
  <2>2. CASE InApp(d, s)'
    BY <1>2, <2>2 DEF InApp, Joined, app
  <2>3. CASE OnWire(wire'[d], s) /\ wire'[d] = wire[d]
    BY <2>3 DEF Joined
  <2>4. CASE OnWire(wire'[d], s) /\ d = c /\ wire'[c] = Append(wire[c], dispatch[c].msg)
    <3>1. wire[c] \in Seq(Message) /\ dispatch[c].msg \in Message
      BY <1>2, Serving, DispatchFacts DEF WireTypes
    <3>2. PICK i \in 1 .. Len(wire'[c]) :
            wire'[c][i].k \in {"OpenOk", "AttachOk", "Data", "Exit"} /\ wire'[c][i].s = s
      BY <2>4 DEF OnWire
    <3>3. CASE i \in 1 .. Len(wire[c]) /\ wire'[c][i] = wire[c][i]
      BY <2>4, <3>2, <3>3 DEF OnWire, Joined
    <3>4. CASE wire'[c][i] = dispatch[c].msg
      <4>1. dispatch[c].msg.k \in {"OpenOk", "AttachOk"} => Joined(c, s)
        BY <1>2, <3>2, <3>4 DEF InHand, Opens, Joined
      <4>2. dispatch[c].msg.k \notin {"Data", "Exit"}
        BY <1>2 DEF ReplyInv
      <4> QED BY <2>4, <3>2, <3>4, <4>1, <4>2
    <3> QED BY <2>4, <3>1, <3>2, <3>3, <3>4
  <2> QED BY <1>2, <1>4, <2>1, <2>2, <2>3, <2>4 DEF Joined
<1> QED BY <1>0, <1>1, <1>2, <1>3, <1>4, SubStays

LEMMA ConnSub == ASSUME IndInv, AppInv, LineInv, SubInv, connStep PROVE SubInv'
<1>1. ConnStill /\ opened \in Nat
  BY ConnStands, DispatchFacts DEF DaemonTypes
<1>2. UNCHANGED <<channels, early, pane, wire, dispatch, opened>>
  BY <1>1 DEF ConnStill
<1>3. ASSUME NEW c \in Client, NEW s \in Session, conn'[c] = "up", Joined(c, s)'
      PROVE  conn[c] = "up" /\ Joined(c, s)
  <2>1. Joined(c, s)
    BY <1>2, <1>3 DEF Joined, InHand, OnWire, InApp
  <2>2. CASE conn[c] # "up"
    <3>1. conn[c] \notin {"up", "left"}
      BY <1>1, <1>3, <2>2 DEF ConnStill
    <3>2. dispatch[c].at = "idle"
      BY <3>1, DispatchFacts DEF RequestInv, DispatchInv
    <3>3. wire[c] = <<>> /\ early[c][s] = <<>> /\ channels[c][s] = None
      BY <2>2 DEF AppInv, AwayInv
    <3>4. \A p \in Pane : pane[p].at = "answered" => pane[p].c # c
      BY <2>2, DispatchFacts DEF PaneInv
    <3>5. Len(wire[c]) = 0
      BY <3>3
    <3> QED BY <2>1, <3>2, <3>3, <3>4, <3>5 DEF Joined, InHand, OnWire, InApp
  <2> QED BY <2>1, <2>2
<1>4. CASE \E c \in Client : unsubscribe(c)
  <2>1. PICK c \in Client : unsubscribe(c)
    BY <1>4
  <2>2. /\ UNCHANGED <<map, dropping, dispatch, flusher, waiter>>
        /\ conn' = [conn EXCEPT ![c] = "gone"]
        /\ \A s \in Session : subscribers'[s] \in {subscribers[s], subscribers[s] \ {c}}
    BY <2>1 DEF unsubscribe, threads
  <2>3. \A s \in Session : Held(s)' => Held(s)
    BY <2>2 DEF Held
  <2>4. conn'[c] # "up"
    BY <2>2, DispatchFacts DEF WireTypes
  <2>5. \A d \in Client, s \in Session : conn'[d] = "up" /\ d \in subscribers[s] =>
          d \in subscribers'[s]
    BY <2>2, <2>4
  <2> QED BY <1>1, <1>2, <1>3, <2>3, <2>5, SubStays
<1>5. CASE shutdownCheck /\ Exits
  <2>1. Counted = {}
    <3>1. CASE Counted # {}
      <4>1. Resumes
        BY <1>5, <3>1 DEF shutdownCheck
      <4> QED BY <1>5, <4>1 DEF Exits, Resumes
    <3> QED BY <3>1
  <2>2. \A c \in Client : conn'[c] # "up"
    BY <1>5, <2>1 DEF Exits, Counted
  <2> QED BY <2>2 DEF SubInv
<1>6. CASE \/ \E c \in Client : connect(c) \/ accept(c)
           \/ idle_watcher \/ acceptWake \/ (shutdownCheck /\ Resumes)
  <2>1. UNCHANGED <<map, dropping, dispatch, flusher, waiter, subscribers>>
    BY <1>6 DEF connect, accept, idle_watcher, acceptWake, Resumes, threads, history
  <2>2. \A s \in Session : Held(s)' => Held(s)
    BY <2>1 DEF Held
  <2> QED BY <1>1, <1>2, <1>3, <2>1, <2>2, SubStays
<1> QED BY <1>4, <1>5, <1>6 DEF connStep, shutdownCheck

LEMMA InitSub == ASSUME Init PROVE SubInv
BY DEF Init, SubInv

(* What a frame of a stream does to the pane of its route, or to the       *)
(* buffer.                                                                 *)
Hears(c, m, b) ==
  /\ conn[c] = "up" /\ wire[c] # <<>> /\ Received(c) /\ m = wire[c][1] /\ m \in Message
  /\ m.k \in {"Data", "Exit"} /\ m.s \in Session /\ b \in Seq(Nat)
  /\ b = IF m.k = "Data" THEN m.chunk ELSE <<Exit>>
  /\ UNCHANGED <<daemon, threads, conn, requests, pane, quitting, known, excused, closed, stolen>>
  /\ saturated \subseteq saturated' /\ view' \in [Pane -> Seq(Nat)]
  /\ \A d \in Client, t \in Session : d # c \/ t # m.s =>
       early'[d][t] = early[d][t] /\ channels'[d][t] = channels[d][t]
  /\ \/ /\ channels[c][m.s] = None /\ channels'[c][m.s] = None /\ view' = view
        /\ \/ early'[c][m.s] = early[c][m.s] \o b
           \/ early'[c][m.s] = early[c][m.s] /\ <<c, m.s>> \in saturated'
     \/ \E q \in Pane :
          /\ channels[c][m.s] = q /\ early[c][m.s] = <<>> /\ early'[c][m.s] = <<>>
          /\ channels'[c][m.s] = IF m.k = "Exit" THEN None ELSE q
          /\ \A r \in Pane : r # q => view'[r] = view[r]
          /\ view'[q] = IF pane[q].at = "shown" THEN view[q] \o b ELSE view[q]

LEMMA HearsIs ==
  ASSUME IndInv, AppInv, NEW c \in Client, receiveData(c) \/ receiveExit(c)
  PROVE  \E m \in Message, b \in Seq(Nat) : Hears(c, m, b)
<1>1. PICK m : m = Head(wire[c])
  OBVIOUS
<1>2. /\ conn[c] = "up" /\ wire[c] # <<>> /\ Received(c) /\ m.k \in {"Data", "Exit"}
      /\ UNCHANGED <<daemon, threads, conn, requests, pane, quitting, known, excused, closed,
                     stolen>>
  BY <1>1 DEF receiveData, receiveExit, Incoming
<1>3. m \in Message /\ m = wire[c][1] /\ m.s \in Session
  <2>1. m \in Message /\ m = wire[c][1]
    BY <1>1, <1>2, Frame
  <2> QED BY <1>2, <2>1 DEF Message
<1>4. PICK s \in Session : s = m.s
  BY <1>3
<1>5. PICK b \in Seq(Nat) : b = IF m.k = "Data" THEN m.chunk ELSE <<Exit>>
  <2>1. CASE m.k = "Data"
    BY <1>3, <2>1, ChunksAre DEF Message
  <2>2. CASE m.k = "Exit"
    <3>1. <<Exit>> \in Seq(Nat)
      BY DEF Exit
    <3> QED BY <2>2, <3>1
  <2> QED BY <1>2, <2>1, <2>2
<1>6. PICK p \in Pane \cup {None} : p = channels[c][s]
  BY <1>4 DEF AppInv, AppKinds
<1>7. /\ view \in [Pane -> Seq(Nat)] /\ early \in [Client -> [Session -> Seq(Nat)]]
      /\ channels \in [Client -> [Session -> Pane \cup {None}]]
  BY DEF AppInv, AppKinds
<1>8. /\ p # None => /\ Deliver(p, b) /\ UNCHANGED saturated
                     /\ \/ m.k = "Data" /\ UNCHANGED <<early, channels>>
                        \/ /\ m.k = "Exit" /\ channels' = [channels EXCEPT ![c][s] = None]
                           /\ early' = [early EXCEPT ![c][s] = <<>>]
      /\ p = None => buffer_early(c, s, b) /\ UNCHANGED <<view, channels>>
  <2>1. CASE receiveData(c)
    BY <1>1, <1>4, <1>5, <1>6, <2>1 DEF receiveData, Incoming
  <2>2. CASE receiveExit(c)
    BY <1>1, <1>4, <1>5, <1>6, <2>2 DEF receiveExit, Incoming
  <2> QED BY <2>1, <2>2
<1>9. CASE p # None
  <2>1. p \in Pane /\ early[c][s] = <<>>
    <3>1. channels[c][s] # None
      BY <1>6, <1>9
    <3> QED BY <1>6, <1>9, <3>1, Zenon DEF AppInv, RouteInv
  <2>2. /\ view' \in [Pane -> Seq(Nat)] /\ \A r \in Pane : r # p => view'[r] = view[r]
        /\ view'[p] = IF pane[p].at = "shown" THEN view[p] \o b ELSE view[p]
    <3>1. PICK v : v = view[p] \o b
      OBVIOUS
    <3>2. v \in Seq(Nat)
      BY <1>7, <2>1, <3>1, Joins
    <3>3. view' = IF pane[p].at = "shown" THEN [view EXCEPT ![p] = v] ELSE view
      BY <1>8, <1>9, <3>1 DEF Deliver
    <3>4. /\ view' \in [Pane -> Seq(Nat)] /\ \A r \in Pane : r # p => view'[r] = view[r]
          /\ view'[p] = IF pane[p].at = "shown" THEN v ELSE view[p]
      BY <1>7, <2>1, <3>2, <3>3
    <3> QED BY <3>1, <3>4
  <2>3. /\ \A d \in Client, t \in Session : d # c \/ t # s =>
              early'[d][t] = early[d][t] /\ channels'[d][t] = channels[d][t]
        /\ early'[c][s] = <<>> /\ channels'[c][s] = IF m.k = "Exit" THEN None ELSE p
    <3>1. CASE m.k = "Data" /\ UNCHANGED <<early, channels>>
      BY <1>6, <2>1, <3>1
    <3>2. CASE /\ m.k = "Exit" /\ channels' = [channels EXCEPT ![c][s] = None]
               /\ early' = [early EXCEPT ![c][s] = <<>>]
      BY <1>7, <3>2, RouteGone
    <3> QED BY <1>8, <1>9, <3>1, <3>2
  <2>4. UNCHANGED saturated
    BY <1>8, <1>9
  <2>5. \E q \in Pane :
          /\ channels[c][s] = q /\ early[c][s] = <<>> /\ early'[c][s] = <<>>
          /\ channels'[c][s] = IF m.k = "Exit" THEN None ELSE q
          /\ \A r \in Pane : r # q => view'[r] = view[r]
          /\ view'[q] = IF pane[q].at = "shown" THEN view[q] \o b ELSE view[q]
    BY <1>6, <2>1, <2>2, <2>3, Zenon
  <2>6. Hears(c, m, b)
    BY <1>2, <1>3, <1>4, <1>5, <2>2, <2>3, <2>4, <2>5 DEF Hears
  <2> QED BY <1>3, <2>6
<1>10. CASE p = None
  <2>1. /\ view' = view /\ channels' = channels /\ buffer_early(c, s, b)
    BY <1>8, <1>10
  <2>2. /\ \A d \in Client, t \in Session : d # c \/ t # s => early'[d][t] = early[d][t]
        /\ early'[c][s] = early[c][s] \o b \/ (early'[c][s] = early[c][s] /\ <<c, s>> \in saturated')
        /\ saturated \subseteq saturated'
    BY <1>7, <2>1, EarlyGrows
  <2>3. Hears(c, m, b)
    BY <1>2, <1>3, <1>4, <1>5, <1>6, <1>7, <1>10, <2>1, <2>2 DEF Hears
  <2> QED BY <1>3, <2>3
<1> QED BY <1>9, <1>10

LEMMA AppSubStays ==
  ASSUME IndInv, SubInv, UNCHANGED <<daemon, threads>>,
         \A c \in Client, s \in Session :
           conn'[c] = "up" /\ (OnWire(wire'[c], s) \/ InApp(c, s)') =>
           conn[c] = "up" /\ Joined(c, s),
         \A c \in Client : conn'[c] = "up" => conn[c] = "up"
  PROVE  SubInv'
<1>1. /\ UNCHANGED <<map, dropping, dispatch, subscribers, flusher, waiter, opened>>
      /\ opened \in Nat
  BY DispatchFacts DEF daemon, threads, DaemonTypes
<1>2. \A s \in Session : Held(s)' => Held(s)
  BY <1>1 DEF Held
<1>3. ASSUME NEW c \in Client, NEW s \in Session, conn'[c] = "up", Joined(c, s)'
      PROVE  conn[c] = "up" /\ Joined(c, s)
  <2>1. CASE InHand(dispatch'[c], s)
    BY <1>1, <1>3, <2>1 DEF Joined
  <2>2. CASE OnWire(wire'[c], s) \/ InApp(c, s)'
    BY <1>3, <2>2
  <2> QED BY <1>3, <2>1, <2>2 DEF Joined
<1> QED BY <1>1, <1>2, <1>3, SubStays

(* The wire of c is shorter by its first frame. *)
LEMMA LessOnWire ==
  ASSUME IndInv, NEW c \in Client, conn[c] = "up", wire[c] # <<>>, Received(c)
  PROVE  \A d \in Client, s \in Session : OnWire(wire'[d], s) => OnWire(wire[d], s)
<1>1. \A d \in Client, s \in Session : d # c /\ OnWire(wire'[d], s) => OnWire(wire[d], s)
  BY Frame
<1>2. ASSUME NEW s \in Session, OnWire(wire'[c], s) PROVE OnWire(wire[c], s)
  <2>1. PICK i \in 1 .. Len(wire'[c]) :
          wire'[c][i].k \in {"OpenOk", "AttachOk", "Data", "Exit"} /\ wire'[c][i].s = s
    BY <1>2 DEF OnWire
  <2>2. wire'[c][i] = wire[c][i + 1] /\ i + 1 \in 1 .. Len(wire[c])
    BY Frame
  <2> QED BY <2>1, <2>2 DEF OnWire
<1> QED BY <1>1, <1>2

(* The app has less, or has it from the wire. *)
LEMMA AppLess ==
  ASSUME IndInv, SubInv, UNCHANGED <<daemon, threads>>,
         \A c \in Client : conn'[c] = "up" => conn[c] = "up",
         \A c \in Client, s \in Session : conn'[c] = "up" =>
           /\ OnWire(wire'[c], s) => OnWire(wire[c], s)
           /\ channels'[c][s] # None => channels[c][s] # None \/ OnWire(wire[c], s) \/ InApp(c, s)
           /\ early'[c][s] # <<>> => early[c][s] # <<>> \/ OnWire(wire[c], s),
         \A p \in Pane : pane'[p].at = "answered" =>
           \/ pane'[p] = pane[p]
           \/ \A c \in Client, s \in Session : pane'[p].c = c /\ pane'[p].s = s =>
                OnWire(wire[c], s)
  PROVE  SubInv'
<1>1. ASSUME NEW c \in Client, NEW s \in Session, conn'[c] = "up", InApp(c, s)'
      PROVE  Joined(c, s)
  <2>1. CASE \E p \in Pane : pane'[p].at = "answered" /\ pane'[p].c = c /\ pane'[p].s = s
    BY <2>1 DEF Joined, InApp
  <2>2. CASE channels'[c][s] # None \/ early'[c][s] # <<>>
    BY <1>1, <2>2 DEF Joined, InApp
  <2> QED BY <1>1, <2>1, <2>2 DEF InApp
<1>2. ASSUME NEW c \in Client, NEW s \in Session, conn'[c] = "up", OnWire(wire'[c], s)
      PROVE  Joined(c, s)
  BY <1>2 DEF Joined
<1> QED BY <1>1, <1>2, AppSubStays

LEMMA HearsSub == ASSUME IndInv, AppInv, SubInv, NEW c \in Client, receiveData(c) \/ receiveExit(c) PROVE SubInv'
<1>1. PICK m \in Message, b \in Seq(Nat) : Hears(c, m, b)
  BY HearsIs
<1>2. /\ UNCHANGED <<daemon, threads, conn, pane>> /\ conn[c] = "up" /\ wire[c] # <<>>
      /\ Received(c)
      /\ m = wire[c][1] /\ m.k \in {"Data", "Exit"} /\ m.s \in Session
  BY <1>1 DEF Hears
<1>3. OnWire(wire[c], m.s)
  <2>1. 1 \in 1 .. Len(wire[c])
    BY <1>2, Frame
  <2> QED BY <1>2, <2>1 DEF OnWire
<1>4. \A d \in Client, s \in Session : OnWire(wire'[d], s) => OnWire(wire[d], s)
  BY <1>2, LessOnWire
<1>5. \A d \in Client, s \in Session :
        /\ channels'[d][s] # None => channels[d][s] # None
        /\ early'[d][s] # <<>> => early[d][s] # <<>> \/ (d = c /\ s = m.s)
  <2> SUFFICES ASSUME NEW d \in Client, NEW s \in Session
               PROVE  /\ channels'[d][s] # None => channels[d][s] # None
                      /\ early'[d][s] # <<>> => early[d][s] # <<>> \/ (d = c /\ s = m.s)
    OBVIOUS
  <2>1. CASE d # c \/ s # m.s
    BY <1>1, <2>1 DEF Hears
  <2>2. CASE d = c /\ s = m.s
    BY <1>1, <2>2 DEF Hears
  <2> QED BY <2>1, <2>2
<1> QED BY <1>2, <1>3, <1>4, <1>5, AppLess

LEMMA AppSub == ASSUME IndInv, AppInv, SubInv, NEW c \in Client, AppStep(c) PROVE SubInv'
<1>0. UNCHANGED <<daemon, threads>> /\ WireTypes
  BY AppDaemon, DispatchFacts
<1>1. CASE receiveData(c) \/ receiveExit(c)
  BY <1>1, HearsSub
<1>2. CASE receiveReply(c)
  <2>1. PICK m : m = Head(wire[c])
    OBVIOUS
  <2>2. /\ conn[c] = "up" /\ wire[c] # <<>> /\ Received(c) /\ m = wire[c][1] /\ m.p \in Pane
        /\ UNCHANGED <<conn, channels, early>> /\ \A q \in Pane : q # m.p => pane'[q] = pane[q]
        /\ \/ pane'[m.p] = pane[m.p] \/ pane'[m.p].at # "answered"
           \/ m.k \in {"OpenOk", "AttachOk"} /\ pane'[m.p].c = c /\ pane'[m.p].s = m.s
    <3>1. PICK r : r = [at |-> "failed", c |-> None]
      OBVIOUS
    <3>2. r.at # "answered"
      BY <3>1
    <3> QED BY <1>2, <2>1, <3>1, <3>2, ReplyIs
  <2>3. 1 \in 1 .. Len(wire[c])
    BY <2>2, Frame
  <2>4. m.k \in {"OpenOk", "AttachOk"} => OnWire(wire[c], m.s)
    BY <2>2, <2>3 DEF OnWire
  <2>5. \A d \in Client, s \in Session : OnWire(wire'[d], s) => OnWire(wire[d], s)
    BY <2>2, LessOnWire
  <2>6. \A p \in Pane : pane'[p].at = "answered" =>
           \/ pane'[p] = pane[p]
           \/ \A d \in Client, s \in Session : pane'[p].c = d /\ pane'[p].s = s =>
                OnWire(wire[d], s)
    BY <2>2, <2>4
  <2> QED BY <1>0, <2>2, <2>5, <2>6, AppLess
<1>3. CASE receiveKilled(c)
  <2>1. /\ conn[c] = "up" /\ wire[c] # <<>> /\ Received(c) /\ UNCHANGED <<conn, pane>>
        /\ channels' = [channels EXCEPT ![c] = [s \in Session |-> None]]
        /\ early' = [early EXCEPT ![c] = [s \in Session |-> <<>>]]
    BY <1>3 DEF receiveKilled, Incoming
  <2>2. \A d \in Client, s \in Session : OnWire(wire'[d], s) => OnWire(wire[d], s)
    BY <2>1, LessOnWire
  <2>3. \A d \in Client, s \in Session :
           /\ channels'[d][s] # None => channels[d][s] # None
           /\ early'[d][s] # <<>> => early[d][s] # <<>>
    BY <2>1 DEF AppInv, AppKinds
  <2> QED BY <1>0, <2>1, <2>2, <2>3, AppLess
<1>4. CASE \E p \in Pane : register(p)
  <2>1. PICK p \in Pane : register(p)
    BY <1>4
  <2>2. PICK d \in Client, s \in Session : Registers(p, d, s)
    BY <2>1, RegisterIs
  <2>3. /\ UNCHANGED wires /\ pane'[p].at = "shown" /\ \A q \in Pane : q # p => pane'[q] = pane[q]
        /\ early'[d][s] = <<>> /\ pane[p].at = "answered" /\ pane[p].c = d /\ pane[p].s = s
        /\ \A e \in Client, t \in Session : e # d \/ t # s =>
             channels'[e][t] = channels[e][t] /\ early'[e][t] = early[e][t]
    BY <2>2 DEF Registers
  <2>4. UNCHANGED <<conn, wire>>
    BY <2>3 DEF wires
  <2>5. InApp(d, s)
    BY <2>3 DEF InApp
  <2>6. \A e \in Client, t \in Session :
           /\ channels'[e][t] # None => channels[e][t] # None \/ OnWire(wire[e], t) \/ InApp(e, t)
           /\ early'[e][t] # <<>> => early[e][t] # <<>> \/ OnWire(wire[e], t)
    BY <2>3, <2>5
  <2>7. \A q \in Pane : pane'[q].at = "answered" => pane'[q] = pane[q]
    BY <2>3
  <2> QED BY <1>0, <2>4, <2>6, <2>7, AppLess
<1>5. CASE \E p \in Pane : requestTimesOut(p)
  <2>1. PICK p \in Pane : requestTimesOut(p)
    BY <1>5
  <2>2. /\ UNCHANGED <<conn, wire, channels, early>>
        /\ pane' = [pane EXCEPT ![p] = [at |-> "failed", c |-> None]]
    BY <2>1 DEF requestTimesOut, wires
  <2>3. \A q \in Pane : pane'[q].at = "answered" => pane'[q] = pane[q]
    BY <2>2, DispatchFacts DEF IndInv, Types, AppTypes
  <2> QED BY <1>0, <2>2, <2>3, AppLess
<1>6. CASE \E p \in Pane : pty_close(p)
  <2>1. PICK p \in Pane : pty_close(p)
    BY <1>6
  <2>2. PICK d \in Client, s \in Session : Closes(p, d, s)
    BY <2>1, CloseIs
  <2>3. /\ UNCHANGED <<conn, wire>> /\ pane'[p].at = "closed"
        /\ \A q \in Pane : q # p => pane'[q] = pane[q]
        /\ channels' = [channels EXCEPT ![d][s] = None] /\ early' = [early EXCEPT ![d][s] = <<>>]
    BY <2>2 DEF Closes
  <2>4. \A e \in Client, t \in Session :
           /\ channels'[e][t] # None => channels[e][t] # None
           /\ early'[e][t] # <<>> => early[e][t] # <<>>
    BY <2>3 DEF AppInv, AppKinds
  <2>5. \A q \in Pane : pane'[q].at = "answered" => pane'[q] = pane[q]
    BY <2>3
  <2> QED BY <1>0, <2>3, <2>4, <2>5, AppLess
<1>7. ASSUME NEW p \in Pane, NEW open, NEW t, AsksFor(p, c, open, t) PROVE SubInv'
  <2>1. /\ UNCHANGED <<conn, wire, channels, early>> /\ pane'[p].at = "asked"
        /\ \A q \in Pane : q # p => pane'[q] = pane[q] \/ pane'[q].at = "lost"
    BY <1>7 DEF AsksFor
  <2>2. \A q \in Pane : pane'[q].at = "answered" => pane'[q] = pane[q]
    BY <2>1
  <2> QED BY <1>0, <2>1, <2>2, AppLess
<1>8. CASE \/ adopt(c) \/ \E p \in Pane : pty_open(p, c)
           \/ \E p \in Pane, q \in Pane : pty_attach(p, c, q)
  <2>1. \E p \in Pane : \E open, t : AsksFor(p, c, open, t)
    BY <1>8, AdoptAsks, OpenAsks, AttachAsks DEF Adopts
  <2>2. PICK p \in Pane : \E open, t : AsksFor(p, c, open, t)
    BY <2>1
  <2> QED BY <1>7, <2>2
<1>9. CASE pty_kill_all(c)
  <2>1. Quits(c)
    BY <1>9, QuitsIs
  <2>2. /\ UNCHANGED <<conn, wire, channels, early>>
        /\ \A q \in Pane : pane'[q].at = "answered" => pane'[q] = pane[q]
    BY <2>1 DEF Quits
  <2> QED BY <1>0, <2>2, AppLess
<1>10. CASE disconnect(c)
  <2>1. Leaves(c)
    BY <1>10, LeavesIs
  <2>2. /\ \A d \in Client : conn'[d] = "up" => conn[d] = "up"
        /\ \A d \in Client : d # c => wire'[d] = wire[d] /\ conn'[d] = conn[d]
        /\ \A d \in Client, t \in Session : d # c =>
             early'[d][t] = early[d][t] /\ channels'[d][t] = channels[d][t]
        /\ conn'[c] # "up"
        /\ \A q \in Pane : pane'[q].at = "answered" => pane'[q] = pane[q]
    <3>1. conn'[c] = "left" /\ \A d \in Client : d # c => conn'[d] = conn[d]
      BY <1>0, <2>1 DEF Leaves, WireTypes
    <3> QED BY <2>1, <3>1 DEF Leaves
  <2>3. ASSUME NEW d \in Client, NEW s \in Session, conn'[d] = "up"
        PROVE  /\ OnWire(wire'[d], s) => OnWire(wire[d], s)
               /\ channels'[d][s] # None => channels[d][s] # None
               /\ early'[d][s] # <<>> => early[d][s] # <<>>
    BY <2>2, <2>3
  <2> QED BY <1>0, <2>2, <2>3, AppLess
<1> QED BY <1>1, <1>2, <1>3, <1>4, <1>5, <1>6, <1>8, <1>9, <1>10 DEF AppStep, readerStep

----------------------------------------------------------------------------
(* The theorems. *)

LEMMA InitHolds == ASSUME Init PROVE IndInv
<1>1. Cardinality({}) = 0
  BY FS_EmptySet
<1>2. DaemonTypes
  <2>1. dispatch \in [Client -> Dispatch]
    BY DEF Init, Idle, Dispatch
  <2> QED BY <1>1, <2>1, PtyDaemonAssumption DEF Init, DaemonTypes
<1>3. ThreadTypes
  BY PtyDaemonAssumption DEF Init, ThreadTypes, Resting
<1>4. WireTypes
  BY PtyDaemonAssumption DEF Init, WireTypes
<1>5. AppTypes
  <2>1. \A c \in Client : {s \in Session : early[c][s] # <<>>} = {}
    BY DEF Init
  <2>2. ASSUME NEW c \in Client
        PROVE  Cardinality({s \in Session : early[c][s] # <<>>}) <= MAX_EARLY_SESSIONS
    <3> DEFINE A == {s \in Session : early[c][s] # <<>>}
    <3>1. A = {}
      BY <2>1
    <3> HIDE DEF A
    <3>2. Cardinality(A) <= MAX_EARLY_SESSIONS
      BY <1>1, <3>1, PtyDaemonAssumption
    <3> QED BY <3>2 DEF A
  <2>3. DOMAIN early = Client /\ \A c \in Client : DOMAIN early[c] = Session
    BY DEF Init
  <2>4. DOMAIN pane = Pane /\ \A p \in Pane : pane[p].at = "new"
    BY DEF Init
  <2> QED BY <2>2, <2>3, <2>4, PtyDaemonAssumption DEF Init, AppTypes
<1>6. ShellInv
  BY DEF Init, ShellInv, Resting
<1>7. SpawnInv
  BY DEF Init, SpawnInv, Idle
<1>8. LinkInv
  <2>1. DispatchInv
    BY DEF Init, DispatchInv, Idle
  <2>2. RequestInv
    BY DEF Init, RequestInv
  <2>3. WireInv
    BY DEF Init, WireInv
  <2>4. PaneInv
    BY DEF Init, PaneInv
  <2> QED BY <2>1, <2>2, <2>3, <2>4 DEF LinkInv
<1>9. CountInv
  <2>1. OpenOnce
    BY DEF Init, OpenOnce
  <2>2. Waiting = {}
    BY DEF Init, Waiting
  <2> QED BY <1>1, <2>1, <2>2 DEF Init, CountInv
<1> QED BY <1>2, <1>3, <1>4, <1>5, <1>6, <1>7, <1>8, <1>9 DEF IndInv, Types

LEMMA StutterHolds == ASSUME IndInv, UNCHANGED vars PROVE IndInv'
<1>1. UNCHANGED <<daemon, threads, closed, conn, requests, wire, pane, early, opens>>
  BY DEF vars, wires, app, history
<1> QED BY <1>1, PanesSame, EarlySame, WireFacts, HearsKeeps

LEMMA NextHolds == ASSUME IndInv, Next PROVE IndInv'
<1>1. ASSUME NEW s \in Session, shellWrites(s) \/ shellEnds(s) \/ threadStep(s) PROVE IndInv'
  BY <1>1, WritesKeeps, EndsKeeps, TakesKeeps, AppendsKeeps, FansOutKeeps, WaiterTakesKeeps,
     WaiterFansOutKeeps, ExitKeeps, DropKeeps, DropThreadKeeps DEF threadStep
<1>2. ASSUME NEW c \in Client, dispatchStep(c) PROVE IndInv'
  BY <1>2, OpenReservesKeeps, OpenSpawnsKeeps, OpenSpawnFailsKeeps, OpenFillsKeeps,
     AttachCopiesKeeps,
     AttachSubscribesKeeps, ServeCloseKeeps, KillAllKeeps, ReplyKeeps, UnsubscribeKeeps DEF dispatchStep
<1>3. ASSUME NEW c \in Client, readerStep(c) PROVE IndInv'
  BY <1>3, ReceiveDataKeeps, ReceiveExitKeeps, ReceiveReplyKeeps, ReceiveKilledKeeps
     DEF readerStep
<1>4. ASSUME NEW c \in Client,
             connect(c) \/ accept(c) \/ disconnect(c) \/ pty_kill_all(c) \/ adopt(c)
      PROVE  IndInv'
  BY <1>4, ConnectKeeps, AcceptKeeps, DisconnectKeeps, PtyKillAllKeeps, AdoptKeeps
<1>5. ASSUME idle_watcher \/ acceptWake \/ shutdownCheck PROVE IndInv'
  BY <1>5, WatcherKeeps, ShutdownCheckKeeps
<1>6. ASSUME NEW p \in Pane, register(p) \/ requestTimesOut(p) \/ pty_close(p) PROVE IndInv'
  BY <1>6, RegisterKeeps, RequestTimesOutKeeps, PtyCloseKeeps
<1>7. ASSUME NEW p \in Pane, NEW c \in Client,
             pty_open(p, c) \/ \E q \in Pane : pty_attach(p, c, q)
      PROVE  IndInv'
  BY <1>7, PtyOpenKeeps, PtyAttachKeeps
<1> QED BY <1>1, <1>2, <1>3, <1>4, <1>5, <1>6, <1>7 DEF Next

(* The inductive invariant holds of the daemon, its threads, the wires and *)
(* the app in every reachable state: what each of them is in the middle of *)
(* agrees with the sessions the daemon has (DaemonState of server.rs).     *)
THEOREM DaemonInvariance == Spec => []IndInv
<1>1. Init => IndInv
  BY InitHolds
<1>2. IndInv /\ [Next]_vars => IndInv'
  BY NextHolds, StutterHolds
<1> QED BY <1>1, <1>2, PTL DEF Spec

(* The limits of the daemon and of its client hold whatever they are: the  *)
(* sessions of open_session, the reader's backlog, the ring of             *)
(* ServerSink::data, the writer queue of a client and the sessions of      *)
(* buffer_early.                                                           *)
THEOREM DaemonTypesHold == Spec => []TypeOK
<1>1. ASSUME IndInv PROVE TypeOK
  <2>1. opened \in 0 .. MaxOpens
    BY <1>1, OpenedInSession, PtyDaemonAssumption DEF IndInv, Types, DaemonTypes
  <2>2. /\ service \in {"serving", "asked", "resting", "down"}
        /\ map \subseteq 1 .. opened /\ filled \subseteq 1 .. opened /\ dropping \subseteq closed
        /\ map \cap closed = {} /\ Cardinality(map) <= MAX_SESSIONS
        /\ \A s \in Session : subscribers[s] \subseteq Client
    BY <1>1 DEF IndInv, Types, DaemonTypes
  <2>3. \A s \in Session :
          /\ shell[s] \in {"none", "run", "ended", "perished"} /\ wrote[s] \in 0 .. MaxChunks
          /\ Len(pending[s]) <= MAX_PENDING
          /\ Len(scrollback[s]) <= SCROLLBACK_CAP + SCROLLBACK_SLACK
          /\ flusher[s].at \in {"rest", "took", "appended", "ended"}
          /\ waiter[s].at \in {"rest", "appended", "tailed", "ended"}
    BY <1>1 DEF IndInv, Types, ThreadTypes
  <2>4. \A c \in Client :
          /\ conn[c] \in {"off", "dialled", "counted", "up", "left", "gone", "refused"}
          /\ Len(wire[c]) <= WRITER_QUEUE
    BY <1>1 DEF IndInv, Types, WireTypes
  <2>5. /\ \A c \in Client :
             Cardinality({s \in Session : early[c][s] # <<>>}) <= MAX_EARLY_SESSIONS
        /\ \A p \in Pane : pane[p].at \in {"new", "asked", "answered", "shown", "closed", "failed", "lost"}
    BY <1>1 DEF IndInv, Types, AppTypes
  <2> QED BY <2>1, <2>2, <2>3, <2>4, <2>5 DEF TypeOK
<1> QED BY <1>1, DaemonInvariance, PTL

(* No shell outlives its session (close_session, the drop of the last Arc) *)
(* nor goes with the idle daemon (the second look of accept_loop): one     *)
(* that runs and is in the map no more was closed, and the dispatcher that *)
(* still fills its pty, or the last reference to it, is under way.         *)
THEOREM DaemonNoOrphanShell == Spec => []NoOrphanShell
<1>1. ASSUME IndInv PROVE NoOrphanShell
  <2> SUFFICES ASSUME NEW s \in Session
               PROVE  shell[s] # "perished" /\ (shell[s] = "run" /\ s \notin map => ~Quiet)
    BY DEF NoOrphanShell
  <2>1. shell[s] # "perished"
    BY <1>1 DEF IndInv, ShellInv
  <2>2. ASSUME shell[s] = "run", s \notin map, Quiet PROVE FALSE
    <3>1. \A c \in Client : dispatch[c] = Idle
      BY <2>2 DEF Quiet
    <3>2. s \in filled \/ \E c \in Client : dispatch[c].at = "fill" /\ dispatch[c].s = s
      BY <1>1, <2>2 DEF IndInv, ShellInv
    <3>3. s \in filled
      BY <3>1, <3>2 DEF Idle
    <3>4. s \notin freed
      BY <1>1, <2>2 DEF IndInv, ShellInv
    <3>5. Held(s)
      BY <2>2, <3>3, <3>4 DEF Quiet
    <3>6. s \notin dropping /\ flusher[s].at # "appended"
      BY <2>2 DEF Quiet
    <3>7. waiter[s].at # "appended"
      BY <1>1, <2>2 DEF IndInv, ShellInv
    <3> QED BY <2>2, <3>1, <3>5, <3>6, <3>7 DEF Held, Idle
  <2> QED BY <2>1, <2>2
<1> QED BY <1>1, DaemonInvariance, PTL

=============================================================================
