----------------------------- MODULE PtyDaemon -----------------------------
(***************************************************************************)
(* The sidecar that owns the local shells, and its client in the app:      *)
(* src-tauri/src/modules/pty_daemon/server.rs and client.rs, the three     *)
(* threads of a shell in pty/session.rs and the commands of pty/mod.rs.    *)
(*                                                                         *)
(* The output of a shell is the chunks 1, 2, 3, ... in the order it wrote  *)
(* them.  Each connection has one dispatcher on the server, which answers  *)
(* its requests one after another; the writer queue and the socket behind  *)
(* it are one bounded sequence.  A pane stands for one Channel<PtyEvent>   *)
(* and for the pty_open or pty_attach that brought it.                     *)
(***************************************************************************)
EXTENDS Naturals, Sequences, FiniteSets, Functions, SequencesExt

CONSTANTS
  MaxClients,       \* bound: connections ever made to the daemon
  MaxPanes,         \* bound: channels the front end ever makes
  MaxOpens,         \* bound: sessions ever created
  MaxPolls,         \* bound: rounds of the adopt poll
  MaxChunks,        \* bound: chunks one shell writes
  SCROLLBACK_CAP,   \* chunks kept after a trim
  SCROLLBACK_SLACK, \* chunks the ring may overrun before it
  WRITER_QUEUE,     \* events queued for one client
  MAX_PENDING,      \* chunks the reader holds for the flusher
  MAX_SESSIONS, MAX_DEAD,
  MAX_EARLY_SESSIONS, EARLY_CAP,
  None

ASSUME PtyDaemonAssumption ==
  /\ MaxClients \in Nat /\ MaxPanes \in Nat /\ MaxPolls \in Nat
  /\ MaxOpens \in Nat /\ MaxChunks \in Nat
  /\ SCROLLBACK_CAP \in Nat \ {0} /\ SCROLLBACK_SLACK \in Nat
  /\ WRITER_QUEUE \in Nat \ {0} /\ MAX_PENDING \in Nat \ {0}
  /\ MAX_SESSIONS \in Nat /\ MAX_DEAD \in Nat
  /\ MAX_EARLY_SESSIONS \in Nat /\ EARLY_CAP \in Nat \ {0}
  /\ None \notin Nat

Client == 1 .. MaxClients
Pane == 1 .. MaxPanes
Session == 1 .. MaxOpens   \* ids in the order of created_at_ms
Chunk == 1 .. MaxChunks
Exit == 0                  \* PtyEvent::Exit, among the chunks a pane is sent

VARIABLES
  \* the daemon
  service,   \* serving, asked (to shut down), resting (before its last look) or down
  opened,    \* sessions created so far
  map,       \* DaemonState.sessions
  filled,    \* sessions whose `pty` OnceLock is set
  dropping,  \* removed sessions a detached drop thread still holds
  freed,     \* sessions whose last Arc is gone
  alive,     \* DaemonSession.alive
  scrollback, subscribers,
  dispatch,  \* connection -> what its dispatcher is in the middle of
  \* the shell of a session and its threads
  shell, wrote, pending, flusher, waiter,
  \* the wires
  conn, requests, wire,
  \* the client in the app
  channels, early, pane, view, quitting,
  known,     \* connection -> sessions the adopt poll leaves alone
  opens, polls,
  \* history: what no stream is expected to carry
  excused, saturated, closed, stolen

daemon == <<service, opened, map, filled, dropping, freed, alive, scrollback, subscribers, dispatch>>
threads == <<shell, wrote, pending, flusher, waiter>>
wires == <<conn, requests, wire>>
app == <<channels, early, pane, view, quitting, known, opens, polls>>
history == <<excused, saturated, closed, stolen>>
vars == <<daemon, threads, wires, app, history>>

Idle == [at |-> "idle"]
Resting == [at |-> "rest", chunk |-> <<>>]

Init ==
  /\ service = "down"
  /\ opened = 0 /\ map = {} /\ filled = {} /\ dropping = {} /\ freed = {}
  /\ alive = [s \in Session |-> TRUE]
  /\ scrollback = [s \in Session |-> <<>>]
  /\ subscribers = [s \in Session |-> {}]
  /\ dispatch = [c \in Client |-> Idle]
  /\ shell = [s \in Session |-> "none"]
  /\ wrote = [s \in Session |-> 0]
  /\ pending = [s \in Session |-> <<>>]
  /\ flusher = [s \in Session |-> Resting]
  /\ waiter = [s \in Session |-> Resting]
  /\ conn = [c \in Client |-> "off"]
  /\ requests = [c \in Client |-> <<>>]
  /\ wire = [c \in Client |-> <<>>]
  /\ channels = [c \in Client |-> [s \in Session |-> None]]
  /\ early = [c \in Client |-> [s \in Session |-> <<>>]]
  /\ pane = [p \in Pane |-> [at |-> "new", c |-> None]]
  /\ view = [p \in Pane |-> <<>>]
  /\ quitting = {} /\ opens = 0 /\ polls = 0
  /\ known = [c \in Client |-> {}]
  /\ excused = [s \in Session |-> {}]
  /\ saturated = {} /\ closed = {} /\ stolen = {}

-----------------------------------------------------------------------------
(* The writer queues. *)

(* The streams that lose one of these events to a full queue.              *)
overflows(msgs) ==
  {x \in Client \X Session :
     /\ conn[x[1]] = "up" /\ Len(wire[x[1]]) + Len(msgs[x[1]]) > WRITER_QUEUE
     /\ \E i \in 1 .. Len(msgs[x[1]]) : msgs[x[1]][i].s = x[2]}

(* try_send: what does not fit in a queue is lost, and a queue whose       *)
(* client is gone has no receiver.                                         *)
trySend(msgs) ==
  /\ wire' = [c \in Client |-> IF conn[c] # "up" THEN wire[c]
                               ELSE LET all == wire[c] \o msgs[c]
                                    IN  SubSeq(all, 1, Min({Len(all), WRITER_QUEUE}))]
  /\ saturated' = saturated \cup overflows(msgs)

(* One event to the subscribers of s. *)
fanOut(s, msg) == trySend([c \in Client |-> IF c \in subscribers[s] THEN <<msg>> ELSE <<>>])

(* Who keeps the Arc<DaemonSession>: the map, an open or an attach that    *)
(* is in the middle of it, a drop thread, a sink that has upgraded.        *)
Held(s) ==
  \/ s \in map \cup dropping
  \/ \E c \in Client : dispatch[c].at \in {"spawn", "fill", "copied"} /\ dispatch[c].s = s
  \/ flusher[s].at = "appended" \/ waiter[s].at = "appended"

-----------------------------------------------------------------------------
(* The shell and the threads of spawn_with_sink. *)

(* The shell writes and the reader thread moves the bytes to `pending`; a  *)
(* backlog above the cap is discarded whole.                               *)
shellWrites(s) ==
  /\ shell[s] = "run" /\ wrote[s] < MaxChunks
  /\ wrote' = [wrote EXCEPT ![s] = @ + 1]
  /\ LET overflow == Len(pending[s]) + 1 > MAX_PENDING
     IN  /\ pending' = [pending EXCEPT ![s] = (IF overflow THEN <<>> ELSE @) \o <<wrote[s] + 1>>]
         /\ excused' = [excused EXCEPT ![s] = IF overflow THEN @ \cup ToSet(pending[s]) ELSE @]
  /\ UNCHANGED <<daemon, shell, flusher, waiter, wires, app, saturated, closed, stolen>>

shellEnds(s) ==
  /\ shell[s] = "run"
  /\ shell' = [shell EXCEPT ![s] = "ended"]
  /\ UNCHANGED <<daemon, wrote, pending, flusher, waiter, wires, app, history>>

(* The last Arc goes: Session::drop kills the child. *)
sessionDrop(s) ==
  /\ s \in filled \ freed /\ ~Held(s)
  /\ freed' = freed \cup {s}
  /\ shell' = [shell EXCEPT ![s] = "ended"]
  /\ scrollback' = [scrollback EXCEPT ![s] = <<>>]
  /\ subscribers' = [subscribers EXCEPT ![s] = {}]
  /\ UNCHANGED <<service, opened, map, filled, dropping, alive, dispatch,
                 wrote, pending, flusher, waiter, wires, app, history>>

(* Mutant of extendScrollback: the ring is never trimmed. *)
extendScrollbackOnly(s, bytes) == scrollback[s] \o bytes

(* ServerSink::data, under the scrollback's lock: extend, then trim. *)
extendScrollback(s, bytes) ==
  LET all == scrollback[s] \o bytes
  IN  IF Len(all) > SCROLLBACK_CAP + SCROLLBACK_SLACK
      THEN SubSeq(all, Len(all) - SCROLLBACK_CAP + 1, Len(all)) ELSE all

(* Mutant of flusherTakes: the pending bytes are copied, not taken. *)
flusherCopies(s) ==
  /\ flusher[s].at = "rest" /\ shell[s] # "none" /\ pending[s] # <<>>
  /\ flusher' = [flusher EXCEPT ![s] = [at |-> "took", chunk |-> pending[s]]]
  /\ UNCHANGED <<daemon, shell, wrote, pending, waiter, wires, app, history>>

flusherTakes(s) ==
  /\ flusher[s].at = "rest" /\ shell[s] # "none" /\ pending[s] # <<>>
  /\ flusher' = [flusher EXCEPT ![s] = [at |-> "took", chunk |-> pending[s]]]
  /\ pending' = [pending EXCEPT ![s] = <<>>]
  /\ UNCHANGED <<daemon, shell, wrote, waiter, wires, app, history>>

(* The sink upgrades and appends; a sink whose session is gone refuses and *)
(* the thread ends.                                                        *)
flusherAppends(s) ==
  /\ flusher[s].at = "took"
  /\ flusher' = [flusher EXCEPT ![s].at = IF Held(s) THEN "appended" ELSE "ended"]
  /\ scrollback' = IF Held(s) THEN [scrollback EXCEPT ![s] = extendScrollback(s, flusher[s].chunk)]
                   ELSE scrollback
  /\ UNCHANGED <<service, opened, map, filled, dropping, freed, alive, subscribers, dispatch,
                 shell, wrote, pending, waiter, wires, app, history>>

flusherFansOut(s) ==
  /\ flusher[s].at = "appended"
  /\ fanOut(s, [k |-> "Data", s |-> s, chunk |-> flusher[s].chunk])
  /\ flusher' = [flusher EXCEPT ![s] = Resting]
  /\ UNCHANGED <<daemon, shell, wrote, pending, waiter, conn, requests, app, excused, closed, stolen>>

(* Mutant of waiterTakes: the exit is announced without the reader's tail. *)
waiterLeavesTail(s) ==
  /\ waiter[s].at = "rest" /\ shell[s] = "ended"
  /\ waiter' = [waiter EXCEPT ![s].at = "tailed"]
  /\ UNCHANGED <<daemon, shell, wrote, pending, flusher, wires, app, history>>

(* The child was waited for and the reader joined: take what is left and   *)
(* append it.  The flusher, which is not joined, may still hold the chunk  *)
(* before it: from here on that chunk races the tail and the exit          *)
(* (LastLineBeforeExit), and `excused` remembers it.                       *)
waiterTakes(s) ==
  /\ waiter[s].at = "rest" /\ shell[s] = "ended"
  /\ LET tail == pending[s] # <<>> /\ Held(s)
     IN  /\ waiter' = [waiter EXCEPT ![s] = IF tail THEN [at |-> "appended", chunk |-> pending[s]]
                                            ELSE [at |-> "tailed", chunk |-> <<>>]]
         /\ scrollback' = IF tail THEN [scrollback EXCEPT ![s] = extendScrollback(s, pending[s])]
                          ELSE scrollback
  /\ pending' = [pending EXCEPT ![s] = <<>>]
  /\ excused' = [excused EXCEPT ![s] = @ \cup ToSet(flusher[s].chunk)]
  /\ UNCHANGED <<service, opened, map, filled, dropping, freed, alive, subscribers, dispatch,
                 shell, wrote, flusher, wires, app, saturated, closed, stolen>>

waiterFansOut(s) ==
  /\ waiter[s].at = "appended"
  /\ fanOut(s, [k |-> "Data", s |-> s, chunk |-> waiter[s].chunk])
  /\ waiter' = [waiter EXCEPT ![s].at = "tailed"]
  /\ UNCHANGED <<daemon, shell, wrote, pending, flusher, conn, requests, app, excused, closed, stolen>>

(* ServerSink::exit.  One step: an attach between the store of `alive` and *)
(* the fan-out would only be told of the end twice.                        *)
sinkExit(s) ==
  /\ waiter[s].at = "tailed"
  /\ waiter' = [waiter EXCEPT ![s] = [at |-> "ended", chunk |-> <<>>]]
  /\ IF Held(s) THEN /\ alive' = [alive EXCEPT ![s] = FALSE]
                     /\ fanOut(s, [k |-> "Exit", s |-> s])
                ELSE UNCHANGED <<alive, wire, saturated>>
  /\ UNCHANGED <<service, opened, map, filled, dropping, freed, scrollback, subscribers, dispatch,
                 shell, wrote, pending, flusher, conn, requests, app, excused, closed, stolen>>

-----------------------------------------------------------------------------
(* The dispatcher of a connection. *)

Head1(c) == Head(requests[c])
Asks(c, kind) ==
  dispatch[c].at = "idle" /\ requests[c] # <<>> /\ Head1(c).k = kind
Answer(c, msg) == dispatch' = [dispatch EXCEPT ![c] = [at |-> "reply", msg |-> msg]]

(* close_session for each session of S, with `kept` the map afterwards:    *)
(* kill the tree of a filled pty, tell the subscribers, detach the drop.   *)
closeSessions(S, kept) ==
  /\ map' = kept
  /\ dropping' = dropping \cup S
  /\ closed' = closed \cup S
  /\ shell' = [s \in Session |-> IF s \in S \cap filled THEN "ended" ELSE shell[s]]
  /\ alive' = [s \in Session |-> s \notin S /\ alive[s]]
  /\ trySend([c \in Client |-> LET on == {s \in S : c \in subscribers[s]}
                               IN  SetToSeq({[k |-> "Exit", s |-> s] : s \in on})])

(* reap_dead_sessions: the dead beyond the retained number, oldest first. *)
reapable ==
  LET dead == {s \in map : ~alive[s]}
  IN  {s \in dead : Cardinality({d \in dead : d > s}) >= MAX_DEAD}

(* open_session up to its reservation: reap, check the cap, insert the     *)
(* session without a pty and with its opener subscribed.                   *)
openReserves(c) ==
  /\ Asks(c, "Open")
  /\ LET s == opened + 1
         kept == map \ reapable
         room == Cardinality(kept) < MAX_SESSIONS
     IN  /\ closeSessions(reapable, IF room THEN kept \cup {s} ELSE kept)
         /\ IF room
            THEN /\ opened' = s
                 /\ subscribers' = [subscribers EXCEPT ![s] = {c}]
                 /\ dispatch' = [dispatch EXCEPT ![c] = [at |-> "spawn", s |-> s, p |-> Head1(c).p]]
            ELSE /\ Answer(c, [k |-> "Err", p |-> Head1(c).p])
                 /\ UNCHANGED <<opened, subscribers>>
  /\ UNCHANGED <<service, filled, freed, scrollback, wrote, pending, flusher, waiter, conn, requests, app, excused, stolen>>

(* spawn_with_sink: the shell runs and may write before the pty is filled. *)
openSpawns(c) ==
  /\ dispatch[c].at = "spawn"
  /\ shell' = [shell EXCEPT ![dispatch[c].s] = "run"]
  /\ dispatch' = [dispatch EXCEPT ![c].at = "fill"]
  /\ UNCHANGED <<service, opened, map, filled, dropping, freed, alive, scrollback, subscribers,
                 wrote, pending, flusher, waiter, wires, app, history>>

openSpawnFails(c) ==
  /\ dispatch[c].at = "spawn"
  /\ map' = map \ {dispatch[c].s}
  /\ Answer(c, [k |-> "Err", p |-> dispatch[c].p])
  /\ UNCHANGED <<service, opened, filled, dropping, freed, alive, scrollback, subscribers, threads, wires, app, history>>

(* The pty is filled and open_session returns, dropping its own Arc. *)
openFills(c) ==
  /\ dispatch[c].at = "fill"
  /\ filled' = filled \cup {dispatch[c].s}
  /\ Answer(c, [k |-> "OpenOk", p |-> dispatch[c].p, s |-> dispatch[c].s])
  /\ UNCHANGED <<service, opened, map, dropping, freed, alive, scrollback, subscribers, threads, wires, app, history>>

(* attach_session up to the copy of the scrollback; the resize is left out. *)
attachCopies(c) ==
  /\ Asks(c, "Attach")
  /\ LET s == Head1(c).s
     IN  IF s \in map \cap filled
         THEN dispatch' = [dispatch EXCEPT ![c] = [at |-> "copied", s |-> s, p |-> Head1(c).p,
                                                   copy |-> scrollback[s], alive |-> alive[s]]]
         ELSE Answer(c, [k |-> "Err", p |-> Head1(c).p])
  /\ UNCHANGED <<service, opened, map, filled, dropping, freed, alive, scrollback, subscribers, threads, wires, app, history>>

attachSubscribes(c) ==
  /\ dispatch[c].at = "copied"
  /\ subscribers' = [subscribers EXCEPT ![dispatch[c].s] = @ \cup {c}]
  /\ Answer(c, [k |-> "AttachOk", p |-> dispatch[c].p, s |-> dispatch[c].s,
                copy |-> dispatch[c].copy, alive |-> dispatch[c].alive])
  /\ UNCHANGED <<service, opened, map, filled, dropping, freed, alive, scrollback, threads, wires, app, history>>

(* Its Ok is for nobody: the client sent the Close one-way. *)
serveClose(c) ==
  /\ Asks(c, "Close")
  /\ LET S == {Head1(c).s} \cap map IN closeSessions(S, map \ S)
  /\ requests' = [requests EXCEPT ![c] = Tail(@)]
  /\ UNCHANGED <<service, opened, filled, freed, scrollback, subscribers, dispatch, wrote, pending, flusher, waiter,
                 conn, app, excused, stolen>>

serveKillAll(c) ==
  /\ Asks(c, "KillAll")
  /\ closeSessions(map, {})
  /\ Answer(c, [k |-> "Killed"])
  /\ UNCHANGED <<service, opened, filled, freed, scrollback, subscribers, wrote, pending, flusher, waiter,
                 conn, requests, app, excused, stolen>>

(* tx.send(reply).await: waits for room, and fails when the client left. *)
reply(c) ==
  /\ dispatch[c].at = "reply"
  /\ conn[c] = "up" => Len(wire[c]) < WRITER_QUEUE
  /\ wire' = IF conn[c] = "up" THEN [wire EXCEPT ![c] = Append(@, dispatch[c].msg)] ELSE wire
  /\ requests' = [requests EXCEPT ![c] = Tail(@)]
  /\ dispatch' = [dispatch EXCEPT ![c] = Idle]
  /\ UNCHANGED <<service, opened, map, filled, dropping, freed, alive, scrollback, subscribers,
                 threads, conn, app, history>>

(* The reader loop reaches the end of a client that left, behind the       *)
(* frames it had sent: unsubscribe it from every session of the map.       *)
unsubscribe(c) ==
  /\ conn[c] = "left" /\ dispatch[c].at = "idle" /\ requests[c] = <<>>
  /\ conn' = [conn EXCEPT ![c] = "gone"]
  /\ subscribers' = [s \in Session |-> IF s \in map THEN subscribers[s] \ {c} ELSE subscribers[s]]
  /\ UNCHANGED <<service, opened, map, filled, dropping, freed, alive, scrollback, dispatch,
                 threads, requests, wire, app, history>>

(* The detached thread of close_session lets go of the session. *)
dropThread(s) ==
  /\ s \in dropping
  /\ dropping' = dropping \ {s}
  /\ UNCHANGED <<service, opened, map, filled, freed, alive, scrollback, subscribers, dispatch,
                 threads, wires, app, history>>

-----------------------------------------------------------------------------
(* The accept loop and the idle watcher. *)

(* Clients are greeted; the poll sets its watermark.                       *)
Welcomed(C) ==
  /\ conn' = [c \in Client |-> IF c \in C THEN "up" ELSE conn[c]]
  /\ known' = [c \in Client |-> IF c \in C THEN 1 .. opened ELSE known[c]]

(* A client is accepted from the backlog and counted.  The accept wakes a  *)
(* loop that finds the request to shut down; what that client asks before  *)
(* the loop has looked does not depend on it, and waits.                   *)
accept(c) ==
  /\ conn[c] = "dialled"
  /\ \/ service = "serving" /\ Welcomed({c}) /\ UNCHANGED service
     \/ /\ service = "asked" /\ service' = "resting"
        /\ conn' = [conn EXCEPT ![c] = "counted"] /\ UNCHANGED known
  /\ UNCHANGED <<opened, map, filled, dropping, freed, alive, scrollback, subscribers, dispatch,
                 threads, requests, wire, channels, early, pane, view, quitting, opens, polls, history>>

Counted == {c \in Client : conn[c] \in {"counted", "up", "left"}}   \* client_count

(* No client for long enough: ask, and connect once to wake the loop.      *)
idle_watcher ==
  /\ service = "serving" /\ Counted = {}
  /\ service' = "asked"
  /\ UNCHANGED <<opened, map, filled, dropping, freed, alive, scrollback, subscribers, dispatch,
                 threads, wires, app, history>>

acceptWake ==
  /\ service = "asked"
  /\ service' = "resting"
  /\ UNCHANGED <<opened, map, filled, dropping, freed, alive, scrollback, subscribers, dispatch,
                 threads, wires, app, history>>

(* The process ends: its threads with it, the shells that ran perish, and  *)
(* a client in the backlog is refused its handshake.                       *)
Exits ==
  /\ service' = "down"
  /\ map' = {} /\ filled' = {} /\ dropping' = {}
  /\ scrollback' = [s \in Session |-> <<>>]
  /\ subscribers' = [s \in Session |-> {}]
  /\ shell' = [s \in Session |-> IF shell[s] = "run" THEN "perished" ELSE shell[s]]
  /\ pending' = [s \in Session |-> <<>>]
  /\ flusher' = [s \in Session |-> IF s <= opened THEN [at |-> "ended", chunk |-> <<>>] ELSE flusher[s]]
  /\ waiter' = [s \in Session |-> IF s <= opened THEN [at |-> "ended", chunk |-> <<>>] ELSE waiter[s]]
  /\ conn' = [c \in Client |-> IF conn[c] = "dialled" THEN "refused" ELSE conn[c]]
  /\ UNCHANGED <<opened, freed, alive, dispatch, wrote, requests, wire, app, history>>

Resumes ==
  /\ service' = "serving"
  /\ Welcomed({c \in Client : conn[c] = "counted"})
  /\ UNCHANGED <<opened, map, filled, dropping, freed, alive, scrollback, subscribers, dispatch,
                 threads, requests, wire, channels, early, pane, view, quitting, opens, polls, history>>

(* Mutant of shutdownCheck: only the clients are looked at again.          *)
shutdownCheckClients ==
  /\ service = "resting"
  /\ IF Counted = {} THEN Exits ELSE Resumes

(* The race guard of accept_loop: clients and live sessions are looked at  *)
(* once more.                                                              *)
shutdownCheck ==
  /\ service = "resting"
  /\ IF Counted = {} /\ \A s \in map : ~alive[s] THEN Exits ELSE Resumes

-----------------------------------------------------------------------------
(* The client in the app. *)

Of(c) == {p \in Pane : pane[p].c = c}
New(p) == pane[p].at = "new" /\ \A q \in 1 .. p - 1 : pane[q].at # "new"
(* The pane's webview is gone; the saved workspace keeps the id it showed. *)
Lost(p) == IF pane[p].at \in {"shown", "lost"} THEN [at |-> "lost", c |-> None, s |-> pane[p].s]
           ELSE [at |-> "failed", c |-> None]
Send(c, msg) == requests' = [requests EXCEPT ![c] = Append(@, msg)]

(* connect_or_spawn: a daemon is spawned when none listens.  One that is   *)
(* asked to go has the client in its backlog; from any other it is         *)
(* accepted at once (nothing is asked of it before it is).  Bound: one     *)
(* client at a time.  The app is a single instance (lib.rs:572); the       *)
(* second client server.rs speaks of at 146 and 717, an agent for remote   *)
(* access, is not in this repository.                                      *)
connect(c) ==
  /\ conn[c] = "off" /\ \A d \in 1 .. c - 1 : conn[d] \in {"left", "gone"}
  /\ IF service \in {"asked", "resting"}
     THEN conn' = [conn EXCEPT ![c] = "dialled"] /\ UNCHANGED <<known, service>>
     ELSE Welcomed({c}) /\ service' = "serving"
  /\ UNCHANGED <<opened, map, filled, dropping, freed, alive, scrollback, subscribers, dispatch,
                 threads, requests, wire, channels, early, pane, view, quitting, opens, polls, history>>

(* The app ends or loses its connection; its panes go with it.  The last   *)
(* connection of the bound stays.                                          *)
disconnect(c) ==
  /\ conn[c] = "up" /\ c < MaxClients
  /\ conn' = [conn EXCEPT ![c] = "left"]
  /\ wire' = [wire EXCEPT ![c] = <<>>]
  /\ early' = [early EXCEPT ![c] = [s \in Session |-> <<>>]]
  /\ channels' = [channels EXCEPT ![c] = [s \in Session |-> None]]
  /\ known' = [known EXCEPT ![c] = {}]
  /\ pane' = [p \in Pane |-> IF p \in Of(c) THEN Lost(p) ELSE pane[p]]
  /\ view' = [p \in Pane |-> IF p \in Of(c) THEN <<>> ELSE view[p]]
  /\ UNCHANGED <<daemon, threads, requests, quitting, opens, polls, history>>

pty_open(p, c) ==
  /\ New(p) /\ conn[c] = "up" /\ c \notin quitting /\ opens < MaxOpens
  /\ opens' = opens + 1
  /\ pane' = [pane EXCEPT ![p] = [at |-> "asked", c |-> c, s |-> None, opener |-> TRUE, seam |-> 0, alive |-> FALSE]]
  /\ Send(c, [k |-> "Open", p |-> p])
  /\ UNCHANGED <<daemon, threads, conn, wire, channels, early, view, quitting, known, polls, history>>

(* The id q showed is attached again: by the app that starts after q's, or *)
(* by q's own app after its webview reloaded, which leaves the route.      *)
pty_attach(p, c, q) ==
  /\ New(p) /\ conn[c] = "up" /\ c \notin quitting
  /\ pane[q].at \in {"shown", "lost"}
  /\ LET asks == [at |-> "asked", c |-> c, s |-> pane[q].s, opener |-> FALSE, seam |-> 0, alive |-> FALSE]
     IN  pane' = IF pane[q].c = c THEN [pane EXCEPT ![p] = asks, ![q] = Lost(q)]
                 ELSE [pane EXCEPT ![p] = asks]
  /\ Send(c, [k |-> "Attach", p |-> p, s |-> pane[q].s])
  /\ known' = [known EXCEPT ![c] = @ \cup {pane[q].s}]
  /\ view' = IF pane[q].c = c THEN [view EXCEPT ![q] = <<>>] ELSE view
  /\ UNCHANGED <<daemon, threads, conn, wire, channels, early, quitting, opens, polls, history>>

(* REQUEST_TIMEOUT: the pending entry goes and the caller fails. *)
requestTimesOut(p) ==
  /\ pane[p].at = "asked"
  /\ pane' = [pane EXCEPT ![p] = [at |-> "failed", c |-> None]]
  /\ UNCHANGED <<daemon, threads, wires, channels, early, view, quitting, known, opens, polls, history>>

(* buffer_early: at most so many sessions, and so much of each; an event   *)
(* that finds no room is lost.                                             *)
earlyRoom(c, s) ==
  LET buffered == {t \in Session : early[c][t] # <<>>}
      used == Cardinality({i \in DOMAIN early[c][s] : early[c][s][i] # Exit})
  IN  (s \in buffered \/ Cardinality(buffered) < MAX_EARLY_SESSIONS) /\ used < EARLY_CAP

buffer_early(c, s, event) ==
  /\ early' = IF earlyRoom(c, s) THEN [early EXCEPT ![c][s] = @ \o event] ELSE early
  /\ saturated' = IF earlyRoom(c, s) THEN saturated ELSE saturated \cup {<<c, s>>}

Incoming(c, kind) == conn[c] = "up" /\ wire[c] # <<>> /\ Head(wire[c]).k = kind
Deliver(p, chunk) == view' = IF pane[p].at = "shown" THEN [view EXCEPT ![p] = @ \o chunk] ELSE view
Received(c) == wire' = [wire EXCEPT ![c] = Tail(@)]

(* reader_loop on Data: to the registered channel, or to the buffer. *)
receiveData(c) ==
  /\ Incoming(c, "Data") /\ Received(c)
  /\ LET m == Head(wire[c])
         p == channels[c][m.s]
     IN  IF p # None
         THEN Deliver(p, m.chunk) /\ UNCHANGED <<early, saturated>>
         ELSE buffer_early(c, m.s, m.chunk) /\ UNCHANGED view
  /\ UNCHANGED <<daemon, threads, conn, requests, channels, pane, quitting, known, opens, polls,
                 excused, closed, stolen>>

(* reader_loop on Exit: the route goes with it. *)
receiveExit(c) ==
  /\ Incoming(c, "Exit") /\ Received(c)
  /\ LET s == Head(wire[c]).s
         p == channels[c][s]
     IN  IF p # None
         THEN /\ Deliver(p, <<Exit>>)
              /\ channels' = [channels EXCEPT ![c][s] = None]
              /\ early' = [early EXCEPT ![c][s] = <<>>]
              /\ UNCHANGED saturated
         ELSE /\ buffer_early(c, s, <<Exit>>)
              /\ UNCHANGED <<view, channels>>
  /\ UNCHANGED <<daemon, threads, conn, requests, pane, quitting, known, opens, polls,
                 excused, closed, stolen>>

(* A reply wakes its caller; one that nobody waits for any more is dropped. *)
receiveReply(c) ==
  /\ \E kind \in {"OpenOk", "AttachOk", "Err"} : Incoming(c, kind)
  /\ Received(c)
  /\ LET m == Head(wire[c])
         waits == pane[m.p].at = "asked"
     IN  pane' = IF ~waits THEN pane
                 ELSE [pane EXCEPT ![m.p] =
                        IF m.k = "Err" THEN [at |-> "failed", c |-> None]
                        ELSE [@ EXCEPT !.at = "answered", !.s = m.s, !.alive = (m.k = "OpenOk" \/ m.alive)]]
  /\ view' = LET m == Head(wire[c])
             IN  IF m.k = "AttachOk" /\ pane[m.p].at = "asked"
                 THEN [view EXCEPT ![m.p] = m.copy] ELSE view
  /\ UNCHANGED <<daemon, threads, conn, requests, channels, early, quitting, known, opens, polls, history>>

(* register_and_replay, and the numeric id of the command. *)
register(p) ==
  /\ pane[p].at = "answered"
  /\ LET c == pane[p].c
         s == pane[p].s
     IN  /\ channels' = [channels EXCEPT ![c][s] = p]
         /\ early' = [early EXCEPT ![c][s] = <<>>]
         /\ view' = [view EXCEPT ![p] = @ \o early[c][s]]
  /\ pane' = [pane EXCEPT ![p].at = "shown", ![p].seam = Len(view[p])]
  /\ known' = [known EXCEPT ![pane[p].c] = @ \cup {pane[p].s}]
  /\ UNCHANGED <<daemon, threads, wires, quitting, opens, polls, history>>

(* pty_close: forget the route, and tell the daemon without waiting. *)
pty_close(p) ==
  /\ pane[p].at = "shown"
  /\ pane' = [pane EXCEPT ![p] = [at |-> "closed", c |-> None]]
  /\ view' = [view EXCEPT ![p] = <<>>]
  /\ LET c == pane[p].c
         s == pane[p].s
     IN  /\ channels' = [channels EXCEPT ![c][s] = None]
         /\ early' = [early EXCEPT ![c][s] = <<>>]
         /\ Send(c, [k |-> "Close", s |-> s])
  /\ UNCHANGED <<daemon, threads, conn, wire, quitting, known, opens, polls, history>>

(* pty_kill_all, the quit prompt's "Close all terminals": the numeric ids  *)
(* are cleared first, and the app shows and asks for nothing after it.     *)
(* Bound: the last app of the run quits this way, if any.                  *)
pty_kill_all(c) ==
  /\ conn[c] = "up" /\ c = MaxClients /\ c \notin quitting
  /\ quitting' = quitting \cup {c}
  /\ pane' = [p \in Pane |-> IF p \in Of(c) THEN [at |-> "closed", c |-> None] ELSE pane[p]]
  /\ view' = [p \in Pane |-> IF p \in Of(c) THEN <<>> ELSE view[p]]
  /\ Send(c, [k |-> "KillAll"])
  /\ UNCHANGED <<daemon, threads, conn, wire, channels, early, known, opens, polls, history>>

(* A tick of useAdoptDaemonSessions: List is answered behind everything    *)
(* the connection asked before, and the live session that is younger than  *)
(* the watermark and was never owned gets a tab of its own.  One step: the *)
(* items can only age by a session that ends, which fails its attach.  A   *)
(* tab owns its session from register on; in the code only once the leaf   *)
(* has its ptyId (ownedPtyIds), which makes the window of `stolen` larger. *)
adopt(c) ==
  /\ conn[c] = "up" /\ c \notin quitting /\ polls < MaxPolls
  /\ dispatch[c].at = "idle" /\ requests[c] = <<>> /\ wire[c] = <<>>
  /\ polls' = polls + 1
  /\ \E s \in {s \in map \ known[c] : alive[s]}, p \in {p \in Pane : New(p)} :
       /\ pane' = [pane EXCEPT ![p] = [at |-> "asked", c |-> c, s |-> s, opener |-> FALSE, seam |-> 0, alive |-> FALSE]]
       /\ Send(c, [k |-> "Attach", p |-> p, s |-> s])
       /\ known' = [known EXCEPT ![c] = @ \cup {s}]
       /\ stolen' = IF \E q \in Of(c) : pane[q].at = "answered" /\ pane[q].s = s
                    THEN stolen \cup {s} ELSE stolen
  /\ UNCHANGED <<daemon, threads, conn, wire, channels, early, view, quitting, opens,
                 excused, saturated, closed>>

receiveKilled(c) ==
  /\ Incoming(c, "Killed") /\ Received(c)
  /\ channels' = [channels EXCEPT ![c] = [s \in Session |-> None]]
  /\ early' = [early EXCEPT ![c] = [s \in Session |-> <<>>]]
  /\ UNCHANGED <<daemon, threads, conn, requests, pane, view, quitting, known, opens, polls, history>>

-----------------------------------------------------------------------------
threadStep(s) ==
  \/ flusherTakes(s) \/ flusherAppends(s) \/ flusherFansOut(s)
  \/ waiterTakes(s) \/ waiterFansOut(s) \/ sinkExit(s)
  \/ sessionDrop(s) \/ dropThread(s)

dispatchStep(c) ==
  \/ openReserves(c) \/ openSpawns(c) \/ openSpawnFails(c) \/ openFills(c)
  \/ attachCopies(c) \/ attachSubscribes(c) \/ serveClose(c) \/ serveKillAll(c)
  \/ reply(c) \/ unsubscribe(c)

readerStep(c) == receiveData(c) \/ receiveExit(c) \/ receiveReply(c) \/ receiveKilled(c)

Next ==
  \/ \E s \in Session : shellWrites(s) \/ shellEnds(s) \/ threadStep(s)
  \/ \E c \in Client : dispatchStep(c) \/ readerStep(c) \/ connect(c) \/ accept(c) \/ disconnect(c)
                       \/ pty_kill_all(c) \/ adopt(c)
  \/ idle_watcher \/ acceptWake \/ shutdownCheck
  \/ \E p \in Pane : register(p) \/ requestTimesOut(p) \/ pty_close(p)
  \/ \E p \in Pane, c \in Client : pty_open(p, c) \/ \E q \in Pane : pty_attach(p, c, q)

Spec == Init /\ [][Next]_vars

-----------------------------------------------------------------------------
TypeOK ==
  /\ service \in {"serving", "asked", "resting", "down"}
  /\ opened \in 0 .. MaxOpens
  /\ map \subseteq 1 .. opened /\ filled \subseteq 1 .. opened /\ dropping \subseteq closed
  /\ map \cap closed = {} /\ Cardinality(map) <= MAX_SESSIONS
  /\ \A s \in Session :
       /\ subscribers[s] \subseteq Client
       /\ shell[s] \in {"none", "run", "ended", "perished"} /\ wrote[s] \in 0 .. MaxChunks
       /\ Len(pending[s]) <= MAX_PENDING
       /\ Len(scrollback[s]) <= SCROLLBACK_CAP + SCROLLBACK_SLACK
       /\ flusher[s].at \in {"rest", "took", "appended", "ended"}
       /\ waiter[s].at \in {"rest", "appended", "tailed", "ended"}
  /\ \A c \in Client :
       /\ conn[c] \in {"off", "dialled", "counted", "up", "left", "gone", "refused"} /\ Len(wire[c]) <= WRITER_QUEUE
       /\ Cardinality({s \in Session : early[c][s] # <<>>}) <= MAX_EARLY_SESSIONS
  /\ \A p \in Pane : pane[p].at \in {"new", "asked", "answered", "shown", "closed",
                                     "failed", "lost"}

(* What a pane was sent live, after the replayed scrollback; and the part  *)
(* of it that a stream is expected to carry.                               *)
Live(p) == SubSeq(view[p], pane[p].seam + 1, Len(view[p]))
Told(stream, lost) == {i \in DOMAIN stream : stream[i] \notin lost \cup {Exit}}
Showing(p) ==
  pane[p].at = "shown" /\ <<pane[p].c, pane[p].s>> \notin saturated /\ pane[p].s \notin stolen

(* A stream of chunks rises, and what it leaves out below its last chunk   *)
(* is lost, or comes before its first when it does not start with chunk 1. *)
InOrder(stream, lost, whole) ==
  LET told == Told(stream, lost)
  IN  /\ \A i, j \in told : i < j => stream[i] < stream[j]
      /\ \A i \in told : \A n \in 1 .. stream[i] - 1 :
           \/ n \in lost \/ \E j \in told : stream[j] = n
           \/ ~whole /\ \A j \in told : n < stream[j]

(* Every pane is sent the output of its shell in the order it was written, *)
(* without a repeat and without a hole, from its first chunk when the pane *)
(* opened the shell.  The exceptions are counted: a backlog the reader     *)
(* shed, and the chunk the flusher held when the waiter took the tail      *)
(* (both in `excused`; the second is what LastLineBeforeExit is refuted    *)
(* by), events of the session that its app's full writer queue or early    *)
(* buffer lost (`saturated`), a session that a poll showed elsewhere, and  *)
(* the seam between the replay and the live part.                          *)
StreamInOrder ==
  \A p \in Pane : Showing(p) => InOrder(Live(p), excused[pane[p].s], pane[p].opener)

(* Nothing is left to do: no thread, task, frame or reply is under way.    *)
(* All of those steps consume something, so every behaviour without new    *)
(* output and new requests comes to such a state.                          *)
Quiet ==
  /\ dropping = {}
  /\ \A s \in Session :
       /\ flusher[s].at \in {"rest", "ended"}
       /\ shell[s] = "run" => pending[s] = <<>>
       /\ s \in filled \ freed => Held(s)
       /\ shell[s] = "ended" => waiter[s].at = "ended"
  /\ \A c \in Client : /\ conn[c] \notin {"dialled", "counted", "left"} /\ dispatch[c] = Idle
                       /\ requests[c] = <<>> /\ wire[c] = <<>>
  /\ \A p \in Pane : pane[p].at # "answered"

(* A pane shows all that the shell it opened has written, from the first   *)
(* bytes, which may overtake the reply of pty_open, to the tail the waiter *)
(* sends before the exit; but for `excused`: what the reader shed, and the *)
(* chunk that the flusher held when the waiter took the tail.  That chunk  *)
(* can be lost behind the exit, against session.rs:318.                    *)
OutputArrived(p) ==
  pane[p].s \notin closed
    => 1 .. wrote[pane[p].s] \subseteq ToSet(view[p]) \cup excused[pane[p].s]

(* It was told of the shell's end.  With one app at a time a pane that     *)
(* shows a shell hears of the shell's own end only: its app's Close and    *)
(* KillAll take the pane away first, and a reap comes behind the exit.     *)
ExitHeard(p) == shell[pane[p].s] = "ended" => Exit \in ToSet(view[p])

(* The pane that opened a shell gets all of it and its end, once all is    *)
(* quiet, with the exceptions of OutputArrived.                            *)
AllArrives ==
  \A p \in Pane :
    Showing(p) /\ pane[p].opener /\ ~(OutputArrived(p) /\ ExitHeard(p)) => ~Quiet

(* No shell outlives its session: once all is quiet, a running shell is in *)
(* the map, where List finds it and Close ends it.  A session closed       *)
(* before its pty existed is the hard case.  And none goes with the idle   *)
(* daemon: a shell that its app left running survives until it is asked    *)
(* for again (accept_loop's second look).                                  *)
NoOrphanShell ==
  \A s \in Session :
    /\ shell[s] # "perished"
    /\ shell[s] = "run" /\ s \notin map => ~Quiet

(* What the waiter of session.rs says of its join with the reader (line    *)
(* 318): "so the last line of output cannot race the Exit event".  So a    *)
(* pane that has the exit has all the output once all is quiet, where no   *)
(* backlog was shed.  Not so: the flusher is not joined, and a chunk it    *)
(* took from `pending` may come behind the exit, whose delivery has ended  *)
(* the route; it is lost.                                                  *)
LastLineBeforeExit ==
  Quiet /\ MaxChunks <= MAX_PENDING =>
    \A p \in Pane :
      Showing(p) /\ pane[p].opener /\ pane[p].s \notin closed /\ Exit \in ToSet(view[p])
        => 1 .. wrote[pane[p].s] \subseteq ToSet(view[p])

(* What the race guard of accept_loop says of a client that connects while *)
(* the daemon is about to go: it is served.  Not so: the guard counts the  *)
(* clients that were accepted, and one behind the wake connection was not. *)
RacingClientServed == \A c \in Client : conn[c] # "refused"

(* What useAdoptDaemonSessions says of itself: it adopts what another      *)
(* client of the daemon created, never the shell of a tab that is opening. *)
NoSelfAdoption == stolen = {}

(* What client.rs says of attach, "no interleave, no loss": a pane that    *)
(* was told its shell lives has, once all is quiet, the scrollback and all *)
(* that came after it, the exit included.                                  *)
AttachLosesNothing ==
  Quiet => \A p \in Pane :
    Showing(p) /\ ~pane[p].opener /\ pane[p].s \notin closed =>
      /\ ToSet(scrollback[pane[p].s]) \subseteq ToSet(view[p]) \cup excused[pane[p].s]
      /\ shell[pane[p].s] = "ended" /\ pane[p].alive => Exit \in ToSet(view[p])
=============================================================================
