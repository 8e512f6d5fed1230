--------------------------- MODULE TerminalSession ---------------------------
(***************************************************************************)
(* One terminal pane of the window: the Session object that pty-lifecycle, *)
(* ssh-session and session-lifecycle (src/modules/terminal/lib) share, the *)
(* calls they have in flight, and the shells the backend runs for them.    *)
(*                                                                         *)
(* s is that object.  A spawn epoch is a member of Open: the code compares *)
(* epochs for equality only, so one is used again once nothing refers to   *)
(* it (FreshOpen).  The shell an epoch opened has the epoch's name, and so *)
(* has the handle in s.pty.                                                *)
(*                                                                         *)
(* sshUserClose is not a field of its own: disposeSession is the only      *)
(* caller in the tree that sets it (nothing calls disconnectSsh), so it    *)
(* is TRUE exactly when the session is disposed.  overtaken is the one     *)
(* field the code does not have: the exit event of the current epoch came  *)
(* before the answer of its open.                                          *)
(*                                                                         *)
(* A call to the daemon may fail without an answer (client.rs: its write   *)
(* fails, the connection drops, REQUEST_TIMEOUT), and the daemon carry it  *)
(* out all the same.  Such a shell is in `abandoned`: it runs and nobody   *)
(* in the app knows its id.                                                *)
(***************************************************************************)
EXTENDS Naturals

CONSTANTS
  Open,          \* spawn epochs
  None,          \* null, and the epoch before the first spawn
  MaxReconnects  \* MAX_SSH_RECONNECT_ATTEMPTS

ASSUME ConstantsAssumption == None \notin Open /\ MaxReconnects \in Nat \ {0}

VARIABLES
  s,          \* the Session object
  mounted,    \* the component that shows the pane is mounted
  stuckTimer, \* its stuck-recovery timer is armed
  leaving,    \* the layout was asked to close the pane (closePaneByLeaf)
  call,       \* epoch -> its openPtyForSession call
  shell,      \* epoch -> the shell the backend runs for it
  ending,     \* epochs whose exit event is on its way to the window
  closing,    \* epochs whose close request is on its way to the backend
  savedShell, \* the shell of the saved session: none, runs or abandoned
  abandoned   \* epochs whose shell runs in the daemon unknown to the app

paneVars == <<mounted, stuckTimer, leaving>>
lostVars == <<savedShell, abandoned>>
vars == <<s, paneVars, call, shell, ending, closing, lostVars>>

Idle == [by |-> "nobody", at |-> "done", late |-> FALSE]

Init ==
  /\ \E ssh, saved \in BOOLEAN :
       /\ ~(ssh /\ saved)
       /\ savedShell \in IF saved THEN {"none", "runs"} ELSE {"none"}
       /\ s = [ssh |-> ssh, savedPtyId |-> saved, pty |-> None, ptyOpening |-> FALSE,
               ptySpawnEpoch |-> None, spawned |-> FALSE, spoke |-> FALSE,
               noDataTimer |-> None, lastPtyError |-> FALSE, callbacks |-> FALSE,
               pendingExit |-> FALSE, disposed |-> FALSE,
               reconnectTimer |-> FALSE, attempts |-> 0, status |-> "idle",
               overtaken |-> FALSE]
  /\ mounted = FALSE /\ stuckTimer = FALSE /\ leaving = FALSE
  /\ call = [o \in Open |-> Idle]
  /\ shell = [o \in Open |-> "none"]
  /\ ending = {} /\ closing = {} /\ abandoned = {}

Running(o) == shell[o] \in {"silent", "up"}

FreshOpen(o) ==
  /\ o \notin {s.ptySpawnEpoch, s.pty, s.noDataTimer} \cup ending \cup closing
  /\ ~Running(o)

canRetrySsh(status) == status \in {"disconnected", "error"}

-----------------------------------------------------------------------------
(* Steps of the Session object that several handlers share.                *)

(* Mutant of scheduleSshReconnect: the ladder stops without a status that  *)
(* lets Enter in.                                                          *)
scheduleForgetsStatus(t) ==
  IF t.disposed THEN t
  ELSE IF t.attempts = MaxReconnects
  THEN [t EXCEPT !.reconnectTimer = FALSE, !.attempts = 0]
  ELSE [t EXCEPT !.reconnectTimer = TRUE, !.attempts = @ + 1, !.status = "reconnecting"]

(* Mutant of scheduleSshReconnect: the count of attempts is not kept.      *)
scheduleForever(t) ==
  IF t.disposed THEN t
  ELSE [t EXCEPT !.reconnectTimer = TRUE, !.status = "reconnecting"]

scheduleSshReconnect(t) ==
  IF t.disposed THEN t
  ELSE IF t.attempts = MaxReconnects
  THEN [t EXCEPT !.reconnectTimer = FALSE, !.attempts = 0, !.status = "disconnected"]
  ELSE [t EXCEPT !.reconnectTimer = TRUE, !.attempts = @ + 1, !.status = "reconnecting"]

parkSshConnectFailure(t) == [t EXCEPT !.attempts = 0, !.status = "error"]

(* The shell of this epoch has not said a word: watch it.                  *)
armNoDataWatchdog(t) ==
  IF t.ssh \/ t.spoke THEN t ELSE [t EXCEPT !.noDataTimer = t.ptySpawnEpoch]

(* The part of openPtyForSession before its first await: the epoch moves   *)
(* on, nothing of it has spoken, and a saved session is used up.           *)
opened(t, o) ==
  [t EXCEPT !.ptyOpening = TRUE, !.lastPtyError = FALSE, !.ptySpawnEpoch = o,
            !.spoke = FALSE, !.savedPtyId = FALSE, !.overtaken = FALSE]

called(t, c, o, by) ==
  [c EXCEPT ![o] =
     [by |-> by, late |-> FALSE,
      at |-> IF t.ssh THEN "lookup" ELSE IF t.savedPtyId THEN "reattach" ELSE "open"]]

(* t and c are the session and the calls as the caller's step leaves them. *)
openPtyForSession(t, c, by) ==
  \E o \in Open :
    /\ FreshOpen(o) /\ c[o].at = "done"
    /\ s' = opened(t, o) /\ call' = called(t, c, o, by)

(* What the awaiting caller does with a rejection.  runSshReconnect alone  *)
(* does not compare the epoch: an SSH pane has one open at a time.         *)
openRejected(o, why) ==
  IF call[o].by # "reconnect" /\ s.ptySpawnEpoch # o THEN s
  ELSE LET t == [s EXCEPT !.ptyOpening = FALSE] IN
       IF ~s.ssh THEN [t EXCEPT !.lastPtyError = TRUE]
       ELSE IF why = "transport" THEN scheduleSshReconnect(t)
       ELSE parkSshConnectFailure(t)

(* The request behind `pty?.close()`.                                      *)
close(h) == closing' = IF h = None THEN closing ELSE closing \cup {h}

(* Mutant of respawnSession: the old handle stays until the new one comes.  *)
respawnKeepsHandle(t, c) ==
  /\ close(t.pty)
  /\ openPtyForSession([t EXCEPT !.spawned = FALSE, !.pendingExit = FALSE], c, "respawn")

(* respawnSession up to its await.                                         *)
respawnSession(t, c) ==
  /\ close(t.pty)
  /\ openPtyForSession([t EXCEPT !.pty = None, !.spawned = FALSE, !.pendingExit = FALSE],
                       c, "respawn")

(* callbacks.onExit: the layout closes the pane, or asks for a fresh shell *)
(* when the pane is the last entry of its workspace.  The permanent Hosts  *)
(* tab keeps an SSH pane from being that.                                  *)
handleLeafExit(t, c) ==
  \/ /\ leaving' = TRUE
     /\ s' = t /\ call' = c
     /\ UNCHANGED closing
  \/ /\ ~t.ssh
     /\ respawnSession(t, c)
     /\ UNCHANGED leaving

(* onExit of the current epoch, past the early-crash test.                 *)
onExit(t) ==
  IF t.callbacks
  THEN handleLeafExit(t, call)
  ELSE /\ s' = [t EXCEPT !.pendingExit = TRUE]
       /\ UNCHANGED <<call, closing, leaving>>

-----------------------------------------------------------------------------
(* The component that shows the pane, and the keys typed into it.          *)

mount ==
  /\ ~mounted /\ ~s.disposed
  /\ mounted' = TRUE /\ stuckTimer' = TRUE
  /\ UNCHANGED <<s, leaving, call, shell, ending, closing, lostVars>>

(* Runs once the container is there: it opens a shell when the pane has    *)
(* none, then reports an exit that came while nobody listened.             *)
attachSession ==
  /\ mounted /\ ~s.disposed /\ ~s.callbacks
  /\ LET t == [s EXCEPT !.callbacks = TRUE, !.pendingExit = FALSE] IN
     IF ~s.pendingExit
     THEN /\ IF s.pty = None /\ ~s.ptyOpening
             THEN openPtyForSession(t, call, "attach")
             ELSE s' = t /\ UNCHANGED call
          /\ UNCHANGED <<closing, leaving>>
     ELSE IF s.pty = None /\ ~s.ptyOpening
     THEN \E o \in Open :
            /\ FreshOpen(o) /\ call[o].at = "done"
            /\ handleLeafExit(opened(t, o), called(t, call, o, "attach"))
     ELSE handleLeafExit(t, call)
  /\ UNCHANGED <<mounted, stuckTimer, shell, ending, lostVars>>

(* The unmount, with the timer its cleanup clears.                         *)
detachSession ==
  /\ mounted
  /\ mounted' = FALSE /\ stuckTimer' = FALSE
  /\ s' = [s EXCEPT !.callbacks = FALSE]
  /\ UNCHANGED <<leaving, call, shell, ending, closing, lostVars>>

disposeSession ==
  /\ ~s.disposed
  /\ s' = [s EXCEPT !.disposed = TRUE, !.reconnectTimer = FALSE, !.noDataTimer = None]
  /\ close(s.pty)
  /\ UNCHANGED <<paneVars, call, shell, ending, lostVars>>

retryPty == openPtyForSession(s, call, "retry")

runSshReconnect(t) ==
  IF t.disposed \/ t.pty # None \/ t.ptyOpening
  THEN s' = t /\ UNCHANGED call
  ELSE openPtyForSession(t, call, "reconnect")

retrySsh == runSshReconnect([s EXCEPT !.reconnectTimer = FALSE, !.attempts = 0])

(* Enter in a pane without a shell.                                        *)
enterToRetry ==
  /\ s.callbacks /\ ~s.disposed /\ s.pty = None /\ ~s.ptyOpening
  /\ \/ s.lastPtyError /\ retryPty
     \/ ~s.lastPtyError /\ s.ssh /\ canRetrySsh(s.status) /\ retrySsh
  /\ UNCHANGED <<paneVars, shell, ending, closing, lostVars>>

(* The stuck-recovery watchdog of useTerminalSession.                      *)
stuckFires ==
  /\ stuckTimer
  /\ stuckTimer' = FALSE
  /\ IF s.disposed \/ s.pty # None \/ s.lastPtyError \/ s.ptyOpening
        \/ (s.ssh /\ s.status # "idle")
     THEN UNCHANGED <<s, call>>
     ELSE IF s.ssh THEN retrySsh ELSE retryPty
  /\ UNCHANGED <<mounted, leaving, shell, ending, closing, lostVars>>

reconnectFires ==
  /\ s.reconnectTimer
  /\ runSshReconnect([s EXCEPT !.reconnectTimer = FALSE])
  /\ UNCHANGED <<paneVars, shell, ending, closing, lostVars>>

-----------------------------------------------------------------------------
(* A call of openPtyForSession.                                            *)

(* openSshForSession reads the saved host before it dials.                 *)
hostFound(o) ==
  /\ call[o].at = "lookup"
  /\ call' = [call EXCEPT ![o].at = "open"]
  /\ s' = [s EXCEPT !.status = "connecting"]
  /\ UNCHANGED <<paneVars, shell, ending, closing, lostVars>>

(* The host cannot be resolved on this machine: parked, not retried.       *)
hostMissing(o) ==
  /\ call[o].at = "lookup"
  /\ call' = [call EXCEPT ![o] = Idle]
  /\ s' = openRejected(o, "local")
  /\ UNCHANGED <<paneVars, shell, ending, closing, lostVars>>

(* The daemon answers pty_attach for a shell that still runs.  The replay  *)
(* of its scrollback, when there is any, is delivered ahead of the answer  *)
(* and counts as the epoch's first byte.                                   *)
reattachAlive(o) ==
  /\ call[o].at = "reattach" /\ savedShell = "runs"
  /\ call' = [call EXCEPT ![o].at = "opened"]
  /\ savedShell' = "none"
  /\ \E replayed \in BOOLEAN :
       LET hears == replayed /\ ~s.disposed /\ s.ptySpawnEpoch = o IN
       /\ shell' = [shell EXCEPT ![o] = IF replayed THEN "up" ELSE "silent"]
       /\ s' = IF hears THEN [s EXCEPT !.spoke = TRUE, !.noDataTimer = None] ELSE s
  /\ UNCHANGED <<paneVars, ending, closing, abandoned>>

(* Mutant of reattachDead: the replay of the dead shell counts as the      *)
(* fresh one's first byte.                                                 *)
reattachDeadSpoke(o) ==
  /\ call[o].at = "reattach" /\ savedShell = "none"
  /\ call' = [call EXCEPT ![o].at = "open"]
  /\ s' = [s EXCEPT !.spoke = @ \/ s.ptySpawnEpoch = o]
  /\ UNCHANGED <<paneVars, shell, ending, closing, lostVars>>

(* The daemon holds the session with its shell ended: it is closed, what   *)
(* its replay stamped is taken back (whatever the epoch is by now), and a  *)
(* fresh shell is opened.                                                  *)
reattachDead(o) ==
  /\ call[o].at = "reattach" /\ savedShell = "none"
  /\ call' = [call EXCEPT ![o].at = "open"]
  /\ s' = [s EXCEPT !.spoke = FALSE,
                    !.noDataTimer = IF ~s.disposed /\ s.ptySpawnEpoch = o THEN None ELSE @]
  /\ UNCHANGED <<paneVars, shell, ending, closing, lostVars>>

(* pty_attach is rejected, for whatever reason, and a fresh shell opened:  *)
(* the daemon lost the session, or it did not answer in time or over this  *)
(* connection and the shell still runs, with no pane that knows it.        *)
reattachFails(o) ==
  /\ call[o].at = "reattach"
  /\ call' = [call EXCEPT ![o].at = "open"]
  /\ savedShell' = IF savedShell = "runs" THEN "abandoned" ELSE savedShell
  /\ UNCHANGED <<s, paneVars, shell, ending, closing, abandoned>>

(* External: the backend starts the shell and answers.                     *)
backendOpens(o) ==
  /\ call[o].at = "open"
  /\ call' = [call EXCEPT ![o].at = "opened"]
  /\ shell' = [shell EXCEPT ![o] = "silent"]
  /\ UNCHANGED <<s, paneVars, ending, closing, lostVars>>

(* The backend refuses.  A call the timeout rejected has nobody to tell.   *)
openFails(o) ==
  /\ call[o].at = "open"
  /\ call' = [call EXCEPT ![o] = Idle]
  /\ \E why \in IF s.ssh THEN {"local", "rejected", "transport"} ELSE {"spawn"} :
       s' = IF call[o].late THEN s ELSE openRejected(o, why)
  /\ UNCHANGED <<paneVars, shell, ending, closing, lostVars>>

(* pty_open fails without an answer of the daemon, which has started or    *)
(* will start the shell.  No route is registered for it: nothing it prints *)
(* is heard, nor its end.                                                  *)
openUnanswered(o) ==
  /\ ~s.ssh /\ call[o].at = "open"
  /\ call' = [call EXCEPT ![o] = Idle]
  /\ s' = IF call[o].late THEN s ELSE openRejected(o, "spawn")
  /\ shell' = [shell EXCEPT ![o] = "up"]
  /\ abandoned' = abandoned \cup {o}
  /\ UNCHANGED <<paneVars, ending, closing, savedShell>>

(* withSpawnTimeout rejects a local open that is taking too long.          *)
spawnTimeout(o) ==
  /\ ~s.ssh /\ call[o].at # "done" /\ ~call[o].late
  /\ call' = [call EXCEPT ![o].late = TRUE]
  /\ s' = openRejected(o, "spawn")
  /\ UNCHANGED <<paneVars, shell, ending, closing, lostVars>>

(* Mutant of openStrays: only the timeout is looked at.                    *)
straysIfLate(o) == call[o].late

(* The answer nobody can use: it came after the timeout, the pane is gone, *)
(* or a newer epoch took over.                                             *)
openStrays(o) ==
  \/ call[o].late
  \/ s.disposed
  \/ call[o].by # "reconnect" /\ s.ptySpawnEpoch # o

(* The answer arrives: openSshForSession reports the connection, and the   *)
(* caller takes the handle or closes the stray.                            *)
openResolves(o) ==
  /\ call[o].at = "opened"
  /\ call' = [call EXCEPT ![o] = Idle]
  /\ LET t == IF s.ssh THEN [s EXCEPT !.attempts = 0, !.status = "connected"] ELSE s IN
     IF openStrays(o)
     THEN /\ s' = IF call[o].by = "reconnect" THEN [t EXCEPT !.ptyOpening = FALSE] ELSE t
          /\ close(o)
     ELSE /\ s' = armNoDataWatchdog(
                    [t EXCEPT !.ptyOpening = FALSE, !.pty = o, !.spawned = TRUE])
          /\ UNCHANGED closing
  /\ UNCHANGED <<paneVars, shell, ending, lostVars>>

-----------------------------------------------------------------------------
(* The shell.                                                              *)

(* External: the shell prints.  The event is dropped when the pane is gone *)
(* or the epoch was superseded.                                            *)
firstByte(o) ==
  /\ shell[o] = "silent"
  /\ shell' = [shell EXCEPT ![o] = "up"]
  /\ s' = IF s.disposed \/ s.ptySpawnEpoch # o THEN s
          ELSE [s EXCEPT !.spoke = TRUE, !.noDataTimer = None]
  /\ UNCHANGED <<paneVars, call, ending, closing, lostVars>>

(* External: the shell ends, and the event that says so is sent.           *)
shellEnds(o) ==
  /\ Running(o) /\ o \notin abandoned
  /\ shell' = [shell EXCEPT ![o] = "ended"]
  /\ ending' = ending \cup {o}
  /\ UNCHANGED <<s, paneVars, call, closing, lostVars>>

(* External: a shell ends that nobody in the app listens to.               *)
abandonedEnds(o) ==
  /\ o \in abandoned
  /\ shell' = [shell EXCEPT ![o] = "none"]
  /\ abandoned' = abandoned \ {o}
  /\ UNCHANGED <<s, paneVars, call, ending, closing, savedShell>>

savedShellEnds ==
  /\ savedShell # "none"
  /\ savedShell' = "none"
  /\ UNCHANGED <<s, paneVars, call, shell, ending, closing, abandoned>>

(* onExit of a local shell: a crash within the grace period of its spawn   *)
(* holds the pane with an error, any other exit is the layout's.           *)
localEnds(o) ==
  /\ ~s.ssh
  /\ IF s.ptySpawnEpoch # o \/ s.disposed
     THEN UNCHANGED <<s, call, closing, leaving>>
     ELSE \/ /\ s.spawned
             /\ s' = [s EXCEPT !.pty = None, !.spawned = FALSE, !.lastPtyError = TRUE]
             /\ UNCHANGED <<call, closing, leaving>>
          \/ onExit(s)

(* finishSsh, by the ending decideSshEnding reads off the event: an exit   *)
(* closes the pane, a signal parks it, a lost link is dialled again.       *)
finishSsh(o) ==
  /\ s.ssh
  /\ IF s.disposed
     THEN UNCHANGED <<s, call, closing, leaving>>
     ELSE LET t == [s EXCEPT !.pty = None, !.spawned = FALSE,
                             !.overtaken = call[o].at = "opened"] IN
          \/ onExit(t)
          \/ /\ s' = [t EXCEPT !.attempts = 0, !.status = "disconnected"]
             /\ UNCHANGED <<call, closing, leaving>>
          \/ /\ s' = scheduleSshReconnect(t)
             /\ UNCHANGED <<call, closing, leaving>>

endingHeard(o) ==
  /\ o \in ending
  /\ ending' = ending \ {o}
  /\ localEnds(o) \/ finishSsh(o)
  /\ UNCHANGED <<mounted, stuckTimer, shell, lostVars>>

(* The no-data watchdog closes a shell that never spoke.                   *)
watchdogFires ==
  /\ s.noDataTimer # None
  /\ IF s.noDataTimer # s.ptySpawnEpoch \/ s.pty = None
     THEN /\ s' = [s EXCEPT !.noDataTimer = None]
          /\ UNCHANGED closing
     ELSE /\ s' = [s EXCEPT !.noDataTimer = None, !.pty = None, !.spawned = FALSE,
                            !.lastPtyError = TRUE]
          /\ close(s.pty)
  /\ UNCHANGED <<paneVars, call, shell, ending, lostVars>>

(* External: the backend carries out a close; the exit it causes is not    *)
(* reported, one already sent still arrives.                               *)
backendCloses(o) ==
  /\ o \in closing
  /\ closing' = closing \ {o}
  /\ shell' = [shell EXCEPT ![o] = "none"]
  /\ UNCHANGED <<s, paneVars, call, ending, lostVars>>

(* pty_close over a connection that has dropped: the request is lost, the  *)
(* route is gone, and the shell, if it still runs, goes on.                *)
closeLost(o) ==
  /\ ~s.ssh /\ o \in closing
  /\ closing' = closing \ {o}
  /\ shell' = [shell EXCEPT ![o] = IF Running(o) THEN "up" ELSE "none"]
  /\ abandoned' = IF Running(o) THEN abandoned \cup {o} ELSE abandoned
  /\ UNCHANGED <<s, paneVars, call, ending, savedShell>>

-----------------------------------------------------------------------------
OpenStep(o) ==
  \/ hostFound(o) \/ hostMissing(o)
  \/ reattachAlive(o) \/ reattachDead(o) \/ reattachFails(o)
  \/ backendOpens(o) \/ openFails(o) \/ openUnanswered(o)
  \/ openResolves(o)

Next ==
  \/ mount \/ attachSession \/ detachSession \/ disposeSession
  \/ enterToRetry \/ stuckFires \/ reconnectFires \/ watchdogFires \/ savedShellEnds
  \/ \E o \in Open :
       \/ OpenStep(o) \/ spawnTimeout(o)
       \/ firstByte(o) \/ shellEnds(o) \/ endingHeard(o)
       \/ backendCloses(o) \/ closeLost(o) \/ abandonedEnds(o)

Spec == Init /\ [][Next]_vars

(* Timers fire, messages arrive and the backend answers an SSH open (its   *)
(* dial has timeouts of its own).  Nothing is assumed of the backend of a  *)
(* local pane but the timeout of its open, and nothing of the user.        *)
Fairness ==
  /\ WF_vars(reconnectFires)
  /\ WF_vars(leaving /\ disposeSession)
  /\ \A o \in Open :
       /\ WF_vars(s.ssh /\ OpenStep(o))
       /\ WF_vars(call[o].at = "opened" /\ OpenStep(o))
       /\ WF_vars(spawnTimeout(o))
       /\ WF_vars(endingHeard(o))
       /\ WF_vars(backendCloses(o))

FairSpec == Spec /\ Fairness

-----------------------------------------------------------------------------
(* The kinds of state: the current epoch and the handle are epochs, the    *)
(* handle is never of another epoch than the current one, and the ladder   *)
(* counts its attempts.                                                    *)
TypeOK ==
  /\ s.pty \in {None, s.ptySpawnEpoch}
  /\ s.ptySpawnEpoch \in Open \cup {None} /\ s.noDataTimer \in Open \cup {None}
  /\ s.attempts \in 0..MaxReconnects
  /\ s.status \in {"idle", "connecting", "connected", "reconnecting", "disconnected", "error"}
  /\ \A f \in {"ssh", "savedPtyId", "ptyOpening", "spawned", "spoke", "lastPtyError",
               "callbacks", "pendingExit", "disposed", "reconnectTimer", "overtaken"} :
       s[f] \in BOOLEAN
  /\ mounted \in BOOLEAN /\ stuckTimer \in BOOLEAN /\ leaving \in BOOLEAN
  /\ call \in [Open -> [by : {"nobody", "attach", "retry", "respawn", "reconnect"},
                        at : {"done", "lookup", "reattach", "open", "opened"},
                        late : BOOLEAN]]
  /\ shell \in [Open -> {"none", "silent", "up", "ended"}]
  /\ ending \subseteq Open /\ closing \subseteq Open /\ abandoned \subseteq Open
  /\ savedShell \in {"none", "runs", "abandoned"}

(* No shell outlives its pane's interest in it: one that runs is the pane's *)
(* own, or the answer that names it or the request that closes it is on    *)
(* its way (openPtyForSession, withSpawnTimeout, retryPty, respawnSession, *)
(* runSshReconnect, disposeSession).  A saved shell waits for its attach.  *)
(* The exception are the abandoned ones, which the code cannot name: of an *)
(* open or an attach that got no answer, or whose close request was lost.  *)
NoOrphanShell ==
  /\ \A o \in Open :
       Running(o) => \/ s.pty = o /\ ~s.disposed
                     \/ call[o].at = "opened"
                     \/ o \in closing
                     \/ o \in abandoned
  /\ savedShell = "runs" => s.savedPtyId \/ \E o \in Open : call[o].at = "reattach"

(* No pane is stuck: one that was opened has a shell whose ending it will  *)
(* hear, a call in flight behind ptyOpening, an exit the layout knows or   *)
(* will be told of, a reconnect timer, or a state in which Enter retries.  *)
(* The exception is an SSH shell whose ending overtook the answer of its   *)
(* open: finishSsh clears s.pty before the answer sets it.                 *)
NoDeadEnd ==
  ~s.disposed /\ s.ptySpawnEpoch # None =>
    \/ leaving \/ s.pendingExit
    \/ s.ptyOpening /\ call[s.ptySpawnEpoch].at # "done" /\ ~call[s.ptySpawnEpoch].late
    \/ /\ ~s.ptyOpening /\ s.pty # None
       /\ Running(s.pty) \/ s.pty \in ending \/ s.overtaken
    \/ /\ ~s.ptyOpening /\ s.pty = None
       /\ s.lastPtyError \/ s.reconnectTimer \/ (s.ssh /\ canRetrySsh(s.status))

(* A local shell that has not printed anything is watched, whatever an     *)
(* earlier shell of the pane printed (armNoDataWatchdog, firstByteEpoch).  *)
SilentIsWatched ==
  ~s.ssh /\ ~s.disposed /\ s.pty # None /\ shell[s.pty] = "silent"
    => s.noDataTimer = s.pty

(* The watchdog closes only a shell that has printed nothing.  This is not *)
(* so: a reattach that answers after its timeout, for a dead session,      *)
(* clears firstByteEpoch under the shell that Enter opened meanwhile.      *)
WatchdogSparesSpeakers ==
  [][\A o \in Open :
       s.noDataTimer = o /\ s.pty = o /\ s'.noDataTimer = None /\ o \in closing' \ closing
         => s'.disposed \/ shell[o] # "up"]_vars

(* An open or a reconnect comes to an end: the pane has a shell, waits for *)
(* Enter, or is going away.  A local shell that keeps ending before its    *)
(* open is answered, in the last pane of a workspace, is respawned each    *)
(* time.                                                                   *)
OpenSettles ==
  s.ptyOpening \/ s.reconnectTimer ~>
    \/ s.disposed
    \/ s.pty # None /\ ~s.ptyOpening
    \/ s.pty = None /\ ~s.ptyOpening /\ (s.lastPtyError \/ canRetrySsh(s.status))
    \/ ~s.ssh /\ ending # {}
=============================================================================
