----------------------- MODULE TerminalSessionProofs -----------------------
(***************************************************************************)
(* TerminalSession is proved here for any number of spawn epochs alive at  *)
(* once and any length of the reconnect ladder: no shell is left behind    *)
(* but those whose open, attach or close the daemon never answered, no     *)
(* pane is stuck, and a silent local shell is watched.                     *)
(***************************************************************************)
EXTENDS TerminalSession, TLAPS

Session ==
  [ssh : BOOLEAN, savedPtyId : BOOLEAN, pty : Open \cup {None}, ptyOpening : BOOLEAN,
   ptySpawnEpoch : Open \cup {None}, spawned : BOOLEAN, spoke : BOOLEAN,
   noDataTimer : Open \cup {None}, lastPtyError : BOOLEAN, callbacks : BOOLEAN,
   pendingExit : BOOLEAN, disposed : BOOLEAN, reconnectTimer : BOOLEAN,
   attempts : 0..MaxReconnects,
   status : {"idle", "connecting", "connected", "reconnecting", "disconnected", "error"},
   overtaken : BOOLEAN]

Call == [by : {"nobody", "attach", "retry", "respawn", "reconnect"},
         at : {"done", "lookup", "reattach", "open", "opened"}, late : BOOLEAN]

Types ==
  /\ s \in Session
  /\ mounted \in BOOLEAN /\ stuckTimer \in BOOLEAN /\ leaving \in BOOLEAN
  /\ call \in [Open -> Call]
  /\ shell \in [Open -> {"none", "silent", "up", "ended"}]
  /\ ending \subseteq Open /\ closing \subseteq Open /\ abandoned \subseteq Open
  /\ savedShell \in {"none", "runs", "abandoned"}

(* An epoch's shell comes after its call, its ending after its shell, and  *)
(* its close request after the answer.  An SSH pane has one call at a time *)
(* and no timeout on it.                                                   *)
EpochInv ==
  \A o \in Open :
    /\ call[o].at # "done" => o \notin closing
    /\ call[o].at \in {"lookup", "reattach", "open"} => ~Running(o) /\ o \notin ending
    /\ o \in ending => ~Running(o)
    /\ s.ssh /\ call[o].at # "done" =>
         s.ptyOpening /\ s.ptySpawnEpoch = o /\ ~call[o].late
    /\ call[o].by = "reconnect" /\ call[o].at # "done" => s.ssh
    /\ call[o].at = "lookup" => s.ssh

(* The handle is the current epoch's, its call is over and nobody has      *)
(* asked to close it.                                                      *)
HandleInv ==
  /\ s.pty \in {None, s.ptySpawnEpoch}
  /\ s.pty # None => ~s.ptyOpening /\ call[s.pty].at = "done"
  /\ s.pty # None /\ ~s.disposed => s.pty \notin closing
  /\ s.spawned => s.pty # None

(* ptyOpening says that the current epoch's call is out.                   *)
OpeningInv ==
  /\ s.ptyOpening => s.ptySpawnEpoch # None
  /\ s.ptyOpening /\ ~s.disposed =>
       call[s.ptySpawnEpoch].at # "done" /\ ~call[s.ptySpawnEpoch].late
  /\ s.ptySpawnEpoch # None /\ call[s.ptySpawnEpoch].at # "done"
     /\ ~call[s.ptySpawnEpoch].late
       => s.ptyOpening

(* The answer that is on its way to the current epoch is about a shell     *)
(* that runs, one whose ending will be heard, or one whose ending the pane *)
(* has acted on.                                                           *)
AnswerInv ==
  LET o == s.ptySpawnEpoch IN
  ~s.disposed /\ o # None /\ call[o].at = "opened" /\ ~call[o].late =>
    Running(o) \/ o \in ending \/ s.overtaken \/ leaving \/ s.pendingExit

(* Only an SSH pane reconnects.  It has no watchdog and no local error;    *)
(* what runs or has ended is the current epoch's, whose handle is set or   *)
(* about to be.                                                            *)
SshInv ==
  /\ s.reconnectTimer => s.ssh
  /\ s.ssh => /\ ~s.lastPtyError /\ s.noDataTimer = None
              /\ ~s.disposed => /\ closing = {}
                                /\ \A o \in ending : s.pty = o \/ call[o].at = "opened"

(* spoke is about the current epoch's shell.                               *)
SpokeInv ==
  s.spoke => s.ptySpawnEpoch # None /\ shell[s.ptySpawnEpoch] # "silent"
                /\ call[s.ptySpawnEpoch].at \in {"done", "opened"}

(* An abandoned shell runs, and no call, handle of a pane that is there,   *)
(* ending or close request is about it.  A pane that is gone has no        *)
(* watchdog, and an SSH pane no saved shell.                               *)
LostInv ==
  /\ \A o \in abandoned : /\ Running(o) /\ call[o].at = "done"
                          /\ o \notin ending /\ o \notin closing
                          /\ s.pty = o => s.disposed
  /\ s.disposed => s.noDataTimer = None
  /\ s.ssh => savedShell # "runs"

IndInv ==
  /\ Types /\ EpochInv /\ HandleInv /\ OpeningInv /\ AnswerInv /\ SshInv /\ SpokeInv
     /\ LostInv
  /\ NoOrphanShell /\ NoDeadEnd /\ SilentIsWatched

-----------------------------------------------------------------------------
(* The initial state.                                                      *)
LEMMA InitIndInv == Init => IndInv
<1> SUFFICES ASSUME Init PROVE IndInv
  OBVIOUS
<1> USE ConstantsAssumption DEF Init, Idle
<1>1. Types
  <2>1. s \in Session
    BY DEF Session
  <2> QED BY <2>1 DEF Types, Call
<1>2. s.pty = None /\ s.ptySpawnEpoch = None /\ s.noDataTimer = None
        /\ ~s.ptyOpening /\ ~s.spawned /\ ~s.spoke /\ ~s.lastPtyError /\ ~s.reconnectTimer
  OBVIOUS
<1> QED
  BY <1>1, <1>2 DEF IndInv, EpochInv, HandleInv, OpeningInv, AnswerInv, SshInv, SpokeInv,
    NoOrphanShell, LostInv, NoDeadEnd, SilentIsWatched, Running

-----------------------------------------------------------------------------
(* One lemma for each action that opens nothing.                           *)
LEMMA MountKeeps == ASSUME IndInv, mount PROVE IndInv'
BY DEF mount, lostVars, IndInv, Types, EpochInv, HandleInv, OpeningInv, AnswerInv, SshInv,
  SpokeInv,
       NoOrphanShell, LostInv, NoDeadEnd, SilentIsWatched, Running

LEMMA DetachKeeps == ASSUME IndInv, detachSession PROVE IndInv'
<1> USE ConstantsAssumption DEF detachSession, lostVars
<1>0. Types'
  BY DEF IndInv, Types, Session, Call
<1>1. EpochInv'
  BY DEF IndInv, Types, Session, Call, EpochInv, Running
<1>2. HandleInv'
  BY DEF IndInv, Types, Session, Call, HandleInv, EpochInv, Running
<1>3. OpeningInv'
  BY DEF IndInv, Types, Session, Call, OpeningInv, HandleInv, EpochInv, Running
<1>4. SshInv'
  BY DEF IndInv, Types, Session, Call, SshInv, EpochInv, HandleInv, Running
<1>5. SpokeInv'
  BY DEF IndInv, Types, Session, Call, SpokeInv, HandleInv, EpochInv, Running
<1>6. NoOrphanShell'
  BY DEF IndInv, Types, Session, Call, NoOrphanShell, EpochInv, HandleInv, Running
<1>7. NoDeadEnd'
  BY DEF IndInv, Types, Session, Call, NoDeadEnd, EpochInv, HandleInv, OpeningInv, SshInv,
     Running
<1>8. SilentIsWatched'
  BY DEF IndInv, Types, Session, Call, SilentIsWatched, EpochInv, HandleInv, SpokeInv,
     Running
<1>9. AnswerInv'
  BY DEF IndInv, Types, Session, Call, AnswerInv, EpochInv, HandleInv, OpeningInv, SshInv,
     Running
<1>10. LostInv'
  BY DEF IndInv, Types, Session, Call, LostInv, EpochInv, HandleInv, Running
<1> QED BY <1>0, <1>1, <1>2, <1>3, <1>4, <1>5, <1>6, <1>7, <1>8, <1>9, <1>10 DEF IndInv

LEMMA DisposeKeeps == ASSUME IndInv, disposeSession PROVE IndInv'
<1> USE ConstantsAssumption DEF disposeSession, close, paneVars, lostVars
<1>0. Types'
  BY DEF IndInv, Types, Session, Call
<1>1. EpochInv'
  BY DEF IndInv, Types, Session, Call, EpochInv, HandleInv, Running
<1>2. HandleInv'
  BY DEF IndInv, Types, Session, Call, HandleInv, EpochInv, Running
<1>3. OpeningInv'
  BY DEF IndInv, Types, Session, Call, OpeningInv, HandleInv, EpochInv, Running
<1>4. SshInv'
  BY DEF IndInv, Types, Session, Call, SshInv, EpochInv, HandleInv, Running
<1>5. SpokeInv'
  BY DEF IndInv, Types, Session, Call, SpokeInv, HandleInv, EpochInv, Running
<1>6. NoOrphanShell'
  BY DEF IndInv, Types, Session, Call, NoOrphanShell, EpochInv, HandleInv, Running
<1>7. NoDeadEnd'
  BY DEF IndInv, Types, Session, Call, NoDeadEnd, EpochInv, HandleInv, OpeningInv, SshInv,
     Running
<1>8. SilentIsWatched'
  BY DEF IndInv, Types, Session, Call, SilentIsWatched, EpochInv, HandleInv, SpokeInv,
     Running
<1>9. AnswerInv'
  BY DEF IndInv, Types, Session, Call, AnswerInv, EpochInv, HandleInv, OpeningInv, SshInv,
     Running
<1>10. LostInv'
  BY DEF IndInv, Types, Session, Call, LostInv, EpochInv, HandleInv, Running
<1> QED BY <1>0, <1>1, <1>2, <1>3, <1>4, <1>5, <1>6, <1>7, <1>8, <1>9, <1>10 DEF IndInv

LEMMA HostFoundKeeps == ASSUME IndInv, NEW o \in Open, hostFound(o) PROVE IndInv'
<1> USE ConstantsAssumption DEF hostFound, paneVars, lostVars
<1>0. Types'
  BY DEF IndInv, Types, Session, Call
<1>1. EpochInv'
  BY DEF IndInv, Types, Session, Call, EpochInv, Running
<1>2. HandleInv'
  BY DEF IndInv, Types, Session, Call, HandleInv, EpochInv, Running
<1>3. OpeningInv'
  BY DEF IndInv, Types, Session, Call, OpeningInv, HandleInv, EpochInv, Running
<1>4. SshInv'
  BY DEF IndInv, Types, Session, Call, SshInv, EpochInv, HandleInv, Running
<1>5. SpokeInv'
  BY DEF IndInv, Types, Session, Call, SpokeInv, HandleInv, EpochInv, Running
<1>6. NoOrphanShell'
  BY DEF IndInv, Types, Session, Call, NoOrphanShell, EpochInv, HandleInv, Running
<1>7. NoDeadEnd'
  BY DEF IndInv, Types, Session, Call, NoDeadEnd, EpochInv, HandleInv, OpeningInv, SshInv,
     Running
<1>8. SilentIsWatched'
  BY DEF IndInv, Types, Session, Call, SilentIsWatched, EpochInv, HandleInv, SpokeInv,
     Running
<1>9. AnswerInv'
  BY DEF IndInv, Types, Session, Call, AnswerInv, EpochInv, HandleInv, OpeningInv, SshInv,
     Running
<1>10. LostInv'
  BY DEF IndInv, Types, Session, Call, LostInv, EpochInv, HandleInv, Running
<1> QED BY <1>0, <1>1, <1>2, <1>3, <1>4, <1>5, <1>6, <1>7, <1>8, <1>9, <1>10 DEF IndInv

LEMMA ReattachAliveKeeps == ASSUME IndInv, NEW o \in Open, reattachAlive(o) PROVE IndInv'
<1> USE ConstantsAssumption DEF reattachAlive, paneVars, lostVars
<1>0. Types'
  <2>1. s' = s \/ s' = [s EXCEPT !.spoke = TRUE, !.noDataTimer = None]
    OBVIOUS
  <2>2. s' \in Session
    <3>1. s \in Session
      BY DEF IndInv, Types
    <3> HIDE DEF reattachAlive
    <3>2. CASE s' = s
      BY <3>1, <3>2
    <3>3. CASE s' = [s EXCEPT !.spoke = TRUE, !.noDataTimer = None]
      BY <3>1, <3>3 DEF Session
    <3> QED BY <2>1, <3>2, <3>3
  <2>3. shell' = [shell EXCEPT ![o] = "up"] \/ shell' = [shell EXCEPT ![o] = "silent"]
    OBVIOUS
  <2> QED BY <2>2, <2>3 DEF IndInv, Types, Call
<1>1. EpochInv'
  BY DEF IndInv, Types, Session, Call, EpochInv, Running
<1>2. HandleInv'
  BY DEF IndInv, Types, Session, Call, HandleInv, EpochInv, Running
<1>3. OpeningInv'
  BY DEF IndInv, Types, Session, Call, OpeningInv, HandleInv, EpochInv, Running
<1>4. SshInv'
  BY DEF IndInv, Types, Session, Call, SshInv, EpochInv, HandleInv, Running
<1>5. SpokeInv'
  BY DEF IndInv, Types, Session, Call, SpokeInv, HandleInv, EpochInv, Running
<1>6. NoOrphanShell'
  BY DEF IndInv, Types, Session, Call, NoOrphanShell, EpochInv, HandleInv, Running
<1>7. NoDeadEnd'
  BY DEF IndInv, Types, Session, Call, NoDeadEnd, EpochInv, HandleInv, OpeningInv, SshInv,
     Running
<1>8. SilentIsWatched'
  BY DEF IndInv, Types, Session, Call, SilentIsWatched, EpochInv, HandleInv, SpokeInv,
     Running
<1>9. AnswerInv'
  BY DEF IndInv, Types, Session, Call, AnswerInv, EpochInv, HandleInv, OpeningInv, SshInv,
     Running
<1>10. LostInv'
  BY DEF IndInv, Types, Session, Call, LostInv, EpochInv, HandleInv, Running
<1> QED BY <1>0, <1>1, <1>2, <1>3, <1>4, <1>5, <1>6, <1>7, <1>8, <1>9, <1>10 DEF IndInv

LEMMA ReattachDeadKeeps == ASSUME IndInv, NEW o \in Open, reattachDead(o) PROVE IndInv'
<1> USE ConstantsAssumption DEF paneVars, lostVars
<1>a. call[o].at = "reattach" /\ call' = [call EXCEPT ![o].at = "open"]
  /\ savedShell = "none"
        /\ UNCHANGED <<paneVars, shell, ending, closing, lostVars>>
  BY DEF reattachDead
<1>b. /\ s' \in Session
      /\ UNCHANGED <<s.ssh, s.savedPtyId, s.pty, s.ptyOpening, s.ptySpawnEpoch, s.spawned,
                     s.lastPtyError,
                     s.pendingExit, s.disposed, s.reconnectTimer, s.status, s.overtaken>>
      /\ s'.spoke => s.spoke
      /\ s'.noDataTimer = s.noDataTimer \/ (s'.noDataTimer = None /\ s.ptySpawnEpoch = o)
  <2>1. s' = [s EXCEPT !.spoke = FALSE,
                       !.noDataTimer = IF ~s.disposed
                         /\ s.ptySpawnEpoch = o THEN None ELSE @]
    BY DEF reattachDead
  <2> QED BY <2>1 DEF IndInv, Types, Session
<1>0. Types'
  BY <1>a, <1>b DEF IndInv, Types, Session, Call
<1>1. EpochInv'
  BY <1>a, <1>b DEF IndInv, Types, Session, Call, EpochInv, Running
<1>2. HandleInv'
  BY <1>a, <1>b DEF IndInv, Types, Session, Call, HandleInv, EpochInv, Running
<1>3. OpeningInv'
  BY <1>a, <1>b DEF IndInv, Types, Session, Call, OpeningInv, HandleInv, EpochInv, Running
<1>4. SshInv'
  BY <1>a, <1>b DEF IndInv, Types, Session, Call, SshInv, EpochInv, HandleInv, Running
<1>5. SpokeInv'
  BY <1>a, <1>b DEF IndInv, Types, Session, Call, SpokeInv, HandleInv, EpochInv, Running
<1>6. NoOrphanShell'
  BY <1>a, <1>b DEF IndInv, Types, Session, Call, NoOrphanShell, EpochInv, HandleInv,
     Running
<1>7. NoDeadEnd'
  BY <1>a, <1>b DEF IndInv, Types, Session, Call, NoDeadEnd, EpochInv, HandleInv,
     OpeningInv, SshInv, Running
<1>8. SilentIsWatched'
  BY <1>a, <1>b DEF IndInv, Types, Session, Call, SilentIsWatched, EpochInv, HandleInv,
     SpokeInv, Running
<1>9. AnswerInv'
  BY <1>a, <1>b DEF IndInv, Types, Session, Call, AnswerInv, EpochInv, HandleInv,
     OpeningInv, SshInv, Running
<1>10. LostInv'
  BY <1>a, <1>b DEF IndInv, Types, Session, Call, LostInv, EpochInv, HandleInv,
     Running
<1> QED BY <1>0, <1>1, <1>2, <1>3, <1>4, <1>5, <1>6, <1>7, <1>8, <1>9, <1>10 DEF IndInv

LEMMA ReattachFailsKeeps == ASSUME IndInv, NEW o \in Open, reattachFails(o) PROVE IndInv'
<1> USE ConstantsAssumption DEF reattachFails, paneVars, lostVars
<1>0. Types'
  BY DEF IndInv, Types, Session, Call
<1>1. EpochInv'
  BY DEF IndInv, Types, Session, Call, EpochInv, Running
<1>2. HandleInv'
  BY DEF IndInv, Types, Session, Call, HandleInv, EpochInv, Running
<1>3. OpeningInv'
  BY DEF IndInv, Types, Session, Call, OpeningInv, HandleInv, EpochInv, Running
<1>4. SshInv'
  BY DEF IndInv, Types, Session, Call, SshInv, EpochInv, HandleInv, Running
<1>5. SpokeInv'
  BY DEF IndInv, Types, Session, Call, SpokeInv, HandleInv, EpochInv, Running
<1>6. NoOrphanShell'
  BY DEF IndInv, Types, Session, Call, NoOrphanShell, EpochInv, HandleInv, Running
<1>7. NoDeadEnd'
  BY DEF IndInv, Types, Session, Call, NoDeadEnd, EpochInv, HandleInv, OpeningInv, SshInv,
     Running
<1>8. SilentIsWatched'
  BY DEF IndInv, Types, Session, Call, SilentIsWatched, EpochInv, HandleInv, SpokeInv,
     Running
<1>9. AnswerInv'
  BY DEF IndInv, Types, Session, Call, AnswerInv, EpochInv, HandleInv, OpeningInv, SshInv,
     Running
<1>10. LostInv'
  BY DEF IndInv, Types, Session, Call, LostInv, EpochInv, HandleInv, Running
<1> QED BY <1>0, <1>1, <1>2, <1>3, <1>4, <1>5, <1>6, <1>7, <1>8, <1>9, <1>10 DEF IndInv

LEMMA BackendOpensKeeps == ASSUME IndInv, NEW o \in Open, backendOpens(o) PROVE IndInv'
<1> USE ConstantsAssumption DEF backendOpens, paneVars, lostVars
<1>0. Types'
  BY DEF IndInv, Types, Session, Call
<1>1. EpochInv'
  BY DEF IndInv, Types, Session, Call, EpochInv, Running
<1>2. HandleInv'
  BY DEF IndInv, Types, Session, Call, HandleInv, EpochInv, Running
<1>3. OpeningInv'
  BY DEF IndInv, Types, Session, Call, OpeningInv, HandleInv, EpochInv, Running
<1>4. SshInv'
  BY DEF IndInv, Types, Session, Call, SshInv, EpochInv, HandleInv, Running
<1>5. SpokeInv'
  BY DEF IndInv, Types, Session, Call, SpokeInv, HandleInv, EpochInv, Running
<1>6. NoOrphanShell'
  BY DEF IndInv, Types, Session, Call, NoOrphanShell, EpochInv, HandleInv, Running
<1>7. NoDeadEnd'
  BY DEF IndInv, Types, Session, Call, NoDeadEnd, EpochInv, HandleInv, OpeningInv, SshInv,
     Running
<1>8. SilentIsWatched'
  BY DEF IndInv, Types, Session, Call, SilentIsWatched, EpochInv, HandleInv, SpokeInv,
     Running
<1>9. AnswerInv'
  BY DEF IndInv, Types, Session, Call, AnswerInv, EpochInv, HandleInv, OpeningInv, SshInv,
     Running
<1>10. LostInv'
  BY DEF IndInv, Types, Session, Call, LostInv, EpochInv, HandleInv, Running
<1> QED BY <1>0, <1>1, <1>2, <1>3, <1>4, <1>5, <1>6, <1>7, <1>8, <1>9, <1>10 DEF IndInv

LEMMA FirstByteKeeps == ASSUME IndInv, NEW o \in Open, firstByte(o) PROVE IndInv'
<1> USE ConstantsAssumption DEF firstByte, paneVars, lostVars
<1>0. Types'
  BY DEF IndInv, Types, Session, Call
<1>1. EpochInv'
  BY DEF IndInv, Types, Session, Call, EpochInv, Running
<1>2. HandleInv'
  BY DEF IndInv, Types, Session, Call, HandleInv, EpochInv, Running
<1>3. OpeningInv'
  BY DEF IndInv, Types, Session, Call, OpeningInv, HandleInv, EpochInv, Running
<1>4. SshInv'
  BY DEF IndInv, Types, Session, Call, SshInv, EpochInv, HandleInv, Running
<1>5. SpokeInv'
  BY DEF IndInv, Types, Session, Call, SpokeInv, HandleInv, EpochInv, Running
<1>6. NoOrphanShell'
  BY DEF IndInv, Types, Session, Call, NoOrphanShell, EpochInv, HandleInv, Running
<1>7. NoDeadEnd'
  BY DEF IndInv, Types, Session, Call, NoDeadEnd, EpochInv, HandleInv, OpeningInv, SshInv,
     Running
<1>8. SilentIsWatched'
  BY DEF IndInv, Types, Session, Call, SilentIsWatched, EpochInv, HandleInv, SpokeInv,
     Running
<1>9. AnswerInv'
  BY DEF IndInv, Types, Session, Call, AnswerInv, EpochInv, HandleInv, OpeningInv, SshInv,
     Running
<1>10. LostInv'
  BY DEF IndInv, Types, Session, Call, LostInv, EpochInv, HandleInv, Running
<1> QED BY <1>0, <1>1, <1>2, <1>3, <1>4, <1>5, <1>6, <1>7, <1>8, <1>9, <1>10 DEF IndInv

LEMMA ShellEndsKeeps == ASSUME IndInv, NEW o \in Open, shellEnds(o) PROVE IndInv'
<1> USE ConstantsAssumption DEF shellEnds, paneVars, lostVars
<1>0. Types'
  BY DEF IndInv, Types, Session, Call
<1>1. EpochInv'
  BY DEF IndInv, Types, Session, Call, EpochInv, Running
<1>2. HandleInv'
  BY DEF IndInv, Types, Session, Call, HandleInv, EpochInv, Running
<1>3. OpeningInv'
  BY DEF IndInv, Types, Session, Call, OpeningInv, HandleInv, EpochInv, Running
<1>4. SshInv'
  BY DEF IndInv, Types, Session, Call, SshInv, EpochInv, HandleInv, NoOrphanShell, Running
<1>5. SpokeInv'
  BY DEF IndInv, Types, Session, Call, SpokeInv, HandleInv, EpochInv, Running
<1>6. NoOrphanShell'
  BY DEF IndInv, Types, Session, Call, NoOrphanShell, EpochInv, HandleInv, Running
<1>7. NoDeadEnd'
  BY DEF IndInv, Types, Session, Call, NoDeadEnd, EpochInv, HandleInv, OpeningInv, SshInv,
     Running
<1>8. SilentIsWatched'
  BY DEF IndInv, Types, Session, Call, SilentIsWatched, EpochInv, HandleInv, SpokeInv,
     Running
<1>9. AnswerInv'
  BY DEF IndInv, Types, Session, Call, AnswerInv, EpochInv, HandleInv, OpeningInv, SshInv,
     Running
<1>10. LostInv'
  BY DEF IndInv, Types, Session, Call, LostInv, EpochInv, HandleInv, Running
<1> QED BY <1>0, <1>1, <1>2, <1>3, <1>4, <1>5, <1>6, <1>7, <1>8, <1>9, <1>10 DEF IndInv

LEMMA WatchdogKeeps == ASSUME IndInv, watchdogFires PROVE IndInv'
<1> USE ConstantsAssumption DEF paneVars, lostVars
<1>a. UNCHANGED <<paneVars, call, shell, ending, lostVars>>
  BY DEF watchdogFires
<1>b. /\ s' \in Session /\ s'.noDataTimer = None
      /\ UNCHANGED <<s.ssh, s.savedPtyId, s.ptyOpening, s.ptySpawnEpoch, s.spoke,
                     s.pendingExit, s.disposed, s.reconnectTimer, s.status, s.overtaken>>
      /\ \/ /\ s.noDataTimer # s.ptySpawnEpoch \/ s.pty = None
            /\ UNCHANGED <<s.pty, s.spawned, s.lastPtyError, closing>>
         \/ /\ s.noDataTimer = s.ptySpawnEpoch /\ s.pty # None
            /\ s'.pty = None /\ ~s'.spawned /\ s'.lastPtyError
            /\ closing' = closing \cup {s.pty}
  <2>1. CASE s.noDataTimer # s.ptySpawnEpoch \/ s.pty = None
    <3>1. s' = [s EXCEPT !.noDataTimer = None] /\ closing' = closing
      BY <2>1 DEF watchdogFires
    <3> QED BY <2>1, <3>1 DEF IndInv, Types, Session
  <2>2. CASE s.noDataTimer = s.ptySpawnEpoch /\ s.pty # None
    <3>1. /\ s' = [s EXCEPT !.noDataTimer = None, !.pty = None, !.spawned = FALSE,
                            !.lastPtyError = TRUE]
          /\ closing' = closing \cup {s.pty}
      BY <2>2 DEF watchdogFires, close
    <3> QED BY <2>2, <3>1 DEF IndInv, Types, Session
  <2> QED BY <2>1, <2>2
<1>c. ~s.ssh
  BY DEF watchdogFires, IndInv, SshInv
<1>0. Types'
  BY <1>a, <1>b, <1>c DEF IndInv, Types, Session, Call
<1>1. EpochInv'
  BY <1>a, <1>b, <1>c DEF IndInv, Types, Session, Call, EpochInv, HandleInv, Running
<1>2. HandleInv'
  BY <1>a, <1>b, <1>c DEF IndInv, Types, Session, Call, HandleInv, EpochInv, Running
<1>3. OpeningInv'
  BY <1>a, <1>b, <1>c DEF IndInv, Types, Session, Call, OpeningInv, HandleInv, EpochInv,
     Running
<1>4. SshInv'
  BY <1>a, <1>b, <1>c DEF IndInv, Types, Session, Call, SshInv, EpochInv, HandleInv, Running
<1>5. SpokeInv'
  BY <1>a, <1>b, <1>c DEF IndInv, Types, Session, Call, SpokeInv, HandleInv, EpochInv,
     Running
<1>6. NoOrphanShell'
  BY <1>a, <1>b, <1>c DEF IndInv, Types, Session, Call, NoOrphanShell, EpochInv, HandleInv,
     Running
<1>7. NoDeadEnd'
  BY <1>a, <1>b, <1>c DEF IndInv, Types, Session, Call, NoDeadEnd, EpochInv, HandleInv,
     OpeningInv, SshInv, Running
<1>8. SilentIsWatched'
  BY <1>a, <1>b, <1>c DEF IndInv, Types, Session, Call, SilentIsWatched, EpochInv,
     HandleInv, SpokeInv, Running
<1>9. AnswerInv'
  BY <1>a, <1>b, <1>c DEF IndInv, Types, Session, Call, AnswerInv, EpochInv, HandleInv,
     OpeningInv, SshInv, Running
<1>10. LostInv'
  BY <1>a, <1>b, <1>c DEF IndInv, Types, Session, Call, LostInv, EpochInv, HandleInv,
     Running
<1> QED BY <1>0, <1>1, <1>2, <1>3, <1>4, <1>5, <1>6, <1>7, <1>8, <1>9, <1>10 DEF IndInv

LEMMA BackendClosesKeeps == ASSUME IndInv, NEW o \in Open, backendCloses(o) PROVE IndInv'
<1> USE ConstantsAssumption DEF backendCloses, paneVars, lostVars
<1>0. Types'
  BY DEF IndInv, Types, Session, Call
<1>1. EpochInv'
  BY DEF IndInv, Types, Session, Call, EpochInv, Running
<1>2. HandleInv'
  BY DEF IndInv, Types, Session, Call, HandleInv, EpochInv, Running
<1>3. OpeningInv'
  BY DEF IndInv, Types, Session, Call, OpeningInv, HandleInv, EpochInv, Running
<1>4. SshInv'
  BY DEF IndInv, Types, Session, Call, SshInv, EpochInv, HandleInv, Running
<1>5. SpokeInv'
  BY DEF IndInv, Types, Session, Call, SpokeInv, HandleInv, EpochInv, Running
<1>6. NoOrphanShell'
  BY DEF IndInv, Types, Session, Call, NoOrphanShell, EpochInv, HandleInv, Running
<1>7. NoDeadEnd'
  BY DEF IndInv, Types, Session, Call, NoDeadEnd, EpochInv, HandleInv, OpeningInv, SshInv,
     Running
<1>8. SilentIsWatched'
  BY DEF IndInv, Types, Session, Call, SilentIsWatched, EpochInv, HandleInv, SpokeInv,
     Running
<1>9. AnswerInv'
  BY DEF IndInv, Types, Session, Call, AnswerInv, EpochInv, HandleInv, OpeningInv, SshInv,
     Running
<1>10. LostInv'
  BY DEF IndInv, Types, Session, Call, LostInv, EpochInv, HandleInv, Running
<1> QED BY <1>0, <1>1, <1>2, <1>3, <1>4, <1>5, <1>6, <1>7, <1>8, <1>9, <1>10 DEF IndInv

LEMMA CloseLostKeeps == ASSUME IndInv, NEW o \in Open, closeLost(o) PROVE IndInv'
<1> USE ConstantsAssumption DEF closeLost, paneVars, lostVars
<1>0. Types'
  BY DEF IndInv, Types, Session, Call
<1>1. EpochInv'
  BY DEF IndInv, Types, Session, Call, EpochInv, Running
<1>2. HandleInv'
  BY DEF IndInv, Types, Session, Call, HandleInv, EpochInv, Running
<1>3. OpeningInv'
  BY DEF IndInv, Types, Session, Call, OpeningInv, HandleInv, EpochInv, Running
<1>4. SshInv'
  BY DEF IndInv, Types, Session, Call, SshInv, EpochInv, HandleInv, Running
<1>5. SpokeInv'
  BY DEF IndInv, Types, Session, Call, SpokeInv, HandleInv, EpochInv, Running
<1>6. NoOrphanShell'
  BY DEF IndInv, Types, Session, Call, NoOrphanShell, EpochInv, HandleInv, Running
<1>7. NoDeadEnd'
  BY DEF IndInv, Types, Session, Call, NoDeadEnd, EpochInv, HandleInv, OpeningInv, SshInv,
     Running
<1>8. SilentIsWatched'
  BY DEF IndInv, Types, Session, Call, SilentIsWatched, EpochInv, HandleInv, SpokeInv,
     Running
<1>9. AnswerInv'
  BY DEF IndInv, Types, Session, Call, AnswerInv, EpochInv, HandleInv, OpeningInv, SshInv,
     Running
<1>10. LostInv'
  BY DEF IndInv, Types, Session, Call, LostInv, EpochInv, HandleInv, Running
<1> QED BY <1>0, <1>1, <1>2, <1>3, <1>4, <1>5, <1>6, <1>7, <1>8, <1>9, <1>10 DEF IndInv

LEMMA AbandonedEndsKeeps == ASSUME IndInv, NEW o \in Open, abandonedEnds(o) PROVE IndInv'
<1> USE ConstantsAssumption DEF abandonedEnds, paneVars, lostVars
<1>0. Types'
  BY DEF IndInv, Types, Session, Call
<1>1. EpochInv'
  BY DEF IndInv, Types, Session, Call, EpochInv, Running
<1>2. HandleInv'
  BY DEF IndInv, Types, Session, Call, HandleInv, EpochInv, Running
<1>3. OpeningInv'
  BY DEF IndInv, Types, Session, Call, OpeningInv, HandleInv, EpochInv, Running
<1>4. SshInv'
  BY DEF IndInv, Types, Session, Call, SshInv, LostInv, EpochInv, HandleInv, Running
<1>5. SpokeInv'
  BY DEF IndInv, Types, Session, Call, SpokeInv, HandleInv, EpochInv, Running
<1>6. NoOrphanShell'
  BY DEF IndInv, Types, Session, Call, NoOrphanShell, EpochInv, HandleInv, Running
<1>7. NoDeadEnd'
  BY DEF IndInv, Types, Session, Call, NoDeadEnd, LostInv, EpochInv, HandleInv, OpeningInv,
    SshInv,
     Running
<1>8. SilentIsWatched'
  BY DEF IndInv, Types, Session, Call, SilentIsWatched, LostInv, EpochInv, HandleInv,
    SpokeInv,
     Running
<1>9. AnswerInv'
  BY DEF IndInv, Types, Session, Call, AnswerInv, LostInv, EpochInv, HandleInv, OpeningInv,
    SshInv,
     Running
<1>10. LostInv'
  BY DEF IndInv, Types, Session, Call, LostInv, EpochInv, HandleInv, Running
<1> QED BY <1>0, <1>1, <1>2, <1>3, <1>4, <1>5, <1>6, <1>7, <1>8, <1>9, <1>10 DEF IndInv

LEMMA SavedEndsKeeps == ASSUME IndInv, savedShellEnds PROVE IndInv'
<1> USE ConstantsAssumption DEF savedShellEnds, paneVars, lostVars
<1>0. Types'
  BY DEF IndInv, Types, Session, Call
<1>1. EpochInv'
  BY DEF IndInv, Types, Session, Call, EpochInv, Running
<1>2. HandleInv'
  BY DEF IndInv, Types, Session, Call, HandleInv, EpochInv, Running
<1>3. OpeningInv'
  BY DEF IndInv, Types, Session, Call, OpeningInv, HandleInv, EpochInv, Running
<1>4. SshInv'
  BY DEF IndInv, Types, Session, Call, SshInv, EpochInv, HandleInv, Running
<1>5. SpokeInv'
  BY DEF IndInv, Types, Session, Call, SpokeInv, HandleInv, EpochInv, Running
<1>6. NoOrphanShell'
  BY DEF IndInv, Types, Session, Call, NoOrphanShell, EpochInv, HandleInv, Running
<1>7. NoDeadEnd'
  BY DEF IndInv, Types, Session, Call, NoDeadEnd, EpochInv, HandleInv, OpeningInv, SshInv,
     Running
<1>8. SilentIsWatched'
  BY DEF IndInv, Types, Session, Call, SilentIsWatched, EpochInv, HandleInv, SpokeInv,
     Running
<1>9. AnswerInv'
  BY DEF IndInv, Types, Session, Call, AnswerInv, EpochInv, HandleInv, OpeningInv, SshInv,
     Running
<1>10. LostInv'
  BY DEF IndInv, Types, Session, Call, LostInv, EpochInv, HandleInv, Running
<1> QED BY <1>0, <1>1, <1>2, <1>3, <1>4, <1>5, <1>6, <1>7, <1>8, <1>9, <1>10 DEF IndInv

-----------------------------------------------------------------------------
(* openPtyForSession, from whichever handler: t and c are what the rest of *)
(* the handler made of the session and the calls.  A handle the pane had   *)
(* is being closed, and c may hold a call the same step made before.       *)
Reopening(t, c, o, by) ==
  /\ ~s.disposed
  /\ t \in Session /\ t.pty = None /\ ~t.spawned /\ ~t.disposed
  /\ t.ssh = s.ssh /\ t.noDataTimer = s.noDataTimer /\ (t.reconnectTimer => s.ssh)
  /\ s.ssh => s.pty = None /\ ~s.ptyOpening
  /\ c \in [Open -> Call]
  /\ \A p \in Open : \/ c[p] = call[p]
                     \/ /\ FreshOpen(p) /\ ~s.ssh
                        /\ c[p].by = "attach" /\ c[p].at \in {"reattach", "open"}
  /\ by \in {"attach", "retry", "respawn", "reconnect"} /\ (by = "reconnect" => s.ssh)
  /\ FreshOpen(o) /\ c[o].at = "done"
  /\ s' = opened(t, o) /\ call' = called(t, c, o, by)
  /\ shell' = shell /\ ending' \subseteq ending
  /\ closing' = IF s.pty = None THEN closing ELSE closing \cup {s.pty}
  /\ savedShell' = savedShell /\ abandoned' = abandoned
  /\ \A p \in Open : call[p].at = "reattach" => c[p].at = "reattach"
  /\ s.savedPtyId /\ ~s.ssh => t.savedPtyId \/ \E p \in Open : c[p].at = "reattach"
  /\ mounted' \in BOOLEAN /\ stuckTimer' \in BOOLEAN /\ leaving' \in BOOLEAN

LEMMA ReopeningKeeps ==
  ASSUME IndInv, NEW t, NEW c, NEW o \in Open, NEW by, Reopening(t, c, o, by) PROVE IndInv'
<1> USE ConstantsAssumption
<1>a. /\ s' \in Session /\ s'.ssh = s.ssh /\ s'.pty = None /\ ~s'.spawned /\ ~s'.disposed
      /\ s'.noDataTimer = s.noDataTimer /\ (s'.reconnectTimer => s.ssh)
      /\ s'.ptyOpening /\ ~s'.lastPtyError /\ s'.ptySpawnEpoch = o /\ ~s'.spoke
  BY DEF Reopening, opened, Session
<1>b. /\ call' \in [Open -> Call]
      /\ call'[o].by = by /\ ~call'[o].late
      /\ call'[o].at = IF s.ssh THEN "lookup" ELSE IF t.savedPtyId THEN "reattach" ELSE "open"
      /\ \A p \in Open \ {o} : call'[p] = c[p]
  BY DEF Reopening, called, Call
<1>c. /\ ~s.disposed /\ FreshOpen(o) /\ (by = "reconnect" => s.ssh)
      /\ s.ssh => s.pty = None /\ ~s.ptyOpening
      /\ \A p \in Open : \/ c[p] = call[p]
                         \/ /\ FreshOpen(p) /\ ~s.ssh
                            /\ c[p].by = "attach" /\ c[p].at \in {"reattach", "open"}
      /\ shell' = shell /\ ending' \subseteq ending
      /\ closing' = IF s.pty = None THEN closing ELSE closing \cup {s.pty}
      /\ savedShell' = savedShell /\ abandoned' = abandoned /\ c[o].at = "done"
      /\ \A p \in Open : call[p].at = "reattach" => c[p].at = "reattach"
      /\ s.savedPtyId /\ ~s.ssh => t.savedPtyId \/ \E p \in Open : c[p].at = "reattach"
  BY DEF Reopening
<1>0. Types'
  BY <1>a, <1>b, <1>c DEF Reopening, IndInv, Types, Session
<1>1. EpochInv'
  BY <1>a, <1>b, <1>c DEF IndInv, Types, Session, EpochInv, HandleInv, FreshOpen, Running
<1>2. HandleInv'
  BY <1>a DEF HandleInv
<1>3. OpeningInv'
  BY <1>a, <1>b DEF OpeningInv
<1>4. SshInv'
  BY <1>a, <1>b, <1>c DEF IndInv, Types, SshInv, EpochInv
<1>5. SpokeInv'
  BY <1>a DEF SpokeInv
<1>6. NoOrphanShell'
  <2>1. \A p \in Open : c[p].at = "reattach" => call'[p].at = "reattach"
    BY <1>b, <1>c
  <2>2. savedShell' = "runs" => \E p \in Open : call'[p].at = "reattach"
    <3>1. CASE savedShell = "runs" /\ ~s.ssh /\ ~t.savedPtyId
      <4>1. \E p \in Open : c[p].at = "reattach"
        BY <1>c, <3>1 DEF IndInv, NoOrphanShell
      <4> QED BY <2>1, <4>1
    <3>2. CASE savedShell = "runs" /\ ~s.ssh /\ t.savedPtyId
      BY <1>b, <3>2
    <3>3. s.ssh => savedShell # "runs"
      BY DEF IndInv, LostInv
    <3> QED BY <1>c, <3>1, <3>2, <3>3
  <2>3. ASSUME NEW p \in Open, Running(p)'
        PROVE  \/ s'.pty = p /\ ~s'.disposed
               \/ call'[p].at = "opened" \/ p \in closing' \/ p \in abandoned'
    BY <1>a, <1>b, <1>c, <2>3 DEF IndInv, Types, Session, NoOrphanShell, FreshOpen, Running
  <2> QED BY <2>2, <2>3 DEF NoOrphanShell
<1>7. NoDeadEnd'
  BY <1>a, <1>b DEF NoDeadEnd
<1>8. SilentIsWatched'
  BY <1>a DEF SilentIsWatched
<1>9. AnswerInv'
  BY <1>a, <1>b DEF AnswerInv
<1>10. LostInv'
  BY <1>a, <1>b, <1>c DEF IndInv, Types, Session, LostInv, FreshOpen, Running, HandleInv
<1> QED BY <1>0, <1>1, <1>2, <1>3, <1>4, <1>5, <1>6, <1>7, <1>8, <1>9, <1>10 DEF IndInv

(* What a rejected open makes of the session: nothing when a newer epoch   *)
(* took over, an error a local pane shows, or the next rung or the end of  *)
(* an SSH pane's ladder.                                                   *)
Rejected(o, u) ==
  /\ u \in Session
  /\ u.ssh = s.ssh /\ u.pty = s.pty /\ u.ptySpawnEpoch = s.ptySpawnEpoch
  /\ u.spawned = s.spawned /\ u.spoke = s.spoke /\ u.noDataTimer = s.noDataTimer
  /\ u.pendingExit = s.pendingExit /\ u.disposed = s.disposed /\ u.overtaken = s.overtaken
  /\ u.savedPtyId = s.savedPtyId
  /\ \/ u = s /\ ~s.ssh /\ s.ptySpawnEpoch # o
     \/ /\ ~s.ssh /\ s.ptySpawnEpoch = o
        /\ ~u.ptyOpening /\ u.lastPtyError /\ u.reconnectTimer = s.reconnectTimer
     \/ /\ s.ssh /\ s.ptySpawnEpoch = o
        /\ ~u.ptyOpening /\ u.lastPtyError = s.lastPtyError
        /\ u.disposed \/ u.reconnectTimer \/ canRetrySsh(u.status)

LEMMA OpenRejected ==
  ASSUME IndInv, NEW o \in Open, call[o].at # "done", NEW why
  PROVE  Rejected(o, openRejected(o, why))
<1> USE ConstantsAssumption
<1>1. s \in Session /\ call[o].by \in {"nobody", "attach", "retry", "respawn", "reconnect"}
  BY DEF IndInv, Types, Call
<1>2. s.ssh => s.ptySpawnEpoch = o
  BY DEF IndInv, EpochInv
<1>3. call[o].by = "reconnect" => s.ssh
  BY DEF IndInv, EpochInv
<1> DEFINE t == [s EXCEPT !.ptyOpening = FALSE]
<1>t. /\ t \in Session /\ ~t.ptyOpening
      /\ t.ssh = s.ssh /\ t.pty = s.pty /\ t.ptySpawnEpoch = s.ptySpawnEpoch
      /\ t.spawned = s.spawned /\ t.spoke = s.spoke /\ t.noDataTimer = s.noDataTimer
      /\ t.pendingExit = s.pendingExit /\ t.disposed = s.disposed
         /\ t.overtaken = s.overtaken
      /\ t.savedPtyId = s.savedPtyId
      /\ t.lastPtyError = s.lastPtyError /\ t.reconnectTimer = s.reconnectTimer
      /\ t.attempts = s.attempts
  BY <1>1 DEF Session
<1>r. s.ptySpawnEpoch = o =>
        openRejected(o, why) = IF ~s.ssh THEN [t EXCEPT !.lastPtyError = TRUE]
                               ELSE IF why = "transport" THEN scheduleSshReconnect(t)
                               ELSE parkSshConnectFailure(t)
  BY DEF openRejected
<1>m. 0 \in 0..MaxReconnects
  OBVIOUS
<1> HIDE DEF t
<1>4. CASE s.ptySpawnEpoch # o
  <2>1. openRejected(o, why) = s /\ ~s.ssh
    BY <1>2, <1>3, <1>4 DEF openRejected
  <2> QED BY <1>1, <1>4, <2>1 DEF Rejected
<1>5. CASE s.ptySpawnEpoch = o /\ ~s.ssh
  <2>1. openRejected(o, why) = [t EXCEPT !.lastPtyError = TRUE]
    BY <1>r, <1>5
  <2> QED BY <1>t, <1>5, <2>1 DEF Rejected, Session
<1>6. CASE s.ptySpawnEpoch = o /\ s.ssh /\ why # "transport"
  <2>1. openRejected(o, why) = [t EXCEPT !.attempts = 0, !.status = "error"]
    BY <1>r, <1>6 DEF parkSshConnectFailure
  <2>2. openRejected(o, why) \in Session
    BY <1>t, <1>m, <2>1 DEF Session
  <2> DEFINE u == openRejected(o, why)
  <2>3. /\ u.ssh = t.ssh /\ u.pty = t.pty /\ u.ptySpawnEpoch = t.ptySpawnEpoch
        /\ u.spawned = t.spawned /\ u.spoke = t.spoke /\ u.noDataTimer = t.noDataTimer
        /\ u.pendingExit = t.pendingExit /\ u.disposed = t.disposed
           /\ u.overtaken = t.overtaken
        /\ u.ptyOpening = t.ptyOpening /\ u.lastPtyError = t.lastPtyError
           /\ u.savedPtyId = t.savedPtyId /\ u.status = "error"
    BY <1>t, <2>1 DEF Session
  <2> QED BY <1>t, <1>6, <2>2, <2>3 DEF Rejected, canRetrySsh
<1>7. CASE s.ptySpawnEpoch = o /\ s.ssh /\ why = "transport"
  <2>1. openRejected(o, why) = scheduleSshReconnect(t)
    BY <1>r, <1>7
  <2>2. CASE t.disposed
    BY <1>t, <1>7, <2>1, <2>2 DEF Rejected, Session, scheduleSshReconnect
  <2>3. CASE ~t.disposed /\ t.attempts = MaxReconnects
    <3>1. openRejected(o, why)
            = [t EXCEPT !.reconnectTimer = FALSE, !.attempts = 0, !.status = "disconnected"]
      BY <2>1, <2>3 DEF scheduleSshReconnect
    <3>2. openRejected(o, why) \in Session
      BY <1>t, <1>m, <3>1 DEF Session
    <3> DEFINE u == openRejected(o, why)
    <3>3. /\ u.ssh = t.ssh /\ u.pty = t.pty /\ u.ptySpawnEpoch = t.ptySpawnEpoch
          /\ u.spawned = t.spawned /\ u.spoke = t.spoke /\ u.noDataTimer = t.noDataTimer
          /\ u.pendingExit = t.pendingExit /\ u.disposed = t.disposed
             /\ u.overtaken = t.overtaken
          /\ u.ptyOpening = t.ptyOpening /\ u.lastPtyError = t.lastPtyError
             /\ u.savedPtyId = t.savedPtyId
          /\ u.status = "disconnected"
      BY <1>t, <3>1 DEF Session
    <3> QED BY <1>t, <1>7, <3>2, <3>3 DEF Rejected, canRetrySsh
  <2>4. CASE ~t.disposed /\ t.attempts # MaxReconnects
    <3>1. openRejected(o, why)
            = [t EXCEPT !.reconnectTimer = TRUE, !.attempts = @ + 1,
              !.status = "reconnecting"]
      BY <2>1, <2>4 DEF scheduleSshReconnect
    <3>2. t.attempts + 1 \in 0..MaxReconnects
      BY <1>t, <2>4 DEF Session
    <3>3. openRejected(o, why) \in Session
      BY <1>t, <3>1, <3>2 DEF Session
    <3> DEFINE u == openRejected(o, why)
    <3>4. /\ u.ssh = t.ssh /\ u.pty = t.pty /\ u.ptySpawnEpoch = t.ptySpawnEpoch
          /\ u.spawned = t.spawned /\ u.spoke = t.spoke /\ u.noDataTimer = t.noDataTimer
          /\ u.pendingExit = t.pendingExit /\ u.disposed = t.disposed
             /\ u.overtaken = t.overtaken
          /\ u.ptyOpening = t.ptyOpening /\ u.lastPtyError = t.lastPtyError
             /\ u.savedPtyId = t.savedPtyId
          /\ u.reconnectTimer
      BY <1>t, <3>1 DEF Session
    <3> QED BY <1>t, <1>7, <3>3, <3>4 DEF Rejected
  <2> QED BY <2>2, <2>3, <2>4
<1> QED BY <1>4, <1>5, <1>6, <1>7

LEMMA HostMissingKeeps == ASSUME IndInv, NEW o \in Open, hostMissing(o) PROVE IndInv'
<1> USE ConstantsAssumption DEF Rejected, paneVars, lostVars
<1>a. /\ call[o].at = "lookup" /\ call' = [call EXCEPT ![o] = Idle]
      /\ UNCHANGED <<paneVars, shell, ending, closing, lostVars>>
  BY DEF hostMissing
<1>b. Rejected(o, s')
  BY <1>a, OpenRejected DEF hostMissing
<1>0. Types'
  BY <1>a, <1>b DEF IndInv, Types, Session, Call, Idle
<1>1. EpochInv'
  BY <1>a, <1>b DEF IndInv, Types, Session, Call, Idle, EpochInv, HandleInv, Running
<1>2. HandleInv'
  BY <1>a, <1>b DEF IndInv, Types, Session, Call, Idle, HandleInv, EpochInv, OpeningInv
<1>3. OpeningInv'
  BY <1>a, <1>b DEF IndInv, Types, Session, Call, Idle, OpeningInv, HandleInv, EpochInv
<1>4. SshInv'
  BY <1>a, <1>b DEF IndInv, Types, Session, Call, Idle, SshInv, EpochInv, HandleInv, Running
<1>5. SpokeInv'
  BY <1>a, <1>b DEF IndInv, Types, Session, Call, Idle, SpokeInv, HandleInv, EpochInv
<1>6. NoOrphanShell'
  BY <1>a, <1>b DEF IndInv, Types, Session, Call, Idle, NoOrphanShell, EpochInv, HandleInv,
     Running
<1>7. NoDeadEnd'
  BY <1>a, <1>b DEF IndInv, Types, Session, Call, Idle, NoDeadEnd, EpochInv, HandleInv,
     OpeningInv,
                         AnswerInv, SshInv, Running
<1>8. SilentIsWatched'
  BY <1>a, <1>b DEF IndInv, Types, Session, Call, Idle, SilentIsWatched, HandleInv, SpokeInv
<1>9. AnswerInv'
  BY <1>a, <1>b DEF IndInv, Types, Session, Call, Idle, AnswerInv, EpochInv, HandleInv,
     OpeningInv,
                         SshInv, Running
<1>10. LostInv'
  BY <1>a, <1>b DEF IndInv, Types, Session, Call, Idle, LostInv, EpochInv, HandleInv,
     Running
<1> QED BY <1>0, <1>1, <1>2, <1>3, <1>4, <1>5, <1>6, <1>7, <1>8, <1>9, <1>10 DEF IndInv

LEMMA OpenFailsKeeps == ASSUME IndInv, NEW o \in Open, openFails(o) PROVE IndInv'
<1> USE ConstantsAssumption DEF Rejected, paneVars, lostVars
<1>a. /\ call[o].at = "open" /\ call' = [call EXCEPT ![o] = Idle]
      /\ UNCHANGED <<paneVars, shell, ending, closing, lostVars>>
  BY DEF openFails
<1>b. \/ s' = s /\ call[o].late
      \/ Rejected(o, s')
  BY <1>a, OpenRejected DEF openFails
<1>0. Types'
  BY <1>a, <1>b DEF IndInv, Types, Session, Call, Idle
<1>1. EpochInv'
  BY <1>a, <1>b DEF IndInv, Types, Session, Call, Idle, EpochInv, HandleInv, Running
<1>2. HandleInv'
  BY <1>a, <1>b DEF IndInv, Types, Session, Call, Idle, HandleInv, EpochInv, OpeningInv
<1>3. OpeningInv'
  BY <1>a, <1>b DEF IndInv, Types, Session, Call, Idle, OpeningInv, HandleInv, EpochInv
<1>4. SshInv'
  BY <1>a, <1>b DEF IndInv, Types, Session, Call, Idle, SshInv, EpochInv
<1>5. SpokeInv'
  <2>1. s'.spoke = s.spoke /\ s'.ptySpawnEpoch = s.ptySpawnEpoch
    BY <1>b
  <2> QED BY <1>a, <2>1 DEF IndInv, Types, Session, Call, Idle, SpokeInv
<1>6. NoOrphanShell'
  BY <1>a, <1>b DEF IndInv, Types, Session, Call, Idle, NoOrphanShell, EpochInv, HandleInv,
     Running
<1>7. NoDeadEnd'
  BY <1>a, <1>b DEF IndInv, Types, Session, Call, Idle, NoDeadEnd, EpochInv, HandleInv,
     OpeningInv,
                         AnswerInv, SshInv, Running
<1>8. SilentIsWatched'
  BY <1>a, <1>b DEF IndInv, Types, Session, Call, Idle, SilentIsWatched, HandleInv, SpokeInv
<1>9. AnswerInv'
  BY <1>a, <1>b DEF IndInv, Types, Session, Call, Idle, AnswerInv, EpochInv, HandleInv,
     OpeningInv,
                         SshInv, Running
<1>10. LostInv'
  BY <1>a, <1>b DEF IndInv, Types, Session, Call, Idle, LostInv, EpochInv, HandleInv,
     Running
<1> QED BY <1>0, <1>1, <1>2, <1>3, <1>4, <1>5, <1>6, <1>7, <1>8, <1>9, <1>10 DEF IndInv

LEMMA OpenUnansweredKeeps == ASSUME IndInv, NEW o \in Open, openUnanswered(o) PROVE IndInv'
<1> USE ConstantsAssumption DEF Rejected, paneVars, lostVars
<1>a. /\ call[o].at = "open" /\ call' = [call EXCEPT ![o] = Idle]
      /\ ~s.ssh /\ shell' = [shell EXCEPT ![o] = "up"] /\ abandoned' = abandoned \cup {o}
      /\ UNCHANGED <<paneVars, ending, closing, savedShell>>
  BY DEF openUnanswered
<1>b. \/ s' = s /\ call[o].late
      \/ Rejected(o, s')
  BY <1>a, OpenRejected DEF openUnanswered
<1>0. Types'
  BY <1>a, <1>b DEF IndInv, Types, Session, Call, Idle
<1>1. EpochInv'
  BY <1>a, <1>b DEF IndInv, Types, Session, Call, Idle, EpochInv, HandleInv, Running
<1>2. HandleInv'
  BY <1>a, <1>b DEF IndInv, Types, Session, Call, Idle, HandleInv, EpochInv, OpeningInv
<1>3. OpeningInv'
  BY <1>a, <1>b DEF IndInv, Types, Session, Call, Idle, OpeningInv, HandleInv, EpochInv
<1>4. SshInv'
  BY <1>a, <1>b DEF IndInv, Types, Session, Call, Idle, SshInv, EpochInv
<1>5. SpokeInv'
  <2>1. s'.spoke = s.spoke /\ s'.ptySpawnEpoch = s.ptySpawnEpoch
    BY <1>b
  <2> QED BY <1>a, <2>1 DEF IndInv, Types, Session, Call, Idle, SpokeInv
<1>6. NoOrphanShell'
  BY <1>a, <1>b DEF IndInv, Types, Session, Call, Idle, NoOrphanShell, EpochInv, HandleInv,
     Running
<1>7. NoDeadEnd'
  BY <1>a, <1>b DEF IndInv, Types, Session, Call, Idle, NoDeadEnd, EpochInv, HandleInv,
     OpeningInv,
                         AnswerInv, SshInv, Running
<1>8. SilentIsWatched'
  BY <1>a, <1>b DEF IndInv, Types, Session, Call, Idle, SilentIsWatched, HandleInv, SpokeInv
<1>9. AnswerInv'
  BY <1>a, <1>b DEF IndInv, Types, Session, Call, Idle, AnswerInv, EpochInv, HandleInv,
     OpeningInv,
                         SshInv, Running
<1>10. LostInv'
  BY <1>a, <1>b DEF IndInv, Types, Session, Call, Idle, LostInv, EpochInv, HandleInv,
     Running
<1> QED BY <1>0, <1>1, <1>2, <1>3, <1>4, <1>5, <1>6, <1>7, <1>8, <1>9, <1>10 DEF IndInv

LEMMA TimeoutKeeps == ASSUME IndInv, NEW o \in Open, spawnTimeout(o) PROVE IndInv'
<1> USE ConstantsAssumption DEF Rejected, paneVars, lostVars
<1>a. /\ ~s.ssh /\ call[o].at # "done" /\ ~call[o].late
      /\ call' = [call EXCEPT ![o].late = TRUE]
      /\ UNCHANGED <<paneVars, shell, ending, closing, lostVars>>
  BY DEF spawnTimeout
<1>b. Rejected(o, s')
  BY <1>a, OpenRejected DEF spawnTimeout
<1>c. s \in Session /\ call \in [Open -> Call] /\ Types
  BY DEF IndInv, Types
<1>d. call' \in [Open -> Call]
  BY <1>a, <1>c DEF Call
<1>e. s' \in Session
  BY <1>b, <1>c DEF Session
<1>0. Types'
  BY <1>a, <1>c, <1>d, <1>e DEF Types
<1>1. EpochInv'
  BY <1>a, <1>b DEF IndInv, Types, Session, Call, EpochInv, HandleInv, Running
<1>2. HandleInv'
  BY <1>a, <1>b DEF IndInv, Types, Session, Call, HandleInv, EpochInv, OpeningInv
<1>3. OpeningInv'
  BY <1>a, <1>b DEF IndInv, Types, Session, Call, OpeningInv, HandleInv, EpochInv
<1>4. SshInv'
  BY <1>a, <1>b DEF IndInv, Types, Session, Call, SshInv, EpochInv, HandleInv, Running
<1>5. SpokeInv'
  BY <1>a, <1>b DEF IndInv, Types, Session, Call, SpokeInv, HandleInv, EpochInv
<1>6. NoOrphanShell'
  BY <1>a, <1>b DEF IndInv, Types, Session, Call, NoOrphanShell, EpochInv, HandleInv,
     Running
<1>7. NoDeadEnd'
  BY <1>a, <1>b DEF IndInv, Types, Session, Call, NoDeadEnd, EpochInv, HandleInv,
     OpeningInv,
                         AnswerInv, SshInv, Running
<1>8. SilentIsWatched'
  BY <1>a, <1>b DEF IndInv, Types, Session, Call, SilentIsWatched, HandleInv, SpokeInv
<1>9. AnswerInv'
  BY <1>a, <1>b DEF IndInv, Types, Session, Call, AnswerInv, EpochInv, HandleInv,
     OpeningInv,
                         SshInv, Running
<1>10. LostInv'
  BY <1>a, <1>b DEF IndInv, Types, Session, Call, LostInv, EpochInv, HandleInv,
     Running
<1> QED BY <1>0, <1>1, <1>2, <1>3, <1>4, <1>5, <1>6, <1>7, <1>8, <1>9, <1>10 DEF IndInv

(* The answer of an open: a stray is closed, any other is the current      *)
(* epoch's, and the pane has no handle yet.                                *)
LEMMA StrayKeeps ==
  ASSUME IndInv, NEW o \in Open, openResolves(o), openStrays(o) PROVE IndInv'
<1> USE ConstantsAssumption DEF paneVars, lostVars
<1>a. /\ call[o].at = "opened" /\ call' = [call EXCEPT ![o] = Idle]
      /\ closing' = closing \cup {o} /\ UNCHANGED <<paneVars, shell, ending, lostVars>>
  BY DEF openResolves, close
<1>b. /\ s.ssh => s.disposed
      /\ call[o].late \/ s.disposed \/ s.ptySpawnEpoch # o
  BY <1>a DEF openStrays, IndInv, EpochInv
<1>c. /\ s' \in Session
      /\ UNCHANGED <<s.ssh, s.savedPtyId, s.pty, s.ptySpawnEpoch, s.spawned, s.spoke,
                     s.noDataTimer,
                     s.lastPtyError, s.pendingExit, s.disposed, s.reconnectTimer,
                       s.overtaken>>
      /\ ~s.ssh => s'.ptyOpening = s.ptyOpening
      /\ s'.ptyOpening => s.ptyOpening
  <2>1. CASE ~s.ssh
    <3>1. s' = s
      BY <1>a, <2>1 DEF openResolves, IndInv, EpochInv
    <3> QED BY <3>1 DEF IndInv, Types
  <2>2. CASE s.ssh
    <3> DEFINE t == [s EXCEPT !.attempts = 0, !.status = "connected"]
    <3>1. s' = t \/ s' = [t EXCEPT !.ptyOpening = FALSE]
      BY <2>2 DEF openResolves
    <3>2. 0 \in 0..MaxReconnects /\ s \in Session
      BY DEF IndInv, Types
    <3>3. CASE s' = t
      BY <2>2, <3>2, <3>3 DEF Session
    <3>4. CASE s' = [t EXCEPT !.ptyOpening = FALSE]
      BY <2>2, <3>2, <3>4 DEF Session
    <3> QED BY <3>1, <3>3, <3>4
  <2> QED BY <2>1, <2>2
<1>0. Types'
  BY <1>a, <1>b, <1>c DEF IndInv, Types, Session, Call, Idle
<1>1. EpochInv'
  BY <1>a, <1>b, <1>c DEF IndInv, Types, Session, Call, Idle, EpochInv, HandleInv, Running
<1>2. HandleInv'
  BY <1>a, <1>b, <1>c DEF IndInv, Types, Session, Call, Idle, HandleInv, EpochInv,
     OpeningInv
<1>3. OpeningInv'
  BY <1>a, <1>b, <1>c DEF IndInv, Types, Session, Call, Idle, OpeningInv, HandleInv,
     EpochInv
<1>4. SshInv'
  BY <1>a, <1>b, <1>c DEF IndInv, Types, Session, Call, Idle, SshInv, EpochInv, HandleInv,
     Running
<1>5. SpokeInv'
  BY <1>a, <1>b, <1>c DEF IndInv, Types, Session, Call, Idle, SpokeInv, HandleInv, EpochInv
<1>6. NoOrphanShell'
  BY <1>a, <1>b, <1>c DEF IndInv, Types, Session, Call, Idle, NoOrphanShell, EpochInv,
     HandleInv, Running
<1>7. NoDeadEnd'
  BY <1>a, <1>b, <1>c DEF IndInv, Types, Session, Call, Idle, NoDeadEnd, EpochInv,
     HandleInv, OpeningInv,
               AnswerInv, SshInv, Running
<1>8. SilentIsWatched'
  BY <1>a, <1>b, <1>c DEF IndInv, Types, Session, Call, Idle, SilentIsWatched, HandleInv,
     SpokeInv
<1>9. AnswerInv'
  BY <1>a, <1>b, <1>c DEF IndInv, Types, Session, Call, Idle, AnswerInv, EpochInv,
     HandleInv, OpeningInv,
               SshInv, Running
<1>10. LostInv'
  BY <1>a, <1>b, <1>c DEF IndInv, Types, Session, Call, Idle, LostInv, EpochInv,
     HandleInv, Running
<1> QED BY <1>0, <1>1, <1>2, <1>3, <1>4, <1>5, <1>6, <1>7, <1>8, <1>9, <1>10 DEF IndInv

LEMMA TakenKeeps ==
  ASSUME IndInv, NEW o \in Open, openResolves(o), ~openStrays(o) PROVE IndInv'
<1> USE ConstantsAssumption DEF paneVars, lostVars
<1>a. /\ call[o].at = "opened" /\ call' = [call EXCEPT ![o] = Idle]
      /\ UNCHANGED <<paneVars, shell, ending, closing, lostVars>>
  BY DEF openResolves
<1>b. ~s.disposed /\ ~call[o].late /\ s.ptySpawnEpoch = o /\ s.ptyOpening /\ s.pty = None
  <2>1. ~s.disposed /\ ~call[o].late
    BY DEF openStrays
  <2>2. s.ptySpawnEpoch = o
    BY <1>a DEF openStrays, IndInv, EpochInv
  <2> QED BY <1>a, <2>1, <2>2 DEF IndInv, OpeningInv, HandleInv
<1>c. /\ s' \in Session
      /\ UNCHANGED <<s.ssh, s.savedPtyId, s.ptySpawnEpoch, s.spoke, s.lastPtyError,
                     s.pendingExit, s.disposed,
                     s.reconnectTimer, s.overtaken>>
      /\ ~s'.ptyOpening /\ s'.pty = o /\ s'.spawned
      /\ s'.noDataTimer = IF s.ssh \/ s.spoke THEN s.noDataTimer ELSE o
  <2> DEFINE t == IF s.ssh THEN [s EXCEPT !.attempts = 0, !.status = "connected"] ELSE s
             u == [t EXCEPT !.ptyOpening = FALSE, !.pty = o, !.spawned = TRUE]
  <2>1. s' = armNoDataWatchdog(u)
    BY DEF openResolves
  <2>2. /\ t \in Session
        /\ t.ssh = s.ssh /\ t.ptySpawnEpoch = s.ptySpawnEpoch /\ t.spoke = s.spoke
        /\ t.savedPtyId = s.savedPtyId /\ t.lastPtyError = s.lastPtyError
           /\ t.pendingExit = s.pendingExit
        /\ t.disposed = s.disposed /\ t.reconnectTimer = s.reconnectTimer
        /\ t.overtaken = s.overtaken /\ t.noDataTimer = s.noDataTimer
    <3>1. 0 \in 0..MaxReconnects /\ s \in Session
      BY DEF IndInv, Types
    <3>2. CASE s.ssh
      BY <3>1, <3>2 DEF Session
    <3> QED BY <3>1, <3>2
  <2> HIDE DEF t
  <2>3. /\ u \in Session
        /\ u.ssh = t.ssh /\ u.ptySpawnEpoch = t.ptySpawnEpoch /\ u.spoke = t.spoke
        /\ u.savedPtyId = t.savedPtyId /\ u.lastPtyError = t.lastPtyError
           /\ u.pendingExit = t.pendingExit
        /\ u.disposed = t.disposed /\ u.reconnectTimer = t.reconnectTimer
        /\ u.overtaken = t.overtaken /\ u.noDataTimer = t.noDataTimer
        /\ ~u.ptyOpening /\ u.pty = o /\ u.spawned
    BY <2>2 DEF Session
  <2> HIDE DEF u
  <2>4. CASE u.ssh \/ u.spoke
    <3>1. s' = u
      BY <2>1, <2>4 DEF armNoDataWatchdog
    <3> QED BY <2>2, <2>3, <2>4, <3>1
  <2>5. CASE ~(u.ssh \/ u.spoke)
    <3>1. s' = [u EXCEPT !.noDataTimer = o]
      BY <1>b, <2>1, <2>2, <2>3, <2>5 DEF armNoDataWatchdog
    <3>2. /\ s' \in Session
          /\ s'.ssh = u.ssh /\ s'.ptySpawnEpoch = u.ptySpawnEpoch /\ s'.spoke = u.spoke
          /\ s'.savedPtyId = u.savedPtyId /\ s'.lastPtyError = u.lastPtyError
             /\ s'.pendingExit = u.pendingExit
          /\ s'.disposed = u.disposed /\ s'.reconnectTimer = u.reconnectTimer
          /\ s'.overtaken = u.overtaken /\ s'.noDataTimer = o
          /\ s'.ptyOpening = u.ptyOpening /\ s'.pty = o /\ s'.spawned = u.spawned
      BY <2>3, <3>1 DEF Session
    <3> QED BY <2>2, <2>3, <2>5, <3>2
  <2> QED BY <2>4, <2>5
<1>0. Types'
  BY <1>a, <1>b, <1>c DEF IndInv, Types, Session, Call, Idle
<1>1. EpochInv'
  BY <1>a, <1>b, <1>c DEF IndInv, Types, Session, Call, Idle, EpochInv, HandleInv, Running
<1>2. HandleInv'
  BY <1>a, <1>b, <1>c DEF IndInv, Types, Session, Call, Idle, HandleInv, EpochInv,
     OpeningInv
<1>3. OpeningInv'
  BY <1>a, <1>b, <1>c DEF IndInv, Types, Session, Call, Idle, OpeningInv, HandleInv,
     EpochInv
<1>4. SshInv'
  BY <1>a, <1>b, <1>c DEF IndInv, Types, Session, Call, Idle, SshInv, EpochInv, HandleInv,
     Running
<1>5. SpokeInv'
  BY <1>a, <1>b, <1>c DEF IndInv, Types, Session, Call, Idle, SpokeInv, HandleInv, EpochInv
<1>6. NoOrphanShell'
  BY <1>a, <1>b, <1>c DEF IndInv, Types, Session, Call, Idle, NoOrphanShell, EpochInv,
     HandleInv, Running
<1>7. NoDeadEnd'
  BY <1>a, <1>b, <1>c DEF IndInv, Types, Session, Call, Idle, NoDeadEnd, EpochInv,
     HandleInv, OpeningInv,
               AnswerInv, SshInv, Running
<1>8. SilentIsWatched'
  BY <1>a, <1>b, <1>c DEF IndInv, Types, Session, Call, Idle, SilentIsWatched, HandleInv,
     SpokeInv
<1>9. AnswerInv'
  BY <1>a, <1>b, <1>c DEF IndInv, Types, Session, Call, Idle, AnswerInv, EpochInv,
     HandleInv, OpeningInv,
               SshInv, Running
<1>10. LostInv'
  BY <1>a, <1>b, <1>c DEF IndInv, Types, Session, Call, Idle, LostInv, EpochInv,
     HandleInv, Running
<1> QED BY <1>0, <1>1, <1>2, <1>3, <1>4, <1>5, <1>6, <1>7, <1>8, <1>9, <1>10 DEF IndInv

-----------------------------------------------------------------------------
(* The handlers that open.                                                 *)
LEMMA RetryKeeps ==
  ASSUME IndInv, ~s.disposed, s.pty = None, ~s.ptyOpening, retryPty,
         mounted' \in BOOLEAN, stuckTimer' \in BOOLEAN, UNCHANGED <<leaving, shell, ending,
                                                                    closing, lostVars>>
  PROVE  IndInv'
<1> PICK o \in Open : /\ FreshOpen(o) /\ call[o].at = "done"
                      /\ s' = opened(s, o) /\ call' = called(s, call, o, "retry")
  BY DEF retryPty, openPtyForSession
<1>1. Reopening(s, call, o, "retry")
  BY DEF Reopening, FreshOpen, lostVars, IndInv, Types, HandleInv, SshInv
<1> QED BY <1>1, ReopeningKeeps

(* runSshReconnect with the timer cleared, the count of attempts perhaps.  *)
LEMMA ReconnectKeeps ==
  ASSUME IndInv, s.ssh, NEW t,
         \/ t = [s EXCEPT !.reconnectTimer = FALSE]
         \/ t = [s EXCEPT !.reconnectTimer = FALSE, !.attempts = 0],
         runSshReconnect(t),
         mounted' \in BOOLEAN, stuckTimer' \in BOOLEAN, UNCHANGED <<leaving, shell, ending,
                                                                    closing, lostVars>>
  PROVE  IndInv'
<1> USE ConstantsAssumption DEF lostVars
<1>t. /\ t \in Session /\ ~t.reconnectTimer
      /\ t.ssh = s.ssh /\ t.pty = s.pty /\ t.ptyOpening = s.ptyOpening
      /\ t.savedPtyId = s.savedPtyId /\ t.ptySpawnEpoch = s.ptySpawnEpoch
         /\ t.spawned = s.spawned /\ t.spoke = s.spoke
      /\ t.noDataTimer = s.noDataTimer /\ t.lastPtyError = s.lastPtyError
      /\ t.pendingExit = s.pendingExit /\ t.disposed = s.disposed
         /\ t.overtaken = s.overtaken
  <2>1. 0 \in 0..MaxReconnects /\ s \in Session
    BY DEF IndInv, Types
  <2>2. CASE t = [s EXCEPT !.reconnectTimer = FALSE]
    BY <2>1, <2>2 DEF Session
  <2>3. CASE t = [s EXCEPT !.reconnectTimer = FALSE, !.attempts = 0]
    BY <2>1, <2>3 DEF Session
  <2> QED BY <2>2, <2>3
<1>o. CASE s.disposed \/ s.pty # None \/ s.ptyOpening
  <2>a. s' = t /\ call' = call
    BY <1>t, <1>o DEF runSshReconnect
  <2>0. Types'
    BY <1>t, <1>o, <2>a DEF IndInv, Types
  <2>1. EpochInv'
    BY <1>t, <1>o, <2>a DEF IndInv, Types, EpochInv, HandleInv, Running
  <2>2. HandleInv'
    BY <1>t, <1>o, <2>a DEF IndInv, Types, HandleInv, EpochInv, OpeningInv
  <2>3. OpeningInv'
    BY <1>t, <1>o, <2>a DEF IndInv, Types, OpeningInv, HandleInv, EpochInv
  <2>4. SshInv'
    BY <1>t, <1>o, <2>a DEF IndInv, Types, SshInv, EpochInv, HandleInv, Running
  <2>5. SpokeInv'
    BY <1>t, <1>o, <2>a DEF IndInv, Types, SpokeInv, HandleInv, EpochInv
  <2>6. NoOrphanShell'
    BY <1>t, <1>o, <2>a DEF IndInv, Types, NoOrphanShell, EpochInv, HandleInv, Running
  <2>7. NoDeadEnd'
    BY <1>t, <1>o, <2>a DEF IndInv, Types, NoDeadEnd, EpochInv, HandleInv, OpeningInv,
                 AnswerInv, SshInv, Running
  <2>8. SilentIsWatched'
    BY <1>t, <1>o, <2>a DEF IndInv, Types, SilentIsWatched, HandleInv, SpokeInv
  <2>9. AnswerInv'
    BY <1>t, <1>o, <2>a DEF IndInv, Types, AnswerInv, EpochInv, HandleInv, OpeningInv,
                 SshInv, Running
  <2>10. LostInv'
    BY <1>t, <1>o, <2>a DEF IndInv, Types, LostInv, EpochInv, HandleInv, Running
  <2> QED BY <2>0, <2>1, <2>2, <2>3, <2>4, <2>5, <2>6, <2>7, <2>8, <2>9, <2>10 DEF IndInv
<1>n. CASE ~(s.disposed \/ s.pty # None \/ s.ptyOpening)
  <2> PICK o \in Open : /\ FreshOpen(o) /\ call[o].at = "done"
                        /\ s' = opened(t, o) /\ call' = called(t, call, o, "reconnect")
    BY <1>t, <1>n DEF runSshReconnect, openPtyForSession
  <2>1. Reopening(t, call, o, "reconnect")
    BY <1>t, <1>n DEF Reopening, IndInv, Types, HandleInv, SshInv
  <2> QED BY <2>1, ReopeningKeeps
<1> QED BY <1>o, <1>n

LEMMA EnterKeeps == ASSUME IndInv, enterToRetry PROVE IndInv'
<1>1. /\ ~s.disposed /\ s.pty = None /\ ~s.ptyOpening
      /\ UNCHANGED <<leaving, shell, ending, closing, lostVars>>
      /\ mounted' \in BOOLEAN /\ stuckTimer' \in BOOLEAN
  BY DEF enterToRetry, paneVars, lostVars, IndInv, Types
<1>2. CASE retryPty
  BY <1>1, <1>2, RetryKeeps
<1>3. CASE s.ssh /\ retrySsh
  BY <1>1, <1>3, ReconnectKeeps DEF retrySsh
<1> QED BY <1>2, <1>3 DEF enterToRetry

LEMMA StuckKeeps == ASSUME IndInv, stuckFires PROVE IndInv'
<1>1. /\ UNCHANGED <<leaving, shell, ending, closing, lostVars>>
      /\ mounted' \in BOOLEAN /\ stuckTimer' \in BOOLEAN
  BY DEF stuckFires, IndInv, Types
<1>2. CASE UNCHANGED <<s, call>>
  BY <1>1, <1>2 DEF lostVars, IndInv, Types, EpochInv, HandleInv, OpeningInv, AnswerInv,
     SshInv, SpokeInv, NoOrphanShell, LostInv, NoDeadEnd, SilentIsWatched, Running
<1>3. CASE ~s.disposed /\ s.pty = None /\ ~s.ptyOpening /\ retryPty
  BY <1>1, <1>3, RetryKeeps
<1>4. CASE s.ssh /\ retrySsh
  BY <1>1, <1>4, ReconnectKeeps DEF retrySsh
<1> QED BY <1>2, <1>3, <1>4 DEF stuckFires

LEMMA ReconnectFiresKeeps == ASSUME IndInv, reconnectFires PROVE IndInv'
<1>1. /\ s.ssh /\ UNCHANGED <<leaving, shell, ending, closing, lostVars>>
      /\ mounted' \in BOOLEAN /\ stuckTimer' \in BOOLEAN
  BY DEF reconnectFires, paneVars, lostVars, IndInv, Types, SshInv
<1> QED BY <1>1, ReconnectKeeps DEF reconnectFires

(* The layout hears of the exit of a local shell, and asks for a fresh one *)
(* or has the pane closed.                                                 *)
LEMMA RespawnKeeps ==
  ASSUME IndInv, ~s.disposed, ~s.ssh,
         NEW t \in Session, t.ssh = s.ssh, t.pty = s.pty, ~t.disposed,
         t.noDataTimer = s.noDataTimer, t.reconnectTimer = s.reconnectTimer,
         NEW c \in [Open -> Call],
         \A p \in Open : \/ c[p] = call[p]
                         \/ /\ FreshOpen(p) /\ ~s.ssh
                            /\ c[p].by = "attach" /\ c[p].at \in {"reattach", "open"},
         \A p \in Open : call[p].at = "reattach" => c[p].at = "reattach",
         s.savedPtyId => t.savedPtyId \/ \E p \in Open : c[p].at = "reattach",
         respawnSession(t, c),
         UNCHANGED <<mounted, stuckTimer, leaving, shell, lostVars>>,
           ending' \subseteq ending
  PROVE  IndInv'
<1> DEFINE u == [t EXCEPT !.pty = None, !.spawned = FALSE, !.pendingExit = FALSE]
<1>1. /\ u \in Session /\ u.pty = None /\ ~u.spawned /\ u.disposed = t.disposed
      /\ u.ssh = t.ssh /\ u.noDataTimer = t.noDataTimer
         /\ u.reconnectTimer = t.reconnectTimer
      /\ u.savedPtyId = t.savedPtyId
  BY DEF Session
<1> PICK o \in Open : /\ FreshOpen(o) /\ c[o].at = "done"
                      /\ s' = opened(u, o) /\ call' = called(u, c, o, "respawn")
  BY DEF respawnSession, openPtyForSession
<1> HIDE DEF u
<1>2. closing' = IF s.pty = None THEN closing ELSE closing \cup {s.pty}
  BY DEF respawnSession, close
<1>3. Reopening(u, c, o, "respawn")
  BY <1>1, <1>2 DEF Reopening, lostVars, IndInv, Types, SshInv
<1> QED BY <1>3, ReopeningKeeps

LEMMA AttachKeeps == ASSUME IndInv, attachSession PROVE IndInv'
<1> USE ConstantsAssumption DEF lostVars
<1> DEFINE t == [s EXCEPT !.callbacks = TRUE, !.pendingExit = FALSE]
<1>a. /\ ~s.disposed /\ s \in Session /\ call \in [Open -> Call]
      /\ UNCHANGED <<mounted, stuckTimer, shell, ending, lostVars>>
      /\ mounted' \in BOOLEAN /\ stuckTimer' \in BOOLEAN
  BY DEF attachSession, IndInv, Types
<1>t. /\ t \in Session /\ ~t.pendingExit
      /\ t.ssh = s.ssh /\ t.pty = s.pty /\ t.ptyOpening = s.ptyOpening
      /\ t.savedPtyId = s.savedPtyId /\ t.ptySpawnEpoch = s.ptySpawnEpoch
         /\ t.spawned = s.spawned /\ t.spoke = s.spoke
      /\ t.noDataTimer = s.noDataTimer /\ t.lastPtyError = s.lastPtyError
      /\ t.disposed = s.disposed /\ t.overtaken = s.overtaken
      /\ t.reconnectTimer = s.reconnectTimer /\ t.status = s.status
  BY <1>a DEF Session
<1>c. \/ /\ ~s.pendingExit /\ s.pty = None /\ ~s.ptyOpening
         /\ openPtyForSession(t, call, "attach") /\ UNCHANGED <<closing, leaving>>
      \/ ~s.pendingExit /\ s' = t /\ UNCHANGED <<call, closing, leaving>>
      \/ /\ s.pty = None /\ ~s.ptyOpening
         /\ \E o \in Open : /\ FreshOpen(o) /\ call[o].at = "done"
                            /\ handleLeafExit(opened(t, o), called(t, call, o, "attach"))
      \/ handleLeafExit(t, call)
  BY DEF attachSession
<1> HIDE DEF t
<1>1. CASE /\ ~s.pendingExit /\ s.pty = None /\ ~s.ptyOpening
           /\ openPtyForSession(t, call, "attach") /\ UNCHANGED <<closing, leaving>>
  <2> PICK o \in Open : /\ FreshOpen(o) /\ call[o].at = "done"
                        /\ s' = opened(t, o) /\ call' = called(t, call, o, "attach")
    BY <1>1 DEF openPtyForSession
  <2>1. Reopening(t, call, o, "attach")
    BY <1>a, <1>t, <1>1 DEF Reopening, IndInv, Types, HandleInv, SshInv
  <2> QED BY <2>1, ReopeningKeeps
<1>2. CASE ~s.pendingExit /\ s' = t /\ UNCHANGED <<call, closing, leaving>>
  BY <1>a, <1>t, <1>2 DEF IndInv, Types, EpochInv, HandleInv, OpeningInv, AnswerInv,
     SshInv, SpokeInv,
       NoOrphanShell, LostInv, NoDeadEnd, SilentIsWatched, Running
<1>3. ASSUME s.pty = None, ~s.ptyOpening, NEW o \in Open, FreshOpen(o), call[o].at = "done",
             handleLeafExit(opened(t, o), called(t, call, o, "attach"))
      PROVE  IndInv'
  <2> DEFINE u == opened(t, o)
             c == called(t, call, o, "attach")
  <2>1. CASE leaving' = TRUE /\ s' = u /\ call' = c /\ UNCHANGED closing
    <3>1. Reopening(t, call, o, "attach")
      BY <1>a, <1>t, <1>3, <2>1 DEF Reopening, IndInv, Types, HandleInv, SshInv
    <3> QED BY <3>1, ReopeningKeeps
  <2>2. CASE ~u.ssh /\ respawnSession(u, c) /\ UNCHANGED leaving
    <3>1. /\ u \in Session /\ u.ssh = t.ssh /\ u.pty = t.pty /\ u.disposed = t.disposed
          /\ u.noDataTimer = t.noDataTimer /\ u.reconnectTimer = t.reconnectTimer
      BY <1>t DEF opened, Session
    <3>2. /\ c \in [Open -> Call]
          /\ c[o].by = "attach" /\ (~t.ssh => c[o].at \in {"reattach", "open"})
          /\ ~t.ssh /\ t.savedPtyId => c[o].at = "reattach"
          /\ \A p \in Open \ {o} : c[p] = call[p]
      BY <1>a, <1>t DEF called, Call
    <3> HIDE DEF u, c
    <3>3. /\ \A p \in Open : call[p].at = "reattach" => c[p].at = "reattach"
          /\ ~s.ssh
          /\ s.savedPtyId => \E p \in Open : c[p].at = "reattach"
      BY <1>t, <1>3, <2>2, <3>1, <3>2
    <3> QED BY <1>a, <1>t, <1>3, <2>2, <3>1, <3>2, <3>3, RespawnKeeps
  <2> QED BY <1>3, <2>1, <2>2 DEF handleLeafExit
<1>4. CASE handleLeafExit(t, call)
  <2>1. CASE leaving' = TRUE /\ s' = t /\ call' = call /\ UNCHANGED closing
    BY <1>a, <1>t, <2>1 DEF IndInv, Types, EpochInv, HandleInv, OpeningInv, AnswerInv,
       SshInv, SpokeInv,
         NoOrphanShell, LostInv, NoDeadEnd, SilentIsWatched, Running
  <2>2. CASE ~t.ssh /\ respawnSession(t, call) /\ UNCHANGED leaving
    BY <1>a, <1>t, <2>2, RespawnKeeps
  <2> QED BY <1>4, <2>1, <2>2 DEF handleLeafExit
<1> QED BY <1>c, <1>1, <1>2, <1>3, <1>4

-----------------------------------------------------------------------------
(* The exit event: of a local shell and of an SSH session.                 *)
LEMMA LocalEndsKeeps ==
  ASSUME IndInv, NEW o \in Open, endingHeard(o), localEnds(o) PROVE IndInv'
<1> USE ConstantsAssumption DEF lostVars
<1>a. /\ o \in ending /\ ending' = ending \ {o} /\ ~s.ssh
      /\ UNCHANGED <<mounted, stuckTimer, shell, lostVars>>
  BY DEF endingHeard, localEnds
<1>1. CASE s.ptySpawnEpoch # o \/ s.disposed
  <2>1. UNCHANGED <<s, call, closing, leaving>>
    BY <1>1 DEF localEnds
  <2> QED
    BY <1>a, <1>1, <2>1 DEF IndInv, Types, EpochInv, HandleInv, OpeningInv, AnswerInv,
       SshInv, SpokeInv,
       NoOrphanShell, LostInv, NoDeadEnd, SilentIsWatched, Running
<1>2. CASE s.ptySpawnEpoch = o /\ ~s.disposed
  <2>1. CASE /\ s.spawned
             /\ s' = [s EXCEPT !.pty = None, !.spawned = FALSE, !.lastPtyError = TRUE]
             /\ UNCHANGED <<call, closing, leaving>>
    <3>1. /\ s' \in Session /\ s'.pty = None /\ ~s'.spawned /\ s'.lastPtyError
          /\ UNCHANGED <<s.ssh, s.savedPtyId, s.ptyOpening, s.ptySpawnEpoch, s.spoke,
                         s.noDataTimer,
                         s.pendingExit, s.disposed, s.reconnectTimer, s.overtaken>>
      BY <2>1 DEF IndInv, Types, Session
    <3>2. s.pty = o /\ ~s.ptyOpening /\ call[o].at = "done" /\ ~Running(o)
      BY <1>a, <1>2, <2>1 DEF IndInv, HandleInv, EpochInv
    <3> QED
      BY <1>a, <1>2, <2>1, <3>1, <3>2 DEF IndInv, Types, EpochInv, HandleInv, OpeningInv,
         AnswerInv, SshInv, SpokeInv,
       NoOrphanShell, LostInv, NoDeadEnd, SilentIsWatched, Running
  <2>2. CASE leaving' = TRUE /\ UNCHANGED <<s, call, closing>>
    BY <1>a, <1>2, <2>2 DEF IndInv, Types, EpochInv, HandleInv, OpeningInv, AnswerInv,
       SshInv, SpokeInv,
       NoOrphanShell, LostInv, NoDeadEnd, SilentIsWatched, Running
  <2>3. CASE respawnSession(s, call) /\ UNCHANGED leaving
    BY <1>a, <1>2, <2>3, RespawnKeeps DEF IndInv, Types
  <2>4. CASE s' = [s EXCEPT !.pendingExit = TRUE] /\ UNCHANGED <<call, closing, leaving>>
    <3>1. /\ s' \in Session /\ s'.pendingExit
          /\ UNCHANGED <<s.ssh, s.savedPtyId, s.pty, s.ptyOpening, s.ptySpawnEpoch,
                         s.spawned, s.spoke, s.noDataTimer,
                         s.lastPtyError, s.disposed, s.reconnectTimer, s.overtaken>>
      BY <2>4 DEF IndInv, Types, Session
    <3> QED
      BY <1>a, <1>2, <2>4, <3>1 DEF IndInv, Types, EpochInv, HandleInv, OpeningInv,
         AnswerInv, SshInv, SpokeInv,
       NoOrphanShell, LostInv, NoDeadEnd, SilentIsWatched, Running
  <2> QED BY <1>2, <2>1, <2>2, <2>3, <2>4 DEF localEnds, onExit, handleLeafExit
<1> QED BY <1>1, <1>2

(* Every ending of an SSH session leaves the pane without a handle and on  *)
(* its way out, waiting for the layout, or with a retry ahead.             *)
LEMMA FinishSshKeeps ==
  ASSUME IndInv, NEW o \in Open, endingHeard(o), finishSsh(o) PROVE IndInv'
<1> USE ConstantsAssumption DEF lostVars
<1>a. /\ o \in ending /\ ending' = ending \ {o} /\ s.ssh
      /\ UNCHANGED <<mounted, stuckTimer, shell, lostVars>>
  BY DEF endingHeard, finishSsh
<1>d. CASE s.disposed
  <2>1. UNCHANGED <<s, call, closing, leaving>>
    BY <1>d DEF finishSsh
  <2> QED
    BY <1>a, <1>d, <2>1 DEF IndInv, Types, EpochInv, HandleInv, OpeningInv, AnswerInv,
       SshInv, SpokeInv,
       NoOrphanShell, LostInv, NoDeadEnd, SilentIsWatched, Running
<1>l. CASE ~s.disposed
  <2> DEFINE t == [s EXCEPT !.pty = None, !.spawned = FALSE,
    !.overtaken = call[o].at = "opened"]
  <2>t. /\ t \in Session /\ t.pty = None /\ ~t.spawned
    /\ t.overtaken = (call[o].at = "opened")
        /\ t.ssh = s.ssh /\ t.ptyOpening = s.ptyOpening /\ t.ptySpawnEpoch = s.ptySpawnEpoch
        /\ t.spoke = s.spoke /\ t.noDataTimer = s.noDataTimer
           /\ t.lastPtyError = s.lastPtyError
        /\ t.disposed = s.disposed /\ t.attempts = s.attempts /\ t.savedPtyId = s.savedPtyId
    BY DEF IndInv, Types, Session
  <2>u. \/ onExit(t)
        \/ /\ s' = [t EXCEPT !.attempts = 0, !.status = "disconnected"]
           /\ UNCHANGED <<call, closing, leaving>>
        \/ /\ s' = scheduleSshReconnect(t)
           /\ UNCHANGED <<call, closing, leaving>>
    BY <1>l DEF finishSsh
  <2> HIDE DEF t
  <2>b. /\ s' \in Session /\ UNCHANGED <<call, closing>> /\ leaving' \in BOOLEAN
        /\ s'.pty = None /\ ~s'.spawned /\ s'.overtaken = t.overtaken
        /\ s'.ssh = s.ssh /\ s'.ptyOpening = s.ptyOpening
           /\ s'.ptySpawnEpoch = s.ptySpawnEpoch
        /\ s'.spoke = s.spoke /\ s'.noDataTimer = s.noDataTimer
        /\ s'.lastPtyError = s.lastPtyError /\ s'.disposed = s.disposed
        /\ s'.savedPtyId = s.savedPtyId
        /\ leaving' \/ s'.pendingExit \/ s'.reconnectTimer \/ canRetrySsh(s'.status)
    <3>0. 0 \in 0..MaxReconnects /\ leaving \in BOOLEAN
      BY DEF IndInv, Types
    <3>1. CASE leaving' = TRUE /\ s' = t /\ UNCHANGED <<call, closing>>
      BY <2>t, <3>1
    <3>2. CASE s' = [t EXCEPT !.pendingExit = TRUE] /\ UNCHANGED <<call, closing, leaving>>
      BY <2>t, <3>0, <3>2 DEF Session
    <3>3. CASE \/ s' = [t EXCEPT !.attempts = 0, !.status = "disconnected"]
                  /\ UNCHANGED <<call, closing, leaving>>
      BY <2>t, <3>0, <3>3 DEF Session, canRetrySsh
    <3>4. CASE s' = scheduleSshReconnect(t) /\ UNCHANGED <<call, closing, leaving>>
      <4>1. CASE t.attempts = MaxReconnects
        <5>1. s' = [t EXCEPT !.reconnectTimer = FALSE, !.attempts = 0,
          !.status = "disconnected"]
          BY <1>l, <2>t, <3>4, <4>1 DEF scheduleSshReconnect
        <5> QED BY <2>t, <3>0, <3>4, <5>1 DEF Session, canRetrySsh
      <4>2. CASE t.attempts # MaxReconnects
        <5>1. s' = [t EXCEPT !.reconnectTimer = TRUE, !.attempts = @ + 1,
          !.status = "reconnecting"]
          BY <1>l, <2>t, <3>4, <4>2 DEF scheduleSshReconnect
        <5>2. t.attempts + 1 \in 0..MaxReconnects
          BY <2>t, <4>2 DEF Session
        <5> QED BY <2>t, <3>0, <3>4, <5>1, <5>2 DEF Session
      <4> QED BY <4>1, <4>2
    <3> QED BY <1>a, <2>t, <2>u, <3>1, <3>2, <3>3, <3>4 DEF onExit, handleLeafExit
  <2>0. Types'
    BY <1>a, <1>l, <2>t, <2>b DEF IndInv, Types
  <2>1. EpochInv'
    BY <1>a, <1>l, <2>t, <2>b DEF IndInv, Types, EpochInv, HandleInv, Running
  <2>2. HandleInv'
    BY <1>a, <1>l, <2>t, <2>b DEF IndInv, Types, HandleInv, EpochInv, OpeningInv
  <2>3. OpeningInv'
    BY <1>a, <1>l, <2>t, <2>b DEF IndInv, Types, OpeningInv, HandleInv, EpochInv
  <2>4. SshInv'
    BY <1>a, <1>l, <2>t, <2>b DEF IndInv, Types, SshInv, EpochInv, HandleInv, Running
  <2>5. SpokeInv'
    BY <1>a, <1>l, <2>t, <2>b DEF IndInv, Types, SpokeInv, HandleInv, EpochInv
  <2>6. NoOrphanShell'
    BY <1>a, <1>l, <2>t, <2>b DEF IndInv, Types, NoOrphanShell, EpochInv, HandleInv,
       SshInv, Running
  <2>7. NoDeadEnd'
    BY <1>a, <1>l, <2>t, <2>b DEF IndInv, Types, NoDeadEnd, EpochInv, HandleInv,
       OpeningInv, AnswerInv, SshInv,
                 Running
  <2>8. SilentIsWatched'
    BY <1>a, <1>l, <2>t, <2>b DEF IndInv, Types, SilentIsWatched, HandleInv, SpokeInv
  <2>9. AnswerInv'
    BY <1>a, <1>l, <2>t, <2>b DEF IndInv, Types, AnswerInv, EpochInv, HandleInv,
       OpeningInv, SshInv, Running
  <2>10. LostInv'
    BY <1>a, <1>l, <2>t, <2>b DEF IndInv, Types, LostInv, EpochInv, HandleInv,
       SshInv, Running
  <2> QED BY <2>0, <2>1, <2>2, <2>3, <2>4, <2>5, <2>6, <2>7, <2>8, <2>9, <2>10 DEF IndInv
<1> QED BY <1>d, <1>l

-----------------------------------------------------------------------------
(* IndInv holds in every reachable state.                                  *)
THEOREM TerminalInvariance == Spec => []IndInv
<1>1. ASSUME IndInv, [Next]_vars PROVE IndInv'
  <2>1. CASE UNCHANGED vars
    <3>1. UNCHANGED <<s, mounted, stuckTimer, leaving, call, shell, ending, closing,
                      savedShell, abandoned>>
      BY <2>1 DEF vars, paneVars, lostVars
    <3> QED
      BY <1>1, <3>1 DEF IndInv, Types, EpochInv, HandleInv, OpeningInv, AnswerInv, SshInv,
                        SpokeInv, NoOrphanShell, LostInv, NoDeadEnd, SilentIsWatched,
                          Running
  <2>2. ASSUME NEW o \in Open,
               \/ OpenStep(o) \/ spawnTimeout(o)
               \/ firstByte(o) \/ shellEnds(o) \/ endingHeard(o)
               \/ backendCloses(o) \/ closeLost(o) \/ abandonedEnds(o)
        PROVE  IndInv'
    <3>1. CASE OpenStep(o)
      BY <1>1, <3>1, HostFoundKeeps, HostMissingKeeps, ReattachAliveKeeps,
         ReattachDeadKeeps, ReattachFailsKeeps, OpenUnansweredKeeps,
         BackendOpensKeeps, OpenFailsKeeps, StrayKeeps, TakenKeeps DEF OpenStep
    <3>2. CASE endingHeard(o)
      BY <1>1, <3>2, LocalEndsKeeps, FinishSshKeeps DEF endingHeard
    <3> QED BY <1>1, <2>2, <3>1, <3>2, TimeoutKeeps, FirstByteKeeps, ShellEndsKeeps,
               BackendClosesKeeps, CloseLostKeeps, AbandonedEndsKeeps
  <2> QED
    BY <1>1, <2>1, <2>2, MountKeeps, AttachKeeps, DetachKeeps, DisposeKeeps, EnterKeeps,
       StuckKeeps, ReconnectFiresKeeps, WatchdogKeeps, SavedEndsKeeps DEF Next
<1> QED BY <1>1, InitIndInv, PTL DEF Spec

(* The pane's state keeps its kinds, and its handle is never of another    *)
(* epoch than the current one.                                             *)
THEOREM TerminalTypes == Spec => []TypeOK
<1>1. IndInv => TypeOK
  BY DEF IndInv, Types, Session, Call, HandleInv, TypeOK
<1> QED BY <1>1, TerminalInvariance, PTL

(* Whatever the order of answers, timeouts, exits and closes, and whichever *)
(* calls fail unanswered, a shell that runs is the pane's own, is about to *)
(* be taken or closed, or is one no answer ever named.                     *)
THEOREM TerminalNoOrphan == Spec => []NoOrphanShell
<1>1. IndInv => NoOrphanShell
  BY DEF IndInv
<1> QED BY <1>1, TerminalInvariance, PTL

(* No pane is stuck, for any length of the reconnect ladder.               *)
THEOREM TerminalNoDeadEnd == Spec => []NoDeadEnd
<1>1. IndInv => NoDeadEnd
  BY DEF IndInv
<1> QED BY <1>1, TerminalInvariance, PTL

(* A local shell that has printed nothing is watched.                      *)
THEOREM TerminalWatched == Spec => []SilentIsWatched
<1>1. IndInv => SilentIsWatched
  BY DEF IndInv
<1> QED BY <1>1, TerminalInvariance, PTL
=============================================================================
