---------------------------- MODULE SyncProofs ----------------------------
(***************************************************************************)
(* Sync is proved here for every set of devices, each putting with or      *)
(* without If-Match, and every number of edits and faults: the variables   *)
(* keep their types, no etag recorded by a device that puts without        *)
(* If-Match hides a newer remote copy from its next pull, an edit the next *)
(* pull cannot see is marked, but for what a failed pull stranded, and the *)
(* newest edit is held by some store.  The last part is about SyncRounds:  *)
(* its merge is sound whatever it merges.                                  *)
(***************************************************************************)
EXTENDS Sync, SyncRounds, SequenceTheorems, TLAPS

(* No copy anywhere carries a stamp from the future: an edit is newer than *)
(* everything a pass in flight or another device holds.                    *)
StampsPast ==
  /\ remote.at =< clock
  /\ \A d \in Device :
       /\ store[d].at =< clock
       /\ pass[d].local.at =< clock
       /\ pass[d].landing.at =< clock
       /\ pass[d].owed.at =< clock

(* What the pass of d owes NoLandingSkipped at each of its awaits.         *)
ListedInv(d) ==
  pc[d] = "listed" =>
    /\ pass[d].known = etag[d]
    /\ pass[d].landing = Nothing /\ pass[d].owed = Nothing
    /\ ~Above(pass[d].local, store[d])

ApplyInv(d) ==
  pc[d] = "apply" =>
    /\ pass[d].answer = "current" \/ etag[d] = "current" =>
         ~Above(remote, IF pass[d].landing = Nothing THEN store[d] ELSE pass[d].landing)
    /\ pass[d].owed # Nothing =>
         pass[d].landing = Nothing /\ ~Above(pass[d].owed, store[d])

EtagsInv(d) ==
  pc[d] = "etags" =>
    /\ pass[d].answer = "current" => ~Above(remote, store[d])
    /\ pass[d].owed # Nothing => ~Above(pass[d].owed, store[d])

PutInv(d) == pc[d] = "put" => ~Above(pass[d].owed, store[d])

RecordInv(d) ==
  pc[d] = "record" => (pass[d].answer = "current" => ~Above(remote, store[d]))

(* Without If-Match no put is refused, so retry_merged does not run.       *)
NoRetry(d) == pc[d] \notin {"retry", "retryPut"}

RecordedInv(d) == etag[d] = "current" => ~Above(remote, store[d])

PassInv(d) ==
  Cas[d] = FALSE =>
  /\ ListedInv(d) /\ ApplyInv(d) /\ EtagsInv(d) /\ PutInv(d) /\ RecordInv(d)
  /\ NoRetry(d) /\ RecordedInv(d)

IndInv == TypeOK /\ StampsPast /\ \A d \in Device : PassInv(d)

(* As long as no app has ended, sync has stayed on and no failed pull has  *)
(* stranded what it owed: the store holds nothing above c unmarked.        *)
Steady == interrupted = FALSE /\ stranded = FALSE
Covered(d, c) == dirty[d] = FALSE => ~Above(store[d], c)

(* The app runs, with its set folded in and sync on.                       *)
RunningInv(d) ==
  up[d] = TRUE /\ enabled[d] = TRUE /\ loaded[d] = TRUE /\ (disk[d] = TRUE => dirty[d] = TRUE)

Placing == {"open", "put", "retry", "retryPut", "record"}

(* What the pass of d owes OwedIsMarked at each of its awaits.             *)
SkipInv(d) == etag[d] = "current" /\ pc[d] \notin Placing => Covered(d, remote)

ListedMark(d) ==
  pc[d] = "listed" =>
    /\ pass[d].known = etag[d] /\ pass[d].landing = Nothing /\ pass[d].owed = Nothing
    /\ Covered(d, pass[d].local)

ApplyMark(d) ==
  pc[d] = "apply" =>
    /\ pass[d].landing # Nothing =>
         /\ Covered(d, pass[d].landing) /\ pass[d].owed = Nothing
         /\ pass[d].answer = "current" \/ etag[d] = "current" => pass[d].landing = remote
    /\ pass[d].owed # Nothing => Covered(d, pass[d].owed)
    /\ pass[d].answer = "current" /\ pass[d].owed = Nothing => Covered(d, remote)

EtagsMark(d) ==
  pc[d] = "etags" =>
    /\ pass[d].owed # Nothing => Covered(d, pass[d].owed)
    /\ pass[d].answer = "current" /\ pass[d].owed = Nothing => Covered(d, remote)

PutMark(d) == pc[d] \in {"put", "retry", "retryPut", "record"} => Covered(d, pass[d].owed)

RecordMark(d) == pc[d] = "record" /\ pass[d].answer = "current" => Covered(d, remote)

MarkInv(d) ==
  /\ RunningInv(d) /\ SkipInv(d) /\ ListedMark(d) /\ ApplyMark(d) /\ EtagsMark(d)
  /\ PutMark(d) /\ RecordMark(d)

AllMarked == Steady => \A d \in Device : MarkInv(d)

(* The copy of d that no pass in flight is about to replace: a landing is  *)
(* decided on, and is no older than, the copy the pull read.               *)
Base(d) == IF InWindow(d) THEN pass[d].local ELSE store[d]

LandsUp(d) ==
  /\ InWindow(d) => pass[d].local.at =< store[d].at
  /\ pc[d] = "listed" => pass[d].landing = Nothing
  /\ pc[d] = "apply" => pass[d].landing = Nothing \/ pass[d].local.at =< pass[d].landing.at

FirmHeld == \E d \in Device : Base(d).at >= firm

NewestInv == StampsPast /\ FirmHeld /\ \A d \in Device : LandsUp(d)

----------------------------------------------------------------------------
(* merge returns one of the two copies, and neither is above it.           *)
LEMMA MergeIsHighest ==
  ASSUME NEW l \in Copy, NEW r \in Copy
  PROVE  /\ mergeWinner(l, r) \in {l, r} /\ mergeWinner(l, r) \in Copy
         /\ ~Above(l, mergeWinner(l, r)) /\ ~Above(r, mergeWinner(l, r))
BY SyncAssumption DEF mergeWinner, Above, Copy

(* The order of copies is transitive.                                      *)
LEMMA NotAboveTransitive ==
  ASSUME NEW a \in Copy, NEW b \in Copy, NEW c \in Copy, ~Above(a, b), ~Above(b, c)
  PROVE  ~Above(a, c)
BY SyncAssumption DEF Above, Copy

(* The reconcile answers a pass of the right type.                         *)
LEMMA ReconciledType ==
  ASSUME TypeOK, NEW d \in Device
  PROVE  Reconciled(d) \in Pass
<1>1. pass[d] \in Pass /\ remote \in Copy /\ pass[d].local \in Copy
  BY DEF TypeOK, Pass
<1>2. mergeWinner(pass[d].local, remote) \in Copy
  BY <1>1, MergeIsHighest
<1>3. Nothing \in Copy
  BY SyncAssumption DEF Nothing, Copy
<1> DEFINE w == mergeWinner(pass[d].local, remote)
<1> HIDE DEF w
<1>4. Reconciled(d) = IF Skipped(d)
        THEN [pass[d] EXCEPT !.answer = "current"]
        ELSE [pass[d] EXCEPT !.answer = IF remote.at > 0 THEN "current" ELSE "none",
                             !.landing = IF w # pass[d].local THEN w ELSE Nothing,
                             !.owed = IF w # remote THEN w ELSE Nothing]
  BY DEF Reconciled, w
<1>5. w \in Copy
  BY <1>2 DEF w
<1> QED
  BY <1>1, <1>3, <1>4, <1>5 DEF Pass, Etag

(* A put ages every etag and keeps the types.                              *)
LEMMA PlaceType ==
  ASSUME TypeOK, NEW d \in Device, NEW c \in Copy, NEW answered \in BOOLEAN,
         Place(d, c, answered)
  PROVE  remote' \in Copy /\ etag' \in [Device -> Etag] /\ pass' \in [Device -> Pass]
<1>1. remote' \in Copy /\ etag' \in [Device -> Etag]
  BY DEF Place, TypeOK, Age, Etag
<1>2. ASSUME NEW e \in Device PROVE pass'[e] \in Pass
  <2>1. pass[e] \in Pass /\ Age(pass[e].known) \in Etag /\ Age(pass[e].answer) \in Etag
    BY DEF TypeOK, Pass, Etag, Age
  <2>2. CASE e # d
    BY <2>1, <2>2 DEF Place, Pass
  <2>3. CASE e = d
    BY <2>1, <2>3 DEF Place, Pass, Etag
  <2> QED BY <2>2, <2>3
<1>3. pass' = [e \in Device |-> pass'[e]]
  BY DEF Place
<1> QED
  BY <1>1, <1>2, <1>3

(* NoPass is a pass.                                                       *)
LEMMA NoPassType == NoPass \in Pass /\ Nothing \in Copy
BY SyncAssumption DEF NoPass, Pass, Nothing, Copy, Etag

(* Two fields of a pass replaced at once.                                  *)
LEMMA PassUpdates ==
  ASSUME TypeOK, NEW d \in Device, NEW a \in Etag, NEW c \in Copy
  PROVE  /\ [pass EXCEPT ![d].answer = a, ![d].failed = TRUE] \in [Device -> Pass]
         /\ [pass EXCEPT ![d].answer = a, ![d].owed = c] \in [Device -> Pass]
         /\ [pass EXCEPT ![d].owed = c, ![d].known = a] \in [Device -> Pass]
<1>1. pass \in [Device -> Pass] /\ pass[d] \in Pass
  BY DEF TypeOK
<1>2. /\ [pass[d] EXCEPT !.answer = a, !.failed = TRUE] \in Pass
      /\ [pass[d] EXCEPT !.answer = a, !.owed = c] \in Pass
      /\ [pass[d] EXCEPT !.owed = c, !.known = a] \in Pass
  BY <1>1 DEF Pass
<1>3. /\ [pass EXCEPT ![d].answer = a, ![d].failed = TRUE]
           = [pass EXCEPT ![d] = [pass[d] EXCEPT !.answer = a, !.failed = TRUE]]
      /\ [pass EXCEPT ![d].answer = a, ![d].owed = c]
           = [pass EXCEPT ![d] = [pass[d] EXCEPT !.answer = a, !.owed = c]]
      /\ [pass EXCEPT ![d].owed = c, ![d].known = a]
           = [pass EXCEPT ![d] = [pass[d] EXCEPT !.owed = c, !.known = a]]
  BY <1>1
<1> QED
  BY <1>1, <1>2, <1>3

(* The initial state satisfies the invariant.                              *)
LEMMA InitIndInv == Init => IndInv
<1> SUFFICES ASSUME Init PROVE IndInv
  OBVIOUS
<1>1. TypeOK
  <2>1. interrupted \in BOOLEAN /\ stranded \in BOOLEAN
    BY Zenon DEF Init
  <2>2. clock \in 0..MaxEdits /\ firm \in 0..MaxEdits /\ faults \in 0..MaxFaults
    BY SyncAssumption DEF Init
  <2>3. /\ store \in [Device -> Copy] /\ etag \in [Device -> Etag]
        /\ pc \in [Device -> Pc] /\ pass \in [Device -> Pass] /\ remote \in Copy
    BY NoPassType DEF Init, Etag, Pc
  <2>4. /\ dirty \in [Device -> BOOLEAN] /\ disk \in [Device -> BOOLEAN]
        /\ loaded \in [Device -> BOOLEAN] /\ up \in [Device -> BOOLEAN]
        /\ enabled \in [Device -> BOOLEAN]
    BY DEF Init
  <2> QED
    BY <2>1, <2>2, <2>3, <2>4 DEF TypeOK
<1>2. StampsPast
  BY DEF Init, StampsPast, NoPass, Nothing
<1>3. \A d \in Device : PassInv(d)
  BY DEF Init, PassInv, ListedInv, ApplyInv, EtagsInv, PutInv, RecordInv, NoRetry,
     RecordedInv
<1> QED
  BY <1>1, <1>2, <1>3 DEF IndInv

----------------------------------------------------------------------------
(* Every step keeps the types.                                             *)
LEMMA TypeStep == TypeOK /\ [Next]_vars => TypeOK'
<1> SUFFICES ASSUME TypeOK, [Next]_vars PROVE TypeOK'
  OBVIOUS
<1> USE SyncAssumption, NoPassType
<1>1. CASE UNCHANGED vars
  BY <1>1 DEF TypeOK, vars, own, sess, time, past
<1>2. ASSUME NEW d \in Device, NEW deleted \in BOOLEAN, change(d, deleted) PROVE TypeOK'
  BY <1>2 DEF TypeOK, change, MayEdit, Stamp, Copy, sess, past
<1>3. ASSUME NEW d \in Device, persistDirty(d) PROVE TypeOK'
  BY <1>3 DEF TypeOK, persistDirty, hydrate, sess, time, past, Copy
<1>4. ASSUME NEW d \in Device, startPull(d) PROVE TypeOK'
  BY <1>4 DEF TypeOK, startPull, Goto, own, sess, time, past, Pass, NoPass, Pc
<1>5. ASSUME NEW d \in Device, pull(d) PROVE TypeOK'
  BY <1>5, ReconciledType DEF TypeOK, pull, Goto, own, sess, time, past, Pc
<1>6. ASSUME NEW d \in Device, pullFails(d) PROVE TypeOK'
  <2>1. etag' \in [Device -> Etag] /\ stranded' \in BOOLEAN
    BY <1>6 DEF TypeOK, pullFails, Pass
  <2>2. /\ faults' \in 0..MaxFaults /\ pc' \in [Device -> Pc] /\ pass' \in [Device -> Pass]
        /\ UNCHANGED <<store, dirty, disk, loaded, up, enabled, remote, clock, firm, interrupted>>
    BY <1>6 DEF TypeOK, pullFails, Fail, Goto, sess, time, Pc
  <2> QED
    BY <2>1, <2>2 DEF TypeOK
<1>7. ASSUME NEW d \in Device, applyRemote(d) PROVE TypeOK'
  BY <1>7 DEF TypeOK, applyRemote, Goto, sess, time, past, Pass, Pc
<1>8. ASSUME NEW d \in Device, applyRefused(d) PROVE TypeOK'
  <2>1. pass' \in [Device -> Pass]
    BY <1>8, PassUpdates DEF applyRefused, Etag
  <2> QED
    BY <1>8, <2>1 DEF TypeOK, applyRefused, Fail, Goto, own, sess, time, past, Pc
<1>9. ASSUME NEW d \in Device, writeEtags(d) PROVE TypeOK'
  BY <1>9 DEF TypeOK, writeEtags, Goto, sess, time, past, Pass, Pc
<1>10. ASSUME NEW d \in Device, put_one(d) PROVE TypeOK'
  <2>1. CASE Condition(d) = "old"
    BY <1>10, <2>1 DEF TypeOK, put_one, Goto, sess, time, past, Pc
  <2>2. CASE Condition(d) # "old"
    <3>1. remote' \in Copy /\ etag' \in [Device -> Etag] /\ pass' \in [Device -> Pass]
      BY <1>10, <2>2, PlaceType DEF put_one, TypeOK, Pass
    <3> QED
      BY <1>10, <2>2, <3>1 DEF TypeOK, put_one, Goto, sess, time, past, Pc
  <2> QED BY <2>1, <2>2
<1>11. ASSUME NEW d \in Device, retry_merged(d) PROVE TypeOK'
  <2>1. mergeWinner(pass[d].owed, remote) \in Copy
    BY MergeIsHighest DEF TypeOK, Pass
  <2>2. pass' \in [Device -> Pass] /\ pc' \in [Device -> Pc]
    <3> DEFINE w == mergeWinner(pass[d].owed, remote)
    <3>1. CASE w = remote
      <4>1. pass' = [pass EXCEPT ![d].answer = "current"]
        BY <1>11, <3>1 DEF retry_merged
      <4>2. pass' \in [Device -> Pass]
        BY <4>1 DEF TypeOK, Pass, Etag
      <4> QED
        BY <1>11, <3>1, <4>2 DEF retry_merged, TypeOK, Goto, Pc
    <3>2. CASE w # remote
      <4>1. pass' = [pass EXCEPT ![d].owed = w, ![d].known = "current"]
        BY <1>11, <3>2 DEF retry_merged
      <4>2. pass' \in [Device -> Pass]
        BY <2>1, <4>1, PassUpdates DEF Etag
      <4> QED
        BY <1>11, <3>2, <4>2 DEF retry_merged, TypeOK, Goto, Pc
    <3> QED BY <3>1, <3>2
  <2> QED
    BY <1>11, <2>2 DEF TypeOK, retry_merged, own, sess, time, past
<1>12. ASSUME NEW d \in Device, retryPut(d) PROVE TypeOK'
  <2>1. remote' \in Copy /\ etag' \in [Device -> Etag] /\ pass' \in [Device -> Pass]
    <3>1. CASE pass[d].known = "current"
      BY <1>12, <3>1, PlaceType DEF retryPut, TypeOK, Pass
    <3>2. CASE pass[d].known # "current"
      <4>1. /\ pass' = [pass EXCEPT ![d].answer = "none", ![d].failed = TRUE]
            /\ UNCHANGED <<remote, etag>>
        BY <1>12, <3>2 DEF retryPut
      <4>2. pass' \in [Device -> Pass]
        BY <4>1, PassUpdates, "none" \in Etag DEF Etag
      <4> QED
        BY <4>1, <4>2 DEF TypeOK
    <3> QED BY <3>1, <3>2
  <2> QED
    BY <1>12, <2>1 DEF TypeOK, retryPut, Goto, sess, time, past, Pc
<1>13. ASSUME NEW d \in Device, putFails(d) PROVE TypeOK'
  <2>1. remote' \in Copy /\ etag' \in [Device -> Etag] /\ pass' \in [Device -> Pass]
    <3>1. CASE Place(d, pass[d].owed, FALSE)
      BY <3>1, PlaceType DEF TypeOK, Pass
    <3>2. CASE /\ pass' = [pass EXCEPT ![d].answer = "none", ![d].failed = TRUE]
               /\ UNCHANGED <<remote, etag>>
      BY <3>2, PassUpdates DEF TypeOK, Etag
    <3> QED BY <1>13, <3>1, <3>2 DEF putFails
  <2> QED
    <3>1. /\ faults' \in 0..MaxFaults /\ pc' \in [Device -> Pc]
          /\ UNCHANGED <<store, dirty, disk, loaded, up, enabled, clock, firm, interrupted, stranded>>
      BY <1>13 DEF TypeOK, putFails, Fail, Goto, sess, time, past, Pc
    <3> QED
      BY <2>1, <3>1 DEF TypeOK
<1>14. ASSUME NEW d \in Device, publish(d) PROVE TypeOK'
  <2>1. dirty' \in [Device -> BOOLEAN] /\ disk' \in [Device -> BOOLEAN]
    BY <1>14 DEF TypeOK, publish, Pass
  <2> QED
    BY <1>14, <2>1 DEF TypeOK, publish, Goto, sess, time, past, Pass, Pc
<1>15. ASSUME NEW d \in Device, runPush(d) PROVE TypeOK'
  <2>1. pass' \in [Device -> Pass] /\ pc' \in [Device -> Pc]
    BY <1>15 DEF TypeOK, runPush, Goto, hydrate, Pass, NoPass, Pc
  <2> QED
    BY <1>15, <2>1 DEF TypeOK, runPush, sess, time, past
<1>16. ASSUME NEW d \in Device, localEnvelopes(d) PROVE TypeOK'
  BY <1>16 DEF TypeOK, localEnvelopes, Goto, own, sess, time, past, Pass, Pc
<1>17. ASSUME NEW d \in Device, pushFails(d) PROVE TypeOK'
  <2>1. etag' \in [Device -> Etag] /\ disk' \in [Device -> BOOLEAN]
    BY <1>17 DEF TypeOK, pushFails, Pass
  <2>2. /\ faults' \in 0..MaxFaults /\ pc' \in [Device -> Pc] /\ pass' \in [Device -> Pass]
        /\ dirty' \in [Device -> BOOLEAN]
        /\ UNCHANGED <<store, loaded, up, enabled, remote, clock, firm, interrupted, stranded>>
    BY <1>17 DEF TypeOK, pushFails, Fail, Goto, sess, time, past, Pc
  <2> QED
    BY <2>1, <2>2 DEF TypeOK
<1>18. ASSUME NEW d \in Device, crash(d) PROVE TypeOK'
  BY <1>18 DEF TypeOK, crash, Interrupt, Fail, Goto, time, Pc
<1>19. ASSUME NEW d \in Device, startSync(d) PROVE TypeOK'
  BY <1>19 DEF TypeOK, startSync, own, time, past
<1>20. ASSUME NEW d \in Device, onToggleEnabled(d) PROVE TypeOK'
  BY <1>20 DEF TypeOK, onToggleEnabled, Interrupt, Fail, own, time
<1>21. ASSUME NEW d \in Device, onSave(d) PROVE TypeOK'
  BY <1>21 DEF TypeOK, onSave, own, time, past
<1>22. ASSUME NEW d \in Device, takeFails(d) PROVE TypeOK'
  <2>1. dirty' \in [Device -> BOOLEAN] /\ loaded' \in [Device -> BOOLEAN]
    BY <1>22 DEF TypeOK, takeFails, hydrate
  <2>2. /\ faults' \in 0..MaxFaults /\ pc' \in [Device -> Pc]
        /\ UNCHANGED <<store, etag, disk, up, enabled, pass, remote, clock, firm, interrupted,
                       stranded>>
    BY <1>22 DEF TypeOK, takeFails, Fail, Goto, sess, time, past, Pc
  <2> QED
    BY <2>1, <2>2 DEF TypeOK
<1> QED
  BY <1>1, <1>2, <1>3, <1>4, <1>5, <1>6, <1>7, <1>8, <1>9, <1>10, <1>11, <1>12, <1>13,
     <1>14,
     <1>15, <1>16, <1>17, <1>18, <1>19, <1>20, <1>21, <1>22
  DEF Next, PassStep, upsertRule, deleteRule

(* The variables keep their types, on every provider.                      *)
THEOREM SyncTypeCorrect == Spec => []TypeOK
<1>1. Init => TypeOK
  BY InitIndInv DEF IndInv
<1> QED
  BY <1>1, TypeStep, PTL DEF Spec

----------------------------------------------------------------------------
(* A step of device d that stores no object touches nothing of another     *)
(* device.                                                                 *)
Alone(d) ==
  /\ remote' = remote
  /\ \A e \in Device \ {d} :
       store'[e] = store[e] /\ etag'[e] = etag[e] /\ pc'[e] = pc[e] /\ pass'[e] = pass[e]

(* What a put leaves in every pass: the copies, and no etag is current but *)
(* the one it answers with.                                                *)
LEMMA PlaceFields ==
  ASSUME TypeOK, NEW d \in Device, NEW answered \in BOOLEAN, Place(d, pass[d].owed, answered)
  PROVE  /\ remote' = pass[d].owed
         /\ \A e \in Device :
              /\ etag'[e] = Age(etag[e]) /\ etag'[e] # "current"
              /\ pass'[e].local = pass[e].local /\ pass'[e].landing = pass[e].landing
              /\ pass'[e].owed = pass[e].owed
              /\ e # d => /\ pass'[e].known = Age(pass[e].known)
                          /\ pass'[e].answer # "current"
<1>1. remote' = pass[d].owed
  BY DEF Place
<1>2. ASSUME NEW e \in Device
      PROVE  /\ etag'[e] = Age(etag[e]) /\ etag'[e] # "current"
             /\ pass'[e].local = pass[e].local /\ pass'[e].landing = pass[e].landing
             /\ pass'[e].owed = pass[e].owed
             /\ e # d => /\ pass'[e].known = Age(pass[e].known)
                         /\ pass'[e].answer # "current"
  <2>1. etag'[e] = Age(etag[e]) /\ etag'[e] # "current"
    BY DEF Place, Age
  <2>2. /\ pass'[e].local = pass[e].local /\ pass'[e].landing = pass[e].landing
        /\ pass'[e].owed = pass[e].owed
    BY DEF Place, TypeOK, Pass
  <2>3. e # d => pass'[e].known = Age(pass[e].known) /\ pass'[e].answer = Age(pass[e].answer)
    BY DEF Place, TypeOK, Pass
  <2> QED BY <2>1, <2>2, <2>3 DEF Age
<1> QED BY <1>1, <1>2

(* Whatever the provider, every step keeps the stamps past: a put and a    *)
(* landing move copies somebody holds.                                     *)
LEMMA StampsStep ==
  ASSUME TypeOK, StampsPast, [Next]_vars
  PROVE  StampsPast'
<1>1. /\ clock \in Nat /\ NoPass.local.at = 0 /\ NoPass.landing.at = 0 /\ NoPass.owed.at = 0
      /\ Nothing.at = 0
      /\ \A e \in Device : /\ store[e].at =< clock /\ pass[e].local.at =< clock
                          /\ pass[e].landing.at =< clock /\ pass[e].owed.at =< clock
      /\ remote.at =< clock
  BY SyncAssumption DEF TypeOK, NoPass, Nothing, StampsPast
<1>2. /\ remote \in Copy /\ remote.at \in Nat
      /\ \A e \in Device : /\ store[e] \in Copy /\ pass[e].local \in Copy
                          /\ pass[e].owed \in Copy /\ pass[e].landing \in Copy
                          /\ store[e].at \in Nat /\ pass[e].local.at \in Nat
                          /\ pass[e].landing.at \in Nat /\ pass[e].owed.at \in Nat
  BY SyncAssumption DEF TypeOK, Pass, Copy
<1>3. ASSUME NEW d \in Device, Alone(d), clock' = clock, store'[d].at =< clock,
             pass'[d].local.at =< clock, pass'[d].landing.at =< clock, pass'[d].owed.at =< clock
      PROVE  StampsPast'
  BY <1>3 DEF StampsPast, Alone
<1>4. ASSUME NEW d \in Device, NEW deleted \in BOOLEAN, change(d, deleted) PROVE StampsPast'
  <2>1. /\ clock' = clock + 1 /\ store'[d].at = clock + 1
        /\ pass' = pass /\ remote' = remote
        /\ \A e \in Device \ {d} : store'[e] = store[e]
    BY <1>4 DEF change, Stamp, TypeOK
  <2> QED BY <1>1, <1>2, <2>1 DEF StampsPast
<1>5. ASSUME NEW d \in Device, startPull(d) PROVE StampsPast'
  <2>1. /\ pass'[d] = [NoPass EXCEPT !.local = store[d], !.known = etag[d]]
        /\ UNCHANGED <<store, clock>> /\ Alone(d)
    BY <1>5 DEF startPull, Goto, TypeOK, own, time, Alone
  <2>2. pass'[d].local = store[d] /\ pass'[d].landing = Nothing /\ pass'[d].owed = Nothing
    BY <2>1 DEF NoPass
  <2>3. /\ store'[d].at =< clock /\ pass'[d].local.at =< clock
        /\ pass'[d].landing.at =< clock /\ pass'[d].owed.at =< clock
    BY <1>1, <2>1, <2>2
  <2> QED BY <1>3, <2>1, <2>3
<1>6. ASSUME NEW d \in Device, pull(d) PROVE StampsPast'
  <2> DEFINE w == mergeWinner(pass[d].local, remote)
  <2>1. pass'[d] = Reconciled(d) /\ UNCHANGED <<store, clock>> /\ Alone(d)
    BY <1>6 DEF pull, Goto, TypeOK, own, time, Alone
  <2>2. w \in {pass[d].local, remote} /\ w \in Copy
    BY <1>2, MergeIsHighest
  <2>3. pass[d] \in Pass
    BY DEF TypeOK
  <2>4. Reconciled(d) = IF Skipped(d)
          THEN [pass[d] EXCEPT !.answer = "current"]
          ELSE [pass[d] EXCEPT !.answer = IF remote.at > 0 THEN "current" ELSE "none",
                               !.landing = IF w # pass[d].local THEN w ELSE Nothing,
                               !.owed = IF w # remote THEN w ELSE Nothing]
    BY DEF Reconciled
  <2> HIDE DEF w
  <2>5. /\ pass'[d].landing \in {pass[d].landing, Nothing, w} /\ pass'[d].local = pass[d].local
        /\ pass'[d].owed \in {pass[d].owed, Nothing, w}
    BY <2>1, <2>3, <2>4 DEF Pass
  <2> QED BY <1>1, <1>2, <1>3, <2>1, <2>2, <2>5
<1>7. ASSUME NEW d \in Device, applyRemote(d) PROVE StampsPast'
  <2>1. /\ pass' = pass /\ clock' = clock /\ Alone(d)
        /\ store'[d] \in {store[d], pass[d].landing}
    BY <1>7 DEF applyRemote, Goto, TypeOK, time, Alone
  <2> QED BY <1>1, <1>3, <2>1
<1>8. ASSUME NEW d \in Device, pullFails(d) \/ pushFails(d) \/ crash(d) \/ publish(d)
      PROVE  StampsPast'
  <2>1. pass'[d] = NoPass /\ UNCHANGED <<store, clock>> /\ Alone(d)
    BY <1>8 DEF pullFails, pushFails, crash, publish, Goto, TypeOK, time, Alone
  <2> QED BY <1>1, <1>3, <2>1
<1>9. ASSUME NEW d \in Device, runPush(d) PROVE StampsPast'
  <2>1. /\ pass'[d].local = NoPass.local /\ pass'[d].landing = NoPass.landing
        /\ pass'[d].owed = NoPass.owed /\ UNCHANGED <<store, clock>> /\ Alone(d)
    BY <1>9 DEF runPush, Goto, TypeOK, NoPass, time, Alone
  <2> QED BY <1>1, <1>3, <2>1
<1>10. ASSUME NEW d \in Device, applyRefused(d) \/ writeEtags(d) PROVE StampsPast'
  <2>1. /\ pass'[d].owed \in {pass[d].owed, Nothing}
        /\ pass'[d].local = pass[d].local /\ pass'[d].landing = pass[d].landing
        /\ UNCHANGED <<store, clock>> /\ Alone(d)
    BY <1>10 DEF applyRefused, writeEtags, Goto, TypeOK, Pass, own, time, Alone
  <2> QED BY <1>1, <1>3, <2>1
<1>11. ASSUME NEW d \in Device, NEW answered \in BOOLEAN, Place(d, pass[d].owed, answered),
              UNCHANGED <<store, clock>>
       PROVE  StampsPast'
  BY <1>11, PlaceFields DEF StampsPast
<1>12. ASSUME NEW d \in Device, Goto(d, "record"), UNCHANGED <<store, clock, remote, etag>>,
              pass' = [pass EXCEPT ![d].answer = "none", ![d].failed = TRUE]
       PROVE  StampsPast'
  <2>1. /\ pass'[d].owed = pass[d].owed /\ pass'[d].local = pass[d].local
        /\ pass'[d].landing = pass[d].landing /\ Alone(d)
    BY <1>12 DEF Goto, TypeOK, Pass, Alone
  <2> QED BY <1>1, <1>3, <1>12, <2>1
<1>13. ASSUME NEW d \in Device, put_one(d) PROVE StampsPast'
  <2>1. CASE Condition(d) = "old"
    BY <1>13, <2>1 DEF put_one, StampsPast, time
  <2>2. CASE Condition(d) # "old"
    BY <1>11, <1>13, <2>2 DEF put_one, time
  <2> QED BY <2>1, <2>2
<1>14. ASSUME NEW d \in Device, retry_merged(d) PROVE StampsPast'
  <2> DEFINE w == mergeWinner(pass[d].owed, remote)
  <2>1. w \in {pass[d].owed, remote} /\ w \in Copy
    BY <1>2, MergeIsHighest
  <2>2. UNCHANGED <<store, clock>> /\ Alone(d)
    BY <1>14 DEF retry_merged, Goto, TypeOK, own, time, Alone
  <2>3. \/ pass' = [pass EXCEPT ![d].answer = "current"]
        \/ pass' = [pass EXCEPT ![d].owed = w, ![d].known = "current"]
    BY <1>14 DEF retry_merged
  <2> HIDE DEF w
  <2>4. /\ pass'[d].local = pass[d].local /\ pass'[d].landing = pass[d].landing
        /\ pass'[d].owed \in {pass[d].owed, w}
    BY <2>3 DEF TypeOK, Pass
  <2> QED BY <1>1, <1>2, <1>3, <2>1, <2>2, <2>4
<1>15. ASSUME NEW d \in Device, retryPut(d) PROVE StampsPast'
  BY <1>11, <1>12, <1>15 DEF retryPut, time
<1>16. ASSUME NEW d \in Device, putFails(d) PROVE StampsPast'
  BY <1>11, <1>12, <1>16 DEF putFails, time
<1>17. ASSUME NEW d \in Device, localEnvelopes(d) PROVE StampsPast'
  <2>1. /\ pass'[d].owed = store[d]
        /\ pass'[d].local = pass[d].local /\ pass'[d].landing = pass[d].landing
        /\ UNCHANGED <<store, clock>> /\ Alone(d)
    BY <1>17 DEF localEnvelopes, Goto, TypeOK, Pass, own, time, Alone
  <2> QED BY <1>1, <1>3, <2>1
<1>18. CASE UNCHANGED <<store, pass, remote, clock>>
  BY <1>18 DEF StampsPast
<1>19. ASSUME NEW d \in Device, \/ persistDirty(d) \/ takeFails(d) \/ startSync(d)
                                \/ onToggleEnabled(d) \/ onSave(d)
       PROVE  StampsPast'
  BY <1>18, <1>19 DEF persistDirty, takeFails, startSync, onToggleEnabled, onSave, own, time
<1>20. CASE UNCHANGED vars
  BY <1>18, <1>20 DEF vars, own, time
<1> QED
  BY <1>4, <1>5, <1>6, <1>7, <1>8, <1>9, <1>10, <1>13, <1>14, <1>15, <1>16, <1>17, <1>19,
     <1>20
  DEF Next, PassStep, upsertRule, deleteRule

----------------------------------------------------------------------------
(* What another device does, short of a put, costs a device nothing.       *)
LEMMA OthersKeep ==
  ASSUME NEW d \in Device, Alone(d), \A e \in Device : PassInv(e), PassInv(d)'
  PROVE  \A e \in Device : PassInv(e)'
<1> SUFFICES ASSUME NEW e \in Device, e # d PROVE PassInv(e)'
  OBVIOUS
<1>1. /\ remote' = remote /\ store'[e] = store[e] /\ etag'[e] = etag[e]
      /\ pc'[e] = pc[e] /\ pass'[e] = pass[e] /\ PassInv(e)
  BY DEF Alone
<1> QED
  BY <1>1 DEF PassInv, ListedInv, ApplyInv, EtagsInv, PutInv, RecordInv, NoRetry,
     RecordedInv

(* A device with no pass, or with one that decided nothing yet, needs only *)
(* what its recorded etag says.                                            *)
LEMMA RestKeeps ==
  ASSUME NEW d \in Device, Cas[d] = FALSE => RecordedInv(d)',
         pc'[d] \in {"idle", "flush", "open"}
  PROVE  PassInv(d)'
BY DEF PassInv, ListedInv, ApplyInv, EtagsInv, PutInv, RecordInv, NoRetry

(* A put: every other etag is old, and a device that puts without If-Match *)
(* answers with the etag of a copy it is not behind.                       *)
LEMMA PlaceKeeps ==
  ASSUME TypeOK, \A e \in Device : PassInv(e), NEW d \in Device,
         NEW answered \in BOOLEAN, Place(d, pass[d].owed, answered),
         Cas[d] = FALSE => pc[d] = "put", store' = store, Goto(d, "record")
  PROVE  \A e \in Device : PassInv(e)'
<1> SUFFICES ASSUME NEW e \in Device, Cas[e] = FALSE PROVE PassInv(e)'
  BY DEF PassInv
<1>1. /\ remote' = pass[d].owed /\ etag'[e] = Age(etag[e]) /\ etag'[e] # "current"
      /\ pass'[e].local = pass[e].local /\ pass'[e].landing = pass[e].landing
      /\ pass'[e].owed = pass[e].owed /\ store'[e] = store[e]
      /\ e # d => /\ pass'[e].known = Age(pass[e].known)
                  /\ pass'[e].answer # "current"
  BY PlaceFields
<1>2. PassInv(e)
  OBVIOUS
<1>3. CASE e # d
  <2>1. pc'[e] = pc[e]
    BY <1>3 DEF Goto, TypeOK
  <2> QED
    BY <1>1, <1>2, <1>3, <2>1
    DEF PassInv, ListedInv, ApplyInv, EtagsInv, PutInv, RecordInv, NoRetry, RecordedInv
<1>4. CASE e = d
  <2>1. pc'[d] = "record"
    BY DEF Goto, TypeOK
  <2>2. ~Above(pass[d].owed, store[d])
    BY <1>2, <1>4 DEF PassInv, PutInv
  <2> QED
    BY <1>1, <1>4, <2>1, <2>2
    DEF PassInv, ListedInv, ApplyInv, EtagsInv, PutInv, RecordInv, NoRetry, RecordedInv
<1> QED BY <1>3, <1>4

(* An edit is newer than everything anyone holds, so nothing is above it.  *)
LEMMA ChangeKeeps ==
  ASSUME TypeOK, StampsPast, \A e \in Device : PassInv(e),
         NEW d \in Device, NEW deleted \in BOOLEAN, change(d, deleted)
  PROVE  \A e \in Device : PassInv(e)'
<1>1. /\ clock \in Nat /\ store'[d].at = clock + 1
      /\ pass' = pass /\ etag' = etag /\ pc' = pc /\ remote' = remote
      /\ \A e \in Device \ {d} : store'[e] = store[e]
  BY SyncAssumption DEF change, TypeOK
<1>2. Alone(d)
  BY <1>1 DEF Alone
<1>3. remote.at \in Nat /\ pass[d].local.at \in Nat /\ pass[d].owed.at \in Nat
  BY SyncAssumption DEF TypeOK, Pass, Copy
<1>4. /\ ~Above(remote, store'[d]) /\ ~Above(pass[d].local, store'[d])
      /\ ~Above(pass[d].owed, store'[d])
  BY <1>1, <1>3 DEF StampsPast, Above
<1>5. PassInv(d)'
  BY <1>1, <1>4
  DEF PassInv, ListedInv, ApplyInv, EtagsInv, PutInv, RecordInv, NoRetry, RecordedInv
<1> QED
  BY <1>2, <1>5, OthersKeep

(* The reconcile: a skipped object is one this device already holds, and a *)
(* landing is the remote's own copy.                                       *)
LEMMA PullKeeps ==
  ASSUME TypeOK, \A e \in Device : PassInv(e), NEW d \in Device, pull(d)
  PROVE  \A e \in Device : PassInv(e)'
<1> DEFINE l == pass[d].local
           w == mergeWinner(l, remote)
<1>1. /\ pass'[d] = Reconciled(d) /\ pc'[d] = "apply" /\ pc[d] = "listed"
      /\ store' = store /\ etag' = etag /\ remote' = remote /\ Alone(d)
  BY DEF pull, Goto, TypeOK, own, Alone
<1> SUFFICES ASSUME Cas[d] = FALSE PROVE PassInv(d)'
  BY <1>1, OthersKeep DEF PassInv
<1>3. l \in Copy /\ remote \in Copy /\ store[d] \in Copy /\ pass[d] \in Pass
  BY DEF TypeOK, Pass
<1>4. /\ pass[d].known = etag[d] /\ ~Above(l, store[d])
      /\ pass[d].landing = Nothing /\ pass[d].owed = Nothing
      /\ RecordedInv(d)
  BY <1>1 DEF PassInv, ListedInv
<1>5. w \in {l, remote} /\ w \in Copy /\ ~Above(l, w) /\ ~Above(remote, w)
  BY <1>3, MergeIsHighest
<1> HIDE DEF l, w
<1>6. CASE Skipped(d)
  <2>1. /\ pass'[d].landing = Nothing /\ pass'[d].owed = Nothing
    BY <1>1, <1>3, <1>4, <1>6 DEF Reconciled, Pass, l
  <2>2. ~Above(remote, store[d])
    BY <1>4, <1>6 DEF Skipped, RecordedInv
  <2> QED
    BY <1>1, <1>4, <2>1, <2>2
    DEF PassInv, ListedInv, ApplyInv, EtagsInv, PutInv, RecordInv, NoRetry, RecordedInv
<1>7. CASE ~Skipped(d)
  <2>1. /\ pass'[d].landing = (IF w # l THEN w ELSE Nothing)
        /\ pass'[d].owed = (IF w # remote THEN w ELSE Nothing)
    BY <1>1, <1>3, <1>7 DEF Reconciled, Pass, l, w
  <2>2. w = l => ~Above(remote, store[d])
    BY <1>3, <1>4, <1>5, NotAboveTransitive
  <2>3. w # l => w = remote
    BY <1>5
  <2>4. Nothing.at = 0
    BY DEF Nothing
  <2>5. CASE w = l
    <3>1. pass'[d].landing = Nothing /\ (pass'[d].owed # Nothing => pass'[d].owed = l)
      BY <2>1, <2>5
    <3>2. ApplyInv(d)'
      BY <1>1, <1>4, <2>2, <2>5, <3>1 DEF ApplyInv
    <3> QED
      BY <1>1, <1>4, <3>2
      DEF PassInv, ListedInv, EtagsInv, PutInv, RecordInv, NoRetry, RecordedInv
  <2>6. CASE w # l
    <3>1. pass'[d].landing = w /\ pass'[d].owed = Nothing
      BY <2>1, <2>3, <2>6
    <3>2. w = Nothing => ~Above(w, store[d])
      BY <1>3, <2>4, SyncAssumption DEF Above, Nothing, Copy
    <3>3. ApplyInv(d)'
      BY <1>1, <1>5, <2>3, <2>6, <3>1, <3>2 DEF ApplyInv
    <3> QED
      BY <1>1, <1>4, <3>3
      DEF PassInv, ListedInv, EtagsInv, PutInv, RecordInv, NoRetry, RecordedInv
  <2> QED BY <2>5, <2>6
<1> QED BY <1>6, <1>7

(* The apply: the store takes the landing, or keeps a newer tombstone.     *)
LEMMA ApplyKeeps ==
  ASSUME TypeOK, \A e \in Device : PassInv(e), NEW d \in Device, applyRemote(d)
  PROVE  \A e \in Device : PassInv(e)'
<1>1. /\ pass' = pass /\ pc'[d] = "etags" /\ pc[d] = "apply"
      /\ etag' = etag /\ remote' = remote /\ Alone(d)
  BY DEF applyRemote, Goto, TypeOK, Alone
<1> SUFFICES ASSUME Cas[d] = FALSE PROVE PassInv(d)'
  BY <1>1, OthersKeep DEF PassInv
<1>3. /\ pass[d].landing \in Copy /\ pass[d].owed \in Copy
      /\ remote \in Copy /\ store[d] \in Copy
  BY DEF TypeOK, Pass
<1>4. ApplyInv(d) /\ RecordedInv(d)
  BY DEF PassInv
<1>5. store'[d] = IF pass[d].landing = Nothing \/ Outranked(d, pass[d].landing)
                  THEN store[d] ELSE pass[d].landing
  BY DEF applyRemote, TypeOK
<1>7. Outranked(d, pass[d].landing) => ~Above(pass[d].landing, store[d])
  BY <1>3, SyncAssumption DEF Outranked, Above, Copy
<1>8. pass[d].answer = "current" => ~Above(remote, store'[d])
  BY <1>1, <1>3, <1>4, <1>5, <1>7, NotAboveTransitive DEF ApplyInv
<1>9. pass[d].owed # Nothing => ~Above(pass[d].owed, store'[d])
  BY <1>1, <1>4, <1>5 DEF ApplyInv
<1>10. etag[d] = "current" => ~Above(remote, store'[d])
  BY <1>1, <1>3, <1>4, <1>5, <1>7, NotAboveTransitive DEF ApplyInv
<1> QED
  BY <1>1, <1>8, <1>9, <1>10
  DEF PassInv, ListedInv, ApplyInv, EtagsInv, PutInv, RecordInv, NoRetry, RecordedInv

----------------------------------------------------------------------------
(* Every step keeps the passes of the devices without If-Match sound.      *)
LEMMA SyncStep ==
  ASSUME TypeOK, StampsPast, \A e \in Device : PassInv(e), [Next]_vars
  PROVE  \A e \in Device : PassInv(e)'
<1> DEFINE Kept == \A e \in Device : PassInv(e)'
<1>1. CASE UNCHANGED <<store, etag, pc, pass, remote>>
  BY <1>1 DEF PassInv, ListedInv, ApplyInv, EtagsInv, PutInv, RecordInv, NoRetry, RecordedInv
<1>2. ASSUME NEW d \in Device, NEW deleted \in BOOLEAN, change(d, deleted) PROVE Kept
  BY <1>2, ChangeKeeps
<1>3. ASSUME NEW d \in Device, startPull(d) PROVE Kept
  <2>1. /\ pass'[d] = [NoPass EXCEPT !.local = store[d], !.known = etag[d]]
        /\ pc'[d] = "listed" /\ store' = store /\ etag' = etag /\ remote' = remote
        /\ Alone(d)
    BY <1>3 DEF startPull, Goto, TypeOK, own, Alone
  <2>2. /\ pass'[d].local = store[d] /\ pass'[d].known = etag[d]
        /\ pass'[d].landing = Nothing /\ pass'[d].owed = Nothing
    BY <2>1 DEF NoPass
  <2>3. ~Above(store[d], store[d]) /\ (Cas[d] = FALSE => RecordedInv(d))
    BY SyncAssumption DEF TypeOK, Copy, Above, PassInv
  <2>4. PassInv(d)'
    BY <2>1, <2>2, <2>3
    DEF PassInv, ListedInv, ApplyInv, EtagsInv, PutInv, RecordInv, NoRetry, RecordedInv
  <2> QED BY <2>1, <2>4, OthersKeep
<1>4. ASSUME NEW d \in Device, pull(d) PROVE Kept
  BY <1>4, PullKeeps
<1>5. ASSUME NEW d \in Device, applyRemote(d) PROVE Kept
  BY <1>5, ApplyKeeps
<1>6. ASSUME NEW d \in Device, Alone(d), Cas[d] = FALSE => RecordedInv(d)',
             pc'[d] \in {"idle", "flush", "open"}
      PROVE  Kept
  BY <1>6, RestKeeps, OthersKeep
<1>7. ASSUME NEW d \in Device,
             UNCHANGED <<store, remote>>, etag'[d] = etag[d], Alone(d),
             pc'[d] \in {"idle", "flush", "open"}
      PROVE  Kept
  BY <1>6, <1>7 DEF PassInv, RecordedInv
<1>8. ASSUME NEW d \in Device, UNCHANGED <<store, remote>>, etag'[d] = pass[d].answer,
             pc[d] \in {"etags", "record"}, Alone(d), pc'[d] \in {"idle", "flush", "open"}
      PROVE  Kept
  <2>1. Cas[d] = FALSE => EtagsInv(d) /\ RecordInv(d)
    BY DEF PassInv
  <2>2. Cas[d] = FALSE => RecordedInv(d)'
    BY <1>8, <2>1 DEF EtagsInv, RecordInv, RecordedInv
  <2> QED BY <1>6, <1>8, <2>2
<1>9. ASSUME NEW d \in Device, crash(d) \/ runPush(d) \/ takeFails(d) PROVE Kept
  <2>1. /\ UNCHANGED <<store, remote>> /\ etag'[d] = etag[d] /\ Alone(d)
        /\ pc'[d] \in {"idle", "flush", "open"}
    BY <1>9 DEF crash, runPush, takeFails, Goto, TypeOK, Alone
  <2> QED BY <1>7, <2>1
<1>10. ASSUME NEW d \in Device, pullFails(d) PROVE Kept
  <2>1. UNCHANGED <<store, remote>> /\ Alone(d) /\ pc'[d] = "flush"
    BY <1>10 DEF pullFails, Goto, TypeOK, Alone
  <2>2. \/ etag'[d] = etag[d]
        \/ pc[d] \in {"etags", "record"} /\ etag'[d] = pass[d].answer
    BY <1>10 DEF pullFails, TypeOK
  <2> QED BY <1>7, <1>8, <2>1, <2>2
<1>11. ASSUME NEW d \in Device, pushFails(d) PROVE Kept
  <2>1. UNCHANGED <<store, remote>> /\ Alone(d) /\ pc'[d] = "idle"
    BY <1>11 DEF pushFails, Goto, TypeOK, Alone
  <2>2. \/ etag'[d] = etag[d]
        \/ pc[d] = "record" /\ etag'[d] = pass[d].answer
    BY <1>11 DEF pushFails, TypeOK
  <2> QED BY <1>7, <1>8, <2>1, <2>2
<1>12. ASSUME NEW d \in Device, applyRefused(d) PROVE Kept
  <2>1. /\ pass'[d].answer = "none" /\ pass'[d].owed = Nothing
        /\ pc'[d] = "etags" /\ store' = store /\ etag' = etag /\ remote' = remote /\ Alone(d)
    BY <1>12 DEF applyRefused, Goto, TypeOK, Pass, own, Alone
  <2>2. PassInv(d)'
    BY <2>1
    DEF PassInv, ListedInv, ApplyInv, EtagsInv, PutInv, RecordInv, NoRetry, RecordedInv
  <2> QED BY <2>1, <2>2, OthersKeep
<1>13. ASSUME NEW d \in Device, writeEtags(d) PROVE Kept
  <2>1. /\ pass'[d].owed = pass[d].owed
        /\ pc[d] = "etags" /\ pc'[d] = (IF pass[d].owed = Nothing THEN "flush" ELSE "put")
        /\ store' = store /\ etag'[d] = pass[d].answer /\ remote' = remote /\ Alone(d)
    BY <1>13 DEF writeEtags, Goto, TypeOK, Pass, Alone
  <2>2. Cas[d] = FALSE => EtagsInv(d)
    BY DEF PassInv
  <2>3. PassInv(d)'
    BY <2>1, <2>2
    DEF PassInv, ListedInv, ApplyInv, EtagsInv, PutInv, RecordInv, NoRetry, RecordedInv
  <2> QED BY <2>1, <2>3, OthersKeep
<1>14. ASSUME NEW d \in Device, put_one(d) PROVE Kept
  <2>1. CASE Condition(d) = "old"
    <3>1. Cas[d] # FALSE /\ Alone(d)
      BY <1>14, <2>1 DEF put_one, Condition, Goto, TypeOK, Alone
    <3> QED BY <3>1, OthersKeep DEF PassInv
  <2>2. CASE Condition(d) # "old"
    BY <1>14, <2>2, PlaceKeeps DEF put_one
  <2> QED BY <2>1, <2>2
<1>15. ASSUME NEW d \in Device, retry_merged(d) \/ retryPut(d) PROVE Cas[d] # FALSE
  BY <1>15 DEF retry_merged, retryPut, PassInv, NoRetry
<1>16. ASSUME NEW d \in Device, retry_merged(d) PROVE Kept
  <2>1. Alone(d)
    BY <1>16 DEF retry_merged, Goto, TypeOK, own, Alone
  <2> QED BY <1>15, <1>16, <2>1, OthersKeep DEF PassInv
<1>17. ASSUME NEW d \in Device, Goto(d, "record"), UNCHANGED <<store, remote, etag>>,
              pass' = [pass EXCEPT ![d].answer = "none", ![d].failed = TRUE]
       PROVE  Kept
  <2>1. pass'[d].answer = "none" /\ pc'[d] = "record" /\ Alone(d)
    BY <1>17 DEF Goto, TypeOK, Pass, Alone
  <2>2. PassInv(d)'
    BY <1>17, <2>1
    DEF PassInv, ListedInv, ApplyInv, EtagsInv, PutInv, RecordInv, NoRetry, RecordedInv
  <2> QED BY <2>1, <2>2, OthersKeep
<1>18. ASSUME NEW d \in Device, retryPut(d) PROVE Kept
  <2>1. CASE pass[d].known = "current"
    BY <1>15, <1>18, <2>1, PlaceKeeps DEF retryPut
  <2>2. CASE pass[d].known # "current"
    BY <1>17, <1>18, <2>2 DEF retryPut
  <2> QED BY <2>1, <2>2
<1>19. ASSUME NEW d \in Device, putFails(d) PROVE Kept
  <2>1. Goto(d, "record") /\ store' = store
    BY <1>19 DEF putFails
  <2>2. CASE Place(d, pass[d].owed, FALSE)
    <3>1. Cas[d] = FALSE => pc[d] = "put"
      BY <1>19 DEF putFails, PassInv, NoRetry
    <3> QED BY <2>1, <2>2, <3>1, PlaceKeeps
  <2>3. CASE /\ pass' = [pass EXCEPT ![d].answer = "none", ![d].failed = TRUE]
             /\ UNCHANGED <<remote, etag>>
    BY <1>17, <2>1, <2>3
  <2> QED BY <1>19, <2>2, <2>3 DEF putFails
<1>20. ASSUME NEW d \in Device, publish(d) PROVE Kept
  <2>1. /\ UNCHANGED <<store, remote>> /\ etag'[d] = pass[d].answer /\ pc[d] = "record"
        /\ pc'[d] \in {"idle", "flush"} /\ Alone(d)
    BY <1>20 DEF publish, Goto, TypeOK, Alone
  <2> QED BY <1>8, <2>1
<1>21. ASSUME NEW d \in Device, localEnvelopes(d) PROVE Kept
  <2>1. /\ pass'[d].owed = store[d] /\ pc'[d] = "put"
        /\ store' = store /\ etag' = etag /\ remote' = remote /\ Alone(d)
    BY <1>21 DEF localEnvelopes, Goto, TypeOK, Pass, own, Alone
  <2>2. ~Above(store[d], store[d])
    BY SyncAssumption DEF TypeOK, Copy, Above
  <2>3. PassInv(d)'
    BY <2>1, <2>2
    DEF PassInv, ListedInv, ApplyInv, EtagsInv, PutInv, RecordInv, NoRetry, RecordedInv
  <2> QED BY <2>1, <2>3, OthersKeep
<1>22. ASSUME NEW d \in Device,
              persistDirty(d) \/ startSync(d) \/ onToggleEnabled(d) \/ onSave(d)
       PROVE  Kept
  BY <1>1, <1>22 DEF persistDirty, startSync, onToggleEnabled, onSave, own
<1>23. CASE UNCHANGED vars
  BY <1>1, <1>23 DEF vars, own
<1> QED
  BY <1>2, <1>3, <1>4, <1>5, <1>9, <1>10, <1>11, <1>12, <1>13, <1>14, <1>16, <1>18, <1>19,
     <1>20, <1>21, <1>22, <1>23
  DEF Next, PassStep, upsertRule, deleteRule

(* The invariant is inductive, whoever puts with If-Match.                 *)
THEOREM SyncInvariance == Spec => []IndInv
<1>1. IndInv /\ [Next]_vars => IndInv'
  BY TypeStep, StampsStep, SyncStep DEF IndInv
<1> QED
  BY <1>1, InitIndInv, PTL DEF Spec

(* No etag is recorded, on a device that puts without If-Match, for an     *)
(* object newer than the device's own copy: no pull's skip of its hides a  *)
(* landing, whatever the other devices do and whatever fails.              *)
THEOREM SyncNoLandingSkipped == Spec => []NoLandingSkipped
<1>1. IndInv => NoLandingSkipped
  <2> SUFFICES ASSUME IndInv, NEW d \in Device, ~Cas[d] PROVE UpToDate(d)
    BY DEF NoLandingSkipped
  <2>1. Cas[d] = FALSE
    BY SyncAssumption
  <2> QED BY <2>1 DEF IndInv, PassInv, RecordedInv, UpToDate
<1> QED
  BY <1>1, SyncInvariance, PTL

----------------------------------------------------------------------------
(* A step of device d touches no mark of another.                          *)
MarksAlone(d) ==
  \A e \in Device \ {d} :
    /\ dirty'[e] = dirty[e] /\ disk'[e] = disk[e] /\ loaded'[e] = loaded[e]
    /\ up'[e] = up[e] /\ enabled'[e] = enabled[e]

(* So the others stay covered.                                             *)
LEMMA OthersMarked ==
  ASSUME NEW d \in Device, Alone(d), MarksAlone(d), \A e \in Device : MarkInv(e), MarkInv(d)'
  PROVE  \A e \in Device : MarkInv(e)'
<1> SUFFICES ASSUME NEW e \in Device, e # d PROVE MarkInv(e)'
  OBVIOUS
<1>1. /\ remote' = remote /\ store'[e] = store[e] /\ etag'[e] = etag[e]
      /\ pc'[e] = pc[e] /\ pass'[e] = pass[e] /\ MarkInv(e)
  BY DEF Alone
<1>2. /\ dirty'[e] = dirty[e] /\ disk'[e] = disk[e] /\ loaded'[e] = loaded[e]
      /\ up'[e] = up[e] /\ enabled'[e] = enabled[e]
  BY DEF MarksAlone
<1> QED
  BY <1>1, <1>2 DEF MarkInv, RunningInv, SkipInv, ListedMark, ApplyMark, EtagsMark, PutMark,
                    RecordMark, Covered

(* A device with no pass needs only what its recorded etag says.           *)
LEMMA RestMarked ==
  ASSUME NEW d \in Device, RunningInv(d)', SkipInv(d)', pc'[d] \in {"idle", "flush", "open"}
  PROVE  MarkInv(d)'
BY DEF MarkInv, ListedMark, ApplyMark, EtagsMark, PutMark, RecordMark

(* An edit marks its slot, so whatever it outdates is covered.             *)
LEMMA DirtyMarked ==
  ASSUME NEW d \in Device, RunningInv(d), MarkInv(d), dirty'[d] = TRUE,
         UNCHANGED <<etag, disk, loaded, up, enabled, pc, pass, remote>>
  PROVE  MarkInv(d)'
BY DEF MarkInv, RunningInv, SkipInv, ListedMark, ApplyMark, EtagsMark, PutMark, RecordMark,
       Covered

(* A put of a covered copy: the device that made it is covered by the      *)
(* object now, and no other holds an etag for it.                          *)
LEMMA PlaceMarked ==
  ASSUME TypeOK, \A e \in Device : MarkInv(e), NEW d \in Device, NEW answered \in BOOLEAN,
         Place(d, pass[d].owed, answered), pc[d] \in {"put", "retryPut"}, Goto(d, "record"),
         UNCHANGED <<store, dirty, disk, loaded, up, enabled>>
  PROVE  \A e \in Device : MarkInv(e)'
<1> SUFFICES ASSUME NEW e \in Device PROVE MarkInv(e)'
  OBVIOUS
<1>1. /\ remote' = pass[d].owed /\ etag'[e] = Age(etag[e]) /\ etag'[e] # "current"
      /\ pass'[e].local = pass[e].local /\ pass'[e].landing = pass[e].landing
      /\ pass'[e].owed = pass[e].owed
      /\ e # d => pass'[e].known = Age(pass[e].known) /\ pass'[e].answer # "current"
  BY PlaceFields
<1>2. MarkInv(e)
  OBVIOUS
<1>3. CASE e # d
  <2>1. pc'[e] = pc[e]
    BY <1>3 DEF Goto, TypeOK
  <2> QED
    BY <1>1, <1>2, <1>3, <2>1 DEF MarkInv, RunningInv, SkipInv, ListedMark, ApplyMark,
       EtagsMark,
       PutMark, RecordMark, Covered
<1>4. CASE e = d
  <2>1. pc'[d] = "record"
    BY DEF Goto, TypeOK
  <2>2. Covered(d, pass[d].owed)
    BY DEF MarkInv, PutMark
  <2> QED
    BY <1>1, <1>2, <1>4, <2>1, <2>2 DEF MarkInv, RunningInv, SkipInv, ListedMark, ApplyMark,
       EtagsMark, PutMark, RecordMark, Covered
<1> QED BY <1>3, <1>4

(* The reconcile: what is skipped is covered by the recorded etag, what is *)
(* owed is the copy the pull read, what lands is the remote's.             *)
LEMMA PullMarked ==
  ASSUME TypeOK, \A e \in Device : MarkInv(e), NEW d \in Device, pull(d)
  PROVE  \A e \in Device : MarkInv(e)'
<1> DEFINE l == pass[d].local
           w == mergeWinner(l, remote)
<1>1. /\ pass'[d] = Reconciled(d) /\ pc'[d] = "apply" /\ pc[d] = "listed"
      /\ UNCHANGED <<store, etag, remote, dirty, disk, loaded, up, enabled>>
  BY DEF pull, Goto, TypeOK, own, sess
<1>2. Alone(d) /\ MarksAlone(d)
  BY DEF pull, Goto, TypeOK, own, sess, Alone, MarksAlone
<1>3. l \in Copy /\ remote \in Copy /\ store[d] \in Copy /\ pass[d] \in Pass
  BY DEF TypeOK, Pass
<1>4. /\ pass[d].known = etag[d] /\ Covered(d, l)
      /\ pass[d].landing = Nothing /\ pass[d].owed = Nothing
      /\ SkipInv(d) /\ RunningInv(d)
  BY <1>1 DEF MarkInv, ListedMark
<1>5. w \in {l, remote} /\ w \in Copy /\ ~Above(l, w) /\ ~Above(remote, w)
  BY <1>3, MergeIsHighest
<1>6. Covered(d, w)
  BY <1>3, <1>4, <1>5, NotAboveTransitive DEF Covered
<1> HIDE DEF l, w
<1>7. SkipInv(d)' /\ RunningInv(d)'
  BY <1>1, <1>4 DEF SkipInv, RunningInv, Covered, Placing
<1>8. ApplyMark(d)'
  <2>1. CASE Skipped(d)
    <3>1. pass'[d].landing = Nothing /\ pass'[d].owed = Nothing
      BY <1>1, <1>3, <1>4, <2>1 DEF Reconciled, Pass
    <3>2. Covered(d, remote)
      BY <1>1, <1>4, <2>1 DEF Skipped, SkipInv, Placing
    <3> QED BY <1>1, <3>1, <3>2 DEF ApplyMark, Covered
  <2>2. CASE ~Skipped(d)
    <3>1. /\ pass'[d].landing = (IF w # l THEN w ELSE Nothing)
          /\ pass'[d].owed = (IF w # remote THEN w ELSE Nothing)
      BY <1>1, <1>3, <2>2 DEF Reconciled, Pass, l, w
    <3>2. w = Nothing => w = remote
      BY <1>3, <1>5, SyncAssumption DEF Above, Copy, Nothing
    <3>3. CASE w = remote
      BY <1>1, <1>6, <3>1, <3>3 DEF ApplyMark, Covered
    <3>4. CASE w # remote
      <4>1. w = l /\ pass'[d].landing = Nothing /\ pass'[d].owed = w /\ w # Nothing
        BY <1>5, <3>1, <3>2, <3>4
      <4> QED BY <1>1, <1>6, <4>1 DEF ApplyMark, Covered
    <3> QED BY <3>3, <3>4
  <2> QED BY <2>1, <2>2
<1>9. MarkInv(d)'
  BY <1>1, <1>7, <1>8 DEF MarkInv, ListedMark, EtagsMark, PutMark, RecordMark
<1> QED
  BY <1>2, <1>9, OthersMarked

(* The apply: the store is what landed, or what it was.                    *)
LEMMA ApplyMarked ==
  ASSUME TypeOK, \A e \in Device : MarkInv(e), NEW d \in Device, applyRemote(d)
  PROVE  \A e \in Device : MarkInv(e)'
<1>1. /\ pc'[d] = "etags" /\ pc[d] = "apply"
      /\ UNCHANGED <<pass, etag, remote, dirty, disk, loaded, up, enabled>>
  BY DEF applyRemote, Goto, TypeOK, sess
<1>2. Alone(d) /\ MarksAlone(d)
  BY DEF applyRemote, Goto, TypeOK, sess, Alone, MarksAlone
<1>3. ApplyMark(d) /\ SkipInv(d) /\ RunningInv(d)
  BY DEF MarkInv
<1>4. store[d] \in Copy /\ pass[d].landing \in Copy /\ remote \in Copy
  BY DEF TypeOK, Pass
<1>5. \/ store'[d] = store[d]
      \/ pass[d].landing # Nothing /\ store'[d] = pass[d].landing
  BY DEF applyRemote, TypeOK
<1>6. ASSUME pass[d].landing # Nothing, store'[d] = pass[d].landing
      PROVE  MarkInv(d)'
  <2>1. /\ pass[d].owed = Nothing
        /\ pass[d].answer = "current" \/ etag[d] = "current" => pass[d].landing = remote
    BY <1>1, <1>3, <1>6 DEF ApplyMark
  <2>2. ~Above(remote, remote)
    BY <1>4, SyncAssumption DEF Above, Copy
  <2>3. EtagsMark(d)'
    BY <1>1, <1>6, <2>1, <2>2 DEF EtagsMark, Covered
  <2>4. SkipInv(d)'
    BY <1>1, <1>6, <2>1, <2>2 DEF SkipInv, Covered
  <2> QED
    BY <1>1, <1>3, <2>3, <2>4 DEF MarkInv, RunningInv, ListedMark, ApplyMark, PutMark,
       RecordMark
<1>7. ASSUME store'[d] = store[d] PROVE MarkInv(d)'
  <2>1. EtagsMark(d)'
    BY <1>1, <1>3, <1>7 DEF EtagsMark, ApplyMark, Covered
  <2>2. SkipInv(d)'
    BY <1>1, <1>3, <1>7 DEF SkipInv, Covered, Placing
  <2> QED
    BY <1>1, <1>3, <2>1, <2>2 DEF MarkInv, RunningInv, ListedMark, ApplyMark, PutMark,
       RecordMark
<1> QED
  BY <1>2, <1>5, <1>6, <1>7, OthersMarked

(* Every step of a steady run keeps every device covered.                  *)
LEMMA MarkStep ==
  ASSUME TypeOK, Steady, \A e \in Device : MarkInv(e), [Next]_vars, Steady'
  PROVE  \A e \in Device : MarkInv(e)'
<1> DEFINE Kept == \A e \in Device : MarkInv(e)'
<1>1. ASSUME NEW d \in Device, Alone(d), MarksAlone(d), RunningInv(d)', SkipInv(d)',
             pc'[d] \in {"idle", "flush", "open"}
      PROVE  Kept
  BY <1>1, RestMarked, OthersMarked
<1>2. ASSUME NEW d \in Device PROVE MarkInv(d) /\ RunningInv(d) /\ SkipInv(d)
  BY DEF MarkInv
<1>3. ASSUME NEW d \in Device, NEW deleted \in BOOLEAN, change(d, deleted) PROVE Kept
  <2>1. /\ dirty'[d] = TRUE /\ UNCHANGED <<etag, disk, loaded, up, enabled, pc, pass, remote>>
    BY <1>3 DEF change, TypeOK, sess
  <2>2. Alone(d) /\ MarksAlone(d)
    BY <1>3 DEF change, TypeOK, sess, Alone, MarksAlone
  <2> QED BY <1>2, <2>1, <2>2, DirtyMarked, OthersMarked
<1>4. ASSUME NEW d \in Device, persistDirty(d) PROVE Kept
  <2>1. /\ dirty'[d] = TRUE /\ dirty[d] = TRUE /\ loaded'[d] = TRUE
        /\ UNCHANGED <<store, etag, up, enabled, pc, pass, remote>>
    BY <1>4 DEF persistDirty, hydrate, TypeOK, sess
  <2>2. Alone(d) /\ MarksAlone(d)
    BY <1>4 DEF persistDirty, hydrate, TypeOK, sess, Alone, MarksAlone
  <2>3. MarkInv(d)'
    BY <1>2, <2>1
    DEF MarkInv, RunningInv, SkipInv, ListedMark, ApplyMark, EtagsMark, PutMark, RecordMark,
        Covered
  <2> QED BY <2>2, <2>3, OthersMarked
<1>5. ASSUME NEW d \in Device, startPull(d) PROVE Kept
  <2>1. /\ pass'[d] = [NoPass EXCEPT !.local = store[d], !.known = etag[d]]
        /\ pc'[d] = "listed" /\ pc[d] = "idle"
        /\ UNCHANGED <<store, etag, remote, dirty, disk, loaded, up, enabled>>
    BY <1>5 DEF startPull, Goto, TypeOK, own, sess
  <2>2. Alone(d) /\ MarksAlone(d)
    BY <1>5 DEF startPull, Goto, TypeOK, own, sess, Alone, MarksAlone
  <2>3. /\ pass'[d].local = store[d] /\ pass'[d].known = etag[d]
        /\ pass'[d].landing = Nothing /\ pass'[d].owed = Nothing
    BY <2>1 DEF NoPass
  <2>4. ~Above(store[d], store[d])
    BY SyncAssumption DEF TypeOK, Copy, Above
  <2>5. ListedMark(d)'
    BY <2>1, <2>3, <2>4 DEF ListedMark, Covered
  <2>6. SkipInv(d)' /\ RunningInv(d)'
    BY <1>2, <2>1 DEF SkipInv, RunningInv, Covered, Placing
  <2>7. MarkInv(d)'
    BY <2>1, <2>5, <2>6 DEF MarkInv, ApplyMark, EtagsMark, PutMark, RecordMark
  <2> QED BY <2>2, <2>7, OthersMarked
<1>6. ASSUME NEW d \in Device, pull(d) PROVE Kept
  BY <1>6, PullMarked
<1>7. ASSUME NEW d \in Device, applyRemote(d) PROVE Kept
  BY <1>7, ApplyMarked
<1>8. ASSUME NEW d \in Device, pullFails(d) PROVE Kept
  <2>1. /\ pc'[d] = "flush" /\ Alone(d) /\ MarksAlone(d)
        /\ UNCHANGED <<store, remote, dirty, disk, loaded, up, enabled>>
    BY <1>8 DEF pullFails, Goto, TypeOK, sess, Alone, MarksAlone
  <2>2. \/ etag'[d] = etag[d] /\ pc[d] \in {"listed", "apply", "etags", "put", "record"}
        \/ etag'[d] = pass[d].answer /\ pc[d] \in {"etags", "record"}
    BY <1>8 DEF pullFails, TypeOK
  <2>3. etag'[d] = "current" /\ dirty[d] = FALSE => ~Above(pass[d].owed, remote)
    BY <1>8 DEF pullFails, Steady
  <2>4. /\ SkipInv(d) /\ EtagsMark(d) /\ PutMark(d) /\ RecordMark(d) /\ RunningInv(d)
    BY <1>2 DEF MarkInv
  <2>5. store[d] \in Copy /\ pass[d].owed \in Copy /\ remote \in Copy
    BY DEF TypeOK, Pass
  <2>6. ASSUME etag'[d] = "current", dirty[d] = FALSE PROVE ~Above(store[d], remote)
    <3>1. CASE Covered(d, pass[d].owed)
      BY <2>3, <2>5, <2>6, <3>1, NotAboveTransitive DEF Covered
    <3>2. CASE Covered(d, remote)
      BY <2>6, <3>2 DEF Covered
    <3>3. Covered(d, pass[d].owed) \/ Covered(d, remote)
      BY <2>2, <2>4, <2>6 DEF SkipInv, EtagsMark, PutMark, RecordMark, Placing
    <3> QED BY <3>1, <3>2, <3>3
  <2>7. SkipInv(d)' /\ RunningInv(d)'
    BY <2>1, <2>4, <2>6 DEF SkipInv, RunningInv, Covered
  <2> QED BY <1>1, <2>1, <2>7
<1>9. ASSUME NEW d \in Device, applyRefused(d) PROVE Kept
  <2>1. /\ pass'[d].answer = "none" /\ pass'[d].owed = Nothing
        /\ pc'[d] = "etags" /\ pc[d] = "apply"
        /\ UNCHANGED <<store, etag, remote, dirty, disk, loaded, up, enabled>>
    BY <1>9 DEF applyRefused, Goto, TypeOK, Pass, own, sess
  <2>2. Alone(d) /\ MarksAlone(d)
    BY <1>9 DEF applyRefused, Goto, TypeOK, own, sess, Alone, MarksAlone
  <2>3. SkipInv(d)' /\ RunningInv(d)'
    BY <1>2, <2>1 DEF SkipInv, RunningInv, Covered, Placing
  <2>4. MarkInv(d)'
    BY <2>1, <2>3 DEF MarkInv, ListedMark, ApplyMark, EtagsMark, PutMark, RecordMark
  <2> QED BY <2>2, <2>4, OthersMarked
<1>10. ASSUME NEW d \in Device, writeEtags(d) PROVE Kept
  <2>1. /\ pass'[d].owed = pass[d].owed /\ etag'[d] = pass[d].answer
        /\ pc[d] = "etags" /\ pc'[d] = (IF pass[d].owed = Nothing THEN "flush" ELSE "put")
        /\ UNCHANGED <<store, remote, dirty, disk, loaded, up, enabled>>
    BY <1>10 DEF writeEtags, Goto, TypeOK, Pass, sess
  <2>2. Alone(d) /\ MarksAlone(d)
    BY <1>10 DEF writeEtags, Goto, TypeOK, sess, Alone, MarksAlone
  <2>3. EtagsMark(d) /\ RunningInv(d)'
    BY <1>2, <2>1 DEF MarkInv, RunningInv
  <2>4. SkipInv(d)'
    BY <2>1, <2>3 DEF SkipInv, EtagsMark, Covered, Placing
  <2>5. PutMark(d)'
    BY <2>1, <2>3 DEF PutMark, EtagsMark, Covered
  <2>6. MarkInv(d)'
    BY <2>1, <2>3, <2>4, <2>5 DEF MarkInv, ListedMark, ApplyMark, EtagsMark, RecordMark
  <2> QED BY <2>2, <2>6, OthersMarked
<1>11. ASSUME NEW d \in Device, Goto(d, "record"), pass'[d].answer = "none",
              pc[d] \in {"put", "retry", "retryPut"}, Alone(d), MarksAlone(d),
              pass'[d].owed = pass[d].owed,
              UNCHANGED <<etag, remote, store, dirty, disk, loaded, up, enabled>>
       PROVE  Kept
  <2>1. pc'[d] = "record"
    BY <1>11 DEF Goto, TypeOK
  <2>2. MarkInv(d)'
    BY <1>2, <1>11, <2>1 DEF MarkInv, RunningInv, SkipInv, Placing, ListedMark, ApplyMark,
       EtagsMark, PutMark, RecordMark, Covered
  <2> QED BY <1>11, <2>2, OthersMarked
<1>12. ASSUME NEW d \in Device, put_one(d) PROVE Kept
  <2>1. CASE Condition(d) = "old"
    <3>1. /\ pc[d] = "put" /\ pc'[d] = "retry"
          /\ UNCHANGED <<pass, etag, remote, store, dirty, disk, loaded, up, enabled>>
      BY <1>12, <2>1 DEF put_one, Goto, TypeOK, sess
    <3>2. Alone(d) /\ MarksAlone(d)
      BY <1>12, <2>1 DEF put_one, Goto, TypeOK, sess, Alone, MarksAlone
    <3>3. MarkInv(d)'
      BY <1>2, <3>1 DEF MarkInv, RunningInv, SkipInv, Placing, ListedMark, ApplyMark,
         EtagsMark,
         PutMark, RecordMark, Covered
    <3> QED BY <3>2, <3>3, OthersMarked
  <2>2. CASE Condition(d) # "old"
    <3>1. /\ pc[d] \in {"put", "retryPut"} /\ Goto(d, "record") /\ Place(d, pass[d].owed, TRUE)
          /\ UNCHANGED <<store, dirty, disk, loaded, up, enabled>>
      BY <1>12, <2>2 DEF put_one, sess
    <3> QED BY <3>1, PlaceMarked
  <2> QED BY <2>1, <2>2
<1>13. ASSUME NEW d \in Device, retry_merged(d) PROVE Kept
  <2> DEFINE w == mergeWinner(pass[d].owed, remote)
  <2>1. pass[d].owed \in Copy /\ remote \in Copy /\ store[d] \in Copy
    BY DEF TypeOK, Pass
  <2>2. w \in {pass[d].owed, remote} /\ w \in Copy /\ ~Above(pass[d].owed, w)
    BY <2>1, MergeIsHighest
  <2>3. /\ pc[d] = "retry" /\ UNCHANGED <<store, etag, remote, dirty, disk, loaded, up, enabled>>
        /\ Alone(d) /\ MarksAlone(d)
    BY <1>13 DEF retry_merged, Goto, TypeOK, own, sess, Alone, MarksAlone
  <2>4. Covered(d, pass[d].owed)
    BY <1>2, <2>3 DEF MarkInv, PutMark
  <2>5. Covered(d, w)
    BY <2>1, <2>2, <2>4, NotAboveTransitive DEF Covered
  <2>6. CASE w = remote
    <3>1. pc'[d] = "record" /\ pass'[d].owed = pass[d].owed
      BY <1>13, <2>6 DEF retry_merged, Goto, TypeOK, Pass
    <3>2. MarkInv(d)'
      BY <1>2, <2>3, <2>4, <2>5, <2>6, <3>1 DEF MarkInv, RunningInv, SkipInv, Placing, ListedMark,
         ApplyMark, EtagsMark, PutMark, RecordMark, Covered
    <3> QED BY <2>3, <3>2, OthersMarked
  <2>7. CASE w # remote
    <3>1. /\ pc'[d] = "retryPut"
          /\ pass' = [pass EXCEPT ![d].owed = w, ![d].known = "current"]
      BY <1>13, <2>7 DEF retry_merged, Goto, TypeOK
    <3> HIDE DEF w
    <3>2. pass'[d].owed = w
      BY <3>1 DEF TypeOK, Pass
    <3>3. MarkInv(d)'
      BY <1>2, <2>3, <2>5, <3>1, <3>2 DEF MarkInv, RunningInv, SkipInv, Placing, ListedMark,
         ApplyMark, EtagsMark, PutMark, RecordMark, Covered
    <3> QED BY <2>3, <3>3, OthersMarked
  <2> QED BY <2>6, <2>7
<1>14. ASSUME NEW d \in Device, retryPut(d) PROVE Kept
  <2>1. CASE pass[d].known = "current"
    <3>1. /\ pc[d] \in {"put", "retryPut"} /\ Goto(d, "record") /\ Place(d, pass[d].owed, TRUE)
          /\ UNCHANGED <<store, dirty, disk, loaded, up, enabled>>
      BY <1>14, <2>1 DEF retryPut, sess
    <3> QED BY <3>1, PlaceMarked
  <2>2. CASE pass[d].known # "current"
    <3>1. /\ pc[d] \in {"put", "retry", "retryPut"} /\ Goto(d, "record")
          /\ pass' = [pass EXCEPT ![d].answer = "none", ![d].failed = TRUE]
          /\ UNCHANGED <<etag, remote, store, dirty, disk, loaded, up, enabled>>
      BY <1>14, <2>2 DEF retryPut, sess
    <3>2. Alone(d) /\ MarksAlone(d) /\ pass'[d].answer = "none"
          /\ pass'[d].owed = pass[d].owed
      BY <3>1 DEF Goto, TypeOK, Pass, Alone, MarksAlone
    <3> QED BY <1>11, <3>1, <3>2
  <2> QED BY <2>1, <2>2
<1>15. ASSUME NEW d \in Device, putFails(d) PROVE Kept
  <2>1. /\ pc[d] \in {"put", "retry", "retryPut"} /\ Goto(d, "record")
        /\ UNCHANGED <<store, dirty, disk, loaded, up, enabled>>
    BY <1>15 DEF putFails, sess
  <2>2. CASE pc[d] # "retry" /\ Place(d, pass[d].owed, FALSE)
    BY <2>1, <2>2, PlaceMarked
  <2>3. CASE /\ pass' = [pass EXCEPT ![d].answer = "none", ![d].failed = TRUE]
             /\ UNCHANGED <<remote, etag>>
    <3>1. Alone(d) /\ MarksAlone(d) /\ pass'[d].answer = "none"
          /\ pass'[d].owed = pass[d].owed
      BY <2>1, <2>3 DEF Goto, TypeOK, Pass, Alone, MarksAlone
    <3> QED BY <1>11, <2>1, <2>3, <3>1
  <2> QED BY <1>15, <2>2, <2>3 DEF putFails
<1>16. ASSUME NEW d \in Device, publish(d) PROVE Kept
  <2>1. /\ pc[d] = "record" /\ pc'[d] \in {"idle", "flush"} /\ etag'[d] = pass[d].answer
        /\ UNCHANGED <<store, remote, loaded, up, enabled>>
        /\ dirty[d] = TRUE => dirty'[d] = TRUE
        /\ disk'[d] \in {dirty'[d], disk[d]}
    BY <1>16 DEF publish, Goto, TypeOK, Pass, sess
  <2>2. Alone(d) /\ MarksAlone(d)
    BY <1>16 DEF publish, Goto, TypeOK, sess, Alone, MarksAlone
  <2>3. RunningInv(d)'
    BY <1>2, <2>1 DEF RunningInv
  <2>4. RecordMark(d)
    BY <1>2 DEF MarkInv
  <2>5. dirty[d] \in BOOLEAN /\ dirty'[d] \in BOOLEAN
    BY TypeStep DEF TypeOK
  <2>6. SkipInv(d)'
    BY <2>1, <2>4, <2>5 DEF SkipInv, RecordMark, Covered
  <2> QED BY <1>1, <2>1, <2>2, <2>3, <2>6
<1>17. ASSUME NEW d \in Device, runPush(d) PROVE Kept
  <2>1. /\ pc[d] \in {"flush", "idle"} /\ dirty'[d] = FALSE /\ disk'[d] = FALSE
        /\ loaded'[d] = TRUE /\ pc'[d] = IF hydrate(d) /\ enabled[d] THEN "open" ELSE "idle"
        /\ UNCHANGED <<store, remote, etag, up, enabled>>
    BY <1>17 DEF runPush, Goto, TypeOK, sess
  <2>2. Alone(d) /\ MarksAlone(d)
    BY <1>17 DEF runPush, Goto, TypeOK, sess, Alone, MarksAlone
  <2>3. RunningInv(d)'
    BY <1>2, <2>1 DEF RunningInv
  <2>4. dirty[d] = TRUE => pc'[d] = "open"
    BY <1>2, <2>1 DEF hydrate, RunningInv
  <2>5. dirty[d] \in BOOLEAN
    BY DEF TypeOK
  <2>6. SkipInv(d)'
    BY <1>2, <2>1, <2>4, <2>5 DEF SkipInv, Placing, Covered
  <2> QED BY <1>1, <2>1, <2>2, <2>3, <2>6
<1>18. ASSUME NEW d \in Device, localEnvelopes(d) PROVE Kept
  <2>1. /\ pass' = [pass EXCEPT ![d].owed = store[d], ![d].known = etag[d]]
        /\ pc'[d] = "put" /\ UNCHANGED <<store, etag, remote, dirty, disk, loaded, up, enabled>>
    BY <1>18 DEF localEnvelopes, Goto, TypeOK, own, sess
  <2>2. Alone(d) /\ MarksAlone(d) /\ pass'[d].owed = store[d]
    BY <1>18, <2>1 DEF localEnvelopes, Goto, TypeOK, Pass, own, sess, Alone, MarksAlone
  <2>3. ~Above(store[d], store[d])
    BY SyncAssumption DEF TypeOK, Copy, Above
  <2>4. MarkInv(d)'
    BY <1>2, <2>1, <2>2, <2>3 DEF MarkInv, RunningInv, SkipInv, Placing, ListedMark,
       ApplyMark,
       EtagsMark, PutMark, RecordMark, Covered
  <2> QED BY <2>2, <2>4, OthersMarked
<1>19. ASSUME NEW d \in Device, pushFails(d) PROVE Kept
  <2>1. /\ pc'[d] = "idle" /\ dirty'[d] = TRUE /\ Alone(d) /\ MarksAlone(d)
        /\ UNCHANGED <<store, remote, loaded, up, enabled>>
    BY <1>19 DEF pushFails, Goto, TypeOK, sess, Alone, MarksAlone
  <2>2. RunningInv(d)' /\ SkipInv(d)'
    BY <1>2, <2>1 DEF RunningInv, SkipInv, Covered
  <2> QED BY <1>1, <2>1, <2>2
<1>20. ASSUME NEW d \in Device, takeFails(d) PROVE Kept
  <2>1. /\ pc'[d] = "idle" /\ pc[d] = "flush" /\ Alone(d) /\ MarksAlone(d)
        /\ UNCHANGED <<store, remote, etag, disk, up, enabled>>
        /\ loaded[d] = TRUE => loaded'[d] = TRUE
        /\ dirty[d] = TRUE => dirty'[d] = TRUE
        /\ dirty[d] \in BOOLEAN
    BY <1>20 DEF takeFails, hydrate, Goto, TypeOK, sess, Alone, MarksAlone
  <2>2. RunningInv(d)' /\ SkipInv(d)'
    BY <1>2, <2>1 DEF RunningInv, SkipInv, Placing, Covered
  <2> QED BY <1>1, <2>1, <2>2
<1>22. ASSUME NEW d \in Device,
              crash(d) \/ startSync(d) \/ onToggleEnabled(d) \/ onSave(d)
       PROVE  FALSE
  <2>1. ~crash(d) /\ ~onToggleEnabled(d)
    BY DEF crash, onToggleEnabled, Interrupt, Steady
  <2>2. ~startSync(d) /\ ~onSave(d)
    BY <1>2 DEF startSync, onSave, RunningInv
  <2> QED BY <1>22, <2>1, <2>2
<1>21. CASE UNCHANGED vars
  BY <1>2, <1>21 DEF vars, own, sess, MarkInv, RunningInv, SkipInv, ListedMark, ApplyMark,
     EtagsMark, PutMark, RecordMark, Covered
<1> QED
  BY <1>3, <1>4, <1>5, <1>6, <1>7, <1>8, <1>9, <1>10, <1>12, <1>13, <1>14, <1>15, <1>16,
     <1>17,
     <1>18, <1>19, <1>20, <1>21, <1>22
  DEF Next, PassStep, upsertRule, deleteRule

(* What has been interrupted or stranded stays so.                         *)
LEMMA PastStays ==
  ASSUME TypeOK, [Next]_vars, Steady' PROVE Steady
<1>1. CASE UNCHANGED past
  BY <1>1 DEF Steady, past
<1>2. ASSUME NEW d \in Device, pullFails(d) PROVE Steady
  BY <1>2 DEF pullFails, Steady, TypeOK
<1>3. ASSUME NEW d \in Device, crash(d) \/ onToggleEnabled(d) PROVE Steady
  BY <1>3 DEF crash, onToggleEnabled, Interrupt, Steady
<1>4. ASSUME NEW d \in Device,
             \/ \E deleted \in BOOLEAN : change(d, deleted)
             \/ persistDirty(d) \/ startPull(d) \/ PassStep(d)
             \/ applyRefused(d) \/ putFails(d) \/ pushFails(d) \/ takeFails(d)
             \/ startSync(d) \/ onSave(d)
      PROVE  UNCHANGED past
  BY <1>4 DEF change, persistDirty, startPull, PassStep, pull, applyRemote, applyRefused,
     writeEtags, put_one, retry_merged, retryPut, putFails, publish, runPush, localEnvelopes,
     pushFails, takeFails, startSync, onSave
<1>5. CASE UNCHANGED vars
  BY <1>1, <1>5 DEF vars
<1> QED
  BY <1>1, <1>2, <1>3, <1>4, <1>5 DEF Next, upsertRule, deleteRule

(* No edit falls behind the etag skip unmarked while sync is on, the app   *)
(* runs and no failed pull has stranded what it owed: whatever the         *)
(* providers, the interleaving and the failures.                           *)
THEOREM SyncOwedIsMarked == Spec => []OwedIsMarked
<1> DEFINE I == TypeOK /\ AllMarked
<1>1. Init => I
  <2> SUFFICES ASSUME Init PROVE AllMarked
    BY InitIndInv DEF IndInv
  <2> QED
    BY DEF Init, AllMarked, MarkInv, RunningInv, SkipInv, ListedMark, ApplyMark, EtagsMark,
           PutMark, RecordMark
<1>2. I /\ [Next]_vars => I'
  <2> SUFFICES ASSUME TypeOK, AllMarked, [Next]_vars PROVE TypeOK' /\ AllMarked'
    OBVIOUS
  <2>1. TypeOK'
    BY TypeStep
  <2>2. AllMarked'
    BY PastStays, MarkStep DEF AllMarked
  <2> QED BY <2>1, <2>2
<1>3. I => OwedIsMarked
  <2> SUFFICES ASSUME TypeOK, AllMarked, ~stranded, ~interrupted, NEW d \in Device,
                      etag[d] = "current", Above(store[d], remote), pc[d] \notin Placing
               PROVE  dirty[d]
    BY DEF OwedIsMarked, OwedStaysVisible, HiddenIsMarked, Placing
  <2>1. Steady
    BY DEF Steady, TypeOK
  <2>2. dirty[d] \in BOOLEAN /\ Covered(d, remote)
    BY <2>1 DEF TypeOK, AllMarked, MarkInv, SkipInv
  <2> QED BY <2>2 DEF Covered
<1> QED
  BY <1>1, <1>2, <1>3, PTL DEF Spec

----------------------------------------------------------------------------
(* A step that takes nothing from the copies no pass will replace keeps    *)
(* the newest edit made outside the window of a pull.                      *)
LEMMA FirmKeeps ==
  ASSUME FirmHeld, firm \in Nat, firm' = firm,
         \A e \in Device : /\ Base(e).at \in Nat /\ Base(e)'.at \in Nat
                          /\ Base(e)'.at >= Base(e).at
  PROVE  FirmHeld'
BY DEF FirmHeld

(* A step that changes no store and opens no window.                       *)
LEMMA QuietNewest ==
  ASSUME TypeOK, FirmHeld, \A e \in Device : LandsUp(e), UNCHANGED <<store, time>>,
         \A e \in Device : \/ ~InWindow(e)'
                           \/ /\ pc'[e] = pc[e] /\ pass'[e].local = pass[e].local
                              /\ pass'[e].landing = pass[e].landing
  PROVE  FirmHeld' /\ \A e \in Device : LandsUp(e)'
<1>1. ASSUME NEW e \in Device
      PROVE  /\ Base(e).at \in Nat /\ Base(e)'.at \in Nat /\ Base(e)'.at >= Base(e).at
             /\ LandsUp(e)'
  <2>1. store[e].at \in Nat /\ pass[e].local.at \in Nat
    BY SyncAssumption DEF TypeOK, Pass, Copy
  <2>2. CASE ~InWindow(e)'
    BY <2>1, <2>2 DEF Base, InWindow, LandsUp
  <2>3. CASE /\ pc'[e] = pc[e] /\ pass'[e].local = pass[e].local
             /\ pass'[e].landing = pass[e].landing
    BY <2>1, <2>3 DEF Base, InWindow, LandsUp
  <2> QED BY <2>2, <2>3
<1>2. firm \in Nat /\ firm' = firm
  BY SyncAssumption DEF TypeOK, time
<1> QED BY <1>1, <1>2, FirmKeeps

(* Every step keeps, in some store, the newest edit made outside the       *)
(* window of a pull.                                                       *)
LEMMA NewestStep ==
  ASSUME TypeOK, NewestInv, [Next]_vars
  PROVE  FirmHeld' /\ \A e \in Device : LandsUp(e)'
<1> DEFINE Kept == FirmHeld' /\ \A e \in Device : LandsUp(e)'
<1>1. StampsPast /\ FirmHeld /\ \A e \in Device : LandsUp(e)
  BY DEF NewestInv
<1>2. /\ remote \in Copy /\ clock \in Nat /\ firm \in Nat
      /\ \A e \in Device : /\ store[e] \in Copy /\ pass[e].local \in Copy
                          /\ pass[e].landing \in Copy
                          /\ store[e].at \in Nat /\ pass[e].local.at \in Nat
                          /\ pass[e].landing.at \in Nat /\ Base(e).at \in Nat
                          /\ store[e].at =< clock /\ pass[e].local.at =< clock
  BY <1>1, SyncAssumption DEF TypeOK, Pass, Copy, StampsPast, Base
<1>3. ASSUME NEW d \in Device, UNCHANGED <<store, time>>, pc'[d] \notin {"listed", "apply"},
             \A e \in Device \ {d} : pc'[e] = pc[e],
             \A e \in Device \ {d} : /\ pass'[e].local = pass[e].local
                                     /\ pass'[e].landing = pass[e].landing
      PROVE  Kept
  <2>1. ~InWindow(d)'
    BY <1>3 DEF InWindow
  <2> QED BY <1>1, <1>3, <2>1, QuietNewest
<1>4. ASSUME NEW d \in Device, Alone(d), UNCHANGED <<store, time>>,
             pc'[d] \notin {"listed", "apply"}
      PROVE  Kept
  BY <1>3, <1>4 DEF Alone
<1>5. ASSUME NEW d \in Device, NEW deleted \in BOOLEAN, change(d, deleted) PROVE Kept
  <2>1. /\ store'[d].at = clock + 1 /\ firm' = IF InWindow(d) THEN firm ELSE clock + 1
        /\ pass' = pass /\ pc' = pc /\ \A e \in Device \ {d} : store'[e] = store[e]
    BY <1>5 DEF change, Stamp, TypeOK
  <2>2. \A e \in Device : LandsUp(e)'
    BY <1>1, <1>2, <2>1 DEF LandsUp, InWindow
  <2>3. CASE InWindow(d)
    <3>1. ASSUME NEW e \in Device PROVE Base(e)' = Base(e)
      BY <2>1, <2>3 DEF Base, InWindow
    <3> QED BY <1>1, <2>1, <2>2, <2>3, <3>1 DEF FirmHeld
  <2>4. CASE ~InWindow(d)
    <3>1. Base(d)'.at = clock + 1 /\ firm' = clock + 1
      BY <2>1, <2>4 DEF Base, InWindow
    <3> QED BY <1>2, <2>2, <3>1 DEF FirmHeld
  <2> QED BY <2>3, <2>4
<1>6. ASSUME NEW d \in Device, Alone(d), time' = time, Base(d)'.at \in Nat,
             Base(d)'.at >= Base(d).at, LandsUp(d)'
      PROVE  Kept
  <2>1. ASSUME NEW e \in Device, e # d PROVE Base(e)' = Base(e) /\ LandsUp(e)'
    BY <1>1, <1>6, <2>1 DEF Alone, Base, InWindow, LandsUp
  <2>2. FirmHeld'
    BY <1>1, <1>2, <1>6, <2>1, FirmKeeps DEF time
  <2> QED BY <1>6, <2>1, <2>2
<1>7. ASSUME NEW d \in Device, startPull(d) PROVE Kept
  <2>1. /\ pass'[d] = [NoPass EXCEPT !.local = store[d], !.known = etag[d]]
        /\ pc'[d] = "listed" /\ pc[d] = "idle" /\ UNCHANGED <<store, time>> /\ Alone(d)
    BY <1>7 DEF startPull, Goto, TypeOK, own, Alone
  <2>2. pass'[d].local = store[d] /\ pass'[d].landing = Nothing
    BY <2>1 DEF NoPass
  <2>3. Base(d)' = Base(d) /\ LandsUp(d)'
    BY <1>2, <2>1, <2>2 DEF Base, InWindow, LandsUp
  <2> QED BY <1>2, <1>6, <2>1, <2>3
<1>8. ASSUME NEW d \in Device, pull(d) PROVE Kept
  <2> DEFINE l == pass[d].local
             w == mergeWinner(l, remote)
  <2>1. /\ pass'[d] = Reconciled(d) /\ pc'[d] = "apply" /\ pc[d] = "listed"
        /\ UNCHANGED <<store, time>> /\ Alone(d)
    BY <1>8 DEF pull, Goto, TypeOK, own, Alone
  <2>2. pass[d].landing = Nothing /\ l.at =< store[d].at /\ pass[d] \in Pass
    BY <1>1, <2>1 DEF LandsUp, InWindow, TypeOK
  <2>3. w \in {l, remote} /\ w \in Copy /\ ~Above(l, w)
    BY <1>2, MergeIsHighest
  <2>4. w.at \in Nat /\ l.at \in Nat /\ l.at =< w.at
    BY <1>2, <2>3, SyncAssumption DEF Above, Copy
  <2> HIDE DEF l, w
  <2>5. pass'[d].landing \in {Nothing, w} /\ pass'[d].local = l
    <3>1. CASE Skipped(d)
      BY <2>1, <2>2, <3>1 DEF Reconciled, Pass, l
    <3>2. CASE ~Skipped(d)
      BY <2>1, <2>2, <3>2 DEF Reconciled, Pass, l, w
    <3> QED BY <3>1, <3>2
  <2>6. Base(d)' = Base(d)
    BY <2>1, <2>5 DEF Base, InWindow, l
  <2>7. LandsUp(d)'
    BY <2>1, <2>2, <2>4, <2>5 DEF LandsUp
  <2> QED BY <1>2, <1>6, <2>1, <2>6, <2>7
<1>9. ASSUME NEW d \in Device, applyRemote(d) PROVE Kept
  <2>1. /\ pc'[d] = "etags" /\ pc[d] = "apply" /\ time' = time /\ Alone(d)
        /\ store'[d] \in {store[d], pass[d].landing}
        /\ pass[d].landing = Nothing => store'[d] = store[d]
    BY <1>9 DEF applyRemote, Goto, TypeOK, Alone
  <2>2. store'[d].at \in Nat /\ pass[d].local.at =< store'[d].at
    BY <1>1, <1>2, <2>1 DEF LandsUp, InWindow
  <2>3. Base(d)' = store'[d] /\ Base(d) = pass[d].local /\ LandsUp(d)'
    BY <2>1 DEF Base, InWindow, LandsUp
  <2> QED BY <1>2, <1>6, <2>1, <2>2, <2>3
<1>10. ASSUME NEW d \in Device,
              pullFails(d) \/ pushFails(d) \/ crash(d) \/ publish(d) \/ runPush(d) \/ takeFails(d)
       PROVE  Kept
  <2>1. pc'[d] \in {"idle", "flush", "open"} /\ UNCHANGED <<store, time>> /\ Alone(d)
    BY <1>10 DEF pullFails, pushFails, crash, publish, runPush, takeFails, Goto, TypeOK, Alone
  <2> QED BY <1>4, <2>1
<1>11. ASSUME NEW d \in Device, applyRefused(d) \/ writeEtags(d) \/ localEnvelopes(d)
       PROVE  Kept
  <2>1. /\ pc'[d] \in {"etags", "flush", "put"} /\ UNCHANGED <<store, time>> /\ Alone(d)
    BY <1>11 DEF applyRefused, writeEtags, localEnvelopes, Goto, TypeOK, own, Alone
  <2> QED BY <1>4, <2>1
<1>12. ASSUME NEW d \in Device, NEW answered \in BOOLEAN, Place(d, pass[d].owed, answered),
              Goto(d, "record"), UNCHANGED <<store, time>>
       PROVE  Kept
  <2>1. pc'[d] = "record" /\ \A e \in Device \ {d} : pc'[e] = pc[e]
    BY <1>12 DEF Goto, TypeOK
  <2>2. \A e \in Device : pass'[e].local = pass[e].local /\ pass'[e].landing = pass[e].landing
    BY <1>12, PlaceFields
  <2> QED BY <1>3, <1>12, <2>1, <2>2
<1>13. ASSUME NEW d \in Device, Goto(d, "record"), UNCHANGED <<store, time, remote, etag>>,
              pass' = [pass EXCEPT ![d].answer = "none", ![d].failed = TRUE]
       PROVE  Kept
  <2>1. pc'[d] = "record" /\ Alone(d)
    BY <1>13 DEF Goto, TypeOK, Alone
  <2> QED BY <1>4, <1>13, <2>1
<1>14. ASSUME NEW d \in Device, put_one(d) PROVE Kept
  <2>1. CASE Condition(d) = "old"
    <3>1. pc'[d] = "retry" /\ UNCHANGED <<store, time>> /\ Alone(d)
      BY <1>14, <2>1 DEF put_one, Goto, TypeOK, Alone
    <3> QED BY <1>4, <3>1
  <2>2. CASE Condition(d) # "old"
    BY <1>12, <1>14, <2>2 DEF put_one
  <2> QED BY <2>1, <2>2
<1>15. ASSUME NEW d \in Device, retry_merged(d) PROVE Kept
  <2>1. UNCHANGED <<store, time>> /\ Alone(d) /\ pc'[d] \in {"record", "retryPut"}
    BY <1>15 DEF retry_merged, Goto, TypeOK, own, Alone
  <2> QED BY <1>4, <2>1
<1>16. ASSUME NEW d \in Device, retryPut(d) PROVE Kept
  BY <1>12, <1>13, <1>16 DEF retryPut
<1>17. ASSUME NEW d \in Device, putFails(d) PROVE Kept
  BY <1>12, <1>13, <1>17 DEF putFails
<1>18. CASE UNCHANGED <<store, pc, pass, time>>
  BY <1>1, <1>18, QuietNewest
<1>19. ASSUME NEW d \in Device,
              persistDirty(d) \/ startSync(d) \/ onToggleEnabled(d) \/ onSave(d)
       PROVE  Kept
  BY <1>18, <1>19 DEF persistDirty, startSync, onToggleEnabled, onSave, own
<1>20. CASE UNCHANGED vars
  BY <1>18, <1>20 DEF vars, own
<1> QED
  BY <1>5, <1>7, <1>8, <1>9, <1>10, <1>11, <1>14, <1>15, <1>16, <1>17, <1>19, <1>20
  DEF Next, PassStep, upsertRule, deleteRule

(* An edit made outside the window between a pull's read and its apply is  *)
(* not lost until a newer one is made: some store holds it, whatever edits *)
(* fall in such windows, on every provider and through every failure and   *)
(* end of the app.                                                         *)
THEOREM SyncNewestSurvives == Spec => []NewestSurvives
<1> DEFINE I == TypeOK /\ NewestInv
<1>1. Init => I
  <2> SUFFICES ASSUME Init PROVE NewestInv
    BY InitIndInv DEF IndInv
  <2>1. StampsPast
    BY InitIndInv DEF IndInv
  <2>2. FirmHeld /\ \A d \in Device : LandsUp(d)
    BY SyncAssumption DEF Init, FirmHeld, Base, InWindow, LandsUp, Nothing
  <2> QED BY <2>1, <2>2 DEF NewestInv
<1>2. I /\ [Next]_vars => I'
  BY TypeStep, StampsStep, NewestStep DEF NewestInv
<1>3. I => NewestSurvives
  <2> SUFFICES ASSUME I PROVE NewestSurvives
    OBVIOUS
  <2>1. PICK d \in Device : Base(d).at >= firm
    BY DEF NewestInv, FirmHeld
  <2>2. firm \in Nat /\ store[d].at \in Nat /\ pass[d].local.at \in Nat
    BY SyncAssumption DEF TypeOK, Pass, Copy
  <2>3. store[d].at >= firm
    BY <2>1, <2>2 DEF Base, NewestInv, LandsUp
  <2> QED BY <2>3 DEF NewestSurvives
<1> QED
  BY <1>1, <1>2, <1>3, PTL DEF Spec

----------------------------------------------------------------------------
(* The merge itself, ties and bodies included: SyncRounds, whose constants *)
(* and variables are its own, but for the devices.                         *)

(* The keys the merge compares: the seven parts of store_key and the body. *)
Key == [1 .. 8 -> Int]

(* The comparison of ordering keys is total and never goes both ways.      *)
LEMMA KeysCompare ==
  ASSUME NEW a \in Key, NEW b \in Key
  PROVE  /\ Below(a, b) => ~Below(b, a)
         /\ a # b => Below(a, b) \/ Below(b, a)
<1>1. DOMAIN a = 1 .. 8 /\ DOMAIN b = 1 .. 8 /\ Len(a) = 8 /\ Len(b) = 8
  BY DEF Key
<1>2. ASSUME Below(a, b), Below(b, a) PROVE FALSE
  <2>1. PICK i \in 1 .. 8 : a[i] < b[i] /\ \A j \in 1 .. (i - 1) : a[j] = b[j]
    BY <1>1, <1>2 DEF Below
  <2>2. PICK k \in 1 .. 8 : b[k] < a[k] /\ \A j \in 1 .. (k - 1) : b[j] = a[j]
    BY <1>1, <1>2 DEF Below
  <2> QED BY <2>1, <2>2 DEF Key
<1>3. ASSUME a # b, ~Below(a, b), ~Below(b, a) PROVE FALSE
  <2> DEFINE Same(n) == \A j \in 1 .. n : a[j] = b[j]
  <2>1. ASSUME NEW n \in 1 .. 8, Same(n - 1) PROVE Same(n)
    <3>1. ~(a[n] < b[n]) /\ ~(b[n] < a[n])
      BY <1>1, <1>3, <2>1 DEF Below
    <3> QED BY <3>1, <2>1 DEF Key
  <2>2. Same(0)
    OBVIOUS
  <2> HIDE DEF Same
  <2>3. Same(8)
    <3>1. Same(1) BY <2>1, <2>2
    <3>2. Same(2) BY <2>1, <3>1
    <3>3. Same(3) BY <2>1, <3>2
    <3>4. Same(4) BY <2>1, <3>3
    <3>5. Same(5) BY <2>1, <3>4
    <3>6. Same(6) BY <2>1, <3>5
    <3>7. Same(7) BY <2>1, <3>6
    <3> QED BY <2>1, <3>7
  <2> QED BY <1>1, <1>3, <2>3 DEF Same, Key
<1> QED BY <1>2, <1>3

LEMMA ConcatTwo ==
  ASSUME NEW a, NEW b, NEW c, NEW d, NEW e, NEW f, NEW g
  PROVE  <<a, b>> \o <<c, d, e, f, g>> = <<a, b, c, d, e, f, g>>
<1> DEFINE s == <<a, b>>
           t == <<c, d, e, f, g>>
           u == <<a, b, c, d, e, f, g>>
           S == {a, b, c, d, e, f, g}
<1>1. s \in Seq(S) /\ t \in Seq(S) /\ u \in Seq(S) /\ Len(s) = 2 /\ Len(t) = 5 /\ Len(u) = 7
  OBVIOUS
<1>2. s \o t \in Seq(S) /\ Len(s \o t) = 7
  BY <1>1
<1>3. ASSUME NEW i \in 1 .. 7 PROVE (s \o t)[i] = u[i]
  <2>1. (s \o t)[i] = IF i <= 2 THEN s[i] ELSE t[i - 2]
    BY <1>1
  <2> QED BY <2>1
<1>4. ASSUME NEW A, NEW p \in Seq(A), NEW q \in Seq(A), Len(p) = Len(q),
             \A i \in 1 .. Len(p) : p[i] = q[i]
      PROVE  p = q
  BY <1>4, SeqEqual
<1> HIDE DEF s, t, u, S
<1>5. s \o t = u
  BY <1>1, <1>2, <1>3, <1>4
<1> QED BY <1>5 DEF s, t, u
LEMMA ConcatOne ==
  ASSUME NEW a, NEW b, NEW c, NEW d, NEW e, NEW f, NEW g, NEW h
  PROVE  <<a, b, c, d, e, f, g>> \o <<h>> = <<a, b, c, d, e, f, g, h>>
<1> DEFINE s == <<a, b, c, d, e, f, g>>
           u == <<a, b, c, d, e, f, g, h>>
           S == {a, b, c, d, e, f, g, h}
<1>1. s \in Seq(S) /\ <<h>> \in Seq(S) /\ u \in Seq(S) /\ Len(s) = 7 /\ Len(<<h>>) = 1 /\ Len(u) = 8
  OBVIOUS
<1>2. s \o <<h>> \in Seq(S) /\ Len(s \o <<h>>) = 8
  BY <1>1
<1>3. ASSUME NEW i \in 1 .. 8 PROVE (s \o <<h>>)[i] = u[i]
  <2>1. (s \o <<h>>)[i] = IF i <= 7 THEN s[i] ELSE h
    BY <1>1
  <2> QED BY <2>1
<1>4. ASSUME NEW A, NEW p \in Seq(A), NEW q \in Seq(A), Len(p) = Len(q),
             \A i \in 1 .. Len(p) : p[i] = q[i]
      PROVE  p = q
  BY <1>4, SeqEqual
<1> HIDE DEF s, u, S
<1>5. s \o <<h>> = u
  BY <1>1, <1>2, <1>3, <1>4
<1> QED BY <1>5 DEF s, u

LEMMA BitsTell ==
  ASSUME NEW x \in BOOLEAN, NEW y \in BOOLEAN
  PROVE  Bit(x) \in Int /\ (Bit(x) = Bit(y) => x = y)
  BY DEF Bit

LEMMA EnvelopeTypes ==
  ASSUME NEW e \in Envelopes
  PROVE  /\ e \in [updatedAt : Int, deleted : BOOLEAN,
               record : Records \cup {Null}, secrets : 0 .. 2]
         /\ e.record \in [encrypted : 0 .. 2, fingerprint : 0 .. 2, hasPrivateKey : BOOLEAN,
                          hardware : 1 .. 2, name : Nat]
<1>1. e \in [updatedAt : Int, deleted : BOOLEAN,
               record : Records \cup {Null}, secrets : 0 .. 2]
  BY DEF Envelopes, NoBody, Plain, Sealed
<1>2. Records \subseteq [encrypted : 0 .. 2, fingerprint : 0 .. 2, hasPrivateKey : BOOLEAN,
                               hardware : 1 .. 2, name : Nat]
  <2>1. ASSUME NEW r \in Records
        PROVE  r \in [encrypted : 0 .. 2, fingerprint : 0 .. 2, hasPrivateKey : BOOLEAN,
                      hardware : 1 .. 2, name : Nat]
    <3>1. r \in [encrypted : {0, 1, 2}, fingerprint : {0, 2}, hasPrivateKey : BOOLEAN,
                 hardware : {1, 2}, name : Names]
      BY DEF Records, Absent
    <3>2. r.name \in Nat
      BY <3>1, RoundsAssumption
    <3> QED BY <3>1, <3>2
  <2> QED BY <2>1
<1>3. Null \in [encrypted : 0 .. 2, fingerprint : 0 .. 2, hasPrivateKey : BOOLEAN,
                      hardware : 1 .. 2, name : Nat]
  BY DEF Null, Absent
<1> QED BY <1>1, <1>2, <1>3

(* The keys of envelopes are keys, and name all that an envelope says.     *)
LEMMA KeysAre ==
  ASSUME NEW e \in Envelopes
  PROVE  LET r == e.record
             k == store_key(e)
             o == ordering_key(e)
         IN  /\ k = <<e.updatedAt, Bit(e.deleted), r.encrypted, r.fingerprint,
                      Bit(r.hasPrivateKey), r.hardware, r.name>>
             /\ o = <<e.updatedAt, Bit(e.deleted), r.encrypted, r.fingerprint,
                      Bit(r.hasPrivateKey), r.hardware, r.name, e.secrets>>
             /\ o \in Key
<1> DEFINE r == e.record
           k == store_key(e)
           o == ordering_key(e)
<1>1. k = <<e.updatedAt, Bit(e.deleted), r.encrypted, r.fingerprint,
             Bit(r.hasPrivateKey), r.hardware, r.name>>
  BY ConcatTwo DEF store_key, canonical
<1>2. o = <<e.updatedAt, Bit(e.deleted), r.encrypted, r.fingerprint,
            Bit(r.hasPrivateKey), r.hardware, r.name, e.secrets>>
  BY <1>1, ConcatOne DEF ordering_key
<1>3. /\ e.updatedAt \in Int /\ Bit(e.deleted) \in Int /\ e.secrets \in Int
      /\ r.encrypted \in Int /\ r.fingerprint \in Int /\ Bit(r.hasPrivateKey) \in Int
      /\ r.hardware \in Int /\ r.name \in Int
  <2>1. e.deleted \in BOOLEAN /\ r.hasPrivateKey \in BOOLEAN
    BY EnvelopeTypes
  <2>2. Bit(e.deleted) \in Int /\ Bit(r.hasPrivateKey) \in Int
    BY <2>1, BitsTell
  <2> QED BY <2>2, EnvelopeTypes
<1>4. o \in Key
  BY <1>2, <1>3 DEF Key
<1> QED BY <1>1, <1>2, <1>4

LEMMA KeysTell ==
  ASSUME NEW e \in Envelopes, NEW f \in Envelopes,
         ordering_key(e) = ordering_key(f)
  PROVE  e = f
<1>1. /\ e.updatedAt = f.updatedAt /\ Bit(e.deleted) = Bit(f.deleted) /\ e.secrets = f.secrets
      /\ e.record.encrypted = f.record.encrypted /\ e.record.fingerprint = f.record.fingerprint
      /\ Bit(e.record.hasPrivateKey) = Bit(f.record.hasPrivateKey)
      /\ e.record.hardware = f.record.hardware /\ e.record.name = f.record.name
  BY KeysAre
<1>2. e.deleted = f.deleted /\ e.record.hasPrivateKey = f.record.hasPrivateKey
  BY <1>1, EnvelopeTypes, BitsTell
<1>3. e.record = f.record
  BY <1>1, <1>2, EnvelopeTypes
<1> QED BY <1>1, <1>2, <1>3, EnvelopeTypes


(* An envelope of a hardware key (hw), or of another.                      *)
Sound(e, hw) ==
  /\ e \in Envelopes
  /\ IF hw THEN IsHardware(e) /\ e.secrets = NoBody ELSE IsSoftware(e)

LEMMA NormalizeSame ==
  ASSUME NEW e \in Envelopes PROVE normalize(e) = e
  BY DEF normalize, Envelopes

LEMMA MergeIs ==
  ASSUME NEW l \in Envelopes, NEW r \in Envelopes
  PROVE  merge(l, r) = IF Below(ordering_key(l), ordering_key(r))
                              THEN vaultExceptions(r, l) ELSE vaultExceptions(l, r)
  BY NormalizeSame DEF merge

LEMMA ExceptionsSound ==
  ASSUME NEW w, NEW loser, NEW hw \in BOOLEAN, Sound(w, hw), Sound(loser, hw), Held(w), Held(loser)
  PROVE  /\ Sound(vaultExceptions(w, loser), hw)
         /\ Held(vaultExceptions(w, loser))
<1>1. CASE w.deleted
  BY <1>1 DEF vaultExceptions
<1>2. CASE ~w.deleted
  <2> DEFINE x == IF loser.deleted THEN w.record ELSE encryptedFrom(w.record, loser.record)
             y == dropFingerprint(x)
             v == [w EXCEPT !.record = y]
  <2>1. w.record \in Records /\ (~loser.deleted => loser.record \in Records)
    BY <1>2 DEF Sound, Envelopes
  <2>2. x \in Records /\ x.hardware = w.record.hardware
    BY <2>1 DEF encryptedFrom, Records, Absent
  <2>3. y \in Records /\ y.hardware = w.record.hardware
    BY <2>2 DEF dropFingerprint, Records, Absent
  <2>4. vaultExceptions(w, loser) = v
    BY <1>2 DEF vaultExceptions
  <2> HIDE DEF x, y
  <2>5. /\ v.updatedAt = w.updatedAt /\ v.deleted = w.deleted /\ v.record = y /\ v.secrets = w.secrets
        /\ v \in Envelopes
    BY <1>2, <2>3 DEF Sound, Envelopes, Held
  <2> QED BY <1>2, <2>3, <2>4, <2>5 DEF Sound, IsHardware, IsSoftware,
             Held
<1> QED BY <1>1, <1>2 DEF Sound, Envelopes

LEMMA MergeSound ==
  ASSUME NEW l, NEW r, NEW hw \in BOOLEAN, Sound(l, hw), Sound(r, hw), Held(l), Held(r)
  PROVE  Sound(merge(l, r), hw) /\ Held(merge(l, r))
<1>1. l \in Envelopes /\ r \in Envelopes
  BY DEF Sound
<1> QED BY <1>1, MergeIs, ExceptionsSound

(* What every device and the remote hold is of one kind of key.            *)
Holds(hw) ==
  /\ \A d \in Device : /\ Sound(copy[d], hw) /\ copy[d].secrets = NoBody
                       /\ hw => body[d] = NoBody
  /\ Sound(object, hw)

LEMMA HoldsKind ==
  ASSUME RoundsInv PROVE \E hw \in BOOLEAN : Holds(hw)
<1>1. CASE /\ \A d \in Device : IsHardware(copy[d]) /\ body[d] = NoBody
           /\ IsHardware(object) /\ object.secrets = NoBody
  <2>1. Holds(TRUE)
    BY <1>1 DEF RoundsInv, Holds, Sound
  <2> QED BY <2>1
<1>2. CASE (\A d \in Device : IsSoftware(copy[d])) /\ IsSoftware(object)
  <2>1. Holds(FALSE)
    BY <1>2 DEF RoundsInv, Holds, Sound
  <2> QED BY <2>1
<1> QED BY <1>1, <1>2 DEF RoundsInv, OneKind

LEMMA LocalSound ==
  ASSUME RoundsInv, NEW hw \in BOOLEAN, Holds(hw), NEW d \in Device
  PROVE  /\ Sound(localEnvelope(d), hw)
         /\ Held(localEnvelope(d)) <=> Held(copy[d])
<1> DEFINE b == outboundSecrets(d)
           e == [copy[d] EXCEPT !.secrets = b]
<1>1. copy[d] \in Envelopes /\ body[d] \in {NoBody, Plain, Sealed}
  BY DEF RoundsInv
<1>2. /\ b \in {NoBody, Plain, Sealed}
      /\ b # NoBody => ~copy[d].deleted /\ copy[d].record.hasPrivateKey
      /\ hw => b = NoBody
  BY <1>1 DEF outboundSecrets, Holds
<1>3. ~Held(copy[d]) => b = NoBody
  BY <1>1, <1>2 DEF Envelopes, Null
<1> HIDE DEF b
<1>4. e \in Envelopes
  BY <1>1, <1>2, <1>3 DEF Envelopes, Held
<1> QED BY <1>1, <1>2, <1>4 DEF localEnvelope, Holds, Sound, Envelopes,
           IsHardware,
                                IsSoftware, Held, b

LEMMA LandedSound ==
  ASSUME NEW hw \in BOOLEAN, NEW w, Sound(w, hw), Held(w), NEW d \in Device
  PROVE  /\ Sound(Landed(d, w), hw) /\ Held(Landed(d, w))
         /\ Landed(d, w).secrets = NoBody
<1>1. CASE w.deleted
  <2>1. Landed(d, w) = [w EXCEPT !.secrets = NoBody]
    BY <1>1 DEF Landed
  <2> QED BY <1>1, <2>1 DEF Sound, Envelopes, Held, IsHardware,
             IsSoftware
<1>2. CASE ~w.deleted
  <2> DEFINE t == IF w.updatedAt = NoStamp THEN 0 ELSE w.updatedAt
             has == w.record.hasPrivateKey \/ landsBody(d, w)
             q == [w.record EXCEPT !.hasPrivateKey = has]
             v == [w EXCEPT !.secrets = NoBody, !.updatedAt = t, !.record = q]
  <2>1. w.record \in Records
    BY <1>2 DEF Sound, Envelopes
  <2>2. landsBody(d, w) \in BOOLEAN /\ (landsBody(d, w) => w.record.hardware = Absent)
    BY <1>2 DEF landsBody, Sound, IsSoftware, withSecrets
  <2>3. has \in BOOLEAN /\ (w.record.hardware # Absent => ~has)
    BY <2>1, <2>2 DEF Records
  <2> HIDE DEF has
  <2>4. q \in Records /\ q.hardware = w.record.hardware
    BY <2>1, <2>3 DEF Records
  <2> HIDE DEF q
  <2>5. t \in Int /\ (t # NoObject.updatedAt)
    BY DEF Sound, Envelopes, Held, NoObject, NoStamp
  <2>6. Landed(d, w) = v
    <3>1. w \in [updatedAt : Int, deleted : BOOLEAN, record : Records \cup {Null},
                 secrets : {NoBody, Plain, Sealed}]
      BY DEF Sound, Envelopes
    <3> QED BY <1>2, <2>1, <3>1 DEF Landed, q, has, Records
  <2> HIDE DEF t
  <2>7. /\ v.updatedAt = t /\ v.deleted = w.deleted /\ v.record = q /\ v.secrets = NoBody
        /\ v \in Envelopes
    BY <1>2, <2>4, <2>5 DEF Sound, Envelopes, Held
  <2> QED BY <1>2, <2>4, <2>5, <2>6, <2>7 DEF Sound, Held, IsHardware,
             IsSoftware
<1> QED BY <1>1, <1>2 DEF Sound, Envelopes

LEMMA BodyLands ==
  ASSUME NEW hw \in BOOLEAN, NEW w, Sound(w, hw), NEW d \in Device,
         body[d] \in {NoBody, Plain, Sealed}, hw => body[d] = NoBody
  PROVE  /\ LandedBody(d, w) \in {NoBody, Plain, Sealed}
         /\ hw => LandedBody(d, w) = NoBody
  BY DEF LandedBody, Sound, Envelopes, landsBody

LEMMA CorrectedSound ==
  ASSUME NEW hw \in BOOLEAN, NEW c, Sound(c, hw), Held(c), c.secrets = NoBody,
         NEW b \in {NoBody, Plain, Sealed}, corrects(c, b),
         hw => b = NoBody, corrections \in Nat,
         NEW x \in {NoBody, b}
  PROVE  LET e == Corrected(c, b) IN
         /\ Sound(e, hw) /\ e.secrets = NoBody
         /\ Sound([e EXCEPT !.secrets = x], hw)
<1> DEFINE q == Rederived(c, b)
           n == FirstCorrection + corrections
           e == Corrected(c, b)
           f == [e EXCEPT !.secrets = x]
<1>1. ~c.deleted /\ b # NoBody /\ c.record.hardware = Absent /\ ~hw
  BY DEF corrects, Rederived
<1>2. c.record \in Records
  BY <1>1 DEF Sound, Envelopes
<1>3. q \in Records /\ q.hardware = Absent
  BY <1>1, <1>2 DEF Rederived, Records
<1>4. n \in Int /\ n # NoObject.updatedAt
  BY DEF FirstCorrection, NoObject
<1>5. e = [c EXCEPT !.record = q, !.updatedAt = n]
  BY DEF Corrected
<1> HIDE DEF q, n, e
<1>6. e \in Envelopes /\ Held(e) /\ e.record = q /\ e.secrets = NoBody /\ e.deleted = c.deleted
  BY <1>1, <1>3, <1>4, <1>5 DEF Sound, Envelopes, Held
<1>7. f \in Envelopes /\ Held(f) /\ f.record = q
  BY <1>1, <1>3, <1>6 DEF Envelopes, Held
<1> QED BY <1>1, <1>3, <1>6, <1>7 DEF Sound, IsSoftware, e

LEMMA StampsAre ==
  ASSUME NEW n \in Stamps PROVE n \in Int /\ n # NoObject.updatedAt
<1>1. n \in Nat \cup {NoStamp}
  BY RoundsAssumption
<1>2. NoStamp = -1 /\ NoObject.updatedAt = -2
  BY DEF NoStamp, NoObject
<1> QED BY <1>1, <1>2

LEMMA StartIs ==
  ASSUME NEW a, a.updatedAt \in Int, a.deleted \in BOOLEAN, a.record \in Records \cup {Null},
         IF a.deleted THEN a.record = Null
         ELSE a.record \in Records /\ a.updatedAt # NoObject.updatedAt
  PROVE  Start(a) \in Envelopes /\ Start(a).secrets = NoBody
  BY DEF Start, Envelopes, Held

LEMMA RoundsStart == ASSUME RoundsInit PROVE RoundsInv
<1>1. NoObject \in Envelopes /\ ~Held(NoObject) /\ NoObject.secrets = NoBody
  BY DEF NoObject, Envelopes, Held
<1>2. ASSUME NEW c \in Copies PROVE c \in Envelopes /\ c.secrets = NoBody
  <2>1. CASE c = NoObject
    BY <1>1, <2>1
  <2>2. ASSUME NEW a \in [updatedAt : Stamps, deleted : {FALSE}, record : Records], c = Start(a)
        PROVE  c \in Envelopes /\ c.secrets = NoBody
    <3>1. a.updatedAt \in Int /\ a.updatedAt # NoObject.updatedAt
      BY <2>2, StampsAre
    <3>2. a.deleted = FALSE /\ a.record \in Records
      BY <2>2
    <3>3. Start(a) \in Envelopes /\ Start(a).secrets = NoBody
      BY <3>1, <3>2, StartIs
    <3> QED BY <2>2, <3>3
  <2>3. ASSUME NEW a \in [updatedAt : Stamps \ {NoStamp}, deleted : {TRUE}, record : {Null}],
               c = Start(a)
        PROVE  c \in Envelopes /\ c.secrets = NoBody
    <3>1. a.updatedAt \in Int
      BY <2>3, StampsAre
    <3>2. a.deleted = TRUE /\ a.record = Null
      BY <2>3
    <3>3. Start(a) \in Envelopes /\ Start(a).secrets = NoBody
      BY <3>1, <3>2, StartIs
    <3> QED BY <2>3, <3>3
  <2> QED BY <2>1, <2>2, <2>3 DEF Copies
<1>3. copy \in [Device -> Envelopes] /\ \A d \in Device : copy[d].secrets = NoBody
  BY <1>2 DEF RoundsInit
<1>4. object \in Envelopes /\ corrections \in Nat
  BY <1>1 DEF RoundsInit
<1>5. body \in [Device -> {NoBody, Plain, Sealed}]
  BY RoundsAssumption DEF RoundsInit
<1>6. CASE \E d \in Device : Hardware(copy[d])
  <2>1. \A d \in Device : ~Software(copy[d])
    BY <1>6 DEF RoundsInit
  <2>2. \A d \in Device : IsHardware(copy[d]) /\ body[d] = NoBody
    BY <2>1 DEF RoundsInit, Software, IsHardware
  <2>3. IsHardware(object) /\ object.secrets = NoBody
    BY <1>1 DEF RoundsInit, IsHardware
  <2> QED BY <1>3, <1>4, <1>5, <2>2, <2>3 DEF RoundsInv, OneKind
<1>7. CASE ~ \E d \in Device : Hardware(copy[d])
  <2>1. (\A d \in Device : IsSoftware(copy[d])) /\ IsSoftware(object)
    BY <1>1, <1>7 DEF RoundsInit, Hardware, IsSoftware
  <2> QED BY <1>3, <1>4, <1>5, <2>1 DEF RoundsInv, OneKind
<1> QED BY <1>6, <1>7

(* What a pass of d that came to the winner w makes of its copy c and of   *)
(* the body b that it has by then.                                         *)
Applies(d, w, lands, c, b) ==
  /\ body' = [body EXCEPT ![d] = b]
  /\ \/ /\ lands /\ corrects(c, b) /\ corrections < MaxCorrections
        /\ copy' = [copy EXCEPT ![d] = Corrected(c, b)]
        /\ corrections' = corrections + 1
        /\ Publish(d, [Corrected(c, b) EXCEPT !.secrets = IF d \in Carry THEN b ELSE NoBody])
     \/ /\ ~(lands /\ corrects(c, b))
        /\ copy' = [copy EXCEPT ![d] = c]
        /\ UNCHANGED corrections
        /\ IF content_differs(w, object)
           THEN Publish(d, w)
           ELSE known' = [known EXCEPT ![d] = TRUE] /\ UNCHANGED object

LEMMA RoundsStep ==
  ASSUME RoundsInv, NEW d \in Device, runPull(d) PROVE RoundsInv'
<1>1. PICK hw \in BOOLEAN : Holds(hw)
  BY HoldsKind
<1>2. Held(copy[d]) \/ Held(object)
  BY DEF runPull
<1>3. PICK w : /\ w = Winner(d)
               /\ \E lands \in {Held(object) /\ Lands(d, w)} :
                  \E c \in {IF lands THEN Landed(d, w) ELSE copy[d]} :
                  \E b \in {IF lands THEN LandedBody(d, w) ELSE body[d]} : Applies(d, w, lands, c, b)
  BY Zenon DEF runPull, Applies
<1>4. PICK lands : /\ lands \in {Held(object) /\ Lands(d, w)}
                   /\ \E c \in {IF lands THEN Landed(d, w) ELSE copy[d]} :
                      \E b \in {IF lands THEN LandedBody(d, w) ELSE body[d]} : Applies(d, w, lands, c, b)
  BY <1>3, Zenon
<1>5. PICK c : /\ c = IF lands THEN Landed(d, w) ELSE copy[d]
               /\ \E b \in {IF lands THEN LandedBody(d, w) ELSE body[d]} : Applies(d, w, lands, c, b)
  BY <1>4, Zenon
<1>6. PICK b : /\ b = IF lands THEN LandedBody(d, w) ELSE body[d]
               /\ Applies(d, w, lands, c, b)
  BY <1>5, Zenon
<1> DEFINE e == Corrected(c, b)
           x == IF d \in Carry THEN b ELSE NoBody
<1>7. /\ Sound(copy[d], hw) /\ Sound(object, hw) /\ copy[d].secrets = NoBody
      /\ hw => body[d] = NoBody
      /\ body[d] \in {NoBody, Plain, Sealed} /\ corrections \in Nat
  BY <1>1 DEF RoundsInv, Holds
<1>8. Sound(w, hw) /\ Held(w)
  BY <1>1, <1>2, <1>3, <1>7, LocalSound, MergeSound DEF Winner
<1>9. Sound(c, hw) /\ c.secrets = NoBody /\ (lands => Held(c))
  BY <1>5, <1>7, <1>8, LandedSound
<1>10. b \in {NoBody, Plain, Sealed} /\ (hw => b = NoBody)
  BY <1>6, <1>7, <1>8, BodyLands
<1>11. /\ Sound(copy'[d], hw) /\ copy'[d].secrets = NoBody
       /\ Sound(object', hw) /\ corrections' \in Nat
       /\ \A q \in Device \ {d} : copy'[q] = copy[q]
       /\ copy' \in [Device -> Envelopes]
  <2>1. CASE lands /\ corrects(c, b) /\ copy' = [copy EXCEPT ![d] = e]
              /\ corrections' = corrections + 1 /\ object' = [e EXCEPT !.secrets = x]
    <3>1. Sound(e, hw) /\ e.secrets = NoBody /\ Sound([e EXCEPT !.secrets = x], hw)
      BY <1>7, <1>9, <1>10, <2>1, CorrectedSound
    <3> HIDE DEF e, x
    <3> QED BY <1>7, <2>1, <3>1 DEF RoundsInv, Sound
  <2>2. CASE copy' = [copy EXCEPT ![d] = c] /\ corrections' = corrections /\ (object' = w \/ object' = object)
    BY <1>7, <1>8, <1>9, <2>2 DEF RoundsInv, Sound
  <2> QED BY <1>6, <2>1, <2>2 DEF Applies, Publish
<1>12. /\ body' \in [Device -> {NoBody, Plain, Sealed}]
       /\ body'[d] = b /\ \A q \in Device \ {d} : body'[q] = body[q]
  BY <1>6, <1>10 DEF RoundsInv, Applies
<1>13. Holds(hw)'
  BY <1>1, <1>10, <1>11, <1>12 DEF Holds, Sound
<1> QED BY <1>11, <1>12, <1>13 DEF RoundsInv, OneKind, Holds, Sound

LEMMA CommutesHolds ==
  ASSUME RoundsInv PROVE MergeCommutes
<1> SUFFICES ASSUME NEW d \in Device, NEW e \in Device, Held(copy[d]), Held(copy[e])
             PROVE  merge(localEnvelope(d), localEnvelope(e))
                      = merge(localEnvelope(e), localEnvelope(d))
  BY DEF MergeCommutes, content_differs
<1> DEFINE l == localEnvelope(d)
           r == localEnvelope(e)
<1>1. l \in Envelopes /\ r \in Envelopes
  BY HoldsKind, LocalSound DEF Sound
<1> HIDE DEF l, r
<1>2. ordering_key(l) \in Key /\ ordering_key(r) \in Key
  BY <1>1, KeysAre
<1>3. CASE ordering_key(l) = ordering_key(r)
  <2>1. l = r
    BY <1>1, <1>3, KeysTell
  <2> QED BY <2>1 DEF l, r
<1>4. CASE ordering_key(l) # ordering_key(r)
  <2>1. Below(ordering_key(l), ordering_key(r))
          <=> ~Below(ordering_key(r), ordering_key(l))
    BY <1>2, <1>4, KeysCompare
  <2> QED BY <1>1, <2>1, MergeIs DEF l, r
<1> QED BY <1>3, <1>4

(* Filling in and dropping once more changes nothing, in whichever order   *)
(* the two copies come.                                                    *)
LEMMA ExceptionsSettle ==
  ASSUME NEW R \in Envelopes, NEW l \in Envelopes, Held(R), Held(l)
  PROVE  LET w == vaultExceptions(R, l) IN
         vaultExceptions(R, w) = w /\ vaultExceptions(w, R) = w
<1> DEFINE w == vaultExceptions(R, l)
<1>1. CASE R.deleted
  BY <1>1 DEF vaultExceptions
<1>2. CASE ~R.deleted
  <2> DEFINE a == R.record
             x == IF l.deleted THEN a ELSE encryptedFrom(a, l.record)
             y == dropFingerprint(x)
  <2>1. a \in Records /\ (~l.deleted => l.record \in Records)
    BY <1>2 DEF Envelopes
  <2>2. /\ y \in Records
        /\ dropFingerprint(encryptedFrom(a, y)) = y
        /\ dropFingerprint(encryptedFrom(y, a)) = y
    BY <2>1 DEF encryptedFrom, dropFingerprint, Records, Absent
  <2>3. w = [R EXCEPT !.record = y]
    BY <1>2 DEF vaultExceptions
  <2> HIDE DEF x, y, w
  <2>4. w.record = y /\ w.deleted = R.deleted /\ w.updatedAt = R.updatedAt
    BY <2>3 DEF Envelopes
  <2>5. vaultExceptions(R, w) = [R EXCEPT !.record = y]
    BY <1>2, <2>2, <2>4 DEF vaultExceptions
  <2>6. vaultExceptions(w, R) = [w EXCEPT !.record = y]
    BY <1>2, <2>2, <2>4 DEF vaultExceptions
  <2>7. [w EXCEPT !.record = y] = w
    BY <2>3, <2>4 DEF Envelopes
  <2> QED BY <2>3, <2>5, <2>6, <2>7 DEF w
<1> QED BY <1>1, <1>2 DEF Envelopes

LEMMA FixpointHolds ==
  ASSUME RoundsInv PROVE MergeIsFixpoint
<1> SUFFICES ASSUME NEW d \in Device, Held(copy[d]), Held(object),
                    Below(ordering_key(normalize(localEnvelope(d))),
                                 ordering_key(object))
             PROVE  LET w == merge(localEnvelope(d), object)
                    IN  merge(w, object) = w
  BY DEF MergeIsFixpoint
<1> DEFINE l == localEnvelope(d)
           w == vaultExceptions(object, l)
<1>1. PICK hw \in BOOLEAN : Holds(hw)
  BY HoldsKind
<1>2. Sound(l, hw) /\ Held(l) /\ Sound(object, hw)
  BY <1>1, LocalSound DEF Holds
<1>3. l \in Envelopes /\ object \in Envelopes
  BY <1>2 DEF Sound
<1>4. merge(l, object) = w
  BY <1>3, NormalizeSame, MergeIs
<1>5. w \in Envelopes
  BY <1>2, ExceptionsSound DEF Sound
<1>6. merge(w, object) = w
  BY <1>2, <1>3, <1>5, MergeIs, ExceptionsSettle
<1> QED BY <1>4, <1>6

LEMMA OwnerHolds ==
  ASSUME RoundsInv PROVE FingerprintHasOwner
<1> SUFFICES ASSUME NEW d \in Device, Held(copy[d]), Held(object),
                    ~merge(localEnvelope(d), object).deleted,
                    merge(localEnvelope(d), object).record.fingerprint # Absent
             PROVE  LET w == merge(localEnvelope(d), object).record IN
                    /\ w.hasPrivateKey \/ w.hardware # Absent
                    /\ \E c \in {localEnvelope(d), object} :
                         /\ ~c.deleted /\ c.record.fingerprint # Absent
                         /\ c.record.name = w.name /\ c.record.hasPrivateKey = w.hasPrivateKey
  BY DEF FingerprintHasOwner
<1> DEFINE l == localEnvelope(d)
<1>1. l \in Envelopes /\ object \in Envelopes /\ Held(l)
  BY HoldsKind, LocalSound DEF Holds, Sound
<1>2. ASSUME NEW a \in Envelopes, NEW z \in Envelopes, Held(a), Held(z),
             NEW m, m = vaultExceptions(a, z), ~m.deleted, m.record.fingerprint # Absent
      PROVE  /\ m.record.hasPrivateKey \/ m.record.hardware # Absent
             /\ ~a.deleted /\ a.record.fingerprint # Absent
             /\ a.record.name = m.record.name /\ a.record.hasPrivateKey = m.record.hasPrivateKey
  <2> DEFINE x == IF z.deleted THEN a.record ELSE encryptedFrom(a.record, z.record)
             y == dropFingerprint(x)
  <2>1. ~a.deleted
    BY <1>2 DEF vaultExceptions, Envelopes
  <2>2. a.record \in Records /\ (~z.deleted => z.record \in Records)
    BY <1>2, <2>1 DEF Envelopes
  <2>3. m.record = y
    BY <1>2, <2>1 DEF vaultExceptions, Envelopes
  <2>4. /\ y.hasPrivateKey = a.record.hasPrivateKey /\ y.hardware = a.record.hardware /\ y.name = a.record.name
        /\ y.fingerprint # Absent =>
             /\ y.fingerprint = a.record.fingerprint
             /\ y.hasPrivateKey \/ y.hardware # Absent
    BY <2>2 DEF encryptedFrom, dropFingerprint, Records
  <2> HIDE DEF y
  <2> QED BY <1>2, <2>1, <2>3, <2>4
<1>3. \/ merge(l, object) = vaultExceptions(object, l)
      \/ merge(l, object) = vaultExceptions(l, object)
  BY <1>1, MergeIs
<1> HIDE DEF l
<1> QED BY <1>1, <1>2, <1>3 DEF l

(* Whatever the rounds bring together, merge of model.rs agrees both ways, *)
(* lands a fixed point, leaves a fingerprint with its owner and makes      *)
(* records of a key: for any devices, toggles, stamps, names and bodies.   *)
THEOREM RoundsMergeIsSound ==
  RoundsSpec => []MergeIsSound
<1>1. RoundsInit => RoundsInv
  BY RoundsStart
<1>2. RoundsInv /\ [RoundsNext]_roundsVars => RoundsInv'
  <2>1. ASSUME RoundsInv, RoundsNext PROVE RoundsInv'
    BY <2>1, RoundsStep DEF RoundsNext
  <2>2. ASSUME RoundsInv, UNCHANGED roundsVars PROVE RoundsInv'
    BY <2>2 DEF roundsVars, RoundsInv, OneKind
  <2> QED BY <2>1, <2>2
<1>3. RoundsInv => MergeIsSound
  <2>1. RoundsInv => CopiesAreRecords
    BY DEF RoundsInv, CopiesAreRecords, Envelopes
  <2> QED BY <2>1, CommutesHolds, FixpointHolds, OwnerHolds DEF MergeIsSound
<1> QED BY <1>1, <1>2, <1>3, PTL DEF RoundsSpec

============================================================================
