------------------------------- MODULE Sync -------------------------------
(***************************************************************************)
(* Cross-device sync of one record: the scheduler of every device          *)
(* (src/modules/sync/scheduler.ts), the two round trips it drives          *)
(* (src-tauri/src/modules/sync/engine.rs: pull, push, put_one,             *)
(* retry_merged) and the landing a store makes (applyRemote of             *)
(* src/modules/forwards/store.ts, hosts/store.ts, vault/store.ts).         *)
(*                                                                         *)
(* A copy is a stamp and whether it is a delete; stamp 0 is no copy at     *)
(* all.  Every edit takes the next value of one clock, so a copy is named  *)
(* by its stamp and the merge is by stamp (ties between equal stamps, the  *)
(* vault exceptions and carried bodies are the subject of SyncRounds).     *)
(*                                                                         *)
(* An etag is only ever compared with the etag the remote object has now,  *)
(* so it is modelled by the answer: "current", "old", or "none" when the   *)
(* map holds none.  A put makes every "current" one of the others "old".   *)
(***************************************************************************)
EXTENDS Devices, Naturals

CONSTANTS
  Cas,          \* Cas[d]: does d put with If-Match (config.cas, capabilities().cas)?
  MaxEdits,     \* edits and deletes, over all devices
  MaxFaults     \* failures, ends of the app and switches off, together

ASSUME SyncAssumption ==
  /\ Device # {} /\ Cas \in [Device -> BOOLEAN]
  /\ MaxEdits \in Nat /\ MaxFaults \in Nat

VARIABLES
  store,     \* store[d]: the record or living tombstone in d's store file
  etag,      \* etag[d]: what d's etag map says of the object
  dirty,     \* dirty[d]: is the slot in the scheduler's set?
  disk,      \* disk[d]: is it in the set on file?
  loaded,    \* loaded[d]: has the set on file been folded into memory?
  up,        \* up[d]: is the app running?
  enabled,   \* enabled[d]: config.enabled
  pc,        \* pc[d]: where the pass in flight is
  pass,      \* pass[d]: what it holds across its awaits
  remote,    \* the remote object
  clock,     \* the stamp of the newest edit
  firm,        \* history: the newest edit made outside the window of a pull
  interrupted, \* history: has an app ended, or sync been switched off?
  stranded,    \* history: has a failed pull hidden what it owed, unmarked?
  faults

own    == <<store, etag, dirty, disk, loaded>>
sess   == <<up, enabled>>
time   == <<clock, firm>>
past   == <<interrupted, stranded>>
vars   == <<own, sess, pc, pass, remote, time, past, faults>>

Copy == [at : 0..MaxEdits, deleted : BOOLEAN]
Nothing == [at |-> 0, deleted |-> FALSE]
Etag == {"none", "current", "old"}

Pc == {"idle", "listed", "apply", "etags", "put", "retry", "retryPut", "record", "flush", "open"}

(* local: the envelope the pull read.  known: the etag sent with the       *)
(* request.  landing, owed: what the report says to land and to publish.   *)
(* answer: the etag to record.  failed: did the put fail?  took: did this  *)
(* pass take the dirty mark?                                               *)
Pass == [local : Copy, known : Etag, landing : Copy, owed : Copy,
         answer : Etag, failed : BOOLEAN, took : BOOLEAN]
NoPass == [local |-> Nothing, known |-> "none", landing |-> Nothing, owed |-> Nothing,
           answer |-> "none", failed |-> FALSE, took |-> FALSE]

Live(c) == c.at > 0 /\ ~c.deleted

----------------------------------------------------------------------------
(* ordering_key, as far as one clock needs it: the stamp, then the delete. *)
Above(a, b) == a.at > b.at \/ (a.at = b.at /\ a.deleted /\ ~b.deleted)

(* Mutants: the remote copy always wins; this device's always does.        *)
mergeTakesRemote(l, r) == IF r.at > 0 THEN r ELSE l
mergeKeepsLocal(l, r) == IF l.at > 0 THEN l ELSE r

(* merge: the higher ordering key, the local copy on a tie.                *)
mergeWinner(l, r) == IF Above(r, l) THEN r ELSE l

Init ==
  /\ store = [d \in Device |-> Nothing]
  /\ etag = [d \in Device |-> "none"]
  /\ dirty = [d \in Device |-> FALSE]
  /\ disk = [d \in Device |-> FALSE]
  /\ loaded = [d \in Device |-> TRUE]
  /\ up = [d \in Device |-> TRUE]
  /\ enabled = [d \in Device |-> TRUE]
  /\ pc = [d \in Device |-> "idle"]
  /\ pass = [d \in Device |-> NoPass]
  /\ remote = Nothing
  /\ clock = 0 /\ firm = 0 /\ faults = 0
  /\ interrupted = FALSE /\ stranded = FALSE

Goto(d, where) == pc' = [pc EXCEPT ![d] = where]
Fail == faults < MaxFaults /\ faults' = faults + 1
Interrupt == Fail /\ interrupted' = TRUE
Age(e) == IF e = "current" THEN "old" ELSE e

----------------------------------------------------------------------------
(* A mutator of a store: one commit of the record (or of its tombstone),   *)
(* stamped with this layer's clock, then markDirty.  An edit between a     *)
(* pull's read of the store and its apply is in the window in which the    *)
(* landing, decided on the copy before it, still replaces what it finds.   *)
InWindow(d) == pc[d] \in {"listed", "apply"}

MayEdit(d) == up[d] /\ clock < MaxEdits

Stamp(d) ==
  /\ clock' = clock + 1
  /\ firm' = IF InWindow(d) THEN firm ELSE clock + 1

(* Mutant: the stamp runs one ahead of the clock.                          *)
changeAhead(d, deleted) ==
  /\ MayEdit(d)
  /\ Stamp(d)
  /\ store' = [store EXCEPT ![d] = [at |-> clock + 2, deleted |-> deleted]]
  /\ dirty' = [dirty EXCEPT ![d] = TRUE]
  /\ UNCHANGED <<etag, disk, loaded, sess, pc, pass, remote, past, faults>>

change(d, deleted) ==
  /\ MayEdit(d)
  /\ Stamp(d)
  /\ store' = [store EXCEPT ![d] = [at |-> clock + 1, deleted |-> deleted]]
  /\ dirty' = [dirty EXCEPT ![d] = TRUE]
  /\ UNCHANGED <<etag, disk, loaded, sess, pc, pass, remote, past, faults>>

upsertRule(d) == change(d, FALSE)

deleteRule(d) == Live(store[d]) /\ change(d, TRUE)

(* hydrate: the set on file is folded into memory once per session.        *)
hydrate(d) == dirty[d] \/ (~loaded[d] /\ disk[d])

(* The floating persistDirty of markDirty.                                 *)
persistDirty(d) ==
  /\ up[d] /\ dirty[d] /\ ~disk[d]
  /\ dirty' = [dirty EXCEPT ![d] = hydrate(d)]
  /\ loaded' = [loaded EXCEPT ![d] = TRUE]
  /\ disk' = [disk EXCEPT ![d] = TRUE]
  /\ UNCHANGED <<store, etag, sess, pc, pass, remote, time, past, faults>>

----------------------------------------------------------------------------
(* runPull, to its first round trip: the local envelopes and the etag map. *)
startPull(d) ==
  /\ up[d] /\ enabled[d] /\ pc[d] = "idle"
  /\ pass' = [pass EXCEPT ![d] = [NoPass EXCEPT !.local = store[d], !.known = etag[d]]]
  /\ Goto(d, "listed")
  /\ UNCHANGED <<own, sess, remote, time, past, faults>>

(* pull: an object whose etag has not moved is skipped, and this device's  *)
(* copy with it; otherwise the two copies are reconciled.                  *)
Skipped(d) == remote.at > 0 /\ pass[d].known = "current"

Reconciled(d) ==
  LET l == pass[d].local
      w == mergeWinner(l, remote)
  IN IF Skipped(d)
     THEN [pass[d] EXCEPT !.answer = "current"]
     ELSE [pass[d] EXCEPT !.answer = IF remote.at > 0 THEN "current" ELSE "none",
                          !.landing = IF w # l THEN w ELSE Nothing,
                          !.owed = IF w # remote THEN w ELSE Nothing]

(* Mutant: the map is written with the report, before the apply.           *)
pullWritesEtags(d) ==
  /\ pc[d] = "listed"
  /\ pass' = [pass EXCEPT ![d] = Reconciled(d)]
  /\ etag' = [etag EXCEPT ![d] = Reconciled(d).answer]
  /\ Goto(d, "apply")
  /\ UNCHANGED <<store, dirty, disk, loaded, sess, remote, time, past, faults>>

pull(d) ==
  /\ pc[d] = "listed"
  /\ pass' = [pass EXCEPT ![d] = Reconciled(d)]
  /\ Goto(d, "apply")
  /\ UNCHANGED <<own, sess, remote, time, past, faults>>

(* The catch of runPull.  The session, a read or the pull fails before     *)
(* anything was landed; the correction or the write of the etag map after  *)
(* the landing; publish once the map has advanced.  Whatever the pass owed *)
(* is forgotten: nothing marks it.  A map whose save was refused stays     *)
(* pending in the file layer, which answers the next read with it, so it   *)
(* may have advanced all the same.                                         *)
pullFails(d) ==
  /\ pc[d] \in {"listed", "apply", "etags", "put", "record"} /\ ~pass[d].took
  /\ Fail
  /\ \/ etag' = etag
     \/ pc[d] \in {"etags", "record"} /\ etag' = [etag EXCEPT ![d] = pass[d].answer]
  /\ stranded' = (stranded \/ (/\ etag'[d] = "current" /\ ~dirty[d]
                               /\ Above(pass[d].owed, remote)))
  /\ pass' = [pass EXCEPT ![d] = NoPass]
  /\ Goto(d, "flush")
  /\ UNCHANGED <<store, dirty, disk, loaded, sess, remote, time, interrupted>>

(* applyRemote under the store's write queue: a landed delete drops the    *)
(* record it names; a landed record is outranked only by a newer           *)
(* tombstone.                                                              *)
Outranked(d, landing) ==
  /\ ~landing.deleted
  /\ store[d].deleted
  /\ store[d].at > landing.at

applyRemote(d) ==
  /\ pc[d] = "apply"
  /\ LET landing == pass[d].landing
     IN store' = IF landing = Nothing \/ Outranked(d, landing)
                 THEN store
                 ELSE [store EXCEPT ![d] = landing]
  /\ Goto(d, "etags")
  /\ UNCHANGED <<etag, dirty, disk, loaded, sess, pass, remote, time, past, faults>>

(* The keychain refuses to release the accounts of a record a landed       *)
(* delete names: the record stays, its etag is not recorded and nothing    *)
(* is published for it.                                                    *)
applyRefused(d) ==
  /\ pc[d] = "apply"
  /\ pass[d].landing.deleted /\ Live(store[d])
  /\ Fail
  /\ pass' = [pass EXCEPT ![d].answer = "none", ![d].owed = Nothing]
  /\ Goto(d, "etags")
  /\ UNCHANGED <<own, sess, remote, time, past>>

(* The map advances once the apply has resolved; then publish reads it     *)
(* back as the condition of the put.                                       *)
writeEtags(d) ==
  /\ pc[d] = "etags"
  /\ etag' = [etag EXCEPT ![d] = pass[d].answer]
  /\ pass' = [pass EXCEPT ![d].known = pass[d].answer]
  /\ Goto(d, IF pass[d].owed = Nothing THEN "flush" ELSE "put")
  /\ UNCHANGED <<store, dirty, disk, loaded, sess, remote, time, past, faults>>

----------------------------------------------------------------------------
(* A put that the provider takes: the object is c, and every other etag    *)
(* anyone holds is old.                                                    *)
Place(d, c, answered) ==
  /\ remote' = c
  /\ etag' = [e \in Device |-> Age(etag[e])]
  /\ pass' = [e \in Device |->
       LET p == [pass[e] EXCEPT !.known = Age(@), !.answer = Age(@)]
       IN IF e # d THEN p
          ELSE [p EXCEPT !.answer = IF answered THEN "current" ELSE "none",
                         !.failed = ~answered]]

Condition(d) == IF Cas[d] THEN pass[d].known ELSE "none"

(* put_one.  Without a condition, or with one the object still meets, the  *)
(* copy is stored; otherwise PreconditionFailed sends it to retry_merged.  *)
put_one(d) ==
  /\ pc[d] = "put"
  /\ IF Condition(d) = "old"
     THEN Goto(d, "retry") /\ UNCHANGED <<remote, etag, pass>>
     ELSE Goto(d, "record") /\ Place(d, pass[d].owed, TRUE)
  /\ UNCHANGED <<store, dirty, disk, loaded, sess, time, past, faults>>

(* retry_merged, the get: when the remote copy wins there is nothing to    *)
(* write and its etag is the answer.                                       *)
retry_merged(d) ==
  /\ pc[d] = "retry"
  /\ LET w == mergeWinner(pass[d].owed, remote)
     IN IF w = remote
        THEN /\ pass' = [pass EXCEPT ![d].answer = "current"]
             /\ Goto(d, "record")
        ELSE /\ pass' = [pass EXCEPT ![d].owed = w, ![d].known = "current"]
             /\ Goto(d, "retryPut")
  /\ UNCHANGED <<own, sess, remote, time, past, faults>>

(* retry_merged, the put: a second PreconditionFailed is a failure.        *)
retryPut(d) ==
  /\ pc[d] = "retryPut"
  /\ Goto(d, "record")
  /\ IF pass[d].known = "current"
     THEN Place(d, pass[d].owed, TRUE)
     ELSE /\ pass' = [pass EXCEPT ![d].answer = "none", ![d].failed = TRUE]
          /\ UNCHANGED <<remote, etag>>
  /\ UNCHANGED <<store, dirty, disk, loaded, sess, time, past, faults>>

(* The request fails, with or without its effect.                          *)
putFails(d) ==
  /\ pc[d] \in {"put", "retry", "retryPut"}
  /\ Fail
  /\ Goto(d, "record")
  /\ \/ /\ pass' = [pass EXCEPT ![d].answer = "none", ![d].failed = TRUE]
        /\ UNCHANGED <<remote, etag>>
     \/ /\ pc[d] # "retry"
        /\ pc[d] = "put" => Condition(d) # "old"
        /\ pc[d] = "retryPut" => pass[d].known = "current"
        /\ Place(d, pass[d].owed, FALSE)
  /\ UNCHANGED <<store, dirty, disk, loaded, sess, time, past>>

(* Mutant: a slot that failed keeps the etag the pull recorded, and no     *)
(* mark is put back.                                                       *)
publishForgets(d) ==
  /\ pc[d] = "record"
  /\ etag' = [etag EXCEPT ![d] = IF pass[d].failed THEN @ ELSE pass[d].answer]
  /\ pass' = [pass EXCEPT ![d] = NoPass]
  /\ Goto(d, IF pass[d].took THEN "idle" ELSE "flush")
  /\ UNCHANGED <<store, dirty, disk, loaded, sess, remote, time, past, faults>>

(* The end of publish: the etag answered is recorded, a slot that failed   *)
(* loses its etag and goes back on the dirty set.  The push writes the set *)
(* to the file here, the pull in the flush that follows.                   *)
publish(d) ==
  /\ pc[d] = "record"
  /\ etag' = [etag EXCEPT ![d] = pass[d].answer]
  /\ dirty' = [dirty EXCEPT ![d] = @ \/ pass[d].failed]
  /\ disk' = IF pass[d].took THEN [disk EXCEPT ![d] = dirty'[d]] ELSE disk
  /\ pass' = [pass EXCEPT ![d] = NoPass]
  /\ Goto(d, IF pass[d].took THEN "idle" ELSE "flush")
  /\ UNCHANGED <<store, loaded, sess, remote, time, past, faults>>

----------------------------------------------------------------------------
(* runPush: the mark is taken and its removal written to the file, whether *)
(* or not sync is on.  It is the tail of every pull, and runs by itself    *)
(* when the debounce fires or the settings window asks.                    *)
runPush(d) ==
  /\ up[d]
  /\ pc[d] = "flush" \/ (pc[d] = "idle" /\ hydrate(d))
  /\ loaded' = [loaded EXCEPT ![d] = TRUE]
  /\ dirty' = [dirty EXCEPT ![d] = FALSE]
  /\ disk' = [disk EXCEPT ![d] = FALSE]
  /\ LET going == hydrate(d) /\ enabled[d]
     IN /\ pass' = [pass EXCEPT ![d] = [NoPass EXCEPT !.took = going]]
        /\ Goto(d, IF going THEN "open" ELSE "idle")
  /\ UNCHANGED <<store, etag, sess, remote, time, past, faults>>

(* The session is open: the envelopes of the slots taken, as the stores    *)
(* hold them now, and the etag map.                                        *)
localEnvelopes(d) ==
  /\ pc[d] = "open"
  /\ pass' = [pass EXCEPT ![d].owed = store[d], ![d].known = etag[d]]
  /\ Goto(d, "put")
  /\ UNCHANGED <<own, sess, remote, time, past, faults>>

(* The catch of runPush: a mark taken goes back, in memory and on file if  *)
(* that write succeeds.  What fails is the session, a read or the command  *)
(* before the put, or a write after it, the etag map's or the set's.       *)
pushFails(d) ==
  /\ pc[d] \in {"open", "put", "record"} /\ pass[d].took
  /\ Fail
  /\ \/ etag' = etag
     \/ pc[d] = "record" /\ etag' = [etag EXCEPT ![d] = pass[d].answer]
  /\ dirty' = [dirty EXCEPT ![d] = TRUE]
  /\ disk' \in {disk, [disk EXCEPT ![d] = TRUE]}
  /\ pass' = [pass EXCEPT ![d] = NoPass]
  /\ Goto(d, "idle")
  /\ UNCHANGED <<store, loaded, sess, remote, time, past>>

(* The push fails before it has taken anything, or cannot write that it    *)
(* has: every mark stays, or is put back.                                  *)
takeFails(d) ==
  /\ pc[d] = "flush"
  /\ Fail
  /\ \/ UNCHANGED <<dirty, loaded>>
     \/ /\ dirty' = [dirty EXCEPT ![d] = hydrate(d)]
        /\ loaded' = [loaded EXCEPT ![d] = TRUE]
  /\ Goto(d, "idle")
  /\ UNCHANGED <<store, etag, disk, sess, pass, remote, time, past>>

----------------------------------------------------------------------------
(* The app ends: what is in memory is gone, the files stay.                *)
crash(d) ==
  /\ up[d]
  /\ Interrupt
  /\ up' = [up EXCEPT ![d] = FALSE]
  /\ dirty' = [dirty EXCEPT ![d] = FALSE]
  /\ loaded' = [loaded EXCEPT ![d] = FALSE]
  /\ pass' = [pass EXCEPT ![d] = NoPass]
  /\ Goto(d, "idle")
  /\ UNCHANGED <<store, etag, disk, enabled, remote, time, stranded>>

startSync(d) ==
  /\ ~up[d]
  /\ up' = [up EXCEPT ![d] = TRUE]
  /\ UNCHANGED <<own, enabled, pc, pass, remote, time, past, faults>>

(* The settings window: off is stored at once, on by Save.  Neither        *)
(* touches the etag map while the remote stays the same one.               *)
onToggleEnabled(d) ==
  /\ up[d] /\ enabled[d]
  /\ Interrupt
  /\ enabled' = [enabled EXCEPT ![d] = FALSE]
  /\ UNCHANGED <<own, up, pc, pass, remote, time, stranded>>

onSave(d) ==
  /\ up[d] /\ ~enabled[d]
  /\ enabled' = [enabled EXCEPT ![d] = TRUE]
  /\ UNCHANGED <<own, up, pc, pass, remote, time, past, faults>>

PassStep(d) ==
  \/ pull(d) \/ applyRemote(d) \/ writeEtags(d)
  \/ put_one(d) \/ retry_merged(d) \/ retryPut(d) \/ publish(d)
  \/ runPush(d) \/ localEnvelopes(d)

Next == \E d \in Device :
  \/ upsertRule(d) \/ deleteRule(d) \/ persistDirty(d)
  \/ startPull(d) \/ PassStep(d)
  \/ pullFails(d) \/ applyRefused(d) \/ putFails(d) \/ pushFails(d) \/ takeFails(d)
  \/ crash(d) \/ startSync(d)
  \/ onToggleEnabled(d) \/ onSave(d)

Spec == Init /\ [][Next]_vars

(* A pass that has begun goes on, and every device comes back to the       *)
(* foreground again and again (the focus event is what pulls).             *)
Fairness == \A d \in Device : WF_vars(PassStep(d)) /\ WF_vars(startPull(d))

LiveSpec == Spec /\ Fairness

----------------------------------------------------------------------------
(* The devices' state and the server's keep their types, whatever landed.  *)
TypeOK ==
  /\ store \in [Device -> Copy]
  /\ etag \in [Device -> Etag]
  /\ dirty \in [Device -> BOOLEAN]
  /\ disk \in [Device -> BOOLEAN]
  /\ loaded \in [Device -> BOOLEAN]
  /\ up \in [Device -> BOOLEAN]
  /\ enabled \in [Device -> BOOLEAN]
  /\ pc \in [Device -> Pc]
  /\ pass \in [Device -> Pass]
  /\ remote \in Copy
  /\ clock \in 0..MaxEdits /\ firm \in 0..MaxEdits /\ faults \in 0..MaxFaults
  /\ interrupted \in BOOLEAN /\ stranded \in BOOLEAN

(* An etag recorded for the object's present content hides the object from *)
(* the next pull, so it takes a copy at least as new on this device.       *)
UpToDate(d) == etag[d] = "current" => ~Above(remote, store[d])

(* No landing is skipped: the map of a device that puts without If-Match   *)
(* only ever advances with the landing (sort, apply and publish of         *)
(* scheduler.ts), whatever fails or ends in between.                       *)
NoLandingSkipped == \A d \in Device : ~Cas[d] => UpToDate(d)

(* The map only advances with an apply, on every provider: the NO ETAG     *)
(* CACHE note of engine.rs.                                                *)
MapFollowsApply == \A d \in Device : UpToDate(d)

(* A local edit the next pull cannot see is marked: when the etag skip     *)
(* hides a copy newer than the remote's, the slot is on the dirty set, or  *)
(* the pass in flight is about to place it.                                *)
HiddenIsMarked(d) ==
  etag[d] = "current" /\ Above(store[d], remote)
  => dirty[d] \/ disk[d] \/ pc[d] \in {"open", "put", "retry", "retryPut", "record"}

(* What the remote is missing stays visible: the note on publish in        *)
(* scheduler.ts, as long as no app has ended and sync has stayed on.  (A   *)
(* push that finds sync switched off drops the marks it took, and a mark   *)
(* not on file ends with the app.)                                         *)
OwedStaysVisible ==
  ~interrupted => \A d \in Device : HiddenIsMarked(d)

(* And it does, but for the one history that breaks it: a pull that failed *)
(* between the advance of the map and the end of its publication.          *)
OwedIsMarked == ~stranded => OwedStaysVisible

(* The newest edit survives: some device holds it, or a newer one,         *)
(* whatever passes, failures and ends of the app came after it.  An edit   *)
(* made while a pull of the same device was between its read and its apply *)
(* may be replaced by the landing, and promises nothing of its own.        *)
NewestSurvives == \E d \in Device : store[d].at >= firm

(* Once the user stops editing, the remote comes to hold the newest edit   *)
(* and every device holds what the remote does, for good: unless the app   *)
(* ended or sync was off on the way, the last edit fell in the window of a *)
(* pull or a failed pull stranded what it owed, and but for a device in    *)
(* the state that refutes MapFollowsApply, which NoLandingSkipped rules    *)
(* out for a device that puts without If-Match.                            *)
Settles ==
  <>[](\/ interrupted \/ stranded \/ firm < clock
       \/ remote.at = clock /\ \A d \in Device : store[d] = remote \/ ~UpToDate(d))
============================================================================
