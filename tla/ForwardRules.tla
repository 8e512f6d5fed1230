---------------------------- MODULE ForwardRules ----------------------------
(***************************************************************************)
(* One port-forward rule and its two possible owners.                      *)
(*                                                                         *)
(*   The page: startRule, stopRule, pageMustStopFirst and the autostart    *)
(*   ladder of src/modules/forwards/controller.ts over the runtime store   *)
(*   of runtime.ts.                                                        *)
(*   The terminals: attachHostForwards, startHostForwards and              *)
(*   stopHostForwards of autostart.ts over the map of hostOwned.ts.        *)
(*                                                                         *)
(* Both stores are keyed by rule id and rules share nothing else here, so  *)
(* one rule is enough.  A step is the code between two suspension points.  *)
(* What tunnel.ts does with a reference is SshTunnel's; here a reference   *)
(* is taken when an open resolves and spent when a close is called.        *)
(***************************************************************************)
EXTENDS Naturals, FiniteSets

CONSTANTS
  Attempt,   \* calls of startRule; one is reused once nothing names it
  Stopper,   \* calls of stopRule that can be in flight together
  Epoch,     \* the epoch objects of attachHostForwards
  Session,   \* backend sessions of the rule's host
  SessionOf, \* epoch -> the session its tabs are on
  MaxTabs,   \* bound: terminal tabs on one session
  Rungs,     \* length of FORWARD_RECONNECT_BACKOFF_MS
  None

ASSUME ForwardRulesAssumption ==
  /\ MaxTabs \in Nat \ {0} /\ Rungs \in Nat
  /\ SessionOf \in [Epoch -> Session]
  /\ None \notin Attempt /\ None \notin Epoch

VARIABLES
  entry,     \* the rule's entry in useForwardRuntime: status and claim
  attempt,   \* startAttempts: the Start on file, or None
  start,     \* attempt -> where its startRule is and the ladder rung it is (0: manual)
  timer,     \* forwardRetries: rungs walked when the pending retry was set, 0: none
  launched,  \* the launch trigger has run, or is not for this rule
  ref,       \* attempts whose reference on the tunnel is unspent
  stop,      \* stopper -> where its stopRule is
  saved,     \* the rule's record exists
  owner,     \* useHostOwnedForwards: the epoch that claimed the rule, or None
  current,   \* tabsBySession: session -> its epoch, or None
  tabs,      \* epoch -> attached terminal tabs
  run,       \* epoch -> where its startHostForwards is
  listening, \* epochs whose own listener the backend has bound
  closing    \* epochs whose listener stopHostForwards is closing

page == <<entry, attempt, start, timer, launched, ref, stop, saved>>
terminal == <<owner, current, tabs, run, listening, closing>>
vars == <<page, terminal>>

Stopped == [status |-> "stopped", claim |-> None]
Starting == [status |-> "starting", claim |-> None]
Failed == [status |-> "failed", claim |-> None]
Running(a) == [status |-> "running", claim |-> a]

IdleStop == [pc |-> "idle", claim |-> None, deletes |-> FALSE]
Dropping == [pc |-> "dropping", claim |-> None, deletes |-> TRUE]

Init ==
  /\ entry = Stopped /\ attempt = None /\ timer = 0
  /\ launched \in BOOLEAN
  /\ start = [a \in Attempt |-> [pc |-> "idle", rung |-> 0]]
  /\ ref = {} /\ saved = TRUE
  /\ stop = [k \in Stopper |-> IdleStop]
  /\ owner = None
  /\ current = [s \in Session |-> None]
  /\ tabs = [e \in Epoch |-> 0]
  /\ run = [e \in Epoch |-> "idle"]
  /\ listening = {} /\ closing = {}

-----------------------------------------------------------------------------
(* The page.                                                               *)

(* A Start is a new Set object: one nothing refers to any more stands for it. *)
Fresh(a) ==
  /\ start[a].pc = "idle" /\ attempt # a /\ entry.claim # a
  /\ \A k \in Stopper : stop[k].claim # a

(* startRule up to its dial: the pending retry is cancelled, a rule a      *)
(* terminal owns is refused, otherwise this attempt goes on file.          *)
startRule(a, rung) ==
  /\ Fresh(a)
  /\ timer' = 0
  /\ IF owner # None
     THEN UNCHANGED <<entry, attempt, start>>
     ELSE /\ attempt' = a
          /\ entry' = Starting
          /\ start' = [start EXCEPT ![a] = [pc |-> "dialling", rung |-> rung]]
  /\ UNCHANGED <<ref, stop, saved, terminal>>

(* RuleCard's Start button, and startForwardAutostart at launch and when   *)
(* a retry's timer fires.  The launch is over before anyone clicks Start.  *)
startClicked(a) ==
  /\ saved /\ launched /\ owner = None /\ entry.status \in {"stopped", "failed"}
  /\ startRule(a, 0)
  /\ UNCHANGED launched

launchAutostart(a) ==
  /\ ~launched /\ saved
  /\ launched' = TRUE
  /\ startRule(a, 1)

retryFires(a) ==
  /\ timer # 0
  /\ startRule(a, timer + 1)
  /\ UNCHANGED launched

ended == [pc |-> "idle", rung |-> 0]

(* Mutant of dialResolves: no look at the terminals on the way back.       *)
dialResolvesNoYield(a) ==
  /\ start[a].pc = "dialling"
  /\ start' = [start EXCEPT ![a] = ended]
  /\ IF attempt # a THEN UNCHANGED <<entry, attempt, ref>>
     ELSE /\ entry' = Running(a) /\ ref' = ref \cup {a} /\ attempt' = None
  /\ UNCHANGED <<timer, launched, stop, saved, terminal>>

(* Mutant of dialResolves: a superseded Start does not give back what its   *)
(* open took.                                                              *)
dialResolvesKeepsRef(a) ==
  /\ start[a].pc = "dialling"
  /\ CASE attempt # a ->
            /\ start' = [start EXCEPT ![a] = ended] /\ ref' = ref \cup {a}
            /\ UNCHANGED <<entry, attempt>>
       [] attempt = a /\ owner # None ->
            start' = [start EXCEPT ![a].pc = "yielding"] /\ UNCHANGED <<entry, attempt, ref>>
       [] OTHER ->
            /\ start' = [start EXCEPT ![a] = ended]
            /\ entry' = Running(a) /\ ref' = ref \cup {a} /\ attempt' = None
  /\ UNCHANGED <<timer, launched, stop, saved, terminal>>

(* The open resolves: a superseded Start and one that finds the rule on a  *)
(* terminal hand the reference straight back, and the second of these      *)
(* waits for the close; otherwise the rule runs.                           *)
dialResolves(a) ==
  /\ start[a].pc = "dialling"
  /\ CASE attempt # a ->
            start' = [start EXCEPT ![a] = ended] /\ UNCHANGED <<entry, attempt, ref>>
       [] attempt = a /\ owner # None ->
            start' = [start EXCEPT ![a].pc = "yielding"] /\ UNCHANGED <<entry, attempt, ref>>
       [] OTHER ->
            /\ start' = [start EXCEPT ![a] = ended]
            /\ entry' = Running(a) /\ ref' = ref \cup {a} /\ attempt' = None
  /\ UNCHANGED <<timer, launched, stop, saved, terminal>>

(* Mutant of yieldClosed: the row is left as it was.                       *)
yieldClosedSilently(a) ==
  /\ start[a].pc = "yielding"
  /\ start' = [start EXCEPT ![a] = ended]
  /\ attempt' = IF attempt = a THEN None ELSE attempt
  /\ UNCHANGED <<entry, timer, launched, ref, stop, saved, terminal>>

(* ...whose close is done: the row is marked stopped, whatever it says now. *)
yieldClosed(a) ==
  /\ start[a].pc = "yielding"
  /\ start' = [start EXCEPT ![a] = ended]
  /\ entry' = Stopped
  /\ attempt' = IF attempt = a THEN None ELSE attempt
  /\ UNCHANGED <<timer, launched, ref, stop, saved, terminal>>

(* Mutant of dialRejects: one rung more than the ladder has.               *)
dialRejectsOneMore(a, transport) ==
  /\ start[a].pc = "dialling"
  /\ start' = [start EXCEPT ![a] = ended]
  /\ IF attempt # a
     THEN UNCHANGED <<entry, attempt, timer>>
     ELSE /\ attempt' = None
          /\ entry' = IF owner # None THEN Stopped ELSE Failed
          /\ timer' = IF owner = None /\ transport /\ start[a].rung # 0
                      THEN start[a].rung ELSE timer
  /\ UNCHANGED <<launched, ref, stop, saved, terminal>>

(* The open rejects.  Only a Start that is current and found no terminal   *)
(* owner failed, and only a ladder's transport failure below its last rung *)
(* schedules another.                                                      *)
dialRejects(a, transport) ==
  /\ start[a].pc = "dialling"
  /\ start' = [start EXCEPT ![a] = ended]
  /\ IF attempt # a
     THEN UNCHANGED <<entry, attempt, timer>>
     ELSE /\ attempt' = None
          /\ entry' = IF owner # None THEN Stopped ELSE Failed
          /\ timer' = IF /\ owner = None /\ transport
                         /\ start[a].rung \in 1..Rungs
                      THEN start[a].rung ELSE timer
  /\ UNCHANGED <<launched, ref, stop, saved, terminal>>

(* The connection ends: tunnel.ts drops its entries, the page hears nothing. *)
sessionDrops ==
  /\ ref # {}
  /\ ref' = {}
  /\ UNCHANGED <<entry, attempt, start, timer, launched, stop, saved, terminal>>

pageMustStopFirst == owner = None /\ (timer # 0 \/ entry.status \in {"running", "starting"})

(* stopRule: cancel the retry, take the attempt off file, spend the claim. *)
(* A claim that is absent or already spent closes nothing and the rule is  *)
(* marked stopped at once.                                                 *)
stopRule(k, deletes) ==
  /\ stop[k].pc = "idle"
  /\ timer' = 0 /\ attempt' = None
  /\ IF entry.claim \in ref
     THEN /\ ref' = ref \ {entry.claim}
          /\ stop' = [stop EXCEPT ![k] = [pc |-> "closing", claim |-> entry.claim,
                                          deletes |-> deletes]]
          /\ UNCHANGED entry
     ELSE /\ entry' = Stopped
          /\ stop' = IF deletes THEN [stop EXCEPT ![k] = Dropping] ELSE stop
          /\ UNCHANGED ref
  /\ UNCHANGED <<start, launched, saved, terminal>>

(* RuleCard's Stop button; releaseRule, for an edit or an incoming change. *)
stopClicked(k) == saved /\ owner = None /\ entry.status = "running" /\ stopRule(k, FALSE)

releaseRule(k) == saved /\ pageMustStopFirst /\ stopRule(k, FALSE)

(* The close answered.                                                     *)
stopDone(k) ==
  /\ stop[k].pc = "closing"
  /\ stop' = [stop EXCEPT ![k] = IF stop[k].deletes THEN Dropping ELSE IdleStop]
  /\ entry' = Stopped
  /\ UNCHANGED <<attempt, start, timer, launched, ref, saved, terminal>>

(* The page's delete: stop what the page must stop, then drop the record.  *)
deleteConfirmed(k) ==
  /\ saved /\ stop[k].pc = "idle"
  /\ IF pageMustStopFirst
     THEN stopRule(k, TRUE)
     ELSE /\ stop' = [stop EXCEPT ![k] = Dropping]
          /\ UNCHANGED <<entry, attempt, start, timer, launched, ref, saved, terminal>>

(* deleteRule, a write that may fail, awaited on its own.                  *)
recordDropped(k) ==
  /\ stop[k].pc = "dropping"
  /\ stop' = [stop EXCEPT ![k] = IdleStop]
  /\ saved' \in {FALSE, saved}
  /\ UNCHANGED <<entry, attempt, start, timer, launched, ref, terminal>>

-----------------------------------------------------------------------------
(* The terminals.                                                          *)

(* Mutant of stillLive: any epoch on the session will do.                  *)
stillLiveAny(e) == current[SessionOf[e]] # None

stillLive(e) == current[SessionOf[e]] = e

(* The first tab on a session starts the run; later tabs ride along.       *)
attachFirst(e) ==
  /\ current[SessionOf[e]] = None /\ run[e] = "idle" /\ e \notin closing
  /\ current' = [current EXCEPT ![SessionOf[e]] = e]
  /\ tabs' = [tabs EXCEPT ![e] = 1]
  /\ run' = [run EXCEPT ![e] = "listing"]
  /\ UNCHANGED <<page, owner, listening, closing>>

attachLater(e) ==
  /\ stillLive(e) /\ tabs[e] < MaxTabs
  /\ tabs' = [tabs EXCEPT ![e] = @ + 1]
  /\ UNCHANGED <<page, owner, current, run, listening, closing>>

(* listRules returned: whether the rule is in the list, and nothing the    *)
(* store does later, decides that the loop comes to it.                    *)
rulesListed(e) ==
  /\ run[e] = "listing"
  /\ run' = [run EXCEPT ![e] = IF saved THEN "listed" ELSE "idle"]
  /\ UNCHANGED <<page, owner, current, tabs, listening, closing>>

(* The loop has done the rules before it: bind, unless the session has no  *)
(* tab left, another session has the rule or the page does.                *)
ruleReached(e) ==
  /\ run[e] = "listed"
  /\ run' = [run EXCEPT ![e] =
       IF /\ stillLive(e) /\ owner = None
          /\ entry.status \notin {"running", "starting"}
       THEN "binding" ELSE "idle"]
  /\ UNCHANGED <<page, owner, current, tabs, listening, closing>>

bindFails(e) ==
  /\ run[e] = "binding"
  /\ run' = [run EXCEPT ![e] = "idle"]
  /\ UNCHANGED <<page, owner, current, tabs, listening, closing>>

(* The bind resolved: close it again when the last tab has gone, another   *)
(* session claimed the rule or the page has it running; otherwise claim    *)
(* it, which makes an error of the page moot.  A page still dialling does  *)
(* not stop the claim.                                                     *)
bindSucceeds(e) ==
  /\ run[e] = "binding"
  /\ listening' = listening \cup {e}
  /\ IF stillLive(e) /\ owner = None /\ entry.status # "running"
     THEN /\ owner' = e
          /\ run' = [run EXCEPT ![e] = "idle"]
          /\ entry' = IF entry.status = "failed" THEN Stopped ELSE entry
     ELSE /\ run' = [run EXCEPT ![e] = "closing"]
          /\ UNCHANGED <<owner, entry>>
  /\ UNCHANGED <<attempt, start, timer, launched, ref, stop, saved, current, tabs, closing>>

duplicateClosed(e) ==
  /\ run[e] = "closing"
  /\ run' = [run EXCEPT ![e] = "idle"]
  /\ listening' = listening \ {e}
  /\ UNCHANGED <<page, owner, current, tabs, closing>>

(* A tab detaches; the last one releases the session's claims at once and  *)
(* then closes their listeners (stopHostForwards).                         *)
detach(e) ==
  /\ tabs[e] > 0
  /\ tabs' = [tabs EXCEPT ![e] = @ - 1]
  /\ IF tabs[e] > 1
     THEN UNCHANGED <<owner, current, closing>>
     ELSE /\ current' = [current EXCEPT ![SessionOf[e]] = None]
          /\ IF owner # None /\ SessionOf[owner] = SessionOf[e]
             THEN owner' = None /\ closing' = closing \cup {owner}
             ELSE UNCHANGED <<owner, closing>>
  /\ UNCHANGED <<page, run, listening>>

ownedClosed(e) ==
  /\ e \in closing
  /\ closing' = closing \ {e}
  /\ listening' = listening \ {e}
  /\ UNCHANGED <<page, owner, current, tabs, run>>

-----------------------------------------------------------------------------
PageNext ==
  \/ \E a \in Attempt :
       \/ startClicked(a) \/ launchAutostart(a) \/ retryFires(a)
       \/ dialResolves(a) \/ yieldClosed(a)
       \/ \E transport \in BOOLEAN : dialRejects(a, transport)
  \/ \E k \in Stopper :
       \/ stopClicked(k) \/ releaseRule(k) \/ stopDone(k)
       \/ deleteConfirmed(k) \/ recordDropped(k)
  \/ sessionDrops

TerminalNext ==
  \E e \in Epoch :
    \/ attachFirst(e) \/ attachLater(e) \/ detach(e)
    \/ rulesListed(e) \/ ruleReached(e) \/ bindSucceeds(e) \/ bindFails(e)
    \/ duplicateClosed(e) \/ ownedClosed(e)

Next == PageNext \/ TerminalNext

Spec == Init /\ [][Next]_vars

(* Dials end (the backend's timeouts see to it), and so do closes.  Nobody *)
(* has to click, and no tab has to close.                                  *)
Fairness ==
  /\ \A a \in Attempt :
       /\ WF_vars(dialResolves(a) \/ \E transport \in BOOLEAN : dialRejects(a, transport))
       /\ WF_vars(yieldClosed(a))
  /\ WF_vars(\E a \in Attempt : retryFires(a))
  /\ \A k \in Stopper : WF_vars(stopDone(k))

FairSpec == Spec /\ Fairness

-----------------------------------------------------------------------------
StopCall ==
  [pc : {"idle", "closing", "dropping"}, claim : Attempt \cup {None}, deletes : BOOLEAN]

(* Every store and every call in flight is well formed, and the ladder never *)
(* schedules past its last rung.                                           *)
TypeOK ==
  /\ entry \in {Stopped, Starting, Failed} \cup {Running(a) : a \in Attempt}
  /\ attempt \in Attempt \cup {None}
  /\ start \in [Attempt -> [pc : {"idle", "dialling", "yielding"}, rung : 0..(Rungs + 1)]]
  /\ timer \in 0..Rungs
  /\ launched \in BOOLEAN /\ saved \in BOOLEAN
  /\ ref \subseteq Attempt
  /\ stop \in [Stopper -> StopCall]
  /\ owner \in Epoch \cup {None}
  /\ current \in [Session -> Epoch \cup {None}]
  /\ tabs \in [Epoch -> 0..MaxTabs]
  /\ run \in [Epoch -> {"idle", "listing", "listed", "binding", "closing"}]
  /\ listening \subseteq Epoch /\ closing \subseteq Epoch

(* "A forward rule runs under one owner at a time" (hostOwned.ts): the page *)
(* never has running what a terminal claimed, although each of the two     *)
(* checks the other only at the ends of its own wait.                      *)
OneOwner == owner # None => entry.status # "running"

(* A claim names a listener that is up, of an epoch whose tabs are there:  *)
(* the row never says "Running (with host)" for a terminal that has gone.  *)
OwnerIsLive ==
  owner # None =>
    /\ tabs[owner] > 0 /\ current[SessionOf[owner]] = owner
    /\ owner \in listening

(* No listener is left that nothing names: a bound one is claimed, or is   *)
(* being closed by the run that bound it or by the last detach.            *)
NoOrphanListener ==
  \A e \in listening : owner = e \/ run[e] = "closing" \/ e \in closing

(* The terminals' claims and listeners match: a claim has its listener and *)
(* its tabs, and a listener its claim, however tabs and binds overlap      *)
(* (startHostForwards, stopHostForwards).                                  *)
ClaimsMatchListeners == OwnerIsLive /\ NoOrphanListener

(* A reference taken on the tunnel is named by the row that a Stop will     *)
(* read, until it is spent: whatever Start, Stop, edit, delete and retry   *)
(* overlap, a step neither adds an unnamed one nor takes the name away.    *)
(* Excepted are the two marks that follow an awaited close: yieldClosed    *)
(* and stopDone mark the row stopped without asking whose it is by then.   *)
ReferenceKeepsName ==
  [][\/ ref' \subseteq (ref \ {entry.claim}) \cup {entry'.claim}
     \/ \E a \in Attempt : yieldClosed(a)
     \/ \E k \in Stopper : stopDone(k)]_vars

(* "Deleting a running rule stops it" (ForwardsPage.tsx), and so does       *)
(* deleting one that is still dialling: no deleted rule comes up, where no *)
(* row could ever stop it.  This is not so: pageMustStopFirst answers for  *)
(* a rule that a terminal has claimed before it looks at the page's dial,  *)
(* which then outlives the rule when the terminal goes first.              *)
DeletedStaysDown == ~saved => entry.status # "running"

(* The epoch on file for a session is one of that session with tabs, and   *)
(* an epoch with tabs is the one on file.                                  *)
EpochsOnFile ==
  /\ \A s \in Session : current[s] # None => SessionOf[current[s]] = s /\ tabs[current[s]] > 0
  /\ \A e \in Epoch : tabs[e] > 0 => current[SessionOf[e]] = e

(* A run that is not over has nothing claimed and nothing being closed by  *)
(* the last detach, and what is being closed is claimed no more.           *)
RunsApart ==
  \A e \in Epoch :
    /\ run[e] # "idle" => owner # e /\ e \notin closing
    /\ e \in closing => owner # e

(* The strengthening that OneOwner, OwnerIsLive and NoOrphanListener need. *)
IndInv ==
  /\ TypeOK /\ EpochsOnFile /\ RunsApart
  /\ OneOwner /\ OwnerIsLive /\ NoOrphanListener

(* A rule does not stay "starting": its dial comes to an end, is yielded   *)
(* or is stopped.                                                          *)
StartingSettles == entry.status = "starting" ~> entry.status # "starting"
=============================================================================
