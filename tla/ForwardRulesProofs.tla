------------------------- MODULE ForwardRulesProofs -------------------------
(***************************************************************************)
(* ForwardRules is proved here for every number of attempts, stops, epochs *)
(* and sessions: IndInv is inductive, and with it the page and the         *)
(* terminals never both run the rule and no terminal listener is lost.  At *)
(* the end RemoteForwards is, the registry of the `ssh -R` forwards, for   *)
(* any number of openers and ports, any ports asked for and any set the    *)
(* server picks from.                                                      *)
(***************************************************************************)
EXTENDS ForwardRules, RemoteForwards, TLAPS

(* The parts of IndInv that speak of the terminals alone.                  *)
TerminalInv == EpochsOnFile /\ RunsApart /\ OwnerIsLive /\ NoOrphanListener

(* A step that leaves the terminals alone leaves what is said of them.     *)
LEMMA PageLeavesTerminals ==
  ASSUME TerminalInv, UNCHANGED terminal
  PROVE  TerminalInv'
BY DEF TerminalInv, EpochsOnFile, RunsApart, OwnerIsLive, NoOrphanListener, terminal

(* The records a stop may be.                                              *)
LEMMA StopCalls ==
  /\ IdleStop \in StopCall /\ Dropping \in StopCall
  /\ \A a \in Attempt, d \in BOOLEAN :
       [pc |-> "closing", claim |-> a, deletes |-> d] \in StopCall
BY DEF StopCall, IdleStop, Dropping

(* The initial state.                                                      *)
LEMMA InitIndInv == Init => IndInv
BY ForwardRulesAssumption, StopCalls
DEF Init, IndInv, TypeOK, EpochsOnFile, RunsApart, OneOwner, OwnerIsLive, NoOrphanListener,
    Stopped

(* Every step of startRule keeps the page well typed and the owners apart. *)
LEMMA StartRuleKeeps ==
  ASSUME IndInv, NEW a \in Attempt, NEW rung \in 0..(Rungs + 1), startRule(a, rung),
         launched' \in BOOLEAN
  PROVE  TypeOK' /\ OneOwner'
BY ForwardRulesAssumption
DEF IndInv, TypeOK, OneOwner, startRule, terminal, Starting, Stopped, Failed, Running

(* stopRule likewise.                                                      *)
LEMMA StopRuleKeeps ==
  ASSUME IndInv, NEW k \in Stopper, NEW deletes \in BOOLEAN, stopRule(k, deletes)
  PROVE  TypeOK' /\ OneOwner'
<1> USE ForwardRulesAssumption DEF IndInv, TypeOK, OneOwner, stopRule, terminal
<1>1. ref' \subseteq Attempt /\ owner' = owner /\ saved' \in BOOLEAN
  OBVIOUS
<1>2. entry' \in {entry, Stopped}
  OBVIOUS
<1>3. stop' \in [Stopper -> StopCall]
  <2>1. CASE entry.claim \in ref
    <3>1. [pc |-> "closing", claim |-> entry.claim, deletes |-> deletes] \in StopCall
      BY <2>1, StopCalls
    <3> QED BY <2>1, <3>1
  <2>2. CASE entry.claim \notin ref
    BY <2>2, StopCalls
  <2> QED BY <2>1, <2>2
<1>4. OneOwner'
  BY <1>1, <1>2 DEF Stopped
<1>5. timer' \in 0..Rungs /\ attempt' \in Attempt \cup {None}
  OBVIOUS
<1> QED
  BY <1>1, <1>2, <1>3, <1>4, <1>5

(* The page's steps.                                                       *)
LEMMA PageStep == IndInv /\ PageNext => IndInv'
<1> SUFFICES ASSUME IndInv, PageNext PROVE IndInv'
  OBVIOUS
<1> USE ForwardRulesAssumption
<1>1. UNCHANGED terminal
  BY DEF PageNext, startClicked, launchAutostart, retryFires, startRule, dialResolves,
         yieldClosed, dialRejects, stopClicked, releaseRule, deleteConfirmed, stopRule,
         stopDone, recordDropped, sessionDrops
<1>2. TerminalInv'
  BY <1>1, PageLeavesTerminals DEF IndInv, TerminalInv
<1>3. TypeOK' /\ OneOwner'
  <2>1. ASSUME NEW a \in Attempt, startClicked(a) PROVE TypeOK' /\ OneOwner'
    <3>1. startRule(a, 0) /\ launched' \in BOOLEAN /\ 0 \in 0..(Rungs + 1)
      BY <2>1 DEF startClicked, IndInv, TypeOK
    <3> QED BY <3>1, StartRuleKeeps
  <2>2. ASSUME NEW a \in Attempt, launchAutostart(a) PROVE TypeOK' /\ OneOwner'
    <3>1. startRule(a, 1) /\ launched' \in BOOLEAN /\ 1 \in 0..(Rungs + 1)
      BY <2>2 DEF launchAutostart
    <3> QED BY <3>1, StartRuleKeeps
  <2>3. ASSUME NEW a \in Attempt, retryFires(a) PROVE TypeOK' /\ OneOwner'
    <3>1. startRule(a, timer + 1) /\ launched' \in BOOLEAN /\ timer + 1 \in 0..(Rungs + 1)
      BY <2>3 DEF retryFires, IndInv, TypeOK
    <3> QED BY <3>1, StartRuleKeeps
  <2>4. ASSUME NEW a \in Attempt, dialResolves(a) PROVE TypeOK' /\ OneOwner'
    <3>1. CASE attempt # a
      BY <2>4, <3>1 DEF dialResolves, IndInv, TypeOK, OneOwner, terminal, ended
    <3>2. CASE attempt = a /\ owner # None
      BY <2>4, <3>2 DEF dialResolves, IndInv, TypeOK, OneOwner, terminal, ended
    <3>3. CASE attempt = a /\ owner = None
      BY <2>4, <3>3 DEF dialResolves, IndInv, TypeOK, OneOwner, terminal, ended, Running
    <3> QED BY <3>1, <3>2, <3>3
  <2>5. ASSUME NEW a \in Attempt, yieldClosed(a) PROVE TypeOK' /\ OneOwner'
    BY <2>5 DEF yieldClosed, IndInv, TypeOK, OneOwner, terminal, ended, Stopped
  <2>6. ASSUME NEW a \in Attempt, NEW transport \in BOOLEAN, dialRejects(a, transport)
        PROVE  TypeOK' /\ OneOwner'
    BY <2>6 DEF dialRejects, IndInv, TypeOK, OneOwner, terminal, ended, Stopped, Failed
  <2>7. ASSUME NEW k \in Stopper, stopClicked(k) \/ releaseRule(k) PROVE TypeOK' /\ OneOwner'
    BY <2>7, StopRuleKeeps DEF stopClicked, releaseRule
  <2>8. ASSUME NEW k \in Stopper, deleteConfirmed(k) PROVE TypeOK' /\ OneOwner'
    <3>1. CASE pageMustStopFirst
      BY <2>8, <3>1, StopRuleKeeps DEF deleteConfirmed
    <3>2. CASE ~pageMustStopFirst
      BY <2>8, <3>2, StopCalls DEF deleteConfirmed, IndInv, TypeOK, OneOwner, terminal
    <3> QED BY <3>1, <3>2
  <2>9. ASSUME NEW k \in Stopper, stopDone(k) PROVE TypeOK' /\ OneOwner'
    BY <2>9, StopCalls DEF stopDone, IndInv, TypeOK, OneOwner, terminal, Stopped
  <2>10. ASSUME sessionDrops PROVE TypeOK' /\ OneOwner'
    BY <2>10 DEF sessionDrops, IndInv, TypeOK, OneOwner, terminal
  <2>11. ASSUME NEW k \in Stopper, recordDropped(k) PROVE TypeOK' /\ OneOwner'
    BY <2>11, StopCalls DEF recordDropped, IndInv, TypeOK, OneOwner, terminal
  <2> QED
    BY <2>1, <2>2, <2>3, <2>4, <2>5, <2>6, <2>7, <2>8, <2>9, <2>10, <2>11 DEF PageNext
<1> QED
  BY <1>2, <1>3 DEF IndInv, TerminalInv

(* The terminals' steps.                                                   *)
LEMMA TerminalStep == IndInv /\ TerminalNext => IndInv'
<1> SUFFICES ASSUME IndInv, NEW e \in Epoch,
                    \/ attachFirst(e) \/ attachLater(e) \/ detach(e)
                    \/ rulesListed(e) \/ ruleReached(e) \/ bindSucceeds(e) \/ bindFails(e)
                    \/ duplicateClosed(e) \/ ownedClosed(e)
             PROVE  IndInv'
  BY DEF TerminalNext
<1> USE ForwardRulesAssumption
    DEF IndInv, TypeOK, EpochsOnFile, RunsApart, OneOwner, OwnerIsLive, NoOrphanListener, page
<1>1. CASE attachFirst(e)
  BY <1>1 DEF attachFirst
<1>2. CASE attachLater(e)
  BY <1>2 DEF attachLater, stillLive
<1>3. CASE detach(e)
  <2>1. CASE tabs[e] > 1
    BY <1>3, <2>1 DEF detach
  <2>2. CASE tabs[e] = 1 /\ owner # e
    <3>1. ~(owner # None /\ SessionOf[owner] = SessionOf[e])
      BY <2>2
    <3> QED BY <1>3, <2>2, <3>1 DEF detach
  <2>3. CASE tabs[e] = 1 /\ owner = e
    BY <1>3, <2>3 DEF detach
  <2> QED BY <1>3, <2>1, <2>2, <2>3 DEF detach
<1>4. CASE rulesListed(e)
  BY <1>4 DEF rulesListed
<1>4a. CASE ruleReached(e)
  BY <1>4a DEF ruleReached
<1>5. CASE bindSucceeds(e)
  <2>1. CASE stillLive(e) /\ owner = None /\ entry.status # "running"
    <3>1. entry' \in {entry, Stopped} /\ entry'.status # "running"
      BY <1>5, <2>1 DEF bindSucceeds, Stopped
    <3> QED BY <1>5, <2>1, <3>1 DEF bindSucceeds, stillLive
  <2>2. CASE ~(stillLive(e) /\ owner = None /\ entry.status # "running")
    BY <1>5, <2>2 DEF bindSucceeds
  <2> QED BY <2>1, <2>2
<1>6. CASE bindFails(e)
  BY <1>6 DEF bindFails
<1>7. CASE duplicateClosed(e)
  BY <1>7 DEF duplicateClosed
<1>8. CASE ownedClosed(e)
  BY <1>8 DEF ownedClosed
<1> QED
  BY <1>1, <1>2, <1>3, <1>4, <1>4a, <1>5, <1>6, <1>7, <1>8

(* IndInv holds in every reachable state.                                  *)
THEOREM RulesInvariance == Spec => []IndInv
<1>1. IndInv /\ [Next]_vars => IndInv'
  <2> SUFFICES ASSUME IndInv, [Next]_vars PROVE IndInv'
    OBVIOUS
  <2>1. CASE PageNext
    BY <2>1, PageStep
  <2>2. CASE TerminalNext
    BY <2>2, TerminalStep
  <2>3. CASE UNCHANGED vars
    BY <2>3 DEF vars, page, terminal, IndInv, TypeOK, EpochsOnFile, RunsApart, OneOwner,
                OwnerIsLive, NoOrphanListener
  <2> QED BY <2>1, <2>2, <2>3 DEF Next
<1> QED
  BY <1>1, InitIndInv, PTL DEF Spec

(* The page's and the terminals' stores stay well formed, and the ladder   *)
(* never schedules past its last rung.                                     *)
THEOREM RulesTypeCorrect == Spec => []TypeOK
BY RulesInvariance, PTL DEF IndInv

(* A rule never runs from the page while a terminal holds it.              *)
THEOREM RulesOneOwner == Spec => []OneOwner
BY RulesInvariance, PTL DEF IndInv

(* A terminal's claim always names a live tab's listener, and no terminal  *)
(* listener is left that nothing names.                                    *)
THEOREM RulesClaimsMatch == Spec => []ClaimsMatchListeners
BY RulesInvariance, PTL DEF IndInv, ClaimsMatchListeners

-----------------------------------------------------------------------------
(* The name of a reference.  A rule whose Start is on file, whose retry is *)
(* pending or whose launch has not come has no claim in its row, so none   *)
(* is lost when the row changes; and a Start on file has cancelled the     *)
(* retry.                                                                  *)
NameInv ==
  /\ attempt # None => timer = 0 /\ entry.claim = None
  /\ timer # 0 => entry.claim = None
  /\ ~launched => attempt = None /\ timer = 0 /\ entry.claim = None

Named == ref' \subseteq (ref \ {entry.claim}) \cup {entry'.claim}

(* The row and its claim.                                                  *)
LEMMA RowClaims ==
  ASSUME TypeOK
  PROVE  /\ entry.status \in {"stopped", "failed", "starting"} <=> entry.claim = None
         /\ entry.claim # None => entry.claim \in Attempt
         /\ None \notin ref
BY ForwardRulesAssumption DEF TypeOK, Stopped, Starting, Failed, Running

(* startRule takes a name off the row only if the row has none.            *)
LEMMA StartRuleNames ==
  ASSUME TypeOK, NameInv, NEW a \in Attempt, NEW rung, startRule(a, rung), entry.claim = None
  PROVE  timer' = 0 /\ entry'.claim = None /\ Named
BY RowClaims DEF startRule, Starting, NameInv, Named

(* stopRule spends the claim it takes the name of.                         *)
LEMMA StopRuleNames ==
  ASSUME TypeOK, NameInv, NEW k \in Stopper, NEW deletes \in BOOLEAN, stopRule(k, deletes)
  PROVE  NameInv' /\ Named
<1>1. attempt' = None /\ timer' = 0 /\ launched' = launched
  BY DEF stopRule
<1>2. CASE entry.claim \in ref
  BY <1>1, <1>2 DEF stopRule, NameInv, Named
<1>3. CASE entry.claim \notin ref
  BY <1>1, <1>3 DEF stopRule, NameInv, Named, Stopped
<1> QED
  BY <1>2, <1>3

(* What a step of the system has to show.                                  *)
Exempt == (\E a \in Attempt : yieldClosed(a)) \/ (\E k \in Stopper : stopDone(k))

LEMMA NameStep ==
  ASSUME TypeOK, NameInv, Next
  PROVE  NameInv' /\ (Named \/ Exempt)
<1> USE RowClaims
<1>1. ASSUME NEW a \in Attempt, startClicked(a) \/ launchAutostart(a) \/ retryFires(a)
      PROVE  NameInv' /\ Named
  <2>1. /\ entry.claim = None
        /\ launched' = TRUE
    BY <1>1 DEF startClicked, launchAutostart, retryFires, NameInv, TypeOK
  <2>2. PICK rung : startRule(a, rung)
    BY <1>1 DEF startClicked, launchAutostart, retryFires
  <2>3. timer' = 0 /\ entry'.claim = None /\ Named
    BY <2>1, <2>2, StartRuleNames
  <2> QED BY <2>1, <2>3 DEF NameInv
<1>2. ASSUME NEW a \in Attempt, dialResolves(a) PROVE NameInv' /\ Named
  <2>1. CASE attempt # a \/ owner # None
    BY <1>2, <2>1 DEF dialResolves, NameInv, Named
  <2>2. CASE attempt = a /\ owner = None
    <3>1. /\ entry' = Running(a) /\ ref' = ref \cup {a} /\ attempt' = None
          /\ UNCHANGED <<timer, launched>>
      BY <1>2, <2>2 DEF dialResolves
    <3>2. timer = 0 /\ entry.claim = None /\ launched
      BY <2>2, ForwardRulesAssumption DEF NameInv
    <3> QED BY <3>1, <3>2 DEF NameInv, Named, Running
  <2> QED BY <2>1, <2>2
<1>3. ASSUME NEW a \in Attempt, NEW transport \in BOOLEAN, dialRejects(a, transport)
      PROVE  NameInv' /\ Named
  <2>1. CASE attempt # a
    BY <1>3, <2>1 DEF dialRejects, NameInv, Named
  <2>2. CASE attempt = a
    <3>1. timer = 0 /\ entry.claim = None /\ launched
      BY <2>2, ForwardRulesAssumption DEF NameInv
    <3>2. attempt' = None /\ entry'.claim = None /\ UNCHANGED <<launched, ref>>
      BY <1>3, <2>2 DEF dialRejects, Stopped, Failed
    <3> QED BY <3>1, <3>2 DEF NameInv, Named
  <2> QED BY <2>1, <2>2
<1>4. ASSUME NEW a \in Attempt, yieldClosed(a) PROVE NameInv'
  BY <1>4 DEF yieldClosed, NameInv, Stopped
<1>5. ASSUME NEW k \in Stopper, stopDone(k) PROVE NameInv'
  BY <1>5 DEF stopDone, NameInv, Stopped
<1>6. ASSUME NEW k \in Stopper, stopClicked(k) \/ releaseRule(k) \/ deleteConfirmed(k)
      PROVE  NameInv' /\ Named
  <2>1. CASE \E deletes \in BOOLEAN : stopRule(k, deletes)
    BY <2>1, StopRuleNames
  <2>2. CASE UNCHANGED <<entry, attempt, timer, launched, ref>>
    BY <2>2 DEF NameInv, Named
  <2> QED BY <1>6, <2>1, <2>2 DEF stopClicked, releaseRule, deleteConfirmed
<1>7. ASSUME sessionDrops PROVE NameInv' /\ Named
  BY <1>7 DEF sessionDrops, NameInv, Named
<1>9. ASSUME NEW k \in Stopper, recordDropped(k) PROVE NameInv' /\ Named
  BY <1>9 DEF recordDropped, NameInv, Named
<1>8. ASSUME TerminalNext PROVE NameInv' /\ Named
  <2>1. PICK e \in Epoch : \/ attachFirst(e) \/ attachLater(e) \/ detach(e)
                           \/ rulesListed(e) \/ ruleReached(e) \/ bindSucceeds(e) \/ bindFails(e)
                           \/ duplicateClosed(e) \/ ownedClosed(e)
    BY <1>8 DEF TerminalNext
  <2>2. /\ UNCHANGED <<attempt, timer, launched, ref>>
        /\ entry' = entry \/ (entry.status = "failed" /\ entry' = Stopped)
    BY <2>1 DEF attachFirst, attachLater, detach, rulesListed, ruleReached, bindSucceeds, bindFails,
                duplicateClosed, ownedClosed, page
  <2>3. entry'.claim = entry.claim
    BY <2>2 DEF Stopped
  <2> QED BY <2>2, <2>3 DEF NameInv, Named
<1> QED
  BY <1>1, <1>2, <1>3, <1>4, <1>5, <1>6, <1>7, <1>8, <1>9 DEF Next, PageNext, Exempt

(* No step of Start, Stop, edit, delete and retry, whatever they overlap,  *)
(* leaves a reference on the tunnel that no Stop can find, but for the two *)
(* marks after an awaited close (startRule, stopRule of controller.ts).    *)
THEOREM RulesReferenceKeepsName == Spec => ReferenceKeepsName
<1>1. Init => NameInv
  BY DEF Init, NameInv, Stopped
<1>2. TypeOK /\ NameInv /\ [Next]_vars => NameInv'
  <2> SUFFICES ASSUME TypeOK, NameInv, [Next]_vars PROVE NameInv'
    OBVIOUS
  <2>1. CASE Next
    BY <2>1, NameStep
  <2>2. CASE UNCHANGED vars
    BY <2>2 DEF NameInv, vars, page
  <2> QED BY <2>1, <2>2
<1>3. TypeOK /\ NameInv /\ [Next]_vars => [Named \/ Exempt]_vars
  BY NameStep
<1>4. [Named \/ Exempt]_vars =>
        [\/ ref' \subseteq (ref \ {entry.claim}) \cup {entry'.claim}
         \/ \E a \in Attempt : yieldClosed(a)
         \/ \E k \in Stopper : stopDone(k)]_vars
  BY DEF Named, Exempt
<1> QED
  BY <1>1, <1>2, <1>3, <1>4, RulesTypeCorrect, PTL DEF Spec, ReferenceKeepsName

-----------------------------------------------------------------------------
(* The registry of the remote forwards.                                    *)

(* The handle is held by the one opener whose request is out.              *)
HandleInv == \A r \in Opener : pc[r] \in {"asked", "bound"} <=> handle = r

(* An opener has a port from the server's answer to its close: the one it  *)
(* asked for, or one of those the server picks from.                       *)
BoundInv ==
  \A r \in Opener :
    /\ bound[r] \in Port <=> pc[r] \in {"bound", "running", "closing"}
    /\ Pinned(r) => bound[r] \in {Nobody, AskedPort[r]}
    /\ ~Pinned(r) => bound[r] \in Ephemeral \cup {Nobody}

(* The server listens, on a port that is not contested, for exactly the    *)
(* opener that has the port, as long as there is a connection.             *)
ServerInv ==
  /\ ~up => \A p \in Port : server[p] = Nobody
  /\ \A r \in Opener : up /\ bound[r] # Nobody /\ ~Contested(bound[r]) => server[bound[r]] = r
  /\ \A p \in Port : server[p] # Nobody /\ ~Contested(p) => bound[server[p]] = p

(* A port that is not contested is registered to an opener that asked for  *)
(* it or runs on it, from the request of a pinned one and the answer to    *)
(* any other until its close.                                              *)
Registers(r, p) ==
  \/ Pinned(r) /\ AskedPort[r] = p /\ pc[r] \in {"asked", "bound", "running"}
  \/ ~Pinned(r) /\ bound[r] = p /\ pc[r] = "running"

RegistryInv ==
  \A p \in Port : ~Contested(p) =>
    /\ registry[p] # Nobody => Registers(registry[p], p)
    /\ up => \A r \in Opener : Registers(r, p) => registry[p] = r

RemoteInv == RemoteTypeOK /\ HandleInv /\ BoundInv /\ ServerInv /\ RegistryInv

(* Nobody else asks for the uncontested port of a pinned opener, and the   *)
(* server does not pick it.                                                *)
LEMMA PinnedAlone ==
  ASSUME NEW r \in Opener, Pinned(r), ~Contested(AskedPort[r]), NEW s \in Opener, s # r
  PROVE  AskedPort[s] # AskedPort[r] /\ (~Pinned(s) => AskedPort[r] \notin Ephemeral)
BY DEF Contested, Pinned

(* The initial state.                                                      *)
LEMMA InitRemoteInv == RemoteInit => RemoteInv
BY RemoteForwardsAssumption
DEF RemoteInit, RemoteInv, RemoteTypeOK, HandleInv, BoundInv, ServerInv, RegistryInv, Registers, Pinned

(* One lemma for each action.                                              *)
LEMMA OpenKeeps == ASSUME RemoteInv, NEW r \in Opener, open_remote_forward(r) PROVE RemoteInv'
<1> USE RemoteForwardsAssumption DEF RemoteInv, RemoteTypeOK, HandleInv, BoundInv, open_remote_forward
<1>1. RemoteTypeOK' /\ HandleInv' /\ BoundInv'
  BY DEF Pinned
<1>2. ServerInv'
  BY DEF ServerInv
<1>3. RegistryInv'
  <2>1. CASE Pinned(r)
    BY <2>1, PinnedAlone DEF RegistryInv, Registers, Pinned
  <2>2. CASE ~Pinned(r)
    BY <2>2 DEF RegistryInv, Registers
  <2> QED BY <2>1, <2>2
<1> QED BY <1>1, <1>2, <1>3

LEMMA BindsKeeps == ASSUME RemoteInv, NEW r \in Opener, serverBinds(r) PROVE RemoteInv'
<1> USE RemoteForwardsAssumption DEF RemoteInv, RemoteTypeOK, HandleInv, BoundInv
<1> PICK p \in Port :
      /\ server[p] = Nobody
      /\ IF Pinned(r) THEN p = AskedPort[r] ELSE p \in Ephemeral
      /\ server' = [server EXCEPT ![p] = r]
      /\ bound' = [bound EXCEPT ![r] = p]
  BY DEF serverBinds
<1>0. pc[r] = "asked" /\ up /\ pc' = [pc EXCEPT ![r] = "bound"] /\ UNCHANGED <<registry, handle, up>>
  BY DEF serverBinds
<1>1. RemoteTypeOK' /\ HandleInv' /\ BoundInv'
  BY <1>0 DEF Pinned
<1>2. ServerInv'
  BY <1>0 DEF ServerInv
<1>3. RegistryInv'
  BY <1>0 DEF RegistryInv, Registers
<1> QED BY <1>1, <1>2, <1>3

LEMMA SucceedsKeeps == ASSUME RemoteInv, NEW r \in Opener, openSucceeds(r) PROVE RemoteInv'
<1> USE RemoteForwardsAssumption DEF RemoteInv, RemoteTypeOK, HandleInv, BoundInv, openSucceeds
<1>1. RemoteTypeOK' /\ HandleInv' /\ BoundInv'
  BY DEF Pinned
<1>2. ServerInv'
  BY DEF ServerInv
<1>3. RegistryInv'
  <2>1. CASE Pinned(r)
    BY <2>1 DEF RegistryInv, Registers
  <2>2. CASE ~Pinned(r)
    <3> SUFFICES ASSUME NEW p \in Port, ~Contested(p)
                 PROVE  /\ (registry[p] # Nobody => Registers(registry[p], p))'
                        /\ up' => \A q \in Opener : Registers(q, p)' => registry'[p] = q
      BY DEF RegistryInv, Contested, Pinned
    <3>1. CASE p # bound[r]
      BY <2>2, <3>1 DEF RegistryInv, Registers
    <3>2. CASE p = bound[r]
      <4>1. server[p] = r /\ p \in Ephemeral /\ registry'[p] = r
        BY <2>2, <3>2 DEF ServerInv
      <4>2. ASSUME NEW q \in Opener, q # r PROVE ~Registers(q, p)'
        BY <2>2, <3>2, <4>1, <4>2 DEF Registers, ServerInv, Contested, Pinned
      <4> QED BY <2>2, <3>2, <4>1, <4>2 DEF Registers, Pinned
    <3> QED BY <3>1, <3>2
  <2> QED BY <2>1, <2>2
<1> QED BY <1>1, <1>2, <1>3

LEMMA FailsKeeps == ASSUME RemoteInv, NEW r \in Opener, openFails(r) PROVE RemoteInv'
<1> USE RemoteForwardsAssumption DEF RemoteInv, RemoteTypeOK, HandleInv, BoundInv, openFails
<1>1. RemoteTypeOK' /\ HandleInv' /\ BoundInv'
  BY DEF Pinned
<1>2. ServerInv'
  BY DEF ServerInv
<1>3. RegistryInv'
  <2>1. CASE Pinned(r)
    BY <2>1, PinnedAlone DEF RegistryInv, Registers, Pinned
  <2>2. CASE ~Pinned(r)
    BY <2>2 DEF RegistryInv, Registers
  <2> QED BY <2>1, <2>2
<1> QED BY <1>1, <1>2, <1>3

LEMMA CloseKeeps == ASSUME RemoteInv, NEW r \in Opener, close_remote_forward(r) PROVE RemoteInv'
<1> USE RemoteForwardsAssumption DEF RemoteInv, RemoteTypeOK, HandleInv, BoundInv, close_remote_forward
<1>1. RemoteTypeOK' /\ HandleInv' /\ BoundInv'
  BY DEF Pinned
<1>2. ServerInv'
  BY DEF ServerInv, RegistryInv, Registers, Pinned
<1>3. RegistryInv'
  BY DEF RegistryInv, Registers, Pinned
<1> QED BY <1>1, <1>2, <1>3

LEMMA CancelKeeps == ASSUME RemoteInv, NEW r \in Opener, cancelListen(r) PROVE RemoteInv'
<1> USE RemoteForwardsAssumption DEF RemoteInv, RemoteTypeOK, HandleInv, BoundInv, cancelListen
<1>1. RemoteTypeOK' /\ HandleInv' /\ BoundInv'
  BY DEF Pinned
<1>2. ServerInv'
  BY DEF ServerInv
<1>3. RegistryInv'
  BY DEF RegistryInv, Registers
<1> QED BY <1>1, <1>2, <1>3

LEMMA EndsKeeps == ASSUME RemoteInv, sessionEnds PROVE RemoteInv'
BY DEF RemoteInv, RemoteTypeOK, HandleInv, BoundInv, ServerInv, RegistryInv, Registers, sessionEnds

(* RemoteInv holds in every reachable state.                                  *)
THEOREM ForwardsInvariance == RemoteSpec => []RemoteInv
<1>1. RemoteInv /\ [RemoteNext]_remoteVars => RemoteInv'
  <2> SUFFICES ASSUME RemoteInv, [RemoteNext]_remoteVars PROVE RemoteInv'
    OBVIOUS
  <2>1. CASE UNCHANGED remoteVars
    BY <2>1 DEF remoteVars, RemoteInv, RemoteTypeOK, HandleInv, BoundInv, ServerInv, RegistryInv, Registers
  <2> QED
    BY <2>1, OpenKeeps, BindsKeeps, SucceedsKeeps, FailsKeeps, CloseKeeps, CancelKeeps, EndsKeeps
    DEF RemoteNext
<1> QED
  BY <1>1, InitRemoteInv, PTL DEF RemoteSpec

(* A connection accepted on the port of a running remote forward goes to   *)
(* its own target, and none goes to the target of another rule, on every   *)
(* port that two rules do not contest.                                     *)
THEOREM ForwardsRouted == RemoteSpec => []RunningIsRouted
<1>1. RemoteInv => RunningIsRouted
  <2> SUFFICES ASSUME RemoteInv PROVE RunningIsRouted
    OBVIOUS
  <2> USE RemoteForwardsAssumption DEF RemoteInv, RemoteTypeOK, BoundInv, Route
  <2>1. ASSUME up, NEW r \in Opener, pc[r] = "running" \/ (pc[r] = "bound" /\ Pinned(r)),
               ~Contested(bound[r])
        PROVE  server[bound[r]] = r /\ registry[bound[r]] = r
    BY <2>1 DEF ServerInv, RegistryInv, Registers
  <2>2. ASSUME NEW p \in Port, server[p] # Nobody, ~Contested(p), registry[p] # Nobody
        PROVE  registry[p] = server[p]
    <3>1. up /\ bound[server[p]] = p /\ server[p] \in Opener /\ registry[p] \in Opener
      BY <2>2 DEF ServerInv
    <3>2. Registers(registry[p], p)
      BY <2>2 DEF RegistryInv
    <3>3. CASE Pinned(registry[p])
      BY <2>2, <3>1, <3>2, <3>3, PinnedAlone DEF Registers, Pinned
    <3>4. CASE ~Pinned(registry[p])
      BY <2>2, <3>1, <3>2, <3>4 DEF Registers, ServerInv
    <3> QED BY <3>3, <3>4
  <2> QED BY <2>1, <2>2 DEF RunningIsRouted
<1> QED
  BY <1>1, ForwardsInvariance, PTL

(* The listener of a remote forward ends with it: the server listens for   *)
(* nobody who has stopped.                                                 *)
THEOREM ForwardsNoOrphan == RemoteSpec => []NoOrphanRemoteListener
<1>1. RemoteInv => NoOrphanRemoteListener
  BY RemoteForwardsAssumption DEF RemoteInv, RemoteTypeOK, BoundInv, ServerInv, NoOrphanRemoteListener
<1> QED
  BY <1>1, ForwardsInvariance, PTL
=============================================================================
