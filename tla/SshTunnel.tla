------------------------------ MODULE SshTunnel ------------------------------
(***************************************************************************)
(* The shared SSH session of src/modules/ssh/tunnel.ts: one backend        *)
(* session per saved connection, referenced by every terminal tab and      *)
(* every forward that rides it, and one refcounted entry per forward key.  *)
(*                                                                         *)
(* A Map entry of the code is an object, compared with ===.  Here an       *)
(* object is a member of Entry (session entries) or of Claim (forward      *)
(* entries, which carry the token minted with them).  An object is reused  *)
(* only when nothing refers to it any more (FreshEntry, FreshClaim), which *)
(* is exactly when the code can no longer tell it from a new one; the two  *)
(* sets are therefore the only bounds of the model.                        *)
(*                                                                         *)
(* The three forward maps of the code (-L, -R, -D) follow one protocol,    *)
(* acquireForward / releaseForward, on keys that never collide: they are   *)
(* one map here, and Key is the union of the three key spaces.             *)
(***************************************************************************)
EXTENDS Naturals, FiniteSets

CONSTANTS
  Connection,  \* ids of saved connections
  Key,         \* keys of forward entries: connection, target and asked port
  Caller,      \* panes, tabs and rules: each has at most one use at a time
  Entry,       \* identities of session entries
  Claim,       \* identities (tokens) of forward entries
  KeyConn,     \* the connection a key is prefixed with
  EntryConn,   \* the connection an entry is published under
  ClaimKey,    \* the key a claim's entry is published under
  NoEntry,     \* `undefined` in the sessions map
  NoClaim      \* `undefined` in the forwards maps

ASSUME ConstantsAssumption ==
  /\ IsFiniteSet(Caller)
  /\ KeyConn \in [Key -> Connection]
  /\ EntryConn \in [Entry -> Connection]
  /\ ClaimKey \in [Claim -> Key]
  /\ NoEntry \notin Entry
  /\ NoClaim \notin Claim

VARIABLES
  sessions,   \* connection -> current session entry, or NoEntry
  refs,       \* session entry -> its reference count
  dial,       \* session entry -> state of the `session` promise
  closing,    \* session entries whose `session.then(s => s.close())` is queued
  backend,    \* session entry -> the russh session in the backend's map
  forwards,   \* key -> current forward entry, or NoClaim
  fwdRefs,    \* forward entry -> its reference count
  fwdState,   \* forward entry -> state of its `forward` promise
  fwdOn,      \* forward entry -> the session entry its dial rides
  listening,  \* forward entries whose backend listener is bound
  pc,         \* caller -> where it is in its use
  held,       \* caller -> the session entry it took its reference on
  claim       \* caller -> the forward entry it took its reference on

sessionVars == <<sessions, refs, dial, closing, backend>>
forwardVars == <<forwards, fwdRefs, fwdState, fwdOn, listening>>
callerVars == <<pc, held, claim>>
vars == <<sessionVars, forwardVars, callerVars>>

DialStates == {"none", "dialing", "open", "failed"}
BackendStates == {"none", "up", "lost", "gone"}
ForwardStates == {"none", "pending", "open", "failed"}
CallerStates ==
  {"idle", "shellWait", "shell", "exited", "fwdWait", "fwdHeld", "fwdClosing"}

Init ==
  /\ sessions = [n \in Connection |-> NoEntry]
  /\ refs = [e \in Entry |-> 0]
  /\ dial = [e \in Entry |-> "none"]
  /\ closing = {}
  /\ backend = [e \in Entry |-> "none"]
  /\ forwards = [y \in Key |-> NoClaim]
  /\ fwdRefs = [k \in Claim |-> 0]
  /\ fwdState = [k \in Claim |-> "none"]
  /\ fwdOn = [k \in Claim |-> NoEntry]
  /\ listening = {}
  /\ pc = [c \in Caller |-> "idle"]
  /\ held = [c \in Caller |-> NoEntry]
  /\ claim = [c \in Caller |-> NoClaim]

-----------------------------------------------------------------------------
(* Identities nothing refers to: what `{...}` and `nextClaim++` return.    *)

FreshEntry(e) ==
  /\ sessions[EntryConn[e]] # e
  /\ \A c \in Caller : held[c] # e
  /\ dial[e] # "dialing" /\ e \notin closing
  /\ backend[e] \in {"none", "gone"}

FreshClaim(k) ==
  /\ forwards[ClaimKey[k]] # k
  /\ \A c \in Caller : claim[c] # k
  /\ k \notin listening

(* The keys left after `forwards.delete` of one connection's entries.      *)
WithoutConn(n) == [y \in Key |-> IF KeyConn[y] = n THEN NoClaim ELSE forwards[y]]

(* Mutant of dropSession: the session's forwards stay in their map.        *)
dropSessionOnly(n) ==
  /\ sessions' = [sessions EXCEPT ![n] = NoEntry]
  /\ forwards' = forwards

dropSession(n) ==
  /\ sessions' = [sessions EXCEPT ![n] = NoEntry]
  /\ forwards' = WithoutConn(n)

(* Mutants of releaseSession: one that names the connection and not the    *)
(* entry, one that keeps a session at zero references, and one that        *)
(* forgets the session without closing it.                                 *)
releaseSessionByKey(e, fwds) ==
  LET n == EntryConn[e]
      cur == sessions[n] IN
  IF cur = NoEntry
  THEN /\ forwards' = fwds
       /\ UNCHANGED <<sessions, refs, closing>>
  ELSE /\ refs' = [refs EXCEPT ![cur] = @ - 1]
       /\ IF refs[cur] > 1
          THEN /\ forwards' = fwds
               /\ UNCHANGED <<sessions, closing>>
          ELSE /\ dropSession(n)
               /\ closing' = closing \cup {cur}

releaseSessionNoClose(e, fwds) ==
  LET n == EntryConn[e] IN
  IF sessions[n] # e
  THEN /\ forwards' = fwds
       /\ UNCHANGED <<sessions, refs, closing>>
  ELSE /\ refs' = [refs EXCEPT ![e] = @ - 1]
       /\ IF refs[e] > 1
          THEN /\ forwards' = fwds
               /\ UNCHANGED sessions
          ELSE dropSession(n)
       /\ UNCHANGED closing

(* releaseSession, guarded as every caller guards it: by the identity of   *)
(* the entry the reference was taken on.  fwds is the forwards map as the  *)
(* caller's step leaves it when the session outlives the release.          *)
releaseSession(e, fwds) ==
  LET n == EntryConn[e] IN
  IF sessions[n] # e
  THEN /\ forwards' = fwds
       /\ UNCHANGED <<sessions, refs, closing>>
  ELSE /\ refs' = [refs EXCEPT ![e] = @ - 1]
       /\ IF refs[e] > 1
          THEN /\ forwards' = fwds
               /\ UNCHANGED <<sessions, closing>>
          ELSE /\ dropSession(n)
               /\ closing' = closing \cup {e}

(* Mutant of sessionFor: a second caller dials past the lookup.            *)
sessionForTwice(n, e) ==
  /\ EntryConn[e] = n
  /\ FreshEntry(e)
  /\ sessions' = [sessions EXCEPT ![n] = e]
  /\ refs' = [refs EXCEPT ![e] = 1]
  /\ dial' = [dial EXCEPT ![e] = "dialing"]
  /\ backend' = [backend EXCEPT ![e] = "none"]

(* sessionFor: join the current entry, or publish a dial.  The entry the   *)
(* reference is taken on is e.                                             *)
sessionFor(n, e) ==
  \/ /\ sessions[n] = e
     /\ e \in Entry
     /\ refs' = [refs EXCEPT ![e] = @ + 1]
     /\ UNCHANGED <<sessions, dial, backend>>
  \/ /\ sessions[n] = NoEntry
     /\ EntryConn[e] = n
     /\ FreshEntry(e)
     /\ sessions' = [sessions EXCEPT ![n] = e]
     /\ refs' = [refs EXCEPT ![e] = 1]
     /\ dial' = [dial EXCEPT ![e] = "dialing"]
     /\ backend' = [backend EXCEPT ![e] = "none"]

-----------------------------------------------------------------------------
(* Terminal tabs: openShellForConnection and the claim it returns.         *)

openShell(c, e) ==
  /\ pc[c] = "idle"
  /\ sessionFor(EntryConn[e], e)
  /\ pc' = [pc EXCEPT ![c] = "shellWait"]
  /\ held' = [held EXCEPT ![c] = e]
  /\ UNCHANGED <<closing, forwardVars, claim>>

(* openSshShell resolves: the session was up and gave a channel.           *)
shellOpened(c) ==
  /\ pc[c] = "shellWait"
  /\ dial[held[c]] = "open"
  /\ backend[held[c]] = "up"
  /\ pc' = [pc EXCEPT ![c] = "shell"]
  /\ UNCHANGED <<sessionVars, forwardVars, held, claim>>

(* The dial failed, or the session refused the channel: release and throw. *)
shellFailed(c) ==
  /\ pc[c] = "shellWait"
  /\ dial[held[c]] \in {"open", "failed"}
  /\ releaseSession(held[c], forwards)
  /\ pc' = [pc EXCEPT ![c] = "idle"]
  /\ held' = [held EXCEPT ![c] = NoEntry]
  /\ UNCHANGED <<dial, backend, fwdRefs, fwdState, fwdOn, listening, claim>>

(* The shell ends on its own: onExit releases; `close` is still callable.  *)
shellExits(c) ==
  /\ pc[c] = "shell"
  /\ releaseSession(held[c], forwards)
  /\ pc' = [pc EXCEPT ![c] = "exited"]
  /\ UNCHANGED <<dial, backend, fwdRefs, fwdState, fwdOn, listening, held, claim>>

(* Mutant of closeShell: the reference is not given back.                  *)
closeShellKeepsRef(c) ==
  /\ pc[c] \in {"shell", "exited"}
  /\ pc' = [pc EXCEPT ![c] = "idle"]
  /\ held' = [held EXCEPT ![c] = NoEntry]
  /\ UNCHANGED <<sessionVars, forwardVars, claim>>

(* `close` of a claim: releases unless onExit already did.                 *)
closeShell(c) ==
  /\ \/ /\ pc[c] = "shell"
        /\ releaseSession(held[c], forwards)
     \/ /\ pc[c] = "exited"
        /\ UNCHANGED <<sessions, refs, closing, forwards>>
  /\ pc' = [pc EXCEPT ![c] = "idle"]
  /\ held' = [held EXCEPT ![c] = NoEntry]
  /\ UNCHANGED <<dial, backend, fwdRefs, fwdState, fwdOn, listening, claim>>

-----------------------------------------------------------------------------
(* Forwards: acquireForward and releaseForward.                            *)

(* Mutant of joinForward: reuse that takes no reference on the session.    *)
joinForwardNoSessionRef(c, y) ==
  LET k == forwards[y]
      e == sessions[KeyConn[y]] IN
  /\ pc[c] = "idle"
  /\ k # NoClaim /\ e # NoEntry
  /\ fwdRefs' = [fwdRefs EXCEPT ![k] = @ + 1]
  /\ pc' = [pc EXCEPT ![c] = "fwdWait"]
  /\ held' = [held EXCEPT ![c] = e]
  /\ claim' = [claim EXCEPT ![c] = k]
  /\ UNCHANGED <<sessionVars, forwards, fwdState, fwdOn, listening>>

(* Reuse a live entry: one reference on it and one on the session.         *)
joinForward(c, y) ==
  LET k == forwards[y]
      e == sessions[KeyConn[y]] IN
  /\ pc[c] = "idle"
  /\ k # NoClaim /\ e # NoEntry
  /\ refs' = [refs EXCEPT ![e] = @ + 1]
  /\ fwdRefs' = [fwdRefs EXCEPT ![k] = @ + 1]
  /\ pc' = [pc EXCEPT ![c] = "fwdWait"]
  /\ held' = [held EXCEPT ![c] = e]
  /\ claim' = [claim EXCEPT ![c] = k]
  /\ UNCHANGED <<sessions, dial, closing, backend, forwards, fwdState, fwdOn, listening>>

(* Publish a new entry, replacing one whose session is gone.               *)
openForward(c, k, e) ==
  LET y == ClaimKey[k] IN
  /\ pc[c] = "idle"
  /\ forwards[y] = NoClaim \/ sessions[KeyConn[y]] = NoEntry
  /\ FreshClaim(k)
  /\ sessionFor(KeyConn[y], e)
  /\ forwards' = [forwards EXCEPT ![y] = k]
  /\ fwdRefs' = [fwdRefs EXCEPT ![k] = 1]
  /\ fwdState' = [fwdState EXCEPT ![k] = "pending"]
  /\ fwdOn' = [fwdOn EXCEPT ![k] = e]
  /\ pc' = [pc EXCEPT ![c] = "fwdWait"]
  /\ held' = [held EXCEPT ![c] = e]
  /\ claim' = [claim EXCEPT ![c] = k]
  /\ UNCHANGED <<closing, listening>>

(* The backend binds the listener, on the port that the key asks for: one  *)
(* forward of a key is bound at a time.  A forward that asked for port 0   *)
(* gets a free one whatever else is bound; here it waits for the old one's *)
(* close instead.                                                          *)
forwardOpens(k) ==
  /\ fwdState[k] = "pending"
  /\ dial[fwdOn[k]] = "open"
  /\ backend[fwdOn[k]] = "up"
  /\ \A j \in listening : ClaimKey[j] # ClaimKey[k]
  /\ fwdState' = [fwdState EXCEPT ![k] = "open"]
  /\ listening' = listening \cup {k}
  /\ UNCHANGED <<sessionVars, forwards, fwdRefs, fwdOn, callerVars>>

(* Mutant of forwardFails: a failed dial leaves the forward pending.       *)
forwardFailsOnRefusal(k) ==
  /\ fwdState[k] = "pending"
  /\ dial[fwdOn[k]] = "open"
  /\ fwdState' = [fwdState EXCEPT ![k] = "failed"]
  /\ UNCHANGED <<sessionVars, forwards, fwdRefs, fwdOn, listening, callerVars>>

(* The session's dial failed, or the backend refused the listener.         *)
forwardFails(k) ==
  /\ fwdState[k] = "pending"
  /\ dial[fwdOn[k]] \in {"open", "failed"}
  /\ fwdState' = [fwdState EXCEPT ![k] = "failed"]
  /\ UNCHANGED <<sessionVars, forwards, fwdRefs, fwdOn, listening, callerVars>>

(* One caller's continuation of the shared promise, in either outcome.     *)
forwardResolved(c) ==
  /\ pc[c] = "fwdWait"
  /\ fwdState[claim[c]] = "open"
  /\ pc' = [pc EXCEPT ![c] = "fwdHeld"]
  /\ UNCHANGED <<sessionVars, forwardVars, held, claim>>

forwardRejected(c) ==
  LET k == claim[c]
      y == ClaimKey[k] IN
  /\ pc[c] = "fwdWait"
  /\ fwdState[k] = "failed"
  /\ releaseSession(held[c],
       IF forwards[y] = k THEN [forwards EXCEPT ![y] = NoClaim] ELSE forwards)
  /\ pc' = [pc EXCEPT ![c] = "idle"]
  /\ held' = [held EXCEPT ![c] = NoEntry]
  /\ claim' = [claim EXCEPT ![c] = NoClaim]
  /\ UNCHANGED <<dial, backend, fwdRefs, fwdState, fwdOn, listening>>

(* Mutant of closeForward: the port stays bound at zero references.        *)
closeForwardKeepsPort(c) ==
  LET k == claim[c]
      y == ClaimKey[k] IN
  /\ pc[c] = "fwdHeld"
  /\ releaseSession(held[c],
       IF forwards[y] = k /\ fwdRefs[k] = 1
       THEN [forwards EXCEPT ![y] = NoClaim] ELSE forwards)
  /\ fwdRefs' = [fwdRefs EXCEPT ![k] = @ - 1]
  /\ pc' = [pc EXCEPT ![c] = "idle"]
  /\ held' = [held EXCEPT ![c] = NoEntry]
  /\ claim' = [claim EXCEPT ![c] = NoClaim]
  /\ UNCHANGED <<dial, backend, fwdState, fwdOn, listening>>

(* releaseForward up to its await: the claim must name the current entry.  *)
closeForward(c) ==
  LET k == claim[c]
      y == ClaimKey[k]
      n == KeyConn[y] IN
  /\ pc[c] = "fwdHeld"
  /\ \/ /\ forwards[y] # k \/ fwdRefs[k] = 0
        /\ pc' = [pc EXCEPT ![c] = "idle"]
        /\ held' = [held EXCEPT ![c] = NoEntry]
        /\ claim' = [claim EXCEPT ![c] = NoClaim]
        /\ UNCHANGED <<sessions, refs, closing, forwards, fwdRefs>>
     \/ /\ forwards[y] = k /\ fwdRefs[k] > 1
        /\ fwdRefs' = [fwdRefs EXCEPT ![k] = @ - 1]
        /\ releaseSession(sessions[n], forwards)
        /\ pc' = [pc EXCEPT ![c] = "idle"]
        /\ held' = [held EXCEPT ![c] = NoEntry]
        /\ claim' = [claim EXCEPT ![c] = NoClaim]
     \/ /\ forwards[y] = k /\ fwdRefs[k] = 1
        /\ fwdRefs' = [fwdRefs EXCEPT ![k] = 0]
        /\ forwards' = [forwards EXCEPT ![y] = NoClaim]
        /\ pc' = [pc EXCEPT ![c] = "fwdClosing"]
        /\ held' = [held EXCEPT ![c] = sessions[n]]
        /\ UNCHANGED <<sessions, refs, closing, claim>>
  /\ UNCHANGED <<dial, backend, fwdState, fwdOn, listening>>

(* ssh_forward_close reaches the backend, which drops the listener.        *)
abortForward(c) ==
  /\ pc[c] = "fwdClosing"
  /\ claim[c] \in listening
  /\ listening' = listening \ {claim[c]}
  /\ UNCHANGED <<sessionVars, forwards, fwdRefs, fwdState, fwdOn, callerVars>>

(* Its answer resolves the await, and the session reference goes last.  A  *)
(* listener that went with its session is already gone.                    *)
forwardClosed(c) ==
  /\ pc[c] = "fwdClosing"
  /\ claim[c] \notin listening
  /\ releaseSession(held[c], forwards)
  /\ pc' = [pc EXCEPT ![c] = "idle"]
  /\ held' = [held EXCEPT ![c] = NoEntry]
  /\ claim' = [claim EXCEPT ![c] = NoClaim]
  /\ UNCHANGED <<dial, backend, fwdRefs, fwdState, fwdOn, listening>>

-----------------------------------------------------------------------------
(* The dial and the backend's side of a session.                           *)

(* ssh_open finished the handshake and registered the session; its result  *)
(* is still on its way to the webview.                                     *)
handshakeDone(e) ==
  /\ dial[e] = "dialing" /\ backend[e] = "none"
  /\ backend' = [backend EXCEPT ![e] = "up"]
  /\ UNCHANGED <<sessions, refs, dial, closing, forwardVars, callerVars>>

(* The `session` promise resolves, even for a session lost meanwhile.      *)
dialResolved(e) ==
  /\ dial[e] = "dialing" /\ backend[e] # "none"
  /\ dial' = [dial EXCEPT ![e] = "open"]
  /\ UNCHANGED <<sessions, refs, closing, backend, forwardVars, callerVars>>

(* It rejects: the entry is forgotten if it is still the current one, in   *)
(* the first reaction to the rejection, before any caller hears of it.     *)
dialRejected(e) ==
  LET n == EntryConn[e] IN
  /\ dial[e] = "dialing" /\ backend[e] = "none"
  /\ dial' = [dial EXCEPT ![e] = "failed"]
  /\ IF sessions[n] = e THEN dropSession(n) ELSE UNCHANGED <<sessions, forwards>>
  /\ UNCHANGED <<refs, closing, backend, fwdRefs, fwdState, fwdOn, listening, callerVars>>

(* The listeners of a session end with it.                                 *)
WithoutSession(e) == {k \in listening : fwdOn[k] # e}

(* The connection ends on its own: the janitor evicts the session and      *)
(* sends `disconnected`.                                                   *)
connectionEnds(e) ==
  /\ backend[e] = "up"
  /\ backend' = [backend EXCEPT ![e] = "lost"]
  /\ listening' = WithoutSession(e)
  /\ UNCHANGED <<sessions, refs, dial, closing, forwards, fwdRefs, fwdState, fwdOn, callerVars>>

(* Mutant of onClosed: a late end drops whatever entry is current.         *)
onClosedLate(e) ==
  /\ backend[e] = "lost"
  /\ backend' = [backend EXCEPT ![e] = "gone"]
  /\ dropSession(EntryConn[e])
  /\ UNCHANGED <<refs, dial, closing, fwdRefs, fwdState, fwdOn, listening, callerVars>>

(* The event reaches onClosed, which ignores it for a replaced entry.      *)
onClosed(e) ==
  LET n == EntryConn[e] IN
  /\ backend[e] = "lost"
  /\ backend' = [backend EXCEPT ![e] = "gone"]
  /\ IF sessions[n] = e THEN dropSession(n) ELSE UNCHANGED <<sessions, forwards>>
  /\ UNCHANGED <<refs, dial, closing, fwdRefs, fwdState, fwdOn, listening, callerVars>>

(* The queued `s.close()` of the last release.  ssh_close of a session the *)
(* janitor evicted finds nothing; a dial that failed has nothing to close. *)
closeSession(e) ==
  /\ e \in closing
  /\ dial[e] # "dialing"
  /\ closing' = closing \ {e}
  /\ IF backend[e] = "up"
     THEN /\ backend' = [backend EXCEPT ![e] = "gone"]
          /\ listening' = WithoutSession(e)
     ELSE UNCHANGED <<backend, listening>>
  /\ UNCHANGED <<sessions, refs, dial, forwards, fwdRefs, fwdState, fwdOn, callerVars>>

-----------------------------------------------------------------------------
(* What the user does, and what answers it.                                *)
UserStep ==
  \/ \E c \in Caller, e \in Entry : openShell(c, e)
  \/ \E c \in Caller, y \in Key : joinForward(c, y)
  \/ \E c \in Caller, k \in Claim, e \in Entry : openForward(c, k, e)
  \/ \E c \in Caller : closeShell(c) \/ closeForward(c)

CallerStep(c) ==
  \/ shellOpened(c) \/ shellFailed(c)
  \/ forwardResolved(c) \/ forwardRejected(c)
  \/ abortForward(c) \/ forwardClosed(c)

ForwardStep(k) == forwardOpens(k) \/ forwardFails(k)

SessionStep(e) ==
  \/ handshakeDone(e) \/ dialResolved(e) \/ dialRejected(e)
  \/ onClosed(e) \/ closeSession(e)

Next ==
  \/ UserStep
  \/ \E c \in Caller : CallerStep(c) \/ shellExits(c)
  \/ \E k \in Claim : ForwardStep(k)
  \/ \E e \in Entry : SessionStep(e) \/ connectionEnds(e)

Spec == Init /\ [][Next]_vars

(* Every promise the code awaits settles: ssh_open bounds its handshake    *)
(* and its host-key question with timeouts, every other command answers or *)
(* fails with its session, and the event loop runs what is queued.  Users  *)
(* need not act, shells need not end and connections need not break.       *)
Fairness ==
  /\ \A c \in Caller : WF_vars(CallerStep(c))
  /\ \A k \in Claim : WF_vars(ForwardStep(k))
  /\ \A e \in Entry : WF_vars(SessionStep(e))

FairSpec == Spec /\ Fairness

-----------------------------------------------------------------------------
(* Properties.                                                             *)

(* A count never exceeds the callers there are, nor goes below zero.       *)
RefRange == 0 .. Cardinality(Caller)

(* The type of every variable of tunnel.ts's bookkeeping.                  *)
TypeOK ==
  /\ sessions \in [Connection -> Entry \cup {NoEntry}]
  /\ refs \in [Entry -> RefRange]
  /\ dial \in [Entry -> DialStates]
  /\ closing \in SUBSET Entry
  /\ backend \in [Entry -> BackendStates]
  /\ forwards \in [Key -> Claim \cup {NoClaim}]
  /\ fwdRefs \in [Claim -> RefRange]
  /\ fwdState \in [Claim -> ForwardStates]
  /\ fwdOn \in [Claim -> Entry \cup {NoEntry}]
  /\ listening \in SUBSET Claim
  /\ pc \in [Caller -> CallerStates]
  /\ held \in [Caller -> Entry \cup {NoEntry}]
  /\ claim \in [Caller -> Claim \cup {NoClaim}]

(* The callers that still own a reference on a session entry, and on a     *)
(* forward entry.  An exited shell has given its reference back; a closing *)
(* forward keeps the session's and has given the forward's back.           *)
SessionHolders(e) == {c \in Caller : held[c] = e /\ pc[c] \notin {"idle", "exited"}}
ForwardHolders(k) == {c \in Caller : claim[c] = k /\ pc[c] \in {"fwdWait", "fwdHeld"}}

(* "One reference per successful open": the count of the session in the    *)
(* map is the number of tabs and forwards riding it, and the count of a    *)
(* forward the number of its users, whatever was joined, refused, released, *)
(* lost and re-dialled on the way.                                         *)
RefsCountHolders ==
  \A e \in Entry :
    sessions[EntryConn[e]] = e => refs[e] = Cardinality(SessionHolders(e))

FwdRefsCountHolders ==
  \A k \in Claim :
    forwards[ClaimKey[k]] = k => fwdRefs[k] = Cardinality(ForwardHolders(k))

CountsHolders == RefsCountHolders /\ FwdRefsCountHolders

(* A release never closes a session somebody is still using: what is       *)
(* queued for ssh_close has no tab and no forward on it.                   *)
NoTheft == \A e \in closing : SessionHolders(e) = {}

(* A session the backend keeps up is in the map, where a later caller      *)
(* finds it and a last release closes it, or its close is queued: none is  *)
(* left with a count nobody can release.                                   *)
NoLeak ==
  \A e \in Entry :
    backend[e] = "up" => sessions[EntryConn[e]] = e \/ e \in closing

(* A forward in the map rides the session in the map: dropSession forgets  *)
(* a connection's forwards with its session, so no key hands out a port    *)
(* nothing listens on.                                                     *)
ForwardsRideCurrentSession ==
  \A y \in Key : forwards[y] # NoClaim => sessions[KeyConn[y]] = fwdOn[forwards[y]]

(* A caller whose forward resolved keeps its listener for as long as the   *)
(* session lives: nobody else's release or failure closes it.              *)
HeldForwardListens ==
  \A c \in Caller :
    pc[c] = "fwdHeld" /\ backend[held[c]] = "up" => claim[c] \in listening

(* A bound listener is reachable: through the map, or by the release that  *)
(* is closing it, or it goes with a session that is being closed.          *)
NoPortLeak ==
  \A k \in listening :
    \/ forwards[ClaimKey[k]] = k
    \/ \E c \in Caller : pc[c] = "fwdClosing" /\ claim[c] = k
    \/ fwdOn[k] \in closing

(* The two together: exactly the listeners somebody can use or is closing  *)
(* are bound (acquireForward, releaseForward).                             *)
ListenersMatchHolders == HeldForwardListens /\ NoPortLeak

(* What a caller's own state says of the maps.                             *)
CallerOK ==
  \A c \in Caller :
    /\ pc[c] = "idle" => held[c] = NoEntry
    /\ pc[c] # "idle" => held[c] \in Entry
    /\ pc[c] \notin {"fwdWait", "fwdHeld", "fwdClosing"} => claim[c] = NoClaim
    /\ pc[c] \in {"fwdWait", "fwdHeld", "fwdClosing"} =>
         /\ claim[c] \in Claim
         /\ fwdOn[claim[c]] = held[c]
         /\ EntryConn[held[c]] = KeyConn[ClaimKey[claim[c]]]

(* An entry is published under its own connection or key.                  *)
MapOK ==
  /\ \A n \in Connection : sessions[n] # NoEntry => EntryConn[sessions[n]] = n
  /\ \A y \in Key : forwards[y] # NoClaim => ClaimKey[forwards[y]] = y /\ fwdOn[forwards[y]] # NoEntry

(* A release is taken for a stale one only when the session it would give  *)
(* a reference back to is gone too.                                        *)
ClaimCurrent ==
  \A c \in Caller : pc[c] \in {"fwdWait", "fwdHeld"} =>
    /\ pc[c] = "fwdHeld" => fwdState[claim[c]] = "open"
    /\ fwdState[claim[c]] # "failed" /\ sessions[EntryConn[held[c]]] = held[c] =>
         forwards[ClaimKey[claim[c]]] = claim[c]

(* What is queued for closing has left the map, and a dial that the        *)
(* backend has not answered has not been forgotten.                        *)
ClosingOK == \A e \in closing : sessions[EntryConn[e]] # e
DialOK ==
  \A e \in Entry :
    dial[e] = "dialing" /\ backend[e] = "none" => sessions[EntryConn[e]] = e \/ e \in closing

(* The inductive invariant behind the safety properties.                   *)
IndInv ==
  /\ TypeOK /\ CallerOK /\ MapOK /\ ClaimCurrent /\ ClosingOK /\ DialOK
  /\ RefsCountHolders /\ FwdRefsCountHolders /\ ForwardsRideCurrentSession
  /\ NoTheft /\ NoLeak

(* The end of a caller's use never ends a live session under another one:  *)
(* a session leaves the map with holders only when it died or never came   *)
(* up.                                                                     *)
DropSpares ==
  [][\A e \in Entry :
       sessions[EntryConn[e]] = e /\ sessions'[EntryConn[e]] # e =>
         SessionHolders(e)' = {} \/ backend'[e] # "up"]_vars

(* The bookkeeping of tunnel.ts implements the shared session it is for:   *)
(* every step of it is a step of SharedSession or invisible there.         *)
users == [e \in Entry |-> SessionHolders(e)]

Shared == INSTANCE SharedSession WITH current <- sessions, life <- backend

ImplementsSharing == Shared!Spec

(* A caller that waits on a dial or on a forward gets its answer.          *)
WaitersAnswered ==
  \A c \in Caller :
    pc[c] \in {"shellWait", "fwdWait", "fwdClosing"} ~>
      pc[c] \notin {"shellWait", "fwdWait", "fwdClosing"}

(* A session everybody let go of is closed, even when the last reference   *)
(* went while its dial was in flight.                                      *)
ReleasedSessionCloses ==
  \A e \in Entry :
    backend[e] = "up" /\ SessionHolders(e) = {} ~> backend[e] # "up"
=============================================================================
