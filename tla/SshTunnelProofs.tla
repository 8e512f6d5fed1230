--------------------------- MODULE SshTunnelProofs ---------------------------
(***************************************************************************)
(* SshTunnel is proved here for every set of connections, keys, callers    *)
(* and entries: the inductive invariant IndInv holds in every reachable    *)
(* state, the safety properties follow from it, and so does that SshTunnel *)
(* implements SharedSession.                                               *)
(***************************************************************************)
EXTENDS SshTunnel, FiniteSetTheorems, TLAPS

(* Counting a set of callers that one caller joins or leaves.              *)
LEMMA Counting ==
  ASSUME NEW S \in SUBSET Caller, NEW c \in Caller
  PROVE  /\ Cardinality(S) \in RefRange
         /\ c \notin S => Cardinality(S \cup {c}) = Cardinality(S) + 1
         /\ c \in S => Cardinality(S) >= 1 /\ Cardinality(S \ {c}) = Cardinality(S) - 1
         /\ c \in S /\ Cardinality(S) = 1 => S \ {c} = {}
         /\ Cardinality({}) = 0 /\ Cardinality({c}) = 1
         /\ 1 \in RefRange /\ 0 \in RefRange
<1> USE ConstantsAssumption
<1>1. IsFiniteSet(S) /\ Cardinality(S) <= Cardinality(Caller)
  BY FS_Subset
<1>2. Cardinality(S) \in Nat /\ Cardinality(Caller) \in Nat
  BY <1>1, FS_CardinalityType
<1>3. IsFiniteSet(S \ {c}) /\ Cardinality(S \ {c}) \in Nat
  BY <1>1, FS_RemoveElement, FS_CardinalityType
<1>4. Cardinality({}) = 0 /\ Cardinality({c}) = 1
  BY FS_EmptySet, FS_Singleton
<1>5. Cardinality({c}) <= Cardinality(Caller)
  BY FS_Subset, {c} \in SUBSET Caller
<1>6. c \in S => Cardinality(S \ {c}) = Cardinality(S) - 1
  BY <1>1, FS_RemoveElement
<1>7. c \in S /\ Cardinality(S) = 1 => S \ {c} = {}
  BY <1>1, <1>3, <1>6, FS_EmptySet
<1>8. c \notin S => Cardinality(S \cup {c}) = Cardinality(S) + 1
  BY <1>1, FS_AddElement
<1> QED
  BY <1>1, <1>2, <1>3, <1>4, <1>5, <1>6, <1>7, <1>8 DEF RefRange

(* A caller that had no use takes a reference on e.                        *)
LEMMA TakeRef ==
  ASSUME TypeOK, CallerOK, NEW c \in Caller, NEW e \in Entry, NEW s \in CallerStates,
         pc[c] = "idle", s \notin {"idle", "exited"},
         pc' = [pc EXCEPT ![c] = s], held' = [held EXCEPT ![c] = e]
  PROVE  /\ \A f \in Entry : SessionHolders(f) \in SUBSET Caller
         /\ c \notin SessionHolders(e)
         /\ SessionHolders(e)' = SessionHolders(e) \cup {c}
         /\ \A f \in Entry : f # e => SessionHolders(f)' = SessionHolders(f)
BY ConstantsAssumption DEF TypeOK, CallerOK, SessionHolders

(* A caller gives its reference back: it becomes idle, or its shell exited. *)
LEMMA GiveRef ==
  ASSUME TypeOK, NEW c \in Caller, NEW e \in Entry,
         held[c] = e, pc[c] \notin {"idle", "exited"},
         \/ pc' = [pc EXCEPT ![c] = "idle"] /\ held' = [held EXCEPT ![c] = NoEntry]
         \/ pc' = [pc EXCEPT ![c] = "exited"] /\ UNCHANGED held
  PROVE  /\ \A f \in Entry : SessionHolders(f) \in SUBSET Caller
         /\ c \in SessionHolders(e)
         /\ SessionHolders(e)' = SessionHolders(e) \ {c}
         /\ \A f \in Entry : f # e => SessionHolders(f)' = SessionHolders(f)
BY ConstantsAssumption DEF TypeOK, SessionHolders

(* What releaseSession does for the caller that gives its reference back,  *)
(* whichever way it goes: the entry is not the current one, it outlives    *)
(* the release, or this was the last reference.                            *)
LEMMA Release ==
  ASSUME IndInv, NEW c \in Caller, NEW e \in Entry,
         held[c] = e, pc[c] \notin {"idle", "exited"},
         \/ pc' = [pc EXCEPT ![c] = "idle"] /\ held' = [held EXCEPT ![c] = NoEntry]
         \/ pc' = [pc EXCEPT ![c] = "exited"] /\ UNCHANGED held,
         NEW fwds \in [Key -> Claim \cup {NoClaim}],
         \A y \in Key : KeyConn[y] # EntryConn[e] => fwds[y] = forwards[y],
         releaseSession(e, fwds), UNCHANGED <<dial, backend>>
  PROVE  /\ sessions' \in [Connection -> Entry \cup {NoEntry}]
         /\ refs' \in [Entry -> RefRange]
         /\ closing' \in SUBSET Entry
         /\ forwards' \in [Key -> Claim \cup {NoClaim}]
         /\ \A n \in Connection : sessions'[n] # NoEntry => sessions'[n] = sessions[n]
         /\ \A y \in Key : forwards'[y] # NoClaim =>
              forwards'[y] = fwds[y] /\ sessions'[KeyConn[y]] = sessions[KeyConn[y]]
         /\ \A y \in Key : sessions'[KeyConn[y]] # NoEntry => forwards'[y] = fwds[y]
         /\ ClosingOK' /\ DialOK' /\ RefsCountHolders' /\ NoTheft' /\ NoLeak'
<1> USE ConstantsAssumption
<1> DEFINE n == EntryConn[e]
<1>0. n \in Connection /\ TypeOK /\ MapOK
  BY DEF IndInv
<1>1. /\ \A f \in Entry : SessionHolders(f) \in SUBSET Caller
      /\ c \in SessionHolders(e)
      /\ SessionHolders(e)' = SessionHolders(e) \ {c}
      /\ \A f \in Entry : f # e => SessionHolders(f)' = SessionHolders(f)
  BY <1>0, GiveRef
<1>2. /\ Cardinality(SessionHolders(e)) >= 1
      /\ Cardinality(SessionHolders(e)') = Cardinality(SessionHolders(e)) - 1
      /\ Cardinality(SessionHolders(e)) = 1 => SessionHolders(e)' = {}
      /\ Cardinality(SessionHolders(e)) \in RefRange
      /\ Cardinality(SessionHolders(e) \ {c}) \in RefRange
  BY <1>1, Counting
<1>3. CASE sessions[n] # e
  <2>1. UNCHANGED <<sessions, refs, closing>> /\ forwards' = fwds
    BY <1>3 DEF releaseSession
  <2>2. RefsCountHolders'
    BY <1>1, <1>3, <2>1 DEF IndInv, RefsCountHolders
  <2>3. NoTheft'
    BY <1>0, <1>1, <2>1 DEF IndInv, NoTheft, TypeOK
  <2> QED
    BY <1>0, <2>1, <2>2, <2>3 DEF IndInv, TypeOK, ClosingOK, DialOK, NoLeak
<1>4. CASE sessions[n] = e /\ refs[e] > 1
  <2>1. /\ UNCHANGED <<sessions, closing>> /\ forwards' = fwds
        /\ refs' = [refs EXCEPT ![e] = @ - 1]
    BY <1>4 DEF releaseSession
  <2>2. refs[e] = Cardinality(SessionHolders(e))
    BY <1>4 DEF IndInv, RefsCountHolders
  <2>3. RefsCountHolders'
    BY <1>0, <1>1, <1>2, <2>1, <2>2 DEF IndInv, RefsCountHolders, TypeOK
  <2>4. NoTheft'
    BY <1>0, <1>1, <2>1 DEF IndInv, NoTheft, TypeOK
  <2>5. refs' \in [Entry -> RefRange]
    <3>1. refs[e] - 1 \in RefRange
      BY <1>1, <1>2, <2>2
    <3> QED BY <1>0, <2>1, <3>1 DEF TypeOK
  <2> QED
    BY <1>0, <2>1, <2>3, <2>4, <2>5 DEF IndInv, TypeOK, ClosingOK, DialOK, NoLeak
<1>5. CASE sessions[n] = e /\ ~(refs[e] > 1)
  <2>1. /\ sessions' = [sessions EXCEPT ![n] = NoEntry]
        /\ forwards' = WithoutConn(n)
        /\ closing' = closing \cup {e}
        /\ refs' = [refs EXCEPT ![e] = @ - 1]
    BY <1>5 DEF releaseSession, dropSession
  <2>2. refs[e] = Cardinality(SessionHolders(e))
    BY <1>5 DEF IndInv, RefsCountHolders
  <2>3. refs[e] = 1 /\ SessionHolders(e)' = {}
    BY <1>2, <1>5, <2>2 DEF RefRange
  <2>4. sessions' \in [Connection -> Entry \cup {NoEntry}] /\ closing' \in SUBSET Entry
    BY <1>0, <2>1 DEF TypeOK
  <2>5. refs' \in [Entry -> RefRange]
    <3>1. 0 \in RefRange
      BY Counting
    <3> QED BY <1>0, <2>1, <2>3, <3>1 DEF TypeOK
  <2>6. forwards' \in [Key -> Claim \cup {NoClaim}]
    BY <1>0, <2>1 DEF TypeOK, WithoutConn
  <2>7. \A y \in Key : forwards'[y] # NoClaim =>
          forwards'[y] = fwds[y] /\ sessions'[KeyConn[y]] = sessions[KeyConn[y]]
    BY <1>0, <2>1 DEF TypeOK, WithoutConn
  <2>8. /\ \A m \in Connection : sessions'[m] # NoEntry => m # n /\ sessions'[m] = sessions[m]
        /\ \A y \in Key : sessions'[KeyConn[y]] # NoEntry => forwards'[y] = fwds[y]
    BY <1>0, <2>1 DEF TypeOK, WithoutConn
  <2>9. RefsCountHolders'
    <3> SUFFICES ASSUME NEW f \in Entry, sessions'[EntryConn[f]] = f
                 PROVE  refs'[f] = Cardinality(SessionHolders(f)')
      BY DEF RefsCountHolders
    <3>1. f # e /\ sessions[EntryConn[f]] = f
      BY <2>8
    <3> QED BY <1>0, <1>1, <2>1, <3>1 DEF IndInv, RefsCountHolders, TypeOK
  <2>10. NoTheft'
    BY <1>0, <1>1, <2>1, <2>3 DEF IndInv, NoTheft, TypeOK
  <2>11. ClosingOK'
    BY <1>0, <2>1, <2>4, <2>8 DEF IndInv, ClosingOK, TypeOK
  <2>12. DialOK' /\ NoLeak'
    BY <1>0, <1>5, <2>1 DEF IndInv, DialOK, NoLeak, TypeOK
  <2> QED
    BY <2>4, <2>5, <2>6, <2>7, <2>8, <2>9, <2>10, <2>11, <2>12
<1> QED
  BY <1>3, <1>4, <1>5

(* What sessionFor does for a caller that takes a reference: it joins the  *)
(* current entry or publishes a fresh one.                                 *)
LEMMA Take ==
  ASSUME IndInv, NEW c \in Caller, NEW n \in Connection, NEW e \in Entry,
         NEW s \in CallerStates, pc[c] = "idle", s \notin {"idle", "exited"},
         pc' = [pc EXCEPT ![c] = s], held' = [held EXCEPT ![c] = e],
         sessionFor(n, e), UNCHANGED closing
  PROVE  /\ sessions' \in [Connection -> Entry \cup {NoEntry}]
         /\ refs' \in [Entry -> RefRange]
         /\ dial' \in [Entry -> DialStates]
         /\ backend' \in [Entry -> BackendStates]
         /\ EntryConn[e] = n /\ sessions'[n] = e
         /\ \A m \in Connection : sessions[m] # NoEntry => sessions'[m] = sessions[m]
         /\ \A m \in Connection : sessions'[m] # NoEntry => EntryConn[sessions'[m]] = m
         /\ \A d \in Caller : held[d] \in Entry /\ sessions'[EntryConn[held[d]]] = held[d] =>
              sessions[EntryConn[held[d]]] = held[d]
         /\ ClosingOK' /\ DialOK' /\ RefsCountHolders' /\ NoTheft' /\ NoLeak'
<1> USE ConstantsAssumption
<1>0. TypeOK /\ CallerOK /\ MapOK
  BY DEF IndInv
<1>1. /\ \A f \in Entry : SessionHolders(f) \in SUBSET Caller
      /\ c \notin SessionHolders(e)
      /\ SessionHolders(e)' = SessionHolders(e) \cup {c}
      /\ \A f \in Entry : f # e => SessionHolders(f)' = SessionHolders(f)
  BY <1>0, TakeRef
<1>2. /\ Cardinality(SessionHolders(e) \cup {c}) = Cardinality(SessionHolders(e)) + 1
      /\ Cardinality(SessionHolders(e) \cup {c}) \in RefRange
      /\ Cardinality({c}) = 1 /\ 1 \in RefRange
  BY <1>1, Counting
<1>3. CASE sessions[n] = e
  <2>1. /\ refs' = [refs EXCEPT ![e] = @ + 1]
        /\ UNCHANGED <<sessions, dial, backend>>
    BY <1>3 DEF sessionFor
  <2>2. EntryConn[e] = n /\ e \notin closing
    BY <1>0, <1>3 DEF IndInv, MapOK, ClosingOK
  <2>3. refs[e] = Cardinality(SessionHolders(e))
    BY <1>3, <2>2 DEF IndInv, RefsCountHolders
  <2>4. refs' \in [Entry -> RefRange]
    BY <1>0, <1>2, <2>1, <2>3 DEF TypeOK
  <2>5. RefsCountHolders'
    BY <1>0, <1>1, <1>2, <2>1, <2>3 DEF IndInv, RefsCountHolders, TypeOK
  <2>6. NoTheft'
    BY <1>0, <1>1, <2>2 DEF IndInv, NoTheft, TypeOK
  <2> QED
    BY <1>0, <1>3, <2>1, <2>2, <2>4, <2>5, <2>6 DEF IndInv, TypeOK, MapOK, ClosingOK,
       DialOK, NoLeak
<1>4. CASE sessions[n] # e
  <2>1. /\ sessions[n] = NoEntry /\ EntryConn[e] = n /\ FreshEntry(e)
        /\ sessions' = [sessions EXCEPT ![n] = e]
        /\ refs' = [refs EXCEPT ![e] = 1]
        /\ dial' = [dial EXCEPT ![e] = "dialing"]
        /\ backend' = [backend EXCEPT ![e] = "none"]
    BY <1>4 DEF sessionFor
  <2>2. SessionHolders(e) = {} /\ e \notin closing
    BY <2>1 DEF FreshEntry, SessionHolders
  <2>3. SessionHolders(e)' = {c}
    BY <1>1, <2>2
  <2>4. /\ sessions' \in [Connection -> Entry \cup {NoEntry}]
        /\ refs' \in [Entry -> RefRange]
        /\ dial' \in [Entry -> DialStates]
        /\ backend' \in [Entry -> BackendStates]
    BY <1>0, <1>2, <2>1 DEF TypeOK, DialStates, BackendStates
  <2>5. \A f \in Entry : f # e /\ sessions'[EntryConn[f]] = f => sessions[EntryConn[f]] = f
    BY <1>0, <2>1 DEF TypeOK
  <2>6. \A f \in Entry : sessions[EntryConn[f]] = f => sessions'[EntryConn[f]] = f
    BY <1>0, <2>1 DEF TypeOK
  <2>12. \A d \in Caller : held[d] \in Entry /\ sessions'[EntryConn[held[d]]] = held[d] =>
           sessions[EntryConn[held[d]]] = held[d]
    BY <2>1, <2>5 DEF FreshEntry
  <2>7. RefsCountHolders'
    BY <1>0, <1>1, <1>2, <2>1, <2>3, <2>5 DEF IndInv, RefsCountHolders, TypeOK
  <2>8. NoTheft'
    BY <1>0, <1>1, <2>2 DEF IndInv, NoTheft, TypeOK
  <2>9. ClosingOK'
    BY <1>0, <2>2, <2>5 DEF IndInv, ClosingOK, TypeOK
  <2>10. sessions'[n] = e
    BY <1>0, <2>1 DEF TypeOK
  <2>11. DialOK' /\ NoLeak'
    BY <1>0, <2>1, <2>6, <2>10 DEF IndInv, DialOK, NoLeak, TypeOK
  <2> QED
    BY <1>0, <2>1, <2>4, <2>7, <2>8, <2>9, <2>10, <2>11, <2>12 DEF TypeOK, MapOK
<1> QED
  BY <1>3, <1>4

-----------------------------------------------------------------------------
(* The actions of a terminal tab.                                          *)

LEMMA OpenShellInv ==
  ASSUME IndInv, NEW c \in Caller, NEW e \in Entry, openShell(c, e)
  PROVE  IndInv'
<1> USE ConstantsAssumption
<1>0. TypeOK /\ CallerOK /\ MapOK
  BY DEF IndInv
<1>1. /\ sessions' \in [Connection -> Entry \cup {NoEntry}]
      /\ refs' \in [Entry -> RefRange]
      /\ dial' \in [Entry -> DialStates]
      /\ backend' \in [Entry -> BackendStates]
      /\ \A m \in Connection : sessions[m] # NoEntry => sessions'[m] = sessions[m]
      /\ \A m \in Connection : sessions'[m] # NoEntry => EntryConn[sessions'[m]] = m
      /\ \A d \in Caller : held[d] \in Entry /\ sessions'[EntryConn[held[d]]] = held[d] =>
           sessions[EntryConn[held[d]]] = held[d]
      /\ ClosingOK' /\ DialOK' /\ RefsCountHolders' /\ NoTheft' /\ NoLeak'
  <2>1. "shellWait" \in CallerStates /\ "shellWait" \notin {"idle", "exited"}
    BY DEF CallerStates
  <2> QED BY <2>1, Take DEF openShell
<1>2. TypeOK'
  BY <1>0, <1>1 DEF openShell, TypeOK, CallerStates, forwardVars
<1>3. CallerOK'
  BY <1>0 DEF openShell, CallerOK, TypeOK, forwardVars
<1>4. MapOK'
  BY <1>0, <1>1 DEF openShell, MapOK, forwardVars
<1>5. FwdRefsCountHolders'
  <2>1. \A k \in Claim : ForwardHolders(k)' = ForwardHolders(k)
    BY <1>0 DEF openShell, ForwardHolders, TypeOK, CallerOK
  <2> QED BY <2>1 DEF IndInv, FwdRefsCountHolders, openShell, forwardVars
<1>6. ForwardsRideCurrentSession'
  BY <1>0, <1>1 DEF IndInv, ForwardsRideCurrentSession, MapOK, openShell, forwardVars
<1>7. ClaimCurrent'
  BY <1>0, <1>1 DEF IndInv, ClaimCurrent, CallerOK, TypeOK, openShell, forwardVars
<1> QED BY <1>1, <1>2, <1>3, <1>4, <1>5, <1>6, <1>7 DEF IndInv

(* The three ways a shell's reference is given back.                       *)
LEMMA ShellGivesBackInv ==
  ASSUME IndInv, NEW c \in Caller, pc[c] \in {"shellWait", "shell"},
         \/ pc' = [pc EXCEPT ![c] = "idle"] /\ held' = [held EXCEPT ![c] = NoEntry]
         \/ pc' = [pc EXCEPT ![c] = "exited"] /\ UNCHANGED held,
         releaseSession(held[c], forwards),
         UNCHANGED <<dial, backend, fwdRefs, fwdState, fwdOn, listening, claim>>
  PROVE  IndInv'
<1> USE ConstantsAssumption
<1>0. TypeOK /\ CallerOK /\ MapOK /\ held[c] \in Entry
  BY DEF IndInv, CallerOK
<1>1. /\ sessions' \in [Connection -> Entry \cup {NoEntry}]
      /\ refs' \in [Entry -> RefRange]
      /\ closing' \in SUBSET Entry
      /\ forwards' \in [Key -> Claim \cup {NoClaim}]
      /\ \A n \in Connection : sessions'[n] # NoEntry => sessions'[n] = sessions[n]
      /\ \A y \in Key : forwards'[y] # NoClaim =>
           forwards'[y] = forwards[y] /\ sessions'[KeyConn[y]] = sessions[KeyConn[y]]
      /\ \A y \in Key : sessions'[KeyConn[y]] # NoEntry => forwards'[y] = forwards[y]
      /\ ClosingOK' /\ DialOK' /\ RefsCountHolders' /\ NoTheft' /\ NoLeak'
  <2> DEFINE e == held[c]
  <2>1. e \in Entry /\ forwards \in [Key -> Claim \cup {NoClaim}]
    BY <1>0 DEF TypeOK
  <2> HIDE DEF e
  <2> QED BY <2>1, Release DEF e
<1>2. TypeOK'
  BY <1>0, <1>1 DEF TypeOK, CallerStates
<1>3. CallerOK'
  BY <1>0 DEF CallerOK, TypeOK
<1>4. MapOK'
  BY <1>0, <1>1 DEF MapOK
<1>5. FwdRefsCountHolders'
  <2>1. \A k \in Claim : ForwardHolders(k)' = ForwardHolders(k)
    BY <1>0 DEF ForwardHolders, TypeOK, CallerOK
  <2> QED BY <1>1, <2>1 DEF IndInv, FwdRefsCountHolders
<1>6. ForwardsRideCurrentSession'
  BY <1>0, <1>1 DEF IndInv, ForwardsRideCurrentSession
<1>7. ClaimCurrent'
  BY <1>0, <1>1 DEF IndInv, ClaimCurrent, CallerOK, TypeOK
<1> QED BY <1>1, <1>2, <1>3, <1>4, <1>5, <1>6, <1>7 DEF IndInv

(* A step that moves no reference and no map entry.                        *)
LEMMA QuietCallerInv ==
  ASSUME IndInv, NEW c \in Caller,
         \/ shellOpened(c)
         \/ closeShell(c) /\ pc[c] = "exited"
         \/ forwardResolved(c)
         \/ abortForward(c)
  PROVE  IndInv'
<1> USE ConstantsAssumption
<1>0. TypeOK /\ CallerOK /\ MapOK
  BY DEF IndInv
<1>1. /\ UNCHANGED <<sessionVars, forwards, fwdRefs, fwdState, fwdOn, claim>>
      /\ listening' \in SUBSET listening
  BY DEF shellOpened, closeShell, forwardResolved, abortForward, callerVars, forwardVars,
     sessionVars
<1>2. TypeOK'
  BY <1>0, <1>1 DEF TypeOK, CallerStates, shellOpened, closeShell, forwardResolved,
     abortForward,
                    callerVars, sessionVars
<1>3. CallerOK'
  BY <1>0, <1>1 DEF CallerOK, TypeOK, shellOpened, closeShell, forwardResolved,
     abortForward, callerVars
<1>4. /\ \A k \in Claim : ForwardHolders(k)' = ForwardHolders(k)
      /\ \A e \in Entry : SessionHolders(e)' = SessionHolders(e)
  BY <1>0, <1>1 DEF ForwardHolders, SessionHolders, TypeOK, CallerOK,
                    shellOpened, closeShell, forwardResolved, abortForward, callerVars
<1>5. RefsCountHolders' /\ FwdRefsCountHolders' /\ NoTheft'
  BY <1>0, <1>1, <1>4 DEF IndInv, RefsCountHolders, FwdRefsCountHolders, NoTheft, TypeOK,
     sessionVars
<1>6. MapOK' /\ ForwardsRideCurrentSession' /\ ClosingOK' /\ DialOK' /\ NoLeak'
  BY <1>1 DEF IndInv, MapOK, ForwardsRideCurrentSession, ClosingOK, DialOK, NoLeak,
     sessionVars
<1>7. ClaimCurrent'
  BY <1>0, <1>1 DEF IndInv, ClaimCurrent, CallerOK, TypeOK, shellOpened, closeShell,
                    forwardResolved, abortForward, callerVars, sessionVars
<1> QED BY <1>2, <1>3, <1>5, <1>6, <1>7 DEF IndInv

-----------------------------------------------------------------------------
(* The actions of a forward.                                               *)

(* A caller that had no use takes a reference on forward entry k.          *)
LEMMA TakeForwardRef ==
  ASSUME TypeOK, CallerOK, NEW c \in Caller, NEW k \in Claim, pc[c] = "idle",
         pc' = [pc EXCEPT ![c] = "fwdWait"], claim' = [claim EXCEPT ![c] = k]
  PROVE  /\ ForwardHolders(k) \in SUBSET Caller
         /\ c \notin ForwardHolders(k)
         /\ ForwardHolders(k)' = ForwardHolders(k) \cup {c}
         /\ \A j \in Claim : j # k => ForwardHolders(j)' = ForwardHolders(j)
BY ConstantsAssumption DEF TypeOK, CallerOK, ForwardHolders

LEMMA JoinForwardInv ==
  ASSUME IndInv, NEW c \in Caller, NEW y \in Key, joinForward(c, y)
  PROVE  IndInv'
<1> USE ConstantsAssumption
<1>0. TypeOK /\ CallerOK /\ MapOK
  BY DEF IndInv
<1> DEFINE k == forwards[y]
           e == sessions[KeyConn[y]]
<1>1. k \in Claim /\ e \in Entry /\ ClaimKey[k] = y /\ fwdOn[k] = e /\ EntryConn[e] = KeyConn[y]
  BY <1>0 DEF joinForward, TypeOK, MapOK, IndInv, ForwardsRideCurrentSession
<1>2. /\ pc[c] = "idle"
      /\ refs' = [refs EXCEPT ![e] = @ + 1]
      /\ fwdRefs' = [fwdRefs EXCEPT ![k] = @ + 1]
      /\ pc' = [pc EXCEPT ![c] = "fwdWait"]
      /\ held' = [held EXCEPT ![c] = e]
      /\ claim' = [claim EXCEPT ![c] = k]
      /\ UNCHANGED <<sessions, dial, closing, backend, forwards, fwdState, fwdOn, listening>>
  BY DEF joinForward
<1>3. /\ refs' \in [Entry -> RefRange]
      /\ ClosingOK' /\ DialOK' /\ RefsCountHolders' /\ NoTheft' /\ NoLeak'
  <2>1. "fwdWait" \in CallerStates /\ "fwdWait" \notin {"idle", "exited"}
    BY DEF CallerStates
  <2>2. sessionFor(KeyConn[y], e)
    BY <1>1, <1>2 DEF sessionFor
  <2>3. KeyConn[y] \in Connection
    OBVIOUS
  <2> HIDE DEF e, k
  <2> QED BY <1>1, <1>2, <2>1, <2>2, <2>3, Take
<1>4. /\ ForwardHolders(k) \in SUBSET Caller
      /\ c \notin ForwardHolders(k)
      /\ \A j \in Claim : ForwardHolders(j)' = IF j = k THEN ForwardHolders(j) \cup {c} ELSE ForwardHolders(j)
  <2> HIDE DEF e, k
  <2> QED BY <1>0, <1>1, <1>2, TakeForwardRef
<1>5. /\ fwdRefs[k] = Cardinality(ForwardHolders(k))
      /\ Cardinality(ForwardHolders(k) \cup {c}) = Cardinality(ForwardHolders(k)) + 1
      /\ Cardinality(ForwardHolders(k) \cup {c}) \in RefRange
  BY <1>1, <1>4, Counting DEF IndInv, FwdRefsCountHolders
<1>6. FwdRefsCountHolders'
  BY <1>0, <1>1, <1>2, <1>4, <1>5 DEF IndInv, FwdRefsCountHolders, TypeOK
<1>7. TypeOK'
  <2>1. fwdRefs' \in [Claim -> RefRange]
    BY <1>0, <1>1, <1>2, <1>5 DEF TypeOK
  <2> QED BY <1>0, <1>1, <1>2, <1>3, <2>1 DEF TypeOK, CallerStates
<1>8. CallerOK'
  BY <1>0, <1>1, <1>2 DEF CallerOK, TypeOK
<1>9. MapOK' /\ ForwardsRideCurrentSession'
  BY <1>2 DEF IndInv, MapOK, ForwardsRideCurrentSession
<1>10. ClaimCurrent'
  BY <1>0, <1>1, <1>2 DEF IndInv, ClaimCurrent, CallerOK, TypeOK
<1> QED BY <1>3, <1>6, <1>7, <1>8, <1>9, <1>10 DEF IndInv

LEMMA OpenForwardInv ==
  ASSUME IndInv, NEW c \in Caller, NEW k \in Claim, NEW e \in Entry, openForward(c, k, e)
  PROVE  IndInv'
<1> USE ConstantsAssumption
<1>0. TypeOK /\ CallerOK /\ MapOK
  BY DEF IndInv
<1> DEFINE y == ClaimKey[k]
           n == KeyConn[y]
<1>1. y \in Key /\ n \in Connection
  OBVIOUS
<1>2. /\ pc[c] = "idle"
      /\ forwards[y] = NoClaim \/ sessions[n] = NoEntry
      /\ FreshClaim(k)
      /\ sessionFor(n, e)
      /\ forwards' = [forwards EXCEPT ![y] = k]
      /\ fwdRefs' = [fwdRefs EXCEPT ![k] = 1]
      /\ fwdState' = [fwdState EXCEPT ![k] = "pending"]
      /\ fwdOn' = [fwdOn EXCEPT ![k] = e]
      /\ pc' = [pc EXCEPT ![c] = "fwdWait"]
      /\ held' = [held EXCEPT ![c] = e]
      /\ claim' = [claim EXCEPT ![c] = k]
      /\ UNCHANGED <<closing, listening>>
  BY DEF openForward
<1>3. /\ sessions' \in [Connection -> Entry \cup {NoEntry}]
      /\ refs' \in [Entry -> RefRange]
      /\ dial' \in [Entry -> DialStates]
      /\ backend' \in [Entry -> BackendStates]
      /\ EntryConn[e] = n /\ sessions'[n] = e
      /\ \A m \in Connection : sessions[m] # NoEntry => sessions'[m] = sessions[m]
      /\ \A m \in Connection : sessions'[m] # NoEntry => EntryConn[sessions'[m]] = m
      /\ \A d \in Caller : held[d] \in Entry /\ sessions'[EntryConn[held[d]]] = held[d] =>
           sessions[EntryConn[held[d]]] = held[d]
      /\ ClosingOK' /\ DialOK' /\ RefsCountHolders' /\ NoTheft' /\ NoLeak'
  <2>1. "fwdWait" \in CallerStates /\ "fwdWait" \notin {"idle", "exited"}
    BY DEF CallerStates
  <2> HIDE DEF n, y
  <2> QED BY <1>1, <1>2, <2>1, Take
<1>4. /\ ForwardHolders(k) = {}
      /\ ForwardHolders(k)' = {c}
      /\ \A j \in Claim : j # k => ForwardHolders(j)' = ForwardHolders(j)
  <2>1. ForwardHolders(k) = {}
    BY <1>2 DEF FreshClaim, ForwardHolders
  <2>2. /\ ForwardHolders(k)' = ForwardHolders(k) \cup {c}
        /\ \A j \in Claim : j # k => ForwardHolders(j)' = ForwardHolders(j)
    BY <1>0, <1>2, TakeForwardRef
  <2>3. ForwardHolders(k)' = {c}
    BY <2>1, <2>2
  <2> QED BY <2>1, <2>2, <2>3
<1>5. Cardinality({c}) = 1 /\ 1 \in RefRange
  BY Counting
<1>6. FwdRefsCountHolders'
  BY <1>0, <1>2, <1>4, <1>5 DEF IndInv, FwdRefsCountHolders, TypeOK
<1>7. TypeOK'
  BY <1>0, <1>2, <1>3, <1>5 DEF TypeOK, CallerStates, ForwardStates
<1>8. CallerOK'
  <2>1. \A d \in Caller : claim[d] # k
    BY <1>2 DEF FreshClaim
  <2> QED BY <1>0, <1>2, <1>3, <2>1 DEF CallerOK, TypeOK
<1>9. MapOK'
  BY <1>0, <1>2, <1>3 DEF MapOK, TypeOK
<1>10. ForwardsRideCurrentSession'
  <2> SUFFICES ASSUME NEW z \in Key, forwards'[z] # NoClaim
               PROVE  sessions'[KeyConn[z]] = fwdOn'[forwards'[z]]
    BY DEF ForwardsRideCurrentSession
  <2>1. CASE z = y
    BY <1>0, <1>2, <1>3, <2>1 DEF TypeOK
  <2>2. CASE z # y
    <3>1. forwards'[z] = forwards[z] /\ forwards[z] \in Claim
      BY <1>0, <1>2, <2>2 DEF TypeOK
    <3>2. /\ ClaimKey[forwards[z]] = z /\ forwards[z] # k
          /\ sessions[KeyConn[z]] = fwdOn[forwards[z]] /\ fwdOn[forwards[z]] # NoEntry
      BY <1>0, <2>2, <3>1 DEF MapOK, IndInv, ForwardsRideCurrentSession
    <3> QED BY <1>0, <1>2, <1>3, <3>1, <3>2 DEF TypeOK
  <2> QED BY <2>1, <2>2
<1>11. ClaimCurrent'
  <2> SUFFICES ASSUME NEW d \in Caller, pc'[d] \in {"fwdWait", "fwdHeld"}
               PROVE  /\ pc'[d] = "fwdHeld" => fwdState'[claim'[d]] = "open"
                      /\ fwdState'[claim'[d]] # "failed"
                           /\ sessions'[EntryConn[held'[d]]] = held'[d] =>
                           forwards'[ClaimKey[claim'[d]]] = claim'[d]
    BY DEF ClaimCurrent
  <2>1. CASE d = c
    BY <1>0, <1>1, <1>2, <2>1 DEF TypeOK
  <2>2. CASE d # c
    <3>1. /\ pc'[d] = pc[d] /\ held'[d] = held[d] /\ claim'[d] = claim[d]
          /\ claim[d] \in Claim /\ claim[d] # k
          /\ held[d] \in Entry /\ EntryConn[held[d]] = KeyConn[ClaimKey[claim[d]]]
      BY <1>0, <1>2, <2>2 DEF TypeOK, CallerOK, FreshClaim
    <3>2. fwdState'[claim[d]] = fwdState[claim[d]]
      BY <1>0, <1>2, <3>1 DEF TypeOK
    <3>3. ASSUME fwdState[claim[d]] # "failed", sessions'[EntryConn[held[d]]] = held[d]
          PROVE  forwards'[ClaimKey[claim[d]]] = claim[d]
      <4>1. sessions[EntryConn[held[d]]] = held[d]
        BY <1>3, <3>1, <3>3
      <4>2. forwards[ClaimKey[claim[d]]] = claim[d]
        BY <2>2, <3>1, <3>3, <4>1 DEF IndInv, ClaimCurrent
      <4>3. ClaimKey[claim[d]] # y
        BY <1>2, <3>1, <4>1, <4>2
      <4> QED BY <1>0, <1>2, <3>1, <4>2, <4>3 DEF TypeOK
    <3> QED BY <2>2, <3>1, <3>2, <3>3 DEF IndInv, ClaimCurrent
  <2> QED BY <2>1, <2>2
<1> QED BY <1>3, <1>6, <1>7, <1>8, <1>9, <1>10, <1>11 DEF IndInv

(* A caller gives its reference on forward entry k back.                   *)
LEMMA GiveForwardRef ==
  ASSUME TypeOK, NEW c \in Caller, NEW k \in Claim, claim[c] = k,
         pc[c] \in {"fwdWait", "fwdHeld"},
         \/ pc' = [pc EXCEPT ![c] = "idle"] /\ claim' = [claim EXCEPT ![c] = NoClaim]
         \/ pc' = [pc EXCEPT ![c] = "fwdClosing"] /\ UNCHANGED claim
  PROVE  /\ ForwardHolders(k) \in SUBSET Caller
         /\ c \in ForwardHolders(k)
         /\ ForwardHolders(k)' = ForwardHolders(k) \ {c}
         /\ \A j \in Claim : j # k => ForwardHolders(j)' = ForwardHolders(j)
BY ConstantsAssumption DEF TypeOK, ForwardHolders

(* A rejected forward: its entry, if it is still there, and its session    *)
(* reference go.                                                           *)
LEMMA ForwardRejectedInv ==
  ASSUME IndInv, NEW c \in Caller, forwardRejected(c)
  PROVE  IndInv'
<1> USE ConstantsAssumption
<1>0. TypeOK /\ CallerOK /\ MapOK
  BY DEF IndInv
<1> DEFINE k == claim[c]
           y == ClaimKey[k]
           e == held[c]
           fwds == IF forwards[y] = k THEN [forwards EXCEPT ![y] = NoClaim] ELSE forwards
<1>1. k \in Claim /\ y \in Key /\ e \in Entry /\ EntryConn[e] = KeyConn[y]
  BY <1>0 DEF forwardRejected, CallerOK
<1>2. /\ pc[c] = "fwdWait"
      /\ releaseSession(e, fwds)
      /\ pc' = [pc EXCEPT ![c] = "idle"]
      /\ held' = [held EXCEPT ![c] = NoEntry]
      /\ claim' = [claim EXCEPT ![c] = NoClaim]
      /\ UNCHANGED <<dial, backend, fwdRefs, fwdState, fwdOn, listening>>
  BY DEF forwardRejected
<1>3. /\ fwds \in [Key -> Claim \cup {NoClaim}] /\ fwds[y] # k
      /\ \A z \in Key : z # y => fwds[z] = forwards[z]
      /\ \A z \in Key : fwds[z] # NoClaim => fwds[z] = forwards[z]
  BY <1>0, <1>1 DEF TypeOK
<1>4. /\ sessions' \in [Connection -> Entry \cup {NoEntry}]
      /\ refs' \in [Entry -> RefRange]
      /\ closing' \in SUBSET Entry
      /\ forwards' \in [Key -> Claim \cup {NoClaim}]
      /\ \A m \in Connection : sessions'[m] # NoEntry => sessions'[m] = sessions[m]
      /\ \A z \in Key : forwards'[z] # NoClaim =>
           forwards'[z] = fwds[z] /\ sessions'[KeyConn[z]] = sessions[KeyConn[z]]
      /\ \A z \in Key : sessions'[KeyConn[z]] # NoEntry => forwards'[z] = fwds[z]
      /\ ClosingOK' /\ DialOK' /\ RefsCountHolders' /\ NoTheft' /\ NoLeak'
  <2>1. pc[c] \notin {"idle", "exited"} /\ held[c] = e /\ UNCHANGED <<dial, backend>>
    BY <1>2
  <2>2. \A z \in Key : KeyConn[z] # EntryConn[e] => fwds[z] = forwards[z]
    BY <1>1, <1>3
  <2> HIDE DEF k, y, e, fwds
  <2> QED BY <1>1, <1>2, <1>3, <2>1, <2>2, Release
<1> HIDE DEF fwds
<1>5. TypeOK'
  BY <1>0, <1>2, <1>4 DEF TypeOK, CallerStates
<1>6. CallerOK'
  BY <1>0, <1>2 DEF CallerOK, TypeOK
<1>7. MapOK' /\ ForwardsRideCurrentSession'
  BY <1>0, <1>2, <1>3, <1>4 DEF IndInv, MapOK, ForwardsRideCurrentSession
<1>8. \A j \in Claim : j # k => ForwardHolders(j)' = ForwardHolders(j)
  <2> HIDE DEF k, y
  <2> QED BY <1>0, <1>1, <1>2, GiveForwardRef DEF k
<1>9. FwdRefsCountHolders'
  <2> SUFFICES ASSUME NEW j \in Claim, forwards'[ClaimKey[j]] = j
               PROVE  fwdRefs'[j] = Cardinality(ForwardHolders(j)')
    BY DEF FwdRefsCountHolders
  <2>1. fwds[ClaimKey[j]] = j /\ forwards[ClaimKey[j]] = j /\ j # k
    BY <1>1, <1>3, <1>4
  <2> QED BY <1>2, <1>8, <2>1 DEF IndInv, FwdRefsCountHolders
<1>10. ClaimCurrent'
  <2> SUFFICES ASSUME NEW d \in Caller, pc'[d] \in {"fwdWait", "fwdHeld"}
               PROVE  /\ pc'[d] = "fwdHeld" => fwdState'[claim'[d]] = "open"
                      /\ fwdState'[claim'[d]] # "failed"
                           /\ sessions'[EntryConn[held'[d]]] = held'[d] =>
                           forwards'[ClaimKey[claim'[d]]] = claim'[d]
    BY DEF ClaimCurrent
  <2>1. /\ d # c /\ pc'[d] = pc[d] /\ held'[d] = held[d] /\ claim'[d] = claim[d]
        /\ claim[d] \in Claim /\ held[d] \in Entry
        /\ EntryConn[held[d]] = KeyConn[ClaimKey[claim[d]]]
        /\ fwdState' = fwdState
    BY <1>0, <1>2 DEF TypeOK, CallerOK
  <2>2. ASSUME fwdState[claim[d]] # "failed", sessions'[EntryConn[held[d]]] = held[d]
        PROVE  forwards'[ClaimKey[claim[d]]] = claim[d]
    <3>1. sessions[EntryConn[held[d]]] = held[d] /\ claim[d] # k
      BY <1>4, <2>1, <2>2 DEF forwardRejected
    <3>2. forwards[ClaimKey[claim[d]]] = claim[d]
      BY <2>1, <2>2, <3>1 DEF IndInv, ClaimCurrent
    <3>3. fwds[ClaimKey[claim[d]]] = claim[d]
      BY <1>1, <1>3, <2>1, <3>1, <3>2 DEF fwds
    <3> QED BY <1>4, <2>1, <2>2, <3>3
  <2> QED BY <2>1, <2>2 DEF IndInv, ClaimCurrent
<1> QED BY <1>4, <1>5, <1>6, <1>7, <1>9, <1>10 DEF IndInv

(* releaseForward: a stale claim spends nothing, a shared entry loses one  *)
(* reference of each kind, and the last reference takes the entry out.     *)
LEMMA CloseForwardInv ==
  ASSUME IndInv, NEW c \in Caller, closeForward(c)
  PROVE  IndInv'
<1> USE ConstantsAssumption
<1>0. TypeOK /\ CallerOK /\ MapOK
  BY DEF IndInv
<1> DEFINE k == claim[c]
           y == ClaimKey[k]
           e == held[c]
           n == KeyConn[y]
<1>1. /\ pc[c] = "fwdHeld" /\ fwdState[k] = "open"
      /\ k \in Claim /\ y \in Key /\ e \in Entry
      /\ EntryConn[e] = n /\ fwdOn[k] = e
  BY <1>0 DEF closeForward, CallerOK, IndInv, ClaimCurrent
<1>2. UNCHANGED <<dial, backend, fwdState, fwdOn, listening>>
  BY DEF closeForward
<1>3. /\ ForwardHolders(k) \in SUBSET Caller
      /\ c \in ForwardHolders(k)
      /\ Cardinality(ForwardHolders(k)) >= 1
      /\ Cardinality(ForwardHolders(k) \ {c}) = Cardinality(ForwardHolders(k)) - 1
      /\ Cardinality(ForwardHolders(k)) = 1 => ForwardHolders(k) \ {c} = {}
      /\ Cardinality(ForwardHolders(k) \ {c}) \in RefRange
  <2>1. ForwardHolders(k) \in SUBSET Caller /\ c \in ForwardHolders(k)
    BY <1>1 DEF ForwardHolders
  <2> HIDE DEF k
  <2> QED BY <2>1, Counting
<1>4. forwards[y] = k => fwdRefs[k] = Cardinality(ForwardHolders(k)) /\ sessions[n] = e
  BY <1>0, <1>1 DEF IndInv, FwdRefsCountHolders, ForwardsRideCurrentSession, TypeOK
<1>5. forwards[y] # k => sessions[n] # e
  BY <1>1 DEF IndInv, ClaimCurrent
<1>6. /\ k \in Claim
      /\ \/ pc' = [pc EXCEPT ![c] = "idle"] /\ claim' = [claim EXCEPT ![c] = NoClaim]
         \/ pc' = [pc EXCEPT ![c] = "fwdClosing"] /\ UNCHANGED claim
  BY <1>1 DEF closeForward
<1>7. \A j \in Claim :
        ForwardHolders(j)' = IF j = k THEN ForwardHolders(k) \ {c} ELSE ForwardHolders(j)
  <2>1. PICK kk \in Claim : claim[c] = kk
    BY <1>1
  <2>2. /\ ForwardHolders(kk)' = ForwardHolders(kk) \ {c}
        /\ \A j \in Claim : j # kk => ForwardHolders(j)' = ForwardHolders(j)
    BY <1>0, <1>1, <1>6, <2>1, GiveForwardRef
  <2> QED BY <2>1, <2>2
<1>8. CASE forwards[y] # k
  <2>1. /\ pc' = [pc EXCEPT ![c] = "idle"]
        /\ held' = [held EXCEPT ![c] = NoEntry]
        /\ claim' = [claim EXCEPT ![c] = NoClaim]
        /\ UNCHANGED <<sessions, refs, closing, forwards, fwdRefs>>
    BY <1>8 DEF closeForward
  <2>2.
        /\ sessions' \in [Connection -> Entry \cup {NoEntry}]
        /\ refs' \in [Entry -> RefRange]
        /\ closing' \in SUBSET Entry
        /\ forwards' \in [Key -> Claim \cup {NoClaim}]
        /\ \A m \in Connection : sessions'[m] # NoEntry => sessions'[m] = sessions[m]
        /\ \A z \in Key : forwards'[z] # NoClaim =>
             forwards'[z] = forwards[z] /\ sessions'[KeyConn[z]] = sessions[KeyConn[z]]
        /\ \A z \in Key : sessions'[KeyConn[z]] # NoEntry => forwards'[z] = forwards[z]
        /\ ClosingOK' /\ DialOK' /\ RefsCountHolders' /\ NoTheft' /\ NoLeak'
    <3>1. releaseSession(e, forwards)
      BY <1>1, <1>5, <1>8, <2>1 DEF releaseSession
    <3>2. forwards \in [Key -> Claim \cup {NoClaim}]
      BY <1>0 DEF TypeOK
    <3> HIDE DEF e
    <3> QED BY <1>1, <1>2, <2>1, <3>1, <3>2, Release DEF e
  <2>3. TypeOK'
    BY <1>0, <1>2, <2>1, <2>2 DEF TypeOK, CallerStates
  <2>4. CallerOK'
    BY <1>0, <1>2, <2>1 DEF CallerOK, TypeOK
  <2>5. MapOK' /\ ForwardsRideCurrentSession'
    BY <1>2, <2>1 DEF IndInv, MapOK, ForwardsRideCurrentSession
  <2>6. FwdRefsCountHolders'
    BY <1>7, <1>8, <2>1 DEF IndInv, FwdRefsCountHolders
  <2>7. ClaimCurrent'
    BY <1>0, <1>2, <2>1 DEF IndInv, ClaimCurrent, TypeOK
  <2> QED BY <2>2, <2>3, <2>4, <2>5, <2>6, <2>7 DEF IndInv
<1>9. CASE forwards[y] = k /\ fwdRefs[k] > 1
  <2>1. /\ fwdRefs' = [fwdRefs EXCEPT ![k] = @ - 1]
        /\ releaseSession(e, forwards)
        /\ pc' = [pc EXCEPT ![c] = "idle"]
        /\ held' = [held EXCEPT ![c] = NoEntry]
        /\ claim' = [claim EXCEPT ![c] = NoClaim]
    BY <1>4, <1>9 DEF closeForward
  <2>2.
        /\ sessions' \in [Connection -> Entry \cup {NoEntry}]
        /\ refs' \in [Entry -> RefRange]
        /\ closing' \in SUBSET Entry
        /\ forwards' \in [Key -> Claim \cup {NoClaim}]
        /\ \A m \in Connection : sessions'[m] # NoEntry => sessions'[m] = sessions[m]
        /\ \A z \in Key : forwards'[z] # NoClaim =>
             forwards'[z] = forwards[z] /\ sessions'[KeyConn[z]] = sessions[KeyConn[z]]
        /\ \A z \in Key : sessions'[KeyConn[z]] # NoEntry => forwards'[z] = forwards[z]
        /\ ClosingOK' /\ DialOK' /\ RefsCountHolders' /\ NoTheft' /\ NoLeak'
    <3>1. forwards \in [Key -> Claim \cup {NoClaim}]
      BY <1>0 DEF TypeOK
    <3> HIDE DEF e
    <3> QED BY <1>1, <1>2, <2>1, <3>1, Release DEF e
  <2>3. fwdRefs' \in [Claim -> RefRange] /\ fwdRefs'[k] = Cardinality(ForwardHolders(k) \ {c})
    BY <1>0, <1>1, <1>3, <1>4, <1>9, <2>1 DEF TypeOK
  <2>4. TypeOK'
    BY <1>0, <1>2, <2>1, <2>2, <2>3 DEF TypeOK, CallerStates
  <2>5. CallerOK'
    BY <1>0, <1>2, <2>1 DEF CallerOK, TypeOK
  <2>6. MapOK' /\ ForwardsRideCurrentSession'
    BY <1>0, <1>2, <2>2 DEF IndInv, MapOK, ForwardsRideCurrentSession
  <2>7. FwdRefsCountHolders'
    <3> SUFFICES ASSUME NEW j \in Claim, forwards'[ClaimKey[j]] = j
                 PROVE  fwdRefs'[j] = Cardinality(ForwardHolders(j)')
      BY DEF FwdRefsCountHolders
    <3>1. forwards[ClaimKey[j]] = j
      BY <2>2
    <3>2. CASE j = k
      BY <1>7, <2>3, <3>2
    <3>3. CASE j # k
      BY <1>0, <1>7, <2>1, <3>1, <3>3 DEF IndInv, FwdRefsCountHolders, TypeOK
    <3> QED BY <3>2, <3>3
  <2>8. ClaimCurrent'
    BY <1>0, <1>2, <2>1, <2>2 DEF IndInv, ClaimCurrent, CallerOK, TypeOK
  <2> QED BY <2>2, <2>4, <2>5, <2>6, <2>7, <2>8 DEF IndInv
<1>10. CASE forwards[y] = k /\ fwdRefs[k] = 1
  <2>1. /\ fwdRefs' = [fwdRefs EXCEPT ![k] = 0]
        /\ forwards' = [forwards EXCEPT ![y] = NoClaim]
        /\ pc' = [pc EXCEPT ![c] = "fwdClosing"]
        /\ held' = [held EXCEPT ![c] = e]
        /\ UNCHANGED <<sessions, refs, closing, claim>>
    BY <1>4, <1>10 DEF closeForward
  <2>2. held' = held /\ \A f \in Entry : SessionHolders(f)' = SessionHolders(f)
    BY <1>0, <1>1, <2>1 DEF TypeOK, SessionHolders
  <2>3. 0 \in RefRange
    BY Counting
  <2>4. TypeOK'
    BY <1>0, <1>2, <2>1, <2>2, <2>3 DEF TypeOK, CallerStates
  <2>5. CallerOK'
    BY <1>0, <1>1, <1>2, <2>1, <2>2 DEF CallerOK, TypeOK
  <2>6. MapOK' /\ ForwardsRideCurrentSession'
    BY <1>0, <1>1, <1>2, <2>1 DEF IndInv, MapOK, ForwardsRideCurrentSession, TypeOK
  <2>7. ClosingOK' /\ DialOK' /\ NoLeak' /\ RefsCountHolders' /\ NoTheft'
    BY <1>0, <1>2, <2>1, <2>2 DEF IndInv, TypeOK, ClosingOK, DialOK, NoLeak,
       RefsCountHolders, NoTheft
  <2>8. FwdRefsCountHolders'
    <3> SUFFICES ASSUME NEW j \in Claim, forwards'[ClaimKey[j]] = j
                 PROVE  fwdRefs'[j] = Cardinality(ForwardHolders(j)')
      BY DEF FwdRefsCountHolders
    <3>1. j # k /\ forwards[ClaimKey[j]] = j
      BY <1>0, <1>1, <2>1 DEF TypeOK
    <3> QED BY <1>0, <1>7, <2>1, <3>1 DEF IndInv, FwdRefsCountHolders, TypeOK
  <2>9. ClaimCurrent'
    <3>1. \A d \in Caller : d # c /\ pc[d] \in {"fwdWait", "fwdHeld"} => claim[d] # k
      <4>1. ForwardHolders(k) \ {c} = {}
        BY <1>3, <1>4, <1>10
      <4> QED BY <4>1 DEF ForwardHolders
    <3>2. \A d \in Caller : pc'[d] \in {"fwdWait", "fwdHeld"} => d # c /\ pc'[d] = pc[d]
      BY <1>0, <2>1 DEF TypeOK
    <3> SUFFICES ASSUME NEW d \in Caller, pc'[d] \in {"fwdWait", "fwdHeld"}
                 PROVE  /\ pc'[d] = "fwdHeld" => fwdState'[claim'[d]] = "open"
                        /\ fwdState'[claim'[d]] # "failed"
                             /\ sessions'[EntryConn[held'[d]]] = held'[d] =>
                             forwards'[ClaimKey[claim'[d]]] = claim'[d]
      BY DEF ClaimCurrent
    <3>3. /\ pc[d] \in {"fwdWait", "fwdHeld"} /\ pc'[d] = pc[d] /\ claim[d] # k /\ claim[d] \in Claim
          /\ claim' = claim /\ held' = held /\ sessions' = sessions /\ fwdState' = fwdState
      BY <1>0, <1>2, <2>1, <2>2, <3>1, <3>2 DEF CallerOK
    <3>4. ASSUME forwards[ClaimKey[claim[d]]] = claim[d]
          PROVE  forwards'[ClaimKey[claim[d]]] = claim[d]
      BY <1>0, <1>1, <1>10, <2>1, <3>3, <3>4 DEF TypeOK
    <3> QED BY <3>3, <3>4 DEF IndInv, ClaimCurrent
  <2> QED BY <2>4, <2>5, <2>6, <2>7, <2>8, <2>9 DEF IndInv
<1>11. fwdRefs[k] # 0 \/ forwards[y] # k
  BY <1>3, <1>4
<1>12. fwdRefs[k] \in Nat
  <2>1. Cardinality(Caller) \in Nat
    BY FS_CardinalityType
  <2> QED BY <1>0, <1>1, <2>1 DEF TypeOK, RefRange
<1> QED BY <1>8, <1>9, <1>10, <1>11, <1>12

(* The session reference of a closed forward goes last.                    *)
LEMMA ForwardClosedInv ==
  ASSUME IndInv, NEW c \in Caller, forwardClosed(c)
  PROVE  IndInv'
<1> USE ConstantsAssumption
<1>0. TypeOK /\ CallerOK /\ MapOK
  BY DEF IndInv
<1> DEFINE e == held[c]
<1>1. /\ pc[c] = "fwdClosing" /\ e \in Entry
      /\ releaseSession(e, forwards)
      /\ pc' = [pc EXCEPT ![c] = "idle"]
      /\ held' = [held EXCEPT ![c] = NoEntry]
      /\ claim' = [claim EXCEPT ![c] = NoClaim]
      /\ UNCHANGED <<dial, backend, fwdRefs, fwdState, fwdOn, listening>>
  BY <1>0 DEF forwardClosed, CallerOK
<1>2.
      /\ sessions' \in [Connection -> Entry \cup {NoEntry}]
      /\ refs' \in [Entry -> RefRange]
      /\ closing' \in SUBSET Entry
      /\ forwards' \in [Key -> Claim \cup {NoClaim}]
      /\ \A m \in Connection : sessions'[m] # NoEntry => sessions'[m] = sessions[m]
      /\ \A z \in Key : forwards'[z] # NoClaim =>
           forwards'[z] = forwards[z] /\ sessions'[KeyConn[z]] = sessions[KeyConn[z]]
      /\ \A z \in Key : sessions'[KeyConn[z]] # NoEntry => forwards'[z] = forwards[z]
      /\ ClosingOK' /\ DialOK' /\ RefsCountHolders' /\ NoTheft' /\ NoLeak'
  <2>1. forwards \in [Key -> Claim \cup {NoClaim}]
    BY <1>0 DEF TypeOK
  <2> HIDE DEF e
  <2> QED BY <1>1, <2>1, Release DEF e
<1>3. TypeOK'
  BY <1>0, <1>1, <1>2 DEF TypeOK, CallerStates
<1>4. CallerOK'
  BY <1>0, <1>1 DEF CallerOK, TypeOK
<1>5. MapOK' /\ ForwardsRideCurrentSession'
  BY <1>0, <1>1, <1>2 DEF IndInv, MapOK, ForwardsRideCurrentSession
<1>6. FwdRefsCountHolders'
  <2>1. \A k \in Claim : ForwardHolders(k)' = ForwardHolders(k)
    BY <1>0, <1>1 DEF ForwardHolders, TypeOK
  <2> QED BY <1>1, <1>2, <2>1 DEF IndInv, FwdRefsCountHolders
<1>7. ClaimCurrent'
  BY <1>0, <1>1, <1>2 DEF IndInv, ClaimCurrent, CallerOK, TypeOK
<1> QED BY <1>2, <1>3, <1>4, <1>5, <1>6, <1>7 DEF IndInv

(* The shared promise of a forward settles.                                *)
LEMMA ForwardStepInv ==
  ASSUME IndInv, NEW k \in Claim, ForwardStep(k)
  PROVE  IndInv'
<1> USE ConstantsAssumption
<1>0. TypeOK /\ CallerOK
  BY DEF IndInv
<1>1. /\ UNCHANGED <<sessions, refs, dial, closing, backend, forwards, fwdRefs, fwdOn, pc, held, claim>>
      /\ fwdState[k] = "pending"
      /\ \/ fwdState' = [fwdState EXCEPT ![k] = "open"]
         \/ fwdState' = [fwdState EXCEPT ![k] = "failed"]
      /\ listening' \in SUBSET (listening \cup {k})
  BY DEF ForwardStep, forwardOpens, forwardFails, sessionVars, callerVars
<1>2. TypeOK'
  BY <1>0, <1>1 DEF TypeOK, ForwardStates
<1>3. CallerOK' /\ MapOK' /\ ClosingOK' /\ DialOK' /\ NoLeak' /\ ForwardsRideCurrentSession'
  BY <1>1 DEF IndInv, CallerOK, MapOK, ClosingOK, DialOK, NoLeak, ForwardsRideCurrentSession
<1>4. RefsCountHolders' /\ FwdRefsCountHolders' /\ NoTheft'
  <2>1. /\ \A e \in Entry : SessionHolders(e)' = SessionHolders(e)
        /\ \A j \in Claim : ForwardHolders(j)' = ForwardHolders(j)
    BY <1>1 DEF SessionHolders, ForwardHolders
  <2> QED BY <1>0, <1>1, <2>1 DEF IndInv, RefsCountHolders, FwdRefsCountHolders, NoTheft,
             TypeOK
<1>5. ClaimCurrent'
  BY <1>0, <1>1 DEF IndInv, ClaimCurrent, CallerOK, TypeOK
<1> QED BY <1>2, <1>3, <1>4, <1>5 DEF IndInv

(* The entry of a dial that failed, or of a connection that ended, is      *)
(* forgotten if it is the current one.                                     *)
LEMMA ForgetInv ==
  ASSUME IndInv, NEW e \in Entry, dialRejected(e) \/ onClosed(e)
  PROVE  IndInv'
<1> USE ConstantsAssumption
<1>0. TypeOK /\ CallerOK /\ MapOK /\ EntryConn[e] \in Connection
  BY DEF IndInv
<1>1. /\ UNCHANGED <<refs, closing, fwdRefs, fwdState, fwdOn, listening, pc, held, claim>>
      /\ \/ dial' = [dial EXCEPT ![e] = "failed"] /\ dial[e] = "dialing" /\ backend[e] = "none"
            /\ UNCHANGED backend
         \/ backend' = [backend EXCEPT ![e] = "gone"] /\ backend[e] = "lost" /\ UNCHANGED dial
      /\ IF sessions[EntryConn[e]] = e
         THEN dropSession(EntryConn[e]) ELSE UNCHANGED <<sessions, forwards>>
  BY DEF dialRejected, onClosed, callerVars
<1>2. /\ sessions' \in [Connection -> Entry \cup {NoEntry}]
      /\ forwards' \in [Key -> Claim \cup {NoClaim}]
      /\ \A m \in Connection : sessions'[m] # NoEntry => sessions'[m] = sessions[m]
      /\ \A y \in Key : forwards'[y] # NoClaim =>
           forwards'[y] = forwards[y] /\ sessions'[KeyConn[y]] = sessions[KeyConn[y]]
      /\ \A y \in Key : sessions'[KeyConn[y]] # NoEntry => forwards'[y] = forwards[y]
      /\ \A f \in Entry : f # e /\ sessions[EntryConn[f]] = f => sessions'[EntryConn[f]] = f
  <2>1. CASE sessions[EntryConn[e]] = e
    <3>1. /\ sessions' = [sessions EXCEPT ![EntryConn[e]] = NoEntry]
          /\ forwards' = WithoutConn(EntryConn[e])
      BY <1>1, <2>1 DEF dropSession
    <3> QED BY <1>0, <2>1, <3>1 DEF TypeOK, WithoutConn
  <2>2. CASE sessions[EntryConn[e]] # e
    BY <1>0, <1>1, <2>2 DEF TypeOK
  <2> QED BY <2>1, <2>2
<1>3. TypeOK'
  BY <1>0, <1>1, <1>2 DEF TypeOK, DialStates, BackendStates
<1>4. CallerOK' /\ MapOK' /\ ForwardsRideCurrentSession'
  BY <1>1, <1>2 DEF IndInv, CallerOK, MapOK, ForwardsRideCurrentSession
<1>5. ClosingOK' /\ DialOK' /\ NoLeak'
  BY <1>0, <1>1, <1>2 DEF IndInv, ClosingOK, DialOK, NoLeak, TypeOK
<1>6. RefsCountHolders' /\ FwdRefsCountHolders' /\ NoTheft'
  <2>1. /\ \A f \in Entry : SessionHolders(f)' = SessionHolders(f)
        /\ \A j \in Claim : ForwardHolders(j)' = ForwardHolders(j)
    BY <1>1 DEF SessionHolders, ForwardHolders
  <2> QED BY <1>0, <1>1, <1>2, <2>1 DEF IndInv, RefsCountHolders, FwdRefsCountHolders,
             NoTheft, TypeOK
<1>7. ClaimCurrent'
  BY <1>0, <1>1, <1>2 DEF IndInv, ClaimCurrent, CallerOK, TypeOK
<1> QED BY <1>3, <1>4, <1>5, <1>6, <1>7 DEF IndInv

(* The backend's own steps leave the maps and the callers alone.           *)
LEMMA BackendInv ==
  ASSUME IndInv, NEW e \in Entry,
         handshakeDone(e) \/ dialResolved(e) \/ connectionEnds(e) \/ closeSession(e)
  PROVE  IndInv'
<1> USE ConstantsAssumption
<1>0. TypeOK
  BY DEF IndInv
<1>1. /\ UNCHANGED <<sessions, refs, forwards, fwdRefs, fwdState, fwdOn, pc, held, claim>>
      /\ listening' \in SUBSET listening
      /\ closing' \in SUBSET closing
  BY DEF handshakeDone, dialResolved, connectionEnds, closeSession, WithoutSession,
     callerVars, forwardVars
<1>2. TypeOK'
  <2>1. dial' \in [Entry -> DialStates]
    BY <1>0 DEF TypeOK, DialStates, handshakeDone, dialResolved, connectionEnds,
       closeSession
  <2>2. backend' \in [Entry -> BackendStates]
    BY <1>0 DEF TypeOK, BackendStates, handshakeDone, dialResolved, connectionEnds,
       closeSession
  <2> QED BY <1>0, <1>1, <2>1, <2>2 DEF TypeOK
<1>3. CallerOK' /\ MapOK' /\ ClosingOK' /\ ForwardsRideCurrentSession' /\ ClaimCurrent'
  BY <1>1 DEF IndInv, CallerOK, MapOK, ClosingOK, ForwardsRideCurrentSession, ClaimCurrent
<1>4. RefsCountHolders' /\ FwdRefsCountHolders' /\ NoTheft'
  <2>1. /\ \A f \in Entry : SessionHolders(f)' = SessionHolders(f)
        /\ \A j \in Claim : ForwardHolders(j)' = ForwardHolders(j)
    BY <1>1 DEF SessionHolders, ForwardHolders
  <2> QED BY <1>0, <1>1, <2>1 DEF IndInv, RefsCountHolders, FwdRefsCountHolders, NoTheft,
             TypeOK
<1>5. DialOK' /\ NoLeak'
  <2>1. CASE handshakeDone(e) \/ dialResolved(e) \/ connectionEnds(e)
    BY <1>0, <2>1 DEF IndInv, TypeOK, DialOK, NoLeak, handshakeDone, dialResolved,
       connectionEnds
  <2>2. CASE closeSession(e)
    BY <1>0, <2>2 DEF IndInv, TypeOK, DialOK, NoLeak, closeSession
  <2> QED BY <2>1, <2>2
<1> QED BY <1>2, <1>3, <1>4, <1>5 DEF IndInv

-----------------------------------------------------------------------------
LEMMA InitInv == Init => IndInv
<1> SUFFICES ASSUME Init PROVE IndInv
  OBVIOUS
<1> USE ConstantsAssumption DEF Init
<1>1. 0 \in RefRange
  <2>1. Cardinality(Caller) \in Nat
    BY FS_CardinalityType
  <2> QED BY <2>1 DEF RefRange
<1>2. TypeOK
  BY <1>1 DEF TypeOK, DialStates, BackendStates, ForwardStates, CallerStates
<1>3. CallerOK /\ MapOK /\ ClaimCurrent /\ ClosingOK /\ DialOK
  BY DEF CallerOK, MapOK, ClaimCurrent, ClosingOK, DialOK
<1>4. RefsCountHolders /\ FwdRefsCountHolders /\ ForwardsRideCurrentSession /\ NoTheft /\ NoLeak
  <2>1. \A e \in Entry : sessions[EntryConn[e]] # e
    OBVIOUS
  <2>2. \A k \in Claim : forwards[ClaimKey[k]] # k
    OBVIOUS
  <2> QED BY <2>1, <2>2 DEF RefsCountHolders, FwdRefsCountHolders,
             ForwardsRideCurrentSession, NoTheft, NoLeak
<1> QED BY <1>2, <1>3, <1>4 DEF IndInv

LEMMA NextInv == IndInv /\ [Next]_vars => IndInv'
<1> SUFFICES ASSUME IndInv, [Next]_vars PROVE IndInv'
  OBVIOUS
<1>1. CASE UNCHANGED vars
  BY <1>1 DEF vars, sessionVars, forwardVars, callerVars, IndInv, TypeOK, CallerOK, MapOK,
     ClaimCurrent,
     ClosingOK, DialOK, RefsCountHolders, FwdRefsCountHolders, ForwardsRideCurrentSession, NoTheft,
     NoLeak, SessionHolders, ForwardHolders
<1>2. CASE UserStep
  <2>1. ASSUME NEW c \in Caller, NEW e \in Entry, openShell(c, e) PROVE IndInv'
    BY <2>1, OpenShellInv
  <2>2. ASSUME NEW c \in Caller, NEW y \in Key, joinForward(c, y) PROVE IndInv'
    BY <2>2, JoinForwardInv
  <2>3. ASSUME NEW c \in Caller, NEW k \in Claim, NEW e \in Entry, openForward(c, k, e) PROVE IndInv'
    BY <2>3, OpenForwardInv
  <2>4. ASSUME NEW c \in Caller, closeShell(c) PROVE IndInv'
    <3>1. CASE pc[c] = "exited"
      BY <2>4, <3>1, QuietCallerInv
    <3>2. CASE pc[c] = "shell"
      BY <2>4, <3>2, ShellGivesBackInv DEF closeShell
    <3> QED BY <2>4, <3>1, <3>2 DEF closeShell
  <2>5. ASSUME NEW c \in Caller, closeForward(c) PROVE IndInv'
    BY <2>5, CloseForwardInv
  <2> QED BY <1>2, <2>1, <2>2, <2>3, <2>4, <2>5 DEF UserStep
<1>3. ASSUME NEW c \in Caller, CallerStep(c) \/ shellExits(c) PROVE IndInv'
  <2>1. CASE shellFailed(c)
    BY <2>1, ShellGivesBackInv DEF shellFailed
  <2>2. CASE shellExits(c)
    BY <2>2, ShellGivesBackInv DEF shellExits
  <2>3. CASE shellOpened(c) \/ forwardResolved(c) \/ abortForward(c)
    BY <2>3, QuietCallerInv
  <2>4. CASE forwardRejected(c)
    BY <2>4, ForwardRejectedInv
  <2>5. CASE forwardClosed(c)
    BY <2>5, ForwardClosedInv
  <2> QED BY <1>3, <2>1, <2>2, <2>3, <2>4, <2>5 DEF CallerStep
<1>4. ASSUME NEW k \in Claim, ForwardStep(k) PROVE IndInv'
  BY <1>4, ForwardStepInv
<1>5. ASSUME NEW e \in Entry, SessionStep(e) \/ connectionEnds(e) PROVE IndInv'
  BY <1>5, ForgetInv, BackendInv DEF SessionStep
<1> QED BY <1>1, <1>2, <1>3, <1>4, <1>5 DEF Next

(* Every reachable state satisfies the inductive invariant.                *)
THEOREM Invariance == Spec => []IndInv
BY InitInv, NextInv, PTL DEF Spec

(* The bookkeeping of tunnel.ts stays well typed: no count goes negative   *)
(* or above the number of callers.                                         *)
THEOREM TypeCorrect == Spec => []TypeOK
<1>1. IndInv => TypeOK
  BY DEF IndInv
<1> QED BY Invariance, <1>1, PTL

(* releaseSession and releaseForward: the count of an entry in the map is  *)
(* the number of callers that hold a reference on it.                      *)
THEOREM CountsExact == Spec => []CountsHolders
<1>1. IndInv => CountsHolders
  BY DEF IndInv, CountsHolders
<1> QED BY Invariance, <1>1, PTL

(* releaseSession never closes a session a tab or a forward still uses.    *)
THEOREM NobodyRobbed == Spec => []NoTheft
<1>1. IndInv => NoTheft
  BY DEF IndInv
<1> QED BY Invariance, <1>1, PTL

(* A backend session that is up can be released: it is in the sessions map *)
(* or its close is queued.                                                 *)
THEOREM NothingLeaked == Spec => []NoLeak
<1>1. IndInv => NoLeak
  BY DEF IndInv
<1> QED BY Invariance, <1>1, PTL

(* forgetSession leaves no forward behind: a forward in the map rides the  *)
(* session that is in the sessions map now, never one it has replaced.     *)
THEOREM ForwardsFollowSession == Spec => []ForwardsRideCurrentSession
<1>1. IndInv => ForwardsRideCurrentSession
  BY DEF IndInv
<1> QED BY Invariance, <1>1, PTL

(* A session leaves the map under a holder only when the backend lost it:  *)
(* what leaves the map while up is queued for closing (NoLeak), and what   *)
(* is queued for closing has no holder (NoTheft).                          *)
THEOREM DropsSpareHolders == Spec => DropSpares
<1>1. IndInv' => \A e \in Entry :
        sessions[EntryConn[e]] = e /\ sessions'[EntryConn[e]] # e =>
          SessionHolders(e)' = {} \/ backend'[e] # "up"
  BY DEF IndInv, NoLeak, NoTheft
<1> QED BY Invariance, <1>1, PTL DEF DropSpares

-----------------------------------------------------------------------------
(* Listeners.  What IndInv says of the maps is not enough for them: the    *)
(* parts below tie a bound port to its forward's promise and to its        *)
(* session.                                                                *)

(* A port is bound for an open forward, on a session that is up.           *)
ListenersUp ==
  \A k \in listening :
    fwdState[k] = "open" /\ fwdOn[k] \in Entry /\ backend[fwdOn[k]] = "up"

(* An open forward that somebody uses or finds in the map has its port,    *)
(* as long as its session is up; and that session has been up.             *)
InUse(k) == forwards[ClaimKey[k]] = k \/ ForwardHolders(k) # {}
OpenListens ==
  \A k \in Claim : InUse(k) /\ fwdState[k] = "open" =>
    backend[fwdOn[k]] # "none" /\ (backend[fwdOn[k]] = "up" => k \in listening)

(* A promise that has not settled is awaited by the caller that made it.   *)
PendingAwaited ==
  \A k \in Claim : fwdState[k] = "pending" => \E c \in Caller : claim[c] = k /\ pc[c] = "fwdWait"

(* A forward that is being closed has left the map and has no user.        *)
ClosingUnused == \A c \in Caller : pc[c] = "fwdClosing" => ~InUse(claim[c])

PortInv == ListenersUp /\ OpenListens /\ PendingAwaited /\ ClosingUnused /\ NoPortLeak

(* What a step has to show when it binds no port, publishes no forward and *)
(* adds no user of one.                                                    *)
LEMMA QuietPorts ==
  ASSUME IndInv, PortInv, UNCHANGED <<backend, fwdState, fwdOn, listening>>,
         \A y \in Key : forwards'[y] \in {forwards[y], NoClaim},
         \A k \in Claim : ForwardHolders(k)' \subseteq ForwardHolders(k),
         \A c \in Caller : pc[c] = "fwdWait" /\ fwdState[claim[c]] = "pending" =>
           pc'[c] = "fwdWait" /\ claim'[c] = claim[c],
         ClosingUnused', NoPortLeak'
  PROVE  PortInv'
<1> USE ConstantsAssumption
<1>1. \A k \in Claim : InUse(k)' => InUse(k)
  BY DEF InUse
<1>2. ListenersUp'
  BY DEF PortInv, ListenersUp
<1>3. OpenListens'
  BY <1>1 DEF PortInv, OpenListens
<1>4. PendingAwaited'
  BY DEF PortInv, PendingAwaited
<1> QED BY <1>2, <1>3, <1>4 DEF PortInv

(* A release that ends a session leaves its listeners to the queued close. *)
LEMMA ReleaseLeavesPorts ==
  ASSUME IndInv, NEW e \in Entry, NEW fwds \in [Key -> Claim \cup {NoClaim}],
         \A y \in Key : KeyConn[y] # EntryConn[e] => fwds[y] = forwards[y],
         releaseSession(e, fwds)
  PROVE  /\ closing \subseteq closing'
         /\ \A y \in Key :
              \/ forwards'[y] = fwds[y]
              \/ /\ forwards'[y] = NoClaim
                 /\ forwards[y] # NoClaim => fwdOn[forwards[y]] \in closing'
<1> USE ConstantsAssumption
<1>1. CASE sessions[EntryConn[e]] = e /\ ~(refs[e] > 1)
  <2>1. forwards' = WithoutConn(EntryConn[e]) /\ closing' = closing \cup {e}
    BY <1>1 DEF releaseSession, dropSession
  <2>2. \A y \in Key : forwards[y] # NoClaim => sessions[KeyConn[y]] = fwdOn[forwards[y]]
    BY DEF IndInv, ForwardsRideCurrentSession
  <2> QED BY <1>1, <2>1, <2>2 DEF WithoutConn
<1>2. CASE ~(sessions[EntryConn[e]] = e /\ ~(refs[e] > 1))
  BY <1>2 DEF releaseSession
<1> QED BY <1>1, <1>2

(* A terminal tab gives its reference back.                                *)
LEMMA ShellGivesBackPorts ==
  ASSUME IndInv, PortInv, NEW c \in Caller, pc[c] \in {"shellWait", "shell"},
         \/ pc' = [pc EXCEPT ![c] = "idle"]
         \/ pc' = [pc EXCEPT ![c] = "exited"],
         releaseSession(held[c], forwards),
         UNCHANGED <<dial, backend, fwdRefs, fwdState, fwdOn, listening, claim>>
  PROVE  PortInv'
<1> USE ConstantsAssumption
<1>0. TypeOK /\ CallerOK /\ held[c] \in Entry
  BY DEF IndInv, CallerOK
<1>1. /\ closing \subseteq closing'
      /\ \A y \in Key :
           \/ forwards'[y] = forwards[y]
           \/ /\ forwards'[y] = NoClaim
              /\ forwards[y] # NoClaim => fwdOn[forwards[y]] \in closing'
  <2> DEFINE e == held[c]
  <2>1. e \in Entry /\ forwards \in [Key -> Claim \cup {NoClaim}] /\ releaseSession(e, forwards)
    BY <1>0 DEF TypeOK
  <2> HIDE DEF e
  <2> QED BY <2>1, ReleaseLeavesPorts
<1>2. /\ \A d \in Caller : pc'[d] = pc[d] \/ (d = c /\ pc'[d] \in {"idle", "exited"})
      /\ \A k \in Claim : ForwardHolders(k)' = ForwardHolders(k)
  BY <1>0 DEF TypeOK, ForwardHolders
<1>3. ClosingUnused'
  BY <1>0, <1>1, <1>2 DEF PortInv, ClosingUnused, InUse, CallerOK
<1>4. NoPortLeak'
  BY <1>0, <1>1, <1>2 DEF PortInv, NoPortLeak, TypeOK
<1> QED BY <1>0, <1>1, <1>2, <1>3, <1>4, QuietPorts

(* Steps of one caller that give no reference back.                        *)
LEMMA QuietCallerPorts ==
  ASSUME IndInv, PortInv, NEW c \in Caller,
         shellOpened(c) \/ (closeShell(c) /\ pc[c] = "exited") \/ forwardResolved(c)
  PROVE  PortInv'
<1> USE ConstantsAssumption
<1>0. TypeOK /\ CallerOK
  BY DEF IndInv
<1>1. UNCHANGED <<backend, forwards, fwdState, fwdOn, listening, closing, claim>>
  BY DEF shellOpened, closeShell, forwardResolved, sessionVars, forwardVars
<1>2. /\ \A d \in Caller : pc'[d] = pc[d] \/ (d = c /\ pc'[d] \in {"shell", "idle", "fwdHeld"})
      /\ pc[c] = "fwdWait" => fwdState[claim[c]] = "open" /\ pc'[c] = "fwdHeld"
      /\ pc[c] # "fwdWait" => pc[c] \in {"shellWait", "exited"} /\ pc'[c] \in {"shell", "idle"}
  BY <1>0 DEF TypeOK, shellOpened, closeShell, forwardResolved
<1>3. \A k \in Claim : ForwardHolders(k)' = ForwardHolders(k)
  BY <1>0, <1>1, <1>2 DEF ForwardHolders
<1>4. ClosingUnused'
  BY <1>0, <1>1, <1>2, <1>3 DEF PortInv, ClosingUnused, InUse, CallerOK
<1>5. NoPortLeak'
  BY <1>1, <1>2 DEF PortInv, NoPortLeak
<1> QED BY <1>1, <1>2, <1>3, <1>4, <1>5, QuietPorts

(* The backend drops a listener: its forward is nobody's any more.         *)
LEMMA AbortPorts ==
  ASSUME IndInv, PortInv, NEW c \in Caller, abortForward(c) PROVE PortInv'
<1>1. /\ UNCHANGED <<backend, forwards, fwdState, fwdOn, closing, pc, claim>>
      /\ listening' = listening \ {claim[c]} /\ ~InUse(claim[c])
  BY DEF abortForward, sessionVars, callerVars, PortInv, ClosingUnused
<1>2. \A k : InUse(k)' = InUse(k)
  BY <1>1 DEF InUse, ForwardHolders
<1>3. ListenersUp' /\ PendingAwaited' /\ ClosingUnused'
  BY <1>1, <1>2 DEF PortInv, ListenersUp, PendingAwaited, ClosingUnused
<1>4. OpenListens'
  BY <1>1, <1>2 DEF PortInv, OpenListens
<1>5. NoPortLeak'
  BY <1>1 DEF PortInv, NoPortLeak
<1> QED BY <1>3, <1>4, <1>5 DEF PortInv

(* A forward in use rides an entry that is in the map or that its user     *)
(* holds: never one that can be dialled anew.                              *)
LEMMA InUseRides ==
  ASSUME IndInv, NEW k \in Claim, InUse(k)
  PROVE  /\ fwdOn[k] \in Entry
         /\ \/ sessions[EntryConn[fwdOn[k]]] = fwdOn[k]
            \/ \E d \in Caller : held[d] = fwdOn[k]
<1> USE ConstantsAssumption
<1>0. TypeOK /\ CallerOK /\ MapOK
  BY DEF IndInv
<1>1. CASE forwards[ClaimKey[k]] = k
  <2>1. ClaimKey[k] \in Key /\ KeyConn[ClaimKey[k]] \in Connection
    OBVIOUS
  <2>2. sessions[KeyConn[ClaimKey[k]]] = fwdOn[k] /\ fwdOn[k] # NoEntry
    BY <1>0, <1>1, <2>1 DEF IndInv, ForwardsRideCurrentSession, MapOK
  <2> QED BY <1>0, <2>1, <2>2 DEF MapOK, TypeOK
<1>2. CASE ForwardHolders(k) # {}
  <2> PICK d \in Caller : claim[d] = k /\ pc[d] \in {"fwdWait", "fwdHeld"}
    BY <1>2 DEF ForwardHolders
  <2> QED BY <1>0 DEF CallerOK
<1> QED BY <1>1, <1>2 DEF InUse

(* sessionFor: an entry that is dialled anew carries no forward.           *)
LEMMA TakeSparesPorts ==
  ASSUME IndInv, PortInv, NEW n \in Connection, NEW e \in Entry, sessionFor(n, e)
  PROVE  /\ \A k \in listening : backend'[fwdOn[k]] = backend[fwdOn[k]]
         /\ \A k \in Claim : InUse(k) => backend'[fwdOn[k]] = backend[fwdOn[k]]
<1> USE ConstantsAssumption
<1>0. TypeOK /\ CallerOK /\ MapOK
  BY DEF IndInv
<1>1. CASE UNCHANGED backend
  BY <1>1
<1>2. CASE FreshEntry(e) /\ backend' = [backend EXCEPT ![e] = "none"]
  <2>1. \A f \in Entry : f # e => backend'[f] = backend[f]
    BY <1>0, <1>2 DEF TypeOK
  <2>2. \A k \in listening : fwdOn[k] \in Entry /\ fwdOn[k] # e
    BY <1>2 DEF PortInv, ListenersUp, FreshEntry
  <2>3. ASSUME NEW k \in Claim, InUse(k) PROVE fwdOn[k] # e /\ fwdOn[k] \in Entry
    BY <1>2, <2>3, InUseRides DEF FreshEntry
  <2> QED BY <1>2, <2>1, <2>2, <2>3
<1> QED BY <1>1, <1>2 DEF sessionFor

LEMMA OpenShellPorts ==
  ASSUME IndInv, PortInv, NEW c \in Caller, NEW e \in Entry, openShell(c, e) PROVE PortInv'
<1> USE ConstantsAssumption
<1>0. TypeOK /\ CallerOK
  BY DEF IndInv
<1>1. /\ UNCHANGED <<forwards, fwdState, fwdOn, listening, closing, claim>>
      /\ pc[c] = "idle" /\ pc' = [pc EXCEPT ![c] = "shellWait"] /\ sessionFor(EntryConn[e], e)
  BY DEF openShell, forwardVars
<1>2. /\ \A k \in listening : backend'[fwdOn[k]] = backend[fwdOn[k]]
      /\ \A k \in Claim : InUse(k) => backend'[fwdOn[k]] = backend[fwdOn[k]]
  BY <1>1, TakeSparesPorts
<1>3. /\ \A d \in Caller : pc'[d] = pc[d] \/ (d = c /\ pc'[d] = "shellWait")
      /\ \A k : ForwardHolders(k)' = ForwardHolders(k)
      /\ \A k : InUse(k)' = InUse(k)
  <2>1. \A d \in Caller : pc'[d] = pc[d] \/ (d = c /\ pc'[d] = "shellWait")
    BY <1>0, <1>1 DEF TypeOK
  <2>2. \A k : ForwardHolders(k)' = ForwardHolders(k)
    BY <1>1, <2>1 DEF ForwardHolders
  <2> QED BY <1>1, <2>1, <2>2 DEF InUse
<1>4. ListenersUp' /\ OpenListens'
  BY <1>1, <1>2, <1>3 DEF PortInv, ListenersUp, OpenListens
<1>5. PendingAwaited'
  BY <1>1, <1>3 DEF PortInv, PendingAwaited
<1>6. ClosingUnused' /\ NoPortLeak'
  BY <1>1, <1>3 DEF PortInv, ClosingUnused, NoPortLeak
<1> QED BY <1>4, <1>5, <1>6 DEF PortInv

LEMMA JoinForwardPorts ==
  ASSUME IndInv, PortInv, NEW c \in Caller, NEW y \in Key, joinForward(c, y) PROVE PortInv'
<1> USE ConstantsAssumption
<1>0. TypeOK /\ CallerOK /\ MapOK
  BY DEF IndInv
<1> DEFINE k == forwards[y]
<1>1. /\ k \in Claim /\ ClaimKey[k] = y /\ pc[c] = "idle"
      /\ pc' = [pc EXCEPT ![c] = "fwdWait"] /\ claim' = [claim EXCEPT ![c] = k]
      /\ UNCHANGED <<backend, closing, forwards, fwdState, fwdOn, listening>>
  BY <1>0 DEF joinForward, TypeOK, MapOK
<1>2. /\ \A j \in Claim : j # k => ForwardHolders(j)' = ForwardHolders(j)
      /\ \A d \in Caller : d # c => pc'[d] = pc[d] /\ claim'[d] = claim[d]
      /\ pc'[c] = "fwdWait"
  <2> HIDE DEF k
  <2> QED BY <1>0, <1>1, TakeForwardRef DEF TypeOK
<1>3. \A j \in Claim : InUse(j)' => InUse(j)
  BY <1>1, <1>2 DEF InUse
<1>4. ListenersUp' /\ OpenListens'
  BY <1>1, <1>3 DEF PortInv, ListenersUp, OpenListens
<1>5. PendingAwaited'
  BY <1>1, <1>2 DEF PortInv, PendingAwaited
<1>6. ClosingUnused'
  BY <1>0, <1>2, <1>3 DEF PortInv, ClosingUnused, CallerOK
<1>7. NoPortLeak'
  BY <1>1, <1>2 DEF PortInv, NoPortLeak
<1> QED BY <1>4, <1>5, <1>6, <1>7 DEF PortInv

LEMMA OpenForwardPorts ==
  ASSUME IndInv, PortInv, NEW c \in Caller, NEW k \in Claim, NEW e \in Entry, openForward(c, k, e)
  PROVE  PortInv'
<1> USE ConstantsAssumption
<1>0. TypeOK /\ CallerOK /\ MapOK
  BY DEF IndInv
<1> DEFINE y == ClaimKey[k]
<1>1. /\ y \in Key /\ KeyConn[y] \in Connection /\ pc[c] = "idle" /\ FreshClaim(k)
      /\ sessionFor(KeyConn[y], e)
      /\ forwards' = [forwards EXCEPT ![y] = k]
      /\ fwdState' = [fwdState EXCEPT ![k] = "pending"] /\ fwdOn' = [fwdOn EXCEPT ![k] = e]
      /\ pc' = [pc EXCEPT ![c] = "fwdWait"] /\ claim' = [claim EXCEPT ![c] = k]
      /\ UNCHANGED <<closing, listening>>
  BY DEF openForward
<1>2. forwards[y] = NoClaim
  BY <1>0, <1>1 DEF openForward, IndInv, ForwardsRideCurrentSession, MapOK
<1>3. /\ \A j \in listening : backend'[fwdOn[j]] = backend[fwdOn[j]]
      /\ \A j \in Claim : InUse(j) => backend'[fwdOn[j]] = backend[fwdOn[j]]
  BY <1>1, TakeSparesPorts
<1>4. /\ \A j \in Claim : j # k =>
           ForwardHolders(j)' = ForwardHolders(j) /\ fwdState'[j] = fwdState[j] /\ fwdOn'[j] = fwdOn[j]
      /\ \A d \in Caller : d # c => pc'[d] = pc[d] /\ claim'[d] = claim[d]
      /\ pc'[c] = "fwdWait" /\ claim'[c] = k /\ fwdState'[k] = "pending"
  <2>1. \A j \in Claim : j # k => ForwardHolders(j)' = ForwardHolders(j)
    BY <1>0, <1>1, TakeForwardRef
  <2> QED BY <1>0, <1>1, <2>1 DEF TypeOK
<1>5. /\ k \notin listening /\ listening \subseteq Claim
      /\ \A d \in Caller : claim[d] # k
      /\ \A j \in Claim : j # k => (forwards'[ClaimKey[j]] = j <=> forwards[ClaimKey[j]] = j)
  BY <1>0, <1>1, <1>2 DEF FreshClaim, TypeOK
<1>6. \A j \in Claim : j # k => InUse(j)' = InUse(j)
  BY <1>4, <1>5 DEF InUse
<1>7. ListenersUp'
  BY <1>1, <1>3, <1>4, <1>5 DEF PortInv, ListenersUp
<1>8. OpenListens'
  BY <1>1, <1>3, <1>4, <1>6 DEF PortInv, OpenListens
<1>9. PendingAwaited'
  BY <1>1, <1>4, <1>5 DEF PortInv, PendingAwaited
<1>10. ClosingUnused'
  BY <1>0, <1>4, <1>5, <1>6 DEF PortInv, ClosingUnused, CallerOK
<1>11. NoPortLeak'
  BY <1>1, <1>4, <1>5 DEF PortInv, NoPortLeak
<1> QED BY <1>7, <1>8, <1>9, <1>10, <1>11 DEF PortInv

LEMMA ForwardRejectedPorts ==
  ASSUME IndInv, PortInv, NEW c \in Caller, forwardRejected(c) PROVE PortInv'
<1> USE ConstantsAssumption
<1>0. TypeOK /\ CallerOK
  BY DEF IndInv
<1> DEFINE k == claim[c]
           y == ClaimKey[k]
           e == held[c]
           fwds == IF forwards[y] = k THEN [forwards EXCEPT ![y] = NoClaim] ELSE forwards
<1>1. /\ pc[c] = "fwdWait" /\ fwdState[k] = "failed" /\ releaseSession(e, fwds)
      /\ pc' = [pc EXCEPT ![c] = "idle"] /\ claim' = [claim EXCEPT ![c] = NoClaim]
      /\ UNCHANGED <<backend, fwdState, fwdOn, listening>>
  BY DEF forwardRejected
<1>2. k \in Claim /\ y \in Key /\ e \in Entry /\ EntryConn[e] = KeyConn[y]
  BY <1>0, <1>1 DEF CallerOK
<1>3. /\ fwds \in [Key -> Claim \cup {NoClaim}]
      /\ \A z \in Key : fwds[z] \in {forwards[z], NoClaim}
      /\ \A z \in Key : fwds[z] # forwards[z] => z = y /\ forwards[z] = k
  BY <1>0, <1>2 DEF TypeOK
<1>4. /\ closing \subseteq closing'
      /\ \A z \in Key :
           \/ forwards'[z] = fwds[z]
           \/ /\ forwards'[z] = NoClaim
              /\ forwards[z] # NoClaim => fwdOn[forwards[z]] \in closing'
  <2> HIDE DEF e, fwds
  <2> QED BY <1>1, <1>2, <1>3, ReleaseLeavesPorts
<1>5. /\ \A j \in Claim : ForwardHolders(j)' \subseteq ForwardHolders(j)
      /\ \A d \in Caller : d # c => pc'[d] = pc[d] /\ claim'[d] = claim[d]
      /\ pc'[c] = "idle"
  BY <1>0, <1>1 DEF TypeOK, ForwardHolders
<1> HIDE DEF fwds
<1>6. ClosingUnused'
  <2>1. \A j \in Claim : InUse(j)' => InUse(j)
    BY <1>3, <1>4, <1>5 DEF InUse
  <2> QED BY <1>0, <1>5, <2>1 DEF PortInv, ClosingUnused, CallerOK
<1>7. NoPortLeak'
  <2>1. k \notin listening /\ listening \subseteq Claim
    BY <1>0, <1>1 DEF PortInv, ListenersUp, TypeOK
  <2> QED BY <1>1, <1>3, <1>4, <1>5, <2>1 DEF PortInv, NoPortLeak
<1> QED BY <1>1, <1>3, <1>4, <1>5, <1>6, <1>7, QuietPorts

LEMMA CloseForwardPorts ==
  ASSUME IndInv, PortInv, NEW c \in Caller, closeForward(c) PROVE PortInv'
<1> USE ConstantsAssumption
<1>0. TypeOK /\ CallerOK
  BY DEF IndInv
<1>k. PICK k \in Claim : k = claim[c]
  BY <1>0 DEF closeForward, CallerOK
<1> DEFINE y == ClaimKey[k]
           e == held[c]
<1>1. /\ pc[c] = "fwdHeld" /\ UNCHANGED <<backend, fwdState, fwdOn, listening>>
  BY DEF closeForward
<1>2. /\ k \in Claim /\ y \in Key /\ e \in Entry /\ EntryConn[e] = KeyConn[y] /\ fwdOn[k] = e
      /\ forwards \in [Key -> Claim \cup {NoClaim}]
  BY <1>0, <1>1, <1>k DEF CallerOK, TypeOK
<1>3. forwards[y] = k => sessions[KeyConn[y]] = e
  BY <1>2 DEF IndInv, ForwardsRideCurrentSession
<1>4. CASE /\ UNCHANGED <<closing, forwards>>
           /\ pc' = [pc EXCEPT ![c] = "idle"] /\ claim' = [claim EXCEPT ![c] = NoClaim]
  <2>1. /\ \A j \in Claim : ForwardHolders(j)' \subseteq ForwardHolders(j)
        /\ \A d \in Caller : d # c => pc'[d] = pc[d] /\ claim'[d] = claim[d]
        /\ pc'[c] = "idle"
    BY <1>0, <1>4 DEF TypeOK, ForwardHolders
  <2>2. ClosingUnused'
    <3>1. \A j \in Claim : InUse(j)' => InUse(j)
      BY <1>4, <2>1 DEF InUse
    <3> QED BY <1>0, <2>1, <3>1 DEF PortInv, ClosingUnused, CallerOK
  <2>3. NoPortLeak'
    BY <1>1, <1>4, <2>1 DEF PortInv, NoPortLeak
  <2> QED BY <1>1, <1>4, <2>1, <2>2, <2>3, QuietPorts
<1>5. CASE /\ releaseSession(e, forwards)
           /\ pc' = [pc EXCEPT ![c] = "idle"] /\ claim' = [claim EXCEPT ![c] = NoClaim]
  <2>1. /\ closing \subseteq closing'
        /\ \A z \in Key :
             \/ forwards'[z] = forwards[z]
             \/ /\ forwards'[z] = NoClaim
                /\ forwards[z] # NoClaim => fwdOn[forwards[z]] \in closing'
    <3> HIDE DEF e
    <3> QED BY <1>2, <1>5, ReleaseLeavesPorts
  <2>2. /\ \A j \in Claim : ForwardHolders(j)' \subseteq ForwardHolders(j)
        /\ \A d \in Caller : d # c => pc'[d] = pc[d] /\ claim'[d] = claim[d]
        /\ pc'[c] = "idle"
    BY <1>0, <1>5 DEF TypeOK, ForwardHolders
  <2>3. ClosingUnused'
    <3>1. \A j \in Claim : InUse(j)' => InUse(j)
      BY <2>1, <2>2 DEF InUse
    <3> QED BY <1>0, <2>2, <3>1 DEF PortInv, ClosingUnused, CallerOK
  <2>4. NoPortLeak'
    BY <1>0, <1>1, <2>1, <2>2 DEF PortInv, NoPortLeak, TypeOK
  <2> QED BY <1>1, <2>1, <2>2, <2>3, <2>4, QuietPorts
<1>6. CASE /\ forwards[y] = k /\ fwdRefs[k] = 1 /\ UNCHANGED <<closing, claim>>
           /\ forwards' = [forwards EXCEPT ![y] = NoClaim] /\ pc' = [pc EXCEPT ![c] = "fwdClosing"]
  <2>1. /\ ForwardHolders(k)' = ForwardHolders(k) \ {c} /\ c \in ForwardHolders(k)
        /\ ForwardHolders(k) \in SUBSET Caller
        /\ \A j \in Claim : j # k => ForwardHolders(j)' = ForwardHolders(j)
    BY <1>0, <1>1, <1>k, <1>6, GiveForwardRef
  <2>2. ForwardHolders(k)' = {}
    <3>1. fwdRefs[k] = Cardinality(ForwardHolders(k))
      BY <1>2, <1>6 DEF IndInv, FwdRefsCountHolders
    <3>2. Cardinality(ForwardHolders(k)) = 1 => ForwardHolders(k) \ {c} = {}
      BY <2>1, Counting
    <3> QED BY <1>6, <2>1, <3>1, <3>2
  <2>3. /\ \A d \in Caller : d # c => pc'[d] = pc[d]
        /\ pc'[c] = "fwdClosing" /\ \A z \in Key : z # y => forwards'[z] = forwards[z]
        /\ forwards'[y] = NoClaim
    BY <1>0, <1>2, <1>6 DEF TypeOK
  <2>4. ClosingUnused'
    <3>1. \A j \in Claim : InUse(j)' => InUse(j)
      BY <2>1, <2>3 DEF InUse
    <3>2. ~InUse(k)'
      BY <1>2, <2>2, <2>3 DEF InUse
    <3> QED BY <1>0, <1>k, <1>6, <2>3, <3>1, <3>2 DEF PortInv, ClosingUnused, CallerOK
  <2>5. NoPortLeak'
    <3> SUFFICES ASSUME NEW j \in listening
                 PROVE  \/ forwards'[ClaimKey[j]] = j
                        \/ \E d \in Caller : pc'[d] = "fwdClosing" /\ claim'[d] = j
                        \/ fwdOn'[j] \in closing'
      BY <1>1 DEF NoPortLeak
    <3>1. CASE j = k
      BY <1>k, <1>6, <2>3, <3>1
    <3>2. CASE j # k
      <4>1. j \in Claim /\ ClaimKey[j] \in Key
        BY <1>0 DEF TypeOK
      <4> QED BY <1>1, <1>6, <2>3, <3>2, <4>1 DEF PortInv, NoPortLeak
    <3> QED BY <3>1, <3>2
  <2> QED BY <1>1, <1>6, <2>1, <2>3, <2>4, <2>5, QuietPorts
<1> QED BY <1>k, <1>3, <1>4, <1>5, <1>6 DEF closeForward

LEMMA ForwardClosedPorts ==
  ASSUME IndInv, PortInv, NEW c \in Caller, forwardClosed(c) PROVE PortInv'
<1> USE ConstantsAssumption
<1>0. TypeOK /\ CallerOK
  BY DEF IndInv
<1> DEFINE e == held[c]
<1>1. /\ pc[c] = "fwdClosing" /\ claim[c] \notin listening /\ releaseSession(e, forwards)
      /\ pc' = [pc EXCEPT ![c] = "idle"] /\ claim' = [claim EXCEPT ![c] = NoClaim]
      /\ UNCHANGED <<backend, fwdState, fwdOn, listening>>
  BY DEF forwardClosed
<1>2. e \in Entry /\ forwards \in [Key -> Claim \cup {NoClaim}]
  BY <1>0, <1>1 DEF CallerOK, TypeOK
<1>3. /\ closing \subseteq closing'
      /\ \A z \in Key :
           \/ forwards'[z] = forwards[z]
           \/ /\ forwards'[z] = NoClaim
              /\ forwards[z] # NoClaim => fwdOn[forwards[z]] \in closing'
  <2> HIDE DEF e
  <2> QED BY <1>1, <1>2, ReleaseLeavesPorts
<1>4. /\ \A j \in Claim : ForwardHolders(j)' \subseteq ForwardHolders(j)
      /\ \A d \in Caller : d # c => pc'[d] = pc[d] /\ claim'[d] = claim[d]
      /\ pc'[c] = "idle"
  BY <1>0, <1>1 DEF TypeOK, ForwardHolders
<1>5. ClosingUnused'
  <2>1. \A j \in Claim : InUse(j)' => InUse(j)
    BY <1>3, <1>4 DEF InUse
  <2> QED BY <1>0, <1>4, <2>1 DEF PortInv, ClosingUnused, CallerOK
<1>6. NoPortLeak'
  BY <1>0, <1>1, <1>3, <1>4 DEF PortInv, NoPortLeak, TypeOK
<1> QED BY <1>1, <1>3, <1>4, <1>5, <1>6, QuietPorts

(* The backend binds a port, or a forward fails.  The one whose promise    *)
(* settles is awaited, so its session is in the map with the forward, or   *)
(* is being closed.                                                        *)
LEMMA ForwardStepPorts ==
  ASSUME IndInv, PortInv, NEW k \in Claim, ForwardStep(k) PROVE PortInv'
<1> USE ConstantsAssumption
<1>0. TypeOK /\ CallerOK
  BY DEF IndInv
<1>1. /\ UNCHANGED <<closing, backend, forwards, fwdOn, pc, claim>> /\ fwdState[k] = "pending"
      /\ \/ /\ fwdState' = [fwdState EXCEPT ![k] = "open"] /\ backend[fwdOn[k]] = "up"
            /\ listening' = listening \cup {k}
         \/ fwdState' = [fwdState EXCEPT ![k] = "failed"] /\ listening' = listening
  BY DEF ForwardStep, forwardOpens, forwardFails, sessionVars, callerVars
<1>2. PICK c \in Caller : claim[c] = k /\ pc[c] = "fwdWait"
  BY <1>1 DEF PortInv, PendingAwaited
<1>3. fwdOn[k] = held[c] /\ held[c] \in Entry
  BY <1>0, <1>2 DEF CallerOK
<1>4. k \notin listening /\ listening \subseteq Claim
      /\ \A j \in Claim : j # k => fwdState'[j] = fwdState[j]
      /\ fwdState'[k] # "pending"
  BY <1>0, <1>1 DEF PortInv, ListenersUp, TypeOK
<1>5. \A j : InUse(j)' = InUse(j)
  BY <1>1 DEF InUse, ForwardHolders
<1>6. ListenersUp'
  BY <1>0, <1>1, <1>3, <1>4 DEF PortInv, ListenersUp, TypeOK
<1>7. OpenListens'
  <2> SUFFICES ASSUME NEW j \in Claim, InUse(j)', fwdState'[j] = "open"
               PROVE  /\ backend'[fwdOn'[j]] # "none"
                      /\ backend'[fwdOn'[j]] = "up" => j \in listening'
    BY DEF OpenListens
  <2>1. CASE j = k
    BY <1>0, <1>1, <2>1 DEF TypeOK
  <2>2. CASE j # k
    BY <1>1, <1>4, <1>5, <2>2 DEF PortInv, OpenListens
  <2> QED BY <2>1, <2>2
<1>8. PendingAwaited' /\ ClosingUnused'
  BY <1>1, <1>4, <1>5 DEF PortInv, PendingAwaited, ClosingUnused
<1>9. NoPortLeak'
  <2>1. backend[fwdOn[k]] = "up" => forwards[ClaimKey[k]] = k \/ fwdOn[k] \in closing
    BY <1>1, <1>2, <1>3 DEF IndInv, ClaimCurrent, NoLeak
  <2> QED BY <1>1, <2>1 DEF PortInv, NoPortLeak
<1> QED BY <1>6, <1>7, <1>8, <1>9 DEF PortInv

(* A session that is forgotten is not up: nothing listens on it.           *)
LEMMA ForgetPorts ==
  ASSUME IndInv, PortInv, NEW e \in Entry, dialRejected(e) \/ onClosed(e) PROVE PortInv'
<1> USE ConstantsAssumption
<1>0. TypeOK /\ CallerOK
  BY DEF IndInv
<1>1. /\ UNCHANGED <<closing, fwdState, fwdOn, listening, pc, claim>>
      /\ backend[e] # "up"
      /\ backend' = backend \/ backend' = [backend EXCEPT ![e] = "gone"]
      /\ IF sessions[EntryConn[e]] = e
         THEN dropSession(EntryConn[e]) ELSE UNCHANGED <<sessions, forwards>>
  BY DEF dialRejected, onClosed, callerVars
<1>2. \A f \in Entry : backend'[f] = backend[f] \/ (f = e /\ backend'[f] = "gone")
  BY <1>0, <1>1 DEF TypeOK
<1>3. \A z \in Key :
        forwards'[z] = forwards[z] \/ (forwards'[z] = NoClaim /\ fwdOn[forwards[z]] = e)
  <2>1. \A z \in Key : forwards[z] # NoClaim => sessions[KeyConn[z]] = fwdOn[forwards[z]]
    BY DEF IndInv, ForwardsRideCurrentSession
  <2> QED BY <1>1, <2>1 DEF dropSession, WithoutConn
<1>4. \A j \in Claim : InUse(j)' => InUse(j)
  BY <1>1, <1>3 DEF InUse, ForwardHolders
<1>5. \A j \in listening : j \in Claim /\ fwdOn[j] \in Entry /\ fwdOn[j] # e
  BY <1>0, <1>1 DEF PortInv, ListenersUp, TypeOK
<1>6. ListenersUp'
  BY <1>1, <1>2, <1>5 DEF PortInv, ListenersUp
<1>7. OpenListens'
  BY <1>1, <1>2, <1>4, InUseRides DEF PortInv, OpenListens
<1>8. PendingAwaited' /\ ClosingUnused'
  BY <1>0, <1>1, <1>4 DEF PortInv, PendingAwaited, ClosingUnused, CallerOK
<1>9. NoPortLeak'
  BY <1>1, <1>3, <1>5 DEF PortInv, NoPortLeak
<1> QED BY <1>6, <1>7, <1>8, <1>9 DEF PortInv

(* The listeners of a session end with it and no sooner.                   *)
LEMMA BackendPorts ==
  ASSUME IndInv, PortInv, NEW e \in Entry,
         handshakeDone(e) \/ dialResolved(e) \/ connectionEnds(e) \/ closeSession(e)
  PROVE  PortInv'
<1> USE ConstantsAssumption
<1>0. TypeOK /\ CallerOK
  BY DEF IndInv
<1>1. UNCHANGED <<forwards, fwdState, fwdOn, pc, claim>>
  BY DEF handshakeDone, dialResolved, connectionEnds, closeSession, callerVars, forwardVars
<1>2. /\ \A f \in Entry : f # e => backend'[f] = backend[f]
      /\ \/ backend[e] = "none" /\ listening' = listening /\ closing' = closing
         \/ backend'[e] = backend[e] /\ listening' = listening /\ closing' = closing
         \/ /\ backend'[e] = backend[e] /\ backend[e] # "up" /\ listening' = listening
            /\ closing' = closing \ {e}
         \/ /\ backend'[e] \in {"lost", "gone"} /\ listening' = {k \in listening : fwdOn[k] # e}
            /\ closing' \in {closing, closing \ {e}}
  BY <1>0 DEF handshakeDone, dialResolved, connectionEnds, closeSession, WithoutSession,
     TypeOK,
              forwardVars
<1>3. \A j : InUse(j)' = InUse(j)
  BY <1>1 DEF InUse, ForwardHolders
<1>4. \A j \in listening : j \in Claim /\ fwdOn[j] \in Entry /\ backend[fwdOn[j]] = "up"
  BY <1>0 DEF PortInv, ListenersUp, TypeOK
<1>5. ListenersUp'
  BY <1>1, <1>2, <1>4 DEF PortInv, ListenersUp
<1>6. OpenListens'
  <2> SUFFICES ASSUME NEW k \in Claim, InUse(k)', fwdState'[k] = "open"
               PROVE  /\ backend'[fwdOn'[k]] # "none"
                      /\ backend'[fwdOn'[k]] = "up" => k \in listening'
    BY DEF OpenListens
  <2>1. /\ InUse(k) /\ fwdOn[k] \in Entry /\ backend[fwdOn[k]] # "none"
        /\ backend[fwdOn[k]] = "up" => k \in listening
    BY <1>1, <1>3, InUseRides DEF PortInv, OpenListens
  <2> QED BY <1>1, <1>2, <2>1
<1>7. PendingAwaited' /\ ClosingUnused'
  BY <1>1, <1>3 DEF PortInv, PendingAwaited, ClosingUnused
<1>8. NoPortLeak'
  BY <1>1, <1>2, <1>4 DEF PortInv, NoPortLeak
<1> QED BY <1>5, <1>6, <1>7, <1>8 DEF PortInv

LEMMA NextPorts == IndInv /\ PortInv /\ [Next]_vars => PortInv'
<1> SUFFICES ASSUME IndInv, PortInv, [Next]_vars PROVE PortInv'
  OBVIOUS
<1>1. CASE UNCHANGED vars
  <2>1. UNCHANGED <<backend, forwards, fwdState, fwdOn, listening, closing, pc, claim>>
    BY <1>1 DEF vars, sessionVars, forwardVars, callerVars
  <2> QED BY <2>1 DEF PortInv, ListenersUp, OpenListens, PendingAwaited, ClosingUnused,
             NoPortLeak,
                      InUse, ForwardHolders
<1>2. CASE UserStep
  <2>1. ASSUME NEW c \in Caller, NEW e \in Entry, openShell(c, e) PROVE PortInv'
    BY <2>1, OpenShellPorts
  <2>2. ASSUME NEW c \in Caller, NEW y \in Key, joinForward(c, y) PROVE PortInv'
    BY <2>2, JoinForwardPorts
  <2>3. ASSUME NEW c \in Caller, NEW k \in Claim, NEW e \in Entry, openForward(c, k, e) PROVE PortInv'
    BY <2>3, OpenForwardPorts
  <2>4. ASSUME NEW c \in Caller, closeShell(c) PROVE PortInv'
    <3>1. CASE pc[c] = "exited"
      BY <2>4, <3>1, QuietCallerPorts
    <3>2. CASE pc[c] = "shell"
      BY <2>4, <3>2, ShellGivesBackPorts DEF closeShell
    <3> QED BY <2>4, <3>1, <3>2 DEF closeShell
  <2>5. ASSUME NEW c \in Caller, closeForward(c) PROVE PortInv'
    BY <2>5, CloseForwardPorts
  <2> QED BY <1>2, <2>1, <2>2, <2>3, <2>4, <2>5 DEF UserStep
<1>3. ASSUME NEW c \in Caller, CallerStep(c) \/ shellExits(c) PROVE PortInv'
  <2>1. CASE shellFailed(c)
    BY <2>1, ShellGivesBackPorts DEF shellFailed
  <2>2. CASE shellExits(c)
    BY <2>2, ShellGivesBackPorts DEF shellExits
  <2>3. CASE shellOpened(c) \/ forwardResolved(c) \/ abortForward(c)
    BY <2>3, QuietCallerPorts, AbortPorts
  <2>4. CASE forwardRejected(c) \/ forwardClosed(c)
    BY <2>4, ForwardRejectedPorts, ForwardClosedPorts
  <2> QED BY <1>3, <2>1, <2>2, <2>3, <2>4 DEF CallerStep
<1>4. ASSUME NEW k \in Claim, ForwardStep(k) PROVE PortInv'
  BY <1>4, ForwardStepPorts
<1>5. ASSUME NEW e \in Entry, SessionStep(e) \/ connectionEnds(e) PROVE PortInv'
  BY <1>5, ForgetPorts, BackendPorts DEF SessionStep
<1> QED BY <1>1, <1>2, <1>3, <1>4, <1>5 DEF Next

(* acquireForward and releaseForward: a caller whose forward resolved has  *)
(* its listener for as long as the session is up, whoever else releases,   *)
(* and a bound listener is in the map, or is being closed by itself or     *)
(* with its session.                                                       *)
THEOREM ListenersExact == Spec => []ListenersMatchHolders
<1>1. Init => PortInv
  BY ConstantsAssumption DEF Init, PortInv, ListenersUp, OpenListens, PendingAwaited,
     ClosingUnused, NoPortLeak
<1>2. IndInv /\ PortInv => ListenersMatchHolders
  <2> SUFFICES ASSUME IndInv, PortInv, NEW c \in Caller, pc[c] = "fwdHeld", backend[held[c]] = "up"
               PROVE  claim[c] \in listening
    BY DEF PortInv, ListenersMatchHolders, HeldForwardListens
  <2>1. claim[c] \in Claim /\ fwdOn[claim[c]] = held[c] /\ fwdState[claim[c]] = "open"
    BY DEF IndInv, CallerOK, ClaimCurrent
  <2>2. InUse(claim[c])
    BY DEF InUse, ForwardHolders
  <2> QED BY <2>1, <2>2 DEF PortInv, OpenListens
<1> QED BY <1>1, <1>2, NextPorts, Invariance, PTL DEF Spec

-----------------------------------------------------------------------------
(* SshTunnel implements SharedSession: under the mapping of                *)
(* ImplementsSharing every step of a state that satisfies IndInv is a step *)
(* of SharedSession or changes nothing there.                              *)

(* The users of the abstract session are its holders.                      *)
LEMMA UsersAre ==
  /\ users = [e \in Entry |-> SessionHolders(e)]
  /\ users' = [e \in Entry |-> SessionHolders(e)']
BY DEF users

(* A step that moves no reference and neither map nor backend is invisible. *)
LEMMA Invisible ==
  ASSUME UNCHANGED <<sessions, backend>>,
         \A e \in Entry : SessionHolders(e)' = SessionHolders(e)
  PROVE  UNCHANGED Shared!vars
<1>1. users' = users
  BY UsersAre
<1> QED BY <1>1 DEF Shared!vars

(* sessionFor, for a caller without a use, is Join.                        *)
LEMMA JoinStep ==
  ASSUME IndInv, NEW c \in Caller, NEW e \in Entry, NEW s \in CallerStates,
         pc[c] = "idle", s \notin {"idle", "exited"},
         pc' = [pc EXCEPT ![c] = s], held' = [held EXCEPT ![c] = e],
         sessionFor(EntryConn[e], e)
  PROVE  Shared!Join(c, e)
<1> USE ConstantsAssumption
<1>0. TypeOK /\ CallerOK
  BY DEF IndInv
<1>1. /\ SessionHolders(e)' = SessionHolders(e) \cup {c}
      /\ \A f \in Entry : f # e => SessionHolders(f)' = SessionHolders(f)
  BY <1>0, TakeRef
<1>2. \A f \in Entry : c \notin users[f]
  BY UsersAre DEF SessionHolders
<1>3. users' = [users EXCEPT ![e] = @ \cup {c}]
  BY <1>1, UsersAre
<1>4. \/ sessions[EntryConn[e]] = e /\ UNCHANGED <<sessions, backend>>
      \/ /\ sessions[EntryConn[e]] = NoEntry /\ users[e] = {} /\ backend[e] \in {"none", "gone"}
         /\ sessions' = [sessions EXCEPT ![EntryConn[e]] = e]
         /\ backend' = [backend EXCEPT ![e] = "none"]
  <2>1. FreshEntry(e) => users[e] = {}
    BY UsersAre DEF FreshEntry, SessionHolders
  <2> QED BY <2>1 DEF sessionFor, FreshEntry
<1> QED BY <1>2, <1>3, <1>4 DEF Shared!Join

(* A release by the holder of a reference is Leave: the count reaches zero *)
(* exactly when the last user leaves the current session.                  *)
LEMMA LeaveStep ==
  ASSUME IndInv, NEW c \in Caller, NEW e \in Entry,
         held[c] = e, pc[c] \notin {"idle", "exited"},
         \/ pc' = [pc EXCEPT ![c] = "idle"] /\ held' = [held EXCEPT ![c] = NoEntry]
         \/ pc' = [pc EXCEPT ![c] = "exited"] /\ UNCHANGED held,
         NEW fwds, releaseSession(e, fwds), UNCHANGED backend
  PROVE  Shared!Leave(c, e)
<1> USE ConstantsAssumption
<1>0. TypeOK
  BY DEF IndInv
<1>1. /\ \A f \in Entry : SessionHolders(f) \in SUBSET Caller
      /\ c \in SessionHolders(e)
      /\ SessionHolders(e)' = SessionHolders(e) \ {c}
      /\ \A f \in Entry : f # e => SessionHolders(f)' = SessionHolders(f)
  BY <1>0, GiveRef
<1>2. c \in users[e] /\ users' = [users EXCEPT ![e] = @ \ {c}]
  BY <1>1, UsersAre
<1>3. /\ Cardinality(SessionHolders(e)) \in Nat /\ Cardinality(SessionHolders(e)) >= 1
      /\ Cardinality(SessionHolders(e)) = 1 <=> users[e] = {c}
  <2>1. /\ Cardinality(SessionHolders(e)) \in RefRange /\ Cardinality(SessionHolders(e)) >= 1
        /\ Cardinality(SessionHolders(e)) = 1 => SessionHolders(e) \ {c} = {}
        /\ Cardinality({c}) = 1
    BY <1>1, Counting
  <2>2. users[e] = SessionHolders(e)
    BY UsersAre
  <2>3. Cardinality(SessionHolders(e)) = 1 => SessionHolders(e) = {c}
    BY <1>1, <2>1
  <2> QED BY <2>1, <2>2, <2>3 DEF RefRange
<1>4. sessions' = IF sessions[EntryConn[e]] = e /\ users[e] = {c}
                  THEN [sessions EXCEPT ![EntryConn[e]] = NoEntry] ELSE sessions
  <2>1. CASE sessions[EntryConn[e]] # e
    BY <2>1 DEF releaseSession
  <2>2. CASE sessions[EntryConn[e]] = e
    <3>1. refs[e] = Cardinality(SessionHolders(e))
      BY <2>2 DEF IndInv, RefsCountHolders
    <3>2. refs[e] > 1 <=> users[e] # {c}
      BY <1>3, <3>1
    <3> QED BY <2>2, <3>2 DEF releaseSession, dropSession
  <2> QED BY <2>1, <2>2
<1> QED BY <1>2, <1>4 DEF Shared!Leave

(* What the users of the app do.                                           *)
LEMMA UserSimulates ==
  ASSUME IndInv, UserStep
  PROVE  [Shared!Next]_(Shared!vars)
<1> USE ConstantsAssumption
<1>0. TypeOK /\ CallerOK /\ MapOK
  BY DEF IndInv
<1>1. ASSUME NEW c \in Caller, NEW e \in Entry, openShell(c, e)
      PROVE  Shared!Join(c, e)
  <2>1. "shellWait" \in CallerStates /\ "shellWait" \notin {"idle", "exited"}
    BY DEF CallerStates
  <2> QED BY <1>1, <2>1, JoinStep DEF openShell
<1>2. ASSUME NEW c \in Caller, NEW y \in Key, joinForward(c, y)
      PROVE  \E e \in Entry : Shared!Join(c, e)
  <2>1. PICK e \in Entry : e = sessions[KeyConn[y]] /\ EntryConn[e] = KeyConn[y]
    BY <1>0, <1>2 DEF joinForward, TypeOK, MapOK
  <2>2. /\ pc[c] = "idle" /\ pc' = [pc EXCEPT ![c] = "fwdWait"]
        /\ held' = [held EXCEPT ![c] = e] /\ sessionFor(EntryConn[e], e)
    BY <1>2, <2>1 DEF joinForward, sessionFor
  <2>3. "fwdWait" \in CallerStates /\ "fwdWait" \notin {"idle", "exited"}
    BY DEF CallerStates
  <2> QED BY <2>2, <2>3, JoinStep
<1>3. ASSUME NEW c \in Caller, NEW k \in Claim, NEW e \in Entry, openForward(c, k, e)
      PROVE  Shared!Join(c, e)
  <2>1. "fwdWait" \in CallerStates /\ "fwdWait" \notin {"idle", "exited"}
    BY DEF CallerStates
  <2>2. sessionFor(EntryConn[e], e)
    BY <1>0, <1>3 DEF openForward, sessionFor, MapOK
  <2> QED BY <1>3, <2>1, <2>2, JoinStep DEF openForward
<1>4. ASSUME NEW c \in Caller, closeShell(c)
      PROVE  (\E e \in Entry : Shared!Leave(c, e)) \/ UNCHANGED Shared!vars
  <2>1. CASE pc[c] = "exited"
    <3>1. \A e \in Entry : SessionHolders(e)' = SessionHolders(e)
      BY <1>0, <1>4, <2>1 DEF closeShell, SessionHolders, TypeOK
    <3> QED BY <1>4, <2>1, <3>1, Invisible DEF closeShell, sessionVars
  <2>2. CASE pc[c] = "shell"
    <3>1. PICK e \in Entry : held[c] = e
      BY <1>0, <2>2 DEF CallerOK
    <3> QED BY <1>4, <2>2, <3>1, LeaveStep DEF closeShell
  <2> QED BY <1>4, <2>1, <2>2 DEF closeShell
<1>5. ASSUME NEW c \in Caller, closeForward(c)
      PROVE  (\E e \in Entry : Shared!Leave(c, e)) \/ UNCHANGED Shared!vars
  <2>1. PICK e \in Entry, k \in Claim : held[c] = e /\ claim[c] = k
    BY <1>0, <1>5 DEF closeForward, CallerOK
  <2>2. /\ pc[c] = "fwdHeld" /\ UNCHANGED backend /\ ClaimKey[k] \in Key
        /\ EntryConn[e] = KeyConn[ClaimKey[k]] /\ fwdOn[k] = e
    BY <1>0, <1>5, <2>1 DEF closeForward, CallerOK
  <2>3. forwards[ClaimKey[k]] = k => sessions[EntryConn[e]] = e
    BY <2>2, ConstantsAssumption DEF IndInv, ForwardsRideCurrentSession
  <2>4. forwards[ClaimKey[k]] # k => sessions[EntryConn[e]] # e
    BY <2>1, <2>2 DEF IndInv, ClaimCurrent
  <2>5. CASE forwards[ClaimKey[k]] # k
    <3>1. /\ pc' = [pc EXCEPT ![c] = "idle"] /\ held' = [held EXCEPT ![c] = NoEntry]
          /\ releaseSession(e, forwards)
      BY <1>5, <2>1, <2>4, <2>5 DEF closeForward, releaseSession
    <3> QED BY <2>1, <2>2, <3>1, LeaveStep
  <2>6. CASE forwards[ClaimKey[k]] = k /\ fwdRefs[k] > 1
    <3>1. /\ pc' = [pc EXCEPT ![c] = "idle"] /\ held' = [held EXCEPT ![c] = NoEntry]
          /\ releaseSession(e, forwards)
      BY <1>5, <2>1, <2>2, <2>3, <2>6 DEF closeForward
    <3> QED BY <2>1, <2>2, <3>1, LeaveStep
  <2>7. CASE forwards[ClaimKey[k]] = k /\ fwdRefs[k] = 1
    <3>1. /\ pc' = [pc EXCEPT ![c] = "fwdClosing"] /\ held' = [held EXCEPT ![c] = e]
          /\ UNCHANGED sessions
      BY <1>5, <2>1, <2>2, <2>3, <2>7 DEF closeForward
    <3>2. \A f \in Entry : SessionHolders(f)' = SessionHolders(f)
      BY <1>0, <2>1, <2>2, <3>1 DEF SessionHolders, TypeOK
    <3> QED BY <2>2, <3>1, <3>2, Invisible
  <2>8. (fwdRefs[k] # 0 /\ fwdRefs[k] \in Nat) \/ forwards[ClaimKey[k]] # k
    <3>1. ForwardHolders(k) \in SUBSET Caller /\ c \in ForwardHolders(k)
      BY <2>1, <2>2 DEF ForwardHolders
    <3>2. Cardinality(ForwardHolders(k)) >= 1 /\ Cardinality(ForwardHolders(k)) \in RefRange
      BY <3>1, Counting
    <3> QED BY <3>2 DEF IndInv, FwdRefsCountHolders, RefRange
  <2> QED BY <2>5, <2>6, <2>7, <2>8
<1>6. CASE \E c \in Caller, e \in Entry : Shared!Join(c, e) \/ Shared!Leave(c, e)
  BY <1>6 DEF Shared!Next
<1> QED BY <1>1, <1>2, <1>3, <1>4, <1>5, <1>6 DEF UserStep

(* The answers a caller gets, and the end of its shell.                    *)
LEMMA CallerSimulates ==
  ASSUME IndInv, NEW c \in Caller, CallerStep(c) \/ shellExits(c)
  PROVE  [Shared!Next]_(Shared!vars)
<1> USE ConstantsAssumption
<1>0. TypeOK /\ CallerOK
  BY DEF IndInv
<1>1. CASE shellOpened(c) \/ forwardResolved(c) \/ abortForward(c)
  <2>1. UNCHANGED <<sessions, backend>>
    BY <1>1 DEF shellOpened, forwardResolved, abortForward, sessionVars
  <2>2. \A e \in Entry : SessionHolders(e)' = SessionHolders(e)
    BY <1>0, <1>1 DEF SessionHolders, TypeOK, shellOpened, forwardResolved, abortForward, callerVars
  <2> QED BY <2>1, <2>2, Invisible
<1>2. CASE shellFailed(c) \/ shellExits(c) \/ forwardRejected(c) \/ forwardClosed(c)
  <2>1. PICK e \in Entry : held[c] = e
    BY <1>0, <1>2 DEF CallerOK, shellFailed, shellExits, forwardRejected, forwardClosed
  <2>2. /\ pc[c] \notin {"idle", "exited"} /\ UNCHANGED backend
        /\ \/ pc' = [pc EXCEPT ![c] = "idle"] /\ held' = [held EXCEPT ![c] = NoEntry]
           \/ pc' = [pc EXCEPT ![c] = "exited"] /\ UNCHANGED held
    BY <1>2 DEF shellFailed, shellExits, forwardRejected, forwardClosed
  <2>3. \E fwds : releaseSession(e, fwds)
    BY <1>2, <2>1 DEF shellFailed, shellExits, forwardRejected, forwardClosed
  <2>4. Shared!Leave(c, e)
    BY <2>1, <2>2, <2>3, LeaveStep
  <2> QED BY <2>4 DEF Shared!Next
<1> QED BY <1>1, <1>2 DEF CallerStep

(* The dial, the backend and what they report.                             *)
LEMMA SessionSimulates ==
  ASSUME IndInv, NEW e \in Entry, SessionStep(e) \/ connectionEnds(e)
  PROVE  [Shared!Next]_(Shared!vars)
<1> USE ConstantsAssumption
<1>0. TypeOK
  BY DEF IndInv
<1>1. UNCHANGED <<pc, held>>
  BY DEF SessionStep, handshakeDone, dialResolved, dialRejected, onClosed, closeSession,
         connectionEnds, callerVars
<1>2. users' = users /\ users[e] = SessionHolders(e)
  BY <1>1, UsersAre DEF SessionHolders
<1>3. CASE handshakeDone(e)
  <2>1. sessions[EntryConn[e]] = e \/ users[e] = {}
    BY <1>2, <1>3 DEF handshakeDone, IndInv, DialOK, NoTheft
  <2>2. Shared!ComeUp(e)
    BY <1>2, <1>3, <2>1 DEF handshakeDone, Shared!ComeUp
  <2> QED BY <2>2 DEF Shared!Next
<1>4. CASE dialResolved(e)
  BY <1>2, <1>4 DEF dialResolved, Shared!vars
<1>5. CASE dialRejected(e) \/ onClosed(e)
  <2>1. Shared!Forget(e)
    BY <1>2, <1>5 DEF dialRejected, onClosed, dropSession, Shared!Forget
  <2> QED BY <2>1 DEF Shared!Next
<1>6. CASE connectionEnds(e)
  <2>1. Shared!Break(e)
    BY <1>2, <1>6 DEF connectionEnds, Shared!Break
  <2> QED BY <2>1 DEF Shared!Next
<1>7. CASE closeSession(e) /\ backend[e] = "up"
  <2>1. users[e] = {} /\ sessions[EntryConn[e]] # e
    BY <1>2, <1>7 DEF closeSession, IndInv, NoTheft, ClosingOK
  <2>2. Shared!Close(e)
    BY <1>2, <1>7, <2>1 DEF closeSession, Shared!Close
  <2> QED BY <2>2 DEF Shared!Next
<1>8. CASE closeSession(e) /\ backend[e] # "up"
  BY <1>2, <1>8 DEF closeSession, Shared!vars
<1> QED BY <1>3, <1>4, <1>5, <1>6, <1>7, <1>8 DEF SessionStep

LEMMA NextSimulates == IndInv /\ [Next]_vars => [Shared!Next]_(Shared!vars)
<1> SUFFICES ASSUME IndInv, [Next]_vars PROVE [Shared!Next]_(Shared!vars)
  OBVIOUS
<1>1. CASE UNCHANGED vars
  <2>1. \A e \in Entry : SessionHolders(e)' = SessionHolders(e)
    BY <1>1 DEF vars, callerVars, SessionHolders
  <2> QED BY <1>1, <2>1, Invisible DEF vars, sessionVars
<1>2. CASE UserStep
  BY <1>2, UserSimulates
<1>3. ASSUME NEW c \in Caller, CallerStep(c) \/ shellExits(c)
      PROVE  [Shared!Next]_(Shared!vars)
  BY <1>3, CallerSimulates
<1>4. ASSUME NEW k \in Claim, ForwardStep(k) PROVE [Shared!Next]_(Shared!vars)
  <2>1. UNCHANGED <<sessions, backend, pc, held>>
    BY <1>4 DEF ForwardStep, forwardOpens, forwardFails, sessionVars, callerVars
  <2>2. \A e \in Entry : SessionHolders(e)' = SessionHolders(e)
    BY <2>1 DEF SessionHolders
  <2> QED BY <2>1, <2>2, Invisible
<1>5. ASSUME NEW e \in Entry, SessionStep(e) \/ connectionEnds(e)
      PROVE  [Shared!Next]_(Shared!vars)
  BY <1>5, SessionSimulates
<1> QED BY <1>1, <1>2, <1>3, <1>4, <1>5 DEF Next

(* tunnel.ts keeps the promise it is there for: its counts, claims and     *)
(* queued closes implement SharedSession, where a session is what its      *)
(* users use and ends at the app's hand only after the last of them.       *)
THEOREM TunnelImplementsSharing == Spec => ImplementsSharing
<1>1. Init => Shared!Init
  BY UsersAre DEF Init, Shared!Init, SessionHolders
<1> QED BY <1>1, NextSimulates, Invariance, PTL DEF Spec, ImplementsSharing, Shared!Spec
==============================================================================
