---------------------------- MODULE SharedSession ----------------------------
(***************************************************************************)
(* What tunnel.ts promises the tabs and forwards that share a session,     *)
(* without the counts, promises and queues it keeps the promise with: a    *)
(* connection has one current session, everybody who asks meanwhile uses   *)
(* that one, it ends at the app's hand only when its last user has left,   *)
(* and it leaves the map under its users only when it is not up.           *)
(***************************************************************************)
CONSTANTS Connection, Caller, Entry, EntryConn, NoEntry

VARIABLES
  current,  \* connection -> the session that serves it, or NoEntry
  users,    \* session -> the callers that use it
  life      \* session -> "none", "up", "lost" (not yet heard of) or "gone"

vars == <<current, users, life>>

Init ==
  /\ current = [n \in Connection |-> NoEntry]
  /\ users = [e \in Entry |-> {}]
  /\ life = [e \in Entry |-> "none"]

(* A caller uses the current session, or a new one that becomes current.   *)
Join(c, e) ==
  LET n == EntryConn[e] IN
  /\ \A f \in Entry : c \notin users[f]
  /\ \/ current[n] = e /\ UNCHANGED <<current, life>>
     \/ /\ current[n] = NoEntry /\ users[e] = {} /\ life[e] \in {"none", "gone"}
        /\ current' = [current EXCEPT ![n] = e]
        /\ life' = [life EXCEPT ![e] = "none"]
  /\ users' = [users EXCEPT ![e] = @ \cup {c}]

(* A caller is done.  The last one takes the session out of service.       *)
Leave(c, e) ==
  LET n == EntryConn[e] IN
  /\ c \in users[e]
  /\ users' = [users EXCEPT ![e] = @ \ {c}]
  /\ current' = IF current[n] = e /\ users[e] = {c}
                THEN [current EXCEPT ![n] = NoEntry] ELSE current
  /\ UNCHANGED life

(* A session comes up for its users, or too late for any.                  *)
ComeUp(e) ==
  /\ life[e] = "none"
  /\ current[EntryConn[e]] = e \/ users[e] = {}
  /\ life' = [life EXCEPT ![e] = "up"]
  /\ UNCHANGED <<current, users>>

(* It breaks on its own, and is forgotten when that is heard of.           *)
Break(e) ==
  /\ life[e] = "up"
  /\ life' = [life EXCEPT ![e] = "lost"]
  /\ UNCHANGED <<current, users>>

Forget(e) ==
  LET n == EntryConn[e] IN
  /\ \/ life[e] = "none" /\ UNCHANGED life
     \/ life[e] = "lost" /\ life' = [life EXCEPT ![e] = "gone"]
  /\ current' = IF current[n] = e THEN [current EXCEPT ![n] = NoEntry] ELSE current
  /\ UNCHANGED users

(* It is closed: nobody uses it and nobody can come to.                    *)
Close(e) ==
  /\ life[e] = "up" /\ users[e] = {} /\ current[EntryConn[e]] # e
  /\ life' = [life EXCEPT ![e] = "gone"]
  /\ UNCHANGED <<current, users>>

Next ==
  \/ \E c \in Caller, e \in Entry : Join(c, e) \/ Leave(c, e)
  \/ \E e \in Entry : ComeUp(e) \/ Break(e) \/ Forget(e) \/ Close(e)

Spec == Init /\ [][Next]_vars
=============================================================================
