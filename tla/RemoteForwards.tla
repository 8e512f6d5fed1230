--------------------------- MODULE RemoteForwards ---------------------------
(***************************************************************************)
(* The `ssh -R` registry of one session: open_remote_forward,              *)
(* close_remote_forward and server_channel_open_forwarded_tcpip in         *)
(* src-tauri/src/modules/ssh/session.rs.                                   *)
(*                                                                         *)
(* An opener asks for one remote forward at a time, with its own local     *)
(* target.  A generation is minted per open and no registry entry outlives *)
(* the open that made it, so an opener stands for its current generation.  *)
(***************************************************************************)
EXTENDS Naturals

CONSTANTS
  Opener,    \* callers of ssh_remote_forward_open, each with its own target
  Port,      \* ports of the server
  Ephemeral, \* the ports the server picks from
  AskedPort, \* opener -> the bind_port it sends, AnyPort for 0
  AnyPort,   \* bind_port 0: the server picks
  Nobody       \* an absent map entry, a free mutex

ASSUME RemoteForwardsAssumption ==
  /\ Ephemeral \subseteq Port
  /\ AskedPort \in [Opener -> Port \cup {AnyPort}]
  /\ AnyPort \notin Port /\ Nobody \notin Opener \cup Port

VARIABLES
  registry,  \* server port -> the generation (opener) its connections go to
  server,    \* server port -> the opener the server listens for
  handle,    \* who holds the session's `handle` mutex
  pc,        \* opener -> where it is
  bound,     \* opener -> the port it was given
  up         \* the connection to the server is alive

remoteVars == <<registry, server, handle, pc, bound, up>>

Pinned(r) == AskedPort[r] # AnyPort

RemoteInit ==
  /\ registry = [p \in Port |-> Nobody]
  /\ server = [p \in Port |-> Nobody]
  /\ handle = Nobody
  /\ pc = [r \in Opener |-> "idle"]
  /\ bound = [r \in Opener |-> Nobody]
  /\ up = TRUE

-----------------------------------------------------------------------------
(* Mutant of open_remote_forward: a pinned port is not registered up front. *)
open_remote_forward_late(r) ==
  /\ pc[r] = "idle" /\ handle = Nobody /\ up
  /\ handle' = r
  /\ pc' = [pc EXCEPT ![r] = "asked"]
  /\ UNCHANGED <<registry, server, bound, up>>

(* Take the handle, register a pinned port, send tcpip_forward.  A session *)
(* that ended answers "ssh session is closed" and nothing changes.         *)
open_remote_forward(r) ==
  /\ pc[r] = "idle" /\ handle = Nobody /\ up
  /\ handle' = r
  /\ registry' = IF Pinned(r) THEN [registry EXCEPT ![AskedPort[r]] = r] ELSE registry
  /\ pc' = [pc EXCEPT ![r] = "asked"]
  /\ UNCHANGED <<server, bound, up>>

(* The server binds: the port it was asked for or, for 0, a free one.  It  *)
(* binds one port only once.                                               *)
serverBinds(r) ==
  /\ pc[r] = "asked" /\ up
  /\ \E p \in Port :
       /\ server[p] = Nobody
       /\ IF Pinned(r) THEN p = AskedPort[r] ELSE p \in Ephemeral
       /\ server' = [server EXCEPT ![p] = r]
       /\ bound' = [bound EXCEPT ![r] = p]
  /\ pc' = [pc EXCEPT ![r] = "bound"]
  /\ UNCHANGED <<registry, handle, up>>

(* Its answer arrives: an asked-for 0 is registered now.                   *)
openSucceeds(r) ==
  /\ pc[r] = "bound" /\ up
  /\ registry' = IF Pinned(r) THEN registry ELSE [registry EXCEPT ![bound[r]] = r]
  /\ handle' = Nobody
  /\ pc' = [pc EXCEPT ![r] = "running"]
  /\ UNCHANGED <<server, bound, up>>

(* The server refuses (the port is taken, policy), or the connection ends  *)
(* before its answer: a pinned port's registration is rolled back by port. *)
openFails(r) ==
  /\ pc[r] = "asked" \/ (pc[r] = "bound" /\ ~up)
  /\ registry' = IF Pinned(r) THEN [registry EXCEPT ![AskedPort[r]] = Nobody] ELSE registry
  /\ handle' = Nobody
  /\ pc' = [pc EXCEPT ![r] = "idle"]
  /\ bound' = [bound EXCEPT ![r] = Nobody]
  /\ UNCHANGED <<server, up>>

(* close_remote_forward: an entry that is no longer this generation's ends *)
(* the close at once; otherwise it goes, without the handle.               *)
close_remote_forward(r) ==
  /\ pc[r] = "running"
  /\ IF registry[bound[r]] = r
     THEN /\ registry' = [registry EXCEPT ![bound[r]] = Nobody]
          /\ pc' = [pc EXCEPT ![r] = "closing"]
          /\ UNCHANGED bound
     ELSE /\ pc' = [pc EXCEPT ![r] = "idle"]
          /\ bound' = [bound EXCEPT ![r] = Nobody]
          /\ UNCHANGED registry
  /\ UNCHANGED <<server, handle, up>>

(* Mutant of cancelListen: the server keeps listening.                     *)
cancelListenForgotten(r) ==
  /\ pc[r] = "closing" /\ handle = Nobody
  /\ bound' = [bound EXCEPT ![r] = Nobody]
  /\ pc' = [pc EXCEPT ![r] = "idle"]
  /\ UNCHANGED <<registry, server, handle, up>>

(* With the handle, cancel_tcpip_forward.  It holds the mutex from request *)
(* to answer and nothing else of the session's state depends on the wait.  *)
(* On a session that ended it is an error, with the same state after it.   *)
(* A server that refuses it and stays connected, whose listener nothing in *)
(* the app would name any more, is left out.                               *)
cancelListen(r) ==
  /\ pc[r] = "closing" /\ handle = Nobody
  /\ server' = [server EXCEPT ![bound[r]] = Nobody]
  /\ bound' = [bound EXCEPT ![r] = Nobody]
  /\ pc' = [pc EXCEPT ![r] = "idle"]
  /\ UNCHANGED <<registry, handle, up>>

(* The connection ends, and with it every listener the server opened.      *)
sessionEnds ==
  /\ up
  /\ up' = FALSE
  /\ server' = [p \in Port |-> Nobody]
  /\ UNCHANGED <<registry, handle, pc, bound>>

RemoteNext ==
  \/ sessionEnds
  \/ \E r \in Opener :
    \/ open_remote_forward(r) \/ serverBinds(r) \/ openSucceeds(r) \/ openFails(r)
    \/ close_remote_forward(r) \/ cancelListen(r)

RemoteSpec == RemoteInit /\ [][RemoteNext]_remoteVars

-----------------------------------------------------------------------------
(* Every map and the mutex hold what they are declared to hold.            *)
RemoteTypeOK ==
  /\ registry \in [Port -> Opener \cup {Nobody}]
  /\ server \in [Port -> Opener \cup {Nobody}]
  /\ handle \in Opener \cup {Nobody}
  /\ pc \in [Opener -> {"idle", "asked", "bound", "running", "closing"}]
  /\ bound \in [Opener -> Port \cup {Nobody}]
  /\ up \in BOOLEAN

(* What server_channel_open_forwarded_tcpip does with a connection the     *)
(* server accepted on p: dial the registered target, or close it.          *)
Route(p) == registry[p]

(* Another rule asks for this port too, or the server may pick it for one. *)
(* The registry is keyed by the port alone (KNOWN-LIMITS.md), and the two  *)
(* get in each other's way.                                                *)
Contested(p) ==
  \E r, s \in Opener :
    r # s /\ AskedPort[r] = p /\ (AskedPort[s] = p \/ (~Pinned(s) /\ p \in Ephemeral))

(* A running remote forward serves: a connection accepted on its port is   *)
(* routed to its own target, whatever the rules that contest another port  *)
(* do, and no connection is handed to the target of another rule.  For a   *)
(* pinned port the first holds from the moment the server listens, which   *)
(* is why the code registers it before asking.                             *)
RunningIsRouted ==
  /\ up => \A r \in Opener :
       /\ pc[r] = "running" \/ (pc[r] = "bound" /\ Pinned(r))
       /\ ~Contested(bound[r])
       => server[bound[r]] = r /\ Route(bound[r]) = r
  /\ \A p \in Port : server[p] # Nobody /\ ~Contested(p) => Route(p) \in {Nobody, server[p]}

(* Once every opener has stopped, the server listens for nobody.           *)
NoOrphanRemoteListener ==
  \A p \in Port : server[p] # Nobody /\ ~Contested(p) => pc[server[p]] # "idle"
=============================================================================
