--------------------------- MODULE HostKeyPrompts ---------------------------
(***************************************************************************)
(* The trust questions of first connects: the one queue of the dialog      *)
(* (src/modules/ssh/hostKeyPrompt.ts), the handshakes that are paused on a *)
(* question (check_server_key of ssh/session.rs, the verifier of           *)
(* rdp/tls.rs), and those who wait behind them: the callers that ride one  *)
(* dial of tunnel.ts (its DialFanout), RDP panes with a certificate of     *)
(* their own, and the Test button of the host editor.                      *)
(*                                                                         *)
(* A step of the window is what it does for one event, one reply, one      *)
(* timer or one click; an event and a reply are on different ways and may  *)
(* overtake each other.  One saved host is dialled, through Hop hops.      *)
(***************************************************************************)
EXTENDS Naturals

CONSTANTS
  Caller,     \* whoever may ask for a connect
  Casts,      \* the sets of callers that are considered together
  Kind,       \* Kind[c]: "tab", "rule", "pane", "sshTest" or "rdpTest"
  Tunnelled,  \* the panes and RDP tests that go through the saved host
  Dial,       \* names for the dials of tunnel.ts that are alive at once
  Hop,        \* the hops of an SSH connect, each with a key of its own
  NoDial

ASSUME PromptsAssumption ==
  /\ Kind \in [Caller -> {"tab", "rule", "pane", "sshTest", "rdpTest"}]
  /\ Casts \subseteq SUBSET Caller
  /\ Tunnelled \subseteq {c \in Caller : Kind[c] \in {"pane", "rdpTest"}}
  /\ Hop \subseteq Nat /\ 1 \in Hop
  /\ Caller \cap Dial = {} /\ NoDial \notin Caller \cup Dial

VARIABLES
  caller,     \* caller[c]: where it is in its connect
  handshake,  \* handshake[h]: a handshake in the backend
  fanout,     \* fanout[d]: the DialFanout of a dial
  current,    \* the entry of sessions for the saved host
  pinned,     \* the hops whose key is saved
  asking,     \* prompt events on their way to the window
  queue,      \* queue[q]: the questions of the dialog ahead of its question q
  confirms,   \* <<q, accept>>: answers on their way to the backend
  answers,    \* <<q, accept>>: the answers made so far
  stray       \* questions that came up for nobody

vars == <<caller, handshake, fanout, current, pinned, asking, queue, confirms,
          answers, stray>>

Rides(c) == Kind[c] \in {"tab", "rule"} \/ c \in Tunnelled
Certificate(h) == h \in Caller /\ Kind[h] # "sshTest"

(* Those that pass onHostKeyPrompt; a tab leaves its questions to the user.*)
Hears(c) == Kind[c] \in {"rule", "pane", "rdpTest"}

Handshake == Dial \cup Caller
Question == Handshake \X Hop
Of(h) == {h} \X Hop

(* riding: awaits the dial; opening: awaits its own handshake; open and    *)
(* failed: what a pane shows; over: a test that missed its deadline.       *)
(* here: the pane is mounted, the rule not stopped, the editor not closed. *)
(* told: the prompt ids it keeps for its teardown.  ride: the dial it      *)
(* holds.  armed: the deadline of a test runs.  late: it has fired.        *)
Idle == [at |-> "idle", here |-> FALSE, ride |-> NoDial, told |-> {}, armed |-> FALSE,
         late |-> FALSE]

(* shaking, parked on a question of hop, ended with the reply on its way;  *)
(* none and up: the reply is in.  asks: the hops without a saved key.      *)
NoHandshake == [at |-> "none", asks |-> {}, hop |-> 1, ok |-> FALSE]
Up == [NoHandshake EXCEPT !.at = "up"]
NoFanout == [raised |-> {}, watchers |-> {}]

Init ==
  /\ \E cast \in Casts : caller = [c \in cast |-> Idle]
  /\ handshake = [h \in Handshake |-> NoHandshake]
  /\ fanout = [d \in Dial |-> NoFanout]
  /\ current = NoDial /\ pinned = {}
  /\ asking = {} /\ queue = [q \in {} |-> {}] /\ confirms = {} /\ answers = {}
  /\ stray = {}

Queued == DOMAIN queue
Present == DOMAIN caller

----------------------------------------------------------------------------
(* The operations of the queue.                                            *)
Unqueue(S) ==
  /\ queue' = [q \in Queued \ S |-> queue[q] \ S]
  /\ stray' = stray \ S

Confirm(S, accept) == confirms' = confirms \cup (S \X {accept})

(* Kept with the answered question's connect for as long as that goes on.  *)
Record(S, accept) ==
  answers' = answers \cup ({q \in S : handshake[q[1]].at # "none"} \X {accept})

Forget(h) == answers' = {a \in answers : a[1] \notin Of(h)}

(* At the end, unless it is there already.                                 *)
enqueue(q) ==
  queue' = [r \in Queued \cup {q} |-> IF r \in Queued THEN queue[r] ELSE Queued]

dismiss(S) == Unqueue(S) /\ UNCHANGED confirms

(* Mutant: a question is rejected though it has been answered.             *)
abandonBlindly(S) == Confirm(S, FALSE) /\ Record(S, FALSE) /\ Unqueue(S)

(* Rejects what is still queued; no-op for the rest.                       *)
abandon(S) == Confirm(S \cap Queued, FALSE) /\ Record(S \cap Queued, FALSE) /\ Unqueue(S)

(* The user answers the question on screen, the one with none ahead.       *)
(* Trust also saves the key of the hop on the rows it belongs to, which    *)
(* may fail.                                                               *)
resolve(q, accept) ==
  /\ queue[q] = {}
  /\ Confirm({q}, accept) /\ Record({q}, accept) /\ Unqueue({q})
  /\ pinned' \in {pinned} \cup (IF accept /\ q[1] \in Dial THEN {pinned \cup {q[2]}} ELSE {})
  /\ UNCHANGED <<caller, handshake, fanout, current, asking>>

----------------------------------------------------------------------------
(* Nothing refers to the last handshake of this name.                      *)
Forgotten(h) ==
  /\ handshake[h].at = "none"
  /\ \A q \in Of(h) : q \notin asking \cup Queued /\ {q} \X BOOLEAN \cap confirms = {}
  /\ h \in Dial => \A c \in Present : caller[c].ride # h /\ caller[c].told \cap Of(h) = {}

Shaking(asks) == [NoHandshake EXCEPT !.at = "shaking", !.asks = asks]

(* openSsh or openRdp for c alone: a test of a draft knows no key.         *)
OwnHandshake(c) == Shaking(IF Certificate(c) THEN {1} ELSE Hop)

(* Mutant: a caller that joins is told of later questions only.            *)
watchDialFromNow(d, c) ==
  /\ fanout' = [fanout EXCEPT ![d].watchers = @ \cup {c}]
  /\ caller' = [caller EXCEPT ![c] = [Idle EXCEPT !.at = "riding", !.here = TRUE, !.ride = d]]

(* A caller that joins a dial that is not settled watches it, and learns   *)
(* the questions that are still on screen.                                 *)
watchDial(d, c) ==
  LET watches == handshake[d].at # "up" /\ Hears(c)
  IN /\ fanout' = IF watches THEN [fanout EXCEPT ![d].watchers = @ \cup {c}] ELSE fanout
     /\ caller' = [caller EXCEPT ![c] =
                     [Idle EXCEPT !.at = "riding", !.here = TRUE, !.ride = d,
                                  !.told = IF watches THEN fanout[d].raised \cap Queued ELSE {}]]

(* sessionFor of a caller that rides: it joins the entry there is, or      *)
(* starts a dial with the keys that are saved by now.                      *)
sessionFor(c) ==
  \/ /\ current # NoDial
     /\ watchDial(current, c)
     /\ UNCHANGED <<handshake, current>>
  \/ /\ current = NoDial
     /\ \E d \in Dial :
          /\ Forgotten(d)
          /\ current' = d
          /\ handshake' = [handshake EXCEPT ![d] = Shaking(Hop \ pinned)]
          /\ fanout' = [fanout EXCEPT ![d] = [NoFanout EXCEPT !.watchers =
                                                IF Hears(c) THEN {c} ELSE {}]]
          /\ caller' = [caller EXCEPT ![c] =
                          [Idle EXCEPT !.at = "riding", !.here = TRUE, !.ride = d]]

(* A connect begins: a tab, a Start, a pane that mounts, a Test.  A test   *)
(* runs against a deadline while it has its own handshake.                 *)
open(c) ==
  /\ caller[c].at \in {"idle", "over"} /\ Forgotten(c)
  /\ IF Rides(c)
     THEN sessionFor(c)
     ELSE /\ caller' = [caller EXCEPT ![c] =
                          [Idle EXCEPT !.at = "opening", !.here = TRUE, !.armed = Kind[c] # "pane"]]
          /\ handshake' = [handshake EXCEPT ![c] = OwnHandshake(c)]
          /\ UNCHANGED <<fanout, current>>
  /\ UNCHANGED <<pinned, asking, queue, confirms, answers, stray>>

(* The dial is up: a tab or a rule has what it wants; a pane or a test     *)
(* goes on to the certificate.  A pane, tab or rule that has left lets go. *)
rideEnds(c) ==
  /\ caller[c].at = "riding" /\ handshake[caller[c].ride].at = "up"
  /\ IF caller[c].here \/ Kind[c] = "rdpTest"
     THEN IF c \in Tunnelled
          THEN /\ caller' = [caller EXCEPT ![c].at = "opening", ![c].armed = Kind[c] = "rdpTest"]
               /\ handshake' = [handshake EXCEPT ![c] = OwnHandshake(c)]
          ELSE /\ caller' = [caller EXCEPT ![c].at = "open", ![c].told = {}]
               /\ UNCHANGED handshake
     ELSE caller' = [caller EXCEPT ![c] = Idle] /\ UNCHANGED handshake
  /\ UNCHANGED <<fanout, current, pinned, asking, queue, confirms, answers, stray>>

(* The last reference on the session has gone: it is closed.               *)
releaseSession ==
  /\ current # NoDial /\ handshake[current].at = "up"
  /\ \A c \in Present : caller[c].ride # current
  /\ current' = NoDial
  /\ handshake' = [handshake EXCEPT ![current] = NoHandshake]
  /\ UNCHANGED <<caller, fanout, pinned, asking, queue, confirms, answers, stray>>

----------------------------------------------------------------------------
(* The backend.  The handshake comes to the next key that is not saved and *)
(* pauses before a credential is sent, or it comes through.                *)
check_server_key(h) ==
  /\ handshake[h].at = "shaking"
  /\ IF handshake[h].asks = {}
     THEN /\ handshake' = [handshake EXCEPT ![h].at = "ended", ![h].ok = TRUE]
          /\ UNCHANGED asking
     ELSE \E hop \in handshake[h].asks :
            /\ \A other \in handshake[h].asks : hop <= other
            /\ handshake' = [handshake EXCEPT ![h].at = "parked", ![h].hop = hop]
            /\ asking' = asking \cup {<<h, hop>>}
  /\ UNCHANGED <<caller, fanout, current, pinned, queue, confirms, answers, stray>>

(* The answer: ssh_confirm_host_key or rdp_confirm_cert.  One that the     *)
(* handshake does not wait for any more is an error nobody hears.          *)
confirm_host_key(q, accept) ==
  /\ <<q, accept>> \in confirms
  /\ confirms' = confirms \ {<<q, accept>>}
  /\ handshake' =
       IF handshake[q[1]].at = "parked" /\ handshake[q[1]].hop = q[2]
       THEN [handshake EXCEPT ![q[1]] =
               IF accept THEN Shaking(@.asks \ {q[2]})
               ELSE [@ EXCEPT !.at = "ended"]]
       ELSE handshake
  /\ UNCHANGED <<caller, fanout, current, pinned, asking, queue, answers, stray>>

(* The connect fails: at any time before the question, and at the question *)
(* when its time is over or, for SSH, when the connect as a whole has      *)
(* timed out or lost its link; the RDP verifier blocks its handshake.      *)
connectFails(h) ==
  /\ handshake[h].at \in {"shaking", "parked"}
  /\ handshake' = [handshake EXCEPT ![h].at = "ended"]
  /\ UNCHANGED <<caller, fanout, current, pinned, asking, queue, confirms, answers, stray>>

----------------------------------------------------------------------------
(* The question is queued.  It comes up for nobody when its connect or its *)
(* test is over.                                                           *)
Raise(q) ==
  /\ enqueue(q)
  /\ stray' = IF \/ handshake[q[1]].at \in {"none", "up"}
                 \/ q[1] \in Caller /\ caller[q[1]].late
              THEN stray \cup {q} ELSE stray

(* Mutant: a question does not stop the deadline of the test.              *)
onPromptTimed(q) ==
  LET h == q[1]
  IN /\ q \in asking /\ asking' = asking \ {q}
     /\ IF h \in Dial
        THEN /\ fanout' = [fanout EXCEPT ![h].raised = @ \cup {q}]
             /\ caller' = [c \in Present |-> IF c \in fanout[h].watchers
                             THEN [caller[c] EXCEPT !.told = @ \cup {q}] ELSE caller[c]]
             /\ enqueue(q) /\ UNCHANGED <<confirms, answers>>
        ELSE IF Kind[h] = "pane" /\ ~caller[h].here
        THEN Confirm({q}, FALSE) /\ Record({q}, FALSE) /\ UNCHANGED <<fanout, caller, queue>>
        ELSE /\ caller' = [caller EXCEPT ![h].told =
                             IF Kind[h] = "sshTest" THEN {q} ELSE @ \cup {q}]
             /\ enqueue(q) /\ UNCHANGED <<fanout, confirms, answers>>
     /\ stray' = stray
     /\ UNCHANGED <<handshake, current, pinned>>

(* A question arrives.  That of a dial is announced to whoever watches;    *)
(* that of a pane that has left is rejected at once; that of a test stops  *)
(* its deadline.  A test keeps the last one only, an RDP test all.         *)
onHostKeyPrompt(q) ==
  LET h == q[1]
  IN /\ q \in asking /\ asking' = asking \ {q}
     /\ IF h \in Dial
        THEN /\ fanout' = [fanout EXCEPT ![h].raised = @ \cup {q}]
             /\ caller' = [c \in Present |-> IF c \in fanout[h].watchers
                             THEN [caller[c] EXCEPT !.told = @ \cup {q}] ELSE caller[c]]
             /\ Raise(q) /\ UNCHANGED <<confirms, answers>>
        ELSE IF Kind[h] = "pane" /\ ~caller[h].here
        THEN Confirm({q}, FALSE) /\ Record({q}, FALSE) /\ UNCHANGED <<fanout, caller, queue, stray>>
        ELSE /\ caller' = [caller EXCEPT ![h].armed = FALSE,
                             ![h].told = IF Kind[h] = "sshTest" THEN {q} ELSE @ \cup {q}]
             /\ Raise(q) /\ UNCHANGED <<fanout, confirms, answers>>
     /\ UNCHANGED <<handshake, current, pinned>>

Riders(d) == {c \in Present : caller[c].at = "riding" /\ caller[c].ride = d}

(* Mutant: a dial that fails leaves its questions in the queue.            *)
dialSettlesQuietly(d) ==
  /\ handshake[d].at = "ended"
  /\ fanout' = [fanout EXCEPT ![d].watchers = {}]
  /\ handshake' = [handshake EXCEPT ![d] =
                     IF @.ok THEN Up ELSE NoHandshake]
  /\ current' = IF ~handshake[d].ok /\ current = d THEN NoDial ELSE current
  /\ caller' = [c \in Present |->
       IF c \notin Riders(d) \/ handshake[d].ok THEN caller[c]
       ELSE IF Kind[c] = "pane" /\ caller[c].here
            THEN [caller[c] EXCEPT !.at = "failed", !.ride = NoDial] ELSE Idle]
  /\ Forget(d)
  /\ UNCHANGED <<pinned, asking, queue, confirms, stray>>

(* The reply of openSsh for a dial.  When it failed its questions are      *)
(* dismissed, its entry is dropped, and every rider hears of it.           *)
dialSettles(d) ==
  /\ handshake[d].at = "ended"
  /\ fanout' = [fanout EXCEPT ![d].watchers = {}]
  /\ handshake' = [handshake EXCEPT ![d] =
                     IF @.ok THEN Up ELSE NoHandshake]
  /\ current' = IF ~handshake[d].ok /\ current = d THEN NoDial ELSE current
  /\ dismiss(IF handshake[d].ok THEN {} ELSE fanout[d].raised)
  /\ caller' = [c \in Present |->
       IF c \notin Riders(d) \/ handshake[d].ok THEN caller[c]
       ELSE IF Kind[c] = "pane" /\ caller[c].here
            THEN [caller[c] EXCEPT !.at = "failed", !.ride = NoDial] ELSE Idle]
  /\ Forget(d)
  /\ UNCHANGED <<pinned, asking>>

(* The finally of a test: the SSH test drops its question, the RDP test    *)
(* rejects all of its own.                                                 *)
TestEnds(c) ==
  IF Kind[c] = "sshTest" THEN dismiss(caller[c].told)
  ELSE Confirm(caller[c].told \cap Queued, FALSE) /\ Unqueue(caller[c].told)

(* The reply of openSsh or openRdp for c alone.  A pane keeps the question *)
(* of a connect that failed until it is unmounted or connects again; a     *)
(* test that has ended by its deadline takes no notice.                    *)
opened(c) ==
  /\ caller[c].at = "opening" /\ handshake[c].at = "ended"
  /\ handshake' = [handshake EXCEPT ![c] = NoHandshake]
  /\ IF Kind[c] = "pane" \/ caller[c].late
     THEN /\ caller' = [caller EXCEPT ![c] =
                          IF @.late THEN [@ EXCEPT !.at = "over"]
                          ELSE IF ~@.here THEN Idle
                          ELSE IF handshake[c].ok THEN [@ EXCEPT !.at = "open"]
                          ELSE [@ EXCEPT !.at = "failed", !.ride = NoDial]]
          /\ UNCHANGED <<queue, confirms, stray>>
     ELSE caller' = [caller EXCEPT ![c] = Idle] /\ TestEnds(c)
  /\ Forget(c)
  /\ UNCHANGED <<fanout, current, pinned, asking>>

(* The deadline of a test: it ends, its handshake goes on.                 *)
deadline(c) ==
  /\ caller[c].at = "opening" /\ caller[c].armed
  /\ caller' = [caller EXCEPT ![c].armed = FALSE, ![c].late = TRUE,
                             ![c].told = {}, ![c].ride = NoDial]
  /\ TestEnds(c)
  /\ UNCHANGED <<handshake, fanout, current, pinned, asking, answers>>

(* The teardown of a pane, the Stop of a rule, the close of a tab or of    *)
(* the editor.  All but the tab and the SSH test reject what they know of; *)
(* a pane that has its tunnel lets go of it.                               *)
leave(c) ==
  /\ caller[c].here
  /\ caller' = [caller EXCEPT ![c] =
                  IF @.at \in {"open", "failed", "over"} THEN Idle
                  ELSE [@ EXCEPT !.here = FALSE, !.told = IF Hears(c) THEN {} ELSE caller[c].told,
                          !.ride = IF Kind[c] = "pane" /\ caller[c].at = "opening"
                                   THEN NoDial ELSE caller[c].ride]]
  /\ IF Hears(c) THEN abandon(caller[c].told) ELSE UNCHANGED <<queue, confirms, answers, stray>>
  /\ UNCHANGED <<handshake, fanout, current, pinned, asking>>

Next ==
  \/ \E q \in Queued, accept \in BOOLEAN : resolve(q, accept)
  \/ releaseSession
  \/ \E c \in Present : open(c) \/ rideEnds(c) \/ opened(c) \/ deadline(c) \/ leave(c)
  \/ \E h \in Handshake : check_server_key(h) \/ connectFails(h)
  \/ \E q \in asking : onHostKeyPrompt(q)
  \/ \E a \in confirms : confirm_host_key(a[1], a[2])
  \/ \E d \in Dial : dialSettles(d)

Spec == Init /\ [][Next]_vars

----------------------------------------------------------------------------
(* Nobody waits for a question that cannot be answered: a paused handshake *)
(* has its question on the way to the queue or in it, or an answer under   *)
(* way (dismiss of hostKeyPrompt.ts "leaves the backend parked").          *)
ParkedIsAsked ==
  \A h \in Handshake : handshake[h].at = "parked" =>
    LET q == <<h, handshake[h].hop>>
    IN q \in asking \cup Queued \/ {q} \X BOOLEAN \cap confirms # {}

(* No dead question hides the others: one whose connect is over is in the  *)
(* queue only if it came up for nobody, or behind the error overlay of the *)
(* RDP pane that asked it (the catch of dialSession, the finally of tests).*)
DeadQuestionsGo ==
  \A q \in Queued \ stray :
    \/ handshake[q[1]].at \notin {"none", "up"}
    \/ q[1] \in Caller /\ Kind[q[1]] = "pane" /\ caller[q[1]].at = "failed"

(* The queue and the paused handshakes match: both of the above.           *)
QuestionsMatchHandshakes == ParkedIsAsked /\ DeadQuestionsGo

(* Whoever leaves takes the questions it waits behind along: none that was *)
(* on screen for its connect, raised by its own dial or by one it joined,  *)
(* is left there (onHostKeyPrompt of tunnel.ts: "A prompt left pending     *)
(* after the pane that would have answered it has gone is the leak").      *)
LeaverTakesQuestions ==
  [][\A c \in Present : Hears(c) /\ caller[c].here /\ ~caller'[c].here =>
       Queued' \cap (Of(caller[c].ride) \cup Of(c)) \subseteq stray]_vars

(* A question gets one answer: whoever leaves cannot reject what the user  *)
(* has trusted, and a connect comes through on trusted keys only (abandon  *)
(* "stops a second answer racing the first").                              *)
OneAnswer ==
  /\ \A q \in Question : ~({<<q, TRUE>>, <<q, FALSE>>} \subseteq answers)
  /\ \A h \in Handshake : handshake[h].at = "ended" /\ handshake[h].ok =>
       \A q \in Of(h) : <<q, FALSE>> \notin answers
============================================================================
