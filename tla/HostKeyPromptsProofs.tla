------------------------ MODULE HostKeyPromptsProofs ------------------------
(***************************************************************************)
(* HostKeyPrompts is proved here for every set of callers, dials and hops: *)
(* a paused handshake has a question somebody can answer, a question whose *)
(* connect is over is gone, it gets one answer, and whoever leaves takes   *)
(* the questions it waits behind along.                                    *)
(***************************************************************************)
EXTENDS HostKeyPrompts, TLAPS

CallerState ==
  [at : {"idle", "riding", "opening", "open", "failed", "over"}, here : BOOLEAN,
   ride : Dial \cup {NoDial}, told : SUBSET Question, armed : BOOLEAN, late : BOOLEAN]
HandshakeState ==
  [at : {"none", "shaking", "parked", "ended", "up"}, asks : SUBSET Hop, hop : Hop, ok : BOOLEAN]
FanoutState == [raised : SUBSET Question, watchers : SUBSET Caller]

(* The variables keep their types.                                         *)
Types ==
  /\ Present \subseteq Caller /\ caller \in [Present -> CallerState]
  /\ handshake \in [Handshake -> HandshakeState]
  /\ fanout \in [Dial -> FanoutState]
  /\ current \in Dial \cup {NoDial} /\ pinned \subseteq Hop
  /\ asking \subseteq Question /\ Queued \subseteq Question
  /\ confirms \subseteq Question \X BOOLEAN /\ answers \subseteq Question \X BOOLEAN

----------------------------------------------------------------------------
(* The backend and the queue.                                              *)

Asked == asking \cup Queued
Sent(q) == <<q, TRUE>> \in confirms \/ <<q, FALSE>> \in confirms
Yes(q) == <<q, TRUE>> \in confirms \cup answers
No(q) == <<q, FALSE>> \in confirms \cup answers

(* A connect comes through once, and a caller's own is never kept up.      *)
OkInv ==
  /\ \A h \in Handshake : handshake[h].ok = TRUE => handshake[h].at = "ended"
  /\ \A c \in Caller : handshake[c].at # "up"

(* A question is asked once, by the handshake that is paused on it or has  *)
(* failed since, and has no answer yet.                                    *)
AskedInv ==
  /\ asking \cap Queued = {}
  /\ \A q \in Asked :
       /\ handshake[q[1]].at \notin {"shaking", "up"} /\ handshake[q[1]].ok = FALSE
       /\ handshake[q[1]].at = "parked" => handshake[q[1]].hop = q[2]
       /\ ~Yes(q) /\ ~No(q)
       /\ \A r \in Asked : r[1] = q[1] => r = q

(* So is an answer under way.                                              *)
ConfirmInv ==
  \A q \in Question : Sent(q) =>
    /\ handshake[q[1]].at \notin {"shaking", "up"} /\ handshake[q[1]].ok = FALSE
    /\ handshake[q[1]].at = "parked" => handshake[q[1]].hop = q[2]

(* No question is both trusted and rejected.  A rejected one ends its      *)
(* connect; a trusted one is never asked of the connect again.             *)
AnswerInv ==
  \A q \in Question :
    /\ ~(Yes(q) /\ No(q))
    /\ <<q, TRUE>> \in answers \/ <<q, FALSE>> \in answers =>
         handshake[q[1]].at \notin {"none", "up"}
    /\ <<q, FALSE>> \in answers =>
         /\ handshake[q[1]].at # "shaking" /\ handshake[q[1]].ok = FALSE
         /\ handshake[q[1]].at = "parked" => handshake[q[1]].hop = q[2]
    /\ <<q, TRUE>> \in answers =>
         /\ handshake[q[1]].at = "shaking" => q[2] \notin handshake[q[1]].asks
         /\ handshake[q[1]].at = "parked" =>
              q[2] \notin handshake[q[1]].asks \/ handshake[q[1]].hop = q[2]

(* ParkedIsAsked, question by question.                                    *)
WaitInv ==
  \A h \in Handshake : handshake[h].at = "parked" =>
    <<h, handshake[h].hop>> \in Asked \/ Sent(<<h, handshake[h].hop>>)

BackendInv == OkInv /\ AskedInv /\ ConfirmInv /\ AnswerInv /\ WaitInv

----------------------------------------------------------------------------
(* The window: who waits behind which question.                            *)

Own(c) == Queued \cap Of(c)

(* A dial has announced what is on screen for it, to those who listen.     *)
RaisedInv ==
  \A d \in Dial :
    /\ Queued \cap Of(d) \subseteq fanout[d].raised /\ fanout[d].raised \subseteq Of(d)
    /\ \A c \in fanout[d].watchers : Hears(c)

(* Only callers that take part connect, tabs and rules by the shared dial  *)
(* alone, which is alive.                                                  *)
PresentInv ==
  /\ \A c \in Caller :
       handshake[c].at # "none" \/ (\E q \in Asked : q[1] = c) =>
         c \in Present /\ Kind[c] \notin {"tab", "rule"}
  /\ current # NoDial => handshake[current].at # "none"

(* The handshake of its own that a caller awaits, and the one it rides.    *)
AwaitsInv(c) ==
  /\ caller[c].at = "opening" <=> handshake[c].at # "none"
  /\ caller[c].at = "riding" =>
       /\ caller[c].ride # NoDial
       /\ \A q \in Of(c) : q \notin Asked /\ ~Sent(q)
  /\ caller[c].at = "riding" => Rides(c)
  /\ caller[c].at = "opening" => Kind[c] \in {"pane", "sshTest", "rdpTest"}
  /\ caller[c].ride # NoDial =>
       /\ handshake[caller[c].ride].at # "none"
       /\ caller[c].at # "riding" => handshake[caller[c].ride].at = "up"

(* Where a caller's flags may stand.                                       *)
StandsInv(c) ==
  /\ caller[c].at = "idle" => caller[c].here = FALSE
  /\ caller[c].at = "failed" =>
       Kind[c] = "pane" /\ caller[c].here = TRUE /\ caller[c].ride = NoDial
  /\ caller[c].at = "over" => caller[c].late = TRUE
  /\ caller[c].at = "open" => Kind[c] \in {"tab", "rule", "pane"}
  /\ caller[c].late = TRUE =>
       /\ caller[c].at \in {"opening", "over"} /\ caller[c].armed = FALSE
       /\ Kind[c] # "pane" /\ caller[c].ride = NoDial
  /\ caller[c].armed = TRUE =>
       /\ caller[c].at = "opening" /\ Kind[c] # "pane" /\ Own(c) = {}
       /\ Kind[c] = "sshTest" => caller[c].told = {}
  /\ Kind[c] = "sshTest" => caller[c].told \subseteq Of(c)

(* What a caller knows of the questions it waits behind: its own, unless   *)
(* it asked after its test was over or its pane had gone, and those of the *)
(* dial it rides.                                                          *)
KnowsInv(c) ==
  /\ Own(c) \subseteq caller[c].told \cup stray
  /\ caller[c].late = TRUE \/ (Kind[c] = "pane" /\ caller[c].here = FALSE) => Own(c) \subseteq stray
  /\ Hears(c) /\ caller[c].here = TRUE /\ caller[c].ride # NoDial =>
       Queued \cap Of(caller[c].ride) \subseteq caller[c].told
  /\ Hears(c) /\ caller[c].at = "riding" /\ handshake[caller[c].ride].at # "up" =>
       c \in fanout[caller[c].ride].watchers

WindowInv ==
  /\ RaisedInv /\ PresentInv /\ DeadQuestionsGo
  /\ \A c \in Present : AwaitsInv(c) /\ StandsInv(c) /\ KnowsInv(c)

IndInv == Types /\ BackendInv /\ WindowInv

----------------------------------------------------------------------------
(* A question is a handshake and a hop.                                    *)
LEMMA QuestionParts ==
  /\ \A q \in Question : q[1] \in Handshake /\ q[2] \in Hop /\ q = <<q[1], q[2]>>
  /\ \A h \in Handshake, i \in Hop :
       <<h, i>> \in Question /\ <<h, i>>[1] = h /\ <<h, i>>[2] = i
  /\ \A h \in Handshake : Of(h) \subseteq Question
  /\ \A h \in Handshake, q \in Question : q \in Of(h) <=> q[1] = h
BY DEF Question, Of

(* What ParkedIsAsked says of a question under way.                        *)
LEMMA SentIs ==
  ASSUME NEW q
  PROVE  {q} \X BOOLEAN \cap confirms # {} <=> Sent(q)
<1>1. Sent(q) => {q} \X BOOLEAN \cap confirms # {}
  BY DEF Sent
<1>2. ASSUME NEW a \in {q} \X BOOLEAN, a \in confirms PROVE Sent(q)
  <2>1. PICK accept \in BOOLEAN : a = <<q, accept>>
    OBVIOUS
  <2>2. CASE accept = TRUE
    BY <1>2, <2>1, <2>2 DEF Sent
  <2>3. CASE accept = FALSE
    BY <1>2, <2>1, <2>3 DEF Sent
  <2> QED BY <2>2, <2>3
<1> QED BY <1>1, <1>2

LEMMA WaitIs == WaitInv => ParkedIsAsked
BY SentIs DEF WaitInv, ParkedIsAsked, Asked

(* A handshake nothing refers to has no question and no answer.            *)
LEMMA ForgottenIs ==
  ASSUME NEW h \in Handshake, Forgotten(h)
  PROVE  handshake[h].at = "none" /\ \A q \in Of(h) : q \notin Asked /\ ~Sent(q)
BY SentIs DEF Forgotten, Asked

(* Confirm and Record, answer by answer.                                   *)
LEMMA ConfirmIs ==
  ASSUME NEW S, NEW accept \in BOOLEAN, Confirm(S, accept), NEW q
  PROVE  /\ <<q, TRUE>> \in confirms' <=> <<q, TRUE>> \in confirms \/ (q \in S /\ accept = TRUE)
         /\ <<q, FALSE>> \in confirms' <=> <<q, FALSE>> \in confirms \/ (q \in S /\ accept = FALSE)
BY DEF Confirm

LEMMA RecordIs ==
  ASSUME NEW S, NEW accept \in BOOLEAN, Record(S, accept), NEW q
  PROVE  /\ <<q, TRUE>> \in answers' <=>
              \/ <<q, TRUE>> \in answers
              \/ q \in S /\ accept = TRUE /\ handshake[q[1]].at # "none"
         /\ <<q, FALSE>> \in answers' <=>
              \/ <<q, FALSE>> \in answers
              \/ q \in S /\ accept = FALSE /\ handshake[q[1]].at # "none"
BY DEF Record

(* Forget drops the answers of one handshake.                              *)
LEMMA ForgetIs ==
  ASSUME Types, NEW h \in Handshake, Forget(h), NEW q \in Question
  PROVE  /\ <<q, TRUE>> \in answers' <=> <<q, TRUE>> \in answers /\ q[1] # h
         /\ <<q, FALSE>> \in answers' <=> <<q, FALSE>> \in answers /\ q[1] # h
BY QuestionParts DEF Forget, Types

(* The queue without S.                                                    *)
LEMMA UnqueueIs ==
  ASSUME NEW S, Unqueue(S)
  PROVE  Queued' = Queued \ S /\ stray' = stray \ S
BY DEF Unqueue, Queued

(* The queue with q at its end.                                            *)
LEMMA RaiseIs ==
  ASSUME NEW q, Raise(q)
  PROVE  /\ Queued' = Queued \cup {q}
         /\ stray' = stray \/ stray' = stray \cup {q}
         /\ handshake[q[1]].at \in {"none", "up"} => q \in stray'
         /\ q[1] \in Caller /\ caller[q[1]].late => q \in stray'
BY DEF Raise, enqueue, Queued

----------------------------------------------------------------------------
(* Questions of S are answered, once, while they are asked.                *)
LEMMA AnswersKeep ==
  ASSUME Types, BackendInv, handshake' = handshake,
         NEW S \in SUBSET Asked, NEW accept \in BOOLEAN, Confirm(S, accept),
         Record(S, accept) \/ answers' = answers,
         asking' \subseteq asking, Queued' \subseteq Queued, Asked' = Asked \ S
  PROVE  BackendInv'
<1>1. OkInv /\ AskedInv /\ ConfirmInv /\ AnswerInv /\ WaitInv
  BY DEF BackendInv
<1>2. Asked \subseteq Question /\ Asked' \subseteq Question
  BY DEF Types, Asked
<1>3. ASSUME NEW q \in Question
      PROVE  /\ Sent(q)' <=> Sent(q) \/ q \in S
             /\ Yes(q)' => Yes(q) \/ (q \in S /\ accept = TRUE)
             /\ No(q)' => No(q) \/ (q \in S /\ accept = FALSE)
             /\ <<q, TRUE>> \in answers' =>
                  \/ <<q, TRUE>> \in answers
                  \/ q \in S /\ accept = TRUE /\ handshake[q[1]].at # "none"
             /\ <<q, FALSE>> \in answers' =>
                  \/ <<q, FALSE>> \in answers
                  \/ q \in S /\ accept = FALSE /\ handshake[q[1]].at # "none"
  BY ConfirmIs, RecordIs DEF Sent, Yes, No
<1>4. OkInv'
  BY <1>1 DEF OkInv
<1>5. AskedInv'
  <2>1. asking' \cap Queued' = {}
    BY <1>1 DEF AskedInv
  <2>2. \A q \in Asked' : q \in Asked /\ q \in Question /\ q \notin S
    BY <1>2
  <2> QED
    BY <1>1, <1>3, <2>1, <2>2 DEF AskedInv
<1>6. ConfirmInv'
  BY <1>1, <1>3 DEF ConfirmInv, AskedInv
<1>7. AnswerInv'
  BY <1>1, <1>3 DEF AnswerInv, AskedInv
<1>8. WaitInv'
  <2> SUFFICES ASSUME NEW h \in Handshake, handshake[h].at = "parked"
               PROVE  <<h, handshake[h].hop>> \in Asked' \/ Sent(<<h, handshake[h].hop>>)'
    BY DEF WaitInv
  <2>1. <<h, handshake[h].hop>> \in Question
    BY QuestionParts DEF Types, HandshakeState
  <2> QED
    BY <1>1, <1>3, <2>1 DEF WaitInv
<1> QED
  BY <1>4, <1>5, <1>6, <1>7, <1>8 DEF BackendInv

(* Nothing of the backend or the queue moves.                              *)
LEMMA BackendQuiet ==
  ASSUME BackendInv, UNCHANGED <<handshake, confirms, answers>>, asking' = asking,
         Queued' = Queued
  PROVE  BackendInv'
BY DEF BackendInv, OkInv, AskedInv, ConfirmInv, AnswerInv, WaitInv, Asked, Sent, Yes, No


----------------------------------------------------------------------------
(* The types of what the actions assign.                                   *)
LEMMA StatesType ==
  /\ NoHandshake \in HandshakeState /\ Up \in HandshakeState
  /\ \A asks \in SUBSET Hop : Shaking(asks) \in HandshakeState
  /\ \A c \in Caller : OwnHandshake(c) \in HandshakeState
  /\ Idle \in CallerState
  /\ NoFanout \in FanoutState
<1> USE PromptsAssumption
<1>1. NoHandshake \in HandshakeState
  BY DEF NoHandshake, HandshakeState
<1>2. Up \in HandshakeState
  BY <1>1 DEF Up, HandshakeState
<1>3. \A asks \in SUBSET Hop : Shaking(asks) \in HandshakeState
  BY <1>1 DEF Shaking, HandshakeState
<1>4. \A c \in Caller : OwnHandshake(c) \in HandshakeState
  BY <1>3 DEF OwnHandshake
<1>5. Idle \in CallerState
  BY DEF Idle, CallerState
<1>6. NoFanout \in FanoutState
  BY DEF NoFanout, FanoutState
<1> QED BY <1>1, <1>2, <1>3, <1>4, <1>5, <1>6

(* Only a caller's state changes, or only that of several.                 *)
LEMMA AnswersType ==
  ASSUME Types, NEW S \in SUBSET Question, NEW accept \in BOOLEAN
  PROVE  /\ Confirm(S, accept) => confirms' \subseteq Question \X BOOLEAN
         /\ Record(S, accept) => answers' \subseteq Question \X BOOLEAN
BY DEF Types, Confirm, Record

LEMMA InitIndInv == Init => IndInv
<1> SUFFICES ASSUME Init PROVE IndInv
  OBVIOUS
<1>1. PICK cast \in Casts : caller = [c \in cast |-> Idle]
  BY DEF Init
<1>2. Present = cast /\ Queued = {} /\ cast \subseteq Caller
  BY <1>1, PromptsAssumption DEF Init, Present, Queued
<1>3. Types
  BY <1>1, <1>2, StatesType DEF Init, Types
<1>4. /\ \A h \in Handshake : handshake[h].at = "none" /\ handshake[h].ok = FALSE
      /\ Caller \subseteq Handshake
  BY DEF Init, NoHandshake, Handshake
<1>5. Asked = {} /\ confirms = {} /\ answers = {}
  BY <1>2 DEF Init, Asked
<1>6. BackendInv
  BY <1>2, <1>4, <1>5 DEF BackendInv, OkInv, AskedInv, ConfirmInv, AnswerInv, WaitInv,
     Sent, Yes,
     No, Init
<1>7. RaisedInv /\ PresentInv /\ DeadQuestionsGo
  BY <1>2, <1>4, <1>5 DEF Init, RaisedInv, PresentInv, DeadQuestionsGo, NoFanout
<1>8. ASSUME NEW c \in Present PROVE AwaitsInv(c) /\ StandsInv(c) /\ KnowsInv(c)
  <2>1. /\ caller[c].at = "idle" /\ caller[c].here = FALSE /\ caller[c].ride = NoDial
        /\ caller[c].told = {} /\ caller[c].armed = FALSE /\ caller[c].late = FALSE
    BY <1>1, <1>2, <1>8 DEF Idle
  <2>2. handshake[c].at = "none" /\ Own(c) = {}
    BY <1>2, <1>4, <1>8 DEF Own
  <2> QED
    BY <2>1, <2>2 DEF AwaitsInv, StandsInv, KnowsInv
<1> QED
  BY <1>3, <1>6, <1>7, <1>8 DEF IndInv, WindowInv

(* Every step keeps the types.                                             *)
LEMMA TypesStep == Types /\ [Next]_vars => Types'
<1> SUFFICES ASSUME Types, [Next]_vars PROVE Types'
  OBVIOUS
<1> USE PromptsAssumption, StatesType
<1>0. /\ Caller \subseteq Handshake /\ Dial \subseteq Handshake
      /\ Present \subseteq Caller /\ Present' = DOMAIN caller'
      /\ asking \subseteq Question /\ Queued \subseteq Question
      /\ \A c \in Present : caller[c] \in CallerState
      /\ \A h \in Handshake : handshake[h] \in HandshakeState
      /\ \A d \in Dial : fanout[d] \in FanoutState
  BY DEF Types, Handshake, Present
<1>1. CASE UNCHANGED vars
  BY <1>1 DEF vars, Types, Present, Queued
<1>2. ASSUME NEW q \in Queued, NEW accept \in BOOLEAN, resolve(q, accept) PROVE Types'
  <2>1. confirms' \subseteq Question \X BOOLEAN /\ answers' \subseteq Question \X BOOLEAN
    BY <1>0, <1>2, AnswersType DEF resolve
  <2>2. Queued' \subseteq Question
    BY <1>0, <1>2, UnqueueIs DEF resolve
  <2>3. pinned' \subseteq Hop
    BY <1>0, <1>2, QuestionParts DEF resolve, Types
  <2> QED
    BY <1>2, <2>1, <2>2, <2>3 DEF resolve, Types, Present
<1>3. CASE releaseSession
  BY <1>0, <1>3 DEF releaseSession, Types, Present, Queued
<1>4. ASSUME NEW c \in Present, open(c) PROVE Types'
  <2>1. UNCHANGED <<pinned, asking, queue, confirms, answers, stray>>
    BY <1>4 DEF open
  <2> DEFINE Good == /\ Present' = Present /\ caller' \in [Present -> CallerState]
                     /\ handshake' \in [Handshake -> HandshakeState]
                     /\ fanout' \in [Dial -> FanoutState] /\ current' \in Dial \cup {NoDial}
  <2>2. Good
    <3>1. CASE ~Rides(c)
      <4>1. /\ caller' = [caller EXCEPT ![c] =
                 [Idle EXCEPT !.at = "opening", !.here = TRUE, !.armed = Kind[c] # "pane"]]
            /\ handshake' = [handshake EXCEPT ![c] = OwnHandshake(c)]
            /\ UNCHANGED <<fanout, current>>
        BY <1>4, <3>1 DEF open
      <4>2. [Idle EXCEPT !.at = "opening", !.here = TRUE, !.armed = Kind[c] # "pane"]
              \in CallerState
        BY DEF CallerState
      <4> QED BY <1>0, <4>1, <4>2 DEF Types, Present
    <3>2. ASSUME NEW d \in Dial, watchDial(d, c), UNCHANGED <<handshake, current>> PROVE Good
      <4> DEFINE watches == handshake[d].at # "up" /\ Hears(c)
                 told == IF watches THEN fanout[d].raised \cap Queued ELSE {}
                 now == [Idle EXCEPT !.at = "riding", !.here = TRUE, !.ride = d, !.told = told]
      <4>1. caller' = [caller EXCEPT ![c] = now]
        BY <3>2 DEF watchDial
      <4>2. told \in SUBSET Question
        BY <1>0
      <4> HIDE DEF told
      <4>3. now \in CallerState
        BY <4>2 DEF CallerState
      <4> HIDE DEF now
      <4>4. fanout' \in [Dial -> FanoutState]
        <5> DEFINE watched == [fanout[d] EXCEPT !.watchers = @ \cup {c}]
        <5>1. watched \in FanoutState
          BY <1>0 DEF FanoutState
        <5>2. fanout' = fanout \/ fanout' = [fanout EXCEPT ![d] = watched]
          BY <3>2 DEF watchDial, Types
        <5> HIDE DEF watched
        <5> QED BY <5>1, <5>2 DEF Types
      <4>5. Present' = Present /\ caller' \in [Present -> CallerState]
        BY <1>0, <4>1, <4>3 DEF Types
      <4>6. handshake' \in [Handshake -> HandshakeState] /\ current' \in Dial \cup {NoDial}
        BY <3>2 DEF Types
      <4> QED BY <4>4, <4>5, <4>6
    <3>3. ASSUME NEW d \in Dial,
                 current' = d,
                 handshake' = [handshake EXCEPT ![d] = Shaking(Hop \ pinned)],
                 fanout' = [fanout EXCEPT ![d] = [NoFanout EXCEPT !.watchers =
                                                    IF Hears(c) THEN {c} ELSE {}]],
                 caller' = [caller EXCEPT ![c] =
                              [Idle EXCEPT !.at = "riding", !.here = TRUE, !.ride = d]]
          PROVE Good
      <4>1. [Idle EXCEPT !.at = "riding", !.here = TRUE, !.ride = d] \in CallerState
        BY DEF CallerState
      <4>2. [NoFanout EXCEPT !.watchers = IF Hears(c) THEN {c} ELSE {}] \in FanoutState
        BY <1>0 DEF FanoutState
      <4> QED BY <1>0, <3>3, <4>1, <4>2 DEF Types, Present
    <3> QED
      BY <1>4, <3>1, <3>2, <3>3 DEF open, sessionFor, Types
  <2> QED BY <2>1, <2>2 DEF Types, Queued
<1>5. ASSUME NEW c \in Present, rideEnds(c) PROVE Types'
  <2> DEFINE armed == Kind[c] = "rdpTest"
  <2>1. [caller[c] EXCEPT !.at = "opening", !.armed = armed] \in CallerState
    BY <1>0 DEF CallerState
  <2>2. [caller[c] EXCEPT !.at = "open", !.told = {}] \in CallerState
    BY <1>0 DEF CallerState
  <2>3. \/ /\ caller' = [caller EXCEPT ![c].at = "opening", ![c].armed = armed]
           /\ handshake' = [handshake EXCEPT ![c] = OwnHandshake(c)]
        \/ /\ caller' = [caller EXCEPT ![c].at = "open", ![c].told = {}]
           /\ handshake' = handshake
        \/ /\ caller' = [caller EXCEPT ![c] = Idle]
           /\ handshake' = handshake
    BY <1>5 DEF rideEnds
  <2>4. UNCHANGED <<fanout, current, pinned, asking, queue, confirms, answers, stray>>
    BY <1>5 DEF rideEnds
  <2>5. handshake' \in [Handshake -> HandshakeState]
    BY <1>0, <2>3 DEF Types
  <2> HIDE DEF armed
  <2>6. /\ [caller EXCEPT ![c].at = "opening", ![c].armed = armed]
             = [caller EXCEPT ![c] = [caller[c] EXCEPT !.at = "opening", !.armed = armed]]
        /\ [caller EXCEPT ![c].at = "open", ![c].told = {}]
             = [caller EXCEPT ![c] = [caller[c] EXCEPT !.at = "open", !.told = {}]]
    BY DEF Types
  <2>7. Present' = Present /\ caller' \in [Present -> CallerState]
    BY <1>0, <2>1, <2>2, <2>3, <2>6 DEF Types
  <2> QED BY <2>4, <2>5, <2>7 DEF Types, Queued
<1>6. ASSUME NEW h \in Handshake, check_server_key(h) PROVE Types'
  <2>1. UNCHANGED <<caller, fanout, current, pinned, queue, confirms, answers, stray>>
    BY <1>6 DEF check_server_key
  <2>2. CASE handshake[h].asks = {}
    <3>1. [handshake[h] EXCEPT !.at = "ended", !.ok = TRUE] \in HandshakeState
      BY <1>0 DEF HandshakeState
    <3>2. handshake' = [handshake EXCEPT ![h] = [handshake[h] EXCEPT !.at = "ended", !.ok = TRUE]]
          /\ asking' = asking
      BY <1>6, <2>2 DEF check_server_key, Types
    <3> QED BY <2>1, <3>1, <3>2 DEF Types, Present, Queued
  <2>3. CASE handshake[h].asks # {}
    <3>1. PICK hop \in handshake[h].asks :
            /\ handshake' = [handshake EXCEPT ![h].at = "parked", ![h].hop = hop]
            /\ asking' = asking \cup {<<h, hop>>}
      BY <1>6, <2>3 DEF check_server_key
    <3>2. hop \in Hop
      BY <1>0 DEF HandshakeState
    <3>3. [handshake[h] EXCEPT !.at = "parked", !.hop = hop] \in HandshakeState
      BY <1>0, <3>2 DEF HandshakeState
    <3>4. handshake' = [handshake EXCEPT ![h] = [handshake[h] EXCEPT !.at = "parked", !.hop = hop]]
      BY <3>1 DEF Types
    <3>5. asking' \subseteq Question
      BY <1>0, <3>1, <3>2, QuestionParts
    <3> QED BY <2>1, <3>3, <3>4, <3>5 DEF Types, Present, Queued
  <2> QED BY <2>2, <2>3
<1>7. ASSUME NEW h \in Handshake, connectFails(h) PROVE Types'
  <2>1. [handshake[h] EXCEPT !.at = "ended"] \in HandshakeState
    BY <1>0 DEF HandshakeState
  <2>2. handshake' = [handshake EXCEPT ![h] = [handshake[h] EXCEPT !.at = "ended"]]
    BY <1>7 DEF connectFails, Types
  <2> QED BY <1>7, <2>1, <2>2 DEF connectFails, Types, Present, Queued
<1>8. ASSUME NEW q \in Question, NEW accept \in BOOLEAN, confirm_host_key(q, accept) PROVE Types'
  <2> DEFINE h == q[1]
  <2>0. h \in Handshake
    BY QuestionParts
  <2>1. Shaking(handshake[h].asks \ {q[2]}) \in HandshakeState
    <3>1. handshake[h].asks \ {q[2]} \in SUBSET Hop
      BY <1>0, <2>0 DEF HandshakeState
    <3> QED BY <3>1
  <2>2. [handshake[h] EXCEPT !.at = "ended"] \in HandshakeState
    BY <1>0, <2>0 DEF HandshakeState
  <2>3. \/ handshake' = handshake
        \/ handshake' = [handshake EXCEPT ![h] = Shaking(handshake[h].asks \ {q[2]})]
        \/ handshake' = [handshake EXCEPT ![h] = [handshake[h] EXCEPT !.at = "ended"]]
    <3>1. CASE handshake[h].at = "parked" /\ handshake[h].hop = q[2] /\ accept = TRUE
      BY <1>8, <3>1 DEF confirm_host_key
    <3>2. CASE handshake[h].at = "parked" /\ handshake[h].hop = q[2] /\ accept = FALSE
      BY <1>8, <3>2 DEF confirm_host_key
    <3>3. CASE ~(handshake[h].at = "parked" /\ handshake[h].hop = q[2])
      BY <1>8, <3>3 DEF confirm_host_key
    <3> QED BY <3>1, <3>2, <3>3
  <2>4. handshake' \in [Handshake -> HandshakeState]
    BY <2>0, <2>1, <2>2, <2>3 DEF Types
  <2>5. confirms' \subseteq Question \X BOOLEAN
    BY <1>8 DEF confirm_host_key, Types
  <2>6. UNCHANGED <<caller, fanout, current, pinned, asking, queue, answers, stray>>
    BY <1>8 DEF confirm_host_key
  <2> QED BY <2>4, <2>5, <2>6 DEF Types, Present, Queued
<1>9. ASSUME NEW q \in asking, onHostKeyPrompt(q) PROVE Types'
  <2> DEFINE h == q[1]
  <2>0. h \in Handshake /\ q \in Question
    BY <1>0, QuestionParts
  <2>1. asking' \subseteq Question /\ UNCHANGED <<handshake, current, pinned>>
    BY <1>0, <1>9 DEF onHostKeyPrompt
  <2>2. CASE h \in Dial
    <3>1. /\ fanout' = [fanout EXCEPT ![h].raised = @ \cup {q}]
          /\ caller' = [c \in Present |-> IF c \in fanout[h].watchers
                          THEN [caller[c] EXCEPT !.told = @ \cup {q}] ELSE caller[c]]
          /\ Raise(q) /\ UNCHANGED <<confirms, answers>>
      BY <1>9, <2>2 DEF onHostKeyPrompt
    <3>2. Queued' \subseteq Question
      BY <1>0, <2>0, <3>1, RaiseIs
    <3>3. Present' = Present /\ caller' \in [Present -> CallerState]
      <4>1. ASSUME NEW c \in Present
            PROVE  [caller[c] EXCEPT !.told = @ \cup {q}] \in CallerState
        BY <1>0, <2>0 DEF CallerState
      <4> QED BY <1>0, <3>1, <4>1
    <3>4. fanout' \in [Dial -> FanoutState]
      <4>1. [fanout[h] EXCEPT !.raised = @ \cup {q}] \in FanoutState
        BY <1>0, <2>0, <2>2 DEF FanoutState
      <4>2. fanout' = [fanout EXCEPT ![h] = [fanout[h] EXCEPT !.raised = @ \cup {q}]]
        BY <2>2, <3>1 DEF Types
      <4> QED BY <2>2, <4>1, <4>2 DEF Types
    <3> QED BY <2>1, <3>1, <3>2, <3>3, <3>4 DEF Types
  <2>3. CASE h \notin Dial /\ Kind[h] = "pane" /\ ~caller[h].here
    <3>1. Confirm({q}, FALSE) /\ Record({q}, FALSE) /\ UNCHANGED <<fanout, caller, queue, stray>>
      BY <1>9, <2>3 DEF onHostKeyPrompt
    <3>2. confirms' \subseteq Question \X BOOLEAN /\ answers' \subseteq Question \X BOOLEAN
      <4>1. {q} \in SUBSET Question /\ FALSE \in BOOLEAN
        BY <2>0
      <4> QED BY <3>1, <4>1, AnswersType
    <3>3. Present' = Present /\ Queued' = Queued /\ caller' = caller /\ fanout' = fanout
      BY <3>1 DEF Present, Queued
    <3> QED BY <2>1, <3>2, <3>3 DEF Types
  <2>4. CASE h \notin Dial /\ ~(Kind[h] = "pane" /\ ~caller[h].here)
    <3> DEFINE told == IF Kind[h] = "sshTest" THEN {q} ELSE caller[h].told \cup {q}
    <3>1. /\ caller' = [caller EXCEPT ![h].armed = FALSE,
                          ![h].told = IF Kind[h] = "sshTest" THEN {q} ELSE @ \cup {q}]
          /\ Raise(q) /\ UNCHANGED <<fanout, confirms, answers>>
      BY <1>9, <2>4 DEF onHostKeyPrompt
    <3>2. Queued' \subseteq Question
      BY <1>0, <2>0, <3>1, RaiseIs
    <3>3. Present' = Present /\ caller' \in [Present -> CallerState]
      <4>1. CASE h \in Present
        <5>1. told \in SUBSET Question
          BY <1>0, <2>0, <4>1 DEF CallerState
        <5>2. caller' = [caller EXCEPT ![h] =
                           [caller[h] EXCEPT !.armed = FALSE, !.told = told]]
          BY <3>1, <4>1 DEF Types
        <5> HIDE DEF told
        <5>3. [caller[h] EXCEPT !.armed = FALSE, !.told = told] \in CallerState
          BY <1>0, <4>1, <5>1 DEF CallerState
        <5> QED BY <1>0, <4>1, <5>2, <5>3 DEF Types
      <4>2. CASE h \notin Present
        <5>1. caller' = caller
          BY <3>1, <4>2 DEF Types
        <5> QED BY <5>1 DEF Types, Present
      <4> QED BY <4>1, <4>2
    <3> QED BY <2>1, <3>1, <3>2, <3>3 DEF Types
  <2> QED BY <2>2, <2>3, <2>4
<1>10. ASSUME NEW d \in Dial, dialSettles(d) PROVE Types'
  <2>1. UNCHANGED <<pinned, asking, confirms>>
    BY <1>10 DEF dialSettles, dismiss
  <2>2. answers' \subseteq Question \X BOOLEAN
    BY <1>10 DEF dialSettles, Forget, Types
  <2>3. Queued' \subseteq Question
    <3> DEFINE S == IF handshake[d].ok THEN {} ELSE fanout[d].raised
    <3>1. Unqueue(S)
      BY <1>10 DEF dialSettles, dismiss
    <3> HIDE DEF S
    <3> QED BY <1>0, <3>1, UnqueueIs
  <2>4. handshake' \in [Handshake -> HandshakeState] /\ current' \in Dial \cup {NoDial}
    BY <1>0, <1>10 DEF dialSettles, Types
  <2>5. fanout' \in [Dial -> FanoutState]
    <3>1. [fanout[d] EXCEPT !.watchers = {}] \in FanoutState
      BY <1>0 DEF FanoutState
    <3>2. fanout' = [fanout EXCEPT ![d] = [fanout[d] EXCEPT !.watchers = {}]]
      BY <1>10 DEF dialSettles, Types
    <3> QED BY <3>1, <3>2 DEF Types
  <2>6. Present' = Present /\ caller' \in [Present -> CallerState]
    <3>1. \A c \in Present : [caller[c] EXCEPT !.at = "failed", !.ride = NoDial] \in CallerState
      BY <1>0 DEF CallerState
    <3> QED BY <1>0, <1>10, <3>1 DEF dialSettles
  <2> QED BY <2>1, <2>2, <2>3, <2>4, <2>5, <2>6 DEF Types
<1>11. ASSUME NEW c \in Present, TestEnds(c) \/ UNCHANGED <<queue, confirms, stray>>
       PROVE  confirms' \subseteq Question \X BOOLEAN /\ Queued' \subseteq Question
  <2>1. CASE TestEnds(c) /\ Kind[c] = "sshTest"
    BY <1>0, <2>1, UnqueueIs DEF TestEnds, dismiss, Types
  <2>2. CASE TestEnds(c) /\ Kind[c] # "sshTest"
    <3>1. caller[c].told \cap Queued \in SUBSET Question
      BY <1>0
    <3>2. Confirm(caller[c].told \cap Queued, FALSE) /\ Unqueue(caller[c].told)
      BY <2>2 DEF TestEnds
    <3>3. confirms' \subseteq Question \X BOOLEAN
      BY <3>1, <3>2, AnswersType
    <3>4. Queued' \subseteq Question
      BY <1>0, <3>2, UnqueueIs
    <3> QED BY <3>3, <3>4
  <2>3. CASE UNCHANGED <<queue, confirms, stray>>
    BY <2>3 DEF Types, Queued
  <2> QED BY <1>11, <2>1, <2>2, <2>3
<1>12. ASSUME NEW c \in Present, opened(c) PROVE Types'
  <2>1. UNCHANGED <<fanout, current, pinned, asking>>
    BY <1>12 DEF opened
  <2>2. answers' \subseteq Question \X BOOLEAN
    BY <1>12 DEF opened, Forget, Types
  <2>3. TestEnds(c) \/ UNCHANGED <<queue, confirms, stray>>
    BY <1>12 DEF opened
  <2>4. handshake' \in [Handshake -> HandshakeState]
    BY <1>0, <1>12 DEF opened, Types
  <2>5. /\ [caller[c] EXCEPT !.at = "over"] \in CallerState
        /\ [caller[c] EXCEPT !.at = "open"] \in CallerState
        /\ [caller[c] EXCEPT !.at = "failed", !.ride = NoDial] \in CallerState
    BY <1>0 DEF CallerState
  <2>6. \E new \in CallerState : caller' = [caller EXCEPT ![c] = new]
    <3>1. \E new \in {Idle, [caller[c] EXCEPT !.at = "over"], [caller[c] EXCEPT !.at = "open"],
                      [caller[c] EXCEPT !.at = "failed", !.ride = NoDial]} :
            caller' = [caller EXCEPT ![c] = new]
      BY <1>0, <1>12 DEF opened, Types
    <3> QED BY <2>5, <3>1
  <2> QED BY <1>11, <2>1, <2>2, <2>3, <2>4, <2>6 DEF Types, Present
<1>13. ASSUME NEW c \in Present, deadline(c) PROVE Types'
  <2>1. UNCHANGED <<handshake, fanout, current, pinned, asking, answers>> /\ TestEnds(c)
    BY <1>13 DEF deadline
  <2>2. [caller[c] EXCEPT !.armed = FALSE, !.late = TRUE, !.told = {}, !.ride = NoDial]
          \in CallerState
    BY <1>0 DEF CallerState
  <2>3. caller' = [caller EXCEPT ![c] =
          [caller[c] EXCEPT !.armed = FALSE, !.late = TRUE, !.told = {}, !.ride = NoDial]]
    BY <1>13 DEF deadline, Types
  <2> QED BY <1>11, <2>1, <2>2, <2>3 DEF Types, Present
<1>14. ASSUME NEW c \in Present, leave(c) PROVE Types'
  <2>1. UNCHANGED <<handshake, fanout, current, pinned, asking>>
    BY <1>14 DEF leave
  <2>2. \E new \in CallerState : caller' = [caller EXCEPT ![c] = new]
    <3> DEFINE told == IF Hears(c) THEN {} ELSE caller[c].told
               ride == IF Kind[c] = "pane" /\ caller[c].at = "opening" THEN NoDial ELSE caller[c].ride
    <3>1. told \in SUBSET Question /\ ride \in Dial \cup {NoDial}
      BY <1>0 DEF CallerState
    <3>2. \/ caller' = [caller EXCEPT ![c] = Idle]
          \/ caller' = [caller EXCEPT ![c] =
                          [caller[c] EXCEPT !.here = FALSE, !.told = told, !.ride = ride]]
      <4>1. CASE caller[c].at \in {"open", "failed", "over"}
        BY <1>14, <4>1 DEF leave
      <4>2. CASE caller[c].at \notin {"open", "failed", "over"}
        BY <1>14, <4>2 DEF leave
      <4> QED BY <4>1, <4>2
    <3> HIDE DEF told, ride
    <3>3. [caller[c] EXCEPT !.here = FALSE, !.told = told, !.ride = ride] \in CallerState
      BY <1>0, <3>1 DEF CallerState
    <3> QED BY <3>2, <3>3
  <2>3. CASE Hears(c)
    <3>1. abandon(caller[c].told)
      BY <1>14, <2>3 DEF leave
    <3>2. caller[c].told \cap Queued \in SUBSET Question
      BY <1>0
    <3>3. confirms' \subseteq Question \X BOOLEAN /\ answers' \subseteq Question \X BOOLEAN
      BY <3>1, <3>2, AnswersType DEF abandon
    <3>4. Queued' \subseteq Question
      BY <1>0, <3>1, UnqueueIs DEF abandon
    <3> QED BY <2>1, <2>2, <3>3, <3>4 DEF Types, Present
  <2>4. CASE ~Hears(c)
    BY <1>14, <2>1, <2>2, <2>4 DEF leave, Types, Present, Queued
  <2> QED BY <2>3, <2>4
<1>15. \A a \in confirms : a[1] \in Question /\ a[2] \in BOOLEAN
  BY DEF Types
<1> QED
  BY <1>1, <1>2, <1>3, <1>4, <1>5, <1>6, <1>7, <1>8, <1>9, <1>10, <1>12, <1>13, <1>14, <1>15
  DEF Next

----------------------------------------------------------------------------
(* The backend, handshake by handshake.                                    *)
OnlyChanges(h) == \A g \in Handshake : g # h => handshake'[g] = handshake[g]

(* A connect that has ended is heard of: it is up, or nothing is left of   *)
(* it.  Its questions S go, those of T with a rejection.                   *)
LEMMA SettleKeeps ==
  ASSUME Types, Types', BackendInv, NEW h \in Handshake, OnlyChanges(h),
         handshake[h].at = "ended", handshake'[h].ok = FALSE,
         \/ handshake'[h].at = "none"
         \/ handshake'[h].at = "up" /\ h \in Dial /\ handshake[h].ok = TRUE,
         Forget(h), asking' = asking,
         NEW S, NEW T \in SUBSET (S \cap Queued), Queued' = Queued \ S,
         (S \cap Queued) \ T \subseteq Of(h), Confirm(T, FALSE)
  PROVE  BackendInv'
<1>1. OkInv /\ AskedInv /\ ConfirmInv /\ AnswerInv /\ WaitInv
  BY DEF BackendInv
<1>2. /\ Asked \subseteq Question /\ Asked' \subseteq Asked
      /\ T \subseteq Asked /\ T \cap Queued' = {} /\ T \subseteq Queued
  BY DEF Types, Asked
<1>3. ASSUME NEW q \in Question
      PROVE  /\ Sent(q)' <=> Sent(q) \/ q \in T
             /\ Yes(q)' => Yes(q)
             /\ No(q)' => No(q) \/ q \in T
             /\ <<q, TRUE>> \in answers' => <<q, TRUE>> \in answers /\ q[1] # h
             /\ <<q, FALSE>> \in answers' => <<q, FALSE>> \in answers /\ q[1] # h
  BY ConfirmIs, ForgetIs DEF Sent, Yes, No
<1>4. OkInv'
  BY <1>1, PromptsAssumption DEF OkInv, OnlyChanges, Handshake
<1>5. T \cap Asked' = {}
  BY <1>1, <1>2 DEF AskedInv, Asked
<1>6. \A q \in Question : q[1] \in Handshake
  BY QuestionParts
<1>7. AskedInv'
  <2>1. asking' \cap Queued' = {}
    BY <1>1 DEF AskedInv
  <2> SUFFICES ASSUME NEW q \in Asked'
               PROVE  /\ handshake'[q[1]].at \notin {"shaking", "up"} /\ handshake'[q[1]].ok = FALSE
                      /\ handshake'[q[1]].at = "parked" => handshake'[q[1]].hop = q[2]
                      /\ ~Yes(q)' /\ ~No(q)'
                      /\ \A r \in Asked' : r[1] = q[1] => r = q
    BY <2>1 DEF AskedInv
  <2>2. q \in Asked /\ q \in Question /\ q \notin T /\ q[1] \in Handshake
    BY <1>2, <1>5, <1>6
  <2>3. ~Yes(q)' /\ ~No(q)' /\ \A r \in Asked' : r[1] = q[1] => r = q
    BY <1>1, <1>2, <1>3, <2>2 DEF AskedInv
  <2>4. /\ handshake[q[1]].at \notin {"shaking", "up"} /\ handshake[q[1]].ok = FALSE
        /\ handshake[q[1]].at = "parked" => handshake[q[1]].hop = q[2]
    BY <1>1, <2>2 DEF AskedInv
  <2> QED BY <2>2, <2>3, <2>4 DEF OnlyChanges
<1>8. ConfirmInv'
  BY <1>1, <1>2, <1>3, <1>6 DEF ConfirmInv, AskedInv, OnlyChanges
<1>9. AnswerInv'
  BY <1>1, <1>2, <1>3, <1>6 DEF AnswerInv, AskedInv, OnlyChanges
<1>10. WaitInv'
  <2> SUFFICES ASSUME NEW g \in Handshake, handshake'[g].at = "parked"
               PROVE  (<<g, handshake[g].hop>> \in Asked \/ Sent(<<g, handshake[g].hop>>))'
    BY DEF WaitInv
  <2> DEFINE q == <<g, handshake[g].hop>>
  <2>1. g # h /\ handshake'[g] = handshake[g]
    BY DEF OnlyChanges
  <2>2. q \in Question /\ q[1] = g
    BY QuestionParts DEF Types, HandshakeState
  <2>3. q \in Asked \/ Sent(q)
    BY <1>1, <2>1 DEF WaitInv
  <2>4. q \notin Of(h)
    BY <2>1, <2>2, QuestionParts
  <2>5. q \in Asked => q \in Asked' \/ q \in T
    BY <2>4 DEF Asked
  <2> QED BY <1>3, <2>1, <2>2, <2>3, <2>5
<1> QED
  BY <1>4, <1>7, <1>8, <1>9, <1>10 DEF BackendInv

(* Nothing was asked of h: it goes up or down, begins, or comes through.   *)
LEMMA UnaskedKeeps ==
  ASSUME Types, Types', BackendInv, NEW h \in Handshake, OnlyChanges(h),
         UNCHANGED <<confirms, answers>>, asking' = asking, Queued' = Queued,
         \A q \in Of(h) : q \notin Asked /\ ~Sent(q),
         \/ handshake[h].at = "up" /\ handshake'[h].at = "none" /\ handshake'[h].ok = FALSE
         \/ handshake[h].at = "none" /\ handshake'[h].at = "shaking" /\ handshake'[h].ok = FALSE
         \/ handshake[h].at = "shaking" /\ handshake'[h].at = "ended"
  PROVE  BackendInv'
<1>1. OkInv /\ AskedInv /\ ConfirmInv /\ AnswerInv /\ WaitInv
  BY DEF BackendInv
<1>2. Asked \subseteq Question /\ Asked' = Asked
  BY DEF Types, Asked
<1>3. \A q : Sent(q)' = Sent(q) /\ Yes(q)' = Yes(q) /\ No(q)' = No(q)
  BY DEF Sent, Yes, No
<1>4. \A q \in Question : /\ q[1] \in Handshake
                          /\ q[1] = h => q \notin Asked /\ ~Sent(q)
  BY QuestionParts
<1>5. OkInv'
  BY <1>1, PromptsAssumption DEF OkInv, OnlyChanges, Handshake
<1>6. AskedInv'
  <2>1. \A q \in Asked : q \in Question /\ handshake'[q[1]] = handshake[q[1]]
    BY <1>2, <1>4 DEF OnlyChanges
  <2>2. asking' \cap Queued' = {}
    BY <1>1 DEF AskedInv
  <2> QED BY <1>1, <1>2, <1>3, <2>1, <2>2 DEF AskedInv
<1>7. ConfirmInv'
  BY <1>1, <1>3, <1>4 DEF ConfirmInv, OnlyChanges
<1>8. AnswerInv'
  BY <1>1, <1>3, <1>4 DEF AnswerInv, OnlyChanges
<1>9. WaitInv'
  BY <1>1, <1>2, <1>3 DEF WaitInv, OnlyChanges
<1> QED
  BY <1>5, <1>6, <1>7, <1>8, <1>9 DEF BackendInv

(* The handshake fails.                                                    *)
LEMMA FailKeeps ==
  ASSUME Types, Types', BackendInv, NEW h \in Handshake, connectFails(h)
  PROVE  BackendInv'
<1>1. OkInv /\ AskedInv /\ ConfirmInv /\ AnswerInv /\ WaitInv
  BY DEF BackendInv
<1>2. /\ OnlyChanges(h) /\ handshake'[h].at = "ended" /\ handshake'[h].ok = handshake[h].ok
      /\ handshake[h].ok = FALSE
  BY <1>1 DEF connectFails, Types, OnlyChanges, OkInv, HandshakeState
<1>3. Asked \subseteq Question /\ Asked' = Asked /\ Queued' = Queued /\ asking' = asking
  BY DEF Types, Asked, connectFails, Queued
<1>4. \A q : /\ Sent(q)' = Sent(q) /\ Yes(q)' = Yes(q) /\ No(q)' = No(q)
             /\ <<q, TRUE>> \in answers' <=> <<q, TRUE>> \in answers
             /\ <<q, FALSE>> \in answers' <=> <<q, FALSE>> \in answers
  BY DEF Sent, Yes, No, connectFails
<1>5. \A q \in Question : q[1] \in Handshake
  BY QuestionParts
<1>6. OkInv'
  BY <1>1, <1>2 DEF OkInv, OnlyChanges, Handshake
<1>7. AskedInv'
  BY <1>1, <1>2, <1>3, <1>4, <1>5 DEF AskedInv, OnlyChanges
<1>8. ConfirmInv'
  BY <1>1, <1>2, <1>4, <1>5 DEF ConfirmInv, OnlyChanges
<1>9. AnswerInv'
  BY <1>1, <1>2, <1>4, <1>5 DEF AnswerInv, OnlyChanges
<1>10. WaitInv'
  BY <1>1, <1>2, <1>3, <1>4 DEF WaitInv, OnlyChanges
<1> QED
  BY <1>6, <1>7, <1>8, <1>9, <1>10 DEF BackendInv

(* A handshake that shakes has no question and no rejection.               *)
LEMMA ShakingUnasked ==
  ASSUME Types, BackendInv, NEW h \in Handshake, handshake[h].at \in {"shaking", "up"}
  PROVE  \A q \in Of(h) : q \notin Asked /\ ~Sent(q)
BY QuestionParts DEF BackendInv, AskedInv, ConfirmInv

(* It pauses on a key that is not saved.                                   *)
LEMMA ParkKeeps ==
  ASSUME Types, Types', BackendInv, NEW h \in Handshake, NEW hop \in handshake[h].asks,
         handshake[h].at = "shaking",
         handshake' = [handshake EXCEPT ![h].at = "parked", ![h].hop = hop],
         asking' = asking \cup {<<h, hop>>}, UNCHANGED <<queue, confirms, answers>>
  PROVE  BackendInv'
<1> DEFINE q == <<h, hop>>
<1>1. OkInv /\ AskedInv /\ ConfirmInv /\ AnswerInv /\ WaitInv
  BY DEF BackendInv
<1>2. /\ OnlyChanges(h) /\ handshake'[h].at = "parked" /\ handshake'[h].hop = hop
      /\ handshake'[h].asks = handshake[h].asks /\ handshake'[h].ok = FALSE
  BY <1>1 DEF Types, OnlyChanges, OkInv, HandshakeState
<1>3. hop \in Hop /\ q \in Question /\ q[1] = h /\ q[2] = hop
  BY QuestionParts DEF Types, HandshakeState
<1>4. Asked \subseteq Question /\ Asked' = Asked \cup {q} /\ Queued' = Queued
  BY DEF Types, Asked, Queued
<1>5. \A r : /\ Sent(r)' = Sent(r) /\ Yes(r)' = Yes(r) /\ No(r)' = No(r)
             /\ <<r, TRUE>> \in answers' <=> <<r, TRUE>> \in answers
             /\ <<r, FALSE>> \in answers' <=> <<r, FALSE>> \in answers
  BY DEF Sent, Yes, No
<1>6. \A r \in Question : /\ r[1] \in Handshake
                          /\ r[1] = h => r \notin Asked /\ ~Sent(r)
                          /\ r = <<r[1], r[2]>>
  BY ShakingUnasked, QuestionParts
<1>7. ~Yes(q) /\ ~No(q)
  BY <1>1, <1>3, <1>6 DEF Yes, No, Sent, AnswerInv
<1>8. OkInv'
  BY <1>1, <1>2 DEF OkInv, OnlyChanges, Handshake
<1>9. AskedInv'
  <2>1. asking' \cap Queued' = {}
    BY <1>1, <1>3, <1>4, <1>6 DEF AskedInv, Asked
  <2>2. \A r \in Asked : r \in Question /\ r[1] # h /\ handshake'[r[1]] = handshake[r[1]]
    BY <1>2, <1>4, <1>6 DEF OnlyChanges
  <2>3. ASSUME NEW r \in Asked
        PROVE  /\ handshake'[r[1]].at \notin {"shaking", "up"} /\ handshake'[r[1]].ok = FALSE
               /\ handshake'[r[1]].at = "parked" => handshake'[r[1]].hop = r[2]
               /\ ~Yes(r)' /\ ~No(r)'
               /\ \A s \in Asked' : s[1] = r[1] => s = r
    BY <1>1, <1>3, <1>4, <1>5, <2>2 DEF AskedInv
  <2>4. /\ handshake'[q[1]].at \notin {"shaking", "up"} /\ handshake'[q[1]].ok = FALSE
        /\ handshake'[q[1]].at = "parked" => handshake'[q[1]].hop = q[2]
        /\ ~Yes(q)' /\ ~No(q)'
        /\ \A s \in Asked' : s[1] = q[1] => s = q
    BY <1>2, <1>3, <1>4, <1>5, <1>7, <2>2
  <2> HIDE DEF q
  <2> QED BY <1>4, <2>1, <2>3, <2>4 DEF AskedInv
<1>10. ConfirmInv'
  BY <1>1, <1>2, <1>5, <1>6 DEF ConfirmInv, OnlyChanges
<1>11. AnswerInv'
  BY <1>1, <1>2, <1>5, <1>6 DEF AnswerInv, OnlyChanges
<1>12. WaitInv'
  <2> SUFFICES ASSUME NEW g \in Handshake, handshake'[g].at = "parked"
               PROVE  <<g, handshake'[g].hop>> \in Asked' \/ (Sent(<<g, handshake[g].hop>>))'
    BY DEF WaitInv
  <2>1. CASE g = h
    BY <1>2, <1>4, <2>1
  <2>2. CASE g # h
    <3>1. handshake'[g] = handshake[g]
      BY <1>2, <2>2 DEF OnlyChanges
    <3> QED BY <1>1, <1>4, <1>5, <3>1 DEF WaitInv
  <2> QED BY <2>1, <2>2
<1> QED
  BY <1>8, <1>9, <1>10, <1>11, <1>12 DEF BackendInv

(* The answer reaches the backend.                                         *)
LEMMA AnswerArrives ==
  ASSUME Types, Types', BackendInv, NEW q \in Question, NEW accept \in BOOLEAN,
         confirm_host_key(q, accept)
  PROVE  BackendInv'
<1> DEFINE h == q[1]
<1>1. OkInv /\ AskedInv /\ ConfirmInv /\ AnswerInv /\ WaitInv
  BY DEF BackendInv
<1>2. Asked \subseteq Question /\ Asked' = Asked /\ Queued' = Queued /\ asking' = asking
  BY DEF Types, Asked, confirm_host_key, Queued
<1>3. \A r : /\ Sent(r)' => Sent(r)
             /\ Yes(r)' => Yes(r)
             /\ No(r)' => No(r)
             /\ r # q => Sent(r)' = Sent(r)
             /\ <<r, TRUE>> \in answers' <=> <<r, TRUE>> \in answers
             /\ <<r, FALSE>> \in answers' <=> <<r, FALSE>> \in answers
  BY DEF Sent, Yes, No, confirm_host_key
<1>4. /\ \A r \in Question : r[1] \in Handshake /\ r[2] \in Hop /\ r = <<r[1], r[2]>>
      /\ h \in Handshake
  BY QuestionParts
<1>5. Sent(q) /\ (accept = TRUE => Yes(q) /\ ~No(q)) /\ (accept = FALSE => No(q) /\ ~Yes(q))
  BY <1>1 DEF confirm_host_key, Sent, Yes, No, AnswerInv
<1>6. q \notin Asked
  BY <1>1, <1>5 DEF AskedInv
<1>7. CASE ~(handshake[h].at = "parked" /\ handshake[h].hop = q[2])
  <2>1. handshake' = handshake
    BY <1>7 DEF confirm_host_key
  <2>2. OkInv' /\ AskedInv' /\ ConfirmInv' /\ AnswerInv'
    BY <1>1, <1>2, <1>3, <2>1 DEF OkInv, AskedInv, ConfirmInv, AnswerInv
  <2>3. WaitInv'
    <3> SUFFICES ASSUME NEW g \in Handshake, handshake[g].at = "parked"
                 PROVE  <<g, handshake[g].hop>> \in Asked' \/ Sent(<<g, handshake[g].hop>>)'
      BY <2>1 DEF WaitInv
    <3>1. <<g, handshake[g].hop>> # q
      BY <1>7
    <3>2. <<g, handshake[g].hop>> \in Asked \/ Sent(<<g, handshake[g].hop>>)
      BY <1>1 DEF WaitInv
    <3> QED BY <1>2, <1>3, <2>1, <3>1, <3>2
  <2> QED BY <2>2, <2>3 DEF BackendInv
<1>8. CASE handshake[h].at = "parked" /\ handshake[h].hop = q[2] /\ accept = TRUE
  <2>1. handshake' = [handshake EXCEPT ![h] = Shaking(handshake[h].asks \ {q[2]})]
    BY <1>8 DEF confirm_host_key
  <2>2. /\ OnlyChanges(h) /\ handshake'[h].at = "shaking" /\ handshake'[h].ok = FALSE
        /\ handshake'[h].asks = handshake[h].asks \ {q[2]}
    BY <1>4, <2>1 DEF Types, OnlyChanges, Shaking, NoHandshake
  <2>3. \A r \in Question : r[1] = h /\ (r \in Asked \/ Sent(r)) => r = q
    BY <1>1, <1>4, <1>8 DEF AskedInv, ConfirmInv
  <2>4. ~Sent(q)'
    BY <1>5, <1>8 DEF confirm_host_key, Sent, No
  <2>5. \A r \in Question : r[1] = h => r \notin Asked /\ ~Sent(r)'
    BY <1>3, <1>6, <2>3, <2>4
  <2>6. OkInv'
    BY <1>1, <2>2 DEF OkInv, OnlyChanges, Handshake
  <2>7. AskedInv'
    <3>1. \A r \in Asked : r \in Question /\ r[1] # h /\ handshake'[r[1]] = handshake[r[1]]
      BY <1>2, <1>4, <2>2, <2>5 DEF OnlyChanges
    <3> QED BY <1>1, <1>2, <1>3, <3>1 DEF AskedInv
  <2>8. ConfirmInv'
    BY <1>1, <1>3, <1>4, <2>2, <2>5 DEF ConfirmInv, OnlyChanges
  <2>9. AnswerInv'
    <3>1. \A r \in Question : r[1] = h => <<r, FALSE>> \notin answers
      BY <1>1, <1>4, <1>5, <1>8 DEF AnswerInv, No
    <3>2. \A r \in Question : r[1] = h /\ <<r, TRUE>> \in answers => r[2] \notin handshake'[h].asks
      BY <1>1, <1>8, <2>2 DEF AnswerInv
    <3> SUFFICES ASSUME NEW r \in Question
                 PROVE  /\ ~(Yes(r)' /\ No(r)')
                        /\ <<r, TRUE>> \in answers' \/ <<r, FALSE>> \in answers' =>
                             handshake'[r[1]].at \notin {"none", "up"}
                        /\ <<r, FALSE>> \in answers' =>
                             /\ handshake'[r[1]].at # "shaking" /\ handshake'[r[1]].ok = FALSE
                             /\ handshake'[r[1]].at = "parked" => handshake'[r[1]].hop = r[2]
                        /\ <<r, TRUE>> \in answers' =>
                             /\ handshake'[r[1]].at = "shaking" => r[2] \notin handshake'[r[1]].asks
                             /\ handshake'[r[1]].at = "parked" =>
                                  r[2] \notin handshake'[r[1]].asks \/ handshake'[r[1]].hop = r[2]
      BY DEF AnswerInv
    <3>3. CASE r[1] = h
      BY <1>1, <1>3, <2>2, <3>1, <3>2, <3>3 DEF AnswerInv
    <3>4. CASE r[1] # h
      BY <1>1, <1>3, <1>4, <2>2, <3>4 DEF AnswerInv, OnlyChanges
    <3> QED BY <3>3, <3>4
  <2>10. WaitInv'
    <3> SUFFICES ASSUME NEW g \in Handshake, handshake'[g].at = "parked"
                 PROVE  (<<g, handshake[g].hop>> \in Asked \/ Sent(<<g, handshake[g].hop>>))'
      BY DEF WaitInv
    <3>1. g # h /\ handshake'[g] = handshake[g] /\ <<g, handshake[g].hop>> # q
      BY <2>2 DEF OnlyChanges
    <3> QED BY <1>1, <1>2, <1>3, <3>1 DEF WaitInv
  <2> QED BY <2>6, <2>7, <2>8, <2>9, <2>10 DEF BackendInv
<1>9. CASE handshake[h].at = "parked" /\ handshake[h].hop = q[2] /\ accept = FALSE
  <2>1. handshake' = [handshake EXCEPT ![h] = [handshake[h] EXCEPT !.at = "ended"]]
    BY <1>9 DEF confirm_host_key
  <2>2. /\ OnlyChanges(h) /\ handshake'[h].at = "ended" /\ handshake'[h].ok = FALSE
    BY <1>1, <1>4, <1>9, <2>1 DEF Types, OnlyChanges, HandshakeState, OkInv
  <2>3. OkInv'
    BY <1>1, <2>2 DEF OkInv, OnlyChanges, Handshake
  <2>4. AskedInv'
    BY <1>1, <1>2, <1>3, <1>4, <2>2 DEF AskedInv, OnlyChanges
  <2>5. ConfirmInv'
    BY <1>1, <1>3, <1>4, <2>2 DEF ConfirmInv, OnlyChanges
  <2>6. AnswerInv'
    BY <1>1, <1>3, <1>4, <2>2 DEF AnswerInv, OnlyChanges
  <2>7. WaitInv'
    <3> SUFFICES ASSUME NEW g \in Handshake, handshake'[g].at = "parked"
                 PROVE  (<<g, handshake[g].hop>> \in Asked \/ Sent(<<g, handshake[g].hop>>))'
      BY DEF WaitInv
    <3>1. g # h /\ handshake'[g] = handshake[g] /\ <<g, handshake[g].hop>> # q
      BY <2>2 DEF OnlyChanges
    <3> QED BY <1>1, <1>2, <1>3, <3>1 DEF WaitInv
  <2> QED BY <2>3, <2>4, <2>5, <2>6, <2>7 DEF BackendInv
<1> QED BY <1>7, <1>8, <1>9

(* The question is queued.                                                 *)
LEMMA RaiseKeeps ==
  ASSUME Types, BackendInv, NEW q \in asking, asking' = asking \ {q}, Raise(q),
         UNCHANGED <<handshake, confirms, answers>>
  PROVE  BackendInv'
<1>1. OkInv /\ AskedInv /\ ConfirmInv /\ AnswerInv /\ WaitInv
  BY DEF BackendInv
<1>2. Queued' = Queued \cup {q}
  BY RaiseIs
<1>3. Asked' = Asked /\ asking' \cap Queued' = {}
  BY <1>1, <1>2 DEF Asked, AskedInv
<1>4. \A r : Sent(r)' = Sent(r) /\ Yes(r)' = Yes(r) /\ No(r)' = No(r)
  BY DEF Sent, Yes, No
<1> QED
  BY <1>1, <1>3, <1>4 DEF BackendInv, OkInv, AskedInv, ConfirmInv, AnswerInv, WaitInv

(* What the handshakes that begin look like.                               *)
LEMMA ShakingIs ==
  /\ \A asks : Shaking(asks).at = "shaking" /\ Shaking(asks).ok = FALSE
  /\ \A c : OwnHandshake(c).at = "shaking" /\ OwnHandshake(c).ok = FALSE
BY DEF OwnHandshake, Shaking, NoHandshake

(* Every step keeps the backend's part of the invariant.                   *)
LEMMA BackendStep ==
  ASSUME IndInv, Types', Next
  PROVE  BackendInv'
<1>1. Types /\ BackendInv /\ RaisedInv
  BY DEF IndInv, WindowInv
<1>2. /\ Caller \subseteq Handshake /\ Dial \subseteq Handshake /\ Present \subseteq Caller
      /\ asking \subseteq Question /\ Queued \subseteq Question /\ asking \cap Queued = {}
      /\ \A c \in Present : AwaitsInv(c) /\ StandsInv(c)
  BY DEF IndInv, WindowInv, Types, Handshake, BackendInv, AskedInv
<1>3. ASSUME NEW q \in Queued, NEW accept \in BOOLEAN, resolve(q, accept) PROVE BackendInv'
  <2>1. /\ Confirm({q}, accept) /\ Record({q}, accept) /\ handshake' = handshake
        /\ asking' = asking /\ Queued' = Queued \ {q}
    BY <1>3, UnqueueIs DEF resolve
  <2>2. {q} \in SUBSET Asked /\ Asked' = Asked \ {q}
    BY <1>2, <2>1 DEF Asked
  <2> QED BY <1>1, <2>1, <2>2, AnswersKeep
<1>4. CASE releaseSession
  <2>1. /\ current \in Handshake /\ handshake[current].at = "up"
        /\ handshake' = [handshake EXCEPT ![current] = NoHandshake]
        /\ UNCHANGED <<confirms, answers>> /\ asking' = asking /\ Queued' = Queued
    BY <1>1, <1>2, <1>4 DEF releaseSession, Types, Queued
  <2>2. /\ OnlyChanges(current) /\ handshake'[current].at = "none"
        /\ handshake'[current].ok = FALSE
    BY <1>1, <2>1 DEF OnlyChanges, NoHandshake, Types
  <2>3. \A q \in Of(current) : q \notin Asked /\ ~Sent(q)
    BY <1>1, <2>1, ShakingUnasked
  <2> QED BY <1>1, <2>1, <2>2, <2>3, UnaskedKeeps
<1>5. ASSUME NEW h \in Handshake, NEW new, handshake[h].at = "none",
             \A q \in Of(h) : q \notin Asked /\ ~Sent(q),
             handshake' = [handshake EXCEPT ![h] = new], new.at = "shaking", new.ok = FALSE,
             UNCHANGED <<asking, queue, confirms, answers>>
      PROVE  BackendInv'
  <2>1. /\ OnlyChanges(h) /\ handshake'[h].at = "shaking" /\ handshake'[h].ok = FALSE
        /\ asking' = asking /\ Queued' = Queued /\ UNCHANGED <<confirms, answers>>
    BY <1>1, <1>5 DEF OnlyChanges, Types, Queued
  <2> QED BY <1>1, <1>5, <2>1, UnaskedKeeps
<1>6. CASE UNCHANGED <<handshake, asking, queue, confirms, answers>>
  BY <1>1, <1>6, BackendQuiet DEF Queued
<1>7. ASSUME NEW c \in Present, open(c) PROVE BackendInv'
  <2>1. Forgotten(c) /\ UNCHANGED <<asking, queue, confirms, answers>>
    BY <1>7 DEF open
  <2>2. CASE ~Rides(c)
    <3>1. handshake' = [handshake EXCEPT ![c] = OwnHandshake(c)]
      BY <1>7, <2>2 DEF open
    <3>2. c \in Handshake
      BY <1>2
    <3> QED BY <1>5, <2>1, <3>1, <3>2, ForgottenIs, ShakingIs
  <2>3. CASE Rides(c)
    <3>1. sessionFor(c)
      BY <1>7, <2>3 DEF open
    <3>2. CASE handshake' = handshake
      BY <1>6, <2>1, <3>2
    <3>3. ASSUME NEW d \in Dial, Forgotten(d),
                 handshake' = [handshake EXCEPT ![d] = Shaking(Hop \ pinned)]
          PROVE  BackendInv'
      <4>1. d \in Handshake
        BY <1>2
      <4> QED BY <1>5, <2>1, <3>3, <4>1, ForgottenIs, ShakingIs
    <3> QED BY <3>1, <3>2, <3>3 DEF sessionFor
  <2> QED BY <2>2, <2>3
<1>8. ASSUME NEW c \in Present, rideEnds(c) PROVE BackendInv'
  <2>1. caller[c].at = "riding" /\ UNCHANGED <<asking, queue, confirms, answers>>
    BY <1>8 DEF rideEnds
  <2>2. CASE handshake' = handshake
    BY <1>6, <2>1, <2>2
  <2>3. CASE handshake' = [handshake EXCEPT ![c] = OwnHandshake(c)]
    <3>1. c \in Handshake /\ AwaitsInv(c)
      BY <1>2
    <3>2. handshake[c].at = "none" /\ \A q \in Of(c) : q \notin Asked /\ ~Sent(q)
      BY <2>1, <3>1 DEF AwaitsInv
    <3> QED BY <1>5, <2>1, <2>3, <3>1, <3>2, ShakingIs
  <2> QED BY <1>8, <2>2, <2>3 DEF rideEnds
<1>9. ASSUME NEW c \in Present, TestEnds(c)
      PROVE  \E S : \E T \in SUBSET (S \cap Queued) :
               /\ Queued' = Queued \ S /\ (S \cap Queued) \ T \subseteq Of(c) /\ Confirm(T, FALSE)
  <2>1. CASE Kind[c] = "sshTest"
    <3>1. /\ Queued' = Queued \ caller[c].told /\ confirms' = confirms
          /\ caller[c].told \subseteq Of(c)
      BY <1>2, <1>9, <2>1, UnqueueIs DEF TestEnds, dismiss, StandsInv
    <3>2. Confirm({}, FALSE)
      BY <3>1 DEF Confirm
    <3>3. {} \in SUBSET (caller[c].told \cap Queued)
      OBVIOUS
    <3> QED BY <3>1, <3>2, <3>3
  <2>2. CASE Kind[c] # "sshTest"
    <3>1. /\ Queued' = Queued \ caller[c].told /\ Confirm(caller[c].told \cap Queued, FALSE)
      BY <1>9, <2>2, UnqueueIs DEF TestEnds
    <3> QED BY <3>1
  <2> QED BY <2>1, <2>2
<1>10. ASSUME NEW c \in Present, opened(c) PROVE BackendInv'
  <2>1. /\ c \in Handshake /\ handshake[c].at = "ended" /\ Forget(c) /\ asking' = asking
        /\ handshake' = [handshake EXCEPT ![c] = NoHandshake]
    BY <1>2, <1>10 DEF opened
  <2>2. OnlyChanges(c) /\ handshake'[c].at = "none" /\ handshake'[c].ok = FALSE
    BY <1>1, <2>1 DEF OnlyChanges, Types, NoHandshake
  <2>3. PICK S : \E T \in SUBSET (S \cap Queued) :
          /\ Queued' = Queued \ S /\ (S \cap Queued) \ T \subseteq Of(c) /\ Confirm(T, FALSE)
    <3>1. CASE TestEnds(c)
      BY <1>9, <3>1
    <3>2. CASE UNCHANGED <<queue, confirms, stray>>
      <4>1. /\ Queued' = Queued \ {} /\ Confirm({}, FALSE)
            /\ {} \in SUBSET ({} \cap Queued) /\ ({} \cap Queued) \ {} \subseteq Of(c)
        BY <3>2 DEF Queued, Confirm
      <4> QED BY <4>1
    <3> QED BY <1>10, <3>1, <3>2 DEF opened
  <2>4. PICK T \in SUBSET (S \cap Queued) :
          /\ Queued' = Queued \ S /\ (S \cap Queued) \ T \subseteq Of(c) /\ Confirm(T, FALSE)
    BY <2>3
  <2> QED BY <1>1, <2>1, <2>2, <2>4, SettleKeeps
<1>11. ASSUME NEW c \in Present, deadline(c) PROVE BackendInv'
  <2>1. /\ TestEnds(c) /\ caller[c].armed /\ asking' = asking
        /\ UNCHANGED <<handshake, answers>>
    BY <1>11 DEF deadline
  <2>2. CASE Kind[c] = "sshTest"
    <3>1. caller[c].told = {}
      <4>1. caller[c].armed \in BOOLEAN /\ StandsInv(c)
        BY <1>1, <1>2 DEF Types, CallerState
      <4> QED BY <2>1, <2>2, <4>1 DEF StandsInv
    <3>2. Queued' = Queued /\ confirms' = confirms
      BY <2>1, <2>2, <3>1, UnqueueIs DEF TestEnds, dismiss
    <3> QED BY <1>1, <2>1, <3>2, BackendQuiet
  <2>3. CASE Kind[c] # "sshTest"
    <3> DEFINE S == caller[c].told \cap Queued
    <3>1. Queued' = Queued \ caller[c].told /\ Confirm(S, FALSE)
      BY <2>1, <2>3, UnqueueIs DEF TestEnds
    <3>2. S \in SUBSET Asked /\ Asked' = Asked \ S /\ Queued' \subseteq Queued
      BY <1>2, <2>1, <3>1 DEF Asked
    <3>3. FALSE \in BOOLEAN /\ asking' \subseteq asking /\ answers' = answers
          /\ handshake' = handshake
      BY <2>1
    <3> HIDE DEF S
    <3> QED BY <1>1, <3>1, <3>2, <3>3, AnswersKeep
  <2> QED BY <2>2, <2>3
<1>12. ASSUME NEW c \in Present, leave(c) PROVE BackendInv'
  <2>1. handshake' = handshake /\ asking' = asking
    BY <1>12 DEF leave
  <2>2. CASE ~Hears(c)
    BY <1>6, <1>12, <2>1, <2>2 DEF leave
  <2>3. CASE Hears(c)
    <3> DEFINE S == caller[c].told \cap Queued
    <3>1. Queued' = Queued \ caller[c].told /\ Confirm(S, FALSE) /\ Record(S, FALSE)
      BY <1>12, <2>3, UnqueueIs DEF leave, abandon
    <3>2. S \in SUBSET Asked /\ Asked' = Asked \ S /\ Queued' \subseteq Queued
      BY <1>2, <2>1, <3>1 DEF Asked
    <3>3. FALSE \in BOOLEAN /\ asking' \subseteq asking
      BY <2>1
    <3> HIDE DEF S
    <3> QED BY <1>1, <2>1, <3>1, <3>2, <3>3, AnswersKeep
  <2> QED BY <2>2, <2>3
<1>13. ASSUME NEW h \in Handshake, check_server_key(h) PROVE BackendInv'
  <2>1. handshake[h].at = "shaking" /\ UNCHANGED <<queue, confirms, answers>> /\ Queued' = Queued
    BY <1>13 DEF check_server_key, Queued
  <2>2. CASE handshake[h].asks = {}
    <3>1. /\ asking' = asking
          /\ handshake' = [handshake EXCEPT ![h].at = "ended", ![h].ok = TRUE]
      BY <1>13, <2>2 DEF check_server_key
    <3>2. OnlyChanges(h) /\ handshake'[h].at = "ended"
      BY <1>1, <3>1 DEF OnlyChanges, Types, HandshakeState
    <3>3. \A q \in Of(h) : q \notin Asked /\ ~Sent(q)
      BY <1>1, <2>1, ShakingUnasked
    <3> QED BY <1>1, <2>1, <3>1, <3>2, <3>3, UnaskedKeeps
  <2>3. CASE handshake[h].asks # {}
    BY <1>1, <1>13, <2>1, <2>3, ParkKeeps DEF check_server_key
  <2> QED BY <2>2, <2>3
<1>14. ASSUME NEW q \in asking, onHostKeyPrompt(q) PROVE BackendInv'
  <2>1. asking' = asking \ {q} /\ handshake' = handshake
    BY <1>14 DEF onHostKeyPrompt
  <2>2. CASE Raise(q) /\ UNCHANGED <<confirms, answers>>
    BY <1>1, <2>1, <2>2, RaiseKeeps
  <2>3. CASE Confirm({q}, FALSE) /\ Record({q}, FALSE) /\ queue' = queue
    <3>1. /\ {q} \in SUBSET Asked /\ Asked' = Asked \ {q} /\ FALSE \in BOOLEAN
          /\ asking' \subseteq asking /\ Queued' \subseteq Queued
      BY <1>2, <2>1, <2>3 DEF Asked, Queued
    <3> QED BY <1>1, <2>1, <2>3, <3>1, AnswersKeep
  <2> QED BY <1>14, <2>2, <2>3 DEF onHostKeyPrompt
<1>15. ASSUME NEW d \in Dial, dialSettles(d) PROVE BackendInv'
  <2> DEFINE S == IF handshake[d].ok THEN {} ELSE fanout[d].raised
  <2>1. /\ d \in Handshake /\ handshake[d].at = "ended" /\ Forget(d) /\ asking' = asking
        /\ handshake' = [handshake EXCEPT ![d] = IF handshake[d].ok THEN Up ELSE NoHandshake]
        /\ Unqueue(S) /\ confirms' = confirms
    BY <1>2, <1>15 DEF dialSettles, dismiss
  <2>2. /\ OnlyChanges(d) /\ handshake'[d].ok = FALSE
        /\ \/ handshake'[d].at = "none"
           \/ handshake'[d].at = "up" /\ handshake[d].ok = TRUE
    BY <1>1, <2>1 DEF OnlyChanges, Types, NoHandshake, Up, HandshakeState
  <2>3. S \subseteq Of(d)
    BY <1>1 DEF RaisedInv
  <2>4. /\ {} \in SUBSET (S \cap Queued) /\ (S \cap Queued) \ {} \subseteq Of(d)
        /\ Queued' = Queued \ S /\ Confirm({}, FALSE)
    BY <2>1, <2>3, UnqueueIs DEF Confirm
  <2> HIDE DEF S
  <2> QED BY <1>1, <2>1, <2>2, <2>4, SettleKeeps
<1>16. ASSUME NEW a \in confirms, confirm_host_key(a[1], a[2]) PROVE BackendInv'
  <2>1. a[1] \in Question /\ a[2] \in BOOLEAN
    BY <1>1 DEF Types
  <2> QED BY <1>1, <1>16, <2>1, AnswerArrives
<1> QED
  BY <1>1, <1>3, <1>4, <1>7, <1>8, <1>10, <1>11, <1>12, <1>13, <1>14, <1>15, <1>16,
     FailKeeps
  DEF Next

----------------------------------------------------------------------------
(* The window.                                                             *)
CallerInv(c) == AwaitsInv(c) /\ StandsInv(c) /\ KnowsInv(c)

(* A caller that a step leaves alone, while the queue only shrinks.        *)
LEMMA Bystander ==
  ASSUME NEW x, CallerInv(x), caller'[x] = caller[x],
         handshake'[x].at = "none" <=> handshake[x].at = "none",
         Queued' \subseteq Queued, stray \cap Queued' \subseteq stray',
         caller[x].at = "riding" =>
           \A q \in Of(x) : q \notin Asked /\ ~Sent(q) => q \notin Asked' /\ ~Sent(q)',
         caller[x].ride # NoDial =>
           LET d == caller[x].ride
           IN /\ handshake'[d].at # "none"
              /\ handshake[d].at = "up" => handshake'[d].at = "up"
              /\ handshake'[d].at # "up" => fanout[d].watchers \subseteq fanout'[d].watchers
  PROVE  CallerInv(x)'
<1>1. AwaitsInv(x)'
  BY DEF CallerInv, AwaitsInv
<1>2. StandsInv(x)'
  BY DEF CallerInv, StandsInv, Own
<1>3. KnowsInv(x)'
  BY DEF CallerInv, KnowsInv, AwaitsInv, Own
<1> QED BY <1>1, <1>2, <1>3 DEF CallerInv

(* Nobody notices that a question is answered or that the backend works.   *)
LEMMA WindowKeeps ==
  ASSUME IndInv, caller' = caller, fanout' = fanout, current' = current,
         Queued' \subseteq Queued, stray \cap Queued' \subseteq stray',
         \A h \in Handshake :
           /\ handshake'[h].at = "none" <=> handshake[h].at = "none"
           /\ handshake'[h].at = "up" <=> handshake[h].at = "up",
         \A q \in Question : handshake[q[1]].at = "none" =>
           /\ q \in Asked' => q \in Asked
           /\ Sent(q)' => q \in Asked \/ Sent(q),
         \A q \in Asked' : q \in Asked \/ handshake[q[1]].at # "none",
         Queued' \ stray' \subseteq Queued \ stray
  PROVE  WindowInv'
<1>1. /\ Types /\ RaisedInv /\ PresentInv /\ DeadQuestionsGo
      /\ \A c \in Present : CallerInv(c)
  BY DEF IndInv, WindowInv, CallerInv
<1>2. /\ Caller \subseteq Handshake /\ Dial \subseteq Handshake /\ Present \subseteq Caller
      /\ Present' = Present /\ Queued \subseteq Question
  BY <1>1 DEF Types, Handshake, Present
<1>3. RaisedInv'
  BY <1>1 DEF RaisedInv
<1>4. PresentInv'
  <2>1. current # NoDial => current \in Handshake
    BY <1>1, <1>2 DEF Types
  <2>2. ASSUME NEW c \in Caller, handshake'[c].at # "none" \/ \E q \in Asked' : q[1] = c
        PROVE  c \in Present /\ Kind[c] \notin {"tab", "rule"}
    <3>1. handshake[c].at # "none" \/ \E q \in Asked : q[1] = c
      BY <1>2, <2>2
    <3> QED BY <1>1, <3>1 DEF PresentInv
  <2>3. current' # NoDial => handshake'[current'].at # "none"
    BY <1>1, <2>1 DEF PresentInv
  <2> QED BY <1>2, <2>2, <2>3 DEF PresentInv
<1>5. DeadQuestionsGo'
  BY <1>1, <1>2, QuestionParts DEF DeadQuestionsGo
<1>6. ASSUME NEW x \in Present PROVE CallerInv(x)'
  <2>1. x \in Handshake /\ CallerInv(x) /\ caller[x].ride \in Dial \cup {NoDial}
    BY <1>1, <1>2 DEF Types, CallerState
  <2>2. caller[x].at = "riding" =>
          \A q \in Of(x) : q \notin Asked /\ ~Sent(q) => q \notin Asked' /\ ~Sent(q)'
    <3> SUFFICES ASSUME caller[x].at = "riding", NEW q \in Of(x)
                 PROVE  q \notin Asked /\ ~Sent(q) => q \notin Asked' /\ ~Sent(q)'
      OBVIOUS
    <3>1. q \in Question /\ q[1] = x
      BY <2>1, QuestionParts
    <3>2. handshake[x].at = "none"
      BY <2>1 DEF CallerInv, AwaitsInv
    <3> QED BY <3>1, <3>2
  <2>3. caller[x].ride # NoDial =>
          LET d == caller[x].ride
          IN /\ handshake'[d].at # "none"
             /\ handshake[d].at = "up" => handshake'[d].at = "up"
             /\ handshake'[d].at # "up" => fanout[d].watchers \subseteq fanout'[d].watchers
    BY <1>2, <2>1 DEF CallerInv, AwaitsInv
  <2> QED BY <2>1, <2>2, <2>3, Bystander
<1> QED BY <1>2, <1>3, <1>4, <1>5, <1>6 DEF WindowInv, CallerInv

(* The user answers.                                                       *)
LEMMA ResolveWindow ==
  ASSUME IndInv, NEW q \in Queued, NEW accept \in BOOLEAN, resolve(q, accept)
  PROVE  WindowInv'
<1>1. /\ UNCHANGED <<caller, handshake, fanout, current>> /\ asking' = asking
      /\ Confirm({q}, accept) /\ Queued' = Queued \ {q} /\ stray' = stray \ {q}
  BY UnqueueIs DEF resolve
<1>2. Asked' \subseteq Asked /\ q \in Asked
  BY <1>1 DEF Asked
<1>3. ASSUME NEW r PROVE Sent(r)' => Sent(r) \/ r = q
  <2>1. r \in {q} <=> r = q
    OBVIOUS
  <2> QED BY <1>1, <2>1, ConfirmIs DEF Sent
<1> QED BY <1>1, <1>2, <1>3, WindowKeeps

(* The backend works.                                                      *)
LEMMA CheckWindow ==
  ASSUME IndInv, NEW h \in Handshake, check_server_key(h)
  PROVE  WindowInv'
<1>1. /\ UNCHANGED <<caller, fanout, current, queue, confirms, stray>> /\ Types
      /\ Queued' = Queued /\ handshake[h].at = "shaking"
  BY DEF check_server_key, Queued, IndInv
<1>2. \A r : Sent(r)' = Sent(r)
  BY <1>1 DEF Sent
<1>3. /\ \A g \in Handshake : g # h => handshake'[g] = handshake[g]
      /\ handshake'[h].at \in {"ended", "parked"}
      /\ \A r \in Asked' : r \in Asked \/ r[1] = h
  <2>1. CASE handshake[h].asks = {}
    BY <1>1, <2>1 DEF check_server_key, Types, HandshakeState, Asked
  <2>2. CASE handshake[h].asks # {}
    BY <1>1, <2>2 DEF check_server_key, Types, HandshakeState, Asked
  <2> QED BY <2>1, <2>2
<1> QED BY <1>1, <1>2, <1>3, WindowKeeps, QuestionParts

LEMMA FailWindow ==
  ASSUME IndInv, NEW h \in Handshake, connectFails(h)
  PROVE  WindowInv'
<1>1. /\ UNCHANGED <<caller, fanout, current, asking, queue, confirms, stray>> /\ Types
      /\ Queued' = Queued /\ Asked' = Asked
  BY DEF connectFails, Queued, IndInv, Asked
<1>2. \A r : Sent(r)' = Sent(r)
  BY <1>1 DEF Sent
<1>3. /\ \A g \in Handshake : g # h => handshake'[g] = handshake[g]
      /\ handshake'[h].at = "ended" /\ handshake[h].at \notin {"none", "up"}
  BY <1>1 DEF connectFails, Types, HandshakeState
<1> QED BY <1>1, <1>2, <1>3, WindowKeeps

LEMMA ConfirmWindow ==
  ASSUME IndInv, NEW q \in Question, NEW accept \in BOOLEAN, confirm_host_key(q, accept)
  PROVE  WindowInv'
<1> DEFINE h == q[1]
<1>1. /\ UNCHANGED <<caller, fanout, current, asking, queue, stray>> /\ Types
      /\ Queued' = Queued /\ Asked' = Asked /\ h \in Handshake
  BY QuestionParts DEF confirm_host_key, Queued, IndInv, Asked
<1>2. \A r : Sent(r)' => Sent(r)
  BY DEF Sent, confirm_host_key
<1>3. \/ handshake' = handshake
      \/ /\ \A g \in Handshake : g # h => handshake'[g] = handshake[g]
         /\ handshake'[h].at \in {"shaking", "ended"} /\ handshake[h].at = "parked"
  <2>1. CASE ~(handshake[h].at = "parked" /\ handshake[h].hop = q[2])
    BY <2>1 DEF confirm_host_key
  <2>2. CASE handshake[h].at = "parked" /\ handshake[h].hop = q[2] /\ accept = TRUE
    <3>1. handshake' = [handshake EXCEPT ![h] = Shaking(handshake[h].asks \ {q[2]})]
      BY <2>2 DEF confirm_host_key
    <3> QED BY <1>1, <2>2, <3>1, ShakingIs DEF Types
  <2>3. CASE handshake[h].at = "parked" /\ handshake[h].hop = q[2] /\ accept = FALSE
    <3>1. handshake' = [handshake EXCEPT ![h] = [handshake[h] EXCEPT !.at = "ended"]]
      BY <2>3 DEF confirm_host_key
    <3> QED BY <1>1, <2>3, <3>1 DEF Types, HandshakeState
  <2> QED BY <2>1, <2>2, <2>3
<1> HIDE DEF h
<1> QED BY <1>1, <1>2, <1>3, WindowKeeps

(* The types as the steps of the window need them.                         *)
LEMMA TypeFacts ==
  ASSUME IndInv
  PROVE  /\ Types /\ BackendInv /\ RaisedInv /\ PresentInv /\ DeadQuestionsGo
         /\ Caller \subseteq Handshake /\ Dial \subseteq Handshake /\ Present \subseteq Caller
         /\ Queued \subseteq Question /\ asking \subseteq Question /\ Asked \subseteq Question
         /\ asking \cap Queued = {}
         /\ \A c \in Present : /\ CallerInv(c) /\ caller[c] \in CallerState
                               /\ caller[c].ride \in Dial \cup {NoDial}
                               /\ c \in Handshake /\ c \in Caller /\ c \notin Dial
         /\ DOMAIN caller = Present /\ DOMAIN handshake = Handshake /\ DOMAIN fanout = Dial
BY PromptsAssumption DEF IndInv, WindowInv, CallerInv, Types, Handshake, CallerState,
   BackendInv,
   AskedInv, Asked, Present

(* A caller that is left alone while others come and go.                   *)
LEMMA Others ==
  ASSUME IndInv, NEW x \in Present, caller'[x] = caller[x],
         handshake'[x].at = "none" <=> handshake[x].at = "none",
         Queued' \subseteq Queued, stray \cap Queued' \subseteq stray', Asked' \subseteq Asked,
         \A q \in Question : Sent(q)' => Sent(q) \/ q \in Asked,
         caller[x].ride \in Dial =>
           LET d == caller[x].ride
           IN /\ handshake'[d].at = "none" <=> handshake[d].at = "none"
              /\ handshake[d].at = "up" => handshake'[d].at = "up"
              /\ handshake'[d].at # "up" => fanout[d].watchers \subseteq fanout'[d].watchers
  PROVE  CallerInv(x)'
<1>1. /\ CallerInv(x) /\ caller[x].ride \in Dial \cup {NoDial} /\ x \in Handshake
  BY TypeFacts
<1>2. caller[x].at = "riding" =>
        \A q \in Of(x) : q \notin Asked /\ ~Sent(q) => q \notin Asked' /\ ~Sent(q)'
  BY <1>1, QuestionParts
<1>3. caller[x].ride # NoDial =>
        LET d == caller[x].ride
        IN /\ handshake'[d].at # "none"
           /\ handshake[d].at = "up" => handshake'[d].at = "up"
           /\ handshake'[d].at # "up" => fanout[d].watchers \subseteq fanout'[d].watchers
  BY <1>1 DEF CallerInv, AwaitsInv
<1> QED BY <1>1, <1>2, <1>3, Bystander

(* The shared session is closed.                                           *)
LEMMA ReleaseWindow ==
  ASSUME IndInv, releaseSession
  PROVE  WindowInv'
<1> USE TypeFacts
<1>1. /\ UNCHANGED <<caller, fanout, asking, queue, confirms, stray>>
      /\ Present' = Present /\ Queued' = Queued /\ Asked' = Asked
      /\ current \in Dial /\ handshake[current].at = "up" /\ current' = NoDial
      /\ \A c \in Present : caller[c].ride # current
  BY DEF releaseSession, Present, Queued, Asked, Types
<1>2. \A q : Sent(q)' = Sent(q)
  BY <1>1 DEF Sent
<1>3. /\ \A g \in Handshake : g # current => handshake'[g] = handshake[g]
      /\ handshake'[current].at = "none"
  BY <1>1 DEF releaseSession, Types, NoHandshake
<1>4. \A q \in Queued : q \in Question /\ q[1] \in Handshake /\ q[1] # current
  <2>1. Queued \subseteq Question /\ Queued \subseteq Asked
    BY DEF Types, Asked
  <2>2. \A q \in Asked : handshake[q[1]].at # "up"
    BY DEF BackendInv, AskedInv
  <2> QED BY <1>1, <2>1, <2>2, QuestionParts
<1>5. RaisedInv'
  BY <1>1 DEF RaisedInv
<1>6. PresentInv'
  BY <1>1, <1>3, PromptsAssumption DEF PresentInv
<1>7. DeadQuestionsGo'
  BY <1>1, <1>3, <1>4 DEF DeadQuestionsGo
<1>8. ASSUME NEW x \in Present PROVE CallerInv(x)'
  <2>1. handshake'[x] = handshake[x] /\ caller[x].ride # current
    BY <1>1, <1>3
  <2> QED BY <1>1, <1>2, <1>3, <2>1, Others
<1> QED BY <1>1, <1>5, <1>6, <1>7, <1>8 DEF WindowInv, CallerInv

(* A connect begins.                                                       *)
LEMMA OpenWindow ==
  ASSUME IndInv, NEW c \in Present, open(c)
  PROVE  WindowInv'
<1> USE TypeFacts
<1>1. /\ UNCHANGED <<asking, queue, confirms, stray>> /\ Queued' = Queued /\ Asked' = Asked
      /\ caller[c].at \in {"idle", "over"} /\ Forgotten(c)
  BY DEF open, Queued, Asked
<1>2. /\ \A q : Sent(q)' = Sent(q)
      /\ handshake[c].at = "none" /\ \A q \in Of(c) : q \notin Asked /\ ~Sent(q)
      /\ Own(c) = {} /\ Own(c)' = {}
  BY <1>1, ForgottenIs DEF Sent, Own, Asked
<1>3. CASE ~Rides(c)
  <2> DEFINE armed == Kind[c] # "pane"
  <2>1. /\ caller' = [caller EXCEPT ![c] =
             [Idle EXCEPT !.at = "opening", !.here = TRUE, !.armed = armed]]
        /\ handshake' = [handshake EXCEPT ![c] = OwnHandshake(c)]
        /\ UNCHANGED <<fanout, current>>
    BY <1>3 DEF open
  <2> HIDE DEF armed
  <2>2. /\ Present' = Present /\ \A x \in Present : x # c => caller'[x] = caller[x]
        /\ \A g \in Handshake : g # c => handshake'[g] = handshake[g]
        /\ handshake'[c].at = "shaking"
        /\ caller'[c].at = "opening" /\ caller'[c].here = TRUE /\ caller'[c].armed = armed
        /\ caller'[c].ride = NoDial /\ caller'[c].told = {} /\ caller'[c].late = FALSE
    BY <2>1, ShakingIs DEF Idle, Present
  <2>3. Kind[c] \in {"pane", "sshTest", "rdpTest"}
    BY <1>3, PromptsAssumption DEF Rides
  <2>4. RaisedInv'
    BY <1>1, <2>1 DEF RaisedInv
  <2>5. PresentInv'
    BY <1>1, <2>1, <2>2, <2>3 DEF PresentInv, Types
  <2>6. DeadQuestionsGo'
    <3>1. \A q \in Queued : q \in Question /\ q[1] \in Handshake /\ q[1] # c
      BY <1>2, QuestionParts DEF Asked
    <3> QED BY <1>1, <2>2, <3>1 DEF DeadQuestionsGo, PresentInv, Asked
  <2>7. CallerInv(c)'
    <3>1. AwaitsInv(c)'
      BY <2>2, <2>3 DEF AwaitsInv
    <3>2. StandsInv(c)'
      BY <1>2, <2>2 DEF StandsInv, armed
    <3>3. KnowsInv(c)'
      BY <1>2, <2>2 DEF KnowsInv
    <3> QED BY <3>1, <3>2, <3>3 DEF CallerInv
  <2>8. ASSUME NEW x \in Present, x # c PROVE CallerInv(x)'
    <3>1. handshake'[x] = handshake[x] /\ caller'[x] = caller[x]
      BY <2>2, <2>8
    <3>2. caller[x].ride \in Dial => handshake'[caller[x].ride] = handshake[caller[x].ride]
      BY <2>2
    <3> QED BY <1>1, <1>2, <2>1, <3>1, <3>2, Others
  <2> QED BY <2>2, <2>4, <2>5, <2>6, <2>7, <2>8 DEF WindowInv, CallerInv
<1>4. CASE Rides(c) /\ current # NoDial /\ watchDial(current, c) /\ UNCHANGED <<handshake, current>>
  <2> DEFINE d == current
             watches == handshake[d].at # "up" /\ Hears(c)
             told == IF watches THEN fanout[d].raised \cap Queued ELSE {}
  <2>1. /\ caller' = [caller EXCEPT ![c] =
             [Idle EXCEPT !.at = "riding", !.here = TRUE, !.ride = d, !.told = told]]
        /\ fanout' = IF watches THEN [fanout EXCEPT ![d].watchers = @ \cup {c}] ELSE fanout
        /\ d \in Dial /\ d \in Handshake /\ handshake' = handshake /\ current' = current
    BY <1>4 DEF watchDial, Types
  <2>2. /\ \A e \in Dial : /\ fanout'[e].raised = fanout[e].raised
                           /\ fanout[e].watchers \subseteq fanout'[e].watchers
                           /\ \A x \in fanout'[e].watchers :
                                x \in fanout[e].watchers \/ (x = c /\ Hears(c))
        /\ watches => c \in fanout'[d].watchers
    BY <2>1 DEF Types, FanoutState
  <2>3. watches => Queued \cap Of(d) \subseteq told
    BY <2>1 DEF RaisedInv
  <2>4. handshake[d].at = "up" => Queued \cap Of(d) = {}
    BY <2>1, ShakingUnasked DEF Asked
  <2> HIDE DEF told
  <2>5. /\ Present' = Present /\ \A x \in Present : x # c => caller'[x] = caller[x]
        /\ caller'[c].at = "riding" /\ caller'[c].here = TRUE /\ caller'[c].armed = FALSE
        /\ caller'[c].ride = d /\ caller'[c].told = told /\ caller'[c].late = FALSE
    BY <2>1 DEF Idle, Present
  <2>6. RaisedInv'
    BY <1>1, <2>2 DEF RaisedInv
  <2>7. PresentInv'
    BY <1>1, <2>1, <2>5 DEF PresentInv
  <2>8. DeadQuestionsGo'
    <3>1. \A q \in Queued : q \in Question /\ q[1] \in Handshake /\ q[1] # c
      BY <1>2, QuestionParts DEF Asked
    <3> QED BY <1>1, <2>1, <2>5, <3>1 DEF DeadQuestionsGo, PresentInv, Asked
  <2>9. CallerInv(c)'
    <3>1. handshake[d].at # "none" /\ d # NoDial
      BY <1>4, <2>1 DEF PresentInv
    <3>2. AwaitsInv(c)'
      BY <1>1, <1>2, <1>4, <2>1, <2>5, <3>1 DEF AwaitsInv
    <3>3. StandsInv(c)'
      <4>1. Kind[c] # "sshTest"
        BY <1>4, PromptsAssumption DEF Rides
      <4> QED BY <2>5, <4>1 DEF StandsInv
    <3>4. KnowsInv(c)'
      <4>1. Hears(c) => Queued' \cap Of(d) \subseteq told
        BY <1>1, <2>3, <2>4
      <4>2. Hears(c) /\ handshake'[d].at # "up" => c \in fanout'[d].watchers
        BY <2>1, <2>2
      <4> HIDE DEF d, watches
      <4> QED BY <1>2, <2>5, <4>1, <4>2 DEF KnowsInv
    <3> QED BY <3>2, <3>3, <3>4 DEF CallerInv
  <2>10. ASSUME NEW x \in Present, x # c PROVE CallerInv(x)'
    <3>1. handshake'[x] = handshake[x] /\ caller'[x] = caller[x]
      BY <2>1, <2>5, <2>10
    <3>2. caller[x].ride \in Dial =>
            /\ handshake'[caller[x].ride] = handshake[caller[x].ride]
            /\ fanout[caller[x].ride].watchers \subseteq fanout'[caller[x].ride].watchers
      BY <2>1, <2>2
    <3> QED BY <1>1, <1>2, <3>1, <3>2, Others
  <2> QED BY <2>5, <2>6, <2>7, <2>8, <2>9, <2>10 DEF WindowInv, CallerInv
<1>5. ASSUME Rides(c), NEW d \in Dial, Forgotten(d), current' = d,
             handshake' = [handshake EXCEPT ![d] = Shaking(Hop \ pinned)],
             fanout' = [fanout EXCEPT ![d] = [NoFanout EXCEPT !.watchers =
                                                IF Hears(c) THEN {c} ELSE {}]],
             caller' = [caller EXCEPT ![c] =
                          [Idle EXCEPT !.at = "riding", !.here = TRUE, !.ride = d]]
      PROVE  WindowInv'
  <2>1. /\ d \in Handshake /\ handshake[d].at = "none"
        /\ \A q \in Of(d) : q \notin Asked /\ ~Sent(q)
        /\ \A x \in Present : caller[x].ride # d
    BY <1>5, ForgottenIs DEF Forgotten
  <2>2. /\ Present' = Present /\ \A x \in Present : x # c => caller'[x] = caller[x]
        /\ caller'[c].at = "riding" /\ caller'[c].here = TRUE /\ caller'[c].armed = FALSE
        /\ caller'[c].ride = d /\ caller'[c].told = {} /\ caller'[c].late = FALSE
    BY <1>5 DEF Idle, Present
  <2>3. /\ \A g \in Handshake : g # d => handshake'[g] = handshake[g]
        /\ handshake'[d].at = "shaking"
    BY <1>5, ShakingIs
  <2>4. /\ \A e \in Dial : e # d => fanout'[e] = fanout[e]
        /\ fanout'[d].raised = {} /\ fanout'[d].watchers = IF Hears(c) THEN {c} ELSE {}
    BY <1>5 DEF NoFanout
  <2>5. Queued \cap Of(d) = {}
    BY <2>1 DEF Asked
  <2>6. RaisedInv'
    <3> SUFFICES ASSUME NEW e \in Dial
                 PROVE  /\ Queued \cap Of(e) \subseteq fanout'[e].raised
                        /\ fanout'[e].raised \subseteq Of(e)
                        /\ \A x \in fanout'[e].watchers : Hears(x)
      BY <1>1 DEF RaisedInv
    <3>1. CASE e = d
      BY <2>4, <2>5, <3>1
    <3>2. CASE e # d
      BY <2>4, <3>2 DEF RaisedInv
    <3> QED BY <3>1, <3>2
  <2>7. PresentInv'
    BY <1>1, <1>5, <2>2, <2>3, PromptsAssumption DEF PresentInv
  <2>8. DeadQuestionsGo'
    <3>1. \A q \in Queued : q \in Question /\ q[1] \in Handshake /\ q[1] # c /\ q[1] # d
      BY <1>2, <2>1, QuestionParts DEF Asked
    <3> QED BY <1>1, <2>2, <2>3, <3>1 DEF DeadQuestionsGo, PresentInv, Asked
  <2>9. CallerInv(c)'
    <3>1. handshake'[d].at # "none" /\ d # NoDial /\ handshake'[c] = handshake[c]
      BY <2>3, PromptsAssumption
    <3>2. AwaitsInv(c)'
      BY <1>1, <1>2, <1>5, <2>2, <3>1 DEF AwaitsInv
    <3>3. StandsInv(c)'
      <4>1. Kind[c] # "sshTest"
        BY <1>5, PromptsAssumption DEF Rides
      <4> QED BY <2>2, <4>1 DEF StandsInv
    <3>4. KnowsInv(c)'
      BY <1>1, <1>2, <2>2, <2>4, <2>5 DEF KnowsInv
    <3> QED BY <3>2, <3>3, <3>4 DEF CallerInv
  <2>10. ASSUME NEW x \in Present, x # c PROVE CallerInv(x)'
    <3>1. handshake'[x] = handshake[x] /\ caller'[x] = caller[x]
      BY <1>5, <2>2, <2>3, <2>10
    <3>2. caller[x].ride \in Dial =>
            /\ handshake'[caller[x].ride] = handshake[caller[x].ride]
            /\ fanout'[caller[x].ride] = fanout[caller[x].ride]
      BY <2>1, <2>3, <2>4
    <3> QED BY <1>1, <1>2, <3>1, <3>2, Others
  <2> QED BY <2>2, <2>6, <2>7, <2>8, <2>9, <2>10 DEF WindowInv, CallerInv
<1> QED BY <1>3, <1>4, <1>5 DEF open, sessionFor

(* The dial is up.                                                         *)
LEMMA RideEndsWindow ==
  ASSUME IndInv, NEW c \in Present, rideEnds(c)
  PROVE  WindowInv'
<1> USE TypeFacts
<1> DEFINE d == caller[c].ride
           armed == Kind[c] = "rdpTest"
<1>1. /\ UNCHANGED <<fanout, current, asking, queue, confirms, stray>>
      /\ Queued' = Queued /\ Asked' = Asked
      /\ caller[c].at = "riding" /\ handshake[d].at = "up"
  BY DEF rideEnds, Queued, Asked
<1>2. /\ \A q : Sent(q)' = Sent(q)
      /\ handshake[c].at = "none" /\ \A q \in Of(c) : q \notin Asked /\ ~Sent(q)
      /\ d \in Dial /\ d \in Handshake /\ d # NoDial /\ Rides(c) /\ c \in Handshake
  BY <1>1 DEF Sent, CallerInv, AwaitsInv
<1>3. Own(c) = {} /\ Own(c)' = {} /\ Queued \cap Of(d) = {}
  BY <1>1, <1>2, ShakingUnasked DEF Own, Asked
<1>4. /\ caller[c].late = FALSE /\ caller[c].armed = FALSE
      /\ Kind[c] \in {"tab", "rule"} \/ (c \in Tunnelled /\ Kind[c] \in {"pane", "rdpTest"})
  <2>1. caller[c].late \in BOOLEAN /\ caller[c].armed \in BOOLEAN /\ StandsInv(c)
    BY DEF CallerInv, CallerState
  <2>2. caller[c].late = FALSE /\ caller[c].armed = FALSE
    BY <1>1, <2>1 DEF StandsInv
  <2>3. Kind[c] \in {"tab", "rule"} \/ (c \in Tunnelled /\ Kind[c] \in {"pane", "rdpTest"})
    BY <1>2, PromptsAssumption DEF Rides
  <2> QED BY <2>2, <2>3
<1> HIDE DEF d
<1>5. CASE /\ c \in Tunnelled /\ (caller[c].here \/ Kind[c] = "rdpTest")
           /\ caller' = [caller EXCEPT ![c].at = "opening", ![c].armed = armed]
           /\ handshake' = [handshake EXCEPT ![c] = OwnHandshake(c)]
  <2> HIDE DEF armed
  <2>1. /\ Present' = Present /\ \A x \in Present : x # c => caller'[x] = caller[x]
        /\ \A g \in Handshake : g # c => handshake'[g] = handshake[g]
        /\ handshake'[c].at = "shaking"
    BY <1>2, <1>5, ShakingIs DEF Present
  <2>2. /\ caller'[c].at = "opening" /\ caller'[c].here = caller[c].here
        /\ caller'[c].armed = armed /\ caller'[c].ride = d /\ caller'[c].told = caller[c].told
        /\ caller'[c].late = FALSE
    BY <1>4, <1>5 DEF CallerState, d
  <2>3. Kind[c] \in {"pane", "rdpTest"}
    BY <1>5, PromptsAssumption
  <2>4. RaisedInv'
    BY <1>1 DEF RaisedInv
  <2>5. PresentInv'
    BY <1>1, <2>1, <2>3 DEF PresentInv, Types
  <2>6. DeadQuestionsGo'
    <3>1. \A q \in Queued : q \in Question /\ q[1] \in Handshake /\ q[1] # c
      BY <1>2, QuestionParts DEF Asked
    <3> QED BY <1>1, <2>1, <3>1 DEF DeadQuestionsGo, PresentInv, Asked
  <2>7. CallerInv(c)'
    <3>1. handshake'[d] = handshake[d]
      BY <1>2, <2>1
    <3>2. AwaitsInv(c)'
      BY <1>1, <1>2, <2>1, <2>2, <2>3, <3>1 DEF AwaitsInv
    <3>3. StandsInv(c)'
      BY <1>3, <1>5, <2>2, <2>3 DEF StandsInv, armed
    <3>4. KnowsInv(c)'
      BY <1>1, <1>3, <2>2 DEF KnowsInv
    <3> QED BY <3>2, <3>3, <3>4 DEF CallerInv
  <2>8. ASSUME NEW x \in Present, x # c PROVE CallerInv(x)'
    <3>1. handshake'[x] = handshake[x] /\ caller'[x] = caller[x]
      BY <2>1, <2>8
    <3>2. caller[x].ride \in Dial => handshake'[caller[x].ride] = handshake[caller[x].ride]
      BY <2>1
    <3> QED BY <1>1, <1>2, <3>1, <3>2, Others
  <2> QED BY <2>1, <2>4, <2>5, <2>6, <2>7, <2>8 DEF WindowInv, CallerInv
<1>6. ASSUME handshake' = handshake, NEW new, caller' = [caller EXCEPT ![c] = new],
             \/ new = Idle
             \/ /\ new = [caller[c] EXCEPT !.at = "open", !.told = {}]
                /\ Kind[c] \in {"tab", "rule", "pane"}
      PROVE  WindowInv'
  <2>1. /\ Present' = Present /\ \A x \in Present : x # c => caller'[x] = caller[x]
        /\ caller'[c] = new
    BY <1>6 DEF Present
  <2>2. RaisedInv'
    BY <1>1 DEF RaisedInv
  <2>3. PresentInv'
    BY <1>1, <1>6, <2>1 DEF PresentInv
  <2>4. DeadQuestionsGo'
    <3>1. \A q \in Queued : q \in Question /\ q[1] \in Handshake /\ q[1] # c
      BY <1>2, QuestionParts DEF Asked
    <3> QED BY <1>1, <1>6, <2>1, <3>1 DEF DeadQuestionsGo, PresentInv, Asked
  <2>5. CallerInv(c)'
    <3>1. /\ new.at \in {"idle", "open"} /\ new.told = {} /\ new.armed = FALSE
          /\ new.late = FALSE /\ new.ride \in {d, NoDial}
          /\ new.at = "idle" => new.here = FALSE
          /\ new.at = "open" => Kind[c] \in {"tab", "rule", "pane"}
      <4>1. CASE new = Idle
        BY <4>1 DEF Idle
      <4>2. CASE /\ new = [caller[c] EXCEPT !.at = "open", !.told = {}]
                 /\ Kind[c] \in {"tab", "rule", "pane"}
        <5>1. caller[c] \in CallerState
          OBVIOUS
        <5>2. /\ new.at = "open" /\ new.told = {} /\ new.armed = caller[c].armed
              /\ new.late = caller[c].late /\ new.ride = d
          BY <4>2, <5>1 DEF CallerState, d
        <5> QED BY <1>4, <4>2, <5>2
      <4> QED BY <1>6, <4>1, <4>2
    <3>2. AwaitsInv(c)'
      BY <1>1, <1>2, <1>6, <2>1, <3>1 DEF AwaitsInv
    <3>3. StandsInv(c)'
      BY <2>1, <3>1 DEF StandsInv
    <3>4. KnowsInv(c)'
      BY <1>1, <1>3, <2>1, <3>1 DEF KnowsInv
    <3> QED BY <3>2, <3>3, <3>4 DEF CallerInv
  <2>6. ASSUME NEW x \in Present, x # c PROVE CallerInv(x)'
    <3>1. caller'[x] = caller[x]
      BY <2>1, <2>6
    <3> QED BY <1>1, <1>2, <1>6, <3>1, Others
  <2> QED BY <2>1, <2>2, <2>3, <2>4, <2>5, <2>6 DEF WindowInv, CallerInv
<1>7. CASE /\ caller' = [caller EXCEPT ![c].at = "open", ![c].told = {}] /\ handshake' = handshake
           /\ c \notin Tunnelled
  <2>1. caller' = [caller EXCEPT ![c] = [caller[c] EXCEPT !.at = "open", !.told = {}]]
    BY <1>7
  <2> QED BY <1>4, <1>6, <1>7, <2>1
<1> QED BY <1>5, <1>6, <1>7 DEF rideEnds

(* A question is announced.                                                *)
LEMMA PromptWindow ==
  ASSUME IndInv, Types', NEW q \in asking, onHostKeyPrompt(q)
  PROVE  WindowInv'
<1> USE TypeFacts
<1> DEFINE h == q[1]
<1>1. /\ asking' = asking \ {q} /\ UNCHANGED <<handshake, current>>
      /\ q \in Question /\ h \in Handshake /\ q \in Of(h) /\ q \in Asked /\ q \notin Queued
      /\ handshake[h].at \notin {"shaking", "up"}
  BY QuestionParts DEF onHostKeyPrompt, Asked, BackendInv, AskedInv
<1> HIDE DEF h
<1>2. CASE /\ Confirm({q}, FALSE) /\ UNCHANGED <<fanout, caller, queue, stray>>
  <2>1. Queued' = Queued /\ Asked' \subseteq Asked
    BY <1>1, <1>2 DEF Queued, Asked
  <2>2. ASSUME NEW r PROVE Sent(r)' => Sent(r) \/ r = q
    <3>1. (r \in {q} <=> r = q) /\ FALSE \in BOOLEAN
      OBVIOUS
    <3> QED BY <1>2, <3>1, ConfirmIs DEF Sent
  <2> QED BY <1>1, <1>2, <2>1, <2>2, WindowKeeps
<1>3. ASSUME Raise(q), UNCHANGED confirms, Present' = Present,
             \A d \in Dial : /\ fanout'[d].watchers = fanout[d].watchers
                             /\ fanout[d].raised \subseteq fanout'[d].raised
                             /\ fanout'[d].raised \subseteq fanout[d].raised \cup {q}
                             /\ fanout'[d].raised = fanout[d].raised \/ d = h
                             /\ d = h => q \in fanout'[d].raised,
             \A x \in Present :
               /\ caller'[x].at = caller[x].at /\ caller'[x].here = caller[x].here
               /\ caller'[x].ride = caller[x].ride /\ caller'[x].late = caller[x].late
               /\ caller'[x].armed = TRUE => caller[x].armed = TRUE /\ x # h
               /\ caller'[x].told \subseteq caller[x].told \cup {q}
               /\ Kind[x] # "sshTest" => caller[x].told \subseteq caller'[x].told
               /\ x = h => /\ q \in caller'[x].told
                           /\ ~(Kind[x] = "pane" /\ caller[x].here = FALSE)
               /\ Kind[x] = "sshTest" /\ x # h => caller'[x].told = caller[x].told
               /\ h \in Dial /\ x \in fanout[h].watchers => q \in caller'[x].told
      PROVE  WindowInv'
  <2>1. /\ Queued' = Queued \cup {q} /\ Asked' = Asked
        /\ stray \subseteq stray' /\ stray' \subseteq stray \cup {q}
        /\ handshake[h].at \in {"none", "up"} => q \in stray'
        /\ h \in Caller /\ caller[h].late => q \in stray'
    BY <1>1, <1>3, RaiseIs DEF Asked, h
  <2>2. \A r : Sent(r)' = Sent(r)
    BY <1>3 DEF Sent
  <2>3. RaisedInv'
    <3> SUFFICES ASSUME NEW d \in Dial
                 PROVE  /\ Queued' \cap Of(d) \subseteq fanout'[d].raised
                        /\ fanout'[d].raised \subseteq Of(d)
                        /\ \A x \in fanout'[d].watchers : Hears(x)
      BY DEF RaisedInv
    <3>1. CASE d = h
      BY <1>1, <1>3, <2>1, <3>1 DEF RaisedInv
    <3>2. CASE d # h
      <4>1. q \notin Of(d)
        BY <1>1, <3>2, QuestionParts
      <4> QED BY <1>3, <2>1, <3>2, <4>1 DEF RaisedInv
    <3> QED BY <3>1, <3>2
  <2>4. PresentInv'
    BY <1>1, <1>3, <2>1 DEF PresentInv
  <2>5. DeadQuestionsGo'
    <3> SUFFICES ASSUME NEW r \in Queued', r \notin stray'
                 PROVE  \/ handshake[r[1]].at \notin {"none", "up"}
                        \/ /\ r[1] \in Caller /\ Kind[r[1]] = "pane"
                           /\ caller'[r[1]].at = "failed"
      BY <1>1 DEF DeadQuestionsGo
    <3>1. CASE r = q
      BY <2>1, <3>1 DEF h
    <3>2. CASE r # q
      <4>1. r \in Queued \ stray /\ r \in Asked
        BY <2>1, <3>2 DEF Asked
      <4>2. r[1] \in Caller => r[1] \in Present
        BY <4>1 DEF PresentInv
      <4> QED BY <1>3, <4>1, <4>2 DEF DeadQuestionsGo
    <3> QED BY <3>1, <3>2
  <2>6. ASSUME NEW x \in Present PROVE CallerInv(x)'
    <3>1. /\ AwaitsInv(x) /\ StandsInv(x) /\ KnowsInv(x) /\ x \in Handshake /\ x \in Caller
          /\ caller[x] \in CallerState /\ caller[x].ride \in Dial \cup {NoDial}
      BY DEF CallerInv
    <3>2. x # h => q \notin Of(x) /\ Own(x)' = Own(x)
      BY <1>1, <2>1, <3>1, QuestionParts DEF Own
    <3>3. x = h => Own(x) = {} /\ Own(x)' = {q}
      <4>1. \A r \in Asked : r[1] = h => r = q
        BY <1>1 DEF BackendInv, AskedInv, h
      <4>2. x = h => \A r \in Own(x) : r = q
        BY <3>1, <4>1, QuestionParts DEF Own, Asked
      <4> QED BY <1>1, <2>1, <4>2 DEF Own
    <3>4. /\ caller'[x].at = caller[x].at /\ caller'[x].here = caller[x].here
          /\ caller'[x].ride = caller[x].ride /\ caller'[x].late = caller[x].late
          /\ caller'[x].armed = TRUE => caller[x].armed = TRUE /\ x # h
          /\ caller'[x].told \subseteq caller[x].told \cup {q}
          /\ Kind[x] # "sshTest" => caller[x].told \subseteq caller'[x].told
          /\ x = h => q \in caller'[x].told /\ ~(Kind[x] = "pane" /\ caller[x].here = FALSE)
          /\ Kind[x] = "sshTest" /\ x # h => caller'[x].told = caller[x].told
          /\ h \in Dial /\ x \in fanout[h].watchers => q \in caller'[x].told
      BY <1>3
    <3>5. AwaitsInv(x)'
      BY <1>1, <2>1, <2>2, <3>1, <3>4 DEF AwaitsInv
    <3>6. StandsInv(x)'
      <4>1. Kind[x] = "sshTest" => caller'[x].told \subseteq Of(x)
        BY <1>1, <3>1, <3>4 DEF StandsInv
      <4>2. caller'[x].late = TRUE =>
              /\ caller'[x].at \in {"opening", "over"} /\ caller'[x].armed = FALSE
              /\ Kind[x] # "pane" /\ caller'[x].ride = NoDial
        <5>1. caller'[x] \in CallerState
          BY <1>3 DEF Types, Present
        <5> QED BY <3>1, <3>4, <5>1 DEF StandsInv, CallerState
      <4>3. caller'[x].armed = TRUE =>
              /\ caller'[x].at = "opening" /\ Kind[x] # "pane" /\ Own(x)' = {}
              /\ Kind[x] = "sshTest" => caller'[x].told = {}
        BY <3>1, <3>2, <3>4 DEF StandsInv
      <4>4. /\ caller'[x].at = "idle" => caller'[x].here = FALSE
            /\ caller'[x].at = "failed" =>
                 Kind[x] = "pane" /\ caller'[x].here = TRUE /\ caller'[x].ride = NoDial
            /\ caller'[x].at = "over" => caller'[x].late = TRUE
            /\ caller'[x].at = "open" => Kind[x] \in {"tab", "rule", "pane"}
        BY <3>1, <3>4 DEF StandsInv
      <4> QED BY <4>1, <4>2, <4>3, <4>4 DEF StandsInv
    <3>7. KnowsInv(x)'
      <4>1. Own(x)' \subseteq caller'[x].told \cup stray'
        <5>1. CASE x = h
          BY <3>3, <3>4, <5>1
        <5>2. CASE x # h
          BY <2>1, <3>1, <3>2, <3>4, <5>2 DEF KnowsInv
        <5> QED BY <5>1, <5>2
      <4>2. caller[x].late = TRUE \/ (Kind[x] = "pane" /\ caller[x].here = FALSE)
              => Own(x)' \subseteq stray'
        <5>1. CASE x = h
          BY <2>1, <3>1, <3>3, <3>4, <5>1
        <5>2. CASE x # h
          BY <2>1, <3>1, <3>2, <5>2 DEF KnowsInv
        <5> QED BY <5>1, <5>2
      <4>3. ASSUME Hears(x), caller[x].here = TRUE, caller[x].ride # NoDial
            PROVE  Queued' \cap Of(caller[x].ride) \subseteq caller'[x].told
        <5> DEFINE d == caller[x].ride
        <5>1. /\ d \in Dial /\ d \in Handshake /\ Kind[x] # "sshTest"
              /\ Queued \cap Of(d) \subseteq caller'[x].told
          BY <3>1, <3>4, <4>3 DEF KnowsInv, Hears
        <5>2. CASE d = h
          <6>1. caller[x].at = "riding" /\ handshake[d].at # "up"
            BY <1>1, <3>1, <4>3, <5>2 DEF AwaitsInv
          <6>2. x \in fanout[d].watchers
            BY <3>1, <4>3, <6>1 DEF KnowsInv
          <6> QED BY <2>1, <3>4, <5>1, <5>2, <6>2
        <5>3. CASE d # h
          <6>1. q \notin Of(d)
            BY <1>1, <5>1, <5>3, QuestionParts
          <6> QED BY <2>1, <5>1, <6>1
        <5> QED BY <5>2, <5>3
      <4>4. Hears(x) /\ caller[x].at = "riding" /\ handshake[caller[x].ride].at # "up" =>
              x \in fanout'[caller[x].ride].watchers
        BY <1>3, <3>1 DEF KnowsInv, AwaitsInv
      <4> QED BY <1>1, <3>4, <4>1, <4>2, <4>3, <4>4 DEF KnowsInv
    <3> QED BY <3>5, <3>6, <3>7 DEF CallerInv
  <2> QED BY <1>3, <2>3, <2>4, <2>5, <2>6 DEF WindowInv, CallerInv
<1>4. CASE h \in Dial
  <2>1. /\ fanout' = [fanout EXCEPT ![h].raised = @ \cup {q}]
        /\ caller' = [c \in Present |-> IF c \in fanout[h].watchers
                        THEN [caller[c] EXCEPT !.told = @ \cup {q}] ELSE caller[c]]
        /\ Raise(q) /\ UNCHANGED confirms
    BY <1>4 DEF onHostKeyPrompt, h
  <2>2. Present' = Present
    BY <2>1 DEF Present
  <2>3. \A d \in Dial : /\ fanout'[d].watchers = fanout[d].watchers
                        /\ fanout[d].raised \subseteq fanout'[d].raised
                        /\ fanout'[d].raised \subseteq fanout[d].raised \cup {q}
                        /\ fanout'[d].raised = fanout[d].raised \/ d = h
                        /\ d = h => q \in fanout'[d].raised
    BY <1>4, <2>1 DEF Types, FanoutState
  <2>4. ASSUME NEW x \in Present
        PROVE  /\ caller'[x].at = caller[x].at /\ caller'[x].here = caller[x].here
               /\ caller'[x].ride = caller[x].ride /\ caller'[x].late = caller[x].late
               /\ caller'[x].armed = TRUE => caller[x].armed = TRUE /\ x # h
               /\ caller'[x].told \subseteq caller[x].told \cup {q}
               /\ Kind[x] # "sshTest" => caller[x].told \subseteq caller'[x].told
               /\ x = h => /\ q \in caller'[x].told
                           /\ ~(Kind[x] = "pane" /\ caller[x].here = FALSE)
               /\ Kind[x] = "sshTest" /\ x # h => caller'[x].told = caller[x].told
               /\ h \in Dial /\ x \in fanout[h].watchers => q \in caller'[x].told
    <3>1. x # h /\ (x \in fanout[h].watchers => Kind[x] # "sshTest")
      BY <1>4 DEF RaisedInv, Hears
    <3>2. CASE x \in fanout[h].watchers
      <4>1. caller'[x] = [caller[x] EXCEPT !.told = @ \cup {q}] /\ caller[x] \in CallerState
        BY <2>1, <3>2
      <4> QED BY <3>1, <3>2, <4>1 DEF CallerState
    <3>3. CASE x \notin fanout[h].watchers
      BY <2>1, <3>1, <3>3
    <3> QED BY <3>2, <3>3
  <2> QED BY <1>3, <2>1, <2>2, <2>3, <2>4
<1>5. CASE h \notin Dial /\ ~(Kind[h] = "pane" /\ ~caller[h].here)
  <2> DEFINE told == IF Kind[h] = "sshTest" THEN {q} ELSE caller[h].told \cup {q}
  <2>1. h \in Present
    BY <1>1, <1>5 DEF PresentInv, h, Handshake
  <2>2. /\ fanout' = fanout /\ Raise(q) /\ UNCHANGED confirms
        /\ caller' = [caller EXCEPT ![h].armed = FALSE, ![h].told = told]
    BY <1>5, <2>1 DEF onHostKeyPrompt, h
  <2>3. Present' = Present
    BY <2>2 DEF Present
  <2>4. q \in told /\ told \subseteq caller[h].told \cup {q}
        /\ (Kind[h] # "sshTest" => caller[h].told \subseteq told)
    OBVIOUS
  <2> HIDE DEF told
  <2>5. caller[h] \in CallerState
    BY <2>1
  <2>6. ASSUME NEW x \in Present
        PROVE  /\ caller'[x].at = caller[x].at /\ caller'[x].here = caller[x].here
               /\ caller'[x].ride = caller[x].ride /\ caller'[x].late = caller[x].late
               /\ caller'[x].armed = TRUE => caller[x].armed = TRUE /\ x # h
               /\ caller'[x].told \subseteq caller[x].told \cup {q}
               /\ Kind[x] # "sshTest" => caller[x].told \subseteq caller'[x].told
               /\ x = h => /\ q \in caller'[x].told
                           /\ ~(Kind[x] = "pane" /\ caller[x].here = FALSE)
               /\ Kind[x] = "sshTest" /\ x # h => caller'[x].told = caller[x].told
               /\ h \in Dial /\ x \in fanout[h].watchers => q \in caller'[x].told
    <3>1. CASE x = h
      <4>1. /\ caller'[h].at = caller[h].at /\ caller'[h].here = caller[h].here
            /\ caller'[h].ride = caller[h].ride /\ caller'[h].late = caller[h].late
            /\ caller'[h].armed = FALSE /\ caller'[h].told = told
        BY <2>1, <2>2, <2>5 DEF CallerState
      <4> QED BY <1>5, <2>4, <3>1, <4>1
    <3>2. CASE x # h
      <4>1. caller'[x] = caller[x]
        BY <2>2, <3>2
      <4> QED BY <1>5, <3>2, <4>1
    <3> QED BY <3>1, <3>2
  <2>7. \A d \in Dial : /\ fanout'[d].watchers = fanout[d].watchers
                        /\ fanout[d].raised \subseteq fanout'[d].raised
                        /\ fanout'[d].raised \subseteq fanout[d].raised \cup {q}
                        /\ fanout'[d].raised = fanout[d].raised \/ d = h
                        /\ d = h => q \in fanout'[d].raised
    BY <1>5, <2>2
  <2> QED BY <1>3, <2>2, <2>3, <2>6, <2>7
<1>6. CASE h \notin Dial /\ Kind[h] = "pane" /\ ~caller[h].here
  BY <1>2, <1>6 DEF onHostKeyPrompt, h
<1> QED BY <1>4, <1>5, <1>6

(* The queue after the finally of a test.                                  *)
LEMMA TestEndsIs ==
  ASSUME NEW c, TestEnds(c)
  PROVE  /\ Queued' = Queued \ caller[c].told /\ stray' = stray \ caller[c].told
         /\ \A q : Sent(q)' => Sent(q) \/ q \in Queued
<1>1. CASE Kind[c] = "sshTest"
  BY <1>1, UnqueueIs DEF TestEnds, dismiss, Sent
<1>2. CASE Kind[c] # "sshTest"
  <2>1. Confirm(caller[c].told \cap Queued, FALSE) /\ Unqueue(caller[c].told)
    BY <1>2 DEF TestEnds
  <2>2. ASSUME NEW q PROVE Sent(q)' => Sent(q) \/ q \in Queued
    BY <2>1, ConfirmIs DEF Sent
  <2> QED BY <2>1, <2>2, UnqueueIs
<1> QED BY <1>1, <1>2

(* The shared dial is answered.                                            *)
LEMMA SettlesWindow ==
  ASSUME IndInv, NEW d \in Dial, dialSettles(d)
  PROVE  WindowInv'
<1> USE TypeFacts
<1> DEFINE S == IF handshake[d].ok THEN {} ELSE fanout[d].raised
<1>1. /\ handshake[d].at = "ended" /\ d \in Handshake /\ UNCHANGED <<asking, confirms>>
      /\ Queued' = Queued \ S /\ stray' = stray \ S
      /\ handshake' = [handshake EXCEPT ![d] = IF @.ok THEN Up ELSE NoHandshake]
      /\ fanout' = [fanout EXCEPT ![d].watchers = {}]
      /\ current' = IF ~handshake[d].ok /\ current = d THEN NoDial ELSE current
      /\ handshake[d].ok \in BOOLEAN
  BY UnqueueIs DEF dialSettles, dismiss, Types, HandshakeState
<1>2. /\ Queued' \subseteq Queued /\ Asked' \subseteq Asked /\ stray \cap Queued' \subseteq stray'
      /\ \A q : Sent(q)' = Sent(q)
  BY <1>1 DEF Asked, Sent
<1>3. /\ \A g \in Handshake : g # d => handshake'[g] = handshake[g]
      /\ handshake[d].ok = TRUE => handshake'[d].at = "up"
      /\ handshake[d].ok = FALSE => handshake'[d].at = "none"
      /\ \A x \in Present : handshake'[x] = handshake[x]
  BY <1>1 DEF Up, NoHandshake
<1>4. Queued' \cap Of(d) = {}
  <2>1. CASE handshake[d].ok = TRUE
    <3>1. \A q \in Asked : q[1] # d
      BY <2>1 DEF BackendInv, AskedInv
    <3> QED BY <1>2, <3>1, QuestionParts DEF Asked
  <2>2. CASE handshake[d].ok = FALSE
    BY <1>1, <2>2 DEF RaisedInv
  <2> QED BY <1>1, <2>1, <2>2
<1>5. caller' = [c \in Present |->
        IF c \notin Riders(d) \/ handshake[d].ok THEN caller[c]
        ELSE IF Kind[c] = "pane" /\ caller[c].here
             THEN [caller[c] EXCEPT !.at = "failed", !.ride = NoDial] ELSE Idle]
  BY DEF dialSettles
<1>6. Present' = Present
  BY <1>5 DEF Present
<1>7. RaisedInv'
  <2>1. \A e \in Dial : /\ fanout'[e].raised = fanout[e].raised
                        /\ fanout'[e].watchers \subseteq fanout[e].watchers
    BY <1>1 DEF Types, FanoutState
  <2> QED BY <1>2, <2>1 DEF RaisedInv
<1>8. PresentInv'
  <2>1. current' # NoDial => handshake'[current'].at # "none"
    <3> SUFFICES ASSUME current' # NoDial PROVE handshake'[current'].at # "none"
      OBVIOUS
    <3>1. current' = current /\ current \in Handshake /\ handshake[current].at # "none"
      BY <1>1 DEF PresentInv, Types
    <3>2. CASE current = d
      BY <1>1, <1>3, <3>1, <3>2, PromptsAssumption
    <3>3. CASE current # d
      BY <1>3, <3>1, <3>3
    <3> QED BY <3>2, <3>3
  <2>2. \A c \in Caller : c \in Handshake /\ handshake'[c] = handshake[c]
    BY <1>3, PromptsAssumption
  <2> QED BY <1>2, <1>6, <2>1, <2>2 DEF PresentInv
<1>9. DeadQuestionsGo'
  <2> SUFFICES ASSUME NEW q \in Queued', q \notin stray'
               PROVE  \/ handshake'[q[1]].at \notin {"none", "up"}
                      \/ q[1] \in Caller /\ Kind[q[1]] = "pane" /\ caller'[q[1]].at = "failed"
    BY DEF DeadQuestionsGo
  <2>1. q \in Queued \ stray /\ q \in Question /\ q[1] \in Handshake /\ q[1] # d
    BY <1>2, <1>4, QuestionParts
  <2>2. handshake'[q[1]] = handshake[q[1]]
    BY <1>3, <2>1
  <2>3. q[1] \in Caller /\ caller[q[1]].at = "failed" => caller'[q[1]].at = "failed"
    <3>1. q[1] \in Caller => q[1] \in Present
      BY <2>1 DEF PresentInv, Asked
    <3>2. caller[q[1]].at = "failed" => q[1] \notin Riders(d)
      BY DEF Riders
    <3> QED BY <1>5, <3>1, <3>2
  <2> QED BY <2>1, <2>2, <2>3 DEF DeadQuestionsGo
<1>10. ASSUME NEW x \in Present PROVE CallerInv(x)'
  <2>0. CallerInv(x) /\ caller[x] \in CallerState /\ handshake'[x] = handshake[x]
    BY <1>3
  <2>1. CASE x \notin Riders(d) \/ handshake[d].ok
    <3>1. caller'[x] = caller[x]
      BY <1>5, <2>1
    <3>2. caller[x].ride \in Dial =>
            LET e == caller[x].ride
            IN /\ handshake'[e].at = "none" <=> handshake[e].at = "none"
               /\ handshake[e].at = "up" => handshake'[e].at = "up"
               /\ handshake'[e].at # "up" => fanout[e].watchers \subseteq fanout'[e].watchers
      <4> DEFINE e == caller[x].ride
      <4> SUFFICES ASSUME e \in Dial
                   PROVE  /\ handshake'[e].at = "none" <=> handshake[e].at = "none"
                          /\ handshake[e].at = "up" => handshake'[e].at = "up"
                          /\ handshake'[e].at # "up" =>
                               fanout[e].watchers \subseteq fanout'[e].watchers
        OBVIOUS
      <4>1. CASE e = d
        <5>1. x \in Riders(d)
          BY <1>1, <2>0, <4>1, PromptsAssumption DEF CallerInv, AwaitsInv, Riders
        <5> QED BY <1>1, <1>3, <2>1, <4>1, <5>1
      <4>2. CASE e # d
        BY <1>1, <1>3, <4>2
      <4> QED BY <4>1, <4>2
    <3> QED BY <1>2, <2>0, <3>1, <3>2, Others
  <2>2. CASE x \in Riders(d) /\ ~handshake[d].ok
    <3>1. /\ caller[x].at = "riding" /\ handshake[x].at = "none"
          /\ \A q \in Of(x) : q \notin Asked /\ ~Sent(q)
          /\ caller[x].late = FALSE /\ caller[x].armed = FALSE
      <4>1. /\ caller[x].at = "riding" /\ AwaitsInv(x) /\ StandsInv(x)
            /\ caller[x].late \in BOOLEAN /\ caller[x].armed \in BOOLEAN
        BY <2>0, <2>2 DEF Riders, CallerInv, CallerState
      <4>2. caller[x].late = FALSE /\ caller[x].armed = FALSE
        BY <4>1 DEF StandsInv
      <4> QED BY <4>1, <4>2 DEF AwaitsInv
    <3>2. Own(x)' = {}
      BY <1>2, <3>1 DEF Own, Asked
    <3>3. /\ caller'[x].ride = NoDial /\ caller'[x].late = FALSE /\ caller'[x].armed = FALSE
          /\ \/ caller'[x].at = "idle" /\ caller'[x].here = FALSE /\ caller'[x].told = {}
             \/ /\ caller'[x].at = "failed" /\ Kind[x] = "pane" /\ caller'[x].here = TRUE
                /\ caller'[x].told = caller[x].told
      <4>1. CASE Kind[x] = "pane" /\ caller[x].here
        <5>1. caller'[x] = [caller[x] EXCEPT !.at = "failed", !.ride = NoDial]
          BY <1>5, <2>2, <4>1
        <5> QED BY <2>0, <3>1, <4>1, <5>1 DEF CallerState
      <4>2. CASE ~(Kind[x] = "pane" /\ caller[x].here)
        <5>1. caller'[x] = Idle
          BY <1>5, <2>2, <4>2
        <5> QED BY <5>1 DEF Idle
      <4> QED BY <4>1, <4>2
    <3>4. AwaitsInv(x)'
      BY <2>0, <3>1, <3>3 DEF AwaitsInv
    <3>5. StandsInv(x)'
      BY <3>2, <3>3 DEF StandsInv
    <3>6. KnowsInv(x)'
      BY <3>2, <3>3 DEF KnowsInv
    <3> QED BY <3>4, <3>5, <3>6 DEF CallerInv
  <2> QED BY <2>1, <2>2
<1> QED BY <1>6, <1>7, <1>8, <1>9, <1>10 DEF WindowInv, CallerInv

(* The queue loses questions of c's, or of others who are not yet told,    *)
(* and c alone changes.                                                    *)
LEMMA OneLeaves ==
  ASSUME IndInv, NEW c \in Present,
         Present' = Present, \A x \in Present : x # c => caller'[x] = caller[x],
         \A g \in Handshake : g # c => handshake'[g] = handshake[g],
         UNCHANGED <<fanout, current>>, asking' = asking,
         Queued' \subseteq Queued, stray \cap Queued' \subseteq stray',
         Queued' \ stray' \subseteq Queued \ stray,
         \A q : Sent(q)' => Sent(q) \/ q \in Queued,
         handshake'[c] = handshake[c] \/ handshake'[c].at = "none",
         \A q \in Queued' \ stray' : q[1] = c =>
           \/ handshake'[c].at \notin {"none", "up"}
           \/ Kind[c] = "pane" /\ caller'[c].at = "failed",
         CallerInv(c)'
  PROVE  WindowInv'
<1> USE TypeFacts
<1>1. Asked' \subseteq Asked /\ Queued \subseteq Asked
  BY DEF Asked
<1>2. RaisedInv'
  BY DEF RaisedInv
<1>3. PresentInv'
  <2>1. current' # NoDial => handshake'[current'].at # "none"
    BY PromptsAssumption DEF PresentInv, Types
  <2>2. \A x \in Caller : handshake'[x] = handshake[x] \/ handshake'[x].at = "none"
    OBVIOUS
  <2> QED BY <1>1, <2>1, <2>2 DEF PresentInv
<1>4. DeadQuestionsGo'
  <2> SUFFICES ASSUME NEW q \in Queued', q \notin stray', q[1] # c
               PROVE  \/ handshake'[q[1]].at \notin {"none", "up"}
                      \/ q[1] \in Caller /\ Kind[q[1]] = "pane" /\ caller'[q[1]].at = "failed"
    BY DEF DeadQuestionsGo
  <2>1. q \in Queued \ stray /\ handshake'[q[1]] = handshake[q[1]]
    BY QuestionParts
  <2>2. q[1] \in Caller => q[1] \in Present /\ caller'[q[1]] = caller[q[1]]
    BY <1>1, <2>1 DEF PresentInv
  <2> QED BY <2>1, <2>2 DEF DeadQuestionsGo
<1>5. ASSUME NEW x \in Present, x # c PROVE CallerInv(x)'
  <2>1. handshake'[x] = handshake[x] /\ caller'[x] = caller[x]
    BY <1>5
  <2>2. caller[x].ride \in Dial => handshake'[caller[x].ride] = handshake[caller[x].ride]
    OBVIOUS
  <2> QED BY <1>1, <2>1, <2>2, Others
<1> QED BY <1>2, <1>3, <1>4, <1>5 DEF WindowInv, CallerInv

(* The reply of its own handshake.                                         *)
LEMMA OpenedWindow ==
  ASSUME IndInv, NEW c \in Present, opened(c)
  PROVE  WindowInv'
<1> USE TypeFacts
<1>1. /\ caller[c].at = "opening" /\ handshake[c].at = "ended"
      /\ handshake' = [handshake EXCEPT ![c] = NoHandshake]
      /\ UNCHANGED <<fanout, current>> /\ asking' = asking
      /\ \/ TestEnds(c)
         \/ UNCHANGED <<queue, confirms, stray>>
  BY DEF opened
<1>2. /\ \A g \in Handshake : g # c => handshake'[g] = handshake[g]
      /\ handshake'[c].at = "none"
  BY <1>1 DEF NoHandshake
<1>3. /\ AwaitsInv(c) /\ StandsInv(c) /\ KnowsInv(c) /\ caller[c] \in CallerState
      /\ caller[c].here \in BOOLEAN /\ caller[c].late \in BOOLEAN /\ caller[c].armed \in BOOLEAN
      /\ handshake[c].ok \in BOOLEAN /\ c \in Handshake
  BY DEF CallerInv, CallerState, Types, HandshakeState
<1>4. /\ Queued' \subseteq Queued /\ stray \cap Queued' \subseteq stray'
      /\ Queued' \ stray' \subseteq Queued \ stray
      /\ \A q : Sent(q)' => Sent(q) \/ q \in Queued
  <2>1. CASE TestEnds(c)
    BY <2>1, TestEndsIs
  <2>2. CASE UNCHANGED <<queue, confirms, stray>>
    BY <2>2 DEF Queued, Sent
  <2> QED BY <1>1, <2>1, <2>2
<1>5. ASSUME NEW new, caller' = [caller EXCEPT ![c] = new], new.at \in {"idle", "over", "open", "failed"},
             new.armed = FALSE,
             new.at \in {"idle", "open", "failed"} => new.late = FALSE,
             new.at = "idle" => new.here = FALSE /\ new.ride = NoDial /\ Own(c)' \subseteq stray',
             new.at = "over" => new = [caller[c] EXCEPT !.at = "over"] /\ caller[c].late = TRUE
                                /\ Own(c)' \subseteq stray',
             new.at = "open" => new = [caller[c] EXCEPT !.at = "open"] /\ Own(c)' = {}
                                /\ Kind[c] = "pane" /\ caller[c].here = TRUE,
             new.at = "failed" => /\ Kind[c] = "pane" /\ new.here = TRUE /\ new.ride = NoDial
                                  /\ Own(c)' \subseteq new.told \cup stray',
             Kind[c] = "sshTest" => new.told \subseteq Of(c)
      PROVE  WindowInv'
  <2>1. /\ Present' = Present /\ \A x \in Present : x # c => caller'[x] = caller[x]
        /\ caller'[c] = new
    BY <1>5 DEF Present
  <2>2. new.at = "over" =>
          /\ new.late = TRUE /\ new.ride = NoDial /\ Kind[c] # "pane" /\ new.told = caller[c].told
          /\ Own(c)' \subseteq stray'
    BY <1>3, <1>5 DEF CallerState, StandsInv
  <2>3. new.at = "open" =>
          /\ new.late = FALSE /\ new.ride = caller[c].ride /\ Kind[c] = "pane"
          /\ new.here = TRUE /\ new.told = caller[c].told /\ Own(c)' = {}
    BY <1>3, <1>5 DEF CallerState
  <2>4. AwaitsInv(c)'
    <3>1. new.ride # NoDial =>
            /\ new.ride = caller[c].ride /\ new.ride \in Dial /\ new.ride \in Handshake
            /\ new.ride # c /\ handshake'[new.ride] = handshake[new.ride]
      BY <1>2, <1>5, <2>2, <2>3, PromptsAssumption
    <3> QED BY <1>1, <1>2, <1>3, <1>5, <2>1, <3>1 DEF AwaitsInv
  <2>5. StandsInv(c)'
    BY <1>5, <2>1, <2>2, <2>3 DEF StandsInv
  <2>6. KnowsInv(c)'
    <3>1. Own(c)' \subseteq new.told \cup stray'
      BY <1>5, <2>2, <2>3
    <3>2. new.late = TRUE \/ (Kind[c] = "pane" /\ new.here = FALSE) => Own(c)' \subseteq stray'
      BY <1>5, <2>2, <2>3
    <3>3. new.ride # NoDial => new.at = "open"
      BY <1>5, <2>2
    <3>4. Hears(c) /\ new.ride # NoDial => Queued' \cap Of(new.ride) \subseteq new.told
      BY <1>3, <1>4, <1>5, <2>3, <3>3 DEF KnowsInv
    <3> QED BY <1>5, <2>1, <3>1, <3>2, <3>4 DEF KnowsInv
  <2>7. \A q \in Queued' \ stray' : q[1] = c => Kind[c] = "pane" /\ caller'[c].at = "failed"
    <3>1. \A q \in Queued' : q[1] = c => q \in Own(c)'
      BY <1>3, <1>4, QuestionParts DEF Own
    <3> QED BY <1>5, <2>1, <3>1
  <2> QED BY <1>1, <1>2, <1>4, <2>1, <2>4, <2>5, <2>6, <2>7, OneLeaves DEF CallerInv
<1>6. CASE Kind[c] = "pane" \/ caller[c].late
  <2>1. /\ Queued' = Queued /\ stray' = stray /\ Own(c)' = Own(c)
        /\ caller' = [caller EXCEPT ![c] =
             IF @.late THEN [@ EXCEPT !.at = "over"]
             ELSE IF ~@.here THEN Idle
             ELSE IF handshake[c].ok THEN [@ EXCEPT !.at = "open"]
             ELSE [@ EXCEPT !.at = "failed", !.ride = NoDial]]
    BY <1>6 DEF opened, Queued, Own
  <2>2. CASE caller[c].late = TRUE
    <3> DEFINE new == [caller[c] EXCEPT !.at = "over"]
    <3>1. caller' = [caller EXCEPT ![c] = new]
      BY <2>1, <2>2
    <3>2. /\ new.at = "over" /\ new.armed = caller[c].armed /\ new.told = caller[c].told
      BY <1>3 DEF CallerState
    <3>3. /\ caller[c].armed = FALSE /\ Own(c)' \subseteq stray'
          /\ Kind[c] = "sshTest" => caller[c].told \subseteq Of(c)
      BY <1>3, <2>1, <2>2 DEF StandsInv, KnowsInv
    <3>4. new = [caller[c] EXCEPT !.at = "over"] /\ caller[c].late = TRUE
      BY <2>2
    <3> HIDE DEF new
    <3> QED BY <1>5, <3>1, <3>2, <3>3, <3>4
  <2>3. CASE caller[c].late = FALSE /\ caller[c].here = FALSE
    <3>1. caller' = [caller EXCEPT ![c] = Idle] /\ Kind[c] = "pane"
      BY <1>6, <2>1, <2>3
    <3>2. Own(c)' \subseteq stray'
      BY <1>3, <2>1, <2>3, <3>1 DEF KnowsInv
    <3>3. /\ Idle.at = "idle" /\ Idle.armed = FALSE /\ Idle.late = FALSE /\ Idle.here = FALSE
          /\ Idle.ride = NoDial /\ Idle.told = {}
      BY DEF Idle
    <3> QED BY <1>5, <3>1, <3>2, <3>3
  <2>4. CASE caller[c].late = FALSE /\ caller[c].here = TRUE /\ handshake[c].ok = TRUE
    <3> DEFINE new == [caller[c] EXCEPT !.at = "open"]
    <3>1. caller' = [caller EXCEPT ![c] = new] /\ Kind[c] = "pane"
      BY <1>6, <2>1, <2>4
    <3>2. /\ new.at = "open" /\ new.armed = caller[c].armed /\ new.told = caller[c].told
          /\ new.late = FALSE
      BY <1>3, <2>4 DEF CallerState
    <3>3. caller[c].armed = FALSE
      BY <1>3, <3>1 DEF StandsInv
    <3>4. Own(c)' = {}
      <4>1. \A q \in Asked : q[1] # c
        BY <2>4 DEF BackendInv, AskedInv
      <4> QED BY <1>3, <2>1, <4>1, QuestionParts DEF Own, Asked
    <3>5. new = [caller[c] EXCEPT !.at = "open"]
      OBVIOUS
    <3> HIDE DEF new
    <3> QED BY <1>5, <2>4, <3>1, <3>2, <3>3, <3>4, <3>5
  <2>5. CASE caller[c].late = FALSE /\ caller[c].here = TRUE /\ handshake[c].ok = FALSE
    <3> DEFINE new == [caller[c] EXCEPT !.at = "failed", !.ride = NoDial]
    <3>1. caller' = [caller EXCEPT ![c] = new] /\ Kind[c] = "pane"
      BY <1>6, <2>1, <2>5
    <3>2. /\ new.at = "failed" /\ new.armed = caller[c].armed /\ new.told = caller[c].told
          /\ new.late = FALSE /\ new.here = TRUE /\ new.ride = NoDial
      BY <1>3, <2>5 DEF CallerState
    <3>3. caller[c].armed = FALSE /\ Own(c)' \subseteq caller[c].told \cup stray'
      BY <1>3, <2>1, <3>1 DEF StandsInv, KnowsInv
    <3> HIDE DEF new
    <3> QED BY <1>5, <3>1, <3>2, <3>3
  <2> QED BY <1>3, <2>2, <2>3, <2>4, <2>5
<1>7. CASE ~(Kind[c] = "pane" \/ caller[c].late)
  <2>1. caller' = [caller EXCEPT ![c] = Idle] /\ TestEnds(c)
    BY <1>7 DEF opened
  <2>2. Queued' = Queued \ caller[c].told /\ stray' = stray \ caller[c].told
    BY <2>1, TestEndsIs
  <2>3. Own(c)' \subseteq stray'
    BY <1>3, <2>2 DEF KnowsInv, Own
  <2>4. /\ Idle.at = "idle" /\ Idle.armed = FALSE /\ Idle.late = FALSE /\ Idle.here = FALSE
        /\ Idle.ride = NoDial /\ Idle.told = {}
    BY DEF Idle
  <2> QED BY <1>5, <2>1, <2>3, <2>4
<1> QED BY <1>6, <1>7

(* The deadline of a test.                                                 *)
LEMMA DeadlineWindow ==
  ASSUME IndInv, NEW c \in Present, deadline(c)
  PROVE  WindowInv'
<1> USE TypeFacts
<1> DEFINE new == [caller[c] EXCEPT !.armed = FALSE, !.late = TRUE, !.told = {}, !.ride = NoDial]
<1>1. /\ caller[c].at = "opening" /\ caller[c].armed = TRUE /\ TestEnds(c)
      /\ caller' = [caller EXCEPT ![c] = new]
      /\ UNCHANGED <<handshake, fanout, current>> /\ asking' = asking
      /\ c \in Handshake /\ AwaitsInv(c) /\ StandsInv(c) /\ KnowsInv(c)
      /\ handshake[c].at # "none" /\ handshake[c].at # "up"
  <2>1. /\ c \in Handshake /\ AwaitsInv(c) /\ StandsInv(c) /\ KnowsInv(c)
        /\ caller[c].armed \in BOOLEAN /\ handshake[c].at # "up"
    BY DEF CallerInv, CallerState, BackendInv, OkInv
  <2> QED BY <2>1 DEF deadline, AwaitsInv
<1>2. /\ new.at = "opening" /\ new.here = caller[c].here /\ new.armed = FALSE /\ new.late = TRUE
      /\ new.told = {} /\ new.ride = NoDial
  <2>1. caller[c] \in CallerState
    OBVIOUS
  <2> QED BY <1>1, <2>1 DEF CallerState
<1> HIDE DEF new
<1>3. /\ Present' = Present /\ \A x \in Present : x # c => caller'[x] = caller[x]
      /\ caller'[c] = new
  BY <1>1 DEF Present
<1>4. /\ Queued' \subseteq Queued /\ stray \cap Queued' \subseteq stray'
      /\ Queued' \ stray' \subseteq Queued \ stray
      /\ \A q : Sent(q)' => Sent(q) \/ q \in Queued
  BY <1>1, TestEndsIs
<1>5. Own(c)' = {} /\ Kind[c] # "pane"
  BY <1>1, <1>4 DEF StandsInv, Own
<1>6. AwaitsInv(c)'
  BY <1>1, <1>2, <1>3 DEF AwaitsInv
<1>7. StandsInv(c)'
  BY <1>1, <1>2, <1>3, <1>5 DEF StandsInv
<1>8. KnowsInv(c)'
  BY <1>2, <1>3, <1>5 DEF KnowsInv
<1> QED BY <1>1, <1>3, <1>4, <1>6, <1>7, <1>8, OneLeaves DEF CallerInv

(* Whoever leaves.                                                         *)
LEMMA LeaveWindow ==
  ASSUME IndInv, NEW c \in Present, leave(c)
  PROVE  WindowInv'
<1> USE TypeFacts
<1> DEFINE told == IF Hears(c) THEN {} ELSE caller[c].told
           ride == IF Kind[c] = "pane" /\ caller[c].at = "opening" THEN NoDial ELSE caller[c].ride
<1>1. /\ caller[c].here = TRUE /\ UNCHANGED <<handshake, fanout, current>> /\ asking' = asking
      /\ AwaitsInv(c) /\ StandsInv(c) /\ KnowsInv(c) /\ caller[c] \in CallerState
      /\ c \in Handshake /\ handshake[c].at # "up"
      /\ caller[c].late \in BOOLEAN /\ caller[c].armed \in BOOLEAN
  <2>1. /\ AwaitsInv(c) /\ StandsInv(c) /\ KnowsInv(c) /\ caller[c] \in CallerState
        /\ c \in Handshake /\ handshake[c].at # "up" /\ caller[c].here \in BOOLEAN
        /\ caller[c].late \in BOOLEAN /\ caller[c].armed \in BOOLEAN
    BY DEF CallerInv, CallerState, BackendInv, OkInv
  <2> QED BY <2>1 DEF leave
<1>2. /\ Queued' \subseteq Queued /\ stray \cap Queued' \subseteq stray'
      /\ Queued' \ stray' \subseteq Queued \ stray
      /\ \A q : Sent(q)' => Sent(q) \/ q \in Queued
      /\ Hears(c) => Own(c)' \subseteq stray'
      /\ ~Hears(c) => Queued' = Queued /\ stray' = stray
  <2>1. CASE Hears(c)
    <3>1. Confirm(caller[c].told \cap Queued, FALSE) /\ Unqueue(caller[c].told)
      BY <2>1 DEF leave, abandon
    <3>2. Queued' = Queued \ caller[c].told /\ stray' = stray \ caller[c].told
      BY <3>1, UnqueueIs
    <3>3. ASSUME NEW q PROVE Sent(q)' => Sent(q) \/ q \in Queued
      BY <3>1, ConfirmIs DEF Sent
    <3>4. Own(c)' \subseteq stray'
      BY <1>1, <3>2 DEF KnowsInv, Own
    <3> QED BY <2>1, <3>2, <3>3, <3>4
  <2>2. CASE ~Hears(c)
    BY <2>2 DEF leave, Queued, Sent
  <2> QED BY <2>1, <2>2
<1>3. ASSUME NEW new, caller' = [caller EXCEPT ![c] = new], CallerInv(c)',
             caller[c].at = "failed" => Own(c)' \subseteq stray'
      PROVE  WindowInv'
  <2>1. /\ Present' = Present /\ \A x \in Present : x # c => caller'[x] = caller[x]
        /\ \A g \in Handshake : g # c => handshake'[g] = handshake[g]
        /\ handshake'[c] = handshake[c]
    BY <1>1, <1>3 DEF Present
  <2>2. ASSUME NEW q \in Queued' \ stray', q[1] = c
        PROVE  handshake'[c].at \notin {"none", "up"}
    <3>1. q \in Queued \ stray /\ q \in Question /\ q \in Of(c) /\ q \in Own(c)'
      BY <1>1, <1>2, <2>2, QuestionParts DEF Own
    <3> QED BY <1>3, <2>1, <2>2, <3>1 DEF DeadQuestionsGo
  <2> QED BY <1>1, <1>2, <1>3, <2>1, <2>2, OneLeaves
<1>4. CASE caller[c].at \in {"open", "failed", "over"}
  <2>1. caller' = [caller EXCEPT ![c] = Idle] /\ caller'[c] = Idle
    BY <1>4 DEF leave
  <2>2. Own(c)' \subseteq stray'
    <3>1. CASE Hears(c)
      BY <1>2, <3>1
    <3>2. CASE ~Hears(c) /\ caller[c].late = TRUE
      BY <1>1, <1>2, <3>2 DEF KnowsInv, Own
    <3>3. CASE ~Hears(c) /\ caller[c].late = FALSE
      <4>1. Kind[c] = "tab"
        BY <1>1, <1>4, <3>3 DEF StandsInv, Hears
      <4>2. \A q \in Queued : q[1] # c
        BY <4>1 DEF PresentInv, Asked
      <4> QED BY <1>1, <1>2, <4>2, QuestionParts DEF Own
    <3> QED BY <1>1, <3>1, <3>2, <3>3
  <2>3. CallerInv(c)'
    <3>1. /\ Idle.at = "idle" /\ Idle.armed = FALSE /\ Idle.late = FALSE /\ Idle.here = FALSE
          /\ Idle.ride = NoDial /\ Idle.told = {}
      BY DEF Idle
    <3>2. AwaitsInv(c)'
      BY <1>1, <1>4, <2>1, <3>1 DEF AwaitsInv
    <3>3. StandsInv(c)'
      BY <2>1, <3>1 DEF StandsInv
    <3>4. KnowsInv(c)'
      BY <2>1, <2>2, <3>1 DEF KnowsInv
    <3> QED BY <3>2, <3>3, <3>4 DEF CallerInv
  <2> QED BY <1>3, <2>1, <2>2, <2>3
<1>5. CASE caller[c].at \notin {"open", "failed", "over"}
  <2> HIDE DEF told, ride
  <2> DEFINE new == [caller[c] EXCEPT !.here = FALSE, !.told = told, !.ride = ride]
  <2>1. caller' = [caller EXCEPT ![c] = new] /\ caller'[c] = new
    BY <1>5 DEF leave, told, ride
  <2>2. /\ new.at = caller[c].at /\ new.here = FALSE /\ new.told = told /\ new.ride = ride
        /\ new.late = caller[c].late /\ new.armed = caller[c].armed
    BY <1>1 DEF CallerState
  <2> HIDE DEF new
  <2>3. /\ told \subseteq caller[c].told /\ ride \in {caller[c].ride, NoDial}
        /\ caller[c].at = "riding" => ride = caller[c].ride
        /\ ~Hears(c) => told = caller[c].told
    BY DEF told, ride
  <2>4. Own(c)' \subseteq Own(c)
    BY <1>2 DEF Own
  <2>5. AwaitsInv(c)'
    <3>1. caller[c].at = "riding" => \A q \in Of(c) : q \notin Asked' /\ ~Sent(q)'
      BY <1>1, <1>2 DEF AwaitsInv, Asked
    <3>2. /\ caller[c].at = "opening" <=> handshake[c].at # "none"
          /\ caller[c].at = "riding" => caller[c].ride # NoDial
          /\ caller[c].at = "riding" => Rides(c)
          /\ caller[c].at = "opening" => Kind[c] \in {"pane", "sshTest", "rdpTest"}
          /\ caller[c].ride # NoDial =>
               /\ handshake[caller[c].ride].at # "none"
               /\ caller[c].at # "riding" => handshake[caller[c].ride].at = "up"
      BY <1>1 DEF AwaitsInv
    <3> QED BY <1>1, <2>1, <2>2, <2>3, <3>1, <3>2 DEF AwaitsInv
  <2>6. StandsInv(c)'
    BY <1>1, <1>5, <2>1, <2>2, <2>3, <2>4 DEF StandsInv
  <2>7. KnowsInv(c)'
    <3>1. Own(c)' \subseteq told \cup stray'
      <4>1. CASE Hears(c)
        BY <1>2, <4>1
      <4>2. CASE ~Hears(c)
        BY <1>1, <1>2, <2>3, <4>2 DEF KnowsInv, Own
      <4> QED BY <4>1, <4>2
    <3>2. caller[c].late = TRUE \/ Kind[c] = "pane" => Own(c)' \subseteq stray'
      <4>1. CASE Hears(c)
        BY <1>2, <4>1
      <4>2. CASE ~Hears(c)
        BY <1>1, <1>2, <4>2 DEF KnowsInv, Own, Hears
      <4> QED BY <4>1, <4>2
    <3>3. Hears(c) /\ caller[c].at = "riding" /\ handshake[caller[c].ride].at # "up" =>
            c \in fanout[caller[c].ride].watchers
      BY <1>1 DEF KnowsInv
    <3> QED BY <1>1, <2>1, <2>2, <2>3, <3>1, <3>2, <3>3 DEF KnowsInv
  <2>8. CallerInv(c)'
    BY <2>5, <2>6, <2>7 DEF CallerInv
  <2> QED BY <1>3, <1>5, <2>1, <2>8
<1> QED BY <1>4, <1>5

LEMMA WindowStep ==
  ASSUME IndInv, Types', Next
  PROVE  WindowInv'
<1>1. \A a \in confirms : a[1] \in Question /\ a[2] \in BOOLEAN
  BY DEF IndInv, Types
<1> QED
  BY <1>1, ResolveWindow, ReleaseWindow, OpenWindow, RideEndsWindow, OpenedWindow,
     DeadlineWindow, LeaveWindow, CheckWindow, FailWindow, PromptWindow, ConfirmWindow,
     SettlesWindow
  DEF Next

----------------------------------------------------------------------------
(* The inductive invariant holds in every reachable state.                 *)
THEOREM PromptsInvariance == Spec => []IndInv
<1>1. IndInv /\ [Next]_vars => IndInv'
  <2> SUFFICES ASSUME IndInv, [Next]_vars PROVE IndInv'
    OBVIOUS
  <2>1. Types'
    BY TypesStep DEF IndInv
  <2>2. CASE Next
    BY <2>1, <2>2, BackendStep, WindowStep DEF IndInv
  <2>3. CASE UNCHANGED vars
    <3>1. /\ UNCHANGED <<caller, handshake, fanout, current, confirms, answers, stray>>
          /\ asking' = asking /\ Queued' = Queued /\ Asked' = Asked
      BY <2>3 DEF vars, Queued, Asked
    <3>2. \A q : Sent(q)' = Sent(q)
      BY <3>1 DEF Sent
    <3>3. BackendInv'
      BY <3>1, BackendQuiet DEF IndInv
    <3>4. WindowInv'
      BY <3>1, <3>2, WindowKeeps
    <3> QED BY <2>1, <3>3, <3>4 DEF IndInv
  <2> QED BY <2>2, <2>3
<1> QED BY <1>1, InitIndInv, PTL DEF Spec

(* A paused handshake has its question on the way to the dialog or in it,  *)
(* or an answer under way, and the dialog holds no question of a connect   *)
(* that is over, but those that came up for nobody.                        *)
THEOREM PromptsMatch == Spec => []QuestionsMatchHandshakes
<1>1. IndInv => QuestionsMatchHandshakes
  BY WaitIs DEF IndInv, BackendInv, WindowInv, QuestionsMatchHandshakes
<1> QED BY <1>1, PromptsInvariance, PTL

(* No question is both trusted and rejected, and no connect comes through  *)
(* with one of its questions rejected.                                     *)
THEOREM PromptsOneAnswer == Spec => []OneAnswer
<1>1. IndInv => OneAnswer
  <2> SUFFICES ASSUME IndInv PROVE OneAnswer
    OBVIOUS
  <2>1. AnswerInv
    BY DEF IndInv, BackendInv
  <2>2. ASSUME NEW q \in Question PROVE ~({<<q, TRUE>>, <<q, FALSE>>} \subseteq answers)
    BY <2>1 DEF AnswerInv, Yes, No
  <2>3. ASSUME NEW h \in Handshake, handshake[h].ok, NEW q \in Of(h)
        PROVE  <<q, FALSE>> \notin answers
    BY <2>1, <2>3, QuestionParts DEF AnswerInv
  <2> QED BY <2>2, <2>3 DEF OneAnswer
<1> QED BY <1>1, PromptsInvariance, PTL

(* Whoever of those that pass onHostKeyPrompt leaves, by its teardown or   *)
(* because its connect failed, takes its questions and those of the dial   *)
(* it rides from the dialog.                                               *)
THEOREM PromptsLeaver == Spec => LeaverTakesQuestions
<1> DEFINE Takes == \A c \in Present : Hears(c) /\ caller[c].here /\ ~caller'[c].here =>
                      Queued' \cap (Of(caller[c].ride) \cup Of(c)) \subseteq stray
<1>1. IndInv /\ [Next]_vars => [Takes]_vars
  <2> SUFFICES ASSUME IndInv, Next, NEW x \in Present, Hears(x), caller[x].here,
                      ~caller'[x].here
               PROVE  Queued' \cap (Of(caller[x].ride) \cup Of(x)) \subseteq stray
    OBVIOUS
  <2> USE TypeFacts
  <2>1. /\ AwaitsInv(x) /\ StandsInv(x) /\ KnowsInv(x) /\ caller[x] \in CallerState
        /\ caller[x].here = TRUE /\ caller'[x] # caller[x] /\ Kind[x] # "sshTest"
    BY DEF CallerInv, CallerState, Hears
  <2>2. Own(x) \subseteq caller[x].told \cup stray
    BY <2>1 DEF KnowsInv
  <2>3. Queued \cap Of(caller[x].ride) \subseteq caller[x].told
    <3>1. CASE caller[x].ride = NoDial
      <4>1. NoDial \notin Handshake
        BY PromptsAssumption DEF Handshake
      <4>2. \A q \in Queued : q[1] # NoDial
        BY <4>1, QuestionParts
      <4> QED BY <3>1, <4>2 DEF Of
    <3>2. CASE caller[x].ride # NoDial
      BY <2>1, <3>2 DEF KnowsInv
    <3> QED BY <3>1, <3>2
  <2>4. CASE Queued' = Queued \ caller[x].told
    BY <2>2, <2>3, <2>4 DEF Own
  <2>5. ASSUME NEW c \in Present, open(c) \/ rideEnds(c) \/ opened(c) \/ deadline(c) \/ leave(c)
        PROVE  Queued' \cap (Of(caller[x].ride) \cup Of(x)) \subseteq stray
    <3>1. x = c
      <4> SUFFICES ASSUME x # c PROVE caller'[x] = caller[x]
        BY <2>1
      <4>1. CASE open(c) \/ rideEnds(c)
        BY <4>1 DEF open, sessionFor, watchDial, rideEnds
      <4>2. CASE opened(c) \/ deadline(c) \/ leave(c)
        BY <4>2 DEF opened, deadline, leave
      <4> QED BY <2>5, <4>1, <4>2
    <3>2. CASE open(c)
      <4>1. \E armed, told, d :
              \/ caller' = [caller EXCEPT ![c] =
                   [Idle EXCEPT !.at = "opening", !.here = TRUE, !.armed = armed]]
              \/ caller' = [caller EXCEPT ![c] =
                   [Idle EXCEPT !.at = "riding", !.here = TRUE, !.ride = d]]
              \/ caller' = [caller EXCEPT ![c] =
                   [Idle EXCEPT !.at = "riding", !.here = TRUE, !.ride = d, !.told = told]]
        <5>1. CASE ~Rides(c)
          BY <3>2, <5>1 DEF open
        <5>2. CASE Rides(c)
          BY <3>2, <5>2 DEF open, sessionFor, watchDial
        <5> QED BY <5>1, <5>2
      <4>2. \E new : new.here = TRUE /\ caller' = [caller EXCEPT ![c] = new]
        <5>1. \A armed, told, d :
                /\ [Idle EXCEPT !.at = "opening", !.here = TRUE, !.armed = armed].here = TRUE
                /\ [Idle EXCEPT !.at = "riding", !.here = TRUE, !.ride = d].here = TRUE
                /\ [Idle EXCEPT !.at = "riding", !.here = TRUE, !.ride = d, !.told = told].here
                     = TRUE
          BY DEF Idle
        <5> QED BY <4>1, <5>1
      <4>3. caller'[c].here = TRUE
        BY <4>2
      <4> QED BY <3>1, <4>3
    <3>3. CASE rideEnds(c)
      <4> DEFINE armed == Kind[c] = "rdpTest"
      <4>1. \/ caller' = [caller EXCEPT ![c] =
                  [caller[c] EXCEPT !.at = "opening", !.armed = armed]]
            \/ caller' = [caller EXCEPT ![c] = [caller[c] EXCEPT !.at = "open", !.told = {}]]
        BY <2>1, <3>1, <3>3 DEF rideEnds
      <4> HIDE DEF armed
      <4>2. caller'[c].here = caller[c].here
        BY <2>1, <3>1, <4>1 DEF CallerState
      <4> QED BY <2>1, <3>1, <4>2
    <3>4. CASE opened(c)
      <4>1. CASE TestEnds(c)
        BY <2>4, <3>1, <4>1, TestEndsIs
      <4>2. CASE Kind[c] = "pane" \/ caller[c].late
        <5>1. caller'[c].here = caller[c].here
          <6>1. \E new \in {[caller[c] EXCEPT !.at = "over"], [caller[c] EXCEPT !.at = "open"],
                            [caller[c] EXCEPT !.at = "failed", !.ride = NoDial]} :
                  caller' = [caller EXCEPT ![c] = new]
            BY <2>1, <3>1, <3>4, <4>2 DEF opened
          <6>2. PICK new \in {[caller[c] EXCEPT !.at = "over"], [caller[c] EXCEPT !.at = "open"],
                              [caller[c] EXCEPT !.at = "failed", !.ride = NoDial]} :
                  caller' = [caller EXCEPT ![c] = new]
            BY <6>1
          <6>3. new.here = caller[c].here
            BY <2>1, <3>1 DEF CallerState
          <6> QED BY <6>2, <6>3
        <5> QED BY <2>1, <3>1, <5>1
      <4> QED BY <3>4, <4>1, <4>2 DEF opened
    <3>5. CASE deadline(c)
      <4>1. caller'[c].here = caller[c].here
        BY <2>1, <3>1, <3>5 DEF deadline, CallerState
      <4> QED BY <2>1, <3>1, <4>1
    <3>6. CASE leave(c)
      BY <2>4, <3>1, <3>6, UnqueueIs DEF leave, abandon
    <3> QED BY <2>5, <3>2, <3>3, <3>4, <3>5, <3>6
  <2>6. ASSUME NEW d \in Dial, dialSettles(d)
        PROVE  Queued' \cap (Of(caller[x].ride) \cup Of(x)) \subseteq stray
    <3>1. /\ x \in Riders(d) /\ ~handshake[d].ok
          /\ Unqueue(fanout[d].raised)
      <4>1. x \in Riders(d) /\ ~handshake[d].ok
        <5>1. caller' = [c \in Present |->
                IF c \notin Riders(d) \/ handshake[d].ok THEN caller[c]
                ELSE IF Kind[c] = "pane" /\ caller[c].here
                     THEN [caller[c] EXCEPT !.at = "failed", !.ride = NoDial] ELSE Idle]
          BY <2>6 DEF dialSettles
        <5> QED BY <2>1, <5>1
      <4>2. Unqueue(IF handshake[d].ok THEN {} ELSE fanout[d].raised)
        BY <2>6 DEF dialSettles, dismiss
      <4> QED BY <4>1, <4>2
    <3>2. Queued' \subseteq Queued /\ Queued' \cap Of(d) = {}
      BY <3>1, UnqueueIs DEF RaisedInv
    <3>3. Own(x) = {} /\ caller[x].ride = d
      BY <2>1, <3>1 DEF Riders, AwaitsInv, Own, Asked
    <3> QED BY <3>2, <3>3 DEF Own
  <2>7. ASSUME NEW q \in asking, onHostKeyPrompt(q)
        PROVE  caller'[x].here = caller[x].here
    <3> DEFINE h == q[1]
               told == IF Kind[h] = "sshTest" THEN {q} ELSE caller[h].told \cup {q}
    <3>1. \/ caller' = [c \in Present |-> IF c \in fanout[h].watchers
                          THEN [caller[c] EXCEPT !.told = @ \cup {q}] ELSE caller[c]]
          \/ caller' = caller
          \/ caller' = [caller EXCEPT ![h].armed = FALSE, ![h].told = told]
      BY <2>7 DEF onHostKeyPrompt
    <3> HIDE DEF h, told
    <3> QED BY <2>1, <3>1 DEF CallerState
  <2> QED
    BY <2>1, <2>5, <2>6, <2>7
    DEF Next, resolve, releaseSession, check_server_key, connectFails, confirm_host_key
<1> HIDE DEF Takes
<1>2. Spec => [][Takes]_vars
  BY <1>1, PromptsInvariance, PTL DEF Spec
<1> QED BY <1>2 DEF LeaverTakesQuestions, Takes
============================================================================
