-------------------------- MODULE PtyStreamProofs --------------------------
(***************************************************************************)
(* The output of a shell arrives in order, without a gap, and in the end   *)
(* with the exit, whatever the interleaving of the threads of the shell,   *)
(* the dispatchers, the writer queues and the client of the app:           *)
(* StreamInOrder and AllArrives of PtyDaemon, for any number of            *)
(* connections, panes, shells and chunks.  Both except what the reader     *)
(* shed and the chunk of the flusher that races the exit (`excused`), for  *)
(* which LastLineBeforeExit is false.                                      *)
(***************************************************************************)
EXTENDS PtyDaemonProofs

(* What a client has been sent of a session and has not lost, as parts in  *)
(* the order in which they will be shown: Q[0] where it is now, Q[1] to    *)
(* Q[k] on the wire, and D still to be sent when the client will be (on).  *)
(* It rises, and of the w chunks written only the lost ones are missing,   *)
(* those before the first when the stream does not start with chunk 1, and *)
(* those after the last when nothing more is sent.                         *)
Within(n, Q, D) == n \in D \/ \E i \in DOMAIN Q : n \in Q[i]

Chain(Q, D, X, w, whole, on) ==
  /\ D \subseteq 1 .. w /\ \A i \in DOMAIN Q : Q[i] \subseteq 1 .. w
  /\ \A i, j \in DOMAIN Q : i < j => \A x \in Q[i] \ X, y \in Q[j] \ X : x < y
  /\ \A i \in DOMAIN Q : \A x \in Q[i] \ X, y \in D \ X : x < y
  /\ \A n \in (1 .. w) \ X :
       \/ Within(n, Q, D)
       \/ ~whole /\ \A x \in (1 .. w) \ X : Within(x, Q, D) => n < x
       \/ ~on /\ \A x \in (1 .. w) \ X : Within(x, Q, D) => x < n

LEMMA ChainExcuse ==
  ASSUME NEW Q, NEW D, NEW X, NEW w \in Nat, NEW whole, NEW on, Chain(Q, D, X, w, whole, on),
         NEW Y, X \subseteq Y
  PROVE  Chain(Q, D, Y, w, whole, on)
BY DEF Chain, Within

LEMMA ChainPart ==
  ASSUME NEW Q, NEW D, NEW X, NEW w \in Nat, NEW whole \in BOOLEAN, NEW on,
         Chain(Q, D, X, w, whole, on)
  PROVE  Chain(Q, D, X, w, FALSE, on)
BY DEF Chain, Within

(* Nothing more is sent. *)
LEMMA ChainOff ==
  ASSUME NEW Q, NEW D, NEW X, NEW w \in Nat, NEW whole, NEW on, Chain(Q, D, X, w, whole, on)
  PROVE  Chain(Q, {}, X, w, whole, FALSE)
<1>1. \A n \in 1 .. w : Within(n, Q, {}) => Within(n, Q, D)
  BY DEF Within
<1>2. \A n \in 1 .. w : Within(n, Q, D) => Within(n, Q, {}) \/ n \in D
  BY DEF Within
<1>3. \A n \in D \ X : \A x \in (1 .. w) \ X : Within(x, Q, {}) => x < n
  BY DEF Chain, Within
<1> QED BY <1>1, <1>2, <1>3 DEF Chain

(* The shell writes. *)
LEMMA ChainWrite ==
  ASSUME NEW Q, NEW D, NEW X, NEW w \in Nat, NEW whole, NEW on, Chain(Q, D, X, w, whole, on),
         NEW E, NEW Y, X \subseteq Y, D \subseteq E \cup Y, E \subseteq D \cup {w + 1},
         on => w + 1 \in E, ~on => w + 1 \notin E
  PROVE  Chain(Q, E, Y, w + 1, whole, on)
<1>1. /\ D \subseteq 1 .. w /\ \A i \in DOMAIN Q : Q[i] \subseteq 1 .. w
      /\ \A i, j \in DOMAIN Q : i < j => \A x \in Q[i] \ X, y \in Q[j] \ X : x < y
      /\ \A i \in DOMAIN Q : \A x \in Q[i] \ X, y \in D \ X : x < y
  BY DEF Chain
<1>2. E \subseteq 1 .. w + 1 /\ \A i \in DOMAIN Q : Q[i] \subseteq 1 .. w + 1
  <2>1. \A n \in 1 .. w : n \in 1 .. w + 1
    OBVIOUS
  <2>2. w + 1 \in 1 .. w + 1
    OBVIOUS
  <2> QED BY <1>1, <2>1, <2>2
<1>3. \A i \in DOMAIN Q : \A x \in Q[i] \ Y, y \in E \ Y : x < y
  <2> SUFFICES ASSUME NEW i \in DOMAIN Q, NEW x \in Q[i] \ Y, NEW y \in E \ Y PROVE x < y
    OBVIOUS
  <2>1. x \in 1 .. w /\ x \in Q[i] \ X
    BY <1>1
  <2>2. CASE y = w + 1
    BY <2>1, <2>2
  <2>3. CASE y # w + 1
    <3>1. y \in D \ X
      BY <2>3
    <3> QED BY <1>1, <2>1, <3>1
  <2> QED BY <2>2, <2>3
<1>4. \A n \in (1 .. w) \ Y : Within(n, Q, D) <=> Within(n, Q, E)
  BY DEF Within
<1>5. \A x \in (1 .. w + 1) \ Y : Within(x, Q, E) => x = w + 1 \/ x \in (1 .. w) \ X
  OBVIOUS
<1>8. w + 1 \notin E => \A x \in 1 .. w + 1 : Within(x, Q, E) => x \in 1 .. w
  <2> SUFFICES ASSUME w + 1 \notin E, NEW x \in 1 .. w + 1, Within(x, Q, E) PROVE x \in 1 .. w
    OBVIOUS
  <2>1. CASE x \in E
    BY <1>1, <2>1
  <2>2. CASE \E i \in DOMAIN Q : x \in Q[i]
    BY <1>1, <2>2
  <2> QED BY <2>1, <2>2 DEF Within
<1>6. ASSUME NEW n \in (1 .. w + 1) \ Y
      PROVE  \/ Within(n, Q, E)
             \/ ~whole /\ \A x \in (1 .. w + 1) \ Y : Within(x, Q, E) => n < x
             \/ ~on /\ \A x \in (1 .. w + 1) \ Y : Within(x, Q, E) => x < n
  <2>1. CASE n = w + 1
    <3>1. CASE on
      BY <2>1, <3>1 DEF Within
    <3>2. CASE ~on
      <4>1. CASE w + 1 \in E
        BY <2>1, <4>1 DEF Within
      <4>2. CASE w + 1 \notin E
        <5>1. \A x \in (1 .. w + 1) \ Y : Within(x, Q, E) => x \in 1 .. w
          BY <1>8, <4>2
        <5> QED BY <2>1, <3>2, <5>1
      <4> QED BY <4>1, <4>2
    <3> QED BY <3>1, <3>2
  <2>2. CASE n # w + 1
    <3>1. n \in (1 .. w) \ X
      BY <2>2
    <3>2. CASE Within(n, Q, D)
      BY <1>4, <3>1, <3>2
    <3>3. CASE ~whole /\ \A x \in (1 .. w) \ X : Within(x, Q, D) => n < x
      <4>1. \A x \in (1 .. w + 1) \ Y : Within(x, Q, E) => n < x
        BY <1>4, <1>5, <3>1, <3>3
      <4> QED BY <3>3, <4>1
    <3>4. CASE ~on /\ \A x \in (1 .. w) \ X : Within(x, Q, D) => x < n
      <4>1. \A x \in (1 .. w + 1) \ Y : Within(x, Q, E) => x \in (1 .. w) \ X
        BY <1>8, <3>4
      <4>2. \A x \in (1 .. w + 1) \ Y : Within(x, Q, E) => x < n
        BY <1>4, <3>4, <4>1
      <4> QED BY <3>4, <4>2
    <3> QED BY <3>1, <3>2, <3>3, <3>4 DEF Chain
  <2> QED BY <2>1, <2>2
<1>7. \A i, j \in DOMAIN Q : i < j => \A x \in Q[i] \ Y, y \in Q[j] \ Y : x < y
  BY <1>1
<1> QED BY <1>2, <1>3, <1>6, <1>7 DEF Chain

(* The client loses what it was shown. *)
LEMMA ChainLose ==
  ASSUME NEW k \in Nat, NEW Q, NEW R, DOMAIN Q = 0 .. k, DOMAIN R = 0 .. k,
         NEW D, NEW X, NEW w \in Nat, NEW whole, NEW on, Chain(Q, D, X, w, whole, on),
         R[0] = {}, \A i \in 1 .. k : R[i] = Q[i]
  PROVE  Chain(R, D, X, w, FALSE, on)
<1>1. \A n \in 1 .. w : Within(n, R, D) => Within(n, Q, D)
  BY DEF Within
<1>2. \A n \in 1 .. w : Within(n, Q, D) => Within(n, R, D) \/ n \in Q[0]
  BY DEF Within
<1>3. \A n \in Q[0] \ X : \A x \in (1 .. w) \ X : Within(x, R, D) => n < x
  BY DEF Within, Chain
<1> QED BY <1>1, <1>2, <1>3 DEF Chain

(* A part of D is sent. *)
LEMMA ChainSend ==
  ASSUME NEW k \in Nat, NEW Q, NEW R, DOMAIN Q = 0 .. k, DOMAIN R = 0 .. k + 1,
         NEW D, NEW X, NEW w \in Nat, NEW whole, NEW on, Chain(Q, D, X, w, whole, on),
         NEW E, R[k + 1] \subseteq D, E \subseteq D, D \subseteq E \cup R[k + 1] \cup X,
         \A x \in R[k + 1] \ X, y \in E \ X : x < y,
         \A i \in 0 .. k : R[i] = Q[i]
  PROVE  Chain(R, E, X, w, whole, on)
<1>1. \A n \in (1 .. w) \ X : Within(n, R, E) <=> Within(n, Q, D)
  <2>1. k + 1 \in DOMAIN R /\ \A i \in DOMAIN R : i = k + 1 \/ i \in DOMAIN Q
    OBVIOUS
  <2>2. \A i \in DOMAIN Q : i \in DOMAIN R
    OBVIOUS
  <2>3. \A n \in (1 .. w) \ X : Within(n, R, E) => Within(n, Q, D)
    BY <2>1 DEF Within
  <2>4. \A n \in (1 .. w) \ X : Within(n, Q, D) => Within(n, R, E)
    BY <2>1, <2>2 DEF Within
  <2> QED BY <2>3, <2>4
<1>0. \A i \in DOMAIN R : i = k + 1 \/ (i \in DOMAIN Q /\ R[i] = Q[i])
  OBVIOUS
<1>2. \A i \in DOMAIN R : R[i] \subseteq 1 .. w
  BY <1>0 DEF Chain
<1>3. \A i, j \in DOMAIN R : i < j => i \in DOMAIN Q
  OBVIOUS
<1>4. \A i, j \in DOMAIN R : i < j => \A x \in R[i] \ X, y \in R[j] \ X : x < y
  BY <1>3 DEF Chain
<1>5. \A i \in DOMAIN R : \A x \in R[i] \ X, y \in E \ X : x < y
  BY <1>0 DEF Chain
<1>6. E \subseteq 1 .. w
  BY DEF Chain
<1> QED BY <1>1, <1>2, <1>4, <1>5, <1>6 DEF Chain

(* The first frame of the wire is received. *)
LEMMA ChainReceive ==
  ASSUME NEW k \in Nat, NEW Q, NEW R, DOMAIN Q = 0 .. k + 1, DOMAIN R = 0 .. k,
         NEW D, NEW X, NEW w \in Nat, NEW whole, NEW on, Chain(Q, D, X, w, whole, on),
         R[0] = Q[0] \cup Q[1], \A i \in 1 .. k : R[i] = Q[i + 1]
  PROVE  Chain(R, D, X, w, whole, on)
<1>0. /\ \A i \in DOMAIN R : i = 0 \/ (i \in 1 .. k /\ i + 1 \in DOMAIN Q)
      /\ 0 \in DOMAIN R /\ 0 \in DOMAIN Q /\ 1 \in DOMAIN Q
      /\ \A i \in DOMAIN Q : i \in {0, 1} \/ i - 1 \in 1 .. k
  OBVIOUS
<1>1. \A n \in 1 .. w : Within(n, R, D) <=> Within(n, Q, D)
  <2>1. \A i \in DOMAIN R : \A n \in R[i] : \E j \in DOMAIN Q : n \in Q[j]
    BY <1>0
  <2>2. \A i \in DOMAIN Q : \A n \in Q[i] : \E j \in DOMAIN R : n \in R[j]
    <3> SUFFICES ASSUME NEW i \in DOMAIN Q, NEW n \in Q[i] PROVE \E j \in DOMAIN R : n \in R[j]
      OBVIOUS
    <3>1. CASE i \in {0, 1}
      BY <1>0, <3>1
    <3>2. CASE i - 1 \in 1 .. k
      <4>1. R[i - 1] = Q[i - 1 + 1] /\ i - 1 + 1 = i
        BY <3>2
      <4> QED BY <3>2, <4>1
    <3> QED BY <1>0, <3>1, <3>2
  <2> QED BY <2>1, <2>2 DEF Within
<1>2. \A i \in DOMAIN R : R[i] \subseteq 1 .. w
  BY <1>0 DEF Chain
<1>3. \A i, j \in DOMAIN R : i < j => \A x \in R[i] \ X, y \in R[j] \ X : x < y
  <2> SUFFICES ASSUME NEW i \in DOMAIN R, NEW j \in DOMAIN R, i < j,
                      NEW x \in R[i] \ X, NEW y \in R[j] \ X
               PROVE  x < y
    OBVIOUS
  <2>1. j \in 1 .. k /\ j + 1 \in DOMAIN Q /\ y \in Q[j + 1] \ X
    BY <1>0
  <2>2. CASE i = 0
    <3>1. x \in Q[0] \ X \/ x \in Q[1] \ X
      BY <2>2
    <3>2. 0 < j + 1 /\ 1 < j + 1
      BY <2>1
    <3> QED BY <1>0, <2>1, <3>1, <3>2 DEF Chain
  <2>3. CASE i # 0
    <3>1. i + 1 \in DOMAIN Q /\ x \in Q[i + 1] \ X /\ i + 1 < j + 1
      BY <1>0, <2>3
    <3> QED BY <2>1, <3>1 DEF Chain
  <2> QED BY <2>2, <2>3
<1>4. \A i \in DOMAIN R : \A x \in R[i] \ X, y \in D \ X : x < y
  <2> SUFFICES ASSUME NEW i \in DOMAIN R, NEW x \in R[i] \ X, NEW y \in D \ X PROVE x < y
    OBVIOUS
  <2>1. \E j \in DOMAIN Q : x \in Q[j] \ X
    BY <1>0
  <2> QED BY <2>1 DEF Chain
<1> QED BY <1>1, <1>2, <1>3, <1>4 DEF Chain

(* Frames without a part of the stream are sent. *)
LEMMA ChainSkip ==
  ASSUME NEW k \in Nat, NEW l \in Nat, k <= l, NEW Q, NEW R, DOMAIN Q = 0 .. k, DOMAIN R = 0 .. l,
         NEW D, NEW X, NEW w \in Nat, NEW whole, NEW on, Chain(Q, D, X, w, whole, on),
         \A i \in 0 .. k : R[i] = Q[i], \A i \in k + 1 .. l : R[i] = {}
  PROVE  Chain(R, D, X, w, whole, on)
<1>0. /\ \A i \in DOMAIN R : i \in DOMAIN Q \/ i \in k + 1 .. l
      /\ \A i \in DOMAIN Q : i \in DOMAIN R
  OBVIOUS
<1>1. \A n \in 1 .. w : Within(n, R, D) <=> Within(n, Q, D)
  BY <1>0 DEF Within
<1>2. \A i \in DOMAIN R : \A n \in R[i] : i \in DOMAIN Q /\ n \in Q[i]
  BY <1>0
<1> QED BY <1>1, <1>2 DEF Chain

(* A client that is new to the session. *)
LEMMA ChainNew ==
  ASSUME NEW Q, \A i \in DOMAIN Q : Q[i] = {}, NEW D, NEW X, NEW w \in Nat, NEW on,
         D \subseteq 1 .. w,
         \A x \in D \ X : \A n \in x .. w : n \in D \cup X
  PROVE  Chain(Q, D, X, w, FALSE, on)
<1>1. \A n \in 1 .. w : Within(n, Q, D) <=> n \in D
  BY DEF Within
<1>2. ASSUME NEW n \in (1 .. w) \ X, n \notin D PROVE \A x \in (1 .. w) \ X : x \in D => n < x
  BY <1>2
<1> QED BY <1>1, <1>2 DEF Chain

LEMMA ChainStart ==
  ASSUME NEW Q, \A i \in DOMAIN Q : Q[i] = {}, NEW X, NEW whole, NEW on
  PROVE  Chain(Q, {}, X, 0, whole, on)
BY DEF Chain, Within

(* A stream that is out of reach of its shell. *)
LEMMA ChainNone ==
  ASSUME NEW Q, \A i \in DOMAIN Q : Q[i] = {}, NEW X, NEW w \in Nat, NEW whole
  PROVE  Chain(Q, {}, X, w, whole, FALSE)
BY DEF Chain, Within

(* What is shown is in order; and it is all there is when nothing is left. *)
LEMMA ChainInOrder ==
  ASSUME NEW Q, 0 \in DOMAIN Q, \A i \in DOMAIN Q : i >= 0, DOMAIN Q \subseteq Nat,
         NEW D, NEW X, NEW w \in Nat, NEW whole, NEW on,
         Chain(Q, D, X, w, whole, on),
         NEW P \in Seq(Nat), Q[0] = ToSet(P) \ {Exit},
         \A i, j \in Told(P, X) : i < j => P[i] < P[j]
  PROVE  InOrder(P, X, whole)
<1>1. ASSUME NEW i \in Told(P, X), NEW n \in 1 .. P[i] - 1
      PROVE  \/ n \in X \/ \E j \in Told(P, X) : P[j] = n
             \/ ~whole /\ \A j \in Told(P, X) : n < P[j]
  <2>1. \A j \in Told(P, X) : P[j] \in Q[0] \ X
    BY DEF Told, ToSet, Exit
  <2>2. P[i] \in 1 .. w /\ \A j \in Told(P, X) : P[j] \in 1 .. w
    BY <2>1 DEF Chain
  <2>3. n \in 1 .. w
    BY <2>2
  <2>4. CASE n \in X
    BY <2>4
  <2>5. CASE n \notin X
    <3>0. \A j \in Told(P, X) : Within(P[j], Q, D)
      BY <2>1 DEF Within
    <3>1. CASE Within(n, Q, D)
      <4>1. n \notin D
        BY <1>1, <2>1, <2>2, <2>5 DEF Chain
      <4>2. PICK j \in DOMAIN Q : n \in Q[j]
        BY <3>1, <4>1 DEF Within
      <4>3. j = 0
        <5> SUFFICES ASSUME j > 0 PROVE FALSE
          OBVIOUS
        <5>1. P[i] < n
          BY <2>1, <2>5, <4>2 DEF Chain
        <5> QED BY <2>2, <5>1
      <4>4. PICK l \in DOMAIN P : P[l] = n
        BY <4>2, <4>3 DEF ToSet
      <4>5. n # Exit
        BY DEF Exit
      <4> QED BY <2>5, <4>4, <4>5 DEF Told
    <3>2. CASE ~whole /\ \A x \in (1 .. w) \ X : Within(x, Q, D) => n < x
      <4>1. \A j \in Told(P, X) : n < P[j]
        BY <2>1, <2>2, <3>0, <3>2
      <4> QED BY <3>2, <4>1
    <3>3. CASE ~on /\ \A x \in (1 .. w) \ X : Within(x, Q, D) => x < n
      <4>1. P[i] < n
        BY <2>1, <2>2, <3>0, <3>3
      <4> QED BY <2>2, <4>1
    <3> QED BY <2>3, <2>5, <3>1, <3>2, <3>3 DEF Chain
  <2> QED BY <2>4, <2>5
<1> QED BY <1>1 DEF InOrder

LEMMA ChainDrained ==
  ASSUME NEW Q, DOMAIN Q \subseteq Nat, NEW D, NEW X, NEW w \in Nat,
         Chain(Q, D, X, w, TRUE, TRUE), D \subseteq X, \A i \in DOMAIN Q \ {0} : Q[i] \subseteq X
  PROVE  1 .. w \subseteq X \cup Q[0]
BY DEF Chain, Within

(* Sequences of chunks. *)

LEMMA RisingGrows ==
  ASSUME NEW a \in Seq(Nat), NEW b \in Seq(Nat), NEW X, ToldRising(a, X), Rising(b),
         \A x \in (ToSet(a) \ {Exit}) \ X, y \in (ToSet(b) \ {Exit}) \ X : x < y
  PROVE  ToldRising(a \o b, X)
<1> DEFINE c == a \o b
<1>1. /\ c \in Seq(Nat) /\ Len(c) = Len(a) + Len(b)
      /\ \A i \in 1 .. Len(a) : c[i] = a[i]
      /\ \A i \in 1 .. Len(b) : c[Len(a) + i] = b[i]
      /\ \A i \in 1 .. Len(a) + Len(b) : i <= Len(a) \/ i - Len(a) \in 1 .. Len(b)
      /\ Len(a) \in Nat /\ Len(b) \in Nat
  BY Joins
<1>2. DOMAIN c = 1 .. Len(a) + Len(b) /\ DOMAIN a = 1 .. Len(a) /\ DOMAIN b = 1 .. Len(b)
  BY <1>1
<1> HIDE DEF c
<1> SUFFICES ASSUME NEW i \in Told(c, X), NEW j \in Told(c, X), i < j PROVE c[i] < c[j]
  BY DEF ToldRising, c
<1>3. i \in DOMAIN c /\ j \in DOMAIN c /\ c[i] \notin X \cup {Exit} /\ c[j] \notin X \cup {Exit}
  BY DEF Told
<1>4. CASE j <= Len(a)
  <2>1. i \in 1 .. Len(a) /\ j \in 1 .. Len(a)
    BY <1>1, <1>2, <1>3, <1>4
  <2>2. i \in Told(a, X) /\ j \in Told(a, X) /\ a[i] = c[i] /\ a[j] = c[j]
    BY <1>1, <1>2, <1>3, <2>1 DEF Told
  <2> QED BY <2>2 DEF ToldRising
<1>5. CASE j - Len(a) \in 1 .. Len(b)
  <2> DEFINE l == j - Len(a)
  <2>1. l \in DOMAIN b /\ c[j] = b[l]
    <3>1. Len(a) + l = j
      BY <1>1, <1>2, <1>3
    <3> QED BY <1>1, <1>2, <1>5, <3>1
  <2>2. CASE i <= Len(a)
    <3>1. i \in DOMAIN a /\ c[i] = a[i]
      BY <1>1, <1>2, <1>3, <2>2
    <3>2. c[i] \in (ToSet(a) \ {Exit}) \ X /\ c[j] \in (ToSet(b) \ {Exit}) \ X
      BY <1>3, <2>1, <3>1 DEF ToSet
    <3> QED BY <3>2
  <2>3. CASE i - Len(a) \in 1 .. Len(b)
    <3> DEFINE m == i - Len(a)
    <3>1. m \in DOMAIN b /\ c[i] = b[m]
      <4>1. Len(a) + m = i
        BY <1>1, <1>2, <1>3
      <4> QED BY <1>1, <1>2, <2>3, <4>1
    <3>2. m < l
      BY <1>1, <1>2, <1>3
    <3> QED BY <2>1, <3>1, <3>2 DEF Rising
  <2> QED BY <1>1, <1>2, <1>3, <2>2, <2>3
<1> QED BY <1>1, <1>2, <1>3, <1>4, <1>5

LEMMA RisingExcuse ==
  ASSUME NEW q, NEW X, NEW Y, X \subseteq Y, ToldRising(q, X)
  PROVE  ToldRising(q, Y)
BY DEF ToldRising, Told

(* The live part of a view. *)
LEMMA TailOf ==
  ASSUME NEW v \in Seq(Nat), NEW n \in 0 .. Len(v)
  PROVE  /\ SubSeq(v, n + 1, Len(v)) \in Seq(Nat) /\ Len(SubSeq(v, n + 1, Len(v))) = Len(v) - n
         /\ \A i \in 1 .. Len(v) - n : SubSeq(v, n + 1, Len(v))[i] = v[n + i]
OBVIOUS

LEMMA LiveGrows ==
  ASSUME NEW v \in Seq(Nat), NEW n \in 0 .. Len(v), NEW b \in Seq(Nat)
  PROVE  SubSeq(v \o b, n + 1, Len(v \o b)) = SubSeq(v, n + 1, Len(v)) \o b
<1> DEFINE l == SubSeq(v \o b, n + 1, Len(v \o b))
           r == SubSeq(v, n + 1, Len(v)) \o b
<1>1. /\ v \o b \in Seq(Nat) /\ Len(v \o b) = Len(v) + Len(b)
      /\ \A i \in 1 .. Len(v) : (v \o b)[i] = v[i]
      /\ \A i \in 1 .. Len(b) : (v \o b)[Len(v) + i] = b[i]
      /\ Len(v) \in Nat /\ Len(b) \in Nat
  BY Joins
<1>2. /\ SubSeq(v, n + 1, Len(v)) \in Seq(Nat) /\ Len(SubSeq(v, n + 1, Len(v))) = Len(v) - n
      /\ \A i \in 1 .. Len(v) - n : SubSeq(v, n + 1, Len(v))[i] = v[n + i]
  OBVIOUS
<1>3. /\ r \in Seq(Nat) /\ Len(r) = Len(v) - n + Len(b)
      /\ \A i \in 1 .. Len(v) - n : r[i] = v[n + i]
      /\ \A i \in 1 .. Len(b) : r[Len(v) - n + i] = b[i]
  <2> DEFINE t == SubSeq(v, n + 1, Len(v))
  <2>1. t \in Seq(Nat) /\ Len(t) = Len(v) - n /\ \A i \in 1 .. Len(v) - n : t[i] = v[n + i]
    BY <1>2
  <2> HIDE DEF t
  <2>2. /\ t \o b \in Seq(Nat) /\ Len(t \o b) = Len(t) + Len(b)
        /\ \A i \in 1 .. Len(t) : (t \o b)[i] = t[i]
        /\ \A i \in 1 .. Len(b) : (t \o b)[Len(t) + i] = b[i]
    BY <2>1, Joins
  <2> QED BY <2>1, <2>2 DEF t
<1> DEFINE c == v \o b
<1>4. /\ l \in Seq(Nat) /\ Len(l) = Len(v) - n + Len(b)
      /\ \A i \in 1 .. Len(v) - n + Len(b) : l[i] = c[n + i]
  <2>1. c \in Seq(Nat) /\ Len(c) = Len(v) + Len(b) /\ n \in 0 .. Len(c)
    BY <1>1
  <2> HIDE DEF c
  <2>2. /\ SubSeq(c, n + 1, Len(c)) \in Seq(Nat) /\ Len(SubSeq(c, n + 1, Len(c))) = Len(c) - n
        /\ \A i \in 1 .. Len(c) - n : SubSeq(c, n + 1, Len(c))[i] = c[n + i]
    BY <2>1, TailOf, Zenon
  <2>3. Len(c) - n = Len(v) - n + Len(b)
    BY <1>1, <2>1
  <2> QED BY <2>2, <2>3 DEF c
<1> HIDE DEF l, r, c
<1>5. ASSUME NEW i \in 1 .. Len(v) - n + Len(b) PROVE l[i] = r[i]
  <2>1. CASE i <= Len(v) - n
    BY <1>1, <1>3, <1>4, <2>1 DEF c
  <2>2. CASE i > Len(v) - n
    <3> DEFINE j == i - (Len(v) - n)
    <3>1. j \in 1 .. Len(b) /\ i = Len(v) - n + j /\ n + i = Len(v) + j
      BY <1>1, <2>2
    <3> HIDE DEF j
    <3> QED BY <1>1, <1>3, <1>4, <3>1 DEF c
  <2> QED BY <1>1, <2>1, <2>2
<1>6. l = r
  <2>1. l \in Seq(Nat) /\ r \in Seq(Nat) /\ Len(l) = Len(r) /\ \A i \in 1 .. Len(l) : l[i] = r[i]
    BY <1>3, <1>4, <1>5
  <2> QED BY <2>1, SeqEqual, Zenon
<1> QED BY <1>6 DEF l, r

LEMMA LiveStarts ==
  ASSUME NEW v \in Seq(Nat), NEW b \in Seq(Nat)
  PROVE  SubSeq(v \o b, Len(v) + 1, Len(v \o b)) = b
<1>0. Len(v) \in 0 .. Len(v)
  OBVIOUS
<1>1. SubSeq(v \o b, Len(v) + 1, Len(v \o b)) = SubSeq(v, Len(v) + 1, Len(v)) \o b
  BY <1>0, LiveGrows, Zenon
<1>2. SubSeq(v, Len(v) + 1, Len(v)) = <<>>
  OBVIOUS
<1>3. <<>> \o b = b
  OBVIOUS
<1> QED BY <1>1, <1>2, <1>3

----------------------------------------------------------------------------
(* The stream of a session to an app. *)

(* The stream of session s in a buffer, and in the frames on their way to  *)
(* it: a chain, and what is shown or buffered rises.                       *)
Chunks(m, s) == IF m.k = "Data" /\ m.s = s THEN ToSet(m.chunk) ELSE {}
PartsOf(w, b, s) ==
  [i \in 0 .. Len(w) |-> IF i = 0 THEN ToSet(b) \ {Exit} ELSE Chunks(w[i], s)]
Stream(w, b, s, D, X, n, whole, on) ==
  Chain(PartsOf(w, b, s), D, X, n, whole, on) /\ ToldRising(b, X)

LEMMA PartsAre ==
  ASSUME NEW w, Len(w) \in Nat, NEW b, NEW s
  PROVE  /\ DOMAIN PartsOf(w, b, s) = 0 .. Len(w)
         /\ PartsOf(w, b, s)[0] = ToSet(b) \ {Exit}
         /\ \A i \in 1 .. Len(w) : PartsOf(w, b, s)[i] = Chunks(w[i], s)
BY DEF PartsOf

(* Frames without a part of the stream come; less is expected. *)
Adds(w, v, s) ==
  /\ Len(w) \in Nat /\ Len(v) \in Nat /\ Len(w) <= Len(v)
  /\ \A i \in 1 .. Len(w) : Chunks(v[i], s) = Chunks(w[i], s)
  /\ \A i \in Len(w) + 1 .. Len(v) : Chunks(v[i], s) = {}

LEMMA StreamAdds ==
  ASSUME NEW w, NEW v, NEW b, NEW s, NEW D, NEW X, NEW Y, NEW n \in Nat, NEW whole, NEW on,
         Stream(w, b, s, D, X, n, whole, on), X \subseteq Y, Adds(w, v, s)
  PROVE  Stream(v, b, s, D, Y, n, whole, on)
<1> DEFINE Q == PartsOf(w, b, s)
           R == PartsOf(v, b, s)
           k == Len(w)
           l == Len(v)
<1>1. /\ k \in Nat /\ l \in Nat /\ k <= l /\ DOMAIN Q = 0 .. k /\ DOMAIN R = 0 .. l
      /\ R[0] = Q[0] /\ (\A i \in 1 .. k : Q[i] = Chunks(w[i], s))
      /\ (\A i \in 1 .. l : R[i] = Chunks(v[i], s))
  <2>3. k \in Nat /\ l \in Nat /\ k <= l
    BY DEF Adds
  <2>1. DOMAIN Q = 0 .. k /\ Q[0] = ToSet(b) \ {Exit} /\ \A i \in 1 .. k : Q[i] = Chunks(w[i], s)
    BY <2>3, PartsAre
  <2>2. DOMAIN R = 0 .. l /\ R[0] = ToSet(b) \ {Exit} /\ \A i \in 1 .. l : R[i] = Chunks(v[i], s)
    BY <2>3, PartsAre
  <2> HIDE DEF Q, R, k, l
  <2> QED BY <2>1, <2>2, <2>3
<1>2. Chain(Q, D, X, n, whole, on) /\ ToldRising(b, X)
  BY DEF Stream
<1>3. /\ (\A i \in 1 .. k : Chunks(v[i], s) = Chunks(w[i], s))
      /\ (\A i \in k + 1 .. l : Chunks(v[i], s) = {})
  BY DEF Adds
<1> HIDE DEF Q, R, k, l
<1>4. \A i \in 0 .. k : R[i] = Q[i]
  <2>1. \A i \in 1 .. k : R[i] = Q[i]
    BY <1>1, <1>3
  <2> QED BY <1>1, <2>1
<1>5. \A i \in k + 1 .. l : R[i] = {}
  <2>1. \A i \in k + 1 .. l : i \in 1 .. l
    BY <1>1
  <2> QED BY <1>1, <1>3, <2>1
<1>6. Chain(R, D, X, n, whole, on)
  BY <1>1, <1>2, <1>4, <1>5, ChainSkip
<1>7. Chain(R, D, Y, n, whole, on) /\ ToldRising(b, Y)
  BY <1>2, <1>6, ChainExcuse, RisingExcuse
<1> QED BY <1>7, Zenon DEF Stream, R

LEMMA StreamOff ==
  ASSUME NEW w, NEW b, NEW s, NEW D, NEW X, NEW n \in Nat, NEW whole, NEW on,
         Stream(w, b, s, D, X, n, whole, on)
  PROVE  Stream(w, b, s, {}, X, n, whole, FALSE)
BY ChainOff DEF Stream

(* The shell writes. *)
LEMMA StreamWrites ==
  ASSUME NEW w, NEW b, NEW s, NEW D, NEW E, NEW X, NEW Y, X \subseteq Y, NEW n \in Nat,
         NEW whole, NEW on,
         Stream(w, b, s, D, X, n, whole, on), D \subseteq E \cup Y, E \subseteq D \cup {n + 1},
         on => n + 1 \in E, ~on => n + 1 \notin E
  PROVE  Stream(w, b, s, E, Y, n + 1, whole, on)
<1> DEFINE Q == PartsOf(w, b, s)
<1>1. Chain(Q, D, X, n, whole, on) /\ ToldRising(b, X)
  BY DEF Stream
<1> HIDE DEF Q
<1>2. Chain(Q, E, Y, n + 1, whole, on) /\ ToldRising(b, Y)
  BY <1>1, ChainWrite, RisingExcuse
<1> QED BY <1>2, Zenon DEF Stream, Q

(* A part of what is coming is sent. *)
LEMMA StreamSends ==
  ASSUME NEW w \in Seq(Message), NEW m \in Message, NEW b, NEW s, NEW D, NEW E, NEW X,
         NEW n \in Nat,
         NEW whole, NEW on, Stream(w, b, s, D, X, n, whole, on),
         Chunks(m, s) \subseteq D, E \subseteq D, D \subseteq E \cup Chunks(m, s) \cup X,
         \A x \in Chunks(m, s) \ X, y \in E \ X : x < y
  PROVE  Stream(Append(w, m), b, s, E, X, n, whole, on)
<1> DEFINE v == Append(w, m)
<1>1. /\ Len(w) \in Nat /\ Len(v) = Len(w) + 1
      /\ \A i \in 1 .. Len(w) : v[i] = w[i] /\ i \in 1 .. Len(v)
      /\ v[Len(w) + 1] = m /\ Len(w) + 1 \in 1 .. Len(v)
  OBVIOUS
<1> HIDE DEF v
<1> DEFINE Q == PartsOf(w, b, s)
           R == PartsOf(v, b, s)
           k == Len(w)
<1>2. /\ k \in Nat /\ DOMAIN Q = 0 .. k /\ DOMAIN R = 0 .. k + 1 /\ R[0] = Q[0]
      /\ \A i \in 1 .. k : Q[i] = Chunks(w[i], s)
      /\ \A i \in 1 .. k : R[i] = Chunks(v[i], s)
      /\ R[k + 1] = Chunks(m, s)
  <2>1. Len(v) \in Nat
    BY <1>1
  <2> QED BY <1>1, <2>1, PartsAre
<1>3. Chain(Q, D, X, n, whole, on) /\ ToldRising(b, X)
  BY DEF Stream
<1>4. \A i \in 1 .. k : v[i] = w[i]
  BY <1>1
<1> HIDE DEF Q, R, k
<1>5. \A i \in 0 .. k : R[i] = Q[i]
  <2>1. \A i \in 1 .. k : R[i] = Q[i]
    BY <1>2, <1>4
  <2> QED BY <1>2, <2>1
<1>6. Chain(R, E, X, n, whole, on)
  BY <1>2, <1>3, <1>5, ChainSend
<1> QED BY <1>3, <1>6, Zenon DEF Stream, R, v

(* The first frame is received. *)
LEMMA StreamReceives ==
  ASSUME NEW w \in Seq(Message), w # <<>>, NEW b \in Seq(Nat), NEW x \in Seq(Nat), Rising(x),
         NEW s, NEW D, NEW X, NEW n \in Nat,
         NEW whole, NEW on, Stream(w, b, s, D, X, n, whole, on),
         ToSet(x) \ {Exit} = Chunks(w[1], s)
  PROVE  Stream(Tail(w), b \o x, s, D, X, n, whole, on)
<1>v. PICK v : v = Tail(w)
  OBVIOUS
<1>y. PICK y : y = b \o x
  OBVIOUS
<1>1. /\ Len(v) = Len(w) - 1 /\ Len(w) \in Nat \ {0}
      /\ \A i \in 1 .. Len(v) : v[i] = w[i + 1] /\ i + 1 \in 1 .. Len(w)
      /\ 1 \in 1 .. Len(w)
  BY <1>v, TailIs
<1>2. ToSet(y) = ToSet(b) \cup ToSet(x)
  BY <1>y, Joins
<1> DEFINE Q == PartsOf(w, b, s)
           R == PartsOf(v, y, s)
           k == Len(v)
<1>3. /\ k \in Nat /\ DOMAIN Q = 0 .. k + 1 /\ DOMAIN R = 0 .. k
      /\ Q[0] = ToSet(b) \ {Exit} /\ R[0] = ToSet(y) \ {Exit} /\ Q[1] = Chunks(w[1], s)
      /\ \A i \in 1 .. k : R[i] = Chunks(v[i], s)
      /\ \A i \in 1 .. k : Q[i + 1] = Chunks(w[i + 1], s)
  <2>1. Len(v) \in Nat /\ Len(w) = Len(v) + 1
    BY <1>1
  <2>2. /\ DOMAIN Q = 0 .. Len(w) /\ Q[0] = ToSet(b) \ {Exit}
        /\ \A i \in 1 .. Len(w) : Q[i] = Chunks(w[i], s)
    BY <1>1 DEF PartsOf
  <2>3. /\ DOMAIN R = 0 .. Len(v) /\ R[0] = ToSet(y) \ {Exit}
        /\ \A i \in 1 .. Len(v) : R[i] = Chunks(v[i], s)
    <3>1. Len(v) \in Nat
      BY <2>1
    <3> QED BY <3>1 DEF PartsOf
  <2> HIDE DEF Q, R
  <2>4. \A i \in 1 .. Len(v) : Q[i + 1] = Chunks(w[i + 1], s)
    BY <1>1, <2>2
  <2>5. Q[1] = Chunks(w[1], s)
    BY <1>1, <2>2
  <2> QED BY <2>1, <2>2, <2>3, <2>4, <2>5
<1>4. Chain(Q, D, X, n, whole, on) /\ ToldRising(b, X)
  BY DEF Stream
<1>5. \A i \in 1 .. k : v[i] = w[i + 1]
  BY <1>1
<1> HIDE DEF Q, R, k
<1>6. R[0] = Q[0] \cup Q[1] /\ \A i \in 1 .. k : R[i] = Q[i + 1]
  BY <1>2, <1>3, <1>5
<1>7. Chain(R, D, X, n, whole, on)
  <2>1. k \in Nat /\ DOMAIN Q = 0 .. k + 1 /\ DOMAIN R = 0 .. k
    BY <1>3
  <2> QED BY <1>4, <1>6, <2>1, ChainReceive
<1>8. \A i \in (ToSet(b) \ {Exit}) \ X, j \in (ToSet(x) \ {Exit}) \ X : i < j
  <2>1. 0 \in DOMAIN Q /\ 1 \in DOMAIN Q /\ 0 < 1
    BY <1>3
  <2>2. \A i \in Q[0] \ X, j \in Q[1] \ X : i < j
    BY <1>4, <2>1 DEF Chain
  <2> QED BY <1>3, <2>2
<1>9. ToldRising(y, X)
  BY <1>4, <1>8, <1>y, RisingGrows
<1> QED BY <1>v, <1>y, <1>7, <1>9, Zenon DEF Stream, R

(* What was shown or buffered is gone. *)
LEMMA StreamLoses ==
  ASSUME NEW w, Len(w) \in Nat, NEW b, NEW s, NEW D, NEW X, NEW n \in Nat, NEW whole, NEW more,
         NEW on,
         Stream(w, b, s, D, X, n, whole, on), ~more
  PROVE  Stream(w, <<>>, s, D, X, n, more, on)
<1> DEFINE Q == PartsOf(w, b, s)
           R == PartsOf(w, <<>>, s)
           k == Len(w)
<1>1. /\ k \in Nat /\ DOMAIN Q = 0 .. k /\ DOMAIN R = 0 .. k /\ R[0] = ToSet(<<>>) \ {Exit}
      /\ (\A i \in 1 .. k : Q[i] = Chunks(w[i], s)) /\ (\A i \in 1 .. k : R[i] = Chunks(w[i], s))
  BY PartsAre
<1>2. Chain(Q, D, X, n, whole, on)
  BY DEF Stream
<1> HIDE DEF Q, R, k
<1>3. R[0] = {} /\ \A i \in 1 .. k : R[i] = Q[i]
  BY <1>1, NoChunk
<1>4. Chain(R, D, X, n, FALSE, on)
  BY <1>1, <1>2, <1>3, ChainLose
<1>5. Chain(R, D, X, n, more, on)
  BY <1>4, Zenon DEF Chain
<1>6. ToldRising(<<>>, X)
  BY DEF ToldRising, Told
<1> QED BY <1>5, <1>6, Zenon DEF Stream, R

(* A client that has nothing of the session yet. *)
LEMMA StreamStarts ==
  ASSUME NEW w, Len(w) \in Nat, NEW s, \A i \in 1 .. Len(w) : Chunks(w[i], s) = {}, NEW D, NEW X,
         NEW n \in Nat,
         NEW whole, NEW on, D \subseteq 1 .. n,
         n = 0 \/ ~whole, \A x \in D \ X : \A m \in x .. n : m \in D \cup X
  PROVE  Stream(w, <<>>, s, D, X, n, whole, on)
<1> DEFINE Q == PartsOf(w, <<>>, s)
<1>1. DOMAIN Q = 0 .. Len(w) /\ Q[0] = {} /\ \A i \in 1 .. Len(w) : Q[i] = {}
  BY PartsAre, NoChunk
<1> HIDE DEF Q
<1>2. \A i \in DOMAIN Q : Q[i] = {}
  BY <1>1
<1>3. Chain(Q, D, X, n, whole, on)
  <2>1. CASE ~whole
    <3>1. Chain(Q, D, X, n, FALSE, on)
      BY <1>2, ChainNew
    <3> QED BY <2>1, <3>1, Zenon DEF Chain
  <2>2. CASE n = 0
    <3>1. D = {}
      BY <2>2
    <3>2. Chain(Q, {}, X, 0, whole, on)
      BY <1>2, ChainStart
    <3> QED BY <2>2, <3>1, <3>2
  <2> QED BY <2>1, <2>2
<1>4. ToldRising(<<>>, X)
  BY DEF ToldRising, Told
<1> QED BY <1>3, <1>4, Zenon DEF Stream, Q

(* The stream of session s to the app of c: what is shown or buffered,     *)
(* what is on the wire, and what is coming.                                *)
On(c, s) == c \in subscribers[s] /\ Held(s)
Due(c, s) == IF On(c, s) THEN Coming(s) ELSE {}
Buffer(c, s) ==
  IF channels[c][s] = None THEN early[c][s]
  ELSE IF pane[channels[c][s]].at = "shown" THEN Live(channels[c][s]) ELSE <<>>
Fresh(c, s) ==
  \/ \E i \in Nat : OpenAt(c, i, s)
  \/ \E p \in Pane : pane[p].at = "answered" /\ pane[p].opener /\ pane[p].c = c /\ pane[p].s = s
Whole(c, s) ==
  IF channels[c][s] = None THEN Fresh(c, s)
  ELSE pane[channels[c][s]].at = "shown" /\ pane[channels[c][s]].opener
StreamOf(c, s) ==
  Stream(wire[c], Buffer(c, s), s, Due(c, s), excused[s], wrote[s], Whole(c, s), On(c, s))

(* Nothing of it was lost to a full queue or buffer, or shown elsewhere.   *)
Clean(c, s) == conn[c] = "up" /\ c \notin quitting /\ <<c, s>> \notin saturated /\ s \notin stolen
StreamInv == \A c \in Client, s \in Session : Clean(c, s) => StreamOf(c, s)

(* The chunks of a frame rise. *)
FrameInv == \A c \in Client : \A i \in 1 .. Len(wire[c]) : wire[c][i].k = "Data" =>
  Rising(wire[c][i].chunk)

LEMMA StreamNext ==
  ASSUME NEW c, NEW s,
         Stream(wire'[c], Buffer(c, s)', s, Due(c, s)', excused'[s], wrote'[s], Whole(c, s)', On(c, s)')
  PROVE  StreamOf(c, s)'
BY DEF StreamOf, Stream, PartsOf, Chunks, ToldRising, Told, ToSet, Chain, Within

(* Of a stream whose shell and client stay, less may be expected. *)
LEMMA StreamLess ==
  ASSUME NEW w, NEW b, NEW s, NEW c, NEW E, NEW X, NEW n \in Nat,
         Stream(w, b, s, E, X, n, Whole(c, s), On(c, s)),
         Whole(c, s)' => Whole(c, s), On(c, s)' => On(c, s) /\ Coming(s)' = E
  PROVE  Stream(w, b, s, Due(c, s)', X, n, Whole(c, s)', On(c, s)')
<1>1. Stream(w, b, s, E, X, n, Whole(c, s)', On(c, s))
  BY Zenon DEF Stream, Chain
<1>2. CASE On(c, s)'
  <2>1. Due(c, s)' = E
    BY <1>2 DEF Due
  <2> QED BY <1>1, <1>2, <2>1, Zenon DEF Stream, Chain
<1>3. CASE ~On(c, s)'
  <2>1. Due(c, s)' = {}
    BY <1>3 DEF Due
  <2>2. Stream(w, b, s, {}, X, n, Whole(c, s)', FALSE)
    BY <1>1, StreamOff
  <2> QED BY <1>3, <2>1, <2>2, Zenon DEF Stream, Chain
<1> QED BY <1>2, <1>3

LEMMA StreamStays ==
  ASSUME IndInv, NEW c \in Client, NEW s \in Session, StreamOf(c, s), Adds(wire[c], wire'[c], s),
         Buffer(c, s)' = Buffer(c, s), excused[s] \subseteq excused'[s], wrote'[s] = wrote[s],
         Whole(c, s)' => Whole(c, s), On(c, s)' => On(c, s) /\ Coming(s)' = Coming(s)
  PROVE  StreamOf(c, s)'
<1>1. wrote[s] \in Nat
  BY ThreadSeqs
<1>2. Stream(wire[c], Buffer(c, s), s, Due(c, s), excused[s], wrote[s], Whole(c, s), On(c, s))
  BY DEF StreamOf
<1>3. Stream(wire'[c], Buffer(c, s), s, Due(c, s), excused'[s], wrote[s], Whole(c, s), On(c, s))
  BY <1>1, <1>2, StreamAdds
<1>4. On(c, s)' => On(c, s) /\ Coming(s)' = Due(c, s)
  BY DEF Due
<1>5. Stream(wire'[c], Buffer(c, s), s, Due(c, s)', excused'[s], wrote[s], Whole(c, s)', On(c, s)')
  BY <1>1, <1>3, <1>4, StreamLess
<1> QED BY <1>5, StreamNext, Zenon

(* The app has what it had. *)
LEMMA BufferSame ==
  ASSUME UNCHANGED <<channels, early, pane, view>>, NEW c, NEW s
  PROVE  Buffer(c, s)' = Buffer(c, s)
BY DEF Buffer, Live

LEMMA WholeStays ==
  ASSUME UNCHANGED <<channels, pane>>, NEW c, NEW s,
         \A i \in Nat : OpenAt(c, i, s)' => OpenAt(c, i, s)
  PROVE  Whole(c, s)' => Whole(c, s)
<1>1. Fresh(c, s)' => Fresh(c, s)
  BY DEF Fresh
<1> QED BY <1>1 DEF Whole

(* A stream that was clean is. *)
LEMMA StreamFrom ==
  ASSUME StreamInv,
         \A c \in Client, s \in Session : Clean(c, s)' =>
           (Clean(c, s) /\ StreamOf(c, s) => StreamOf(c, s)') /\ (~Clean(c, s) => StreamOf(c, s)')
  PROVE  StreamInv'
BY Zenon DEF StreamInv

----------------------------------------------------------------------------
(* The steps of the threads keep the stream. *)

LEMMA OpenStays ==
  ASSUME WireAdds, NEW c \in Client, dispatch'[c] = dispatch[c], NEW s
  PROVE  \A i \in Nat : OpenAt(c, i, s)' => OpenAt(c, i, s)
<1> SUFFICES ASSUME NEW i \in Nat, OpenAt(c, i, s)' PROVE OpenAt(c, i, s)
  OBVIOUS
<1>1. CASE i \in 1 .. Len(wire'[c]) /\ wire'[c][i].k = "OpenOk" /\ wire'[c][i].s = s
  <2>1. i \in 1 .. Len(wire[c]) /\ wire'[c][i] = wire[c][i]
    BY <1>1, AddsOpen
  <2> QED BY <1>1, <2>1 DEF OpenAt
<1> QED BY <1>1 DEF OpenAt

LEMMA AddsFrames ==
  ASSUME IndInv, WireAdds, NEW c \in Client, NEW s,
         \A i \in Len(wire[c]) + 1 .. Len(wire'[c]) : wire'[c][i].k = "Data" => wire'[c][i].s # s
  PROVE  Adds(wire[c], wire'[c], s)
<1>1. Len(wire[c]) \in Nat
  BY WireFacts
<1>2. \A i \in 1 .. Len(wire[c]) : Chunks(wire'[c][i], s) = Chunks(wire[c][i], s)
  BY DEF WireAdds, Chunks
<1>3. \A i \in Len(wire[c]) + 1 .. Len(wire'[c]) : Chunks(wire'[c][i], s) = {}
  BY DEF Chunks
<1> QED BY <1>1, <1>2, <1>3 DEF Adds, WireAdds

LEMMA SameFrames ==
  ASSUME IndInv, NEW c \in Client, NEW s, wire'[c] = wire[c]
  PROVE  Adds(wire[c], wire'[c], s)
<1>1. Len(wire[c]) \in Nat
  BY WireFacts
<1> QED BY <1>1 DEF Adds

(* One frame is fanned out that has no part of the stream. *)
LEMMA OtherFrame ==
  ASSUME IndInv, NEW t \in Session, NEW msg \in Message, fanOut(t, msg), msg.s = t,
         NEW c \in Client, NEW s, msg.k # "Data" \/ t # s
  PROVE  Adds(wire[c], wire'[c], s)
<1>1. wire'[c] = wire[c] \/ wire'[c] = Append(wire[c], msg)
  BY FanOutIs, WireFacts
<1>2. wire[c] \in Seq(Message)
  BY WireFacts
<1>3. CASE wire'[c] = Append(wire[c], msg)
  <2>1. /\ Len(wire[c]) \in Nat /\ Len(wire'[c]) = Len(wire[c]) + 1
        /\ \A i \in 1 .. Len(wire[c]) : wire'[c][i] = wire[c][i]
        /\ wire'[c][Len(wire[c]) + 1] = msg
    BY <1>2, <1>3
  <2>2. \A i \in Len(wire[c]) + 1 .. Len(wire'[c]) : i = Len(wire[c]) + 1
    BY <2>1
  <2>3. Chunks(msg, s) = {}
    BY DEF Chunks
  <2>4. \A i \in Len(wire[c]) + 1 .. Len(wire'[c]) : Chunks(wire'[c][i], s) = {}
    BY <2>1, <2>2, <2>3
  <2>5. \A i \in 1 .. Len(wire[c]) : Chunks(wire'[c][i], s) = Chunks(wire[c][i], s)
    BY <2>1
  <2> QED BY <2>1, <2>4, <2>5 DEF Adds
<1> QED BY <1>1, <1>3, SameFrames

(* What a thread does to the frames. *)
LEMMA ThreadFrames ==
  ASSUME IndInv, NEW t \in Session, threadOf(t)
  PROVE  UNCHANGED wire \/ \E msg \in Message :
           /\ msg.s = t /\ fanOut(t, msg) /\ msg.k \in {"Data", "Exit"}
           /\ msg.k = "Data" => flusherFansOut(t) \/ waiterFansOut(t)
<1>1. CASE flusherFansOut(t)
  <2>1. [k |-> "Data", s |-> t, chunk |-> flusher[t].chunk] \in Message
    BY WireFacts DEF Message, ThreadTypes
  <2> QED BY <1>1, <2>1 DEF flusherFansOut
<1>2. CASE waiterFansOut(t)
  <2>1. [k |-> "Data", s |-> t, chunk |-> waiter[t].chunk] \in Message
    BY WireFacts DEF Message, ThreadTypes
  <2> QED BY <1>2, <2>1 DEF waiterFansOut
<1>3. CASE sinkExit(t)
  <2>1. [k |-> "Exit", s |-> t] \in Message
    BY DEF Message
  <2> QED BY <1>3, <2>1 DEF sinkExit
<1> QED BY <1>1, <1>2, <1>3 DEF threadOf, threadStep, shellWrites, shellEnds, flusherTakes,
           flusherAppends,
           waiterTakes, sessionDrop, dropThread, wires

LEMMA ThreadOn ==
  ASSUME IndInv, NEW t \in Session, threadOf(t)
  PROVE  \A c \in Client, s \in Session : On(c, s)' => On(c, s)
<1>1. \A s \in Session : Held(s)' => Held(s)
  BY ThreadHeld
<1>2. \A s \in Session : subscribers'[s] \subseteq subscribers[s]
  BY ThreadSubs, DispatchFacts DEF DaemonTypes
<1> QED BY <1>1, <1>2 DEF On

(* The other sessions. *)
LEMMA ThreadOthers ==
  ASSUME IndInv, NEW t \in Session, threadOf(t), NEW s \in Session, s # t
  PROVE  wrote'[s] = wrote[s] /\ Coming(s)' = Coming(s) /\ excused'[s] = excused[s]
<1>1. /\ wrote'[s] = wrote[s] /\ pending'[s] = pending[s] /\ flusher'[s] = flusher[s]
      /\ waiter'[s] = waiter[s]
      /\ excused'[s] = excused[s]
  <2>1. CASE shellWrites(t)
    BY <2>1 DEF shellWrites, threads
  <2>2. CASE shellEnds(t) \/ sessionDrop(t) \/ dropThread(t)
    BY <2>2 DEF shellEnds, sessionDrop, dropThread, threads, history
  <2>3. CASE flusherTakes(t)
    BY <2>3 DEF flusherTakes, history
  <2>8. CASE flusherFansOut(t)
    BY <2>8 DEF flusherFansOut
  <2>4. CASE flusherAppends(t)
    BY <2>4 DEF flusherAppends, history
  <2>5. CASE waiterTakes(t)
    BY <2>5 DEF waiterTakes
  <2>6. CASE waiterFansOut(t)
    BY <2>6 DEF waiterFansOut
  <2>7. CASE sinkExit(t)
    BY <2>7 DEF sinkExit
  <2> QED BY <2>1, <2>2, <2>3, <2>4, <2>5, <2>6, <2>7, <2>8 DEF threadOf, threadStep
<1> QED BY <1>1 DEF Coming, Taken, Left, ToSet

(* The app has nothing to do with the threads. *)
LEMMA ThreadApps ==
  ASSUME IndInv, ThreadStill, NEW c \in Client, NEW s \in Session
  PROVE  /\ Buffer(c, s)' = Buffer(c, s) /\ (Whole(c, s)' => Whole(c, s))
         /\ Clean(c, s)' => Clean(c, s)
<1>1. UNCHANGED <<channels, early, pane, view, quitting, conn, dispatch, stolen>> /\ WireAdds
  BY DEF ThreadStill, app
<1>2. \A i \in Nat : OpenAt(c, i, s)' => OpenAt(c, i, s)
  BY <1>1, OpenStays
<1>3. Clean(c, s)' => Clean(c, s)
  BY <1>1 DEF Clean, ThreadStill
<1> QED BY <1>1, <1>2, <1>3, BufferSame, WholeStays

LEMMA WritesStream ==
  ASSUME IndInv, AppInv, LineInv, NEW c \in Client, NEW s \in Session, StreamOf(c, s),
         shellWrites(s), ThreadStill
  PROVE  StreamOf(c, s)'
<1> DEFINE n == wrote[s]
<1>1. /\ wrote'[s] = n + 1 /\ n \in Nat
      /\ Coming(s)' \subseteq Coming(s) \cup {n + 1} /\ n + 1 \in Coming(s)'
      /\ Coming(s) \subseteq Coming(s)' \cup excused'[s] /\ excused[s] \subseteq excused'[s]
  BY WritesIs, ThreadSeqs
<1>2. UNCHANGED <<subscribers, map, dropping, dispatch, flusher, waiter, wire, channels, pane, view, early>>
  BY DEF shellWrites, daemon, wires, app
<1>3. (On(c, s)' <=> On(c, s)) /\ (Whole(c, s)' => Whole(c, s)) /\ Buffer(c, s)' = Buffer(c, s)
  <2>1. On(c, s)' <=> On(c, s)
    BY <1>2 DEF On, Held
  <2> QED BY <2>1, ThreadApps
<1> DEFINE E == IF On(c, s) THEN Coming(s)' ELSE {}
<1>4. /\ Due(c, s) \subseteq E \cup excused'[s] /\ E \subseteq Due(c, s) \cup {n + 1}
      /\ (On(c, s) => n + 1 \in E) /\ (~On(c, s) => n + 1 \notin E)
  BY <1>1 DEF Due
<1>5. Due(c, s)' = E
  BY <1>3 DEF Due
<1>6. Stream(wire[c], Buffer(c, s), s, Due(c, s), excused[s], n, Whole(c, s), On(c, s))
  BY DEF StreamOf
<1> HIDE DEF n, E
<1>7. Stream(wire[c], Buffer(c, s), s, E, excused'[s], n + 1, Whole(c, s), On(c, s))
  BY <1>1, <1>4, <1>6, StreamWrites
<1>8. Stream(wire'[c], Buffer(c, s)', s, E, excused'[s], wrote'[s], Whole(c, s), On(c, s))
  BY <1>1, <1>2, <1>3, <1>7
<1>9. Stream(wire'[c], Buffer(c, s)', s, Due(c, s)', excused'[s], wrote'[s], Whole(c, s)', On(c, s)')
  BY <1>3, <1>5, <1>8, Zenon DEF Stream, Chain
<1> QED BY <1>9, StreamNext, Zenon

(* Chunks that were coming are fanned out. *)
LEMMA FanStream ==
  ASSUME IndInv, NEW c \in Client, NEW s \in Session, StreamOf(c, s), conn[c] = "up",
         <<c, s>> \notin saturated',
         NEW msg \in Message, msg.s = s, msg.k = "Data", fanOut(s, msg), Held(s),
         ToSet(msg.chunk) \subseteq Coming(s), Coming(s)' \subseteq Coming(s),
         Coming(s) \subseteq Coming(s)' \cup ToSet(msg.chunk),
         \A x \in ToSet(msg.chunk) \ excused[s], y \in Coming(s)' \ excused[s] : x < y,
         wrote'[s] = wrote[s], excused'[s] = excused[s], Buffer(c, s)' = Buffer(c, s),
         Whole(c, s)' => Whole(c, s), On(c, s)' => On(c, s)
  PROVE  StreamOf(c, s)'
<1> DEFINE F == ToSet(msg.chunk)
<1>1. wrote[s] \in Nat /\ wire[c] \in Seq(Message) /\ Chunks(msg, s) = F
  BY ThreadSeqs, WireFacts DEF Chunks
<1>2. Stream(wire[c], Buffer(c, s), s, Due(c, s), excused[s], wrote[s], Whole(c, s), On(c, s))
  BY DEF StreamOf
<1>3. \/ wire'[c] = wire[c] /\ c \notin subscribers[s]
      \/ c \in subscribers[s] /\ wire'[c] = Append(wire[c], msg)
  BY FanOutIs, WireFacts
<1>4. CASE wire'[c] = wire[c] /\ c \notin subscribers[s]
  <2>1. ~On(c, s)' /\ Adds(wire[c], wire'[c], s)
    BY <1>4, SameFrames DEF On
  <2> QED BY <2>1, StreamStays
<1>5. CASE c \in subscribers[s] /\ wire'[c] = Append(wire[c], msg)
  <2>1. Due(c, s) = Coming(s)
    BY <1>5 DEF Due, On
  <2>2. PICK E : E = Coming(s)'
    OBVIOUS
  <2>3. /\ Chunks(msg, s) \subseteq Due(c, s) /\ E \subseteq Due(c, s)
        /\ Due(c, s) \subseteq E \cup Chunks(msg, s) \cup excused[s]
        /\ \A x \in Chunks(msg, s) \ excused[s], y \in E \ excused[s] : x < y
    BY <1>1, <2>1, <2>2
  <2>4. Stream(Append(wire[c], msg), Buffer(c, s), s, E, excused[s], wrote[s], Whole(c, s), On(c, s))
    BY <1>1, <1>2, <2>3, StreamSends
  <2>5. Stream(wire'[c], Buffer(c, s), s, E, excused[s], wrote[s], Whole(c, s), On(c, s))
    BY <1>5, <2>4
  <2>6. Stream(wire'[c], Buffer(c, s), s, Due(c, s)', excused[s], wrote[s], Whole(c, s)', On(c, s)')
    BY <1>1, <2>2, <2>5, StreamLess
  <2> QED BY <2>6, StreamNext, Zenon
<1> QED BY <1>3, <1>4, <1>5

LEMMA FansStream ==
  ASSUME IndInv, AppInv, LineInv, NEW c \in Client, NEW s \in Session, StreamOf(c, s),
         Clean(c, s)',
         flusherFansOut(s), ThreadStill
  PROVE  StreamOf(c, s)'
<1> DEFINE msg == [k |-> "Data", s |-> s, chunk |-> flusher[s].chunk]
<1>1. msg \in Message /\ msg.s = s /\ msg.k = "Data" /\ msg.chunk = flusher[s].chunk
  BY WireFacts DEF Message, ThreadTypes
<1>2. fanOut(s, msg) /\ flusher[s].at = "appended" /\ flusher' = [flusher EXCEPT ![s] = Resting]
  BY DEF flusherFansOut
<1> HIDE DEF msg
<1>3. UNCHANGED <<waiter, pending, wrote, excused>>
  BY DEF flusherFansOut
<1>4. Taken(s) = ToSet(msg.chunk) /\ Taken(s)' = {} /\ Left(s)' = Left(s)
  BY <1>1, <1>2, <1>3, ThreadSeqs, NoChunk DEF Taken, Left, Resting
<1>5. /\ Coming(s) = ToSet(pending[s]) \cup ToSet(msg.chunk) \cup Left(s)
      /\ Coming(s)' = ToSet(pending[s]) \cup Left(s)
  BY <1>3, <1>4 DEF Coming
<1>6. Line(s)
  BY DEF LineInv
<1>7. \A x \in ToSet(msg.chunk) \ excused[s], y \in Coming(s)' \ excused[s] : x < y
  <2>1. CASE waiter[s].at = "rest"
    <3>1. Left(s) = {}
      BY <2>1 DEF Left
    <3> QED BY <1>4, <1>5, <1>6, <3>1 DEF Line
  <2>2. CASE waiter[s].at # "rest"
    <3>1. ToSet(msg.chunk) \ excused[s] = {}
      BY <1>4, <1>6, <2>2 DEF Line
    <3> QED BY <3>1
  <2> QED BY <2>1, <2>2
<1>8. Held(s) /\ conn[c] = "up" /\ <<c, s>> \notin saturated'
  BY <1>2 DEF Held, Clean, ThreadStill
<1>9. On(c, s)' => On(c, s)
  BY ThreadOn DEF threadOf, threadStep
<1>10. Buffer(c, s)' = Buffer(c, s) /\ (Whole(c, s)' => Whole(c, s))
  BY ThreadApps
<1> QED BY <1>1, <1>2, <1>3, <1>5, <1>7, <1>8, <1>9, <1>10, FanStream

LEMMA WaiterFansStream ==
  ASSUME IndInv, AppInv, LineInv, NEW c \in Client, NEW s \in Session, StreamOf(c, s),
         Clean(c, s)',
         waiterFansOut(s), ThreadStill
  PROVE  StreamOf(c, s)'
<1> DEFINE msg == [k |-> "Data", s |-> s, chunk |-> waiter[s].chunk]
<1>1. msg \in Message /\ msg.s = s /\ msg.k = "Data" /\ msg.chunk = waiter[s].chunk
  BY WireFacts DEF Message, ThreadTypes
<1>2. fanOut(s, msg) /\ waiter[s].at = "appended" /\ waiter' = [waiter EXCEPT ![s].at = "tailed"]
  BY DEF waiterFansOut
<1> HIDE DEF msg
<1>3. UNCHANGED <<flusher, pending, wrote, excused>>
  BY DEF waiterFansOut
<1>4. Left(s) = ToSet(msg.chunk) /\ Left(s)' = {} /\ Taken(s)' = Taken(s)
  <2>1. waiter'[s].at = "tailed"
    BY <1>2, WireFacts DEF ThreadTypes
  <2> QED BY <1>1, <1>2, <1>3, <2>1 DEF Taken, Left
<1>5. /\ Coming(s) = ToSet(pending[s]) \cup ToSet(msg.chunk) \cup Taken(s)
      /\ Coming(s)' = ToSet(pending[s]) \cup Taken(s)
  BY <1>3, <1>4 DEF Coming
<1>6. Line(s)
  BY DEF LineInv
<1>7. \A x \in ToSet(msg.chunk) \ excused[s], y \in Coming(s)' \ excused[s] : x < y
  <2>1. ToSet(pending[s]) = {} /\ Taken(s) \subseteq excused[s]
    BY <1>2, <1>6, NoChunk DEF Line
  <2> QED BY <1>5, <2>1
<1>8. Held(s) /\ conn[c] = "up" /\ <<c, s>> \notin saturated'
  BY <1>2 DEF Held, Clean, ThreadStill
<1>9. On(c, s)' => On(c, s)
  BY ThreadOn DEF threadOf, threadStep
<1>10. Buffer(c, s)' = Buffer(c, s) /\ (Whole(c, s)' => Whole(c, s))
  BY ThreadApps
<1> QED BY <1>1, <1>2, <1>3, <1>5, <1>7, <1>8, <1>9, <1>10, FanStream

(* What the other steps of a thread leave to come. *)
LEMMA ThreadComes ==
  ASSUME IndInv, LineInv, AppInv, NEW s \in Session,
         \/ shellEnds(s) \/ flusherTakes(s) \/ flusherAppends(s) \/ waiterTakes(s) \/ sinkExit(s)
         \/ sessionDrop(s) \/ dropThread(s)
  PROVE  /\ wrote'[s] = wrote[s] /\ excused[s] \subseteq excused'[s]
         /\ (Held(s) => Coming(s)' = Coming(s))
<1> USE ThreadSeqs, NoChunk
<1>1. CASE shellEnds(s) \/ sessionDrop(s) \/ dropThread(s)
  <2>1. UNCHANGED <<wrote, excused, pending, flusher, waiter>>
    BY <1>1 DEF shellEnds, sessionDrop, dropThread, threads, history
  <2> QED BY <2>1 DEF Coming, Taken, Left
<1>2. CASE flusherTakes(s)
  <2>1. UNCHANGED <<wrote, excused, waiter>> /\ flusher[s].at = "rest"
    BY <1>2 DEF flusherTakes, history
  <2>2. pending'[s] = <<>> /\ flusher'[s] = [at |-> "took", chunk |-> pending[s]]
    BY <1>2 DEF flusherTakes
  <2>3. /\ Taken(s) = {} /\ Taken(s)' = ToSet(pending[s]) /\ Left(s)' = Left(s)
        /\ ToSet(pending[s])' = {}
    BY <2>1, <2>2 DEF Taken, Left
  <2> QED BY <2>1, <2>3 DEF Coming
<1>3. CASE flusherAppends(s)
  <2>1. UNCHANGED <<wrote, excused, waiter, pending>> /\ flusher[s].at = "took"
    BY <1>3 DEF flusherAppends, history
  <2>2. Held(s) => flusher'[s].at = "appended" /\ flusher'[s].chunk = flusher[s].chunk
    BY <1>3 DEF flusherAppends
  <2>3. Held(s) => Taken(s)' = Taken(s) /\ Left(s)' = Left(s)
    BY <2>1, <2>2 DEF Taken, Left
  <2> QED BY <2>1, <2>3 DEF Coming
<1>4. CASE waiterTakes(s)
  <2>1. UNCHANGED <<wrote, flusher>> /\ waiter[s].at = "rest" /\ pending'[s] = <<>>
    BY <1>4 DEF waiterTakes
  <2>2. excused[s] \subseteq excused'[s]
    BY <1>4 DEF waiterTakes, AppInv, AppKinds
  <2>3. Held(s) => IF pending[s] # <<>> THEN waiter'[s] = [at |-> "appended", chunk |-> pending[s]]
                   ELSE waiter'[s] = [at |-> "tailed", chunk |-> <<>>]
    BY <1>4 DEF waiterTakes
  <2>4. Held(s) => Left(s) = {} /\ Left(s)' = ToSet(pending[s]) /\ Taken(s)' = Taken(s) /\ ToSet(pending'[s]) = {}
    <3>1. Left(s) = {} /\ Taken(s)' = Taken(s) /\ ToSet(pending'[s]) = {}
      BY <2>1 DEF Taken, Left
    <3>2. CASE pending[s] = <<>>
      BY <2>3, <3>1, <3>2 DEF Left
    <3>3. CASE pending[s] # <<>>
      BY <2>3, <3>1, <3>3 DEF Left
    <3> QED BY <3>1, <3>2, <3>3
  <2> QED BY <2>1, <2>2, <2>4 DEF Coming
<1>5. CASE sinkExit(s)
  <2>1. UNCHANGED <<wrote, excused, pending, flusher>> /\ waiter[s].at = "tailed"
    BY <1>5 DEF sinkExit
  <2>2. waiter'[s].at = "ended"
    BY <1>5 DEF sinkExit
  <2>3. Left(s) = {} /\ Left(s)' = {} /\ Taken(s)' = Taken(s)
    BY <2>1, <2>2 DEF Taken, Left
  <2> QED BY <2>1, <2>3 DEF Coming
<1> QED BY <1>1, <1>2, <1>3, <1>4, <1>5

LEMMA ThreadStream ==
  ASSUME IndInv, AppInv, LineInv, StreamInv, NEW t \in Session, threadOf(t)
  PROVE  StreamInv'
<1>1. ThreadStill
  BY ThreadStands
<1>2. SUFFICES ASSUME NEW c \in Client, NEW s \in Session, Clean(c, s)' PROVE StreamOf(c, s)'
  BY DEF StreamInv
<1>3. /\ Clean(c, s) /\ StreamOf(c, s) /\ Buffer(c, s)' = Buffer(c, s)
      /\ (Whole(c, s)' => Whole(c, s))
  BY <1>1, <1>2, ThreadApps DEF StreamInv
<1>4. (On(c, s)' => On(c, s)) /\ (On(c, s) => Held(s))
  BY ThreadOn DEF On
<1>5. CASE s = t /\ shellWrites(s)
  BY <1>1, <1>3, <1>5, WritesStream
<1>6. CASE s = t /\ flusherFansOut(s)
  BY <1>1, <1>2, <1>3, <1>6, FansStream
<1>7. CASE s = t /\ waiterFansOut(s)
  BY <1>1, <1>2, <1>3, <1>7, WaiterFansStream
<1>8. CASE ~(s = t /\ (shellWrites(s) \/ flusherFansOut(s) \/ waiterFansOut(s)))
  <2>1. Adds(wire[c], wire'[c], s)
    <3>1. CASE UNCHANGED wire
      BY <3>1, SameFrames
    <3>2. CASE ~UNCHANGED wire
      <4>1. PICK msg \in Message : /\ msg.s = t /\ fanOut(t, msg)
                                   /\ msg.k = "Data" => flusherFansOut(t) \/ waiterFansOut(t)
        BY <3>2, ThreadFrames
      <4>2. msg.k # "Data" \/ t # s
        BY <1>8, <4>1
      <4> QED BY <4>1, <4>2, OtherFrame
    <3> QED BY <3>1, <3>2
  <2>2. /\ wrote'[s] = wrote[s] /\ excused[s] \subseteq excused'[s]
        /\ (Held(s) => Coming(s)' = Coming(s))
    <3>1. CASE s # t
      BY <3>1, ThreadOthers
    <3>2. CASE s = t
      BY <1>8, <3>2, ThreadComes DEF threadOf, threadStep
    <3> QED BY <3>1, <3>2
  <2> QED BY <1>3, <1>4, <2>1, <2>2, StreamStays
<1> QED BY <1>5, <1>6, <1>7, <1>8

----------------------------------------------------------------------------
(* The steps of the dispatchers keep it. *)

(* Where the opening of a session is, when only frames without a reply are *)
(* added.                                                                  *)
LEMMA OpenLess ==
  ASSUME WireAdds, NEW c \in Client, NEW s, OpenAt(c, 0, s)' => OpenAt(c, 0, s)
  PROVE  \A i \in Nat : OpenAt(c, i, s)' => OpenAt(c, i, s)
<1> SUFFICES ASSUME NEW i \in Nat, OpenAt(c, i, s)' PROVE OpenAt(c, i, s)
  OBVIOUS
<1>1. CASE i \in 1 .. Len(wire'[c]) /\ wire'[c][i].k = "OpenOk" /\ wire'[c][i].s = s
  <2>1. i \in 1 .. Len(wire[c]) /\ wire'[c][i] = wire[c][i]
    BY <1>1, AddsOpen
  <2> QED BY <1>1, <2>1 DEF OpenAt
<1>2. CASE i = 0
  BY <1>2
<1> QED BY <1>1, <1>2 DEF OpenAt

(* A dispatcher that neither begins a stream nor adds to it. *)
LEMMA DispatchPair ==
  ASSUME IndInv, NEW c \in Client, DispatchStill(c),
         UNCHANGED <<wrote, pending, flusher, waiter>>,
         NEW d \in Client, NEW s \in Session, StreamOf(d, s), Adds(wire[d], wire'[d], s),
         OpenAt(d, 0, s)' => OpenAt(d, 0, s), On(d, s)' => On(d, s)
  PROVE  StreamOf(d, s)'
<1>1. UNCHANGED <<channels, early, pane, view, excused>> /\ WireAdds
  BY DEF DispatchStill, app
<1>2. Coming(s)' = Coming(s)
  BY DEF Coming, Taken, Left
<1>3. \A i \in Nat : OpenAt(d, i, s)' => OpenAt(d, i, s)
  BY <1>1, OpenLess
<1>4. Whole(d, s)' => Whole(d, s)
  BY <1>1, <1>3, WholeStays
<1>5. Buffer(d, s)' = Buffer(d, s)
  BY <1>1, BufferSame
<1> QED BY <1>1, <1>2, <1>4, <1>5, StreamStays

LEMMA DispatchClean ==
  ASSUME NEW c \in Client, DispatchStill(c), NEW d \in Client, NEW s \in Session
  PROVE  Clean(d, s)' => Clean(d, s)
BY DEF Clean, DispatchStill, app

(* What was open stays where it is, at the other dispatchers.              *)
LEMMA OthersOpen ==
  ASSUME IndInv, NEW c \in Client, DispatchStill(c), NEW d \in Client, d # c, NEW s
  PROVE  OpenAt(d, 0, s)' => OpenAt(d, 0, s)
<1>1. dispatch'[d] = dispatch[d]
  BY DispatchFacts DEF DispatchStill
<1> QED BY <1>1 DEF OpenAt

(* A client that has nothing of the session joins. *)
LEMMA NewStream ==
  ASSUME IndInv, LineInv, WireAdds, NEW c \in Client, NEW s \in Session, ~OnWire(wire[c], s),
         ~InApp(c, s),
         \A i \in Len(wire[c]) + 1 .. Len(wire'[c]) : wire'[c][i].k # "Data",
         UNCHANGED <<channels, early, pane, view, wrote, pending, flusher, waiter, excused>>,
         OpenAt(c, 0, s)' => wrote[s] = 0
  PROVE  StreamOf(c, s)'
<1>1. /\ Len(wire'[c]) \in Nat /\ Len(wire[c]) \in Nat /\ wrote[s] \in Nat
  BY ThreadSeqs, WireFacts DEF WireAdds
<1>2. \A i \in 1 .. Len(wire'[c]) : Chunks(wire'[c][i], s) = {}
  <2> SUFFICES ASSUME NEW i \in 1 .. Len(wire'[c])
               PROVE  ~(wire'[c][i].k = "Data" /\ wire'[c][i].s = s)
    BY DEF Chunks
  <2>1. CASE i \in 1 .. Len(wire[c])
    BY <2>1 DEF WireAdds, OnWire
  <2>2. CASE i \in Len(wire[c]) + 1 .. Len(wire'[c])
    BY <2>2
  <2> QED BY <1>1, <2>1, <2>2
<1>3. channels[c][s] = None /\ early[c][s] = <<>>
  BY DEF InApp
<1>4. Buffer(c, s)' = <<>>
  BY <1>3, BufferSame DEF Buffer
<1>5. Coming(s)' = Coming(s)
  BY DEF Coming, Taken, Left
<1>6. /\ Coming(s) \subseteq 1 .. wrote[s]
      /\ \A x \in Coming(s) \ excused[s] :
           \A n \in x .. wrote[s] : n \in Coming(s) \cup excused[s]
  BY DEF LineInv, Line
<1>7. wrote[s] = 0 \/ ~Whole(c, s)'
  <2>1. ASSUME NEW i \in Nat, OpenAt(c, i, s)' PROVE wrote[s] = 0
    <3>1. CASE i \in 1 .. Len(wire'[c]) /\ wire'[c][i].k = "OpenOk" /\ wire'[c][i].s = s
      <4>1. i \in 1 .. Len(wire[c]) /\ wire'[c][i] = wire[c][i]
        BY <3>1, AddsOpen
      <4> QED BY <3>1, <4>1 DEF OnWire
    <3>2. CASE i = 0
      BY <2>1, <3>2
    <3> QED BY <2>1, <3>1, <3>2 DEF OpenAt
  <2>2. Fresh(c, s)' => wrote[s] = 0
    BY <2>1 DEF Fresh, InApp
  <2> QED BY <1>3, <2>2 DEF Whole
<1>8. /\ Due(c, s)' \subseteq 1 .. wrote[s]
      /\ \A x \in Due(c, s)' \ excused[s] :
           \A n \in x .. wrote[s] : n \in Due(c, s)' \cup excused[s]
  <2>1. Due(c, s)' = Coming(s) \/ Due(c, s)' = {}
    BY <1>5 DEF Due
  <2> QED BY <1>6, <2>1
<1>9. Stream(wire'[c], <<>>, s, Due(c, s)', excused[s], wrote[s], Whole(c, s)', On(c, s)')
  <2> DEFINE w == wire'[c]
             D == Due(c, s)'
  <2> HIDE DEF w, D
  <2>1. Stream(w, <<>>, s, D, excused[s], wrote[s], Whole(c, s)', On(c, s)')
    <3>1. /\ Len(w) \in Nat /\ \A i \in 1 .. Len(w) : Chunks(w[i], s) = {}
          /\ D \subseteq 1 .. wrote[s]
          /\ \A x \in D \ excused[s] : \A m \in x .. wrote[s] : m \in D \cup excused[s]
      BY <1>1, <1>2, <1>8 DEF w, D
    <3> QED BY <1>1, <1>7, <3>1, StreamStarts
  <2> QED BY <2>1 DEF w, D
<1> QED BY <1>4, <1>9, StreamNext, Zenon

LEMMA SpawnsStream ==
  ASSUME IndInv, AppInv, StreamInv, NEW c \in Client,
         openSpawns(c) \/ openSpawnFails(c) \/ openFills(c)
  PROVE  StreamInv'
<1>1. DispatchStill(c) /\ UNCHANGED <<wrote, pending, flusher, waiter, subscribers, wire>>
  BY SpawnsApp, SpawnsIs
<1> SUFFICES ASSUME NEW d \in Client, NEW s \in Session, Clean(d, s)' PROVE StreamOf(d, s)'
  BY Zenon DEF StreamInv
<1>2. StreamOf(d, s)
  BY <1>1, DispatchClean DEF StreamInv
<1>3. Adds(wire[d], wire'[d], s)
  BY <1>1, SameFrames
<1>4. OpenAt(d, 0, s)' => OpenAt(d, 0, s)
  <2>1. CASE d # c
    BY <1>1, <2>1, OthersOpen
  <2>2. CASE d = c
    BY <2>2, SpawnsIs DEF OpenAt
  <2> QED BY <2>1, <2>2
<1>5. On(d, s)' => On(d, s)
  BY <1>1, SpawnsHeld DEF On
<1> QED BY <1>1, <1>2, <1>3, <1>4, <1>5, DispatchPair

(* close_session only adds exits. *)
LEMMA DispatchAdds ==
  ASSUME IndInv, NEW c \in Client,
         openReserves(c) \/ attachCopies(c) \/ attachSubscribes(c) \/ serveClose(c) \/ serveKillAll(c)
  PROVE  \A d \in Client : \A i \in Len(wire[d]) + 1 .. Len(wire'[d]) : wire'[d][i].k = "Exit"
<1>1. CASE attachCopies(c) \/ attachSubscribes(c)
  <2>1. UNCHANGED wire
    BY <1>1 DEF attachCopies, attachSubscribes, wires
  <2>2. \A d \in Client : Len(wire[d]) \in Nat
    BY WireFacts
  <2> QED BY <2>1, <2>2
<1>2. CASE serveClose(c)
  <2>1. PICK S : S = {Head1(c).s} \cap map
    OBVIOUS
  <2>2. S \in SUBSET Session /\ closeSessions(S, map \ S)
    BY <1>2, <2>1, DispatchFacts DEF serveClose
  <2> QED BY <2>2, CloseAdds
<1>3. CASE serveKillAll(c)
  <2>1. map \in SUBSET Session /\ closeSessions(map, {})
    BY <1>3, DispatchFacts DEF serveKillAll
  <2> QED BY <2>1, CloseAdds
<1>4. CASE openReserves(c)
  <2>1. reapable \in SUBSET Session /\ closeSessions(reapable, map')
    BY <1>4, ReservesIs, DispatchFacts DEF reapable
  <2> QED BY <2>1, CloseAdds
<1> QED BY <1>1, <1>2, <1>3, <1>4

LEMMA ServesStream ==
  ASSUME IndInv, AppInv, LineInv, SubInv, StreamInv, NEW c \in Client,
         attachCopies(c) \/ attachSubscribes(c) \/ serveClose(c) \/ serveKillAll(c)
  PROVE  StreamInv'
<1>1. DispatchStill(c) /\ UNCHANGED <<wrote, pending, flusher, waiter>>
  BY AttachApp, ServesApp, ServesIs
<1>2. WireAdds /\ UNCHANGED <<channels, early, pane, view, excused, conn>>
  BY <1>1 DEF DispatchStill, app
<1> SUFFICES ASSUME NEW d \in Client, NEW s \in Session, Clean(d, s)' PROVE StreamOf(d, s)'
  BY Zenon DEF StreamInv
<1>3. StreamOf(d, s)
  BY <1>1, DispatchClean DEF StreamInv
<1>4. \A i \in Len(wire[d]) + 1 .. Len(wire'[d]) : wire'[d][i].k # "Data"
  <2>1. \A i \in Len(wire[d]) + 1 .. Len(wire'[d]) : wire'[d][i].k = "Exit"
    BY DispatchAdds
  <2> QED BY <2>1
<1>5. Adds(wire[d], wire'[d], s)
  BY <1>2, <1>4, AddsFrames
<1>6. OpenAt(d, 0, s)' => OpenAt(d, 0, s)
  <2>1. CASE d # c
    BY <1>1, <2>1, OthersOpen
  <2>2. CASE d = c
    BY <2>2, ServesIs DEF OpenAt
  <2> QED BY <2>1, <2>2
<1>7. Held(s)' => Held(s)
  BY ServesHeld
<1>8. CASE d \in subscribers'[s] => d \in subscribers[s]
  <2>1. On(d, s)' => On(d, s)
    BY <1>7, <1>8 DEF On
  <2> QED BY <1>1, <1>3, <1>5, <1>6, <2>1, DispatchPair
<1>9. CASE d \in subscribers'[s] /\ d \notin subscribers[s]
  <2>1. /\ dispatch[c].at = "copied" /\ dispatch'[c].at = "reply"
        /\ dispatch'[c].msg.k = "AttachOk"
        /\ subscribers' = [subscribers EXCEPT ![dispatch[c].s] = @ \cup {c}]
    BY <1>9, ServesIs
  <2>2. subscribers \in [Session -> SUBSET Client]
    BY DispatchFacts DEF DaemonTypes
  <2>3. d = c /\ s = dispatch[c].s
    BY <1>9, <2>1, <2>2
  <2>4. Held(s)
    BY <2>1, <2>3 DEF Held
  <2>5. conn[c] = "up"
    BY <1>2, <2>3 DEF Clean
  <2>6. ~Joined(c, s)
    BY <1>9, <2>3, <2>4, <2>5 DEF SubInv
  <2>7. ~OnWire(wire[c], s) /\ ~InApp(c, s)
    BY <2>6 DEF Joined
  <2>8. ~OpenAt(c, 0, s)'
    BY <2>1 DEF OpenAt
  <2>9. StreamOf(c, s)'
    BY <1>1, <1>2, <1>4, <2>3, <2>7, <2>8, NewStream
  <2> QED BY <2>3, <2>9
<1> QED BY <1>8, <1>9

LEMMA ReservesStream ==
  ASSUME IndInv, AppInv, LineInv, SubInv, StreamInv, NEW c \in Client, openReserves(c)
  PROVE  StreamInv'
<1>1. /\ DispatchStill(c) /\ UNCHANGED <<wrote, pending, flusher, waiter>> /\ Reserves(c)
      /\ opened \in Nat
  BY ReservesApp, ReservesIs
<1>2. WireAdds /\ UNCHANGED <<channels, early, pane, view, excused, conn>>
  BY <1>1 DEF DispatchStill, app
<1> SUFFICES ASSUME NEW d \in Client, NEW s \in Session, Clean(d, s)' PROVE StreamOf(d, s)'
  BY Zenon DEF StreamInv
<1>3. StreamOf(d, s)
  BY <1>1, DispatchClean DEF StreamInv
<1>4. \A i \in Len(wire[d]) + 1 .. Len(wire'[d]) : wire'[d][i].k # "Data"
  <2>1. \A i \in Len(wire[d]) + 1 .. Len(wire'[d]) : wire'[d][i].k = "Exit"
    BY DispatchAdds
  <2> QED BY <2>1
<1>5. Adds(wire[d], wire'[d], s)
  BY <1>2, <1>4, AddsFrames
<1>6. s \in Nat
  BY DEF Session
<1>7. s > opened => subscribers[s] = {} /\ wrote[s] = 0
  <2>1. s > opened => shell[s] = "none"
    BY DEF IndInv, ShellInv
  <2> QED BY <2>1 DEF LineInv, Begun
<1>8. CASE subscribers'[s] = subscribers[s] /\ (d = c => ~OpenAt(d, 0, s)')
  <2>1. On(d, s)' => On(d, s)
    <3>1. CASE s <= opened
      BY <1>8, <3>1, ReservesHeld DEF On
    <3>2. CASE s > opened
      BY <1>7, <1>8, <3>2 DEF On
    <3> QED BY <1>1, <1>6, <3>1, <3>2
  <2>2. OpenAt(d, 0, s)' => OpenAt(d, 0, s)
    BY <1>1, <1>8, OthersOpen
  <2> QED BY <1>1, <1>3, <1>5, <2>1, <2>2, DispatchPair
<1>9. CASE s = opened + 1
  <2>1. s > opened /\ ~(s <= opened)
    BY <1>1, <1>6, <1>9
  <2>2. conn[d] = "up"
    BY <1>2 DEF Clean
  <2>3. ~OnWire(wire[d], s) /\ ~InApp(d, s)
    BY <2>1, <2>2 DEF SubInv, Joined
  <2> QED BY <1>1, <1>2, <1>4, <1>7, <2>1, <2>3, NewStream
<1>10. CASE s # opened + 1
  <2>1. subscribers'[s] = subscribers[s]
    BY <1>1, <1>10 DEF Reserves
  <2>2. ~OpenAt(c, 0, s)'
    BY <1>1, <1>10 DEF Reserves, OpenAt
  <2> QED BY <1>8, <2>1, <2>2
<1> QED BY <1>9, <1>10

LEMMA ReplyStream ==
  ASSUME IndInv, AppInv, ReplyInv, StreamInv, NEW c \in Client, reply(c)
  PROVE  StreamInv'
<1>1. /\ ReplyStill(c) /\ UNCHANGED <<wrote, pending, flusher, waiter, subscribers>>
  BY ReplyApp DEF reply, threads
<1>2. /\ UNCHANGED <<channels, early, pane, view, excused, conn, quitting, stolen, saturated>>
      /\ dispatch[c].at = "reply" /\ dispatch'[c].at = "idle"
      /\ \A d \in Client : d # c => dispatch'[d] = dispatch[d]
  BY <1>1, DispatchFacts DEF ReplyStill, app, Idle
<1>3. /\ wire[c] \in Seq(Message) /\ Len(wire[c]) \in Nat
      /\ \A d \in Client : d # c => wire'[d] = wire[d]
      /\ conn[c] = "up" => wire'[c] = Append(wire[c], dispatch[c].msg)
  BY <1>1, DispatchFacts DEF ReplyStill, WireTypes
<1> SUFFICES ASSUME NEW d \in Client, NEW s \in Session, Clean(d, s)' PROVE StreamOf(d, s)'
  BY Zenon DEF StreamInv
<1>4. StreamOf(d, s) /\ conn[d] = "up"
  BY <1>2 DEF StreamInv, Clean
<1>5. Coming(s)' = Coming(s) /\ Buffer(d, s)' = Buffer(d, s)
  BY <1>1, <1>2, BufferSame DEF Coming, Taken, Left
<1>6. On(d, s)' => On(d, s)
  BY <1>1, ReplyHeld DEF On
<1>7. /\ Adds(wire[d], wire'[d], s)
      /\ \A i \in Nat : OpenAt(d, i, s)' => \E j \in Nat : OpenAt(d, j, s)
  <2>1. CASE d # c
    <3>1. wire'[d] = wire[d] /\ dispatch'[d] = dispatch[d]
      BY <1>2, <1>3, <2>1
    <3>2. \A i \in Nat : OpenAt(d, i, s)' => OpenAt(d, i, s)
      BY <3>1 DEF OpenAt
    <3> QED BY <3>1, <3>2, SameFrames
  <2>2. CASE d = c
    <3>1. /\ Len(wire'[c]) = Len(wire[c]) + 1 /\ wire'[c][Len(wire[c]) + 1] = dispatch[c].msg
          /\ \A i \in 1 .. Len(wire[c]) : wire'[c][i] = wire[c][i]
      BY <1>3, <1>4, <2>2
    <3>2. dispatch[c].msg.k # "Data"
      BY <1>2 DEF ReplyInv
    <3>3. \A i \in Len(wire[c]) + 1 .. Len(wire'[c]) : i = Len(wire[c]) + 1
      BY <1>3, <3>1
    <3>4. Adds(wire[c], wire'[c], s)
      <4>1. \A i \in Len(wire[c]) + 1 .. Len(wire'[c]) : Chunks(wire'[c][i], s) = {}
        BY <3>1, <3>2, <3>3 DEF Chunks
      <4>2. \A i \in 1 .. Len(wire[c]) : Chunks(wire'[c][i], s) = Chunks(wire[c][i], s)
        BY <3>1
      <4> QED BY <1>3, <3>1, <4>1, <4>2 DEF Adds
    <3>5. ASSUME NEW i \in Nat, OpenAt(c, i, s)' PROVE \E j \in Nat : OpenAt(c, j, s)
      <4>1. i \in 1 .. Len(wire'[c]) /\ wire'[c][i].k = "OpenOk" /\ wire'[c][i].s = s
        BY <1>2, <3>5 DEF OpenAt
      <4>2. CASE i \in 1 .. Len(wire[c])
        BY <3>1, <4>1, <4>2 DEF OpenAt
      <4>3. CASE i = Len(wire[c]) + 1
        <5>1. OpenAt(c, 0, s)
          BY <1>2, <3>1, <4>1, <4>3 DEF OpenAt
        <5> QED BY <5>1
      <4> QED BY <1>3, <3>1, <4>1, <4>2, <4>3
    <3> QED BY <2>2, <3>4, <3>5
  <2> QED BY <2>1, <2>2
<1>8. Whole(d, s)' => Whole(d, s)
  <2>1. Fresh(d, s)' => Fresh(d, s)
    BY <1>2, <1>7 DEF Fresh
  <2> QED BY <1>2, <2>1 DEF Whole
<1> QED BY <1>1, <1>2, <1>4, <1>5, <1>6, <1>7, <1>8, StreamStays

----------------------------------------------------------------------------
(* The steps of the connections keep it. *)

(* A connection that comes up has nothing of any session.                  *)
LEMMA NothingJoined ==
  ASSUME IndInv, AppInv, NEW c \in Client, conn[c] \notin {"up", "left"}, NEW s \in Session
  PROVE  ~Joined(c, s)
<1>1. dispatch[c].at = "idle"
  BY DispatchFacts DEF RequestInv, DispatchInv
<1>2. wire[c] = <<>> /\ early[c][s] = <<>> /\ channels[c][s] = None
  BY DEF AppInv, AwayInv
<1>3. \A p \in Pane : pane[p].at = "answered" => pane[p].c # c
  BY DispatchFacts DEF PaneInv
<1>4. Len(wire[c]) = 0
  BY <1>2
<1> QED BY <1>1, <1>2, <1>3, <1>4 DEF Joined, InHand, OnWire, InApp

LEMMA ConnStream == ASSUME IndInv, AppInv, LineInv, StreamInv, connStep PROVE StreamInv'
<1>1. ConnStill
  BY ConnStands
<1>2. UNCHANGED <<channels, early, pane, view, quitting, wire, dispatch, excused, saturated, stolen>>
  BY <1>1 DEF ConnStill
<1>3. CASE shutdownCheck /\ Exits
  <2>1. Counted = {}
    <3>1. CASE Counted # {}
      <4>1. Resumes
        BY <1>3, <3>1 DEF shutdownCheck
      <4> QED BY <1>3, <4>1 DEF Exits, Resumes
    <3> QED BY <3>1
  <2>2. \A c \in Client : conn'[c] # "up"
    BY <1>3, <2>1 DEF Exits, Counted
  <2> QED BY <2>2, Zenon DEF StreamInv, Clean
<1>4. CASE \/ \E c \in Client : connect(c) \/ accept(c) \/ unsubscribe(c)
           \/ idle_watcher \/ acceptWake \/ (shutdownCheck /\ Resumes)
  <2>1. UNCHANGED <<map, dropping, dispatch, flusher, waiter, wrote, pending>>
    BY <1>4 DEF connect, accept, idle_watcher, acceptWake, Resumes, unsubscribe, threads,
       history
  <2>2. \A s \in Session : subscribers'[s] \subseteq subscribers[s]
    <3>1. CASE \E c \in Client : unsubscribe(c)
      BY <3>1 DEF unsubscribe
    <3>2. CASE \/ \E c \in Client : connect(c) \/ accept(c)
               \/ idle_watcher \/ acceptWake \/ (shutdownCheck /\ Resumes)
      <4>1. UNCHANGED subscribers
        BY <3>2 DEF connect, accept, idle_watcher, acceptWake, Resumes
      <4> QED BY <4>1
    <3> QED BY <1>4, <3>1, <3>2
  <2> SUFFICES ASSUME NEW c \in Client, NEW s \in Session, Clean(c, s)' PROVE StreamOf(c, s)'
    BY Zenon DEF StreamInv
  <2>3. WireAdds /\ Adds(wire[c], wire'[c], s)
    BY <1>2, WireStill, SameFrames
  <2>4. CASE conn[c] = "up"
    <3>1. StreamOf(c, s)
      BY <1>2, <2>4 DEF StreamInv, Clean
    <3>2. \A i \in Nat : OpenAt(c, i, s)' => OpenAt(c, i, s)
      BY <1>2 DEF OpenAt
    <3>3. Whole(c, s)' => Whole(c, s)
      BY <1>2, <3>2, WholeStays
    <3>4. Buffer(c, s)' = Buffer(c, s) /\ Coming(s)' = Coming(s)
      BY <1>2, <2>1, BufferSame DEF Coming, Taken, Left
    <3>5. On(c, s)' => On(c, s)
      BY <2>1, <2>2 DEF On, Held
    <3> QED BY <1>2, <2>1, <2>3, <3>1, <3>3, <3>4, <3>5, StreamStays
  <2>5. CASE conn[c] # "up"
    <3>1. conn[c] \notin {"up", "left"}
      BY <1>1, <2>5 DEF ConnStill, Clean
    <3>2. ~Joined(c, s)
      BY <3>1, NothingJoined
    <3>3. ~OpenAt(c, 0, s)'
      <4>1. ~OpenAt(c, 0, s)
        BY <3>1, NothingOpen
      <4> QED BY <1>2, <4>1 DEF OpenAt
    <3>4. \A i \in Len(wire[c]) + 1 .. Len(wire'[c]) : wire'[c][i].k # "Data"
      BY <1>2, WireFacts
    <3> QED BY <1>2, <2>1, <2>3, <3>2, <3>3, <3>4, NewStream DEF Joined
  <2> QED BY <2>4, <2>5
<1> QED BY <1>3, <1>4 DEF connStep, shutdownCheck

(* The chunks of a frame rise, as those of the threads do. *)
LEMMA FrameStays ==
  ASSUME FrameInv,
         \A c \in Client : \A i \in 1 .. Len(wire'[c]) :
           \/ \E j \in 1 .. Len(wire[c]) : wire'[c][i] = wire[c][j]
           \/ wire'[c][i].k = "Data" => Rising(wire'[c][i].chunk)
  PROVE  FrameInv'
BY DEF FrameInv, Rising

LEMMA ThreadFrame1 ==
  ASSUME IndInv, LineInv, FrameInv, NEW t \in Session, threadOf(t)
  PROVE  FrameInv'
<1>1. CASE UNCHANGED wire
  BY <1>1, FrameStays
<1>2. ASSUME NEW msg \in Message, msg.k = "Data" => Rising(msg.chunk), fanOut(t, msg)
      PROVE  FrameInv'
  BY <1>2, FanOutKeeps, WireFacts, FrameStays
<1>3. Rising(flusher[t].chunk) /\ Rising(waiter[t].chunk)
  BY DEF LineInv, Line
<1>4. CASE flusherFansOut(t)
  <2>1. PICK msg : msg = [k |-> "Data", s |-> t, chunk |-> flusher[t].chunk]
    OBVIOUS
  <2>2. msg \in Message /\ Rising(msg.chunk)
    BY <1>3, <2>1, WireFacts DEF Message, ThreadTypes
  <2>3. fanOut(t, msg)
    BY <1>4, <2>1 DEF flusherFansOut
  <2> QED BY <1>2, <2>2, <2>3
<1>5. CASE waiterFansOut(t)
  <2>1. PICK msg : msg = [k |-> "Data", s |-> t, chunk |-> waiter[t].chunk]
    OBVIOUS
  <2>2. msg \in Message /\ Rising(msg.chunk)
    BY <1>3, <2>1, WireFacts DEF Message, ThreadTypes
  <2>3. fanOut(t, msg)
    BY <1>5, <2>1 DEF waiterFansOut
  <2> QED BY <1>2, <2>2, <2>3
<1>6. CASE \E msg \in Message : fanOut(t, msg) /\ msg.k = "Exit"
  BY <1>2, <1>6
<1> QED BY <1>1, <1>4, <1>5, <1>6, ThreadFrames

LEMMA DispatchFrame ==
  ASSUME IndInv, AppInv, ReplyInv, FrameInv, NEW c \in Client, dispatchStep(c)
  PROVE  FrameInv'
<1>1. CASE openSpawns(c) \/ openSpawnFails(c) \/ openFills(c)
  BY <1>1, SpawnsIs, FrameStays
<1>2. CASE \/ openReserves(c) \/ attachCopies(c) \/ attachSubscribes(c) \/ serveClose(c)
           \/ serveKillAll(c)
  <2>1. DispatchStill(c)
    BY <1>2, ReservesApp, AttachApp, ServesApp
  <2>2. /\ WireAdds
        /\ \A d \in Client : \A i \in Len(wire[d]) + 1 .. Len(wire'[d]) : wire'[d][i].k = "Exit"
    BY <1>2, <2>1, DispatchAdds DEF DispatchStill
  <2>3. ASSUME NEW d \in Client, NEW i \in 1 .. Len(wire'[d])
        PROVE  (\E j \in 1 .. Len(wire[d]) : wire'[d][i] = wire[d][j]) \/ wire'[d][i].k # "Data"
    BY <2>2, AddsIs
  <2> QED BY <2>3, FrameStays
<1>3. CASE reply(c)
  <2>1. ReplyStill(c)
    BY <1>3, ReplyApp
  <2>2. dispatch[c].msg.k # "Data"
    BY <2>1 DEF ReplyInv, ReplyStill
  <2>3. ASSUME NEW d \in Client, NEW i \in 1 .. Len(wire'[d])
        PROVE  (\E j \in 1 .. Len(wire[d]) : wire'[d][i] = wire[d][j]) \/ wire'[d][i].k # "Data"
    <3>1. wire \in [Client -> Seq(Message)]
      BY WireFacts
    <3>2. CASE wire'[d] = wire[d]
      BY <3>2
    <3>3. CASE d = c /\ wire'[c] = Append(wire[c], dispatch[c].msg)
      BY <2>2, <3>1, <3>3
    <3> QED BY <2>1, <3>1, <3>2, <3>3 DEF ReplyStill
  <2> QED BY <2>3, FrameStays
<1>4. CASE unsubscribe(c)
  BY <1>4, FrameStays DEF unsubscribe
<1> QED BY <1>1, <1>2, <1>3, <1>4 DEF dispatchStep

LEMMA ConnFrame == ASSUME FrameInv, ConnStill PROVE FrameInv'
BY FrameStays DEF ConnStill

(* The app only takes frames. *)
LEMMA AppWires ==
  ASSUME IndInv, NEW c \in Client, AppStep(c)
  PROVE  \A d \in Client : \A i \in 1 .. Len(wire'[d]) :
           \E j \in 1 .. Len(wire[d]) : wire'[d][i] = wire[d][j]
<1>0. WireTypes
  BY DispatchFacts
<1>1. CASE readerStep(c)
  <2>1. conn[c] = "up" /\ wire[c] # <<>> /\ Received(c)
    BY <1>1 DEF readerStep, receiveData, receiveExit, receiveReply, receiveKilled, Incoming
  <2> QED BY <2>1, Frame
<1>2. CASE disconnect(c)
  <2>1. \A d \in Client : wire'[d] = wire[d] \/ wire'[d] = <<>>
    BY <1>0, <1>2 DEF disconnect, WireTypes
  <2>2. Len(<<>>) = 0
    OBVIOUS
  <2> QED BY <2>1, <2>2
<1>3. CASE UNCHANGED wire
  BY <1>3
<1>4. CASE \/ pty_kill_all(c) \/ adopt(c)
           \/ \E p \in Pane : register(p) \/ requestTimesOut(p) \/ pty_close(p) \/ pty_open(p, c)
           \/ \E p \in Pane, q \in Pane : pty_attach(p, c, q)
  <2>1. UNCHANGED wire
    BY <1>4 DEF pty_kill_all, adopt, register, requestTimesOut, pty_close, pty_open,
       pty_attach, wires
  <2> QED BY <2>1
<1> QED BY <1>1, <1>2, <1>4 DEF AppStep

LEMMA AppFrame == ASSUME IndInv, FrameInv, NEW c \in Client, AppStep(c) PROVE FrameInv'
BY AppWires, FrameStays

----------------------------------------------------------------------------
(* The steps of the app keep it. *)

(* The app, of a session whose threads and dispatchers stand.              *)
LEMMA AppStands ==
  ASSUME IndInv, UNCHANGED <<daemon, threads, excused>>, NEW c \in Client, NEW s \in Session,
         StreamOf(c, s),
         wire'[c] = wire[c], Buffer(c, s)' = Buffer(c, s), Whole(c, s)' => Whole(c, s)
  PROVE  StreamOf(c, s)'
<1>1. UNCHANGED <<map, dropping, dispatch, subscribers, wrote, pending, flusher, waiter, excused>>
  BY DEF daemon, threads
<1>2. (On(c, s)' => On(c, s)) /\ Coming(s)' = Coming(s)
  BY <1>1 DEF On, Held, Coming, Taken, Left
<1>3. Adds(wire[c], wire'[c], s)
  BY SameFrames
<1> QED BY <1>1, <1>2, <1>3, StreamStays

(* Another stream, or none, is expected of the same shell. *)
LEMMA AppPair ==
  ASSUME UNCHANGED <<daemon, threads, excused>>, NEW c, NEW s, NEW whole,
         Stream(wire'[c], Buffer(c, s)', s, Due(c, s), excused[s], wrote[s], whole, On(c, s)),
         Whole(c, s)' => whole
  PROVE  StreamOf(c, s)'
<1>1. UNCHANGED <<map, dropping, dispatch, subscribers, wrote, pending, flusher, waiter>>
  BY DEF daemon, threads
<1>2. (On(c, s)' <=> On(c, s)) /\ Coming(s)' = Coming(s)
  BY <1>1 DEF On, Held, Coming, Taken, Left
<1>3. Due(c, s)' = Due(c, s)
  BY <1>2 DEF Due
<1>4. Stream(wire'[c], Buffer(c, s)', s, Due(c, s)', excused'[s], wrote'[s], whole, On(c, s))
  BY <1>1, <1>3
<1>5. Stream(wire'[c], Buffer(c, s)', s, Due(c, s)', excused'[s], wrote'[s], Whole(c, s)', On(c, s)')
  BY <1>2, <1>4, Zenon DEF Stream, Chain
<1> QED BY <1>5, StreamNext, Zenon

LEMMA AppLoses ==
  ASSUME IndInv, UNCHANGED <<daemon, threads, excused>>, NEW c \in Client, NEW s \in Session,
         StreamOf(c, s),
         wire'[c] = wire[c], Buffer(c, s)' = <<>>, ~Whole(c, s)'
  PROVE  StreamOf(c, s)'
<1>1. Len(wire[c]) \in Nat /\ wrote[s] \in Nat
  BY WireFacts, ThreadSeqs
<1>2. Stream(wire[c], Buffer(c, s), s, Due(c, s), excused[s], wrote[s], Whole(c, s), On(c, s))
  BY DEF StreamOf
<1>3. Stream(wire[c], <<>>, s, Due(c, s), excused[s], wrote[s], FALSE, On(c, s))
  BY <1>1, <1>2, StreamLoses
<1>4. Stream(wire'[c], Buffer(c, s)', s, Due(c, s), excused[s], wrote[s], FALSE, On(c, s))
  BY <1>3
<1> QED BY <1>4, AppPair

(* The first frame is received; what it carries is shown or buffered. *)
LEMMA AppHears ==
  ASSUME IndInv, UNCHANGED <<daemon, threads, excused>>, NEW c \in Client, NEW s \in Session,
         StreamOf(c, s),
         conn[c] = "up", wire[c] # <<>>, Received(c), Buffer(c, s) \in Seq(Nat),
         NEW x \in Seq(Nat), Rising(x), ToSet(x) \ {Exit} = Chunks(wire[c][1], s),
         \/ Buffer(c, s)' = Buffer(c, s) \o x /\ (Whole(c, s)' => Whole(c, s))
         \/ Buffer(c, s)' = <<>> /\ ~Whole(c, s)'
  PROVE  StreamOf(c, s)'
<1>1. /\ wire[c] \in Seq(Message) /\ wrote[s] \in Nat /\ wire'[c] = Tail(wire[c])
      /\ Len(Tail(wire[c])) \in Nat
  BY WireFacts, ThreadSeqs, Frame
<1>2. Stream(wire[c], Buffer(c, s), s, Due(c, s), excused[s], wrote[s], Whole(c, s), On(c, s))
  BY DEF StreamOf
<1>3. Stream(Tail(wire[c]), Buffer(c, s) \o x, s, Due(c, s), excused[s], wrote[s], Whole(c, s), On(c, s))
  BY <1>1, <1>2, StreamReceives
<1>4. CASE Buffer(c, s)' = Buffer(c, s) \o x /\ (Whole(c, s)' => Whole(c, s))
  <2>1. Stream(wire'[c], Buffer(c, s)', s, Due(c, s), excused[s], wrote[s], Whole(c, s), On(c, s))
    BY <1>1, <1>3, <1>4
  <2> QED BY <1>4, <2>1, AppPair
<1>5. CASE Buffer(c, s)' = <<>> /\ ~Whole(c, s)'
  <2>1. Stream(Tail(wire[c]), <<>>, s, Due(c, s), excused[s], wrote[s], FALSE, On(c, s))
    BY <1>1, <1>3, StreamLoses
  <2>2. Stream(wire'[c], Buffer(c, s)', s, Due(c, s), excused[s], wrote[s], FALSE, On(c, s))
    BY <1>1, <1>5, <2>1
  <2> QED BY <1>5, <2>2, AppPair
<1> QED BY <1>4, <1>5

(* The route of a session, and what is shown or buffered of it.            *)
LEMMA RouteIs ==
  ASSUME IndInv, AppInv, NEW c \in Client, NEW s \in Session
  PROVE  /\ early[c][s] \in Seq(Nat)
         /\ channels[c][s] # None =>
              /\ channels[c][s] \in Pane /\ early[c][s] = <<>>
              /\ pane[channels[c][s]].at \in {"shown", "lost", "closed"}
              /\ pane[channels[c][s]].at = "shown" =>
                   pane[channels[c][s]].c = c /\ pane[channels[c][s]].s = s
              /\ c \notin quitting => Has(channels[c][s], s)
BY DEF AppInv, AppKinds, RouteInv, Has

LEMMA BufferIs ==
  ASSUME IndInv, AppInv, NEW c \in Client, NEW s \in Session
  PROVE  Buffer(c, s) \in Seq(Nat)
<1>1. CASE channels[c][s] = None
  BY <1>1, RouteIs DEF Buffer
<1>2. CASE channels[c][s] # None /\ pane[channels[c][s]].at = "shown"
  <2>1. PICK q \in Pane : q = channels[c][s]
    BY <1>2, RouteIs
  <2>2. view[q] \in Seq(Nat) /\ pane[q].seam \in 0 .. Len(view[q])
    BY <1>2, <2>1, CallIs
  <2>3. Live(q) \in Seq(Nat)
    BY <2>2, TailOf DEF Live
  <2> QED BY <1>2, <2>1, <2>3 DEF Buffer
<1>3. CASE channels[c][s] # None /\ pane[channels[c][s]].at # "shown"
  BY <1>3 DEF Buffer
<1> QED BY <1>1, <1>2, <1>3

(* No second pane holds the session that one has opened, and none while it *)
(* is being opened.                                                        *)
LEMMA NotFresh ==
  ASSUME IndInv, AppInv, OwnInv, NEW c \in Client, conn[c] = "up", NEW s \in Session,
         s \notin stolen,
         NEW q \in Pane, Has(q, s), pane[q].at # "answered"
  PROVE  ~Fresh(c, s)
<1>1. \A i \in Nat : ~OpenAt(c, i, s)
  BY DEF OwnInv, OpenInv
<1>2. ASSUME NEW p \in Pane, pane[p].at = "answered", pane[p].opener, pane[p].s = s PROVE FALSE
  <2>1. p # q
    BY <1>2
  <2> QED BY <1>2, <2>1 DEF OwnInv, HolderInv
<1> QED BY <1>1, <1>2 DEF Fresh

LEMMA FreshLess ==
  ASSUME NEW c, NEW s, \A i \in Nat : OpenAt(c, i, s)' => \E j \in Nat : OpenAt(c, j, s),
         \A p \in Pane : pane'[p].at = "answered" => pane'[p] = pane[p]
  PROVE  Fresh(c, s)' => Fresh(c, s)
BY DEF Fresh

(* The frame that carries the opening comes nearer. *)
LEMMA OpenComes ==
  ASSUME IndInv, NEW c \in Client, conn[c] = "up", wire[c] # <<>>, Received(c),
         UNCHANGED dispatch, NEW s
  PROVE  \A i \in Nat : OpenAt(c, i, s)' => \E j \in Nat : OpenAt(c, j, s)
<1> SUFFICES ASSUME NEW i \in Nat, OpenAt(c, i, s)' PROVE \E j \in Nat : OpenAt(c, j, s)
  OBVIOUS
<1>1. CASE i \in 1 .. Len(wire'[c]) /\ wire'[c][i].k = "OpenOk" /\ wire'[c][i].s = s
  <2>1. wire'[c][i] = wire[c][i + 1] /\ i + 1 \in 1 .. Len(wire[c]) /\ i + 1 \in Nat
    BY <1>1, Frame
  <2>2. OpenAt(c, i + 1, s)
    BY <1>1, <2>1 DEF OpenAt
  <2> QED BY <2>1, <2>2
<1>2. CASE OpenAt(c, i, s)
  BY <1>2
<1> QED BY <1>1, <1>2 DEF OpenAt

LEMMA OpenSame ==
  ASSUME NEW c \in Client, wire'[c] = wire[c], UNCHANGED dispatch, NEW s
  PROVE  \A i \in Nat : OpenAt(c, i, s)' => \E j \in Nat : OpenAt(c, j, s)
BY DEF OpenAt

(* The buffer and the start of a stream whose route is not touched. *)
LEMMA RouteSame ==
  ASSUME IndInv, AppInv, NEW c \in Client, NEW s \in Session,
         channels'[c][s] = channels[c][s], early'[c][s] = early[c][s],
         channels[c][s] # None =>
           /\ pane'[channels[c][s]] = pane[channels[c][s]]
           /\ pane[channels[c][s]].at = "shown" => view'[channels[c][s]] = view[channels[c][s]],
         Fresh(c, s)' => Fresh(c, s)
  PROVE  Buffer(c, s)' = Buffer(c, s) /\ (Whole(c, s)' => Whole(c, s))
BY DEF Buffer, Whole, Live

(* The app's steps, for the one connection that is up.                     *)
LEMMA OnlyUp ==
  ASSUME IndInv, AppInv, NEW c \in Client, conn[c] = "up", UNCHANGED conn,
         stolen \subseteq stolen',
         saturated \subseteq saturated', quitting \subseteq quitting', NEW d \in Client, NEW s \in Session, Clean(d, s)'
  PROVE  d = c /\ Clean(c, s)
BY OneUp DEF Clean

(* What a step of the app leaves of a stream: what it was, or nothing that *)
(* begins with its first chunk.                                            *)
Keeps(c, s) ==
  \/ Buffer(c, s)' = Buffer(c, s) /\ (Whole(c, s)' => Whole(c, s))
  \/ Buffer(c, s)' = <<>> /\ ~Whole(c, s)'

LEMMA HearsPair ==
  ASSUME IndInv, AppInv, OwnInv, NEW c \in Client, NEW m \in Message, NEW b \in Seq(Nat),
         Hears(c, m, b),
         NEW s \in Session, Clean(c, s), <<c, s>> \notin saturated'
  PROVE  IF s = m.s THEN \/ Buffer(c, s)' = Buffer(c, s) \o b /\ (Whole(c, s)' => Whole(c, s))
                         \/ Buffer(c, s)' = <<>> /\ ~Whole(c, s)'
         ELSE Buffer(c, s)' = Buffer(c, s) /\ (Whole(c, s)' => Whole(c, s))
<1>2. /\ UNCHANGED <<dispatch, conn, pane, quitting, stolen>>
      /\ conn[c] = "up" /\ wire[c] # <<>> /\ Received(c) /\ m = wire[c][1]
      /\ m.k \in {"Data", "Exit"} /\ m.s \in Session /\ saturated \subseteq saturated'
  BY DEF Hears, daemon
<1>4. Fresh(c, s)' => Fresh(c, s)
  <2>1. \A i \in Nat : OpenAt(c, i, s)' => \E j \in Nat : OpenAt(c, j, s)
    BY <1>2, OpenComes
  <2> QED BY <1>2, <2>1, FreshLess
<1>6. CASE s # m.s
  <2>1. channels'[c][s] = channels[c][s] /\ early'[c][s] = early[c][s]
    BY <1>6 DEF Hears
  <2>2. ASSUME channels[c][s] # None
        PROVE  /\ pane'[channels[c][s]] = pane[channels[c][s]]
               /\ pane[channels[c][s]].at = "shown" =>
                    view'[channels[c][s]] = view[channels[c][s]]
    <3>1. PICK q \in Pane : q = channels[c][s]
      BY <2>2, RouteIs
    <3>2. pane[q].at = "shown" => pane[q].s = s
      BY <2>2, <3>1, RouteIs
    <3>3. view'[q] = view[q] \/ channels[c][m.s] = q
      BY DEF Hears
    <3>4. channels[c][m.s] = q /\ pane[q].at = "shown" => pane[q].s = m.s
      BY <1>2, <3>1, RouteIs, NoneIs
    <3> QED BY <1>2, <1>6, <3>1, <3>2, <3>3, <3>4
  <2>3. Buffer(c, s)' = Buffer(c, s) /\ (Whole(c, s)' => Whole(c, s))
    BY <1>4, <2>1, <2>2, RouteSame
  <2> QED BY <1>6, <2>3
<1>7. CASE s = m.s
  <2>1. CASE channels[c][s] = None
    <3>1. channels'[c][s] = None /\ early'[c][s] = early[c][s] \o b
      BY <1>7, <2>1, NoneIs DEF Hears
    <3> QED BY <1>4, <1>7, <2>1, <3>1 DEF Buffer, Whole
  <2>2. CASE channels[c][s] # None
    <3>1. PICK q \in Pane :
            /\ channels[c][s] = q /\ early'[c][s] = <<>>
            /\ channels'[c][s] = IF m.k = "Exit" THEN None ELSE q
            /\ view'[q] = IF pane[q].at = "shown" THEN view[q] \o b ELSE view[q]
      BY <1>7, <2>2 DEF Hears
    <3>2. q # None /\ pane[q].at \in {"shown", "lost", "closed"} /\ Has(q, s)
      BY <2>2, <3>1, RouteIs DEF Clean
    <3>3. CASE m.k = "Exit"
      <4>1. Buffer(c, s)' = <<>> /\ channels'[c][s] = None
        BY <3>1, <3>3 DEF Buffer
      <4>2. ~Fresh(c, s)
        BY <1>2, <3>2, NotFresh DEF Clean
      <4> QED BY <1>4, <1>7, <4>1, <4>2 DEF Whole
    <3>4. CASE m.k # "Exit" /\ pane[q].at = "shown"
      <4>1. view[q] \in Seq(Nat) /\ pane[q].seam \in 0 .. Len(view[q])
        BY <3>4, CallIs
      <4>2. Live(q)' = Live(q) \o b
        <5>1. PICK v \in Seq(Nat) : v = view[q]
          BY <4>1
        <5>2. PICK n \in 0 .. Len(v) : n = pane[q].seam
          BY <4>1, <5>1
        <5>3. view'[q] = v \o b /\ pane'[q].seam = n
          BY <1>2, <3>1, <3>4, <5>1, <5>2
        <5>4. SubSeq(v \o b, n + 1, Len(v \o b)) = SubSeq(v, n + 1, Len(v)) \o b
          BY LiveGrows
        <5> QED BY <5>1, <5>2, <5>3, <5>4 DEF Live
      <4>3. Buffer(c, s)' = Live(q)' /\ Buffer(c, s) = Live(q)
        BY <1>2, <3>1, <3>2, <3>4 DEF Buffer, Live
      <4> QED BY <1>2, <1>7, <3>1, <3>2, <3>4, <4>2, <4>3 DEF Whole
    <3>5. CASE m.k # "Exit" /\ pane[q].at # "shown"
      BY <1>2, <1>7, <3>1, <3>2, <3>5 DEF Buffer, Whole
    <3> QED BY <3>3, <3>4, <3>5
  <2> QED BY <2>1, <2>2
<1> QED BY <1>6, <1>7

LEMMA HearsChunk ==
  ASSUME IndInv, AppInv, FrameInv, NEW c \in Client, NEW m \in Message, NEW b \in Seq(Nat),
         Hears(c, m, b)
  PROVE  Rising(b) /\ ToSet(b) \ {Exit} = Chunks(wire[c][1], m.s)
<1>1. /\ conn[c] = "up" /\ wire[c] # <<>> /\ m = wire[c][1]
      /\ m.k \in {"Data", "Exit"} /\ b = IF m.k = "Data" THEN m.chunk ELSE <<Exit>>
  BY DEF Hears
<1>2. CASE m.k = "Data"
  <2>1. Rising(b)
    BY <1>1, <1>2, Frame DEF FrameInv
  <2>2. Exit \notin ToSet(b)
    <3>1. m.chunk \in Seq(Chunk)
      BY <1>2 DEF Message
    <3>2. b \in Seq(Chunk)
      BY <1>1, <1>2, <3>1
    <3>3. \A i \in DOMAIN b : b[i] \in Chunk
      BY <3>2
    <3>4. Exit \notin Chunk
      BY DEF Exit, Chunk
    <3> QED BY <3>3, <3>4 DEF ToSet
  <2> QED BY <1>1, <1>2, <2>1, <2>2 DEF Chunks
<1>3. CASE m.k = "Exit"
  <2>1. b = <<Exit>>
    BY <1>1, <1>3
  <2>2. Rising(b) /\ ToSet(b) = {Exit}
    BY <2>1 DEF Rising, ToSet
  <2> QED BY <1>1, <1>3, <2>2 DEF Chunks
<1> QED BY <1>1, <1>2, <1>3

LEMMA ReplyHearsPair ==
  ASSUME IndInv, AppInv, NEW c \in Client, receiveReply(c)
  PROVE  /\ UNCHANGED <<daemon, threads, excused, closed>>
         /\ UNCHANGED <<conn, quitting, stolen, saturated>>
         /\ conn[c] = "up" /\ wire[c] # <<>> /\ Received(c)
         /\ wire[c][1].k \in {"OpenOk", "AttachOk", "Err"}
         /\ \A s \in Session : Buffer(c, s)' = Buffer(c, s) /\ (Whole(c, s)' => Whole(c, s))
<1>1. PICK m : m = Head(wire[c])
  OBVIOUS
<1>2. /\ UNCHANGED <<daemon, threads, excused, closed>>
      /\ UNCHANGED <<dispatch, conn, channels, early, quitting, stolen, saturated>>
      /\ conn[c] = "up" /\ wire[c] # <<>> /\ Received(c) /\ m = wire[c][1]
      /\ m.k \in {"OpenOk", "AttachOk", "Err"}
      /\ m.p \in Pane /\ \A q \in Pane : q # m.p => pane'[q] = pane[q] /\ view'[q] = view[q]
      /\ \/ pane[m.p].at # "asked" /\ UNCHANGED <<pane, view>>
         \/ pane[m.p].at = "asked" /\ pane'[m.p].at = "failed"
         \/ /\ pane[m.p].at = "asked" /\ m.k \in {"OpenOk", "AttachOk"}
            /\ pane[m.p].opener = (m.k = "OpenOk") /\ pane'[m.p].at = "answered"
            /\ pane'[m.p].s = m.s /\ pane'[m.p].opener = pane[m.p].opener
  <2>1. PICK r : r = [at |-> "failed", c |-> None]
    OBVIOUS
  <2>2. r.at = "failed"
    BY <2>1
  <2>3. UNCHANGED closed
    BY DEF receiveReply, history
  <2> QED BY <1>1, <2>1, <2>2, <2>3, ReplyIs DEF daemon
<1>3. ASSUME NEW s \in Session PROVE Buffer(c, s)' = Buffer(c, s) /\ (Whole(c, s)' => Whole(c, s))
  <2>1. Fresh(c, s)' => Fresh(c, s)
    <3>1. \A i \in Nat : OpenAt(c, i, s)' => \E j \in Nat : OpenAt(c, j, s)
      BY <1>2, OpenComes
    <3>2. ASSUME NEW p \in Pane, pane'[p].at = "answered", pane'[p].opener, pane'[p].c = c,
                 pane'[p].s = s
          PROVE  Fresh(c, s)
      <4>1. CASE pane'[p] = pane[p]
        BY <3>2, <4>1 DEF Fresh
      <4>2. CASE p = m.p /\ pane[p].at = "asked" /\ m.k = "OpenOk" /\ m.s = s
        <5>1. OpenAt(c, 1, s)
          BY <1>2, <4>2, Frame DEF OpenAt
        <5> QED BY <5>1 DEF Fresh
      <4> QED BY <1>2, <3>2, <4>1, <4>2
    <3> QED BY <3>1, <3>2 DEF Fresh
  <2>2. ASSUME channels[c][s] # None
        PROVE  /\ pane'[channels[c][s]] = pane[channels[c][s]]
               /\ pane[channels[c][s]].at = "shown" =>
                    view'[channels[c][s]] = view[channels[c][s]]
    BY <1>2, <2>2, RouteIs
  <2> QED BY <1>2, <2>1, <2>2, RouteSame
<1> QED BY <1>2, <1>3

LEMMA RegisterPair ==
  ASSUME IndInv, AppInv, OwnInv, NEW p \in Pane, register(p)
  PROVE  /\ UNCHANGED <<daemon, threads, excused, closed>>
         /\ UNCHANGED <<conn, wire, quitting, stolen, saturated>>
         /\ \A c \in Client, s \in Session : Clean(c, s) => Keeps(c, s)
<1>1. PICK c \in Client, t \in Session : Registers(p, c, t)
  BY RegisterIs
<1>2. /\ UNCHANGED <<daemon, threads, excused, closed>>
      /\ UNCHANGED <<dispatch, conn, wire, quitting, stolen, saturated>>
      /\ conn[c] = "up" /\ pane[p].at = "answered" /\ pane[p].c = c /\ pane[p].s = t
      /\ channels'[c][t] = p /\ early'[c][t] = <<>>
      /\ \A e \in Client, u \in Session :
           e # c \/ u # t => channels'[e][u] = channels[e][u] /\ early'[e][u] = early[e][u]
      /\ \A q \in Pane : q # p => pane'[q] = pane[q] /\ view'[q] = view[q]
      /\ view'[p] = view[p] \o early[c][t] /\ view[p] \in Seq(Nat) /\ early[c][t] \in Seq(Nat)
      /\ pane'[p].at = "shown" /\ pane'[p].opener = pane[p].opener /\ pane'[p].seam = Len(view[p])
  <2>1. UNCHANGED closed
    BY DEF register, history
  <2> QED BY <1>1, <2>1 DEF Registers, daemon, wires
<1> SUFFICES ASSUME NEW d \in Client, NEW s \in Session, Clean(d, s) PROVE Keeps(d, s)
  BY <1>2
<1>3. d = c
  BY <1>2, OneUp DEF Clean
<1>4. Fresh(c, s)' => Fresh(c, s)
  <2>1. \A i \in Nat : OpenAt(c, i, s)' => \E j \in Nat : OpenAt(c, j, s)
    BY <1>2, OpenSame
  <2>2. \A q \in Pane : pane'[q].at = "answered" => pane'[q] = pane[q]
    BY <1>2
  <2> QED BY <2>1, <2>2, FreshLess
<1>5. CASE s # t
  <2>1. channels'[c][s] = channels[c][s] /\ early'[c][s] = early[c][s]
    BY <1>2, <1>5
  <2>2. ASSUME channels[c][s] # None
        PROVE  /\ pane'[channels[c][s]] = pane[channels[c][s]]
               /\ pane[channels[c][s]].at = "shown" =>
                    view'[channels[c][s]] = view[channels[c][s]]
    BY <1>2, <2>2, RouteIs
  <2>3. Buffer(c, s)' = Buffer(c, s) /\ (Whole(c, s)' => Whole(c, s))
    BY <1>4, <2>1, <2>2, RouteSame
  <2> QED BY <1>3, <2>3 DEF Keeps
<1>6. CASE s = t
  <2>1. p # None
    BY NoneIs
  <2>2. Buffer(c, s)' = early[c][s]
    <3>1. Buffer(c, s)' = Live(p)'
      BY <1>2, <1>6, <2>1 DEF Buffer, Live
    <3>2. PICK v \in Seq(Nat) : v = view[p]
      BY <1>2
    <3>3. PICK e \in Seq(Nat) : e = early[c][t]
      BY <1>2
    <3>4. view'[p] = v \o e /\ pane'[p].seam = Len(v)
      BY <1>2, <3>2, <3>3
    <3>5. SubSeq(v \o e, Len(v) + 1, Len(v \o e)) = e
      BY LiveStarts
    <3> QED BY <1>6, <3>1, <3>3, <3>4, <3>5 DEF Live
  <2>3. Whole(c, s)' => pane[p].opener
    BY <1>2, <1>6, <2>1 DEF Whole
  <2>4. CASE channels[c][s] = None
    <3>1. Buffer(c, s)' = Buffer(c, s)
      BY <2>2, <2>4 DEF Buffer
    <3>2. Whole(c, s)' => Whole(c, s)
      BY <1>2, <1>6, <2>3, <2>4 DEF Whole, Fresh
    <3> QED BY <1>3, <3>1, <3>2 DEF Keeps
  <2>5. CASE channels[c][s] # None
    <3>1. PICK q \in Pane : q = channels[c][s]
      BY <2>5, RouteIs
    <3>2. Has(q, s) /\ pane[q].at # "answered" /\ early[c][s] = <<>>
      BY <1>3, <2>5, <3>1, RouteIs DEF Clean
    <3>3. ~Fresh(c, s)
      BY <1>2, <1>3, <3>2, NotFresh DEF Clean
    <3>4. ~pane[p].opener
      BY <1>2, <1>6, <3>3 DEF Fresh
    <3>5. Buffer(c, s)' = <<>> /\ ~Whole(c, s)'
      BY <2>2, <2>3, <3>2, <3>4
    <3> QED BY <1>3, <3>5 DEF Keeps
  <2> QED BY <2>4, <2>5
<1> QED BY <1>5, <1>6

LEMMA TimesOutPair ==
  ASSUME IndInv, AppInv, NEW p \in Pane, requestTimesOut(p)
  PROVE  /\ UNCHANGED <<daemon, threads, excused, closed>>
         /\ UNCHANGED <<conn, wire, quitting, stolen, saturated>>
         /\ \A c \in Client, s \in Session :
              Buffer(c, s)' = Buffer(c, s) /\ (Whole(c, s)' => Whole(c, s))
<1>0. DOMAIN pane = Pane
  BY DEF IndInv, Types, AppTypes
<1>1. /\ UNCHANGED <<daemon, threads, excused, closed>>
      /\ UNCHANGED <<dispatch, conn, wire, channels, early, view, quitting, stolen, saturated>>
      /\ pane[p].at = "asked" /\ pane' = [pane EXCEPT ![p] = [at |-> "failed", c |-> None]]
  BY DEF requestTimesOut, daemon, wires, history
<1>2. pane'[p].at = "failed" /\ \A q \in Pane : q # p => pane'[q] = pane[q]
  BY <1>0, <1>1
<1>3. ASSUME NEW c \in Client, NEW s \in Session
      PROVE  Buffer(c, s)' = Buffer(c, s) /\ (Whole(c, s)' => Whole(c, s))
  <2>1. Fresh(c, s)' => Fresh(c, s)
    <3>1. \A i \in Nat : OpenAt(c, i, s)' => \E j \in Nat : OpenAt(c, j, s)
      BY <1>1, OpenSame
    <3>2. \A q \in Pane : pane'[q].at = "answered" => pane'[q] = pane[q]
      BY <1>2
    <3> QED BY <3>1, <3>2, FreshLess
  <2>2. ASSUME channels[c][s] # None
        PROVE  /\ pane'[channels[c][s]] = pane[channels[c][s]]
               /\ pane[channels[c][s]].at = "shown" =>
                    view'[channels[c][s]] = view[channels[c][s]]
    BY <1>1, <1>2, <2>2, RouteIs
  <2> QED BY <1>1, <2>1, <2>2, RouteSame
<1> QED BY <1>1, <1>3

LEMMA ClosePair ==
  ASSUME IndInv, AppInv, OwnInv, NEW p \in Pane, pty_close(p)
  PROVE  /\ UNCHANGED <<daemon, threads, excused, closed>>
         /\ UNCHANGED <<conn, wire, quitting, stolen, saturated>>
         /\ \A c \in Client, s \in Session : Clean(c, s) => Keeps(c, s)
<1>1. PICK c \in Client, t \in Session : Closes(p, c, t)
  BY CloseIs
<1>2. /\ UNCHANGED <<daemon, threads, excused, closed>>
      /\ UNCHANGED <<dispatch, conn, wire, quitting, stolen, saturated>>
      /\ conn[c] = "up" /\ pane[p].at = "shown" /\ pane[p].c = c /\ pane[p].s = t
      /\ channels' = [channels EXCEPT ![c][t] = None] /\ early' = [early EXCEPT ![c][t] = <<>>]
      /\ pane'[p].at = "closed" /\ \A q \in Pane : q # p =>
           pane'[q] = pane[q] /\ view'[q] = view[q]
  <2>1. UNCHANGED closed
    BY DEF pty_close, history
  <2> QED BY <1>1, <2>1 DEF Closes, daemon
<1>3. /\ channels'[c][t] = None /\ early'[c][t] = <<>>
      /\ \A e \in Client, u \in Session : e # c \/ u # t =>
           channels'[e][u] = channels[e][u] /\ early'[e][u] = early[e][u]
  BY <1>2, RouteGone DEF AppInv, AppKinds
<1> SUFFICES ASSUME NEW d \in Client, NEW s \in Session, Clean(d, s) PROVE Keeps(d, s)
  BY <1>2
<1>4. d = c
  BY <1>2, OneUp DEF Clean
<1>5. Fresh(c, s)' => Fresh(c, s)
  <2>1. \A i \in Nat : OpenAt(c, i, s)' => \E j \in Nat : OpenAt(c, j, s)
    BY <1>2, OpenSame
  <2>2. \A q \in Pane : pane'[q].at = "answered" => pane'[q] = pane[q]
    BY <1>2
  <2> QED BY <2>1, <2>2, FreshLess
<1>6. CASE s # t
  <2>1. channels'[c][s] = channels[c][s] /\ early'[c][s] = early[c][s]
    BY <1>3, <1>6
  <2>2. ASSUME channels[c][s] # None
        PROVE  /\ pane'[channels[c][s]] = pane[channels[c][s]]
               /\ pane[channels[c][s]].at = "shown" =>
                    view'[channels[c][s]] = view[channels[c][s]]
    BY <1>2, <1>6, <2>2, RouteIs
  <2>3. Buffer(c, s)' = Buffer(c, s) /\ (Whole(c, s)' => Whole(c, s))
    BY <1>5, <2>1, <2>2, RouteSame
  <2> QED BY <1>4, <2>3 DEF Keeps
<1>7. CASE s = t
  <2>1. Has(p, s) /\ pane[p].at # "answered"
    BY <1>2, <1>7 DEF Has
  <2>2. ~Fresh(c, s)
    BY <1>2, <1>4, <2>1, NotFresh DEF Clean
  <2>3. Buffer(c, s)' = <<>> /\ ~Whole(c, s)'
    BY <1>3, <1>5, <1>7, <2>2 DEF Buffer, Whole
  <2> QED BY <1>4, <2>3 DEF Keeps
<1> QED BY <1>6, <1>7

LEMMA AsksPair ==
  ASSUME IndInv, AppInv, NEW p \in Pane, NEW c \in Client, NEW open, NEW t, AsksFor(p, c, open, t)
  PROVE  \A s \in Session : Keeps(c, s)
<1>1. /\ UNCHANGED <<dispatch, conn, wire, channels, early, quitting, saturated>>
      /\ conn[c] = "up" /\ pane[p].at = "new" /\ pane'[p].at = "asked"
      /\ \A q \in Pane : q # p =>
           (pane'[q] = pane[q] /\ view'[q] = view[q]) \/ pane'[q].at = "lost"
  BY DEF AsksFor, daemon
<1> SUFFICES ASSUME NEW s \in Session PROVE Keeps(c, s)
  OBVIOUS
<1>3. Fresh(c, s)' => Fresh(c, s)
  <2>1. \A i \in Nat : OpenAt(c, i, s)' => \E j \in Nat : OpenAt(c, j, s)
    BY <1>1, OpenSame
  <2>2. \A q \in Pane : pane'[q].at = "answered" => pane'[q] = pane[q]
    BY <1>1
  <2> QED BY <2>1, <2>2, FreshLess
<1>4. CASE channels[c][s] # None /\ pane'[channels[c][s]].at = "lost"
  <2>1. Buffer(c, s)' = <<>> /\ ~Whole(c, s)'
    BY <1>1, <1>4 DEF Buffer, Whole
  <2> QED BY <2>1 DEF Keeps
<1>5. CASE ~(channels[c][s] # None /\ pane'[channels[c][s]].at = "lost")
  <2>1. ASSUME channels[c][s] # None
        PROVE  /\ pane'[channels[c][s]] = pane[channels[c][s]]
               /\ pane[channels[c][s]].at = "shown" =>
                    view'[channels[c][s]] = view[channels[c][s]]
    BY <1>1, <1>5, <2>1, RouteIs
  <2>2. channels'[c][s] = channels[c][s] /\ early'[c][s] = early[c][s]
    BY <1>1
  <2>3. Buffer(c, s)' = Buffer(c, s) /\ (Whole(c, s)' => Whole(c, s))
    BY <1>3, <2>1, <2>2, RouteSame
  <2> QED BY <2>3 DEF Keeps
<1> QED BY <1>4, <1>5

LEMMA HearsStream ==
  ASSUME IndInv, AppInv, OwnInv, FrameInv, StreamInv, NEW c \in Client,
         receiveData(c) \/ receiveExit(c)
  PROVE  StreamInv'
<1>1. PICK m \in Message, b \in Seq(Nat) : Hears(c, m, b)
  BY HearsIs
<1>2. /\ UNCHANGED <<daemon, threads, excused>>
      /\ UNCHANGED <<dispatch, conn, pane, quitting, stolen>>
      /\ conn[c] = "up" /\ wire[c] # <<>> /\ Received(c) /\ m = wire[c][1]
      /\ m.s \in Session /\ saturated \subseteq saturated'
  BY <1>1 DEF Hears, daemon
<1> SUFFICES ASSUME NEW d \in Client, NEW s \in Session, Clean(d, s)' PROVE StreamOf(d, s)'
  BY Zenon DEF StreamInv
<1>3. d = c /\ Clean(c, s) /\ StreamOf(c, s) /\ <<c, s>> \notin saturated'
  <2>1. d = c /\ Clean(c, s)
    BY <1>2, OnlyUp
  <2> QED BY <2>1 DEF StreamInv, Clean
<1>4. Buffer(c, s) \in Seq(Nat)
  BY BufferIs
<1>5. CASE s # m.s
  <2>1. Buffer(c, s)' = Buffer(c, s) /\ (Whole(c, s)' => Whole(c, s))
    BY <1>1, <1>3, <1>5, HearsPair
  <2>2. /\ <<>> \in Seq(Nat) /\ Rising(<<>>) /\ ToSet(<<>>) \ {Exit} = Chunks(wire[c][1], s)
        /\ Buffer(c, s)' = Buffer(c, s) \o <<>>
    BY <1>2, <1>4, <1>5, <2>1, NoChunk DEF Chunks
  <2>3. StreamOf(c, s)'
    BY <1>2, <1>3, <1>4, <2>1, <2>2, AppHears
  <2> QED BY <1>3, <2>3
<1>6. CASE s = m.s
  <2>1. Rising(b) /\ ToSet(b) \ {Exit} = Chunks(wire[c][1], s)
    BY <1>1, <1>6, HearsChunk
  <2>2. \/ Buffer(c, s)' = Buffer(c, s) \o b /\ (Whole(c, s)' => Whole(c, s))
        \/ Buffer(c, s)' = <<>> /\ ~Whole(c, s)'
    BY <1>1, <1>3, <1>6, HearsPair
  <2>3. StreamOf(c, s)'
    BY <1>2, <1>3, <1>4, <2>1, <2>2, AppHears
  <2> QED BY <1>3, <2>3
<1> QED BY <1>5, <1>6

LEMMA ReplyHearsStream ==
  ASSUME IndInv, AppInv, StreamInv, NEW c \in Client, receiveReply(c)
  PROVE  StreamInv'
<1>1. /\ UNCHANGED <<daemon, threads, excused>> /\ UNCHANGED <<conn, quitting, stolen, saturated>>
      /\ conn[c] = "up" /\ wire[c] # <<>> /\ Received(c)
      /\ wire[c][1].k \in {"OpenOk", "AttachOk", "Err"}
      /\ \A s \in Session : Buffer(c, s)' = Buffer(c, s) /\ (Whole(c, s)' => Whole(c, s))
  BY ReplyHearsPair
<1> SUFFICES ASSUME NEW d \in Client, NEW s \in Session, Clean(d, s)' PROVE StreamOf(d, s)'
  BY Zenon DEF StreamInv
<1>2. d = c /\ Clean(c, s) /\ StreamOf(c, s)
  <2>1. d = c /\ Clean(c, s)
    BY <1>1, OnlyUp
  <2> QED BY <2>1 DEF StreamInv
<1>3. /\ <<>> \in Seq(Nat) /\ Rising(<<>>) /\ ToSet(<<>>) \ {Exit} = Chunks(wire[c][1], s)
      /\ Buffer(c, s) \in Seq(Nat) /\ Buffer(c, s)' = Buffer(c, s) \o <<>>
  BY <1>1, BufferIs, NoChunk DEF Chunks
<1>4. StreamOf(c, s)'
  BY <1>1, <1>2, <1>3, AppHears
<1> QED BY <1>2, <1>4

(* What a pane begins, or ends.                                            *)
LEMMA PaneStream ==
  ASSUME IndInv, AppInv, StreamInv, UNCHANGED <<daemon, threads, excused>>,
         UNCHANGED <<conn, wire, quitting, saturated>>, stolen \subseteq stolen',
         NEW c \in Client, conn[c] = "up",
         \A s \in Session : Clean(c, s) => Keeps(c, s)
  PROVE  StreamInv'
<1> SUFFICES ASSUME NEW d \in Client, NEW s \in Session, Clean(d, s)' PROVE StreamOf(d, s)'
  BY Zenon DEF StreamInv
<1>1. d = c /\ Clean(c, s) /\ StreamOf(c, s)
  <2>1. UNCHANGED <<conn, quitting>> /\ stolen \subseteq stolen' /\ saturated \subseteq saturated'
    OBVIOUS
  <2>2. d = c /\ Clean(c, s)
    BY <2>1, OnlyUp
  <2> QED BY <2>2 DEF StreamInv
<1>2. CASE Buffer(c, s)' = Buffer(c, s) /\ (Whole(c, s)' => Whole(c, s))
  <2>1. StreamOf(c, s)'
    BY <1>1, <1>2, AppStands
  <2> QED BY <1>1, <2>1
<1>3. CASE Buffer(c, s)' = <<>> /\ ~Whole(c, s)'
  <2>1. StreamOf(c, s)'
    BY <1>1, <1>3, AppLoses
  <2> QED BY <1>1, <2>1
<1> QED BY <1>1, <1>2, <1>3 DEF Keeps

(* Steps that leave no clean stream. *)
LEMMA GoesClean ==
  ASSUME IndInv, AppInv, KillInv, NEW c \in Client,
         receiveKilled(c) \/ disconnect(c) \/ pty_kill_all(c)
  PROVE  \A d \in Client, s \in Session : ~Clean(d, s)'
<1> SUFFICES ASSUME NEW d \in Client, NEW s \in Session, Clean(d, s)' PROVE FALSE
  BY Zenon
<1>0. conn \in [Client -> {"off", "dialled", "counted", "up", "left", "gone", "refused"}]
  BY DispatchFacts DEF WireTypes
<1>1. CASE receiveKilled(c)
  <2>1. /\ conn[c] = "up" /\ wire[c] # <<>> /\ Received(c) /\ Head(wire[c]).k = "Killed"
        /\ UNCHANGED <<conn, quitting>>
    BY <1>1 DEF receiveKilled, Incoming
  <2>2. c \in quitting
    BY <2>1, Frame DEF KillInv
  <2> QED BY <2>1, <2>2, OneUp DEF Clean
<1>2. CASE disconnect(c)
  <2>1. conn[c] = "up" /\ conn' = [conn EXCEPT ![c] = "left"]
    BY <1>2 DEF disconnect
  <2> QED BY <1>0, <2>1, OneUp DEF Clean
<1>3. CASE pty_kill_all(c)
  <2>1. conn[c] = "up" /\ UNCHANGED conn /\ quitting' = quitting \cup {c}
    BY <1>3 DEF pty_kill_all
  <2> QED BY <2>1, OneUp DEF Clean
<1> QED BY <1>1, <1>2, <1>3

LEMMA GoesStream ==
  ASSUME IndInv, AppInv, KillInv, NEW c \in Client,
         receiveKilled(c) \/ disconnect(c) \/ pty_kill_all(c)
  PROVE  StreamInv'
<1>1. \A d \in Client, s \in Session : ~Clean(d, s)'
  BY GoesClean
<1> QED BY <1>1, Zenon DEF StreamInv

LEMMA PanesStream ==
  ASSUME IndInv, AppInv, OwnInv, StreamInv, NEW p \in Pane,
         register(p) \/ requestTimesOut(p) \/ pty_close(p)
  PROVE  StreamInv'
<1>1. /\ UNCHANGED <<daemon, threads, excused>>
      /\ UNCHANGED <<conn, wire, quitting, stolen, saturated>>
      /\ \A c \in Client, s \in Session : Clean(c, s) => Keeps(c, s)
  BY RegisterPair, TimesOutPair, ClosePair DEF Keeps
<1>2. PICK c \in Client : conn[c] = "up"
  <2>1. pane[p].at \in {"asked", "answered", "shown"}
    BY DEF register, requestTimesOut, pty_close
  <2> QED BY <2>1, CallIs
<1> QED BY <1>1, <1>2, PaneStream

LEMMA AsksStream ==
  ASSUME IndInv, AppInv, StreamInv, NEW p \in Pane, NEW c \in Client, NEW open, NEW t,
         AsksFor(p, c, open, t),
         stolen \subseteq stolen'
  PROVE  StreamInv'
<1>1. /\ UNCHANGED <<daemon, threads, excused>> /\ UNCHANGED <<conn, wire, quitting, saturated>>
      /\ conn[c] = "up"
  BY DEF AsksFor
<1>2. \A s \in Session : Clean(c, s) => Keeps(c, s)
  BY AsksPair
<1> QED BY <1>1, <1>2, PaneStream

LEMMA AppStream ==
  ASSUME IndInv, AppInv, OwnInv, KillInv, FrameInv, StreamInv, NEW c \in Client, AppStep(c)
  PROVE  StreamInv'
<1>1. CASE readerStep(c)
  BY <1>1, HearsStream, ReplyHearsStream, GoesStream DEF readerStep
<1>2. CASE disconnect(c) \/ pty_kill_all(c)
  BY <1>2, GoesStream
<1>3. CASE adopt(c)
  <2>1. PICK p \in Pane, t \in Session : Adopts(p, c, t)
    BY <1>3, AdoptAsks
  <2>2. AsksFor(p, c, FALSE, t) /\ stolen \subseteq stolen'
    BY <2>1 DEF Adopts
  <2> QED BY <2>2, AsksStream
<1>4. CASE \E p \in Pane : pty_open(p, c)
  BY <1>4, OpenAsks, AsksStream
<1>5. CASE \E p \in Pane, q \in Pane : pty_attach(p, c, q)
  BY <1>5, AttachAsks, AsksStream
<1>6. CASE \E p \in Pane : register(p) \/ requestTimesOut(p) \/ pty_close(p)
  BY <1>6, PanesStream
<1> QED BY <1>1, <1>2, <1>3, <1>4, <1>5, <1>6 DEF AppStep

----------------------------------------------------------------------------
(* The panes whose session has ended. *)

(* A pane whose route has gone shows what it showed.                       *)
Routed(p) == channels[pane[p].c][pane[p].s] = p
KeptInOrder ==
  \A p \in Pane : Showing(p) /\ ~Routed(p) => InOrder(Live(p), excused[pane[p].s], pane[p].opener)

(* Of a stream whose end is announced, and of which more is excused.       *)
LEMMA OrderGrows ==
  ASSUME NEW q \in Seq(Nat), NEW r, r = q \/ r = q \o <<Exit>>, NEW X, NEW Y, X \subseteq Y,
         NEW whole,
         InOrder(q, X, whole)
  PROVE  InOrder(r, Y, whole)
<1>1. /\ \A i \in Told(r, Y) : i \in Told(q, X) /\ r[i] = q[i]
      /\ \A i \in Told(q, X) : q[i] \notin Y => i \in Told(r, Y) /\ r[i] = q[i]
      /\ \A i \in Told(q, X) : q[i] \in Nat
  <2>1. CASE r = q
    BY <2>1 DEF Told
  <2>2. CASE r = q \o <<Exit>>
    <3>1. /\ Len(r) = Len(q) + 1 /\ \A i \in 1 .. Len(q) : r[i] = q[i] /\ r[Len(q) + 1] = Exit
          /\ DOMAIN r = 1 .. Len(q) + 1 /\ DOMAIN q = 1 .. Len(q) /\ Len(q) \in Nat
      BY <2>2 DEF Exit
    <3>2. r[Len(q) + 1] = Exit
      BY <2>2 DEF Exit
    <3> QED BY <3>1, <3>2 DEF Told
  <2> QED BY <2>1, <2>2
<1> DEFINE A == Told(q, X)
           B == Told(r, Y)
<1>2. /\ \A i, j \in A : i < j => q[i] < q[j]
      /\ \A i \in A : \A n \in 1 .. q[i] - 1 :
           \/ n \in X \/ \E j \in A : q[j] = n
           \/ ~whole /\ \A j \in A : n < q[j]
  BY DEF InOrder
<1>3. /\ \A i \in B : i \in A /\ r[i] = q[i]
      /\ \A i \in A : q[i] \notin Y => i \in B /\ r[i] = q[i]
      /\ \A i \in A : q[i] \in Nat
  BY <1>1
<1> HIDE DEF A, B
<1>4. \A i, j \in B : i < j => r[i] < r[j]
  BY <1>2, <1>3
<1>5. ASSUME NEW i \in B, NEW n \in 1 .. r[i] - 1
      PROVE  n \in Y \/ (\E j \in B : r[j] = n) \/ (~whole /\ \A j \in B : n < r[j])
  <2>1. i \in A /\ n \in 1 .. q[i] - 1
    BY <1>3, <1>5
  <2>2. CASE n \in X
    BY <2>2
  <2>3. CASE \E j \in A : q[j] = n
    BY <1>3, <2>3
  <2>4. CASE ~whole /\ \A j \in A : n < q[j]
    BY <1>3, <2>4
  <2> QED BY <1>2, <2>1, <2>2, <2>3, <2>4
<1>6. /\ \A i, j \in B : i < j => r[i] < r[j]
      /\ \A i \in B : \A n \in 1 .. r[i] - 1 :
           n \in Y \/ (\E j \in B : r[j] = n) \/ (~whole /\ \A j \in B : n < r[j])
  BY <1>4, <1>5
<1> QED BY <1>6 DEF InOrder, A, B

(* Every pane that shows its stream shows it in order. *)
LEMMA RoutedInOrder ==
  ASSUME IndInv, AppInv, StreamInv, NEW p \in Pane, Showing(p), Routed(p)
  PROVE  InOrder(Live(p), excused[pane[p].s], pane[p].opener)
<1>1. PICK c \in Client : c = pane[p].c /\ conn[c] = "up" /\ c \notin quitting
  BY CallIs DEF Showing
<1>2. PICK s \in Session : s = pane[p].s
  BY CallIs DEF Showing
<1>3. view[p] \in Seq(Nat) /\ pane[p].seam \in 0 .. Len(view[p]) /\ p # None
  BY CallIs, NoneIs DEF Showing
<1>4. StreamOf(c, s)
  BY <1>1, <1>2 DEF StreamInv, Clean, Showing
<1>5. Buffer(c, s) = Live(p) /\ (Whole(c, s) <=> pane[p].opener)
  BY <1>1, <1>2, <1>3 DEF Buffer, Whole, Routed, Showing
<1> DEFINE P == Live(p)
           w == wire[c]
           Q == PartsOf(w, P, s)
           D == Due(c, s)
           X == excused[s]
           n == wrote[s]
<1>6. P \in Seq(Nat) /\ Len(w) \in Nat /\ n \in Nat
  BY <1>3, TailOf, WireFacts, ThreadSeqs DEF Live
<1>7. Chain(Q, D, X, n, Whole(c, s), On(c, s)) /\ ToldRising(P, X)
  BY <1>4, <1>5 DEF StreamOf, Stream
<1>8. DOMAIN Q = 0 .. Len(w) /\ Q[0] = ToSet(P) \ {Exit}
  BY <1>6, PartsAre
<1> HIDE DEF P, w, Q, D, X, n
<1>9. 0 \in DOMAIN Q /\ (\A i \in DOMAIN Q : i >= 0) /\ DOMAIN Q \subseteq Nat
  BY <1>6, <1>8
<1>10. \A i, j \in Told(P, X) : i < j => P[i] < P[j]
  BY <1>7 DEF ToldRising
<1>11. InOrder(P, X, Whole(c, s))
  BY <1>6, <1>7, <1>8, <1>9, <1>10, ChainInOrder
<1>12. InOrder(P, X, pane[p].opener)
  BY <1>5, <1>11, Zenon DEF InOrder
<1> QED BY <1>2, <1>12 DEF P, X

LEMMA ShownInOrder == ASSUME IndInv, AppInv, StreamInv, KeptInOrder PROVE StreamInOrder
BY RoutedInOrder DEF StreamInOrder, KeptInOrder

(* What a step does to what is shown, and to what is excused.              *)
ViewsGo ==
  \A p \in Pane : pane'[p].at = "shown" =>
    \/ Routed(p)'
    \/ pane'[p] = pane[p] /\ (view'[p] = view[p] \/ view'[p] = view[p] \o <<Exit>>)
HistoryGoes ==
  /\ \A c \in Client, s \in Session : <<c, s>> \in saturated => <<c, s>> \in saturated'
  /\ stolen \subseteq stolen' /\ \A s \in Session : excused[s] \subseteq excused'[s]

LEMMA KeptStays ==
  ASSUME IndInv, AppInv, StreamInv, KeptInOrder, ViewsGo, HistoryGoes
  PROVE  KeptInOrder'
<1> SUFFICES ASSUME NEW p \in Pane, Showing(p)', ~Routed(p)'
             PROVE  InOrder(Live(p), excused[pane[p].s], pane[p].opener)'
  BY Zenon DEF KeptInOrder
<1>1. /\ pane'[p] = pane[p] /\ (view'[p] = view[p] \/ view'[p] = view[p] \o <<Exit>>)
      /\ pane[p].at = "shown"
  BY DEF ViewsGo, Showing
<1>2. PICK s \in Session : s = pane[p].s
  BY <1>1, CallIs
<1>3. pane[p].c \in Client /\ view[p] \in Seq(Nat) /\ pane[p].seam \in 0 .. Len(view[p])
  BY <1>1, CallIs
<1>4. Showing(p)
  BY <1>1, <1>2, <1>3 DEF Showing, HistoryGoes
<1>5. InOrder(Live(p), excused[s], pane[p].opener)
  BY <1>2, <1>4, RoutedInOrder DEF KeptInOrder
<1>6. Live(p) \in Seq(Nat) /\ (Live(p)' = Live(p) \/ Live(p)' = Live(p) \o <<Exit>>)
  <2>1. PICK v \in Seq(Nat) : v = view[p]
    BY <1>3
  <2>2. PICK n \in 0 .. Len(v) : n = pane[p].seam
    BY <1>3, <2>1
  <2>3. <<Exit>> \in Seq(Nat)
    BY DEF Exit
  <2>4. SubSeq(v, n + 1, Len(v)) \in Seq(Nat)
    BY TailOf
  <2>5. SubSeq(v \o <<Exit>>, n + 1, Len(v \o <<Exit>>)) = SubSeq(v, n + 1, Len(v)) \o <<Exit>>
    BY <2>3, LiveGrows
  <2>6. (view'[p] = v \/ view'[p] = v \o <<Exit>>) /\ pane'[p].seam = n
    BY <1>1, <2>1, <2>2
  <2> QED BY <2>1, <2>2, <2>4, <2>5, <2>6 DEF Live
<1>7. excused[s] \subseteq excused'[s]
  BY DEF HistoryGoes
<1>8. InOrder(Live(p)', excused'[s], pane[p].opener)
  BY <1>5, <1>6, <1>7, OrderGrows
<1> QED BY <1>1, <1>2, <1>8

(* The steps that touch neither a route nor a pane. *)
LEMMA ViewsSame == ASSUME UNCHANGED <<pane, view>> PROVE ViewsGo
BY DEF ViewsGo

LEMMA HistorySame ==
  ASSUME UNCHANGED excused, saturated \subseteq saturated', stolen \subseteq stolen'
  PROVE  HistoryGoes
BY DEF HistoryGoes

LEMMA ThreadKept ==
  ASSUME IndInv, AppInv, LineInv, NEW t \in Session, threadOf(t)
  PROVE  ViewsGo /\ HistoryGoes
<1>1. ThreadStill
  BY ThreadStands
<1>2. ViewsGo
  BY <1>1, ViewsSame DEF ThreadStill, app
<1>3. ASSUME NEW s \in Session PROVE excused[s] \subseteq excused'[s]
  <2>1. CASE s # t
    BY <2>1, ThreadOthers
  <2>2. CASE s = t /\ shellWrites(t)
    BY <2>2, WritesIs
  <2>3. CASE flusherFansOut(t) \/ waiterFansOut(t)
    BY <2>3 DEF flusherFansOut, waiterFansOut
  <2>4. CASE \/ shellEnds(t) \/ flusherTakes(t) \/ flusherAppends(t) \/ waiterTakes(t)
             \/ sinkExit(t)
             \/ sessionDrop(t) \/ dropThread(t)
    <3>1. excused[t] \subseteq excused'[t]
      BY <2>4, ThreadComes
    <3> QED BY <2>1, <3>1
  <2> QED BY <2>1, <2>2, <2>3, <2>4 DEF threadOf, threadStep
<1>4. HistoryGoes
  BY <1>1, <1>3 DEF ThreadStill, HistoryGoes
<1> QED BY <1>2, <1>4

LEMMA DispatchKept ==
  ASSUME NEW c \in Client, DispatchStill(c) \/ ReplyStill(c)
  PROVE  ViewsGo /\ HistoryGoes
<1>1. UNCHANGED <<pane, view, excused, stolen>> /\ saturated \subseteq saturated'
  BY DEF DispatchStill, ReplyStill, app
<1>2. ViewsGo
  BY <1>1, ViewsSame
<1>3. HistoryGoes
  BY <1>1, HistorySame
<1> QED BY <1>2, <1>3

LEMMA ConnKept == ASSUME ConnStill PROVE ViewsGo /\ HistoryGoes
<1>1. UNCHANGED <<pane, view, excused, stolen, saturated>>
  BY DEF ConnStill
<1>2. ViewsGo
  BY <1>1, ViewsSame
<1>3. HistoryGoes
  BY <1>1, HistorySame
<1> QED BY <1>2, <1>3

(* What comes is shown by the pane of the route, whose route stays unless  *)
(* it was the end.                                                         *)
LEMMA HearsKept ==
  ASSUME IndInv, AppInv, NEW c \in Client, receiveData(c) \/ receiveExit(c)
  PROVE  ViewsGo /\ HistoryGoes
<1>1. PICK m \in Message, b \in Seq(Nat) : Hears(c, m, b)
  BY HearsIs
<1>2. HistoryGoes
  BY <1>1, HistorySame DEF Hears
<1>3. UNCHANGED pane /\ m.s \in Session /\ (m.k # "Data" => b = <<Exit>>)
  BY <1>1 DEF Hears
<1>4. ASSUME NEW p \in Pane, pane'[p].at = "shown"
      PROVE  Routed(p)' \/ (view'[p] = view[p] \/ view'[p] = view[p] \o <<Exit>>)
  <2>1. CASE view' = view
    BY <2>1
  <2>2. CASE view' # view
    <3>1. PICK q \in Pane :
            /\ channels[c][m.s] = q
            /\ channels'[c][m.s] = IF m.k = "Exit" THEN None ELSE q
            /\ \A r \in Pane : r # q => view'[r] = view[r]
            /\ view'[q] = IF pane[q].at = "shown" THEN view[q] \o b ELSE view[q]
      BY <1>1, <2>2 DEF Hears
    <3>2. CASE p # q
      BY <3>1, <3>2
    <3>3. CASE p = q
      <4>1. channels[c][m.s] # None
        BY <3>1, NoneIs
      <4>2. pane[p].c = c /\ pane[p].s = m.s
        BY <1>3, <1>4, <3>1, <3>3, <4>1, RouteIs
      <4>3. CASE m.k = "Exit"
        BY <1>3, <1>4, <3>1, <3>3, <4>3
      <4>4. CASE m.k # "Exit"
        BY <1>3, <3>1, <3>3, <4>2, <4>4 DEF Routed
      <4> QED BY <4>3, <4>4
    <3> QED BY <3>2, <3>3
  <2> QED BY <2>1, <2>2
<1>5. ViewsGo
  BY <1>3, <1>4 DEF ViewsGo
<1> QED BY <1>2, <1>5

(* No other step changes what an unrouted pane shows.                      *)
LEMMA PanesKept ==
  ASSUME \A p \in Pane : pane'[p].at = "shown" => Routed(p)' \/ (pane'[p] = pane[p] /\ view'[p] = view[p])
  PROVE  ViewsGo
BY DEF ViewsGo

LEMMA ReplyHearsKept ==
  ASSUME IndInv, AppInv, NEW c \in Client, receiveReply(c)
  PROVE  ViewsGo /\ HistoryGoes
<1>1. PICK m : m = Head(wire[c])
  OBVIOUS
<1>2. HistoryGoes
  BY <1>1, ReplyIs, HistorySame
<1>3. /\ \A q \in Pane : q # m.p => pane'[q] = pane[q] /\ view'[q] = view[q]
      /\ \/ UNCHANGED <<pane, view>>
         \/ pane'[m.p] = [at |-> "failed", c |-> None]
         \/ pane'[m.p].at = "answered"
  BY <1>1, ReplyIs
<1>4. ASSUME NEW p \in Pane, pane'[p].at = "shown" PROVE pane'[p] = pane[p] /\ view'[p] = view[p]
  BY <1>3, <1>4
<1> QED BY <1>2, <1>4, PanesKept

LEMMA RegisterKept ==
  ASSUME IndInv, AppInv, NEW p \in Pane, register(p)
  PROVE  ViewsGo /\ HistoryGoes
<1>1. PICK c \in Client, s \in Session : Registers(p, c, s)
  BY RegisterIs
<1>2. HistoryGoes
  BY <1>1, HistorySame DEF Registers
<1>3. Routed(p)' /\ \A q \in Pane : q # p => pane'[q] = pane[q] /\ view'[q] = view[q]
  BY <1>1 DEF Registers, Routed
<1> QED BY <1>2, <1>3, PanesKept

LEMMA AsksKept ==
  ASSUME NEW p \in Pane, NEW c \in Client, NEW open, NEW t, AsksFor(p, c, open, t),
         stolen \subseteq stolen'
  PROVE  ViewsGo /\ HistoryGoes
<1>1. HistoryGoes
  BY HistorySame DEF AsksFor
<1>2. /\ pane'[p].at = "asked"
      /\ \A q \in Pane : q # p =>
           (pane'[q] = pane[q] /\ view'[q] = view[q]) \/ pane'[q].at = "lost"
  BY DEF AsksFor
<1> QED BY <1>1, <1>2, PanesKept

LEMMA AppKept ==
  ASSUME IndInv, AppInv, NEW c \in Client, AppStep(c)
  PROVE  ViewsGo /\ HistoryGoes
<1>1. CASE receiveData(c) \/ receiveExit(c)
  BY <1>1, HearsKept
<1>2. CASE receiveReply(c)
  BY <1>2, ReplyHearsKept
<1>3. CASE receiveKilled(c)
  <2>1. UNCHANGED <<pane, view, excused, stolen, saturated>>
    BY <1>3 DEF receiveKilled, history
  <2> QED BY <2>1, ViewsSame, HistorySame
<1>4. CASE disconnect(c)
  <2>1. Leaves(c)
    BY <1>4, LeavesIs
  <2>2. HistoryGoes
    BY <2>1, HistorySame DEF Leaves
  <2>3. \A q \in Pane : (pane'[q] = pane[q] /\ view'[q] = view[q]) \/ pane'[q].at \in {"failed", "lost"}
    BY <2>1 DEF Leaves
  <2> QED BY <2>2, <2>3, PanesKept
<1>5. CASE pty_kill_all(c)
  <2>1. Quits(c)
    BY <1>5, QuitsIs
  <2>2. HistoryGoes
    BY <2>1, HistorySame DEF Quits
  <2>3. \A q \in Pane : (pane'[q] = pane[q] /\ view'[q] = view[q]) \/ pane'[q].at = "closed"
    BY <2>1 DEF Quits
  <2> QED BY <2>2, <2>3, PanesKept
<1>6. CASE adopt(c)
  <2>1. PICK p \in Pane, t \in Session : Adopts(p, c, t)
    BY <1>6, AdoptAsks
  <2>2. AsksFor(p, c, FALSE, t) /\ stolen \subseteq stolen'
    BY <2>1 DEF Adopts
  <2> QED BY <2>2, AsksKept
<1>7. ASSUME NEW p \in Pane, register(p) PROVE ViewsGo /\ HistoryGoes
  BY <1>7, RegisterKept
<1>8. ASSUME NEW p \in Pane, requestTimesOut(p) PROVE ViewsGo /\ HistoryGoes
  <2>1. UNCHANGED <<view, excused, stolen, saturated>> /\ \A q \in Pane :
          pane'[q] = pane[q] \/ pane'[q].at = "failed"
    BY <1>8 DEF requestTimesOut, history, IndInv, Types, AppTypes
  <2> QED BY <2>1, PanesKept, HistorySame
<1>9. ASSUME NEW p \in Pane, pty_close(p) PROVE ViewsGo /\ HistoryGoes
  <2>1. PICK d \in Client, s \in Session : Closes(p, d, s)
    BY <1>9, CloseIs
  <2>2. HistoryGoes
    BY <2>1, HistorySame DEF Closes
  <2>3. \A q \in Pane : (pane'[q] = pane[q] /\ view'[q] = view[q]) \/ pane'[q].at = "closed"
    BY <2>1 DEF Closes
  <2> QED BY <2>2, <2>3, PanesKept
<1>10. ASSUME NEW p \in Pane, pty_open(p, c) PROVE ViewsGo /\ HistoryGoes
  <2>1. AsksFor(p, c, TRUE, None) /\ stolen \subseteq stolen'
    BY <1>10, OpenAsks
  <2> QED BY <2>1, AsksKept
<1>11. ASSUME NEW p \in Pane, NEW q \in Pane, pty_attach(p, c, q) PROVE ViewsGo /\ HistoryGoes
  <2>1. AsksFor(p, c, FALSE, pane[q].s) /\ stolen \subseteq stolen'
    BY <1>11, AttachAsks
  <2> QED BY <2>1, AsksKept
<1> QED BY <1>1, <1>2, <1>3, <1>4, <1>5, <1>6, <1>7, <1>8, <1>9, <1>10, <1>11 DEF AppStep,
           readerStep

----------------------------------------------------------------------------
(* The invariant of the stream, and the theorem. *)

LineUp == LineInv /\ KillInv /\ ReplyInv /\ SubInv /\ FrameInv
StreamIndInv == IndInv /\ AppInv /\ OwnInv /\ LineUp /\ StreamInv /\ KeptInOrder

LEMMA InitStream == ASSUME Init PROVE StreamIndInv
<1>1. IndInv /\ AppInv /\ OwnInv /\ LineInv /\ KillInv /\ ReplyInv /\ SubInv
  BY InitHolds, InitApp, InitOwn, InitLine, InitKill, InitReply, InitSub
<1>2. FrameInv
  BY DEF Init, FrameInv
<1>3. StreamInv
  BY DEF Init, StreamInv, Clean
<1>4. KeptInOrder
  BY DEF Init, KeptInOrder, Showing
<1> QED BY <1>1, <1>2, <1>3, <1>4 DEF StreamIndInv, LineUp

LEMMA StutterStream == ASSUME StreamIndInv, UNCHANGED vars PROVE StreamIndInv'
<1>1. /\ IndInv /\ AppInv /\ OwnInv /\ LineInv /\ KillInv /\ ReplyInv /\ SubInv /\ FrameInv
      /\ StreamInv /\ KeptInOrder
  BY DEF StreamIndInv, LineUp
<1>2. UNCHANGED <<daemon, threads, wires, app, history>>
  BY DEF vars
<1>3. /\ UNCHANGED <<daemon, threads, wires, excused, saturated, stolen, channels, early, pane, view>>
      /\ UNCHANGED <<conn, requests, wire, quitting, known, opens, opened, dispatch, closed>>
  BY <1>2 DEF app, history, wires, daemon
<1>4. ConnStill
  BY <1>3 DEF ConnStill
<1>5. IndInv'
  BY <1>1, StutterHolds
<1>6. AppInv' /\ OwnInv' /\ KillInv' /\ FrameInv'
  BY <1>1, <1>4, ConnApp, ConnOwn, ConnKill, ConnFrame
<1>7. LineInv'
  BY <1>1, <1>3, AppLine
<1>8. ReplyInv'
  BY <1>1, <1>3, ReplyStays
<1>9. SubInv'
  <2>1. \A c \in Client, s \in Session : OnWire(wire'[c], s) \/ InApp(c, s)' => Joined(c, s)
    BY <1>3 DEF InApp, Joined
  <2> QED BY <1>1, <1>3, <2>1, AppSubStays
<1>10. ViewsGo /\ HistoryGoes
  BY <1>4, ConnKept
<1>11. KeptInOrder'
  BY <1>1, <1>10, KeptStays
<1>12. StreamInv'
  <2>1. ASSUME NEW c \in Client, NEW s \in Session, Clean(c, s)'
        PROVE  Clean(c, s) /\ StreamOf(c, s)'
    <3>1. Clean(c, s)
      BY <1>3, <2>1 DEF Clean
    <3>2. StreamOf(c, s)
      BY <1>1, <3>1 DEF StreamInv
    <3>3. Buffer(c, s)' = Buffer(c, s)
      BY <1>3, BufferSame
    <3>4. \A i \in Nat : OpenAt(c, i, s)' => OpenAt(c, i, s)
      BY <1>3 DEF OpenAt
    <3>5. Whole(c, s)' => Whole(c, s)
      BY <1>3, <3>4, WholeStays
    <3> QED BY <1>1, <1>3, <3>1, <3>2, <3>3, <3>5, AppStands
  <2> QED BY <2>1, Zenon DEF StreamInv
<1> QED BY <1>5, <1>6, <1>7, <1>8, <1>9, <1>11, <1>12, Zenon DEF StreamIndInv, LineUp

(* The step is of a thread, of a dispatcher, of a connection or of an app. *)
LEMMA NextIs ==
  ASSUME IndInv, Next
  PROVE  \/ \E s \in Session : threadOf(s)
         \/ \E c \in Client : dispatchStep(c) \/ AppStep(c)
         \/ connStep
<1>1. ASSUME NEW p \in Pane, register(p) \/ requestTimesOut(p) \/ pty_close(p)
      PROVE  \E c \in Client : AppStep(c)
  <2>1. pane[p].c \in Client
    <3>1. pane[p].at \in {"asked", "answered", "shown"}
      BY <1>1 DEF register, requestTimesOut, pty_close
    <3> QED BY <3>1 DEF IndInv, LinkInv, PaneInv
  <2> QED BY <1>1, <2>1 DEF AppStep
<1>2. ASSUME NEW s \in Session, shellWrites(s) \/ shellEnds(s) \/ threadStep(s) PROVE threadOf(s)
  BY <1>2 DEF threadOf
<1>3. ASSUME NEW c \in Client, readerStep(c) \/ disconnect(c) \/ pty_kill_all(c) \/ adopt(c)
      PROVE  AppStep(c)
  BY <1>3 DEF AppStep
<1>4. ASSUME NEW p \in Pane, NEW c \in Client,
             pty_open(p, c) \/ \E q \in Pane : pty_attach(p, c, q)
      PROVE  AppStep(c)
  BY <1>4 DEF AppStep
<1>5. ASSUME \/ \E c \in Client : connect(c) \/ accept(c)
             \/ idle_watcher \/ acceptWake \/ shutdownCheck
      PROVE  connStep
  BY <1>5 DEF connStep
<1> QED BY <1>1, <1>2, <1>3, <1>4, <1>5 DEF Next

LEMMA ThreadSteps ==
  ASSUME StreamIndInv, IndInv', NEW t \in Session, threadOf(t)
  PROVE  StreamIndInv'
<1>1. /\ IndInv /\ AppInv /\ OwnInv /\ LineInv /\ KillInv /\ ReplyInv /\ SubInv /\ FrameInv
      /\ StreamInv /\ KeptInOrder
  BY DEF StreamIndInv, LineUp
<1>2. ThreadStill
  BY <1>1, ThreadStands
<1>3. AppInv' /\ OwnInv' /\ KillInv'
  BY <1>1, <1>2, ThreadApp, ThreadOwn, ThreadKill
<1>4. LineInv' /\ SubInv' /\ FrameInv'
  BY <1>1, ThreadLine, ThreadSub, ThreadFrame1
<1>5. ReplyInv'
  BY <1>1, <1>2, ReplyStays DEF ThreadStill
<1>6. StreamInv'
  BY <1>1, ThreadStream
<1>7. ViewsGo /\ HistoryGoes
  BY <1>1, ThreadKept
<1>8. KeptInOrder'
  BY <1>1, <1>7, KeptStays
<1> QED BY <1>3, <1>4, <1>5, <1>6, <1>8, Zenon DEF StreamIndInv, LineUp

LEMMA ConnSteps ==
  ASSUME StreamIndInv, IndInv', connStep
  PROVE  StreamIndInv'
<1>1. /\ IndInv /\ AppInv /\ OwnInv /\ LineInv /\ KillInv /\ ReplyInv /\ SubInv /\ FrameInv
      /\ StreamInv /\ KeptInOrder
  BY DEF StreamIndInv, LineUp
<1>2. ConnStill
  BY <1>1, ConnStands
<1>3. AppInv' /\ OwnInv' /\ KillInv' /\ FrameInv'
  BY <1>1, <1>2, ConnApp, ConnOwn, ConnKill, ConnFrame
<1>4. LineInv' /\ SubInv'
  BY <1>1, ConnLine, ConnSub
<1>5. ReplyInv'
  BY <1>1, <1>2, ReplyStays DEF ConnStill
<1>6. StreamInv'
  BY <1>1, ConnStream
<1>7. ViewsGo /\ HistoryGoes
  BY <1>2, ConnKept
<1>8. KeptInOrder'
  BY <1>1, <1>7, KeptStays
<1> QED BY <1>3, <1>4, <1>5, <1>6, <1>8, Zenon DEF StreamIndInv, LineUp

LEMMA DispatchSteps ==
  ASSUME StreamIndInv, IndInv', NEW c \in Client, dispatchStep(c)
  PROVE  StreamIndInv'
<1>1. /\ IndInv /\ AppInv /\ OwnInv /\ LineInv /\ KillInv /\ ReplyInv /\ SubInv /\ FrameInv
      /\ StreamInv /\ KeptInOrder
  BY DEF StreamIndInv, LineUp
<1>2. ReplyInv' /\ FrameInv'
  BY <1>1, DispatchReply, DispatchFrame
<1>3. ASSUME DispatchStill(c) \/ ReplyStill(c) PROVE KeptInOrder'
  <2>1. ViewsGo /\ HistoryGoes
    BY <1>3, DispatchKept
  <2> QED BY <1>1, <2>1, KeptStays
<1>4. CASE openReserves(c)
  <2>1. DispatchStill(c) /\ AppInv' /\ OwnInv' /\ LineInv' /\ SubInv'
    BY <1>1, <1>4, ReservesApp, ReservesOwn, ReservesLine, ReservesSub
  <2>2. KillInv' /\ StreamInv'
    BY <1>1, <1>4, DispatchesKill, ReservesStream
  <2> QED BY <1>2, <1>3, <2>1, <2>2, Zenon DEF StreamIndInv, LineUp
<1>5. CASE openSpawns(c) \/ openSpawnFails(c) \/ openFills(c)
  <2>1. DispatchStill(c) /\ AppInv' /\ OwnInv' /\ LineInv' /\ SubInv'
    BY <1>1, <1>5, SpawnsApp, SpawnsOwn, SpawnsLine, SpawnsSub
  <2>2. KillInv' /\ StreamInv'
    BY <1>1, <1>5, DispatchesKill, SpawnsStream
  <2> QED BY <1>2, <1>3, <2>1, <2>2, Zenon DEF StreamIndInv, LineUp
<1>6. CASE attachCopies(c) \/ attachSubscribes(c) \/ serveClose(c) \/ serveKillAll(c)
  <2>1. DispatchStill(c) /\ AppInv'
    BY <1>1, <1>6, AttachApp, ServesApp
  <2>2. OwnInv' /\ LineInv' /\ SubInv'
    BY <1>1, <1>6, ServesOwn, ServesLine, ServesSub
  <2>3. KillInv' /\ StreamInv'
    BY <1>1, <1>6, DispatchesKill, ServesStream
  <2> QED BY <1>2, <1>3, <2>1, <2>2, <2>3, Zenon DEF StreamIndInv, LineUp
<1>7. CASE reply(c)
  <2>1. ReplyStill(c) /\ AppInv'
    BY <1>1, <1>7, ReplyApp
  <2>2. OwnInv' /\ KillInv'
    BY <1>1, <2>1, ReplyOwn, ReplyKill
  <2>3. LineInv' /\ SubInv' /\ StreamInv'
    BY <1>1, <1>7, ServesLine, ReplySub, ReplyStream
  <2> QED BY <1>2, <1>3, <2>1, <2>2, <2>3, Zenon DEF StreamIndInv, LineUp
<1>8. CASE unsubscribe(c)
  <2>1. connStep
    BY <1>8 DEF connStep
  <2> QED BY <2>1, ConnSteps
<1> QED BY <1>4, <1>5, <1>6, <1>7, <1>8 DEF dispatchStep

LEMMA AppSteps ==
  ASSUME StreamIndInv, IndInv', NEW c \in Client, AppStep(c)
  PROVE  StreamIndInv'
<1>1. /\ IndInv /\ AppInv /\ OwnInv /\ LineInv /\ KillInv /\ ReplyInv /\ SubInv /\ FrameInv
      /\ StreamInv /\ KeptInOrder
  BY DEF StreamIndInv, LineUp
<1>2. UNCHANGED <<daemon, threads, excused, closed>>
  BY AppDaemon
<1>3. LineInv' /\ KillInv' /\ SubInv' /\ FrameInv'
  BY <1>1, <1>2, AppLine, AppKill, AppSub, AppFrame
<1>4. ReplyInv'
  BY <1>1, <1>2, ReplyStays DEF daemon
<1>5. StreamInv'
  BY <1>1, AppStream
<1>6. ViewsGo /\ HistoryGoes
  BY <1>1, AppKept
<1>7. KeptInOrder'
  BY <1>1, <1>6, KeptStays
<1>8. AppInv' /\ OwnInv'
  <2>1. CASE receiveData(c) \/ receiveExit(c) \/ receiveKilled(c)
    BY <1>1, <2>1, ReceiveDataApp, ReceiveExitApp, ReceiveKilledApp, ReceiveOwn
  <2>2. CASE receiveReply(c)
    BY <1>1, <2>2, ReceiveReplyApp, ReceiveReplyOwn
  <2>3. CASE disconnect(c)
    BY <1>1, <2>3, LeavesIs, LeavesApp, LeavesOwn
  <2>4. CASE pty_kill_all(c)
    BY <1>1, <2>4, QuitsIs, QuitsApp, QuitsOwn
  <2>5. CASE adopt(c)
    <3>1. PICK p \in Pane, t \in Session : Adopts(p, c, t)
      BY <1>1, <2>5, AdoptAsks
    <3>2. AsksFor(p, c, FALSE, t)
      BY <3>1 DEF Adopts
    <3>3. AppInv'
      BY <1>1, <3>2, AsksApp
    <3> QED BY <1>1, <2>5, <3>3, AdoptOwn
  <2>6. ASSUME NEW p \in Pane, register(p) \/ requestTimesOut(p) \/ pty_close(p)
        PROVE  AppInv' /\ OwnInv'
    BY <1>1, <2>6, RegisterApp, RegisterOwn, TimesOutApp, TimesOutOwn, CloseApp, CloseOwn
  <2>7. ASSUME NEW p \in Pane, pty_open(p, c) PROVE AppInv' /\ OwnInv'
    <3>1. AsksFor(p, c, TRUE, None)
      BY <1>1, <2>7, OpenAsks
    <3>2. AppInv'
      BY <1>1, <3>1, AsksApp
    <3> QED BY <1>1, <2>7, <3>2, OpenOwn
  <2>8. ASSUME NEW p \in Pane, NEW q \in Pane, pty_attach(p, c, q) PROVE AppInv' /\ OwnInv'
    <3>1. AsksFor(p, c, FALSE, pane[q].s)
      BY <1>1, <2>8, AttachAsks
    <3>2. AppInv'
      BY <1>1, <3>1, AsksApp
    <3> QED BY <1>1, <2>8, <3>2, AttachOwn
  <2> QED BY <2>1, <2>2, <2>3, <2>4, <2>5, <2>6, <2>7, <2>8 DEF AppStep, readerStep
<1> QED BY <1>3, <1>4, <1>5, <1>7, <1>8, Zenon DEF StreamIndInv, LineUp

LEMMA NextStream == ASSUME StreamIndInv, Next PROVE StreamIndInv'
<1>1. IndInv
  BY DEF StreamIndInv
<1>2. IndInv'
  BY <1>1, NextHolds
<1> QED BY <1>1, <1>2, NextIs, ThreadSteps, DispatchSteps, AppSteps, ConnSteps

(* What a pane is shown live of its shell is in the order in which the     *)
(* shell wrote it and leaves nothing out: the flusher and the waiter pass  *)
(* the reader's bytes on one after the other (session.rs), ServerSink::data *)
(* fans them out under the subscribers' lock, reader_loop delivers them or *)
(* buffers them early, and register_and_replay puts what was buffered      *)
(* before what comes.                                                      *)
THEOREM DaemonStreamInOrder == Spec => []StreamInOrder
<1>1. Init => StreamIndInv
  BY InitStream
<1>2. StreamIndInv /\ [Next]_vars => StreamIndInv'
  BY NextStream, StutterStream
<1>3. StreamIndInv => StreamInOrder
  BY ShownInOrder DEF StreamIndInv
<1> QED BY <1>1, <1>2, <1>3, PTL DEF Spec

----------------------------------------------------------------------------
(* A session that has ended is not alive. *)

(* The end of a session, and of its stream.                                *)
ExitOn(w, s) == \E i \in 1 .. Len(w) : w[i].k = "Exit" /\ w[i].s = s
Ended(c, s) == ExitOn(wire[c], s) \/ Exit \in ToSet(Buffer(c, s))

(* A session that was closed, or whose end was announced, is not alive.    *)
AliveInv ==
  \A s \in Session :
    /\ s \in closed => alive[s] = FALSE
    /\ waiter[s].at = "ended" /\ s \in map => alive[s] = FALSE

(* What a step does to the sessions' ends.                                 *)
AliveGo ==
  \A s \in Session :
    /\ alive[s] = FALSE => alive'[s] = FALSE
    /\ s \in closed' => s \in closed \/ alive'[s] = FALSE
    /\ s \in map' => s \in map \/ waiter'[s].at # "ended"
    /\ waiter'[s].at = "ended" /\ s \in map' => waiter[s].at = "ended" \/ alive'[s] = FALSE

LEMMA AliveStays == ASSUME AliveInv, AliveGo PROVE AliveInv'
BY DEF AliveInv, AliveGo

LEMMA WaiterIs ==
  ASSUME IndInv
  PROVE  /\ DOMAIN waiter = Session /\ alive \in [Session -> BOOLEAN] /\ DOMAIN alive = Session
         /\ \A s \in Session :
              waiter[s] \in [at : {"rest", "appended", "tailed", "ended"}, chunk : Seq(Chunk)]
BY DEF IndInv, Types, ThreadTypes, DaemonTypes

LEMMA ThreadAlive ==
  ASSUME IndInv, NEW t \in Session, threadOf(t)
  PROVE  AliveGo
<1>1. UNCHANGED <<map, closed>>
  <2>1. ThreadStill
    BY ThreadStands
  <2> QED BY <2>1 DEF ThreadStill
<1>2. /\ DOMAIN waiter = Session /\ DOMAIN alive = Session
      /\ \A s \in Session :
           waiter[s] \in [at : {"rest", "appended", "tailed", "ended"}, chunk : Seq(Chunk)]
  BY WaiterIs
<1>3. CASE sinkExit(t)
  <2>1. /\ waiter' = [waiter EXCEPT ![t] = [at |-> "ended", chunk |-> <<>>]]
        /\ IF Held(t) THEN alive' = [alive EXCEPT ![t] = FALSE] ELSE UNCHANGED alive
    BY <1>3 DEF sinkExit
  <2>2. t \in map => Held(t)
    BY DEF Held
  <2>3. \A s \in Session : s # t => waiter'[s] = waiter[s] /\ alive'[s] = alive[s]
    BY <1>2, <2>1
  <2>4. alive'[t] = FALSE \/ (alive'[t] = alive[t] /\ t \notin map)
    BY <1>2, <2>1, <2>2
  <2> QED BY <1>1, <2>3, <2>4 DEF AliveGo
<1>4. CASE ~sinkExit(t)
  <2>1. UNCHANGED alive /\ \A s \in Session : waiter'[s] = waiter[s] \/ waiter'[s].at # "ended"
    <3>1. CASE shellWrites(t)
      BY <3>1 DEF shellWrites, daemon
    <3>2. CASE shellEnds(t) \/ flusherTakes(t)
      BY <3>2 DEF shellEnds, flusherTakes, daemon
    <3>3. CASE flusherAppends(t) \/ flusherFansOut(t)
      BY <3>3 DEF flusherAppends, flusherFansOut, daemon
    <3>4. CASE sessionDrop(t) \/ dropThread(t)
      BY <3>4 DEF sessionDrop, dropThread, threads
    <3>5. CASE waiterTakes(t)
      <4> DEFINE w == IF pending[t] # <<>> /\ Held(t) THEN [at |-> "appended", chunk |-> pending[t]]
                      ELSE [at |-> "tailed", chunk |-> <<>>]
      <4>1. waiter' = [waiter EXCEPT ![t] = w] /\ UNCHANGED alive
        BY <3>5 DEF waiterTakes
      <4>2. w.at \in {"appended", "tailed"}
        OBVIOUS
      <4> HIDE DEF w
      <4> QED BY <1>2, <4>1, <4>2
    <3>6. CASE waiterFansOut(t)
      <4>1. waiter' = [waiter EXCEPT ![t].at = "tailed"] /\ UNCHANGED alive
        BY <3>6 DEF waiterFansOut, daemon
      <4> QED BY <1>2, <4>1
    <3> QED BY <1>4, <3>1, <3>2, <3>3, <3>4, <3>5, <3>6 DEF threadOf, threadStep
  <2> QED BY <1>1, <2>1 DEF AliveGo
<1> QED BY <1>3, <1>4

(* What close_session does to the sessions, for the requests that close.   *)
LEMMA ClosesAlive ==
  ASSUME IndInv, LineInv, NEW S \in SUBSET map, NEW kept, closeSessions(S, kept),
         UNCHANGED waiter,
         kept \subseteq map \cup {opened + 1}
  PROVE  AliveGo
<1>1. /\ map' = kept /\ closed' = closed \cup S
      /\ \A s \in Session : (s \in S => alive'[s] = FALSE) /\ (s \notin S => alive'[s] = alive[s])
  BY CloseTypes
<1>2. \A s \in Session : s > opened => waiter[s].at = "rest"
  BY DEF LineInv, Begun, Resting
<1>3. opened \in Nat /\ \A s \in Session : s = opened + 1 => s > opened
  BY DEF IndInv, Types, DaemonTypes
<1> QED BY <1>1, <1>2, <1>3 DEF AliveGo

LEMMA SameAlive ==
  ASSUME UNCHANGED <<alive, closed, waiter>>, map' \subseteq map
  PROVE  AliveGo
BY DEF AliveGo

LEMMA DispatchAlive ==
  ASSUME IndInv, LineInv, NEW c \in Client, dispatchStep(c)
  PROVE  AliveGo
<1>1. CASE openReserves(c)
  <2>1. closeSessions(reapable, map') /\ UNCHANGED waiter /\ Reserves(c)
    BY <1>1, ReservesIs
  <2>2. map' \subseteq map \cup {opened + 1}
    BY <2>1 DEF Reserves
  <2>3. reapable \in SUBSET map
    BY ReapableEnded
  <2> QED BY <2>1, <2>2, <2>3, ClosesAlive
<1>2. CASE openSpawns(c) \/ openSpawnFails(c) \/ openFills(c)
  BY <1>2, SameAlive DEF openSpawns, openSpawnFails, openFills, history, threads
<1>3. CASE attachCopies(c) \/ attachSubscribes(c)
  BY <1>3, SameAlive DEF attachCopies, attachSubscribes, history, threads
<1>4. CASE serveClose(c)
  <2>1. PICK S \in SUBSET map : closeSessions(S, map \ S)
    BY <1>4 DEF serveClose
  <2>2. UNCHANGED waiter /\ map \ S \subseteq map \cup {opened + 1}
    BY <1>4 DEF serveClose
  <2> QED BY <2>1, <2>2, ClosesAlive
<1>5. CASE serveKillAll(c)
  <2>1. closeSessions(map, {}) /\ UNCHANGED waiter
    BY <1>5 DEF serveKillAll
  <2> QED BY <2>1, ClosesAlive
<1>6. CASE reply(c) \/ unsubscribe(c)
  BY <1>6, SameAlive DEF reply, unsubscribe, history, threads
<1> QED BY <1>1, <1>2, <1>3, <1>4, <1>5, <1>6 DEF dispatchStep

LEMMA ConnAlive ==
  ASSUME connStep
  PROVE  AliveGo
<1>1. CASE \E c \in Client : connect(c) \/ accept(c) \/ unsubscribe(c)
  BY <1>1, SameAlive DEF connect, accept, unsubscribe, history, threads
<1>2. CASE idle_watcher \/ acceptWake
  BY <1>2, SameAlive DEF idle_watcher, acceptWake, history, threads
<1>3. CASE shutdownCheck /\ Exits
  BY <1>3 DEF Exits, history, AliveGo
<1>4. CASE shutdownCheck /\ Resumes
  BY <1>4, SameAlive DEF Resumes, history, threads
<1> QED BY <1>1, <1>2, <1>3, <1>4 DEF connStep, shutdownCheck

LEMMA InitAlive == ASSUME Init PROVE AliveInv
BY DEF Init, AliveInv, Resting


----------------------------------------------------------------------------
(* An exit is the last that a client is sent of a session. *)

(* Behind the exit of a session that ended by itself comes nothing more of *)
(* its output.                                                             *)
LastInv ==
  \A c \in Client : \A i \in 1 .. Len(wire[c]) :
    wire[c][i].k = "Exit" /\ wire[c][i].s \notin closed =>
      /\ waiter[wire[c][i].s].at = "ended"
      /\ \A j \in i + 1 .. Len(wire[c]) :
           Chunks(wire[c][j], wire[c][i].s) \subseteq excused[wire[c][i].s]

(* What a step may append to the wires.                                    *)
Follows(m) ==
  \A s \in Session \ closed' :
    /\ m.k = "Exit" /\ m.s = s => waiter'[s].at = "ended"
    /\ waiter'[s].at = "ended" => Chunks(m, s) \subseteq excused'[s]
EndsStay ==
  /\ closed \subseteq closed'
  /\ \A s \in Session : /\ waiter[s].at = "ended" => waiter'[s].at = "ended"
                        /\ excused[s] \subseteq excused'[s]

LEMMA LastStays ==
  ASSUME IndInv, LastInv, EndsStay, wire' \in [Client -> Seq(Message)],
         \A c \in Client : \A i \in 1 .. Len(wire'[c]) :
           (i \in 1 .. Len(wire[c]) /\ wire'[c][i] = wire[c][i]) \/ (i > Len(wire[c]) /\ Follows(wire'[c][i]))
  PROVE  LastInv'
<1> SUFFICES ASSUME NEW c \in Client, NEW i \in 1 .. Len(wire'[c]), wire'[c][i].k = "Exit",
                    wire'[c][i].s \notin closed'
             PROVE  /\ waiter'[wire'[c][i].s].at = "ended"
                    /\ \A j \in i + 1 .. Len(wire'[c]) :
                         Chunks(wire'[c][j], wire'[c][i].s) \subseteq excused'[wire'[c][i].s]
  BY DEF LastInv, Chunks
<1>1. /\ wire[c] \in Seq(Message) /\ wire'[c] \in Seq(Message) /\ Len(wire[c]) \in Nat
      /\ Len(wire'[c]) \in Nat
  BY DEF IndInv, Types, WireTypes
<1>2. PICK m \in Message : m = wire'[c][i]
  BY <1>1
<1>3. PICK s \in Session : s = m.s
  BY <1>2 DEF Message
<1>4. waiter'[s].at = "ended"
  <2>1. CASE i \in 1 .. Len(wire[c]) /\ wire'[c][i] = wire[c][i]
    BY <1>2, <1>3, <2>1 DEF LastInv, EndsStay
  <2>2. CASE Follows(wire'[c][i])
    BY <1>2, <1>3, <2>2 DEF Follows
  <2> QED BY <2>1, <2>2
<1>5. ASSUME NEW j \in i + 1 .. Len(wire'[c]) PROVE Chunks(wire'[c][j], s) \subseteq excused'[s]
  <2>1. j \in 1 .. Len(wire'[c])
    BY <1>1
  <2>2. CASE Follows(wire'[c][j])
    BY <1>2, <1>3, <1>4, <2>2 DEF Follows
  <2>3. CASE j \in 1 .. Len(wire[c]) /\ wire'[c][j] = wire[c][j]
    <3>1. i \in 1 .. Len(wire[c]) /\ j \in i + 1 .. Len(wire[c]) /\ wire'[c][i] = wire[c][i]
      BY <1>1, <2>3
    <3>2. Chunks(wire[c][j], s) \subseteq excused[s]
      BY <1>2, <1>3, <3>1 DEF LastInv, EndsStay
    <3> QED BY <2>3, <3>2 DEF EndsStay
  <2> QED BY <2>1, <2>2, <2>3
<1> QED BY <1>2, <1>3, <1>4, <1>5

(* The frames that are there come nearer, or go.                           *)
LEMMA LastComes ==
  ASSUME IndInv, LastInv, EndsStay,
         \A c \in Client : wire'[c] = wire[c] \/ wire'[c] = <<>> \/ (conn[c] = "up" /\ wire[c] # <<>> /\ Received(c))
  PROVE  LastInv'
<1> SUFFICES ASSUME NEW c \in Client PROVE
       \A i \in 1 .. Len(wire'[c]) : wire'[c][i].k = "Exit" /\ wire'[c][i].s \notin closed' =>
         /\ waiter'[wire'[c][i].s].at = "ended"
         /\ \A j \in i + 1 .. Len(wire'[c]) :
              Chunks(wire'[c][j], wire'[c][i].s) \subseteq excused'[wire'[c][i].s]
  BY DEF LastInv, Chunks
<1>1. wire[c] \in Seq(Message) /\ Len(wire[c]) \in Nat
  BY DEF IndInv, Types, WireTypes
<1>2. ASSUME NEW n \in {0, 1}, Len(wire'[c]) \in Nat, Len(wire'[c]) + n <= Len(wire[c]),
             \A i \in 1 .. Len(wire'[c]) : wire'[c][i] = wire[c][i + n]
      PROVE  \A i \in 1 .. Len(wire'[c]) :
               wire'[c][i].k = "Exit" /\ wire'[c][i].s \notin closed' =>
               /\ waiter'[wire'[c][i].s].at = "ended"
               /\ \A j \in i + 1 .. Len(wire'[c]) :
                    Chunks(wire'[c][j], wire'[c][i].s) \subseteq excused'[wire'[c][i].s]
  <2> SUFFICES ASSUME NEW i \in 1 .. Len(wire'[c]), wire'[c][i].k = "Exit",
                      wire'[c][i].s \notin closed'
               PROVE  /\ waiter'[wire'[c][i].s].at = "ended"
                      /\ \A j \in i + 1 .. Len(wire'[c]) :
                           Chunks(wire'[c][j], wire'[c][i].s) \subseteq excused'[wire'[c][i].s]
    OBVIOUS
  <2>1. PICK k \in 1 .. Len(wire[c]) : k = i + n
    BY <1>1, <1>2
  <2>2. PICK m \in Message : m = wire[c][k]
    BY <1>1, <2>1
  <2>3. wire'[c][i] = m
    BY <1>2, <2>1, <2>2
  <2>4. PICK s \in Session : s = m.s
    BY <2>3 DEF Message
  <2>5. s \notin closed /\ m.k = "Exit"
    BY <2>3, <2>4 DEF EndsStay
  <2>6. /\ waiter[s].at = "ended"
        /\ \A j \in k + 1 .. Len(wire[c]) : Chunks(wire[c][j], s) \subseteq excused[s]
    BY <2>2, <2>4, <2>5 DEF LastInv
  <2>7. waiter'[s].at = "ended" /\ excused[s] \subseteq excused'[s]
    BY <2>6 DEF EndsStay
  <2>8. ASSUME NEW j \in i + 1 .. Len(wire'[c]) PROVE Chunks(wire'[c][j], s) \subseteq excused'[s]
    <3>1. j \in 1 .. Len(wire'[c])
      BY <1>2
    <3>2. PICK l \in Nat : l = j + n
      BY <1>2, <3>1
    <3>3. l \in k + 1 .. Len(wire[c])
      BY <1>1, <1>2, <2>1, <3>1, <3>2
    <3>4. wire'[c][j] = wire[c][l]
      BY <1>2, <3>1, <3>2
    <3> QED BY <2>6, <2>7, <3>3, <3>4
  <2> QED BY <2>3, <2>4, <2>7, <2>8
<1>3. CASE wire'[c] = wire[c]
  <2>1. \A i \in 1 .. Len(wire'[c]) : wire'[c][i] = wire[c][i + 0]
    <3> SUFFICES ASSUME NEW i \in 1 .. Len(wire'[c]) PROVE wire'[c][i] = wire[c][i + 0]
      OBVIOUS
    <3>1. i + 0 = i
      BY <1>1, <1>3
    <3> QED BY <1>3, <3>1
  <2>2. Len(wire'[c]) \in Nat /\ Len(wire'[c]) + 0 <= Len(wire[c])
    BY <1>1, <1>3
  <2> QED BY <1>2, <2>1, <2>2
<1>4. CASE wire'[c] = <<>>
  BY <1>4
<1>5. CASE conn[c] = "up" /\ wire[c] # <<>> /\ Received(c)
  <2>1. /\ Len(wire'[c]) = Len(wire[c]) - 1
        /\ \A i \in 1 .. Len(wire'[c]) : wire'[c][i] = wire[c][i + 1]
    BY <1>5, Frame
  <2>2. Len(wire[c]) # 0
    BY <1>1, <1>5
  <2>3. Len(wire'[c]) \in Nat /\ Len(wire'[c]) + 1 <= Len(wire[c])
    BY <1>1, <2>1, <2>2
  <2> QED BY <1>2, <2>1, <2>3
<1> QED BY <1>3, <1>4, <1>5

LEMMA SameLast ==
  ASSUME IndInv, LastInv, EndsStay, UNCHANGED wire
  PROVE  LastInv'
BY LastComes

(* One frame is fanned out. *)
LEMMA FanLast ==
  ASSUME IndInv, LastInv, EndsStay, NEW t \in Session, NEW msg \in Message, msg.s = t,
         fanOut(t, msg), Follows(msg)
  PROVE  LastInv'
<1>1. WireTypes /\ \A c \in Client : wire[c] \in Seq(Message) /\ Len(wire[c]) \in Nat
  BY DEF IndInv, Types, WireTypes
<1>2. wire' \in [Client -> Seq(Message)]
  BY <1>1, FanOutKeeps
<1>3. ASSUME NEW c \in Client, NEW i \in 1 .. Len(wire'[c])
      PROVE  \/ (i \in 1 .. Len(wire[c]) /\ wire'[c][i] = wire[c][i])
             \/ (i > Len(wire[c]) /\ Follows(wire'[c][i]))
  <2>1. wire'[c] = wire[c] \/ wire'[c] = Append(wire[c], msg)
    BY <1>1, FanOutIs
  <2>2. CASE wire'[c] = Append(wire[c], msg)
    <3>1. i \in 1 .. Len(wire[c]) \/ i = Len(wire[c]) + 1
      BY <1>1, <2>2
    <3>2. CASE i \in 1 .. Len(wire[c])
      BY <1>1, <2>2, <3>2
    <3>3. CASE i = Len(wire[c]) + 1
      <4>1. wire'[c][i] = msg
        BY <1>1, <2>2, <3>3
      <4> QED BY <1>1, <3>3, <4>1
    <3> QED BY <3>1, <3>2, <3>3
  <2> QED BY <2>1, <2>2
<1> QED BY <1>2, <1>3, LastStays

LEMMA ThreadEnds ==
  ASSUME IndInv, AppInv, LineInv, NEW t \in Session, threadOf(t)
  PROVE  EndsStay
<1>1. ThreadStill /\ HistoryGoes
  BY ThreadStands, ThreadKept
<1>2. DOMAIN waiter = Session
  BY WaiterIs
<1>3. ASSUME NEW s \in Session, waiter[s].at = "ended" PROVE waiter'[s].at = "ended"
  <2>1. CASE shellWrites(t) \/ shellEnds(t) \/ flusherTakes(t) \/ flusherAppends(t)
    BY <1>3, <2>1 DEF shellWrites, shellEnds, flusherTakes, flusherAppends
  <2>2. CASE flusherFansOut(t) \/ sessionDrop(t) \/ dropThread(t)
    BY <1>3, <2>2 DEF flusherFansOut, sessionDrop, dropThread, threads
  <2>3. CASE waiterTakes(t)
    BY <1>2, <1>3, <2>3 DEF waiterTakes
  <2>4. CASE waiterFansOut(t)
    BY <1>2, <1>3, <2>4 DEF waiterFansOut
  <2>5. CASE sinkExit(t)
    BY <1>2, <1>3, <2>5 DEF sinkExit
  <2> QED BY <2>1, <2>2, <2>3, <2>4, <2>5 DEF threadOf, threadStep
<1> QED BY <1>1, <1>3 DEF EndsStay, ThreadStill, HistoryGoes

LEMMA ThreadLast ==
  ASSUME IndInv, AppInv, LineInv, LastInv, NEW t \in Session, threadOf(t)
  PROVE  LastInv'
<1>1. EndsStay
  BY ThreadEnds
<1>2. /\ DOMAIN waiter = Session /\ flusher[t].chunk \in Seq(Chunk)
      /\ waiter[t].chunk \in Seq(Chunk)
      /\ waiter[t].at \in {"rest", "appended", "tailed", "ended"}
  BY DEF IndInv, Types, ThreadTypes
<1>3. CASE flusherFansOut(t)
  <2> DEFINE m == [k |-> "Data", s |-> t, chunk |-> flusher[t].chunk]
  <2>1. fanOut(t, m) /\ flusher[t].at = "appended" /\ UNCHANGED <<waiter, excused, closed>>
    BY <1>3 DEF flusherFansOut
  <2>2. m \in Message /\ m.s = t /\ m.k = "Data" /\ m.chunk = flusher[t].chunk
    BY <1>2 DEF Message
  <2>3. waiter[t].at = "ended" => ToSet(flusher[t].chunk) \subseteq excused[t]
    BY <2>1 DEF LineInv, Line, Taken
  <2> HIDE DEF m
  <2>4. Follows(m)
    BY <2>1, <2>2, <2>3 DEF Follows, Chunks
  <2> QED BY <1>1, <2>1, <2>2, <2>4, FanLast
<1>4. CASE waiterFansOut(t)
  <2> DEFINE m == [k |-> "Data", s |-> t, chunk |-> waiter[t].chunk]
  <2>1. fanOut(t, m) /\ waiter'[t].at = "tailed"
    BY <1>2, <1>4 DEF waiterFansOut
  <2>2. m \in Message /\ m.s = t /\ m.k = "Data"
    BY <1>2 DEF Message
  <2> HIDE DEF m
  <2>3. Follows(m)
    BY <2>1, <2>2 DEF Follows, Chunks
  <2> QED BY <1>1, <2>1, <2>2, <2>3, FanLast
<1>5. CASE sinkExit(t)
  <2> DEFINE m == [k |-> "Exit", s |-> t]
  <2>1. (fanOut(t, m) \/ UNCHANGED wire) /\ waiter'[t].at = "ended"
    BY <1>2, <1>5 DEF sinkExit
  <2>2. m \in Message /\ m.s = t /\ m.k = "Exit"
    BY DEF Message
  <2> HIDE DEF m
  <2>3. Follows(m)
    BY <2>1, <2>2 DEF Follows, Chunks
  <2>4. CASE fanOut(t, m)
    BY <1>1, <2>2, <2>3, <2>4, FanLast
  <2> QED BY <1>1, <2>1, <2>4, SameLast
<1>6. CASE \/ shellWrites(t) \/ shellEnds(t) \/ flusherTakes(t) \/ flusherAppends(t)
           \/ waiterTakes(t)
           \/ sessionDrop(t) \/ dropThread(t)
  <2>1. UNCHANGED wire
    BY <1>6 DEF shellWrites, shellEnds, flusherTakes, flusherAppends, waiterTakes,
       sessionDrop, dropThread, wires
  <2> QED BY <1>1, <2>1, SameLast
<1> QED BY <1>3, <1>4, <1>5, <1>6 DEF threadOf, threadStep

(* SetToSeq puts every element in the sequence.                            *)
LEMMA SetToSeqHas ==
  ASSUME NEW S, IsFiniteSet(S), NEW x \in S
  PROVE  \E j \in 1 .. Len(SetToSeq(S)) : SetToSeq(S)[j] = x
<1>1. Cardinality(S) \in Nat /\ ExistsBijection(1 .. Cardinality(S), S)
  BY FS_CardinalityType
<1>2. PICK n \in Nat : n = Cardinality(S)
  BY <1>1
<1>3. PICK f : f \in Bijection(1 .. n, S)
  BY <1>1, <1>2 DEF ExistsBijection
<1>4. f \in [1 .. n -> S] /\ IsInjective(f)
  BY <1>3 DEF Bijection, Injection, IsInjective
<1>5. SetToSeq(S) \in [1 .. n -> S] /\ IsInjective(SetToSeq(S))
  BY <1>2, <1>4 DEF SetToSeq
<1>6. PICK g \in [1 .. n -> S] : g = SetToSeq(S) /\ IsInjective(g)
  BY <1>5
<1>7. g \in Injection(1 .. n, S)
  BY <1>6 DEF Injection, IsInjective
<1>8. Cardinality(1 .. n) = Cardinality(S)
  BY <1>2, FS_Interval
<1>9. g \in Surjection(1 .. n, S)
  BY <1>7, <1>8, FS_Injection
<1>10. \E j \in 1 .. n : g[j] = x
  BY <1>9 DEF Surjection
<1>11. Len(g) = n
  BY <1>6
<1> QED BY <1>6, <1>10, <1>11

(* What is sent to a client that is up arrives, or its stream is marked.   *)
LEMMA TrySendGets ==
  ASSUME WireTypes, NEW msgs \in [Client -> Seq(Message)], trySend(msgs), NEW c \in Client,
         conn[c] = "up",
         NEW j \in 1 .. Len(msgs[c]), msgs[c][j].s \in Session
  PROVE  \/ (\E i \in 1 .. Len(wire'[c]) : wire'[c][i] = msgs[c][j])
         \/ <<c, msgs[c][j].s>> \in saturated'
<1> DEFINE all == wire[c] \o msgs[c]
           n == Min({Len(all), WRITER_QUEUE})
<1>1. /\ wire[c] \in Seq(Message) /\ msgs[c] \in Seq(Message) /\ Len(wire[c]) \in Nat
      /\ Len(msgs[c]) \in Nat
  BY DEF WireTypes
<1>2. /\ wire'[c] = SubSeq(all, 1, n)
      /\ saturated' = saturated \cup overflows(msgs)
  BY DEF trySend
<1>3. /\ all \in Seq(Message) /\ Len(all) = Len(wire[c]) + Len(msgs[c])
      /\ all[Len(wire[c]) + j] = msgs[c][j]
  BY <1>1
<1>4. WRITER_QUEUE \in Nat
  BY PtyDaemonAssumption
<1>5. CASE Len(wire[c]) + Len(msgs[c]) > WRITER_QUEUE
  <2>1. <<c, msgs[c][j].s>> \in overflows(msgs)
    BY <1>5 DEF overflows
  <2> QED BY <1>2, <2>1
<1>6. CASE ~(Len(wire[c]) + Len(msgs[c]) > WRITER_QUEUE)
  <2> HIDE DEF all
  <2>1. n = Len(all)
    <3>1. Len(all) \in Nat /\ Len(all) <= WRITER_QUEUE
      BY <1>1, <1>3, <1>4, <1>6
    <3>2. n <= Len(all) /\ n \in {Len(all), WRITER_QUEUE}
      BY <1>4, <3>1, MinTwo
    <3> QED BY <1>4, <3>1, <3>2
  <2> HIDE DEF n
  <2>2. SubSeq(all, 1, n) = all
    BY <1>3, <2>1
  <2>3. wire'[c] = all
    BY <1>2, <2>2
  <2>4. Len(wire[c]) + j \in 1 .. Len(all)
    BY <1>1, <1>3
  <2> QED BY <1>3, <2>3, <2>4
<1> QED BY <1>5, <1>6

(* The frames that close_session adds are exits of what it closes, one for *)
(* every subscriber.                                                       *)
LEMMA ClosesFrames ==
  ASSUME IndInv, NEW S \in SUBSET Session, NEW kept, closeSessions(S, kept)
  PROVE  /\ \A c \in Client : \A i \in Len(wire[c]) + 1 .. Len(wire'[c]) :
              wire'[c][i].k = "Exit" /\ wire'[c][i].s \in S
         /\ \A c \in Client, s \in S : conn[c] = "up" /\ c \in subscribers[s] =>
              ExitOn(wire'[c], s) \/ <<c, s>> \in saturated'
<1> USE WireFacts
<1> DEFINE on(c) == {s \in S : c \in subscribers[s]}
           exits(c) == {[k |-> "Exit", s |-> s] : s \in on(c)}
           msgs == [c \in Client |-> SetToSeq(exits(c))]
<1>1. trySend(msgs)
  BY DEF closeSessions
<1>2. ASSUME NEW c \in Client
      PROVE  /\ IsFiniteSet(exits(c)) /\ exits(c) \subseteq Message
             /\ \A m \in exits(c) : m.k = "Exit" /\ m.s \in S
             /\ \A s \in S : c \in subscribers[s] => [k |-> "Exit", s |-> s] \in exits(c)
  <2>1. IsFiniteSet(on(c))
    <3>1. IsFiniteSet(Session) /\ on(c) \subseteq Session
      BY SessionsFinite
    <3> HIDE DEF on
    <3> QED BY <3>1, FS_Subset
  <2> DEFINE f == [s \in on(c) |-> [k |-> "Exit", s |-> s]]
  <2>2. f \in Surjection(on(c), exits(c))
    BY DEF Surjection
  <2>3. IsFiniteSet(exits(c))
    BY <2>1, <2>2, FS_Surjection
  <2>4. \A s \in on(c) : s \in Session /\ s \in S
    OBVIOUS
  <2>5. \A s \in S : c \in subscribers[s] => s \in on(c)
    OBVIOUS
  <2> HIDE DEF on
  <2>6. exits(c) \subseteq Message
    BY <2>4 DEF Message
  <2> QED BY <2>3, <2>4, <2>5, <2>6
<1> HIDE DEF exits
<1>3. ASSUME NEW c \in Client
      PROVE  /\ msgs[c] \in Seq(exits(c)) /\ msgs[c] \in Seq(Message)
             /\ \A j \in 1 .. Len(msgs[c]) : msgs[c][j] \in exits(c)
             /\ \A m \in exits(c) : \E j \in 1 .. Len(msgs[c]) : msgs[c][j] = m
  <2>1. msgs[c] \in Seq(exits(c))
    BY <1>2, SetToSeqIs
  <2>2. \A m \in exits(c) : \E j \in 1 .. Len(msgs[c]) : msgs[c][j] = m
    BY <1>2, SetToSeqHas
  <2> HIDE DEF msgs
  <2>3. msgs[c] \in Seq(Message)
    BY <1>2, <2>1
  <2>4. \A j \in 1 .. Len(msgs[c]) : msgs[c][j] \in exits(c)
    BY <2>1
  <2> QED BY <2>1, <2>2, <2>3, <2>4, Zenon
<1>4. msgs \in [Client -> Seq(Message)]
  BY <1>3
<1> HIDE DEF msgs
<1>5. ASSUME NEW c \in Client, NEW i \in Len(wire[c]) + 1 .. Len(wire'[c])
      PROVE  wire'[c][i].k = "Exit" /\ wire'[c][i].s \in S
  <2>1. PICK j \in 1 .. Len(msgs[c]) : wire'[c][i] = msgs[c][j]
    BY <1>1, <1>4, TrySendIs
  <2> QED BY <1>2, <1>3, <2>1
<1>6. ASSUME NEW c \in Client, NEW s \in S, conn[c] = "up", c \in subscribers[s]
      PROVE  ExitOn(wire'[c], s) \/ <<c, s>> \in saturated'
  <2>1. PICK j \in 1 .. Len(msgs[c]) : msgs[c][j] = [k |-> "Exit", s |-> s]
    BY <1>2, <1>3, <1>6
  <2>2. msgs[c][j].k = "Exit" /\ msgs[c][j].s = s /\ s \in Session
    BY <2>1
  <2>3. (\E i \in 1 .. Len(wire'[c]) : wire'[c][i] = msgs[c][j]) \/ <<c, s>> \in saturated'
    BY <1>1, <1>4, <1>6, <2>2, TrySendGets
  <2> QED BY <2>2, <2>3 DEF ExitOn
<1> QED BY <1>5, <1>6

LEMMA DispatchEnds ==
  ASSUME IndInv, NEW c \in Client, dispatchStep(c)
  PROVE  EndsStay
<1>1. CASE openReserves(c)
  <2>1. closeSessions(reapable, map') /\ UNCHANGED <<waiter, excused>>
    BY <1>1, ReservesIs
  <2> QED BY <2>1 DEF EndsStay, closeSessions
<1>2. CASE openSpawns(c) \/ openSpawnFails(c) \/ openFills(c)
  BY <1>2 DEF openSpawns, openSpawnFails, openFills, history, threads, EndsStay
<1>3. CASE attachCopies(c) \/ attachSubscribes(c)
  BY <1>3 DEF attachCopies, attachSubscribes, history, threads, EndsStay
<1>4. CASE serveClose(c) \/ serveKillAll(c)
  BY <1>4 DEF serveClose, serveKillAll, closeSessions, EndsStay
<1>5. CASE reply(c) \/ unsubscribe(c)
  BY <1>5 DEF reply, unsubscribe, history, threads, EndsStay
<1> QED BY <1>1, <1>2, <1>3, <1>4, <1>5 DEF dispatchStep

LEMMA ClosesLast ==
  ASSUME IndInv, LastInv, EndsStay, NEW S \in SUBSET map, NEW kept, closeSessions(S, kept)
  PROVE  LastInv'
<1>1. S \in SUBSET Session /\ \A c \in Client : Len(wire[c]) \in Nat
  BY DispatchFacts DEF WireTypes
<1>2. wire' \in [Client -> Seq(Message)] /\ WireAdds /\ closed' = closed \cup S
  BY <1>1, CloseWires, CloseAdds, CloseTypes
<1>3. ASSUME NEW c \in Client, NEW i \in 1 .. Len(wire'[c])
      PROVE  \/ (i \in 1 .. Len(wire[c]) /\ wire'[c][i] = wire[c][i])
             \/ (i > Len(wire[c]) /\ Follows(wire'[c][i]))
  <2>1. CASE i \in 1 .. Len(wire[c])
    BY <1>2, <2>1 DEF WireAdds
  <2>2. CASE i \in Len(wire[c]) + 1 .. Len(wire'[c])
    <3>1. wire'[c][i].k = "Exit" /\ wire'[c][i].s \in closed'
      BY <1>1, <1>2, <2>2, ClosesFrames
    <3>2. i > Len(wire[c])
      BY <1>1, <2>2
    <3> QED BY <3>1, <3>2 DEF Follows, Chunks
  <2> QED BY <1>1, <2>1, <2>2
<1> QED BY <1>2, <1>3, LastStays

LEMMA DispatchLast ==
  ASSUME IndInv, AppInv, ReplyInv, LastInv, NEW c \in Client, dispatchStep(c)
  PROVE  LastInv'
<1>1. EndsStay
  BY DispatchEnds
<1>2. CASE openReserves(c)
  <2>1. closeSessions(reapable, map')
    BY <1>2, ReservesIs
  <2>2. reapable \in SUBSET map
    BY ReapableEnded
  <2> QED BY <1>1, <2>1, <2>2, ClosesLast
<1>3. CASE serveClose(c)
  <2>1. PICK S \in SUBSET map : closeSessions(S, map \ S)
    BY <1>3 DEF serveClose
  <2> QED BY <1>1, <2>1, ClosesLast
<1>4. CASE serveKillAll(c)
  <2>1. closeSessions(map, {})
    BY <1>4 DEF serveKillAll
  <2> QED BY <1>1, <2>1, ClosesLast
<1>5. CASE reply(c)
  <2>1. ReplyStill(c)
    BY <1>5, ReplyApp
  <2>2. /\ dispatch[c].msg.k \in {"OpenOk", "AttachOk", "Err", "Killed"}
        /\ dispatch[c].msg \in Message
        /\ wire' = IF conn[c] = "up" THEN [wire EXCEPT ![c] = Append(@, dispatch[c].msg)] ELSE wire
    BY <2>1, Serving DEF ReplyStill, ReplyInv
  <2>3. PICK m \in Message : m = dispatch[c].msg
    BY <2>2
  <2>4. Follows(m)
    BY <2>2, <2>3 DEF Follows, Chunks
  <2>5. wire \in [Client -> Seq(Message)] /\ \A d \in Client : Len(wire[d]) \in Nat
    BY DEF IndInv, Types, WireTypes
  <2>6. CASE wire' = [wire EXCEPT ![c] = Append(@, m)]
    <3>1. /\ wire' \in [Client -> Seq(Message)] /\ wire'[c] = Append(wire[c], m)
          /\ \A d \in Client : d # c => wire'[d] = wire[d]
      BY <2>5, <2>6
    <3>2. ASSUME NEW d \in Client, NEW i \in 1 .. Len(wire'[d])
          PROVE  \/ (i \in 1 .. Len(wire[d]) /\ wire'[d][i] = wire[d][i])
                 \/ (i > Len(wire[d]) /\ Follows(wire'[d][i]))
      <4>1. CASE d # c
        BY <3>1, <4>1
      <4>2. CASE d = c /\ i \in 1 .. Len(wire[c])
        BY <2>5, <3>1, <4>2
      <4>3. CASE d = c /\ i = Len(wire[c]) + 1
        <5>1. wire'[d][i] = m
          BY <2>5, <3>1, <4>3
        <5> QED BY <2>4, <2>5, <4>3, <5>1
      <4>4. d = c => i \in 1 .. Len(wire[c]) \/ i = Len(wire[c]) + 1
        BY <2>5, <3>1
      <4> QED BY <4>1, <4>2, <4>3, <4>4
    <3> QED BY <1>1, <3>1, <3>2, LastStays
  <2> QED BY <1>1, <2>2, <2>3, <2>6, SameLast
<1>6. CASE \/ openSpawns(c) \/ openSpawnFails(c) \/ openFills(c) \/ attachCopies(c)
           \/ attachSubscribes(c) \/ unsubscribe(c)
  <2>1. UNCHANGED wire
    BY <1>6 DEF openSpawns, openSpawnFails, openFills, attachCopies, attachSubscribes,
       unsubscribe, wires
  <2> QED BY <1>1, <2>1, SameLast
<1> QED BY <1>2, <1>3, <1>4, <1>5, <1>6 DEF dispatchStep

LEMMA ConnEnds == ASSUME IndInv, connStep, LineInv, ConnStill PROVE EndsStay
<1>1. UNCHANGED <<excused, closed>>
  BY DEF ConnStill
<1>2. CASE \E c \in Client : connect(c) \/ accept(c) \/ unsubscribe(c)
  BY <1>1, <1>2 DEF connect, accept, unsubscribe, threads, EndsStay
<1>3. CASE idle_watcher \/ acceptWake \/ Resumes
  BY <1>1, <1>3 DEF idle_watcher, acceptWake, Resumes, threads, EndsStay
<1>4. CASE Exits
  BY <1>1, <1>4 DEF Exits, EndsStay
<1> QED BY <1>2, <1>3, <1>4 DEF connStep, shutdownCheck

LEMMA ConnLast == ASSUME IndInv, LineInv, LastInv, connStep, ConnStill PROVE LastInv'
<1>1. EndsStay
  BY ConnEnds
<1>2. UNCHANGED wire
  BY DEF ConnStill
<1> QED BY <1>1, <1>2, SameLast


----------------------------------------------------------------------------
(* The end of a session that is not alive is on its way or has been heard. *)

(* A session that a pane has opened, or is opening, is in the map or was   *)
(* closed; and its end is on the wire or has been heard.                   *)
EndOf(c, s) == s \in map \cup closed /\ (alive[s] = FALSE => Ended(c, s))
EndInv == \A c \in Client, s \in Session : Clean(c, s) /\ Whole(c, s) => EndOf(c, s)

LEMMA EndNext ==
  ASSUME NEW c, NEW s, EndOf(c, s), s \in map' \cup closed',
         alive'[s] = FALSE => alive[s] = FALSE \/ Ended(c, s)',
         Ended(c, s) => Ended(c, s)'
  PROVE  EndOf(c, s)'
BY DEF EndOf

LEMMA WholeJoined ==
  ASSUME NEW c \in Client, NEW s \in Session, Whole(c, s)
  PROVE  Joined(c, s)
<1>1. CASE channels[c][s] # None
  BY <1>1 DEF Joined, InApp
<1>2. CASE channels[c][s] = None
  <2>1. Fresh(c, s)
    BY <1>2 DEF Whole
  <2>2. ASSUME NEW i \in Nat, OpenAt(c, i, s) PROVE Joined(c, s)
    <3>1. CASE i = 0 /\ dispatch[c].at \in {"spawn", "fill"} /\ dispatch[c].s = s
      BY <3>1 DEF Joined, InHand
    <3>2. CASE /\ i = 0 /\ dispatch[c].at = "reply" /\ dispatch[c].msg.k = "OpenOk"
               /\ dispatch[c].msg.s = s
      BY <3>2 DEF Joined, InHand, Opens
    <3>3. CASE i \in 1 .. Len(wire[c]) /\ wire[c][i].k = "OpenOk" /\ wire[c][i].s = s
      BY <3>3 DEF Joined, OnWire
    <3> QED BY <2>2, <3>1, <3>2, <3>3 DEF OpenAt
  <2>3. ASSUME NEW p \in Pane, pane[p].at = "answered", pane[p].c = c, pane[p].s = s
        PROVE  Joined(c, s)
    BY <2>3 DEF Joined, InApp
  <2> QED BY <2>1, <2>2, <2>3 DEF Fresh
<1> QED BY <1>1, <1>2

(* The client of such a session is subscribed to it, as long as it is in   *)
(* the map.                                                                *)
LEMMA WholeOn ==
  ASSUME IndInv, SubInv, NEW c \in Client, NEW s \in Session, Clean(c, s), Joined(c, s), s \in map
  PROVE  On(c, s)
<1>1. Held(s)
  BY DEF Held
<1> QED BY <1>1 DEF SubInv, Clean, On

(* Frames that are added leave what was ended.                             *)
LEMMA EndedAdds ==
  ASSUME WireAdds, NEW c \in Client, NEW s, Buffer(c, s)' = Buffer(c, s)
  PROVE  Ended(c, s) => Ended(c, s)'
<1>1. ASSUME ExitOn(wire[c], s) PROVE ExitOn(wire'[c], s)
  <2>1. PICK i \in 1 .. Len(wire[c]) : wire[c][i].k = "Exit" /\ wire[c][i].s = s
    BY <1>1 DEF ExitOn
  <2>2. i \in 1 .. Len(wire'[c]) /\ wire'[c][i] = wire[c][i]
    BY <2>1 DEF WireAdds
  <2> QED BY <2>1, <2>2 DEF ExitOn
<1> QED BY <1>1 DEF Ended

LEMMA ThreadEnd ==
  ASSUME IndInv, AppInv, SubInv, EndInv, NEW t \in Session, threadOf(t)
  PROVE  EndInv'
<1>1. ThreadStill
  BY ThreadStands
<1>2. WireAdds /\ UNCHANGED <<map, closed, conn>>
  BY <1>1 DEF ThreadStill
<1> SUFFICES ASSUME NEW c \in Client, NEW s \in Session, Clean(c, s)', Whole(c, s)'
             PROVE  EndOf(c, s)'
  BY Zenon DEF EndInv
<1>3. Clean(c, s) /\ Whole(c, s) /\ Buffer(c, s)' = Buffer(c, s) /\ <<c, s>> \notin saturated'
  BY <1>1, ThreadApps DEF Clean
<1>4. EndOf(c, s)
  BY <1>3 DEF EndInv
<1>5. Ended(c, s) => Ended(c, s)'
  BY <1>2, <1>3, EndedAdds
<1>6. alive'[s] = FALSE => alive[s] = FALSE \/ Ended(c, s)'
  <2>1. CASE sinkExit(t)
    <3>1. /\ IF Held(t) THEN alive' = [alive EXCEPT ![t] = FALSE] /\ fanOut(t, [k |-> "Exit", s |-> t])
             ELSE UNCHANGED alive
      BY <2>1 DEF sinkExit
    <3>2. DOMAIN alive = Session
      BY WaiterIs
    <3>3. CASE alive'[s] = alive[s]
      BY <3>3
    <3>4. CASE alive'[s] # alive[s]
      <4>1. s = t /\ Held(s) /\ fanOut(s, [k |-> "Exit", s |-> s])
        BY <3>1, <3>2, <3>4
      <4>2. c \in subscribers[s] /\ conn[c] = "up"
        BY <1>3, <4>1, WholeJoined DEF SubInv, Clean
      <4>3. [k |-> "Exit", s |-> s] \in Message
        BY DEF Message
      <4>4. wire'[c] = Append(wire[c], [k |-> "Exit", s |-> s])
        BY <1>3, <4>1, <4>2, <4>3, WireFacts, FanOutIs
      <4>5. wire[c] \in Seq(Message) /\ Len(wire[c]) \in Nat
        BY WireFacts
      <4>6. /\ Len(wire[c]) + 1 \in 1 .. Len(wire'[c])
            /\ wire'[c][Len(wire[c]) + 1] = [k |-> "Exit", s |-> s]
        BY <4>4, <4>5
      <4>7. ExitOn(wire'[c], s)
        BY <4>6 DEF ExitOn
      <4> QED BY <4>7 DEF Ended
    <3> QED BY <3>3, <3>4
  <2>2. CASE ~sinkExit(t)
    <3>1. UNCHANGED alive
      BY <2>2 DEF threadOf, threadStep, shellWrites, shellEnds, flusherTakes,
         flusherAppends, flusherFansOut,
         waiterTakes, waiterFansOut, sessionDrop, dropThread, daemon
    <3> QED BY <3>1
  <2> QED BY <2>1, <2>2
<1>7. s \in map' \cup closed'
  BY <1>2, <1>4 DEF EndOf
<1> QED BY <1>4, <1>5, <1>6, <1>7, EndNext

(* What a dispatcher leaves to the app.                                    *)
LEMMA DispatchWhole ==
  ASSUME IndInv, NEW c \in Client, DispatchStill(c), NEW d \in Client, NEW s \in Session,
         Clean(d, s)',
         OpenAt(d, 0, s)' => OpenAt(d, 0, s)
  PROVE  Clean(d, s) /\ (Whole(d, s)' => Whole(d, s)) /\ (Ended(d, s) => Ended(d, s)')
<1>1. WireAdds /\ UNCHANGED <<channels, early, pane, view>>
  BY DEF DispatchStill, app
<1>2. Clean(d, s)
  BY DispatchClean
<1>3. \A i \in Nat : OpenAt(d, i, s)' => OpenAt(d, i, s)
  BY <1>1, OpenLess
<1>4. Whole(d, s)' => Whole(d, s)
  BY <1>1, <1>3, WholeStays
<1>5. Buffer(d, s)' = Buffer(d, s)
  BY <1>1, BufferSame
<1> QED BY <1>1, <1>2, <1>4, <1>5, EndedAdds

(* close_session leaves no stream without its end.                         *)
LEMMA ClosesEnd ==
  ASSUME IndInv, SubInv, NEW S \in SUBSET map, NEW kept, closeSessions(S, kept),
         map \ S \subseteq kept,
         NEW c \in Client, NEW s \in Session, Clean(c, s), Whole(c, s),
         <<c, s>> \notin saturated',
         EndOf(c, s), Ended(c, s) => Ended(c, s)'
  PROVE  EndOf(c, s)'
<1>1. /\ map' = kept /\ closed' = closed \cup S
      /\ s \notin S => alive'[s] = alive[s]
  BY CloseTypes
<1>2. s \in map' \cup closed'
  BY <1>1 DEF EndOf
<1>3. CASE s \in S
  <2>1. On(c, s) /\ conn[c] = "up"
    BY <1>3, WholeJoined, WholeOn DEF Clean
  <2>2. S \in SUBSET Session
    BY DispatchFacts
  <2>3. ExitOn(wire'[c], s) \/ <<c, s>> \in saturated'
    BY <1>3, <2>1, <2>2, ClosesFrames DEF On
  <2> QED BY <1>2, <2>3 DEF EndOf, Ended
<1>4. CASE s \notin S
  BY <1>1, <1>2, <1>4, EndNext
<1> QED BY <1>3, <1>4

LEMMA ServesEnd ==
  ASSUME IndInv, AppInv, SubInv, EndInv, NEW c \in Client,
         attachCopies(c) \/ attachSubscribes(c) \/ serveClose(c) \/ serveKillAll(c)
  PROVE  EndInv'
<1>1. DispatchStill(c)
  BY AttachApp, ServesApp
<1> SUFFICES ASSUME NEW d \in Client, NEW s \in Session, Clean(d, s)', Whole(d, s)'
             PROVE  EndOf(d, s)'
  BY Zenon DEF EndInv
<1>2. OpenAt(d, 0, s)' => OpenAt(d, 0, s)
  <2>1. CASE d # c
    BY <1>1, <2>1, OthersOpen
  <2>2. CASE d = c
    BY <2>2, ServesIs DEF OpenAt
  <2> QED BY <2>1, <2>2
<1>3. Clean(d, s) /\ Whole(d, s) /\ (Ended(d, s) => Ended(d, s)') /\ <<d, s>> \notin saturated'
  BY <1>1, <1>2, DispatchWhole DEF Clean
<1>4. EndOf(d, s)
  BY <1>3 DEF EndInv
<1>5. CASE attachCopies(c) \/ attachSubscribes(c)
  <2>1. UNCHANGED <<map, alive, closed>>
    BY <1>5 DEF attachCopies, attachSubscribes, history
  <2>2. s \in map' \cup closed'
    BY <1>4, <2>1 DEF EndOf
  <2> QED BY <1>3, <1>4, <2>1, <2>2, EndNext
<1>6. CASE serveClose(c)
  <2>1. PICK S \in SUBSET map : closeSessions(S, map \ S)
    BY <1>6 DEF serveClose
  <2> QED BY <1>3, <1>4, <2>1, ClosesEnd
<1>7. CASE serveKillAll(c)
  <2>1. closeSessions(map, {})
    BY <1>7 DEF serveKillAll
  <2> QED BY <1>3, <1>4, <2>1, ClosesEnd
<1> QED BY <1>5, <1>6, <1>7

LEMMA ReservesEnd ==
  ASSUME IndInv, AppInv, SubInv, EndInv, NEW c \in Client, openReserves(c)
  PROVE  EndInv'
<1>1. DispatchStill(c) /\ Reserves(c) /\ closeSessions(reapable, map') /\ opened \in Nat
  BY ReservesApp, ReservesIs
<1>2. reapable \in SUBSET map
  BY ReapableEnded
<1>3. map \ reapable \subseteq map' /\ (dispatch'[c].at = "spawn" => opened + 1 \in map')
  <2> DEFINE s == opened + 1
             kept == map \ reapable
             room == Cardinality(kept) < MAX_SESSIONS
  <2>2. map' = IF room THEN kept \cup {s} ELSE kept
    BY DEF openReserves, closeSessions
  <2>3. ~room => dispatch'[c].at = "reply"
    <3>1. ASSUME ~room PROVE Answer(c, [k |-> "Err", p |-> Head1(c).p])
      BY <3>1 DEF openReserves
    <3>2. DOMAIN dispatch = Client
      BY DispatchFacts
    <3> QED BY <3>1, <3>2 DEF Answer
  <2> HIDE DEF room
  <2> QED BY <2>2, <2>3
<1> SUFFICES ASSUME NEW d \in Client, NEW s \in Session, Clean(d, s)', Whole(d, s)'
             PROVE  EndOf(d, s)'
  BY Zenon DEF EndInv
<1>4. CASE s = opened + 1 /\ OpenAt(d, 0, s)' /\ d = c
  <2>1. dispatch'[c].at = "spawn"
    BY <1>1, <1>4 DEF Reserves, OpenAt
  <2>2. s \in map'
    BY <1>3, <1>4, <2>1
  <2>3. s > opened /\ s \notin map
    BY <1>1, <1>4 DEF IndInv, Types, DaemonTypes
  <2>4. alive'[s] = TRUE
    <3>1. alive[s] = TRUE
      BY <2>3 DEF IndInv, ShellInv
    <3> QED BY <1>1, <1>2, <2>3, <3>1, CloseTypes
  <2> QED BY <2>2, <2>4 DEF EndOf
<1>5. CASE ~(s = opened + 1 /\ OpenAt(d, 0, s)' /\ d = c)
  <2>1. OpenAt(d, 0, s)' => OpenAt(d, 0, s)
    <3>1. CASE d # c
      BY <1>1, <3>1, OthersOpen
    <3>2. CASE d = c
      BY <1>1, <1>5, <3>2 DEF Reserves, OpenAt
    <3> QED BY <3>1, <3>2
  <2>2. Clean(d, s) /\ Whole(d, s) /\ (Ended(d, s) => Ended(d, s)') /\ <<d, s>> \notin saturated'
    BY <1>1, <2>1, DispatchWhole DEF Clean
  <2>3. EndOf(d, s)
    BY <2>2 DEF EndInv
  <2> QED BY <1>1, <1>2, <1>3, <2>2, <2>3, ClosesEnd
<1> QED BY <1>4, <1>5

LEMMA SpawnsEnd ==
  ASSUME IndInv, AppInv, EndInv, NEW c \in Client,
         openSpawns(c) \/ openSpawnFails(c) \/ openFills(c)
  PROVE  EndInv'
<1>1. DispatchStill(c) /\ UNCHANGED <<alive, closed>>
  <2>1. UNCHANGED <<alive, closed>>
    BY DEF openSpawns, openSpawnFails, openFills, history
  <2> QED BY <2>1, SpawnsApp
<1> SUFFICES ASSUME NEW d \in Client, NEW s \in Session, Clean(d, s)', Whole(d, s)'
             PROVE  EndOf(d, s)'
  BY Zenon DEF EndInv
<1>2. OpenAt(d, 0, s)' => OpenAt(d, 0, s)
  <2>1. CASE d # c
    BY <1>1, <2>1, OthersOpen
  <2>2. CASE d = c
    BY <2>2, SpawnsIs DEF OpenAt
  <2> QED BY <2>1, <2>2
<1>3. Clean(d, s) /\ Whole(d, s) /\ (Ended(d, s) => Ended(d, s)')
  BY <1>1, <1>2, DispatchWhole
<1>4. EndOf(d, s)
  BY <1>3 DEF EndInv
<1>5. s \in map' \cup closed'
  <2>1. CASE openSpawns(c) \/ openFills(c)
    <3>1. UNCHANGED map
      BY <2>1 DEF openSpawns, openFills
    <3> QED BY <1>1, <1>4, <3>1 DEF EndOf
  <2>2. CASE openSpawnFails(c) /\ s # dispatch[c].s
    <3>1. map' = map \ {dispatch[c].s}
      BY <2>2 DEF openSpawnFails
    <3> QED BY <1>1, <1>4, <2>2, <3>1 DEF EndOf
  <2>3. CASE openSpawnFails(c) /\ s = dispatch[c].s
    <3>1. CASE s \in closed
      BY <1>1, <3>1
    <3>2. CASE s \in map
      <4>1. s \notin filled /\ dispatch[c].at = "spawn"
        BY <2>3, Spawning DEF openSpawnFails
      <4>2. s \notin Known
        BY <3>2, <4>1 DEF Known
      <4>3. DispatchInv /\ WireInv /\ PaneInv /\ dispatch \in [Client -> Dispatch]
        BY DispatchFacts
      <4>4. channels[d][s] = None
        <5>1. CASE channels[d][s] # None
          <6>1. /\ Has(channels[d][s], s) /\ channels[d][s] \in Pane
                /\ pane[channels[d][s]].at = "shown"
            <7>1. d \notin quitting
              BY <1>3 DEF Clean
            <7>2. pane[channels[d][s]].at = "shown"
              BY <1>3, <5>1 DEF Whole
            <7> QED BY <5>1, <7>1, <7>2, RouteIs
          <6> QED BY <4>2, <4>3, <6>1 DEF Has, PaneInv
        <5> QED BY <5>1
      <4>5. /\ UNCHANGED <<pane, channels>> /\ dispatch'[c].at = "reply"
            /\ dispatch'[c].msg.k = "Err"
        <5>1. dispatch'[c] = [at |-> "reply", msg |-> [k |-> "Err", p |-> dispatch[c].p]]
          BY <2>3, <4>3 DEF openSpawnFails, Answer
        <5> QED BY <1>1, <5>1 DEF DispatchStill, app
      <4>6. Fresh(d, s)'
        BY <4>4, <4>5 DEF Whole
      <4>7. CASE \E p \in Pane : pane[p].at = "answered" /\ pane[p].c = d /\ pane[p].s = s
        BY <4>2, <4>3, <4>7 DEF PaneInv
      <4>8. CASE \E i \in Nat : OpenAt(d, i, s)'
        <5>1. PICK i \in Nat : OpenAt(d, i, s)'
          BY <4>8
        <5>2. CASE d = c
          <6>1. ~OpenAt(d, 0, s)'
            BY <4>5, <5>2 DEF OpenAt
          <6>2. i # 0 /\ OpenAt(d, i, s)
            <7>1. WireAdds
              BY <1>1 DEF DispatchStill
            <7> QED BY <1>2, <5>1, <6>1, <7>1, OpenLess
          <6> QED BY <4>2, <4>3, <6>2 DEF OpenAt, WireInv, Opens
        <5>3. CASE d # c
          <6>1. OpenAt(d, i, s)
            <7>1. WireAdds
              BY <1>1 DEF DispatchStill
            <7> QED BY <1>2, <5>1, <7>1, OpenLess
          <6>2. ~(dispatch[d].at \in {"spawn", "fill"} /\ dispatch[d].s = s)
            BY <2>3, <4>1, <5>3, Spawning
          <6> QED BY <4>2, <4>3, <6>1, <6>2 DEF OpenAt, WireInv, DispatchInv, Opens
        <5> QED BY <5>2, <5>3
      <4> QED BY <4>5, <4>6, <4>7, <4>8 DEF Fresh
    <3> QED BY <1>4, <3>1, <3>2 DEF EndOf
  <2> QED BY <2>1, <2>2, <2>3
<1> QED BY <1>1, <1>3, <1>4, <1>5, EndNext

(* The reply goes from the dispatcher to the end of the wire.              *)
LEMMA ReplyEnd ==
  ASSUME IndInv, AppInv, EndInv, NEW c \in Client, reply(c)
  PROVE  EndInv'
<1>1. ReplyStill(c) /\ UNCHANGED alive
  BY ReplyApp DEF reply
<1>2. /\ UNCHANGED <<channels, early, pane, view, conn, quitting, stolen, saturated, map, closed>>
      /\ dispatch[c].at = "reply" /\ dispatch'[c].at = "idle"
      /\ \A d \in Client : d # c => dispatch'[d] = dispatch[d]
  BY <1>1, DispatchFacts DEF ReplyStill, app, Idle
<1>3. /\ wire[c] \in Seq(Message) /\ Len(wire[c]) \in Nat
      /\ \A d \in Client : d # c => wire'[d] = wire[d]
      /\ conn[c] = "up" => wire'[c] = Append(wire[c], dispatch[c].msg)
  BY <1>1, DispatchFacts DEF ReplyStill, WireTypes
<1> SUFFICES ASSUME NEW d \in Client, NEW s \in Session, Clean(d, s)', Whole(d, s)'
             PROVE  EndOf(d, s)'
  BY Zenon DEF EndInv
<1>4. Clean(d, s) /\ conn[d] = "up" /\ Buffer(d, s)' = Buffer(d, s)
  BY <1>2, BufferSame DEF Clean
<1>5. /\ ExitOn(wire[d], s) => ExitOn(wire'[d], s)
      /\ \A i \in Nat : OpenAt(d, i, s)' => \E j \in Nat : OpenAt(d, j, s)
  <2>1. CASE d # c
    <3>1. wire'[d] = wire[d] /\ dispatch'[d] = dispatch[d]
      BY <1>2, <1>3, <2>1
    <3>2. \A i \in Nat : OpenAt(d, i, s)' => OpenAt(d, i, s)
      BY <3>1 DEF OpenAt
    <3> QED BY <3>1, <3>2
  <2>2. CASE d = c
    <3>1. /\ Len(wire'[c]) = Len(wire[c]) + 1 /\ wire'[c][Len(wire[c]) + 1] = dispatch[c].msg
          /\ \A i \in 1 .. Len(wire[c]) : wire'[c][i] = wire[c][i]
      BY <1>3, <1>4, <2>2
    <3>2. \A i \in 1 .. Len(wire[c]) : i \in 1 .. Len(wire'[c])
      BY <1>3, <3>1
    <3>3. ExitOn(wire[c], s) => ExitOn(wire'[c], s)
      BY <3>1, <3>2 DEF ExitOn
    <3>4. ASSUME NEW i \in Nat, OpenAt(c, i, s)' PROVE \E j \in Nat : OpenAt(c, j, s)
      <4>1. i \in 1 .. Len(wire'[c]) /\ wire'[c][i].k = "OpenOk" /\ wire'[c][i].s = s
        BY <1>2, <3>4 DEF OpenAt
      <4>2. CASE i \in 1 .. Len(wire[c])
        BY <3>1, <4>1, <4>2 DEF OpenAt
      <4>3. CASE i = Len(wire[c]) + 1
        <5>1. OpenAt(c, 0, s)
          BY <1>2, <3>1, <4>1, <4>3 DEF OpenAt
        <5> QED BY <5>1
      <4> QED BY <1>3, <3>1, <4>1, <4>2, <4>3
    <3> QED BY <2>2, <3>3, <3>4
  <2> QED BY <2>1, <2>2
<1>6. Whole(d, s)
  <2>1. Fresh(d, s)' => Fresh(d, s)
    BY <1>2, <1>5 DEF Fresh
  <2> QED BY <1>2, <2>1 DEF Whole
<1>7. EndOf(d, s)
  BY <1>4, <1>6 DEF EndInv
<1>8. Ended(d, s) => Ended(d, s)'
  BY <1>4, <1>5 DEF Ended
<1>9. s \in map' \cup closed'
  BY <1>2, <1>7 DEF EndOf
<1> QED BY <1>1, <1>7, <1>8, <1>9, EndNext

LEMMA ConnEnd == ASSUME IndInv, AppInv, EndInv, connStep PROVE EndInv'
<1>1. ConnStill
  BY ConnStands
<1>2. UNCHANGED <<channels, early, pane, view, quitting, wire, dispatch, excused, saturated, stolen, closed>>
  BY <1>1 DEF ConnStill
<1>3. CASE shutdownCheck /\ Exits
  <2>1. Counted = {}
    <3>1. CASE Counted # {}
      <4>1. Resumes
        BY <1>3, <3>1 DEF shutdownCheck
      <4> QED BY <1>3, <4>1 DEF Exits, Resumes
    <3> QED BY <3>1
  <2>2. \A c \in Client : conn'[c] # "up"
    BY <1>3, <2>1 DEF Exits, Counted
  <2> QED BY <2>2, Zenon DEF EndInv, Clean
<1>4. CASE \/ \E c \in Client : connect(c) \/ accept(c) \/ unsubscribe(c)
           \/ idle_watcher \/ acceptWake \/ (shutdownCheck /\ Resumes)
  <2>1. UNCHANGED <<map, alive>>
    BY <1>4 DEF connect, accept, idle_watcher, acceptWake, Resumes, unsubscribe
  <2> SUFFICES ASSUME NEW c \in Client, NEW s \in Session, Clean(c, s)', Whole(c, s)'
               PROVE  EndOf(c, s)'
    BY Zenon DEF EndInv
  <2>2. Whole(c, s)
    <3>1. \A i \in Nat : OpenAt(c, i, s)' => OpenAt(c, i, s)
      BY <1>2 DEF OpenAt
    <3> QED BY <1>2, <3>1, WholeStays
  <2>3. conn[c] = "up"
    <3>1. CASE conn[c] # "up"
      <4>1. conn[c] \notin {"up", "left"}
        BY <1>1, <3>1 DEF ConnStill, Clean
      <4>2. ~Joined(c, s)
        BY <4>1, NothingJoined
      <4> QED BY <2>2, <4>2, WholeJoined
    <3> QED BY <3>1
  <2>4. Clean(c, s)
    BY <1>2, <2>3 DEF Clean
  <2>5. EndOf(c, s)
    BY <2>2, <2>4 DEF EndInv
  <2>6. Ended(c, s)' <=> Ended(c, s)
    <3>1. Buffer(c, s)' = Buffer(c, s)
      BY <1>2, BufferSame
    <3> QED BY <1>2, <3>1 DEF Ended
  <2>7. s \in map' \cup closed'
    BY <1>2, <2>1, <2>5 DEF EndOf
  <2> QED BY <2>1, <2>5, <2>6, <2>7, EndNext
<1> QED BY <1>3, <1>4 DEF connStep, shutdownCheck

LEMMA DispatchEnd ==
  ASSUME IndInv, AppInv, SubInv, EndInv, NEW c \in Client, dispatchStep(c)
  PROVE  EndInv'
<1>1. CASE openReserves(c)
  BY <1>1, ReservesEnd
<1>2. CASE openSpawns(c) \/ openSpawnFails(c) \/ openFills(c)
  BY <1>2, SpawnsEnd
<1>3. CASE attachCopies(c) \/ attachSubscribes(c) \/ serveClose(c) \/ serveKillAll(c)
  BY <1>3, ServesEnd
<1>4. CASE reply(c)
  BY <1>4, ReplyEnd
<1>5. CASE unsubscribe(c)
  <2>1. connStep
    BY <1>5 DEF connStep
  <2> QED BY <2>1, ConnEnd
<1> QED BY <1>1, <1>2, <1>3, <1>4, <1>5 DEF dispatchStep

LEMMA InitEnd == ASSUME Init PROVE EndInv /\ LastInv
<1>1. \A c \in Client : conn[c] # "up" /\ wire[c] = <<>>
  BY DEF Init
<1>2. EndInv
  BY <1>1 DEF EndInv, Clean
<1>3. LastInv
  <2>1. \A c \in Client : Len(wire[c]) = 0
    BY <1>1
  <2> QED BY <2>1 DEF LastInv
<1> QED BY <1>2, <1>3

(* The app neither closes a session nor loses its end.                     *)
LEMMA AppKeepsEnd ==
  ASSUME IndInv, AppInv, EndInv, NEW c \in Client, conn[c] = "up",
         UNCHANGED <<map, alive, closed, conn>>,
         stolen \subseteq stolen', saturated \subseteq saturated', quitting \subseteq quitting',
         \A s \in Session : Clean(c, s) /\ <<c, s>> \notin saturated' /\ Whole(c, s)' =>
           Whole(c, s) /\ (Ended(c, s) => Ended(c, s)')
  PROVE  EndInv'
<1> SUFFICES ASSUME NEW d \in Client, NEW s \in Session, Clean(d, s)', Whole(d, s)'
             PROVE  EndOf(d, s)'
  BY Zenon DEF EndInv
<1>1. d = c /\ Clean(c, s)
  BY OnlyUp
<1>2. Whole(c, s) /\ (Ended(c, s) => Ended(c, s)')
  BY <1>1 DEF Clean
<1>3. EndOf(c, s)
  BY <1>1, <1>2 DEF EndInv
<1>4. s \in map' \cup closed' /\ alive'[s] = alive[s]
  BY <1>3 DEF EndOf
<1> QED BY <1>1, <1>2, <1>3, <1>4, EndNext

(* A frame that is no exit of the session is taken from the wire.          *)
LEMMA ExitComes ==
  ASSUME IndInv, NEW c \in Client, conn[c] = "up", wire[c] # <<>>, Received(c), NEW s,
         ExitOn(wire[c], s)
  PROVE  ExitOn(wire'[c], s) \/ (wire[c][1].k = "Exit" /\ wire[c][1].s = s)
<1>1. wire'[c] = Tail(wire[c]) /\ wire[c] \in Seq(Message)
  BY Frame, WireFacts
<1>2. PICK i \in 1 .. Len(wire[c]) : wire[c][i].k = "Exit" /\ wire[c][i].s = s
  BY DEF ExitOn
<1>3. CASE i = 1
  BY <1>2, <1>3
<1>4. CASE i # 1
  <2>1. i - 1 \in 1 .. Len(wire'[c]) /\ wire'[c][i - 1] = wire[c][i]
    BY <1>1, <1>2, <1>4
  <2> QED BY <1>2, <2>1 DEF ExitOn
<1> QED BY <1>3, <1>4

LEMMA HearsEnd ==
  ASSUME IndInv, AppInv, OwnInv, EndInv, NEW c \in Client, receiveData(c) \/ receiveExit(c)
  PROVE  EndInv'
<1>1. PICK m \in Message, b \in Seq(Nat) : Hears(c, m, b)
  BY HearsIs
<1>2. /\ UNCHANGED <<map, alive, closed, conn, quitting, stolen>>
      /\ conn[c] = "up" /\ wire[c] # <<>> /\ Received(c) /\ m = wire[c][1]
      /\ saturated \subseteq saturated'
      /\ b = IF m.k = "Data" THEN m.chunk ELSE <<Exit>>
  BY <1>1 DEF Hears, daemon
<1>3. ASSUME NEW s \in Session, Clean(c, s), <<c, s>> \notin saturated', Whole(c, s)'
      PROVE  Whole(c, s) /\ (Ended(c, s) => Ended(c, s)')
  <2>1. Buffer(c, s) \in Seq(Nat)
    BY BufferIs
  <2>2. Whole(c, s) /\ Buffer(c, s)' = IF s = m.s THEN Buffer(c, s) \o b ELSE Buffer(c, s)
    BY <1>1, <1>3, HearsPair
  <2>3. /\ ToSet(Buffer(c, s)) \subseteq ToSet(Buffer(c, s)')
        /\ (s = m.s => ToSet(b) \subseteq ToSet(Buffer(c, s)'))
    <3>1. CASE s = m.s
      <4>1. PICK v \in Seq(Nat) : v = Buffer(c, s)
        BY <2>1
      <4>2. Buffer(c, s)' = v \o b
        BY <2>2, <3>1, <4>1
      <4>3. ToSet(v \o b) = ToSet(v) \cup ToSet(b)
        BY Joins
      <4> QED BY <4>1, <4>2, <4>3
    <3>2. CASE s # m.s
      BY <2>2, <3>2
    <3> QED BY <3>1, <3>2
  <2>4. CASE Exit \in ToSet(Buffer(c, s))
    BY <2>2, <2>3, <2>4 DEF Ended
  <2>5. CASE ExitOn(wire[c], s)
    <3>1. CASE ExitOn(wire'[c], s)
      BY <2>2, <3>1 DEF Ended
    <3>2. CASE wire[c][1].k = "Exit" /\ wire[c][1].s = s
      <4>1. b = <<Exit>> /\ s = m.s
        BY <1>2, <3>2
      <4>2. Exit \in ToSet(b)
        BY <4>1 DEF ToSet
      <4> QED BY <2>2, <2>3, <4>1, <4>2 DEF Ended
    <3> QED BY <1>2, <2>5, <3>1, <3>2, ExitComes
  <2> QED BY <2>2, <2>4, <2>5 DEF Ended
<1> QED BY <1>2, <1>3, AppKeepsEnd

LEMMA ReplyHearsEnd ==
  ASSUME IndInv, AppInv, EndInv, NEW c \in Client, receiveReply(c)
  PROVE  EndInv'
<1>1. /\ UNCHANGED <<map, alive, closed, conn, quitting, stolen, saturated>>
      /\ conn[c] = "up" /\ wire[c] # <<>> /\ Received(c)
      /\ wire[c][1].k \in {"OpenOk", "AttachOk", "Err"}
      /\ \A s \in Session : Buffer(c, s)' = Buffer(c, s) /\ (Whole(c, s)' => Whole(c, s))
  BY ReplyHearsPair DEF daemon
<1>2. \A s \in Session : Ended(c, s) => Ended(c, s)'
  BY <1>1, ExitComes DEF Ended
<1> QED BY <1>1, <1>2, AppKeepsEnd

(* Steps that leave no clean stream.                                       *)
LEMMA GoesEnd ==
  ASSUME IndInv, AppInv, KillInv, EndInv, NEW c \in Client,
         receiveKilled(c) \/ disconnect(c) \/ pty_kill_all(c)
  PROVE  EndInv'
<1>1. \A d \in Client, s \in Session : ~Clean(d, s)'
  BY GoesClean
<1> QED BY <1>1, Zenon DEF EndInv

(* What a pane begins, or ends.                                            *)
LEMMA PaneEnd ==
  ASSUME IndInv, AppInv, EndInv, NEW c \in Client, conn[c] = "up",
         UNCHANGED <<map, alive, closed, conn, wire, quitting, saturated>>,
         stolen \subseteq stolen',
         \A s \in Session : Clean(c, s) => Keeps(c, s)
  PROVE  EndInv'
<1>1. ASSUME NEW s \in Session, Clean(c, s), Whole(c, s)'
      PROVE  Whole(c, s) /\ (Ended(c, s) => Ended(c, s)')
  BY <1>1 DEF Keeps, Ended
<1> QED BY <1>1, AppKeepsEnd

LEMMA AppEnd ==
  ASSUME IndInv, AppInv, OwnInv, KillInv, EndInv, NEW c \in Client, AppStep(c)
  PROVE  EndInv'
<1>1. CASE readerStep(c)
  BY <1>1, HearsEnd, ReplyHearsEnd, GoesEnd DEF readerStep
<1>2. CASE disconnect(c) \/ pty_kill_all(c)
  BY <1>2, GoesEnd
<1>3. ASSUME NEW p \in Pane, NEW open, NEW t, AsksFor(p, c, open, t), stolen \subseteq stolen'
      PROVE  EndInv'
  <2>1. conn[c] = "up" /\ UNCHANGED <<map, alive, closed, conn, wire, quitting, saturated>>
    BY <1>3 DEF AsksFor, daemon
  <2>2. \A s \in Session : Keeps(c, s)
    BY <1>3, AsksPair
  <2> QED BY <1>3, <2>1, <2>2, PaneEnd
<1>4. CASE adopt(c)
  <2>1. PICK p \in Pane, t \in Session : Adopts(p, c, t)
    BY <1>4, AdoptAsks
  <2>2. AsksFor(p, c, FALSE, t) /\ stolen \subseteq stolen'
    BY <2>1 DEF Adopts
  <2> QED BY <1>3, <2>2
<1>5. CASE \E p \in Pane : pty_open(p, c)
  BY <1>3, <1>5, OpenAsks
<1>6. CASE \E p \in Pane, q \in Pane : pty_attach(p, c, q)
  BY <1>3, <1>6, AttachAsks
<1>7. CASE \E p \in Pane : register(p) \/ requestTimesOut(p) \/ pty_close(p)
  <2>1. PICK p \in Pane : register(p) \/ requestTimesOut(p) \/ pty_close(p)
    BY <1>7
  <2>2. UNCHANGED <<map, alive, closed, conn, wire, quitting, stolen, saturated>>
    <3>1. UNCHANGED <<daemon, closed>> /\ UNCHANGED <<conn, wire, quitting, stolen, saturated>>
      BY <2>1, RegisterPair, TimesOutPair, ClosePair
    <3> QED BY <3>1 DEF daemon
  <2>3. \A d \in Client, s \in Session : Clean(d, s) => Keeps(d, s)
    <3>1. CASE register(p)
      BY <3>1, RegisterPair
    <3>2. CASE requestTimesOut(p)
      BY <3>2, TimesOutPair DEF Keeps
    <3>3. CASE pty_close(p)
      BY <3>3, ClosePair
    <3> QED BY <2>1, <3>1, <3>2, <3>3
  <2>4. CASE \E d \in Client : conn[d] = "up"
    BY <2>2, <2>3, <2>4, PaneEnd
  <2>5. CASE \A d \in Client : conn[d] # "up"
    BY <2>2, <2>5 DEF EndInv, Clean
  <2> QED BY <2>4, <2>5
<1> QED BY <1>1, <1>2, <1>4, <1>5, <1>6, <1>7 DEF AppStep

LEMMA AppLast ==
  ASSUME IndInv, AppInv, LastInv, NEW c \in Client, AppStep(c)
  PROVE  LastInv'
<1>1. EndsStay
  <2>1. UNCHANGED <<daemon, threads, excused, closed>>
    BY AppDaemon
  <2> QED BY <2>1 DEF EndsStay, threads
<1>2. \A d \in Client : wire'[d] = wire[d] \/ wire'[d] = <<>> \/ (conn[d] = "up" /\ wire[d] # <<>> /\ Received(d))
  <2>1. CASE readerStep(c)
    <3>1. conn[c] = "up" /\ wire[c] # <<>> /\ Received(c)
      BY <2>1 DEF readerStep, receiveData, receiveExit, receiveReply, receiveKilled,
         Incoming
    <3>2. \A d \in Client : d # c => wire'[d] = wire[d]
      BY <3>1, WireFacts DEF Received
    <3> QED BY <3>1, <3>2
  <2>2. CASE disconnect(c)
    <3>1. wire' = [wire EXCEPT ![c] = <<>>]
      BY <2>2 DEF disconnect
    <3> QED BY <3>1, WireFacts
  <2>3. CASE ~readerStep(c) /\ ~disconnect(c)
    <3>1. UNCHANGED wire
      <4>1. CASE pty_kill_all(c) \/ adopt(c)
        BY <4>1 DEF pty_kill_all, adopt
      <4>2. CASE \E p \in Pane : register(p) \/ requestTimesOut(p) \/ pty_close(p) \/ pty_open(p, c)
        BY <4>2 DEF register, requestTimesOut, pty_close, pty_open, wires
      <4>3. CASE \E p \in Pane, q \in Pane : pty_attach(p, c, q)
        BY <4>3 DEF pty_attach
      <4> QED BY <2>3, <4>1, <4>2, <4>3 DEF AppStep
    <3> QED BY <3>1
  <2> QED BY <2>1, <2>2, <2>3
<1> QED BY <1>1, <1>2, LastComes


----------------------------------------------------------------------------
(* What a pane has when its route is gone. *)

(* What a pane shows of the session its route leads from.                  *)
LEMMA RoutedIs ==
  ASSUME IndInv, AppInv, NEW p \in Pane, Showing(p), Routed(p), NEW c, c = pane[p].c, NEW s,
         s = pane[p].s
  PROVE  /\ c \in Client /\ s \in Session /\ Clean(c, s) /\ channels[c][s] = p
         /\ Buffer(c, s) = Live(p) /\ (pane[p].opener => Whole(c, s))
<1>1. c \in Client /\ conn[c] = "up" /\ c \notin quitting /\ s \in Session
  BY CallIs DEF Showing
<1>2. p # None /\ channels[c][s] = p
  BY NoneIs DEF Routed
<1>3. Clean(c, s)
  BY <1>1 DEF Clean, Showing
<1>4. Buffer(c, s) = Live(p)
  BY <1>2 DEF Buffer, Showing
<1>5. pane[p].opener => Whole(c, s)
  BY <1>2 DEF Whole, Showing
<1> QED BY <1>1, <1>2, <1>3, <1>4, <1>5

(* A stream of which nothing more comes is all there is.                   *)
LEMMA Drained ==
  ASSUME IndInv, NEW c \in Client, NEW s \in Session, StreamOf(c, s), Whole(c, s), On(c, s),
         Coming(s) \subseteq excused[s],
         \A i \in 1 .. Len(wire[c]) : Chunks(wire[c][i], s) \subseteq excused[s]
  PROVE  1 .. wrote[s] \subseteq ToSet(Buffer(c, s)) \cup excused[s]
<1> DEFINE P == Buffer(c, s)
           w == wire[c]
           Q == PartsOf(w, P, s)
           D == Due(c, s)
           X == excused[s]
           n == wrote[s]
<1>1. Len(w) \in Nat /\ n \in Nat
  BY WireFacts, ThreadSeqs
<1>2. Chain(Q, D, X, n, Whole(c, s), On(c, s))
  BY DEF StreamOf, Stream
<1>3. /\ DOMAIN Q = 0 .. Len(w) /\ Q[0] = ToSet(P) \ {Exit}
      /\ \A i \in 1 .. Len(w) : Q[i] = Chunks(w[i], s)
  BY <1>1, PartsAre
<1>4. D \subseteq X
  BY DEF Due
<1>5. \A i \in 1 .. Len(w) : Chunks(w[i], s) \subseteq X
  OBVIOUS
<1> HIDE DEF P, w, Q, D, X, n
<1>6. Chain(Q, D, X, n, TRUE, TRUE)
  BY <1>2, Zenon DEF Chain
<1>7. DOMAIN Q \subseteq Nat /\ \A i \in DOMAIN Q \ {0} : Q[i] \subseteq X
  BY <1>1, <1>3, <1>5
<1>8. 1 .. n \subseteq X \cup Q[0]
  BY <1>1, <1>4, <1>6, <1>7, ChainDrained
<1>9. 1 .. n \subseteq ToSet(P) \cup X
  BY <1>3, <1>8
<1> QED BY <1>9 DEF P, X, n

(* A pane whose route went with the exit has all that was written of a     *)
(* session that ended by itself.                                           *)
HeardOf(p) ==
  /\ Exit \in ToSet(Live(p))
  /\ pane[p].s \notin closed =>
       /\ waiter[pane[p].s].at = "ended"
       /\ 1 .. wrote[pane[p].s] \subseteq ToSet(Live(p)) \cup excused[pane[p].s]
HeardInv == \A p \in Pane : Showing(p) /\ pane[p].opener /\ ~Routed(p) => HeardOf(p)

(* What a step does to the panes that have no route, and to the ended.     *)
UnrouteGoes ==
  \A p \in Pane : Showing(p)' /\ pane'[p].opener /\ ~Routed(p)' =>
    (pane'[p] = pane[p] /\ view'[p] = view[p] /\ ~Routed(p)) \/ HeardOf(p)'
WroteStays == \A s \in Session : waiter[s].at = "ended" => wrote'[s] = wrote[s]

LEMMA HeardStays ==
  ASSUME IndInv, AppInv, HeardInv, EndsStay, HistoryGoes, UnrouteGoes, WroteStays
  PROVE  HeardInv'
<1> SUFFICES ASSUME NEW p \in Pane, Showing(p)', pane'[p].opener, ~Routed(p)', pane'[p] = pane[p],
                    view'[p] = view[p], ~Routed(p)
             PROVE  HeardOf(p)'
  BY Zenon DEF HeardInv, UnrouteGoes
<1>1. pane[p].at = "shown"
  BY DEF Showing
<1>2. PICK s \in Session : s = pane[p].s /\ pane[p].c \in Client
  BY <1>1, CallIs
<1>3. Showing(p)
  BY <1>1, <1>2 DEF Showing, HistoryGoes
<1>4. HeardOf(p)
  BY <1>3 DEF HeardInv
<1>5. Live(p)' = Live(p)
  BY DEF Live
<1>6. Exit \in ToSet(Live(p))'
  BY <1>4, <1>5 DEF HeardOf
<1>7. ASSUME s \notin closed'
      PROVE  waiter'[s].at = "ended" /\ 1 .. wrote'[s] \subseteq ToSet(Live(p)) \cup excused'[s]
  <2>1. s \notin closed
    BY <1>7 DEF EndsStay
  <2>2. waiter[s].at = "ended" /\ 1 .. wrote[s] \subseteq ToSet(Live(p)) \cup excused[s]
    BY <1>2, <1>4, <2>1 DEF HeardOf
  <2> QED BY <2>2 DEF EndsStay, WroteStays
<1> QED BY <1>2, <1>5, <1>6, <1>7 DEF HeardOf

(* The steps that touch no route.                                          *)
LEMMA RoutesSame ==
  ASSUME UNCHANGED channels,
         \A p \in Pane : pane'[p].at = "shown" => pane'[p] = pane[p] /\ view'[p] = view[p]
  PROVE  UnrouteGoes
BY DEF UnrouteGoes, Routed, Showing

LEMMA ThreadHeard ==
  ASSUME IndInv, AppInv, LineInv, HeardInv, NEW t \in Session, threadOf(t)
  PROVE  HeardInv'
<1>1. EndsStay /\ HistoryGoes
  BY ThreadEnds, ThreadKept
<1>2. UnrouteGoes
  <2>1. UNCHANGED app
    BY ThreadStands DEF ThreadStill
  <2> QED BY <2>1, RoutesSame DEF app
<1>3. WroteStays
  <2>1. CASE shellWrites(t)
    <3>1. waiter[t].at # "ended"
      BY <2>1 DEF shellWrites, LineInv, Line
    <3>2. wrote' = [wrote EXCEPT ![t] = @ + 1]
      BY <2>1 DEF shellWrites
    <3> QED BY <3>1, <3>2 DEF WroteStays, IndInv, Types, ThreadTypes
  <2>2. CASE ~shellWrites(t)
    <3>1. UNCHANGED wrote
      BY <2>2 DEF threadOf, threadStep, shellEnds, flusherTakes, flusherAppends,
         flusherFansOut,
         waiterTakes, waiterFansOut, sinkExit, sessionDrop, dropThread, threads
    <3> QED BY <3>1 DEF WroteStays
  <2> QED BY <2>1, <2>2
<1> QED BY <1>1, <1>2, <1>3, HeardStays

LEMMA ConnHeard ==
  ASSUME IndInv, AppInv, LineInv, HeardInv, connStep
  PROVE  HeardInv'
<1>1. ConnStill
  BY ConnStands
<1>2. EndsStay /\ HistoryGoes
  BY <1>1, ConnEnds, ConnKept
<1>3. UnrouteGoes
  BY <1>1, RoutesSame DEF ConnStill
<1>4. WroteStays
  <2>1. UNCHANGED wrote
    BY DEF connStep, connect, accept, unsubscribe, idle_watcher, acceptWake, shutdownCheck,
       Exits, Resumes, threads
  <2> QED BY <2>1 DEF WroteStays
<1> QED BY <1>2, <1>3, <1>4, HeardStays

LEMMA DispatchHeard ==
  ASSUME IndInv, AppInv, LineInv, HeardInv, NEW c \in Client, dispatchStep(c)
  PROVE  HeardInv'
<1>1. CASE unsubscribe(c)
  BY <1>1, ConnHeard DEF connStep
<1>2. CASE ~unsubscribe(c)
  <2>1. EndsStay
    BY DispatchEnds
  <2>2. DispatchStill(c) \/ ReplyStill(c)
    BY <1>2, ReservesApp, SpawnsApp, AttachApp, ServesApp, ReplyApp DEF dispatchStep
  <2>3. UnrouteGoes
    <3>1. UNCHANGED app
      BY <2>2 DEF DispatchStill, ReplyStill
    <3> QED BY <3>1, RoutesSame DEF app
  <2>4. HistoryGoes
    BY <2>2, DispatchKept
  <2>5. UNCHANGED wrote
    BY <1>2 DEF dispatchStep, openReserves, openSpawns, openSpawnFails, openFills,
       attachCopies,
       attachSubscribes, serveClose, serveKillAll, reply, threads
  <2>6. WroteStays
    BY <2>5 DEF WroteStays
  <2> QED BY <2>1, <2>3, <2>4, <2>6, HeardStays
<1> QED BY <1>1, <1>2

(* The exit takes the route away from a pane that has been shown all.      *)
LEMMA ExitHeardOf ==
  ASSUME IndInv, AppInv, LineInv, SubInv, StreamInv, LastInv, EndInv, NEW c \in Client,
         NEW m \in Message, NEW b \in Seq(Nat), Hears(c, m, b), NEW p \in Pane,
         Showing(p), pane[p].opener, Routed(p), ~Routed(p)'
  PROVE  HeardOf(p)'
<1>1. /\ UNCHANGED <<pane, closed, wrote, excused, waiter>>
      /\ conn[c] = "up" /\ wire[c] # <<>> /\ Received(c) /\ m = wire[c][1] /\ m.s \in Session
      /\ m.k \in {"Data", "Exit"} /\ (m.k # "Data" => b = <<Exit>>)
  BY DEF Hears, threads
<1>2. PICK s : s = pane[p].s
  OBVIOUS
<1>3. PICK d : d = pane[p].c
  OBVIOUS
<1>4. /\ d \in Client /\ s \in Session /\ Clean(d, s) /\ channels[d][s] = p
      /\ Buffer(d, s) = Live(p) /\ Whole(d, s) /\ p # None
  BY <1>2, <1>3, RoutedIs, NoneIs
<1>5. d = c /\ s = m.s /\ m.k = "Exit" /\ b = <<Exit>>
  <2>1. channels'[d][s] # channels[d][s]
    BY <1>1, <1>2, <1>3, <1>4 DEF Routed
  <2>2. d = c /\ s = m.s
    BY <1>4, <2>1 DEF Hears
  <2>3. m.k = "Exit"
    BY <1>4, <2>1, <2>2 DEF Hears
  <2> QED BY <1>1, <2>2, <2>3
<1>6. Live(p)' = Live(p) \o <<Exit>>
  <2>1. view'[p] = view[p] \o b
    <3>1. channels[c][m.s] # None
      BY <1>4, <1>5
    <3>2. pane[p].at = "shown"
      BY DEF Showing
    <3> QED BY <1>4, <1>5, <3>1, <3>2 DEF Hears
  <2>2. view[p] \in Seq(Nat) /\ pane[p].seam \in 0 .. Len(view[p])
    BY CallIs DEF Showing
  <2>3. PICK v \in Seq(Nat) : v = view[p]
    BY <2>2
  <2>4. PICK n \in 0 .. Len(v) : n = pane[p].seam
    BY <2>2, <2>3
  <2>5. view'[p] = v \o b /\ pane'[p].seam = n
    BY <1>1, <2>1, <2>3, <2>4
  <2>6. SubSeq(v \o b, n + 1, Len(v \o b)) = SubSeq(v, n + 1, Len(v)) \o b
    BY LiveGrows
  <2> QED BY <1>5, <2>3, <2>4, <2>5, <2>6 DEF Live
<1>7. ToSet(Live(p)') = ToSet(Live(p)) \cup {Exit}
  <2>1. Live(p) \in Seq(Nat)
    BY <1>4, BufferIs
  <2>2. PICK v \in Seq(Nat) : v = Live(p)
    BY <2>1
  <2>3. PICK x \in Nat : x = Exit
    BY DEF Exit
  <2>4. ToSet(v \o <<x>>) = ToSet(v) \cup {x}
    BY OneMore
  <2> QED BY <1>6, <2>2, <2>3, <2>4
<1>8. ASSUME s \notin closed
      PROVE  waiter[s].at = "ended" /\ 1 .. wrote[s] \subseteq ToSet(Live(p)) \cup excused[s]
  <2>1. On(c, s)
    <3>1. s \in map
      BY <1>4, <1>5, <1>8 DEF EndInv, EndOf
    <3> QED BY <1>4, <1>5, <3>1, WholeJoined, WholeOn
  <2>2. 1 \in 1 .. Len(wire[c]) /\ Len(wire[c]) \in Nat
    BY <1>1, Frame
  <2>3. /\ waiter[s].at = "ended"
        /\ \A j \in 2 .. Len(wire[c]) : Chunks(wire[c][j], s) \subseteq excused[s]
    <3>1. wire[c][1].k = "Exit" /\ wire[c][1].s = s
      BY <1>1, <1>5
    <3>2. /\ waiter[wire[c][1].s].at = "ended"
          /\ \A j \in 1 + 1 .. Len(wire[c]) :
               Chunks(wire[c][j], wire[c][1].s) \subseteq excused[wire[c][1].s]
      BY <1>8, <2>2, <3>1, Zenon DEF LastInv
    <3>3. 1 + 1 = 2
      OBVIOUS
    <3> QED BY <3>1, <3>2, <3>3
  <2>4. \A i \in 1 .. Len(wire[c]) : Chunks(wire[c][i], s) \subseteq excused[s]
    <3>1. Chunks(wire[c][1], s) = {}
      BY <1>1, <1>5 DEF Chunks
    <3>2. \A i \in 1 .. Len(wire[c]) : i = 1 \/ i \in 2 .. Len(wire[c])
      BY <2>2
    <3> QED BY <2>3, <3>1, <3>2
  <2>5. Coming(s) \subseteq excused[s]
    <3>1. pending[s] = <<>> /\ Taken(s) \subseteq excused[s]
      BY <1>4, <2>3 DEF LineInv, Line
    <3>2. Left(s) = {}
      BY <2>3 DEF Left
    <3> QED BY <3>1, <3>2, NoChunk DEF Coming
  <2>6. StreamOf(c, s)
    BY <1>4, <1>5 DEF StreamInv
  <2>7. 1 .. wrote[s] \subseteq ToSet(Buffer(c, s)) \cup excused[s]
    BY <1>4, <1>5, <2>1, <2>4, <2>5, <2>6, Drained
  <2> QED BY <1>4, <1>5, <2>3, <2>7
<1> QED BY <1>1, <1>2, <1>7, <1>8 DEF HeardOf

LEMMA HearsHeard ==
  ASSUME IndInv, AppInv, LineInv, SubInv, StreamInv, LastInv, EndInv, NEW c \in Client,
         receiveData(c) \/ receiveExit(c)
  PROVE  UnrouteGoes
<1>1. PICK m \in Message, b \in Seq(Nat) : Hears(c, m, b)
  BY HearsIs
<1>2. UNCHANGED <<pane, stolen>> /\ saturated \subseteq saturated' /\ m.s \in Session
  BY <1>1 DEF Hears
<1> SUFFICES ASSUME NEW p \in Pane, Showing(p)', pane'[p].opener, ~Routed(p)'
             PROVE  (pane'[p] = pane[p] /\ view'[p] = view[p] /\ ~Routed(p)) \/ HeardOf(p)'
  BY Zenon DEF UnrouteGoes
<1>3. Showing(p)
  BY <1>2 DEF Showing
<1>4. CASE Routed(p)
  BY <1>1, <1>2, <1>3, <1>4, ExitHeardOf
<1>5. CASE ~Routed(p)
  <2>1. view'[p] = view[p]
    <3>1. CASE view' = view
      BY <3>1
    <3>2. CASE view' # view
      <4>1. PICK q \in Pane : channels[c][m.s] = q /\ \A r \in Pane : r # q => view'[r] = view[r]
        BY <1>1, <3>2 DEF Hears
      <4>2. channels[c][m.s] # None
        BY <4>1, NoneIs
      <4>3. pane[q].at = "shown" => Routed(q)
        BY <1>2, <4>1, <4>2, RouteIs DEF Routed
      <4>4. p # q
        BY <1>3, <1>5, <4>3 DEF Showing
      <4> QED BY <4>1, <4>4
    <3> QED BY <3>1, <3>2
  <2> QED BY <1>2, <1>5, <2>1
<1> QED BY <1>4, <1>5

(* The app takes no route away from a pane that goes on showing its shell. *)
LEMMA LeavesRoutes ==
  ASSUME IndInv, AppInv, KillInv, NEW c \in Client, receiveKilled(c) \/ disconnect(c)
  PROVE  UnrouteGoes
<1> SUFFICES ASSUME NEW p \in Pane, Showing(p)'
             PROVE  pane'[p] = pane[p] /\ view'[p] = view[p] /\ (Routed(p) => Routed(p)')
  BY Zenon DEF UnrouteGoes
<1>1. CASE receiveKilled(c)
  <2>1. /\ conn[c] = "up" /\ wire[c] # <<>> /\ Received(c) /\ Head(wire[c]).k = "Killed"
        /\ UNCHANGED <<pane, view>>
        /\ channels' = [channels EXCEPT ![c] = [s \in Session |-> None]]
    BY <1>1 DEF receiveKilled, Incoming
  <2>2. c \in quitting
    BY <2>1, Frame DEF KillInv
  <2>3. pane[p].c # c
    BY <2>2 DEF AppInv, QuitInv
  <2>4. channels'[pane[p].c] = channels[pane[p].c]
    BY <2>1, <2>3 DEF AppInv, AppKinds
  <2> QED BY <2>1, <2>4 DEF Routed
<1>2. CASE disconnect(c)
  <2>1. Leaves(c)
    BY <1>2, LeavesIs
  <2>2. pane[p].c # c
    BY <2>1 DEF Leaves, Showing
  <2>3. pane'[p] = pane[p] /\ view'[p] = view[p]
    BY <2>1, <2>2 DEF Leaves
  <2>4. pane[p].c \in Client /\ pane[p].s \in Session
    BY <2>3, CallIs DEF Showing
  <2>5. channels'[pane[p].c][pane[p].s] = channels[pane[p].c][pane[p].s]
    BY <2>1, <2>2, <2>4 DEF Leaves
  <2> QED BY <2>3, <2>5 DEF Routed
<1> QED BY <1>1, <1>2

LEMMA RegisterRoutes ==
  ASSUME IndInv, AppInv, OwnInv, NEW p \in Pane, register(p)
  PROVE  UnrouteGoes
<1>1. PICK c \in Client, t \in Session : Registers(p, c, t)
  BY RegisterIs
<1>2. /\ UNCHANGED stolen /\ pane[p].at = "answered" /\ pane[p].s = t /\ channels'[c][t] = p
      /\ \A d \in Client, u \in Session : d # c \/ u # t => channels'[d][u] = channels[d][u]
      /\ \A q \in Pane : q # p => pane'[q] = pane[q] /\ view'[q] = view[q]
      /\ pane'[p].c = c /\ pane'[p].s = t
  BY <1>1 DEF Registers
<1> SUFFICES ASSUME NEW q \in Pane, Showing(q)', pane'[q].opener, ~Routed(q)'
             PROVE  pane'[q] = pane[q] /\ view'[q] = view[q] /\ ~Routed(q)
  BY Zenon DEF UnrouteGoes
<1>3. q # p
  BY <1>2 DEF Routed
<1>4. pane'[q] = pane[q] /\ view'[q] = view[q]
  BY <1>2, <1>3
<1>5. pane[q].at = "shown" /\ pane[q].opener /\ pane[q].s \notin stolen
  BY <1>2, <1>4 DEF Showing
<1>6. pane[q].c \in Client /\ pane[q].s \in Session
  BY <1>5, CallIs
<1>7. pane[q].s # t
  BY <1>2, <1>3, <1>5 DEF OwnInv, HolderInv, Has
<1>8. channels'[pane[q].c][pane[q].s] = channels[pane[q].c][pane[q].s]
  BY <1>2, <1>6, <1>7
<1> QED BY <1>4, <1>8 DEF Routed

LEMMA CloseRoutes ==
  ASSUME IndInv, AppInv, OwnInv, NEW p \in Pane, pty_close(p)
  PROVE  UnrouteGoes
<1>1. PICK c \in Client, t \in Session : Closes(p, c, t)
  BY CloseIs
<1>2. /\ UNCHANGED stolen /\ pane[p].at = "shown" /\ pane[p].s = t /\ pane'[p].at = "closed"
      /\ channels' = [channels EXCEPT ![c][t] = None] /\ early' = [early EXCEPT ![c][t] = <<>>]
      /\ \A q \in Pane : q # p => pane'[q] = pane[q] /\ view'[q] = view[q]
  BY <1>1 DEF Closes
<1>3. \A d \in Client, u \in Session : d # c \/ u # t => channels'[d][u] = channels[d][u]
  BY <1>2, RouteGone DEF AppInv, AppKinds
<1> SUFFICES ASSUME NEW q \in Pane, Showing(q)', pane'[q].opener, ~Routed(q)'
             PROVE  pane'[q] = pane[q] /\ view'[q] = view[q] /\ ~Routed(q)
  BY Zenon DEF UnrouteGoes
<1>4. q # p
  BY <1>2 DEF Showing
<1>5. pane'[q] = pane[q] /\ view'[q] = view[q]
  BY <1>2, <1>4
<1>6. pane[q].at = "shown" /\ pane[q].opener /\ pane[q].s \notin stolen
  BY <1>2, <1>5 DEF Showing
<1>7. pane[q].c \in Client /\ pane[q].s \in Session
  BY <1>6, CallIs
<1>8. pane[q].s # t
  BY <1>2, <1>4, <1>6 DEF OwnInv, HolderInv, Has
<1>9. channels'[pane[q].c][pane[q].s] = channels[pane[q].c][pane[q].s]
  BY <1>3, <1>7, <1>8
<1> QED BY <1>5, <1>9 DEF Routed

LEMMA AsksRoutes ==
  ASSUME NEW p \in Pane, NEW c, NEW open, NEW t, AsksFor(p, c, open, t)
  PROVE  UnrouteGoes
<1>1. UNCHANGED channels /\ pane'[p].at = "asked"
  BY DEF AsksFor
<1>2. \A q \in Pane : pane'[q].at = "shown" => pane'[q] = pane[q] /\ view'[q] = view[q]
  BY <1>1 DEF AsksFor
<1> QED BY <1>1, <1>2, RoutesSame

LEMMA ReplyHearsRoutes ==
  ASSUME IndInv, AppInv, NEW c \in Client, receiveReply(c)
  PROVE  UnrouteGoes
<1>1. PICK m : m = Head(wire[c])
  OBVIOUS
<1>2. /\ UNCHANGED channels
      /\ \A q \in Pane : q # m.p => pane'[q] = pane[q] /\ view'[q] = view[q]
  BY <1>1, ReplyIs
<1>3. UNCHANGED <<pane, view>> \/ pane'[m.p].at \in {"failed", "answered"}
  BY <1>1, ReplyIs
<1>4. \A q \in Pane : pane'[q].at = "shown" => pane'[q] = pane[q] /\ view'[q] = view[q]
  BY <1>2, <1>3
<1> QED BY <1>2, <1>4, RoutesSame

LEMMA TimesOutRoutes ==
  ASSUME IndInv, AppInv, NEW p \in Pane, requestTimesOut(p)
  PROVE  UnrouteGoes
<1>1. /\ UNCHANGED <<channels, view>>
      /\ \A q \in Pane : q # p => pane'[q] = pane[q] /\ view'[q] = view[q]
      /\ pane'[p].at = "failed"
  BY DEF requestTimesOut, AppInv, AppKinds, IndInv, Types, AppTypes
<1>2. \A q \in Pane : pane'[q].at = "shown" => pane'[q] = pane[q] /\ view'[q] = view[q]
  BY <1>1
<1> QED BY <1>1, <1>2, RoutesSame

LEMMA QuitsRoutes ==
  ASSUME IndInv, AppInv, NEW c \in Client, pty_kill_all(c)
  PROVE  UnrouteGoes
<1>1. Quits(c)
  BY QuitsIs
<1>2. \A q \in Pane : pane'[q].at = "shown" => pane'[q] = pane[q] /\ view'[q] = view[q]
  BY <1>1 DEF Quits
<1> QED BY <1>1, <1>2, RoutesSame DEF Quits

LEMMA AppRoutes ==
  ASSUME IndInv, AppInv, OwnInv, LineInv, KillInv, SubInv, StreamInv, LastInv, EndInv,
         NEW c \in Client, AppStep(c)
  PROVE  UnrouteGoes
<1>1. CASE readerStep(c)
  BY <1>1, HearsHeard, ReplyHearsRoutes, LeavesRoutes DEF readerStep
<1>2. CASE disconnect(c) \/ pty_kill_all(c)
  BY <1>2, LeavesRoutes, QuitsRoutes
<1>3. CASE adopt(c)
  <2>1. PICK p \in Pane, t \in Session : Adopts(p, c, t)
    BY <1>3, AdoptAsks
  <2> QED BY <2>1, AsksRoutes DEF Adopts
<1>4. CASE \E p \in Pane : register(p) \/ requestTimesOut(p) \/ pty_close(p) \/ pty_open(p, c)
  <2>1. PICK p \in Pane : register(p) \/ requestTimesOut(p) \/ pty_close(p) \/ pty_open(p, c)
    BY <1>4
  <2>2. CASE pty_open(p, c)
    <3>1. AsksFor(p, c, TRUE, None)
      BY <2>2, OpenAsks
    <3> QED BY <3>1, AsksRoutes
  <2> QED BY <2>1, <2>2, RegisterRoutes, TimesOutRoutes, CloseRoutes
<1>5. CASE \E p \in Pane, q \in Pane : pty_attach(p, c, q)
  <2>1. PICK p \in Pane, q \in Pane : pty_attach(p, c, q)
    BY <1>5
  <2>2. AsksFor(p, c, FALSE, pane[q].s)
    BY <2>1, AttachAsks
  <2> QED BY <2>2, AsksRoutes
<1> QED BY <1>1, <1>2, <1>3, <1>4, <1>5 DEF AppStep

LEMMA AppHeard ==
  ASSUME IndInv, AppInv, OwnInv, LineInv, KillInv, SubInv, StreamInv, LastInv, EndInv, HeardInv,
         NEW c \in Client, AppStep(c)
  PROVE  HeardInv'
<1>1. UNCHANGED <<daemon, threads, excused, closed>>
  BY AppDaemon
<1>2. EndsStay /\ WroteStays
  BY <1>1 DEF EndsStay, WroteStays, threads
<1>3. HistoryGoes
  BY AppKept
<1>4. UnrouteGoes
  BY AppRoutes
<1> QED BY <1>2, <1>3, <1>4, HeardStays


----------------------------------------------------------------------------
(* Once all is quiet. *)

(* What is under way of a session that is held, once all is quiet.         *)
LEMMA QuietComing ==
  ASSUME IndInv, LineInv, Quiet, NEW s \in Session, shell[s] # "none"
  PROVE  Coming(s) \subseteq excused[s] /\ (shell[s] = "ended" => waiter[s].at = "ended")
<1>1. shell[s] \in {"run", "ended"}
  BY DEF IndInv, Types, ThreadTypes, ShellInv
<1>2. flusher[s].at \in {"rest", "ended"} /\ (shell[s] = "run" => pending[s] = <<>>)
      /\ (shell[s] = "ended" => waiter[s].at = "ended")
  BY DEF Quiet
<1>3. Taken(s) = {}
  BY <1>2 DEF Taken
<1>4. pending[s] = <<>> /\ waiter[s].at # "appended"
  BY <1>1, <1>2 DEF LineInv, Line
<1>5. Left(s) = {}
  BY <1>4 DEF Left
<1> QED BY <1>2, <1>3, <1>4, <1>5, NoChunk DEF Coming

(* A pane whose route stands: its stream is drained into it, and its end   *)
(* has nowhere else to be.                                                 *)
LEMMA RoutedArrived ==
  ASSUME IndInv, AppInv, LineInv, SubInv, StreamInv, AliveInv, EndInv, Quiet,
         NEW p \in Pane, Showing(p), pane[p].opener, Routed(p)
  PROVE  /\ pane[p].s \notin closed =>
              1 .. wrote[pane[p].s] \subseteq ToSet(Live(p)) \cup excused[pane[p].s]
         /\ shell[pane[p].s] = "ended" => Exit \in ToSet(Live(p))
<1>1. PICK s : s = pane[p].s
  OBVIOUS
<1>2. PICK c : c = pane[p].c
  OBVIOUS
<1>3. /\ c \in Client /\ s \in Session /\ Clean(c, s)
      /\ Buffer(c, s) = Live(p) /\ Whole(c, s)
  BY <1>1, <1>2, RoutedIs
<1>4. s \in map \cup closed /\ (alive[s] = FALSE => Ended(c, s))
  BY <1>3 DEF EndInv, EndOf
<1>5. wire[c] = <<>> /\ Len(wire[c]) = 0
  BY <1>3 DEF Quiet
<1>6. ASSUME s \notin closed PROVE 1 .. wrote[s] \subseteq ToSet(Live(p)) \cup excused[s]
  <2>1. CASE shell[s] = "none"
    <3>1. wrote[s] = 0
      BY <1>3, <2>1 DEF LineInv, Begun
    <3> QED BY <3>1
  <2>2. CASE shell[s] # "none"
    <3>1. Coming(s) \subseteq excused[s]
      BY <1>3, <2>2, QuietComing
    <3>2. On(c, s)
      BY <1>3, <1>4, <1>6, WholeJoined, WholeOn
    <3>3. StreamOf(c, s)
      BY <1>3 DEF StreamInv
    <3>4. \A i \in 1 .. Len(wire[c]) : Chunks(wire[c][i], s) \subseteq excused[s]
      BY <1>5
    <3>5. 1 .. wrote[s] \subseteq ToSet(Buffer(c, s)) \cup excused[s]
      BY <1>3, <3>1, <3>2, <3>3, <3>4, Drained
    <3> QED BY <1>3, <3>5
  <2> QED BY <2>1, <2>2
<1>7. ASSUME shell[s] = "ended" PROVE Exit \in ToSet(Live(p))
  <2>1. waiter[s].at = "ended"
    BY <1>3, <1>7 DEF Quiet
  <2>2. alive[s] = FALSE
    BY <1>3, <1>4, <2>1 DEF AliveInv
  <2>3. ~ExitOn(wire[c], s)
    BY <1>5 DEF ExitOn
  <2> QED BY <1>3, <1>4, <2>2, <2>3 DEF Ended
<1> QED BY <1>1, <1>6, <1>7

LEMMA LiveInView ==
  ASSUME IndInv, AppInv, NEW p \in Pane, Showing(p)
  PROVE  ToSet(Live(p)) \subseteq ToSet(view[p])
<1>1. view[p] \in Seq(Nat) /\ pane[p].seam \in 0 .. Len(view[p])
  BY CallIs DEF Showing
<1>2. PICK v \in Seq(Nat) : v = view[p]
  BY <1>1
<1>3. PICK n \in 0 .. Len(v) : n = pane[p].seam
  BY <1>1, <1>2
<1>4. PICK t \in Seq(Nat) : t = SubSeq(v, n + 1, Len(v))
  BY TailOf
<1>5. Len(t) = Len(v) - n /\ \A i \in 1 .. Len(v) - n : t[i] = v[n + i]
  BY <1>4, TailOf
<1>6. ToSet(t) \subseteq ToSet(v)
  <2> SUFFICES ASSUME NEW i \in 1 .. Len(t) PROVE t[i] \in ToSet(v)
    <3>1. DOMAIN t = 1 .. Len(t)
      OBVIOUS
    <3> QED BY <3>1 DEF ToSet
  <2>1. n + i \in 1 .. Len(v) /\ t[i] = v[n + i]
    BY <1>5
  <2> QED BY <2>1 DEF ToSet
<1> QED BY <1>2, <1>3, <1>4, <1>6 DEF Live

LEMMA AllArrived ==
  ASSUME IndInv, AppInv, LineInv, SubInv, StreamInv, AliveInv, EndInv, HeardInv
  PROVE  AllArrives
<1> SUFFICES ASSUME NEW p \in Pane, Showing(p), pane[p].opener, Quiet
             PROVE  OutputArrived(p) /\ ExitHeard(p)
  BY Zenon DEF AllArrives
<1>1. /\ pane[p].s \notin closed =>
           1 .. wrote[pane[p].s] \subseteq ToSet(Live(p)) \cup excused[pane[p].s]
      /\ shell[pane[p].s] = "ended" => Exit \in ToSet(Live(p))
  <2>1. CASE Routed(p)
    BY <2>1, RoutedArrived
  <2>2. CASE ~Routed(p)
    BY <2>2 DEF HeardInv, HeardOf
  <2> QED BY <2>1, <2>2
<1>2. ToSet(Live(p)) \subseteq ToSet(view[p])
  BY LiveInView
<1> QED BY <1>1, <1>2 DEF OutputArrived, ExitHeard

----------------------------------------------------------------------------
(* The invariant, and the step.                                            *)

ArriveIndInv == StreamIndInv /\ AliveInv /\ EndInv /\ LastInv /\ HeardInv

LEMMA ArriveParts ==
  ASSUME ArriveIndInv
  PROVE  /\ StreamIndInv /\ IndInv /\ AppInv /\ OwnInv /\ LineInv /\ KillInv /\ ReplyInv /\ SubInv
         /\ StreamInv /\ AliveInv /\ EndInv /\ LastInv /\ HeardInv
BY DEF ArriveIndInv, StreamIndInv, LineUp

LEMMA InitArrive == ASSUME Init PROVE ArriveIndInv
<1>1. HeardInv
  BY DEF Init, HeardInv, Showing
<1> QED BY <1>1, InitStream, InitAlive, InitEnd DEF ArriveIndInv

LEMMA StutterArrive == ASSUME ArriveIndInv, UNCHANGED vars PROVE ArriveIndInv'
<1>1. /\ StreamIndInv /\ IndInv /\ AppInv /\ AliveInv /\ EndInv /\ LastInv /\ HeardInv
  BY ArriveParts
<1>2. /\ UNCHANGED <<map, closed, alive, waiter, wrote, excused, saturated, stolen>>
      /\ UNCHANGED <<conn, wire, dispatch, channels, early, pane, view, quitting>>
  BY DEF vars, daemon, threads, wires, app, history
<1>3. StreamIndInv'
  BY <1>1, StutterStream
<1>4. AliveInv'
  BY <1>1, <1>2 DEF AliveInv
<1>5. EndInv'
  <2> SUFFICES ASSUME NEW c \in Client, NEW s \in Session, Clean(c, s)', Whole(c, s)'
               PROVE  EndOf(c, s)'
    BY Zenon DEF EndInv
  <2>1. Clean(c, s)
    BY <1>2 DEF Clean
  <2>2. Whole(c, s)
    BY <1>2 DEF Whole, Fresh, OpenAt
  <2>3. Buffer(c, s)' = Buffer(c, s)
    BY <1>2, BufferSame
  <2>4. EndOf(c, s)
    BY <1>1, <2>1, <2>2 DEF EndInv
  <2> QED BY <1>2, <2>3, <2>4 DEF EndOf, Ended
<1>6. LastInv'
  <2>1. EndsStay
    BY <1>2 DEF EndsStay
  <2>2. \A d \in Client : wire'[d] = wire[d]
    BY <1>2
  <2> QED BY <1>1, <2>1, <2>2, LastComes
<1>7. HeardInv'
  <2>1. EndsStay /\ WroteStays /\ HistoryGoes
    BY <1>2 DEF EndsStay, WroteStays, HistoryGoes
  <2>2. UnrouteGoes
    BY <1>2, RoutesSame
  <2> QED BY <1>1, <2>1, <2>2, HeardStays
<1> QED BY <1>3, <1>4, <1>5, <1>6, <1>7 DEF ArriveIndInv

LEMMA NextArrive == ASSUME ArriveIndInv, Next PROVE ArriveIndInv'
<1>1. /\ StreamIndInv /\ IndInv /\ AppInv /\ OwnInv /\ LineInv /\ KillInv /\ ReplyInv /\ SubInv
      /\ StreamInv /\ AliveInv /\ EndInv /\ LastInv /\ HeardInv
  BY ArriveParts
<1>2. StreamIndInv'
  BY <1>1, NextStream
<1>3. ASSUME NEW t \in Session, threadOf(t) PROVE AliveInv' /\ EndInv' /\ LastInv' /\ HeardInv'
  <2>1. AliveGo
    BY <1>1, <1>3, ThreadAlive
  <2>2. AliveInv'
    BY <1>1, <2>1, AliveStays
  <2>3. EndInv'
    BY <1>1, <1>3, ThreadEnd
  <2>4. LastInv'
    BY <1>1, <1>3, ThreadLast
  <2>5. HeardInv'
    BY <1>1, <1>3, ThreadHeard
  <2> QED BY <2>2, <2>3, <2>4, <2>5
<1>4. ASSUME NEW c \in Client, dispatchStep(c) PROVE AliveInv' /\ EndInv' /\ LastInv' /\ HeardInv'
  <2>1. AliveGo
    BY <1>1, <1>4, DispatchAlive
  <2>2. AliveInv'
    BY <1>1, <2>1, AliveStays
  <2>3. EndInv'
    BY <1>1, <1>4, DispatchEnd
  <2>4. LastInv'
    BY <1>1, <1>4, DispatchLast
  <2>5. HeardInv'
    BY <1>1, <1>4, DispatchHeard
  <2> QED BY <2>2, <2>3, <2>4, <2>5
<1>5. ASSUME NEW c \in Client, AppStep(c) PROVE AliveInv' /\ EndInv' /\ LastInv' /\ HeardInv'
  <2>1. UNCHANGED <<alive, closed, waiter, map>>
    <3>1. UNCHANGED <<daemon, threads, closed>>
      BY <1>5, AppDaemon
    <3> QED BY <3>1 DEF daemon, threads
  <2>2. AliveInv'
    BY <1>1, <2>1 DEF AliveInv
  <2>3. EndInv'
    BY <1>1, <1>5, AppEnd
  <2>4. LastInv'
    BY <1>1, <1>5, AppLast
  <2>5. HeardInv'
    BY <1>1, <1>5, AppHeard
  <2> QED BY <2>2, <2>3, <2>4, <2>5
<1>6. ASSUME connStep PROVE AliveInv' /\ EndInv' /\ LastInv' /\ HeardInv'
  <2>1. ConnStill
    BY <1>1, <1>6, ConnStands
  <2>2. AliveGo
    BY <1>6, ConnAlive
  <2>3. AliveInv'
    BY <1>1, <2>2, AliveStays
  <2>4. EndInv'
    BY <1>1, <1>6, ConnEnd
  <2>5. LastInv'
    BY <1>1, <1>6, <2>1, ConnLast
  <2>6. HeardInv'
    BY <1>1, <1>6, ConnHeard
  <2> QED BY <2>3, <2>4, <2>5, <2>6
<1> QED BY <1>1, <1>2, <1>3, <1>4, <1>5, <1>6, NextIs DEF ArriveIndInv

(* The pane that opens a shell and lacks its end, or output of it that is  *)
(* not `excused` (shed by the reader, or held by the flusher when the      *)
(* waiter takes the tail), lacks it only while a step is due: the waiter   *)
(* takes the rest of the reader's bytes before ServerSink::exit tells the  *)
(* subscribers, and reader_loop drops the route only with the exit.        *)
THEOREM DaemonAllArrives == Spec => []AllArrives
<1>1. Init => ArriveIndInv
  BY InitArrive
<1>2. ArriveIndInv /\ [Next]_vars => ArriveIndInv'
  BY NextArrive, StutterArrive
<1>3. ArriveIndInv => AllArrives
  BY ArriveParts, AllArrived
<1> QED BY <1>1, <1>2, <1>3, PTL DEF Spec

=============================================================================
