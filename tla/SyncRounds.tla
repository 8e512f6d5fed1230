----------------------------- MODULE SyncRounds -----------------------------
(***************************************************************************)
(* What the merge decides about one vault key, and whether repeating it    *)
(* between devices comes to an end: merge and its two vault exceptions     *)
(* (src-tauri/src/modules/sync/model.rs), the landing (envelope.ts, sort   *)
(* of scheduler.ts, applyRemote of vault/store.ts), the carried body and   *)
(* its toggle, and rederive, which corrects a landed record from the body  *)
(* this device holds.                                                      *)
(*                                                                         *)
(* The user has stopped editing, and a pass of one device does not overlap *)
(* one of another: what happens when they do is the subject of Sync.       *)
(*                                                                         *)
(* A field of a record is the rank its JSON text has among the texts it    *)
(* can take: canonical compares keys in alphabetical order, so a field     *)
(* that is present sorts below the same field absent (the text goes on     *)
(* with a later key), and false below true.                                *)
(***************************************************************************)
EXTENDS Devices, Integers, Sequences, FiniteSets

CONSTANTS
  Carry,           \* those with the carry toggle on
  Stamps,          \* the stamps a copy can start with
  Names,           \* the names a record can start with
  Bodies,          \* the private keys a keychain can start with
  MaxCorrections   \* bound on the corrections rederive makes

Absent == 2
NoStamp == -1      \* updatedAt missing: below every stamp
NoBody == 0        \* no secrets on an envelope, no body in a keychain
Plain == 1         \* a body that can be inspected
Sealed == 2        \* a legacy body: without its passphrase it answers "encrypted" alone
Null == [encrypted |-> 0, fingerprint |-> 0, hasPrivateKey |-> FALSE, hardware |-> Absent, name |-> 0]

(* A hardware key never claims a body, and its fingerprint is all it has.  *)
Records ==
  {r \in [encrypted : {0, 1, Absent}, fingerprint : {0, Absent}, hasPrivateKey : BOOLEAN,
          hardware : {1, Absent}, name : Names] :
     r.hardware # Absent => ~r.hasPrivateKey /\ r.encrypted = Absent /\ r.fingerprint = 0}

ASSUME RoundsAssumption ==
  /\ Carry \subseteq Device /\ MaxCorrections \in Nat
  /\ Stamps \subseteq Nat \cup {NoStamp} /\ Names \subseteq Nat
  /\ Bodies \subseteq {NoBody, Plain, Sealed}

VARIABLES
  copy,    \* copy[d]: the key record or tombstone in d's vault file, without secrets
  body,    \* body[d]: the private key in d's keychain
  known,   \* known[d]: does d's etag map hold the etag the object has now?
  object,  \* the object object, stamp -2 when there is none
  corrections    \* corrections made so far, each with a stamp of its own

roundsVars == <<copy, body, known, object, corrections>>

NoObject == [updatedAt |-> -2, deleted |-> FALSE, record |-> Null, secrets |-> NoBody]
Held(c) == c.updatedAt # NoObject.updatedAt

----------------------------------------------------------------------------
Bit(b) == IF b THEN 1 ELSE 0

canonical(r) == <<r.encrypted, r.fingerprint, Bit(r.hasPrivateKey), r.hardware, r.name>>

(* A tombstone's record is null, whatever arrived in it.                   *)
normalize(e) == IF e.deleted THEN [e EXCEPT !.record = Null] ELSE e

store_key(e) == <<e.updatedAt, Bit(e.deleted)>> \o canonical(e.record)

ordering_key(e) == store_key(e) \o <<e.secrets>>

Below(a, b) == \E i \in 1..Len(a) : a[i] < b[i] /\ \A j \in 1..(i - 1) : a[j] = b[j]

(* Mutant: a tie on the stamp is taken for the same content.               *)
contentDiffersByStamp(a, b) == a.updatedAt # b.updatedAt

content_differs(a, b) == ordering_key(a) # ordering_key(b)

(* The winner's encrypted answer is filled in from the loser when the      *)
(* winner claims a body and has none.                                      *)
encryptedFrom(w, loser) ==
  IF w.hasPrivateKey /\ w.encrypted = Absent
  THEN [w EXCEPT !.encrypted = loser.encrypted] ELSE w

(* Mutant: the fingerprint of a key nobody claims a body for is kept.      *)
keepFingerprint(w) == w

(* The fingerprint goes when the winner claims no body, except a hardware  *)
(* key's.                                                                  *)
dropFingerprint(w) ==
  IF ~w.hasPrivateKey /\ w.hardware = Absent
  THEN [w EXCEPT !.fingerprint = Absent] ELSE w

vaultExceptions(w, loser) ==
  IF w.deleted THEN w
  ELSE [w EXCEPT !.record = dropFingerprint(
          IF loser.deleted THEN w.record ELSE encryptedFrom(w.record, loser.record))]

(* Mutant: stamps alone decide, and a tie goes to whoever is asked.        *)
mergeByStamp(l, r) ==
  IF r.updatedAt > l.updatedAt
  THEN vaultExceptions(normalize(r), normalize(l)) ELSE vaultExceptions(normalize(l), normalize(r))

merge(l, r) ==
  LET L == normalize(l)
      R == normalize(r)
  IN IF Below(ordering_key(L), ordering_key(R)) THEN vaultExceptions(R, L) ELSE vaultExceptions(L, R)

----------------------------------------------------------------------------
(* The envelope of a device's own copy: the body rides along when the      *)
(* toggle is on and the record says there is one.                          *)
outboundSecrets(d) ==
  IF d \in Carry /\ ~copy[d].deleted /\ copy[d].record.hasPrivateKey THEN body[d] ELSE NoBody

localEnvelope(d) == [copy[d] EXCEPT !.secrets = outboundSecrets(d)]

(* sort: the toggle, and whether the body moved.                           *)
withSecrets(d, w) == d \in Carry /\ (~Held(copy[d]) \/ w.secrets # outboundSecrets(d))

landsBody(d, w) == withSecrets(d, w) /\ w.secrets # NoBody

Lands(d, w) ==
  \/ ~Held(copy[d])
  \/ store_key(w) # store_key(localEnvelope(d))
  \/ withSecrets(d, w)

(* landingOf and applyRemote: an unstamped record lands at zero, a body    *)
(* that lands raises the presence flag, and a landed delete releases the   *)
(* accounts of the record it drops.                                        *)
Landed(d, w) ==
  IF w.deleted THEN [w EXCEPT !.secrets = NoBody]
  ELSE [w EXCEPT !.secrets = NoBody,
                 !.updatedAt = IF @ = NoStamp THEN 0 ELSE @,
                 !.record.hasPrivateKey = @ \/ landsBody(d, w)]

LandedBody(d, w) ==
  IF w.deleted THEN (IF Held(copy[d]) /\ ~copy[d].deleted THEN NoBody ELSE body[d])
  ELSE IF landsBody(d, w) THEN w.secrets ELSE body[d]

(* rederive: what the record should say, given the body in the keychain.   *)
Rederived(c, b) ==
  IF c.deleted \/ b = NoBody \/ c.record.hardware # Absent
     \/ (c.record.hasPrivateKey /\ c.record.fingerprint # Absent)
  THEN c.record
  ELSE [c.record EXCEPT !.hasPrivateKey = TRUE,
                        !.encrypted = IF b = Sealed THEN 1 ELSE 0,
                        !.fingerprint = IF b = Sealed THEN @ ELSE 0]

corrects(c, b) == Rederived(c, b) # c.record

(* A correction is a local edit: stamped after every stamp there is.       *)
FirstCorrection == 10
Corrected(c, b) == [c EXCEPT !.record = Rederived(c, b), !.updatedAt = FirstCorrection + corrections]

(* Devices that may differ in every way: some hold nothing yet.  A         *)
(* tombstone and a hardware key have no body in the keychain.              *)
Start(c) ==
  [updatedAt |-> c.updatedAt, deleted |-> c.deleted, record |-> c.record, secrets |-> NoBody]

Copies ==
  {Start(c) : c \in [updatedAt : Stamps, deleted : {FALSE}, record : Records]}
  \cup {Start(c) : c \in [updatedAt : Stamps \ {NoStamp}, deleted : {TRUE}, record : {Null}]}
  \cup {NoObject}

Hardware(c) == Held(c) /\ ~c.deleted /\ c.record.hardware # Absent
Software(c) == Held(c) /\ ~c.deleted /\ c.record.hardware = Absent

RoundsInit ==
  /\ copy \in [Device -> Copies]
  /\ ~ \E d, e \in Device : Hardware(copy[d]) /\ Software(copy[e])
  /\ body \in [Device -> Bodies]
  /\ \A d \in Device : body[d] # NoBody => Software(copy[d])
  /\ known = [d \in Device |-> FALSE]
  /\ object = NoObject
  /\ corrections = 0

(* One pass of d: pull, apply, rederive, and the publishes of what the     *)
(* pull found owed and of the correction.                                  *)
Publish(d, e) ==
  /\ object' = e
  /\ known' = [x \in Device |-> x = d]

Winner(d) ==
  IF ~Held(copy[d]) THEN object
  ELSE IF ~Held(object) THEN localEnvelope(d) ELSE merge(localEnvelope(d), object)

runPull(d) ==
  /\ ~known[d] /\ (Held(copy[d]) \/ Held(object))
  /\ \E w \in {Winner(d)} :
     \E lands \in {Held(object) /\ Lands(d, w)} :
     \E c \in {IF lands THEN Landed(d, w) ELSE copy[d]} :
     \E b \in {IF lands THEN LandedBody(d, w) ELSE body[d]} :
       /\ body' = [body EXCEPT ![d] = b]
       /\ \/ /\ lands /\ corrects(c, b) /\ corrections < MaxCorrections
             /\ copy' = [copy EXCEPT ![d] = Corrected(c, b)]
             /\ corrections' = corrections + 1
             /\ Publish(d, [Corrected(c, b) EXCEPT !.secrets = IF d \in Carry THEN b ELSE NoBody])
          \/ /\ ~(lands /\ corrects(c, b))
             /\ copy' = [copy EXCEPT ![d] = c]
             /\ UNCHANGED corrections
             /\ IF content_differs(w, object)
                THEN Publish(d, w)
                ELSE known' = [known EXCEPT ![d] = TRUE] /\ UNCHANGED object

(* A device that knows the object skips it.                                *)
RoundsNext == \E d \in Device : runPull(d)

RoundsSpec == RoundsInit /\ [][RoundsNext]_roundsVars /\ \A d \in Device : WF_roundsVars(runPull(d))

----------------------------------------------------------------------------
(* What is landed and corrected stays a record of a key, and no body is    *)
(* left in a store file (landingOf: the keychain takes it).                *)
CopiesAreRecords ==
  \A d \in Device : /\ copy[d].secrets = NoBody
                    /\ Held(copy[d]) /\ ~copy[d].deleted => copy[d].record \in Records

(* Two devices that merge the same pair agree, whichever of them holds     *)
(* which copy (ordering_key: cannot disagree).                             *)
MergeCommutes ==
  \A d, e \in Device : Held(copy[d]) /\ Held(copy[e]) =>
    ~content_differs(merge(localEnvelope(d), localEnvelope(e)), merge(localEnvelope(e), localEnvelope(d)))

(* What a object win lands is a fixed point: merging it again with the     *)
(* object copy it came from leaves the record as it is (Merged: the        *)
(* content is a fixed point; the side is not).                             *)
MergeIsFixpoint ==
  \A d \in Device :
    LET l == localEnvelope(d)
        w == merge(l, object)
    IN Held(copy[d]) /\ Held(object) /\ Below(ordering_key(normalize(l)), ordering_key(object))
       => store_key(merge(w, object)) = store_key(w)

(* A merge never moves a fingerprint from one key record to another: the   *)
(* record it yields has a fingerprint only if the copy it took whole had   *)
(* one and says who it belongs to.                                         *)
FingerprintHasOwner ==
  \A d \in Device : Held(copy[d]) /\ Held(object) /\ ~merge(localEnvelope(d), object).deleted =>
    LET w == merge(localEnvelope(d), object).record
    IN w.fingerprint # Absent =>
         /\ w.hasPrivateKey \/ w.hardware # Absent
         /\ \E c \in {localEnvelope(d), object} :
              /\ ~c.deleted /\ c.record.fingerprint # Absent
              /\ c.record.name = w.name /\ c.record.hasPrivateKey = w.hasPrivateKey

(* The merge is sound on every pair the rounds bring together: all four.   *)
MergeIsSound == CopiesAreRecords /\ MergeCommutes /\ MergeIsFixpoint /\ FingerprintHasOwner

(* The inductive invariant behind it: whatever is in a store file or on    *)
(* the object is a tombstone without a record or a body, or the record of  *)
(* a key, and one key is a hardware key everywhere or nowhere; a hardware  *)
(* key has a body nowhere.                                                 *)
Envelopes ==
  {e \in [updatedAt : Int, deleted : BOOLEAN, record : Records \cup {Null},
          secrets : {NoBody, Plain, Sealed}] :
     /\ e.deleted \/ ~Held(e) => e.record = Null /\ e.secrets = NoBody
     /\ Held(e) /\ ~e.deleted => e.record \in Records}

IsHardware(e) == Held(e) /\ ~e.deleted => e.record.hardware # Absent
IsSoftware(e) == Held(e) /\ ~e.deleted => e.record.hardware = Absent

OneKind ==
  \/ /\ \A d \in Device : IsHardware(copy[d]) /\ body[d] = NoBody
     /\ IsHardware(object) /\ object.secrets = NoBody
  \/ (\A d \in Device : IsSoftware(copy[d])) /\ IsSoftware(object)

RoundsInv ==
  /\ copy \in [Device -> Envelopes] /\ \A d \in Device : copy[d].secrets = NoBody
  /\ object \in Envelopes
  /\ body \in [Device -> {NoBody, Plain, Sealed}]
  /\ corrections \in Nat
  /\ OneKind

(* Every device ends up knowing an object that says what its own store     *)
(* says, a missing stamp read as the zero it lands at.                     *)
Says(c) == store_key([c EXCEPT !.updatedAt = IF @ = NoStamp THEN 0 ELSE @])

RoundsSettle ==
  <>[](Held(object) => \A d \in Device : known[d] /\ Says(copy[d]) = Says(object))
=============================================================================
