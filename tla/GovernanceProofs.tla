-------------------------- MODULE GovernanceProofs --------------------------
(***************************************************************************)
(* Theorems about Governance, for any number of entries, operators,        *)
(* captures and consolidations.                                            *)
(*                                                                         *)
(* TrustInv says where a trust score can change under an operator that is  *)
(* about to pin: nowhere, since only entries that have not been stamped    *)
(* are stamped, and those are not fully trusted.                           *)
(***************************************************************************)
EXTENDS Governance, TLAPS, FiniteSetTheorems

(* Entries are stored in the order of their numbers.                       *)
StoredPrefix == \E n \in Nat : Stored = 1..n

(* No score without a row.                                                 *)
AbsentUnscored == \A e \in Entries : status[e] = "absent" => trust[e] = Unscored

(* An entry that a capture has not stamped yet is not fully trusted.       *)
UnstampedLow ==
  \A k \in Captures : pc[k] = "stamp" => \A e \in target[k] : trust[e] # Full

(* What pin() has read is still true of the trust score when it writes.    *)
ReadTrusted ==
  \A o \in Operators :
    pc[o] \in {"count", "pin"} => \A e \in target[o] : trust[e] = Full

TrustInv ==
  /\ TypeOK
  /\ StoredPrefix
  /\ AbsentUnscored
  /\ UnstampedLow
  /\ ReadTrusted
  /\ \A e \in pinned : trust[e] = Full

-----------------------------------------------------------------------------
LEMMA EnterType ==
  ASSUME TypeOK, NEW a \in Actors, NEW step \in Steps, NEW S,
         S \in SUBSET (Stored'), Stored \subseteq Stored',
         Enter(a, step, S), step = "idle" <=> S = {}
  PROVE  /\ pc' \in [Actors -> Steps]
         /\ target' \in [Actors -> SUBSET (Stored')]
         /\ \A b \in Actors : Idle(b)' <=> target'[b] = {}
         /\ \A b \in Actors : b # a => pc'[b] = pc[b] /\ target'[b] = target[b]
         /\ pc'[a] = step /\ target'[a] = S
  BY DEF TypeOK, Enter, Idle

LEMMA NextIsNew ==
  ASSUME TypeOK, StoredPrefix, NextEntry \in Entries
  PROVE  /\ NextEntry \notin Stored
         /\ Stored \cup {NextEntry} = 1..NextEntry
  <1>1. PICK n \in Nat : Stored = 1..n
    BY DEF StoredPrefix
  <1>2. Cardinality(Stored) = n
    BY <1>1, FS_Interval
  <1> QED BY <1>1, <1>2 DEF NextEntry

(* A new row: what storing it does to the columns.                         *)
LEMMA NewRow ==
  ASSUME TypeOK, StoredPrefix, NextEntry \in Entries,
         status' = [status EXCEPT ![NextEntry] = "pending"]
  PROVE  /\ status' \in [Entries -> {"absent", "pending", "approved", "denied"}]
         /\ Stored' = Stored \cup {NextEntry}
         /\ StoredPrefix'
         /\ status[NextEntry] = "absent"
  <1>1. Stored' = Stored \cup {NextEntry}
    BY DEF TypeOK, Stored
  <1>2. NextEntry \notin Stored /\ Stored \cup {NextEntry} = 1..NextEntry
    BY NextIsNew
  <1>3. NextEntry \in Nat
    BY DEF Entries
  <1> QED BY <1>1, <1>2, <1>3 DEF TypeOK, Stored, StoredPrefix

(* A write to the columns of stored rows only.                             *)
LEMMA SameRows ==
  ASSUME TypeOK, StoredPrefix,
         status' \in [Entries -> {"absent", "pending", "approved", "denied"}],
         \A e \in Entries : status'[e] = "absent" <=> status[e] = "absent"
  PROVE  Stored' = Stored /\ StoredPrefix'
  <1>1. Stored' = Stored
    BY DEF Stored
  <1> QED BY <1>1 DEF StoredPrefix

LEMMA InitTrust == ASSUME Init PROVE TrustInv
  <1>1. Stored = {} /\ 0 \in Nat /\ 1..0 = {}
    BY DEF Init, Stored
  <1>2. TypeOK
    <2>1. \A a \in Actors : Idle(a) /\ target[a] = {}
      BY DEF Init, Idle
    <2>2. crashes \in 0..MaxCrashes
      BY BoundsType DEF Init
    <2>3. pc \in [Actors -> Steps] /\ target \in [Actors -> SUBSET Stored]
      BY DEF Init, Steps
    <2> QED BY <1>1, <2>1, <2>2, <2>3 DEF Init, TypeOK
  <1>3. StoredPrefix
    BY <1>1 DEF StoredPrefix
  <1>4. UnstampedLow /\ ReadTrusted
    BY DEF Init, UnstampedLow, ReadTrusted, Actors
  <1> QED BY <1>2, <1>3, <1>4 DEF Init, TrustInv, AbsentUnscored

-----------------------------------------------------------------------------
(* Every step keeps the types: columns, then the call under way.           *)
LEMMA OperateType ==
  ASSUME TypeOK, StoredPrefix, NEW o \in Operators, NEW e \in Stored, Operate(o, e)
  PROVE  TypeOK' /\ Stored' = Stored /\ StoredPrefix'
  <1> USE ActorsType DEF Actors
  <1>1. e \in Entries /\ status[e] # "absent" /\ o \in Actors
    BY DEF Stored
  <1>2. status' \in [Entries -> {"absent", "pending", "approved", "denied"}]
    BY DEF TypeOK, Operate, Approve, Deny, Supersede, Unpin, ReadForPin, columns
  <1>3. \A f \in Entries : status'[f] = "absent" <=> status[f] = "absent"
    BY <1>1 DEF TypeOK, Operate, Approve, Deny, Supersede, Unpin, ReadForPin, columns
  <1>4. Stored' = Stored /\ StoredPrefix'
    BY <1>2, <1>3, SameRows
  <1>5. superseded' \subseteq Stored /\ pinned' \subseteq Stored
    BY DEF TypeOK, Operate, Approve, Deny, Supersede, Unpin, ReadForPin, columns
  <1>6. /\ pc' \in [Actors -> Steps]
        /\ target' \in [Actors -> SUBSET (Stored')]
        /\ \A b \in Actors : Idle(b)' <=> target'[b] = {}
    <2>1. CASE \E step \in {"unpin", "count"} : Enter(o, step, {e})
      <3>1. PICK step \in {"unpin", "count"} : Enter(o, step, {e})
        BY <2>1
      <3>2. step \in Steps /\ step # "idle" /\ {e} # {} /\ {e} \in SUBSET (Stored')
        BY <1>4 DEF Steps
      <3> QED BY ONLY TypeOK, <1>1, <1>4, <3>1, <3>2, EnterType
    <2>2. CASE UNCHANGED <<pc, target>>
      BY <1>4, <2>2 DEF TypeOK, Idle
    <2> QED
      BY <2>1, <2>2 DEF Operate, Approve, Deny, Supersede, Unpin, ReadForPin
  <1>7. trust' = trust /\ crashes' = crashes /\ overlapped' \in BOOLEAN
    BY DEF TypeOK, Operate, Approve, Deny, Supersede, Unpin, ReadForPin, columns
  <1> QED BY <1>2, <1>4, <1>5, <1>6, <1>7 DEF TypeOK

LEMMA StoreType ==
  ASSUME TypeOK, StoredPrefix, UNCHANGED overlapped,
         Remember \/ \E k \in Captures : Capture(k)
  PROVE  TypeOK' /\ StoredPrefix'
  <1>1. /\ NextEntry \in Entries
        /\ status' = [status EXCEPT ![NextEntry] = "pending"]
        /\ UNCHANGED <<trust, superseded, pinned, crashes>>
    BY DEF Remember, Capture
  <1>2. /\ status' \in [Entries -> {"absent", "pending", "approved", "denied"}]
        /\ Stored' = Stored \cup {NextEntry}
        /\ StoredPrefix'
    BY <1>1, NewRow
  <1>3. /\ pc' \in [Actors -> Steps]
        /\ target' \in [Actors -> SUBSET (Stored')]
        /\ \A b \in Actors : Idle(b)' <=> target'[b] = {}
    <2>1. CASE Remember
      BY <1>2, <2>1 DEF TypeOK, Idle, Remember
    <2>2. CASE \E k \in Captures : Capture(k)
      <3>1. PICK k \in Captures : Enter(k, "stamp", {NextEntry})
        BY <2>2 DEF Capture
      <3>2. /\ k \in Actors /\ "stamp" \in Steps
            /\ {NextEntry} # {} /\ {NextEntry} \in SUBSET (Stored')
            /\ Stored \subseteq Stored'
        BY <1>2 DEF Actors, Steps
      <3>3. "stamp" = "idle" <=> {NextEntry} = {}
        OBVIOUS
      <3> QED BY ONLY TypeOK, <3>1, <3>2, <3>3, EnterType
    <2> QED BY <2>1, <2>2
  <1> QED BY <1>1, <1>2, <1>3 DEF TypeOK

(* A step that leaves the rows and types the columns, and whose caller     *)
(* enters a step with rows to write or ends, keeps the types.              *)
LEMMA CallType ==
  ASSUME TypeOK, StoredPrefix, UNCHANGED overlapped, crashes' \in 0..MaxCrashes,
         status' \in [Entries -> {"absent", "pending", "approved", "denied"}],
         \A e \in Entries : status'[e] = "absent" <=> status[e] = "absent",
         trust' \in [Entries -> {Unscored, Captured, Full}],
         superseded' \subseteq Stored, pinned' \subseteq Stored,
         NEW a \in Actors, NEW step \in Steps, NEW S \in SUBSET Stored,
         Enter(a, step, S), step = "idle" <=> S = {}
  PROVE  TypeOK' /\ StoredPrefix'
  <1>1. Stored' = Stored /\ StoredPrefix'
    BY SameRows
  <1>2. /\ pc' \in [Actors -> Steps]
        /\ target' \in [Actors -> SUBSET (Stored')]
        /\ \A b \in Actors : Idle(b)' <=> target'[b] = {}
    BY <1>1, EnterType
  <1> QED BY <1>1, <1>2 DEF TypeOK

LEMMA ContinueType ==
  ASSUME TypeOK, StoredPrefix, UNCHANGED overlapped, NEW a \in Actors,
         Continue(a) \/ Crash(a)
  PROVE  TypeOK' /\ StoredPrefix'
  <1>0. /\ target[a] \subseteq Stored /\ "idle" \in Steps /\ "pin" \in Steps
        /\ "verdicts" \in Steps /\ (Idle(a) <=> target[a] = {})
    BY DEF TypeOK, Steps
  <1>1. CASE StampCapture(a)
    <2>1. \A e \in target[a] : status[e] # "absent" /\ e \in Entries
      BY <1>0 DEF Stored
    <2>2. /\ status' \in [Entries -> {"absent", "pending", "approved", "denied"}]
          /\ \A e \in Entries : status'[e] = "absent" <=> status[e] = "absent"
          /\ trust' \in [Entries -> {Unscored, Captured, Full}]
      BY <1>1, <2>1 DEF TypeOK, StampCapture
    <2> QED BY <1>0, <1>1, <2>2, CallType DEF TypeOK, StampCapture, Leave
  <1>2. CASE RevokePin(a)
    BY <1>0, <1>2, CallType DEF TypeOK, RevokePin, Leave
  <1>3. CASE CountPinned(a)
    <2>1. target[a] # {}
      BY <1>0, <1>3 DEF CountPinned, Idle
    <2>2. CASE Enter(a, "pin", target[a])
      BY <1>0, <1>3, <2>1, <2>2, CallType DEF TypeOK, CountPinned, columns
    <2>3. CASE Leave(a)
      BY <1>0, <1>3, <2>3, CallType DEF TypeOK, CountPinned, columns, Leave
    <2> QED BY <1>3, <2>2, <2>3 DEF CountPinned
  <1>4. CASE WritePin(a)
    BY <1>0, <1>4, CallType DEF TypeOK, WritePin, Leave
  <1>5. CASE StampVerdict(a)
    <2>1. PICK e \in target[a] :
            /\ superseded' = superseded \cup {e}
            /\ IF target[a] = {e} THEN Leave(a) ELSE Enter(a, "verdicts", target[a] \ {e})
      BY <1>5 DEF StampVerdict
    <2>2. superseded' \subseteq Stored
      BY <1>0, <2>1 DEF TypeOK
    <2>3. CASE target[a] = {e}
      BY <1>0, <1>5, <2>1, <2>2, <2>3, CallType DEF TypeOK, StampVerdict, Leave
    <2>4. CASE target[a] # {e}
      <3>1. target[a] \ {e} # {} /\ target[a] \ {e} \in SUBSET Stored
        BY <1>0, <2>4
      <3> QED BY <1>0, <1>5, <2>1, <2>2, <2>4, <3>1, CallType DEF TypeOK, StampVerdict
    <2> QED BY <2>3, <2>4
  <1>6. CASE Crash(a)
    <2>1. crashes' \in 0..MaxCrashes
      BY <1>6, BoundsType DEF TypeOK, Crash
    <2> QED BY <1>0, <1>6, <2>1, CallType DEF TypeOK, Crash, columns, Leave
  <1> QED BY <1>1, <1>2, <1>3, <1>4, <1>5, <1>6 DEF Continue

LEMMA StepType ==
  ASSUME TypeOK, StoredPrefix, [Next]_vars
  PROVE  TypeOK' /\ StoredPrefix'
  <1>1. CASE \E o \in Operators, e \in Stored : Operate(o, e)
    BY <1>1, OperateType
  <1>2. CASE UNCHANGED overlapped /\ (Remember \/ \E k \in Captures : Capture(k))
    BY <1>2, StoreType
  <1>3. CASE UNCHANGED overlapped /\ Backfill
    <2>1. /\ status' \in [Entries -> {"absent", "pending", "approved", "denied"}]
          /\ \A e \in Entries : status'[e] = "absent" <=> status[e] = "absent"
          /\ trust' \in [Entries -> {Unscored, Captured, Full}]
      BY <1>3 DEF TypeOK, Backfill
    <2>2. Stored' = Stored /\ StoredPrefix'
      BY <2>1, SameRows
    <2> QED BY <1>3, <2>1, <2>2 DEF TypeOK, Backfill, Idle
  <1>4. CASE UNCHANGED overlapped /\ \E d \in Consolidators : Detect(d)
    <2>1. PICK d \in Consolidators : Detect(d)
      BY <1>4
    <2>2. PICK S \in SUBSET Stored : S # {} /\ Enter(d, "verdicts", S)
      BY <2>1 DEF Detect
    <2>3. d \in Actors /\ "verdicts" \in Steps /\ ("verdicts" = "idle" <=> S = {})
      BY <2>2 DEF Actors, Steps
    <2> QED BY <1>4, <2>1, <2>2, <2>3, CallType DEF TypeOK, Detect, columns
  <1>5. CASE UNCHANGED overlapped /\ \E a \in Actors : Continue(a) \/ Crash(a)
    BY <1>5, ContinueType
  <1>6. CASE UNCHANGED vars
    <2>1. Stored' = Stored
      BY <1>6 DEF vars, Stored
    <2> QED BY <1>6, <2>1 DEF vars, TypeOK, StoredPrefix, Idle
  <1> QED BY <1>1, <1>2, <1>3, <1>4, <1>5, <1>6 DEF Next

-----------------------------------------------------------------------------
(* Trust: the entries whose score a step writes, and the ones an operator  *)
(* has in hand, are never the same.                                        *)
LEMMA OperateTrust ==
  ASSUME TrustInv, NEW o \in Operators, NEW e \in Stored, Operate(o, e)
  PROVE  TrustInv'
  <1>0. TypeOK' /\ StoredPrefix' /\ Stored' = Stored
    BY OperateType DEF TrustInv
  <1>1. trust' = trust /\ pinned' \subseteq pinned
    BY DEF Operate, Approve, Deny, Supersede, Unpin, ReadForPin, columns
  <1>2. AbsentUnscored'
    BY <1>0, <1>1 DEF TrustInv, AbsentUnscored, Stored
  <1>3. \A a \in Actors : a # o => pc'[a] = pc[a] /\ target'[a] = target[a]
    BY DEF TrustInv, TypeOK, Operate, Approve, Deny, Supersede, Unpin, ReadForPin, Enter
  <1>4. UnstampedLow'
    BY <1>1, <1>3, ActorsType DEF TrustInv, UnstampedLow, Actors
  <1>5. pc'[o] \in {"count", "pin"} => \A f \in target'[o] : trust[f] = Full
    <2>1. CASE ReadForPin(o, e)
      <3>1. target'[o] = {e} /\ trust[e] \in {Unscored, Captured, Full}
        BY <2>1 DEF TrustInv, TypeOK, ReadForPin, Enter, Actors, Stored
      <3> QED BY <2>1, <3>1 DEF ReadForPin, Eligible, PinTrustThreshold, Unscored, Captured, Full
    <2>2. CASE Deny(o, e) \/ Supersede(o, e)
      BY <2>2 DEF TrustInv, TypeOK, Deny, Supersede, Enter, Actors
    <2>3. CASE UNCHANGED <<pc, target>>
      BY <2>3 DEF TrustInv, ReadTrusted
    <2> QED BY <2>1, <2>2, <2>3 DEF Operate, Approve, Unpin
  <1>6. ReadTrusted'
    BY <1>1, <1>3, <1>5 DEF TrustInv, ReadTrusted, Actors
  <1> QED BY <1>0, <1>1, <1>2, <1>4, <1>6 DEF TrustInv

LEMMA StoreTrust ==
  ASSUME TrustInv, TypeOK', StoredPrefix', Remember \/ \E k \in Captures : Capture(k)
  PROVE  TrustInv'
  <1>1. /\ NextEntry \in Entries
        /\ status' = [status EXCEPT ![NextEntry] = "pending"]
        /\ UNCHANGED <<trust, pinned>>
    BY DEF Remember, Capture
  <1>2. status[NextEntry] = "absent" /\ trust[NextEntry] # Full
    <2>1. status[NextEntry] = "absent"
      BY <1>1, NewRow DEF TrustInv
    <2> QED BY <1>1, <2>1 DEF TrustInv, AbsentUnscored, Unscored, Full
  <1>3. AbsentUnscored'
    BY <1>1 DEF TrustInv, TypeOK, AbsentUnscored
  <1>4. CASE Remember
    BY <1>1, <1>3, <1>4 DEF TrustInv, UnstampedLow, ReadTrusted, Remember
  <1>5. CASE \E k \in Captures : Capture(k)
    <2>1. PICK k \in Captures : Capture(k)
      BY <1>5
    <2>2. /\ pc'[k] = "stamp" /\ target'[k] = {NextEntry}
          /\ \A a \in Actors : a # k => pc'[a] = pc[a] /\ target'[a] = target[a]
      BY <2>1 DEF TrustInv, TypeOK, Capture, Enter, Actors
    <2>3. UnstampedLow'
      BY <1>1, <1>2, <2>2 DEF TrustInv, UnstampedLow, Actors
    <2>4. ReadTrusted'
      BY <1>1, <2>2, ActorsType DEF TrustInv, ReadTrusted, Actors
    <2> QED BY <1>1, <1>3, <2>3, <2>4 DEF TrustInv
  <1> QED BY <1>4, <1>5

LEMMA BackfillTrust ==
  ASSUME TrustInv, TypeOK', StoredPrefix', Backfill
  PROVE  TrustInv'
  <1>1. \A a \in Actors : pc'[a] = "idle"
    BY DEF Backfill, Quiet, Idle
  <1>2. \A e \in Entries : trust[e] = Full => trust'[e] = Full
    BY DEF Backfill
  <1>3. AbsentUnscored'
    BY DEF TrustInv, TypeOK, Backfill, AbsentUnscored
  <1>4. UnstampedLow' /\ ReadTrusted'
    BY <1>1 DEF UnstampedLow, ReadTrusted, Actors
  <1>5. \A e \in pinned' : trust'[e] = Full
    BY <1>2 DEF TrustInv, TypeOK, Backfill, Stored
  <1> QED BY <1>3, <1>4, <1>5 DEF TrustInv

LEMMA ContinueTrust ==
  ASSUME TrustInv, TypeOK', StoredPrefix', NEW a \in Actors,
         \/ Continue(a)
         \/ Crash(a)
         \/ a \in Consolidators /\ Detect(a)
  PROVE  TrustInv'
  <1>0. /\ \A b \in Actors : b # a => pc'[b] = pc[b] /\ target'[b] = target[b]
        /\ a \in Captures => pc'[a] # "stamp"
    BY ActorsType DEF TrustInv, TypeOK, Continue, StampCapture, RevokePin, CountPinned, WritePin,
       StampVerdict, Crash, Detect, Leave, Enter
  <1>1. CASE a \in Captures /\ StampCapture(a)
    <2>1. \A e \in target[a] : trust[e] # Full /\ status[e] # "absent" /\ e \in Entries
      BY <1>1 DEF TrustInv, TypeOK, UnstampedLow, StampCapture, Stored
    <2>2. \A e \in Entries : IF e \in target[a] THEN trust'[e] = Captured
                                                ELSE trust'[e] = trust[e]
      BY <1>1 DEF StampCapture
    <2>3. AbsentUnscored'
      BY <1>1, <2>1, <2>2 DEF TrustInv, StampCapture, AbsentUnscored
    <2>4. UnstampedLow'
      <3> SUFFICES ASSUME NEW k \in Captures, pc'[k] = "stamp", NEW e \in target'[k]
                   PROVE  trust'[e] # Full
        BY DEF UnstampedLow
      <3>1. k # a /\ pc[k] = "stamp" /\ e \in target[k] /\ e \in Entries
        BY <1>0, <1>1 DEF Actors, TrustInv, TypeOK, Stored
      <3>2. trust[e] # Full
        BY <3>1 DEF TrustInv, UnstampedLow
      <3> QED BY <2>2, <3>1, <3>2 DEF Captured, Full
    <2>5. ReadTrusted'
      <3> SUFFICES ASSUME NEW o \in Operators, pc'[o] \in {"count", "pin"}, NEW e \in target'[o]
                   PROVE  trust'[e] = Full
        BY DEF ReadTrusted
      <3>1. o # a /\ pc[o] \in {"count", "pin"} /\ e \in target[o] /\ e \in Entries
        BY <1>0, <1>1, ActorsType DEF Actors, TrustInv, TypeOK, Stored
      <3>2. trust[e] = Full
        BY <3>1 DEF TrustInv, ReadTrusted
      <3> QED BY <2>1, <2>2, <3>1, <3>2
    <2>6. \A e \in pinned' : trust'[e] = Full
      BY <1>1, <2>1, <2>2 DEF TrustInv, TypeOK, StampCapture, Stored
    <2> QED BY <2>3, <2>4, <2>5, <2>6 DEF TrustInv
  <1>2. CASE UNCHANGED <<status, trust>>
    <2>1. AbsentUnscored'
      BY <1>2 DEF TrustInv, AbsentUnscored
    <2>2. UnstampedLow'
      BY <1>0, <1>2 DEF TrustInv, UnstampedLow, Actors
    <2>3. a \in Operators /\ pc'[a] \in {"count", "pin"}
            => pc[a] = "count" /\ target'[a] = target[a]
      BY ActorsType DEF TrustInv, TypeOK, Actors, Continue, StampCapture, RevokePin, CountPinned,
         WritePin, StampVerdict, Crash, Detect, Leave, Enter
    <2>4. ReadTrusted'
      BY <1>0, <1>2, <2>3 DEF TrustInv, ReadTrusted, Actors
    <2>5. \A e \in pinned' : trust'[e] = Full
      <3>1. CASE a \in Operators /\ WritePin(a)
        BY <1>2, <3>1 DEF TrustInv, ReadTrusted, WritePin
      <3>2. CASE pinned' \subseteq pinned
        BY <1>2, <3>2 DEF TrustInv
      <3> QED BY <3>1, <3>2 DEF Continue, StampCapture, RevokePin, CountPinned, StampVerdict,
                 Crash, Detect, columns
    <2> QED BY <2>1, <2>2, <2>4, <2>5 DEF TrustInv
  <1> QED BY <1>1, <1>2 DEF Continue, RevokePin, CountPinned, WritePin, StampVerdict, Crash,
             Detect, columns

LEMMA StepTrust ==
  ASSUME TrustInv, [Next]_vars
  PROVE  TrustInv'
  <1>0. TypeOK' /\ StoredPrefix'
    BY StepType DEF TrustInv
  <1>1. CASE \E o \in Operators, e \in Stored : Operate(o, e)
    BY <1>1, OperateTrust
  <1>2. CASE Remember \/ \E k \in Captures : Capture(k)
    BY <1>0, <1>2, StoreTrust
  <1>3. CASE Backfill
    BY <1>0, <1>3, BackfillTrust
  <1>4. CASE \E d \in Consolidators : Detect(d)
    BY <1>0, <1>4, ContinueTrust DEF Actors
  <1>5. CASE \E a \in Actors : Continue(a) \/ Crash(a)
    BY <1>0, <1>5, ContinueTrust
  <1>6. CASE UNCHANGED vars
    BY <1>0, <1>6 DEF vars, TrustInv, AbsentUnscored, UnstampedLow, ReadTrusted
  <1> QED BY <1>1, <1>2, <1>3, <1>4, <1>5, <1>6 DEF Next

LEMMA TrustAlways == Spec => []TrustInv
  <1>1. Init => TrustInv
    BY InitTrust
  <1>2. TrustInv /\ [Next]_vars => TrustInv'
    BY StepTrust
  <1> QED BY <1>1, <1>2, PTL DEF Spec

(* The columns and the calls under way stay within their types: every call *)
(* writes to stored rows only.                                             *)
THEOREM GovernanceTypeCorrect == Spec => []TypeOK
  <1>1. TrustInv => TypeOK
    BY DEF TrustInv
  <1> QED BY <1>1, TrustAlways, PTL

(* pin() fails closed: whatever captures, backfills, consolidations,       *)
(* operators and crashes come between its read and its write, an entry     *)
(* nobody scored as fully trusted is never pinned.                         *)
THEOREM TrustTheorem == Spec => []PinnedTrusted
  <1>1. TrustInv => PinnedTrusted
    BY DEF TrustInv, PinnedTrusted, PinTrustThreshold, Full
  <1> QED BY <1>1, TrustAlways, PTL

-----------------------------------------------------------------------------
(* Decisions: the only writers of status are operators, the stamp of a     *)
(* capture's own entry, and the backfill, which touches pending rows.      *)
LEMMA StepKeepsDecisions ==
  ASSUME TrustInv, [Next]_vars, NEW e \in Entries
  PROVE  DecisionKept(e)
  <1> SUFFICES ASSUME status[e] \in {"approved", "denied"}, status'[e] # status[e],
                      \A k \in Captures : e \notin target[k]
               PROVE  \E o \in Operators : Approve(o, e) \/ Deny(o, e)
    BY DEF DecisionKept
  <1>1. CASE \E o \in Operators, f \in Stored : Operate(o, f)
    <2>1. PICK o \in Operators, f \in Stored : Operate(o, f)
      BY <1>1
    <2>2. f = e
      BY <2>1 DEF TrustInv, TypeOK, Operate, Approve, Deny, Supersede, Unpin, ReadForPin, columns
    <2> QED BY <2>1, <2>2 DEF Operate, Supersede, Unpin, ReadForPin, columns
  <1>2. CASE Remember \/ \E k \in Captures : Capture(k)
    <2>1. /\ NextEntry \in Entries
          /\ status' = [status EXCEPT ![NextEntry] = "pending"]
      BY <1>2 DEF Remember, Capture
    <2>2. status[NextEntry] = "absent"
      BY <2>1, NewRow DEF TrustInv
    <2> QED BY <2>1, <2>2 DEF TrustInv, TypeOK
  <1>3. CASE Backfill
    BY <1>3 DEF Backfill
  <1>4. CASE \E a \in Actors : a \in Captures /\ StampCapture(a)
    BY <1>4 DEF StampCapture
  <1>5. CASE UNCHANGED status
    BY <1>5
  <1> QED BY <1>1, <1>2, <1>3, <1>4, <1>5 DEF Next, vars, Detect, Continue, RevokePin, CountPinned,
             WritePin, StampVerdict, Crash, columns

(* Backfills, consolidations and captures of other entries never undo an   *)
(* approval or a denial, in any order and at any number of them.           *)
THEOREM DecisionsTheorem == Spec => DecisionsKept
  <1>1. TrustInv /\ [Next]_vars => [\A e \in Entries : DecisionKept(e)]_vars
    BY StepKeepsDecisions
  <1> QED BY <1>1, TrustAlways, PTL DEF Spec, DecisionsKept

-----------------------------------------------------------------------------
(* The cap.  Operators that have passed the check and not written yet      *)
(* stand for at most one pin each.                                         *)
Pinning == {o \in Operators : pc[o] = "pin"}

PinsOne ==
  \A o \in Operators : pc[o] \in {"count", "pin"} => \E e \in Entries : target[o] = {e}

CapInv ==
  /\ TrustInv
  /\ PinsOne
  /\ Cardinality(pinned) + Cardinality(Pinning) <= MaxPinned + Cardinality(Operators) - 1

Countable ==
  /\ IsFiniteSet(pinned) /\ Cardinality(pinned) \in Nat
  /\ IsFiniteSet(Pinning) /\ Cardinality(Pinning) \in Nat
  /\ Cardinality(Pinning) <= Cardinality(Operators)
  /\ Cardinality(Operators) \in Nat \ {0}

LEMMA TypeCountable == TypeOK => Countable
  <1> SUFFICES ASSUME TypeOK PROVE Countable
    OBVIOUS
  <1>1. IsFiniteSet(Entries)
    BY BoundsType, FS_Interval DEF Entries
  <1>2. pinned \subseteq Entries /\ Pinning \subseteq Operators
    BY DEF TypeOK, Stored, Pinning
  <1>3. /\ IsFiniteSet(pinned)
        /\ IsFiniteSet(Pinning) /\ Cardinality(Pinning) <= Cardinality(Operators)
    BY <1>1, <1>2, OperatorsType, FS_Subset
  <1>4. Cardinality(Operators) # 0
    BY OperatorsType, FS_EmptySet
  <1> QED BY <1>3, <1>4, OperatorsType, FS_CardinalityType DEF Countable

LEMMA StepPinsOne ==
  ASSUME TrustInv, PinsOne, [Next]_vars
  PROVE  PinsOne'
  <1> SUFFICES ASSUME NEW o \in Operators, pc'[o] \in {"count", "pin"}
               PROVE  \E e \in Entries : target'[o] = {e}
    BY DEF PinsOne
  <1>1. \/ pc[o] \in {"count", "pin"} /\ target'[o] = target[o]
        \/ \E e \in Stored : target'[o] = {e}
    <2> USE ActorsType DEF Actors, TrustInv, TypeOK, Enter, Leave
    <2>1. CASE \E p \in Operators, e \in Stored : Operate(p, e)
      BY <2>1 DEF Operate, Approve, Deny, Supersede, Unpin, ReadForPin
    <2>2. CASE Remember \/ Backfill \/ UNCHANGED vars
      BY <2>2 DEF Remember, Backfill, vars
    <2>3. CASE \E a \in Captures \cup Consolidators : Capture(a) \/ Detect(a)
      BY <2>3 DEF Capture, Detect
    <2>4. CASE \E a \in Actors : Continue(a) \/ Crash(a)
      BY <2>4 DEF Continue, StampCapture, RevokePin, CountPinned, WritePin, StampVerdict, Crash
    <2> QED BY <2>1, <2>2, <2>3, <2>4 DEF Next
  <1> QED BY <1>1 DEF PinsOne, Stored

(* What a step does to the pins and to the operators about to pin.         *)
LEMMA StepPinning ==
  ASSUME TrustInv, PinsOne, [Next]_vars
  PROVE  \/ pinned' \subseteq pinned /\ Pinning' \subseteq Pinning
         \/ pinned' = pinned /\ Cardinality(pinned) < MaxPinned
         \/ \E o \in Pinning, e \in Entries :
               pinned' = pinned \cup {e} /\ Pinning' = Pinning \ {o}
  <1> USE ActorsType DEF Actors, TrustInv, TypeOK, Enter, Leave, Pinning
  <1>1. CASE \E p \in Operators, e \in Stored : Operate(p, e)
    BY <1>1 DEF Operate, Approve, Deny, Supersede, Unpin, ReadForPin, columns
  <1>2. CASE Remember \/ Backfill \/ UNCHANGED vars
    BY <1>2 DEF Remember, Backfill, vars
  <1>3. CASE \E a \in Captures \cup Consolidators : Capture(a) \/ Detect(a)
    BY <1>3 DEF Capture, Detect, columns
  <1>4. CASE \E a \in Operators : WritePin(a)
    <2>1. PICK a \in Operators : WritePin(a)
      BY <1>4
    <2>2. PICK e \in Entries : target[a] = {e}
      BY <2>1 DEF PinsOne, WritePin
    <2>3. a \in Pinning /\ pinned' = pinned \cup {e}
      BY <2>1, <2>2 DEF WritePin
    <2>4. Pinning' = Pinning \ {a}
      BY <2>1 DEF WritePin
    <2> QED BY <2>3, <2>4
  <1>5. CASE \E a \in Operators : CountPinned(a)
    BY <1>5 DEF CountPinned, columns
  <1>6. CASE \E a \in Operators : RevokePin(a)
    BY <1>6 DEF RevokePin
  <1>7. CASE \E a \in Captures \cup Consolidators : StampCapture(a) \/ StampVerdict(a)
    BY <1>7 DEF StampCapture, StampVerdict
  <1>8. CASE \E a \in Actors : Crash(a)
    BY <1>8 DEF Crash, columns
  <1>9. CASE \E a \in Actors : Continue(a)
    BY ONLY <1>4, <1>5, <1>6, <1>7, <1>9 DEF Continue
  <1> HIDE DEF Actors, TrustInv, TypeOK, Enter, Leave, Pinning
  <1> QED BY <1>1, <1>2, <1>3, <1>8, <1>9 DEF Next

LEMMA StepCap ==
  ASSUME CapInv, [Next]_vars
  PROVE  CapInv'
  <1>0. TypeOK /\ TypeOK' /\ TrustInv' /\ PinsOne'
    BY StepTrust, StepPinsOne DEF CapInv, TrustInv
  <1>1. Countable
    BY <1>0, TypeCountable
  <1>2. Countable'
    <2>1. (TypeOK => Countable)'
      BY TypeCountable, PTL
    <2> QED BY <1>0, <2>1
  <1> DEFINE P == Cardinality(pinned)
             G == Cardinality(Pinning)
             N == Cardinality(Operators)
  <1>3. P \in Nat /\ P' \in Nat /\ G \in Nat /\ G' \in Nat /\ N \in Nat \ {0} /\ MaxPinned \in Nat
    BY <1>1, <1>2, BoundsType DEF Countable
  <1>4. CASE pinned' \subseteq pinned /\ Pinning' \subseteq Pinning
    <2>1. P' <= P /\ G' <= G
      BY <1>1, <1>4, FS_Subset DEF Countable
    <2>2. P' + G' <= MaxPinned + N - 1
      BY <1>3, <2>1 DEF CapInv
    <2> QED BY <1>0, <2>2 DEF CapInv
  <1>5. CASE pinned' = pinned /\ P < MaxPinned
    <2>1. P' = P /\ G' <= N
      BY <1>2, <1>5 DEF Countable
    <2>2. P' + G' <= MaxPinned + N - 1
      BY <1>3, <1>5, <2>1
    <2> QED BY <1>0, <2>2 DEF CapInv
  <1>6. CASE \E o \in Pinning, e \in Entries : pinned' = pinned \cup {e} /\ Pinning' = Pinning \ {o}
    <2>1. PICK o \in Pinning, e \in Entries : pinned' = pinned \cup {e} /\ Pinning' = Pinning \ {o}
      BY <1>6
    <2>2. G' = G - 1
      BY <1>1, <2>1, FS_RemoveElement DEF Countable
    <2>3. P' = P \/ P' = P + 1
      BY <1>1, <2>1, FS_AddElement DEF Countable
    <2>4. P + G <= MaxPinned + N - 1
      BY DEF CapInv
    <2>5. P' + G' <= MaxPinned + N - 1
      BY <1>3, <2>2, <2>3, <2>4
    <2> QED BY <1>0, <2>5 DEF CapInv
  <1> QED BY <1>4, <1>5, <1>6, StepPinning DEF CapInv

LEMMA CapAlways == Spec => []CapInv
  <1>1. Init => CapInv
    <2> SUFFICES ASSUME Init PROVE CapInv
      OBVIOUS
    <2>1. TrustInv
      BY InitTrust
    <2>2. pinned = {} /\ Pinning = {} /\ PinsOne
      BY DEF Init, Pinning, PinsOne, Actors
    <2>3. Cardinality(Operators) \in Nat \ {0}
      BY <2>1, TypeCountable DEF TrustInv, Countable
    <2> QED BY <2>1, <2>2, <2>3, FS_EmptySet, BoundsType DEF CapInv
  <1>2. CapInv /\ [Next]_vars => CapInv'
    BY StepCap
  <1> QED BY <1>1, <1>2, PTL DEF Spec

(* n operators exceed MAX_PINNED by n - 1 at most: each one between its    *)
(* check and its write has seen room for one more.                         *)
THEOREM CapTheorem == Spec => []CapOvershoot
  <1>1. CapInv => CapOvershoot
    <2> SUFFICES ASSUME CapInv PROVE CapOvershoot
      OBVIOUS
    <2>1. Countable
      BY TypeCountable DEF CapInv, TrustInv
    <2> QED BY <2>1, BoundsType DEF CapInv, CapOvershoot, Countable
  <1> QED BY <1>1, CapAlways, PTL

-----------------------------------------------------------------------------
(* Operators that take turns.  Then what one of them has checked cannot    *)
(* have changed when it writes, whatever captures, direct writes and       *)
(* consolidations did in between: they write other columns, or entries     *)
(* that are not fully trusted.                                             *)
TakingTurns == \A o, p \in Operators : ~Idle(o) /\ ~Idle(p) => o = p

ApprovedOrLeaving ==
  \A e \in pinned :
    status[e] = "approved" \/ \E o \in Operators : pc[o] = "unpin" /\ e \in target[o]

ReadApproved ==
  \A o \in Operators :
    pc[o] \in {"count", "pin"} => \A e \in target[o] : status[e] = "approved"

RoomToPin == \A o \in Operators : pc[o] = "pin" => Cardinality(pinned) < MaxPinned

TurnsInv ==
  /\ TakingTurns
  /\ ApprovedOrLeaving
  /\ ReadApproved
  /\ RoomToPin
  /\ Cardinality(pinned) <= MaxPinned

QuietInv == TrustInv /\ PinsOne /\ (Undisturbed => TurnsInv)

LEMMA OperateTurns ==
  ASSUME TrustInv, TurnsInv, Countable, Countable',
         NEW o \in Operators, NEW e \in Stored, Operate(o, e), ~overlapped'
  PROVE  TurnsInv'
  <1>0. \A p \in Operators : pc[p] = "idle"
    BY DEF Operate, Idle
  <1>1. \A p \in Operators : p # o => pc'[p] = "idle"
    BY <1>0 DEF TrustInv, TypeOK, Actors, Operate, Approve, Deny, Supersede, Unpin, ReadForPin, Enter
  <1>2. pinned' \subseteq pinned /\ e \in Entries /\ pc'[o] # "pin"
    BY <1>0 DEF Operate, Approve, Deny, Supersede, Unpin, ReadForPin, columns, Stored,
       TrustInv, TypeOK, Actors, Enter
  <1>3. Cardinality(pinned') <= Cardinality(pinned)
    BY <1>2, FS_Subset DEF Countable
  <1>4. \A f \in pinned : status[f] = "approved"
    BY <1>0 DEF TurnsInv, ApprovedOrLeaving
  <1>5. ApprovedOrLeaving'
    <2>1. CASE Deny(o, e)
      <3>1. pc'[o] = "unpin" /\ target'[o] = {e}
        BY <2>1 DEF TrustInv, TypeOK, Actors, Deny, Enter
      <3>2. \A f \in Entries : f # e => status'[f] = status[f]
        BY <2>1 DEF TrustInv, TypeOK, Deny
      <3> QED BY <1>2, <1>4, <3>1, <3>2 DEF ApprovedOrLeaving, TrustInv, TypeOK, Stored
    <2>2. CASE \A f \in Entries : status[f] = "approved" => status'[f] = "approved"
      BY <1>2, <1>4, <2>2 DEF ApprovedOrLeaving, TrustInv, TypeOK, Stored
    <2> QED BY <2>1, <2>2 DEF Operate, Approve, Supersede, Unpin, ReadForPin, columns, TrustInv, TypeOK
  <1>6. ReadApproved'
    <2>1. CASE ReadForPin(o, e)
      BY <1>1, <2>1 DEF ReadApproved, ReadForPin, Eligible, columns, Enter, TrustInv, TypeOK, Actors
    <2>2. CASE pc'[o] \notin {"count", "pin"}
      BY <1>1, <2>2 DEF ReadApproved
    <2> QED BY <1>0, <2>1, <2>2 DEF Operate, Approve, Deny, Supersede, Unpin, Enter, TrustInv, TypeOK, Actors
  <1>7. TakingTurns'
    BY <1>1 DEF TakingTurns, Idle
  <1>8. RoomToPin'
    BY <1>1, <1>2 DEF RoomToPin
  <1>9. Cardinality(pinned') <= MaxPinned
    BY <1>3, BoundsType DEF TurnsInv, Countable
  <1> QED BY <1>5, <1>6, <1>7, <1>8, <1>9 DEF TurnsInv

(* The other processes: no operator moves, and they write the status of    *)
(* new or unstamped rows, or, when nobody is busy, of pending rows.        *)
LEMMA OthersTurns ==
  ASSUME TrustInv, TypeOK', TurnsInv, UNCHANGED pinned,
         \A o \in Operators : pc'[o] = pc[o] /\ target'[o] = target[o],
         \A e \in Entries : trust[e] = Full /\ status[e] = "approved" => status'[e] = "approved"
  PROVE  TurnsInv'
  <1>1. \A e \in pinned : e \in Entries /\ trust[e] = Full
    BY DEF TrustInv, TypeOK, Stored
  <1>2. ApprovedOrLeaving'
    BY <1>1 DEF TurnsInv, ApprovedOrLeaving
  <1>3. ReadApproved'
    <2>1. \A o \in Operators : \A e \in target[o] : e \in Entries
      BY DEF TrustInv, TypeOK, Stored, Actors
    <2> QED BY <2>1 DEF TrustInv, TurnsInv, ReadTrusted, ReadApproved
  <1> QED BY <1>2, <1>3 DEF TurnsInv, TakingTurns, RoomToPin, Idle

LEMMA ContinueTurns ==
  ASSUME TrustInv, TurnsInv, PinsOne, Countable, Countable', NEW o \in Operators,
         RevokePin(o) \/ CountPinned(o) \/ WritePin(o)
  PROVE  TurnsInv'
  <1>0. \A p \in Operators : p # o => pc[p] = "idle"
    BY DEF TurnsInv, TakingTurns, Idle, RevokePin, CountPinned, WritePin
  <1>1. \A p \in Operators : p # o => pc'[p] = "idle"
    BY <1>0 DEF TrustInv, TypeOK, Actors, RevokePin, CountPinned, WritePin, Leave, Enter
  <1>2. TakingTurns' /\ status' = status
    BY <1>1 DEF TakingTurns, Idle, RevokePin, CountPinned, WritePin, columns
  <1>3. CASE RevokePin(o)
    <2>1. pc'[o] = "idle" /\ pinned' = pinned \ target[o]
      BY <1>3 DEF TrustInv, TypeOK, Actors, RevokePin, Leave, Enter
    <2>2. Cardinality(pinned') <= MaxPinned
      <3>1. Cardinality(pinned') <= Cardinality(pinned)
        BY <2>1, FS_Subset DEF Countable
      <3> QED BY <3>1, BoundsType DEF Countable, TurnsInv
    <2>3. ApprovedOrLeaving'
      BY <1>0, <1>2, <2>1 DEF TurnsInv, ApprovedOrLeaving
    <2>4. ReadApproved' /\ RoomToPin'
      BY <1>1, <2>1 DEF ReadApproved, RoomToPin
    <2> QED BY <1>2, <2>2, <2>3, <2>4 DEF TurnsInv
  <1>4. CASE CountPinned(o)
    <2>1. /\ pinned' = pinned /\ pc[o] = "count"
          /\ \/ pc'[o] = "idle"
             \/ pc'[o] = "pin" /\ target'[o] = target[o] /\ Cardinality(pinned) < MaxPinned
      BY <1>4 DEF TrustInv, TypeOK, Actors, CountPinned, columns, Leave, Enter
    <2>2. ApprovedOrLeaving'
      BY <1>0, <1>2, <2>1 DEF TurnsInv, ApprovedOrLeaving
    <2>3. ReadApproved' /\ RoomToPin'
      BY <1>1, <1>2, <2>1 DEF TurnsInv, ReadApproved, RoomToPin
    <2> QED BY <1>2, <2>1, <2>2, <2>3 DEF TurnsInv
  <1>5. CASE WritePin(o)
    <2>1. pc'[o] = "idle" /\ pinned' = pinned \cup target[o] /\ pc[o] = "pin"
      BY <1>5 DEF TrustInv, TypeOK, Actors, WritePin, Leave, Enter
    <2>2. PICK e \in Entries : target[o] = {e}
      BY <2>1 DEF PinsOne
    <2>3. Cardinality(pinned) < MaxPinned
      BY <2>1 DEF TurnsInv, RoomToPin
    <2>4. Cardinality(pinned') <= MaxPinned
      <3>1. \/ Cardinality(pinned') = Cardinality(pinned)
            \/ Cardinality(pinned') = Cardinality(pinned) + 1
        BY <2>1, <2>2, FS_AddElement DEF Countable
      <3> QED BY <2>3, <3>1, BoundsType DEF Countable
    <2>5. ApprovedOrLeaving'
      BY <1>0, <1>2, <2>1, <2>2 DEF TurnsInv, ApprovedOrLeaving, ReadApproved
    <2>6. ReadApproved' /\ RoomToPin'
      BY <1>1, <2>1 DEF ReadApproved, RoomToPin
    <2> QED BY <1>2, <2>4, <2>5, <2>6 DEF TurnsInv
  <1> QED BY <1>3, <1>4, <1>5

LEMMA StepQuiet ==
  ASSUME QuietInv, [Next]_vars
  PROVE  QuietInv'
  <1>0. TrustInv' /\ PinsOne' /\ TypeOK' /\ Countable
    BY StepTrust, StepPinsOne, TypeCountable DEF QuietInv, TrustInv
  <1>1. Countable'
    <2>1. (TypeOK => Countable)'
      BY TypeCountable, PTL
    <2> QED BY <1>0, <2>1
  <1> SUFFICES ASSUME Undisturbed' PROVE TurnsInv'
    BY <1>0 DEF QuietInv
  <1>2. TrustInv /\ PinsOne /\ overlapped \in BOOLEAN /\ crashes \in 0..MaxCrashes
    BY DEF QuietInv, TrustInv, TypeOK
  <1>3. CASE \E o \in Operators, e \in Stored : Operate(o, e)
    <2>1. ~overlapped /\ crashes' = crashes /\ ~overlapped'
      BY <1>3 DEF Undisturbed, Operate, Approve, Deny, Supersede, Unpin, ReadForPin
    <2>2. TurnsInv
      BY <2>1 DEF QuietInv, Undisturbed
    <2> QED BY <1>0, <1>1, <1>2, <1>3, <2>1, <2>2, OperateTurns
  <1>4. CASE UNCHANGED overlapped /\ \E a \in Actors : Crash(a)
    BY <1>2, <1>4 DEF Undisturbed, Crash
  <1>5. CASE UNCHANGED <<overlapped, crashes>>
    <2>1. TurnsInv
      BY <1>5 DEF QuietInv, Undisturbed
    <2>2. CASE \E o \in Operators : RevokePin(o) \/ CountPinned(o) \/ WritePin(o)
      BY <1>0, <1>1, <1>2, <2>1, <2>2, ContinueTurns
    <2>3. ASSUME UNCHANGED pinned,
                 \A o \in Operators : pc'[o] = pc[o] /\ target'[o] = target[o],
                 \A e \in Entries : trust[e] = Full /\ status[e] = "approved"
                                     => status'[e] = "approved"
          PROVE  TurnsInv'
      BY <1>0, <1>2, <2>1, <2>3, OthersTurns
    <2>4. CASE Remember \/ \E k \in Captures : Capture(k)
      <3>1. /\ NextEntry \in Entries
            /\ status' = [status EXCEPT ![NextEntry] = "pending"]
            /\ UNCHANGED pinned
        BY <2>4 DEF Remember, Capture
      <3>2. status[NextEntry] = "absent"
        BY <1>2, <3>1, NewRow DEF TrustInv
      <3>3. \A o \in Operators : pc'[o] = pc[o] /\ target'[o] = target[o]
        BY <1>2, <2>4, ActorsType DEF TrustInv, TypeOK, Actors, Remember, Capture, Enter
      <3> QED BY <1>2, <2>3, <3>1, <3>2, <3>3 DEF TrustInv, TypeOK
    <2>5. CASE Backfill \/ UNCHANGED vars
      BY <2>3, <2>5 DEF Backfill, vars
    <2>6. CASE \E k \in Captures : StampCapture(k)
      <3>1. PICK k \in Captures : StampCapture(k)
        BY <2>6
      <3>2. \A e \in target[k] : trust[e] # Full
        BY <1>2, <3>1 DEF TrustInv, UnstampedLow, StampCapture
      <3>3. \A o \in Operators : pc'[o] = pc[o] /\ target'[o] = target[o]
        BY <1>2, <3>1, ActorsType DEF TrustInv, TypeOK, Actors, StampCapture, Leave, Enter
      <3> QED BY <2>3, <3>1, <3>2, <3>3 DEF StampCapture
    <2>7. CASE \E d \in Consolidators : Detect(d) \/ StampVerdict(d)
      <3>1. \A o \in Operators : pc'[o] = pc[o] /\ target'[o] = target[o]
        BY <1>2, <2>7, ActorsType
           DEF TrustInv, TypeOK, Actors, Detect, StampVerdict, Leave, Enter
      <3> QED BY <2>3, <2>7, <3>1 DEF Detect, StampVerdict, columns
    <2> QED BY <1>5, <2>2, <2>4, <2>5, <2>6, <2>7, <1>3, <1>4 DEF Next, Continue
  <1> QED BY <1>3, <1>4, <1>5 DEF Next, vars, Remember, Backfill, Capture, Detect, Continue,
             StampCapture, RevokePin, CountPinned, WritePin, StampVerdict

LEMMA QuietAlways == Spec => []QuietInv
  <1>1. Init => QuietInv
    <2> SUFFICES ASSUME Init PROVE QuietInv
      OBVIOUS
    <2>1. TrustInv
      BY InitTrust
    <2>2. pinned = {} /\ \A o \in Operators : pc[o] = "idle"
      BY DEF Init, Actors
    <2>3. PinsOne /\ TurnsInv
      BY <2>2, FS_EmptySet, BoundsType DEF PinsOne, TurnsInv, TakingTurns, Idle, ApprovedOrLeaving,
         ReadApproved, RoomToPin
    <2> QED BY <2>1, <2>3 DEF QuietInv
  <1>2. QuietInv /\ [Next]_vars => QuietInv'
    BY StepQuiet
  <1> QED BY <1>1, <1>2, PTL DEF Spec

(* While operators take turns and no call is cut short, the core tier      *)
(* holds approved, fully trusted entries only, within its cap, whenever no *)
(* operation is under way, however many captures, direct writes and        *)
(* consolidations run meanwhile.                                           *)
THEOREM QuietTheorem == Spec => []QuietCoreTier
  <1>1. QuietInv => QuietCoreTier
    <2> SUFFICES ASSUME QuietInv, Undisturbed, Quiet PROVE
          (\A e \in pinned : Eligible(e)) /\ Cardinality(pinned) <= MaxPinned
      BY DEF QuietCoreTier
    <2>1. \A o \in Operators : pc[o] = "idle"
      BY DEF Quiet, Idle, Actors
    <2>2. \A e \in pinned : status[e] = "approved" /\ trust[e] = Full
      BY <2>1 DEF QuietInv, TurnsInv, ApprovedOrLeaving, TrustInv
    <2> QED BY <2>2 DEF QuietInv, TurnsInv, Eligible, PinTrustThreshold, Full
  <1> QED BY <1>1, QuietAlways, PTL

=============================================================================
