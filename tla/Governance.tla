----------------------------- MODULE Governance -----------------------------
(***************************************************************************)
(* The governance columns of memory_entries (status, trust_score,          *)
(* valid_to, pinned) and everyone who writes them: the capture drain,      *)
(* which stores an entry and stamps it in a second transaction; operators, *)
(* who approve, deny, supersede, pin and unpin; the contradiction detector *)
(* of a consolidation run; and the one-off backfill.  Every call of        *)
(* set_governance is one transaction, every read another moment.           *)
(***************************************************************************)
EXTENDS Naturals, FiniteSets

CONSTANTS
  MaxEntries,     (* bound: entries, numbered in the order of created_at   *)
  Operators,      (* threads or processes with the admin role              *)
  Captures,       (* capture drains                                        *)
  Consolidators,  (* threads that run consolidate() with a classifier      *)
  MaxPinned,      (* MAX_PINNED                                            *)
  MaxCrashes      (* bound: calls cut short by the end of their process    *)

Actors == Operators \cup Captures \cup Consolidators
Entries == 1..MaxEntries

ASSUME ActorsType ==
  /\ Operators \cap (Captures \cup Consolidators) = {}
  /\ Captures \cap Consolidators = {}
ASSUME OperatorsType == IsFiniteSet(Operators) /\ Operators # {}
ASSUME BoundsType ==
  /\ MaxEntries \in Nat /\ MaxPinned \in Nat
  /\ MaxCrashes \in Nat

VARIABLES
  status,    (* status[e]: the column, "absent" while e is not stored      *)
  trust,     (* trust[e]: trust_score: Unscored, Captured or Full          *)
  superseded,(* entries whose valid_to is not NULL                         *)
  pinned,    (* entries with pinned = 1                                    *)
  pc,        (* pc[a]: where actor a is in its call                        *)
  target,    (* target[a]: the entries that call still has to write        *)
  crashes,   (* calls cut short so far                                     *)
  overlapped (* history: an operator acted while another was in a call     *)

columns == <<status, trust, superseded, pinned>>
vars == <<status, trust, superseded, pinned, pc, target, crashes, overlapped>>

(* trust_score as far as policies tell values apart: NULL, the 0.5 of the  *)
(* capture gate, the 1.0 of the backfill.                                  *)
Unscored == 0
Captured == 1
Full == 2
PinTrustThreshold == Full

Stored == {e \in Entries : status[e] # "absent"}
Idle(a) == pc[a] = "idle"
Quiet == \A a \in Actors : Idle(a)
Steps == {"idle", "stamp", "unpin", "count", "pin", "verdicts"}

Enter(a, step, S) ==
  /\ pc' = [pc EXCEPT ![a] = step]
  /\ target' = [target EXCEPT ![a] = S]
Leave(a) == Enter(a, "idle", {})

Init ==
  /\ status = [e \in Entries |-> "absent"]
  /\ trust = [e \in Entries |-> Unscored]
  /\ superseded = {}
  /\ pinned = {}
  /\ pc = [a \in Actors |-> "idle"]
  /\ target = [a \in Actors |-> {}]
  /\ crashes = 0
  /\ overlapped = FALSE

-----------------------------------------------------------------------------
(* remember(): the columns take their defaults.  A direct caller stops     *)
(* there; the capture drain goes on to stamp its entry.                    *)
NextEntry == Cardinality(Stored) + 1

Remember ==
  /\ NextEntry \in Entries
  /\ status' = [status EXCEPT ![NextEntry] = "pending"]
  /\ UNCHANGED <<trust, superseded, pinned, pc, target, crashes>>

Capture(k) ==
  /\ Idle(k)
  /\ NextEntry \in Entries
  /\ status' = [status EXCEPT ![NextEntry] = "pending"]
  /\ Enter(k, "stamp", {NextEntry})
  /\ UNCHANGED <<trust, superseded, pinned, crashes>>

(* The gate's decision for a record without secrets and without a caller.  *)
StampCapture(k) ==
  /\ pc[k] = "stamp"
  /\ status' = [e \in Entries |-> IF e \in target[k] THEN "pending" ELSE status[e]]
  /\ trust' = [e \in Entries |-> IF e \in target[k] THEN Captured ELSE trust[e]]
  /\ Leave(k)
  /\ UNCHANGED <<superseded, pinned, crashes>>

(* Slip: the UPDATE has no WHERE status = 'pending'.                       *)
BackfillAll ==
  /\ Quiet
  /\ status' = [e \in Entries |-> IF status[e] # "absent" THEN "approved" ELSE status[e]]
  /\ trust' = [e \in Entries |-> IF status[e] = "pending" /\ trust[e] = Unscored
                                 THEN Full ELSE trust[e]]
  /\ UNCHANGED <<superseded, pinned, pc, target, crashes>>

(* backfill_governance_columns: run with the daemons stopped, once or      *)
(* again, over all rows.                                                   *)
Backfill ==
  /\ Quiet
  /\ status' = [e \in Entries |-> IF status[e] = "pending" THEN "approved" ELSE status[e]]
  /\ trust' = [e \in Entries |-> IF status[e] = "pending" /\ trust[e] = Unscored
                                 THEN Full ELSE trust[e]]
  /\ UNCHANGED <<superseded, pinned, pc, target, crashes>>

-----------------------------------------------------------------------------
(* lifecycle.py.  Denial and supersession write a column, then unpin.      *)
Approve(o, e) ==
  /\ Idle(o)
  /\ status' = [status EXCEPT ![e] = "approved"]
  /\ UNCHANGED <<trust, superseded, pinned, pc, target, crashes>>

(* Slip: a denial does not unpin.                                          *)
DenyOnly(o, e) ==
  /\ Idle(o)
  /\ status' = [status EXCEPT ![e] = "denied"]
  /\ UNCHANGED <<pc, target>>
  /\ UNCHANGED <<trust, superseded, pinned, crashes>>

Deny(o, e) ==
  /\ Idle(o)
  /\ status' = [status EXCEPT ![e] = "denied"]
  /\ Enter(o, "unpin", {e})
  /\ UNCHANGED <<trust, superseded, pinned, crashes>>

(* The time supersede() is given, or the clock's, is not told apart.       *)
Supersede(o, e) ==
  /\ Idle(o)
  /\ superseded' = superseded \cup {e}
  /\ Enter(o, "unpin", {e})
  /\ UNCHANGED <<status, trust, pinned, crashes>>

RevokePin(o) ==
  /\ pc[o] = "unpin"
  /\ pinned' = pinned \ target[o]
  /\ Leave(o)
  /\ UNCHANGED <<status, trust, superseded, crashes>>

Unpin(o, e) ==
  /\ Idle(o)
  /\ pinned' = pinned \ {e}
  /\ UNCHANGED <<status, trust, superseded, pc, target, crashes>>

(* Slip: a missing trust score passes.                                     *)
EligibleFailOpen(e) == status[e] = "approved" /\ (trust[e] = Unscored \/ trust[e] >= PinTrustThreshold)

(* core_tier.py: pin reads the entry, then the number of pinned entries,   *)
(* decides by can_pin, then writes.  A refusal is a ValueError.            *)
Eligible(e) == status[e] = "approved" /\ trust[e] >= PinTrustThreshold

ReadForPin(o, e) ==
  /\ Idle(o)
  /\ Eligible(e)
  /\ Enter(o, "count", {e})
  /\ UNCHANGED <<columns, crashes>>

(* Slip: the cap is compared with > instead of >=.                         *)
CountPinnedInclusive(o) ==
  /\ pc[o] = "count"
  /\ IF Cardinality(pinned) <= MaxPinned THEN Enter(o, "pin", target[o]) ELSE Leave(o)
  /\ UNCHANGED <<columns, crashes>>

CountPinned(o) ==
  /\ pc[o] = "count"
  /\ IF Cardinality(pinned) < MaxPinned THEN Enter(o, "pin", target[o]) ELSE Leave(o)
  /\ UNCHANGED <<columns, crashes>>

WritePin(o) ==
  /\ pc[o] = "pin"
  /\ pinned' = pinned \cup target[o]
  /\ Leave(o)
  /\ UNCHANGED <<status, trust, superseded, crashes>>

-----------------------------------------------------------------------------
(* detect_and_resolve: pairs are read once and classified, which takes     *)
(* long; then one entry of each contradictory pair is stamped: the older,  *)
(* or the one that a language model names.  Any pair may be found          *)
(* contradictory, on every run again.                                      *)
Detect(d) ==
  /\ Idle(d)
  /\ \E S \in SUBSET Stored :
       /\ S # {} /\ Cardinality(Stored) > 1
       /\ Enter(d, "verdicts", S)
  /\ UNCHANGED <<columns, crashes>>

StampVerdict(d) ==
  /\ pc[d] = "verdicts"
  /\ \E e \in target[d] :
       /\ superseded' = superseded \cup {e}
       /\ IF target[d] = {e} THEN Leave(d) ELSE Enter(d, "verdicts", target[d] \ {e})
  /\ UNCHANGED <<status, trust, pinned, crashes>>

Crash(a) ==
  /\ ~Idle(a)
  /\ crashes < MaxCrashes
  /\ crashes' = crashes + 1
  /\ Leave(a)
  /\ UNCHANGED <<columns>>

-----------------------------------------------------------------------------
Operate(o, e) ==
  /\ \/ Approve(o, e)
     \/ Deny(o, e)
     \/ Supersede(o, e)
     \/ Unpin(o, e)
     \/ ReadForPin(o, e)
  /\ overlapped' = (overlapped \/ \E other \in Operators : ~Idle(other))

(* What a call under way does next.                                        *)
Continue(a) ==
  \/ a \in Captures /\ StampCapture(a)
  \/ a \in Operators /\ (RevokePin(a) \/ CountPinned(a) \/ WritePin(a))
  \/ a \in Consolidators /\ StampVerdict(a)

Next ==
  \/ \E o \in Operators, e \in Stored : Operate(o, e)
  \/ /\ \/ Remember
        \/ Backfill
        \/ \E k \in Captures : Capture(k)
        \/ \E d \in Consolidators : Detect(d)
        \/ \E a \in Actors : Continue(a) \/ Crash(a)
     /\ UNCHANGED overlapped

Spec == Init /\ [][Next]_vars

-----------------------------------------------------------------------------
TypeOK ==
  /\ status \in [Entries -> {"absent", "pending", "approved", "denied"}]
  /\ trust \in [Entries -> {Unscored, Captured, Full}]
  /\ superseded \subseteq Stored
  /\ pinned \subseteq Stored
  /\ pc \in [Actors -> Steps]
  /\ target \in [Actors -> SUBSET Stored]
  /\ \A a \in Actors : Idle(a) <=> target[a] = {}
  /\ crashes \in 0..MaxCrashes
  /\ overlapped \in BOOLEAN

(* "Fails CLOSED": however operators, captures, backfills and crashes      *)
(* interleave, an entry nobody scored as fully trusted is never in the     *)
(* core tier (can_pin against every writer of trust_score).                *)
PinnedTrusted == \A e \in pinned : trust[e] >= PinTrustThreshold

(* MAX_PINNED is checked before the write: n operators can exceed the cap  *)
(* by n - 1 and never by more (pin against pin).                           *)
CapOvershoot == Cardinality(pinned) <= MaxPinned + Cardinality(Operators) - 1

Undisturbed == ~overlapped /\ crashes = 0

(* While operators take turns and no call is cut short, captures, direct   *)
(* writes and consolidations run at any time: whenever no operation is     *)
(* under way the core tier holds approved, trusted entries only, within    *)
(* the cap (pin, deny and the unpin of deny; capture's stamp).             *)
QuietCoreTier ==
  Undisturbed /\ Quiet => /\ \A e \in pinned : Eligible(e)
                          /\ Cardinality(pinned) <= MaxPinned

(* An approval or a denial is only ever undone by an operator, except      *)
(* while the capture that stored the entry has not stamped it yet:         *)
(* backfill "can never revive a denied/approved decision", and a           *)
(* consolidation or another entry's capture leaves it alone.               *)
DecisionKept(e) ==
  (/\ status[e] \in {"approved", "denied"} /\ status'[e] # status[e]
   /\ \A k \in Captures : e \notin target[k])
    => \E o \in Operators : Approve(o, e) \/ Deny(o, e)

DecisionsKept == [][\A e \in Entries : DecisionKept(e)]_vars

=============================================================================
