---------------------------- MODULE AccessProofs ----------------------------
(***************************************************************************)
(* Theorems about Access and the RateLimiter it EXTENDS, for any agents,   *)
(* names and sessions, and any capacities, rates and intervals that        *)
(* LimitsType and FullBeforeEviction admit.                                *)
(*                                                                         *)
(* What is said of the limiter follows from how Level moves: by Rate, up   *)
(* to Capacity, with every tick; by Unit with every call granted; and not  *)
(* at all when a bucket is made, filled or dropped, since a bucket is      *)
(* dropped only when it has been full for a while.                         *)
(*                                                                         *)
(* An operation of a revoked agent can only be one that the middleware had *)
(* let in before.  LateInv adds what makes that inductive: rows are never  *)
(* deleted, so that no new agent takes over a call; and once the operation *)
(* that was under way has been carried out, none is.                       *)
(*                                                                         *)
(* The middleware moves the limiter as RateLimiter says or not at all, so  *)
(* its theorems hold here too, and a call that is let in and limited takes *)
(* exactly one token from the level.                                       *)
(***************************************************************************)
EXTENDS Access, TLAPS

-----------------------------------------------------------------------------
(* RateLimiter by itself.                                                  *)

LEMMA ProductGrows ==
  ASSUME NEW m \in Nat, NEW n \in Nat, NEW r \in Nat, m <= n
  PROVE  m * r \in Nat /\ n * r \in Nat /\ m * r <= n * r
  OBVIOUS

LEMMA OneMore ==
  ASSUME NEW m \in Nat, NEW r \in Nat
  PROVE  (m + 1) * r = m * r + r
  OBVIOUS

(* What rounding up means.                                                 *)
LEMMA RoundedUp ==
  ASSUME NEW d \in Nat \ {0}, NEW r \in Nat \ {0}, NEW q, q = (d + (r - 1)) \div r
  PROVE  /\ q \in Nat \ {0}
         /\ \A t \in Nat : t * r >= d <=> t >= q
  <1>1. q \in Nat /\ q * r <= d + (r - 1) /\ d + (r - 1) < q * r + r
    OBVIOUS
  <1>2. q # 0
    BY <1>1
  <1>3. ASSUME NEW t \in Nat, t >= q PROVE t * r >= d
    BY <1>1, <1>3, ProductGrows
  <1>4. ASSUME NEW t \in Nat, ~(t >= q) PROVE ~(t * r >= d)
    <2>1. (t + 1) * r <= q * r
      BY <1>1, <1>4, ProductGrows
    <2> QED BY <1>1, <2>1, OneMore, ProductGrows
  <1> QED BY <1>1, <1>2, <1>3, <1>4

-----------------------------------------------------------------------------
LEMMA LevelType ==
  ASSUME TypeOK, NEW k \in Keys
  PROVE  Level(k) \in 0..Capacity[k]
  <1>1. (now - last[k]) * Rate[k] \in Nat
    BY LimitsType DEF TypeOK
  <1> QED BY <1>1, LimitsType DEF TypeOK, Level, AtMost

(* A bucket that is dropped is full.                                       *)
LEMMA StaleFull ==
  ASSUME TypeOK, NEW k \in Stale
  PROVE  k \in Keys /\ (now - last[k]) * Rate[k] >= Capacity[k] /\ Level(k) = Capacity[k]
  <1>1. k \in Keys /\ k \in buckets
    BY DEF TypeOK, Stale
  <1>2. now - last[k] \in Nat /\ Ttl + 1 <= now - last[k]
    BY <1>1, LimitsType DEF TypeOK, Stale
  <1>3. (Ttl + 1) * Rate[k] <= (now - last[k]) * Rate[k]
    BY <1>1, <1>2, LimitsType, ProductGrows
  <1>4. (now - last[k]) * Rate[k] >= Capacity[k]
    BY <1>1, <1>2, <1>3, LimitsType, FullBeforeEviction
  <1> QED BY <1>1, <1>2, <1>4, LimitsType DEF TypeOK, Level, AtMost

LEMMA TickLevel ==
  ASSUME TypeOK, Tick, NEW k \in Keys
  PROVE  Level(k)' = AtMost(Level(k) + Rate[k], Capacity[k])
  <1>1. CASE k \notin buckets
    BY <1>1, LimitsType DEF Tick, TypeOK, Level, AtMost
  <1>2. CASE k \in buckets
    <2> DEFINE m == now - last[k]
    <2>1. m \in Nat /\ (now - last[k])' = m + 1
      BY DEF Tick, TypeOK
    <2>2. (m + 1) * Rate[k] = m * Rate[k] + Rate[k] /\ m * Rate[k] \in Nat
      BY <2>1, LimitsType, OneMore, ProductGrows
    <2>3. Level(k) = AtMost(tokens[k] + m * Rate[k], Capacity[k])
      BY <1>2 DEF Level
    <2>4. Level(k)' = AtMost(tokens[k] + (m + 1) * Rate[k], Capacity[k])
      BY <1>2, <2>1 DEF Level, Tick, AtMost
    <2> HIDE DEF m
    <2> QED BY <2>2, <2>3, <2>4, LimitsType DEF TypeOK, AtMost
  <1> QED BY <1>1, <1>2

(* check() answers by the level, whatever it drops or makes.               *)
LEMMA CheckLevel ==
  ASSUME TypeOK, NEW k \in Keys, Check(k)
  PROVE  /\ verdict' = IF Level(k) >= Unit THEN "granted" ELSE "refused"
         /\ tokens'[k] = IF Level(k) >= Unit THEN Level(k) - Unit ELSE Level(k)
         /\ retryAt'[k] = IF Level(k) >= Unit THEN 0 ELSE RetryTime(k, Level(k))
         /\ Level(k)' = tokens'[k]
         /\ \A j \in Keys : j # k => Level(j)' = Level(j)
  <1>1. k \notin Kept => Level(k) = Capacity[k]
    BY StaleFull DEF Kept, Level
  <1>2. (IF k \in Kept THEN Level(k) ELSE Capacity[k]) = Level(k)
    BY <1>1
  <1>3. /\ verdict' = IF Level(k) >= Unit THEN "granted" ELSE "refused"
        /\ tokens'[k] = IF Level(k) >= Unit THEN Level(k) - Unit ELSE Level(k)
        /\ retryAt'[k] = IF Level(k) >= Unit THEN 0 ELSE RetryTime(k, Level(k))
        /\ last'[k] = now
    BY <1>2 DEF Check, TypeOK
  <1>4. k \in buckets' /\ now' = now
    BY DEF Check
  <1>5. tokens'[k] \in 0..Capacity[k]
    BY <1>3, LevelType, LimitsType
  <1>6. Level(k)' = AtMost(tokens'[k] + (now' - last'[k]) * Rate[k], Capacity[k])
    BY <1>4 DEF Level, AtMost
  <1>7. (now' - last'[k]) * Rate[k] = 0
    BY <1>3, <1>4, LimitsType DEF TypeOK
  <1>8. Level(k)' = tokens'[k]
    BY <1>5, <1>6, <1>7, LimitsType DEF AtMost
  <1>9. ASSUME NEW j \in Keys, j # k PROVE Level(j)' = Level(j)
    <2>1. tokens'[j] = tokens[j] /\ last'[j] = last[j] /\ now' = now
      BY <1>9 DEF Check, TypeOK
    <2>2. j \in buckets' <=> j \in Kept
      BY <1>9 DEF Check
    <2>3. CASE j \in Kept
      BY <2>1, <2>2, <2>3 DEF Level, AtMost, Kept
    <2>4. CASE j \notin Kept
      BY <2>2, <2>4, StaleFull DEF Level, Kept
    <2> QED BY <2>3, <2>4
  <1> QED BY <1>3, <1>8, <1>9

-----------------------------------------------------------------------------
LEMMA CheckType ==
  ASSUME TypeOK, NEW k \in Keys, Check(k)
  PROVE  TypeOK'
  <1>1. Level(k) \in 0..Capacity[k] /\ Unit \in Nat /\ now \in Nat
    BY LevelType, LimitsType DEF TypeOK
  <1>2. Level(k) < Unit => RetryTime(k, Level(k)) \in Nat
    <2> SUFFICES ASSUME Level(k) < Unit PROVE RetryTime(k, Level(k)) \in Nat
      OBVIOUS
    <2>1. Unit - Level(k) \in Nat \ {0}
      BY <1>1, LimitsType
    <2>2. ((Unit - Level(k)) + (Rate[k] - 1)) \div Rate[k] \in Nat
      BY <2>1, RoundedUp, LimitsType
    <2> QED BY <1>1, <2>2 DEF RetryTime
  <1>3. tokens'[k] \in 0..Capacity[k] /\ retryAt'[k] \in Nat
    BY <1>1, <1>2, CheckLevel, LimitsType
  <1>4. /\ tokens' = [tokens EXCEPT ![k] = tokens'[k]]
        /\ retryAt' = [retryAt EXCEPT ![k] = retryAt'[k]]
        /\ last' = [last EXCEPT ![k] = now] /\ now' = now
        /\ buckets' = Kept \cup {k} /\ checks' = Counted
        /\ verdict' \in {"granted", "refused"}
    BY DEF Check, TypeOK
  <1>5. tokens' \in [Keys -> Nat] /\ \A j \in Keys : tokens'[j] <= Capacity[j]
    BY <1>3, <1>4, LimitsType DEF TypeOK
  <1>6. retryAt' \in [Keys -> Nat] /\ last' \in [Keys -> 0..MaxTime]
    BY <1>3, <1>4 DEF TypeOK
  <1>7. \A j \in Keys : last'[j] <= now'
    BY <1>4 DEF TypeOK
  <1>8. checks' \in 0..(EvictEvery - 1)
    BY <1>4, LimitsType DEF Counted, TypeOK
  <1>9. buckets' \subseteq Keys
    BY <1>4 DEF TypeOK, Kept
  <1> QED BY <1>4, <1>5, <1>6, <1>7, <1>8, <1>9 DEF TypeOK

LEMMA TypeInit == Init => TypeOK
  BY LimitsType DEF Init, TypeOK

LEMMA TypeStep == TypeOK /\ [Next]_vars => TypeOK'
  <1> SUFFICES ASSUME TypeOK, [Next]_vars PROVE TypeOK'
    OBVIOUS
  <1>1. CASE Tick
    BY <1>1, LimitsType DEF Tick, TypeOK
  <1>2. ASSUME NEW k \in Keys, Check(k) PROVE TypeOK'
    BY <1>2, CheckType
  <1>3. CASE UNCHANGED vars
    BY <1>3 DEF vars, TypeOK
  <1> QED BY <1>1, <1>2, <1>3 DEF Next

(* The type invariant: no bucket ever holds more than its capacity, and    *)
(* the clock never runs behind a refill.                                   *)
THEOREM LimiterTypeCorrect == Spec => []TypeOK
  BY TypeInit, TypeStep, PTL DEF Spec

-----------------------------------------------------------------------------
(* A refused key that has not called since: its bucket is as the refusal   *)
(* left it, or has been dropped, which happens after the time told.        *)
Waiting(k) ==
  retryAt[k] # 0 /\ Unit <= Capacity[k] =>
    /\ tokens[k] < Unit
    /\ retryAt[k] = last[k] + ((Unit - tokens[k]) + (Rate[k] - 1)) \div Rate[k]
    /\ k \notin buckets => now >= retryAt[k]

RetryInv == TypeOK /\ \A k \in Keys : Waiting(k)

(* Seen from the refusal, a token is there after t ticks exactly if t is   *)
(* the time told or more.                                                  *)
LEMMA Enough ==
  ASSUME TypeOK, NEW k \in Keys, Waiting(k), retryAt[k] # 0, Unit <= Capacity[k]
  PROVE  now >= retryAt[k] <=> tokens[k] + (now - last[k]) * Rate[k] >= Unit
  <1> DEFINE d == Unit - tokens[k]
             q == (d + (Rate[k] - 1)) \div Rate[k]
             t == now - last[k]
             p == t * Rate[k]
  <1>1. /\ d \in Nat \ {0} /\ Rate[k] \in Nat \ {0} /\ t \in Nat
        /\ tokens[k] \in Nat /\ last[k] \in Nat /\ now \in Nat /\ Unit \in Nat
        /\ retryAt[k] = last[k] + q
    BY LimitsType DEF TypeOK, Waiting
  <1>2. q \in Nat /\ (p >= d <=> t >= q)
    <2> HIDE DEF d, t
    <2> QED BY <1>1, RoundedUp
  <1>3. p \in Nat
    <2> HIDE DEF t
    <2> QED BY <1>1, ProductGrows
  <1>4. t >= q <=> now >= retryAt[k]
    <2> HIDE DEF q
    <2> QED BY <1>1, <1>2
  <1>5. p >= d <=> tokens[k] + p >= Unit
    <2> HIDE DEF p
    <2> QED BY <1>1, <1>3
  <1> QED BY <1>2, <1>4, <1>5

LEMMA RetryStep == RetryInv /\ [Next]_vars => RetryInv'
  <1> SUFFICES ASSUME RetryInv, [Next]_vars PROVE RetryInv'
    OBVIOUS
  <1>1. TypeOK /\ TypeOK'
    BY TypeStep DEF RetryInv
  <1>2. CASE Tick
    <2> SUFFICES ASSUME NEW k \in Keys PROVE Waiting(k)'
      BY <1>1 DEF RetryInv
    <2>1. Waiting(k) /\ UNCHANGED <<buckets, tokens, last, retryAt>> /\ now' >= now
      BY <1>1, <1>2 DEF RetryInv, Tick, TypeOK
    <2>2. now \in Nat /\ now' \in Nat /\ retryAt[k] \in Nat
      BY <1>1 DEF TypeOK
    <2> QED BY <2>1, <2>2 DEF Waiting
  <1>3. ASSUME NEW k \in Keys, Check(k) PROVE RetryInv'
    <2> SUFFICES ASSUME NEW j \in Keys PROVE Waiting(j)'
      BY <1>1 DEF RetryInv
    <2>1. CASE j = k
      <3>1. k \in buckets' /\ last'[k] = now
        BY <1>1, <1>3 DEF Check, TypeOK
      <3>2. CASE Level(k) >= Unit
        BY <1>1, <1>3, <2>1, <3>2, CheckLevel DEF Waiting
      <3>3. CASE ~(Level(k) >= Unit)
        <4>1. tokens'[k] = Level(k) /\ retryAt'[k] = RetryTime(k, Level(k))
          BY <1>1, <1>3, <3>3, CheckLevel
        <4>2. tokens'[k] < Unit
          BY <1>1, <3>3, <4>1, LevelType, LimitsType
        <4> QED BY <2>1, <3>1, <4>1, <4>2 DEF Waiting, RetryTime
      <3> QED BY <3>2, <3>3
    <2>2. CASE j # k
      <3>1. /\ tokens'[j] = tokens[j] /\ last'[j] = last[j] /\ retryAt'[j] = retryAt[j]
            /\ now' = now /\ (j \in buckets' <=> j \in Kept)
        BY <1>1, <1>3, <2>2 DEF Check, TypeOK
      <3>2. Waiting(j)
        BY DEF RetryInv
      <3>3. ASSUME retryAt[j] # 0, Unit <= Capacity[j], j \notin Kept PROVE now >= retryAt[j]
        <4>1. CASE j \notin buckets
          BY <3>2, <3>3, <4>1 DEF Waiting
        <4>2. CASE j \in Stale
          <5>1. (now - last[j]) * Rate[j] >= Capacity[j]
            BY <1>1, <4>2, StaleFull
          <5>2. tokens[j] + (now - last[j]) * Rate[j] >= Unit
            <6> DEFINE p == (now - last[j]) * Rate[j]
            <6>1. p \in Nat /\ p >= Capacity[j]
              BY <1>1, <5>1, LimitsType, ProductGrows DEF TypeOK
            <6> HIDE DEF p
            <6>2. tokens[j] + p >= Unit
              BY <1>1, <3>3, <6>1, LimitsType DEF TypeOK
            <6> QED BY <6>2 DEF p
          <5> QED BY <1>1, <3>2, <3>3, <5>2, Enough
        <4> QED BY <3>3, <4>1, <4>2 DEF Kept
      <3> QED BY <3>1, <3>2, <3>3 DEF Waiting
    <2> QED BY <2>1, <2>2
  <1>4. CASE UNCHANGED vars
    <2> SUFFICES ASSUME NEW k \in Keys PROVE Waiting(k)'
      BY <1>1 DEF RetryInv
    <2>1. Waiting(k)
      BY DEF RetryInv
    <2> QED BY <1>4, <2>1 DEF vars, Waiting
  <1> QED BY <1>2, <1>3, <1>4 DEF Next

LEMMA RetryImplies == RetryInv => RetryAfterHonest
  <1> SUFFICES ASSUME RetryInv, NEW k \in Keys, retryAt[k] # 0, Unit <= Capacity[k]
               PROVE  now >= retryAt[k] <=> Level(k) >= Unit
    BY DEF RetryAfterHonest
  <1>1. TypeOK /\ Waiting(k)
    BY DEF RetryInv
  <1>2. CASE k \notin buckets
    BY <1>1, <1>2 DEF Waiting, Level
  <1>3. CASE k \in buckets
    <2> DEFINE p == (now - last[k]) * Rate[k]
    <2>1. p \in Nat
      BY <1>1, LimitsType, ProductGrows DEF TypeOK
    <2>2. now >= retryAt[k] <=> tokens[k] + p >= Unit
      BY <1>1, Enough
    <2>3. Level(k) = AtMost(tokens[k] + p, Capacity[k])
      BY <1>3 DEF Level
    <2> HIDE DEF p
    <2>4. Level(k) >= Unit <=> tokens[k] + p >= Unit
      BY <1>1, <2>1, <2>3, LimitsType DEF AtMost, TypeOK
    <2> QED BY <2>2, <2>4
  <1> QED BY <1>2, <1>3

(* The retry time of a refusal is exact, whatever is refilled and dropped  *)
(* while the caller waits.                                                 *)
THEOREM RetryTheorem == Spec => []RetryAfterHonest
  <1>1. Init => RetryInv
    BY TypeInit DEF Init, RetryInv, Waiting
  <1> QED BY <1>1, RetryStep, RetryImplies, PTL DEF Spec

-----------------------------------------------------------------------------
levels == [k \in Keys |-> Level(k)]

LEMMA IdealInit == Init => Ideal!Init
  BY DEF Init, Ideal!Init, Level

LEMMA IdealStep == TypeOK /\ [Next]_vars => [Ideal!Next]_<<levels, verdict>>
  <1> SUFFICES ASSUME TypeOK, [Next]_vars PROVE [Ideal!Next]_<<levels, verdict>>
    OBVIOUS
  <1>1. CASE Tick
    <2>1. levels' = [k \in Keys |-> Ideal!Filled(levels[k] + Rate[k], Capacity[k])]
      BY <1>1, TickLevel DEF levels, Ideal!Filled, AtMost
    <2> QED BY <1>1, <2>1 DEF Ideal!Next, Ideal!Tick, Tick, levels
  <1>2. ASSUME NEW k \in Keys, Check(k) PROVE Ideal!Next
    <2>1. CASE Level(k) >= Unit
      <3>1. levels' = [levels EXCEPT ![k] = @ - Unit] /\ verdict' = "granted"
        BY <1>2, <2>1, CheckLevel DEF levels
      <3> QED BY <2>1, <3>1 DEF Ideal!Next, Ideal!Grant, levels
    <2>2. CASE ~(Level(k) >= Unit)
      <3>1. levels' = levels /\ verdict' = "refused"
        BY <1>2, <2>2, CheckLevel DEF levels
      <3>2. levels[k] < Unit
        BY <2>2, LevelType, LimitsType DEF levels
      <3> QED BY <3>1, <3>2 DEF Ideal!Next, Ideal!Refuse, levels
    <2> QED BY <2>1, <2>2
  <1>3. CASE UNCHANGED vars
    BY <1>3 DEF vars, levels, Level, AtMost
  <1> QED BY <1>1, <1>2, <1>3 DEF Next

(* Lazy refill and eviction implement buckets that are filled at every     *)
(* tick and never dropped.                                                 *)
THEOREM BucketRefinement == Spec => ImplementsTokenBuckets
  <1> QED BY IdealInit, IdealStep, LimiterTypeCorrect, PTL
    DEF Spec, ImplementsTokenBuckets, Ideal!Spec, levels

-----------------------------------------------------------------------------
(* Agents, tokens and calls.                                               *)

TokenRows == [name : Names, role : Roles, revoked : BOOLEAN]

RowsType == rows \in [Agents -> {NoRow} \cup TokenRows]

(* A call is one of an agent that has a row.                               *)
CallerKnown == call # NoRow => call.agent \in Agents /\ rows[call.agent] # NoRow

(* An agent with a late operation is revoked and has no call any more.     *)
LateIsOver ==
  \A a \in Agents :
    late[a] # 0 =>
      /\ late[a] = 1 /\ rows[a] # NoRow /\ rows[a].revoked
      /\ call # NoRow => call.agent # a

LateInv ==
  /\ RowsType
  /\ late \in [Agents -> Nat]
  /\ CallerKnown
  /\ LateIsOver

-----------------------------------------------------------------------------
LEMMA LateInit == AccessInit => LateInv
  BY DEF AccessInit, LateInv, RowsType, CallerKnown, LateIsOver, TokenRows

LEMMA RevokedStays ==
  ASSUME RowsType, NEW n \in Names, RevokeToken(n), NEW a \in Agents
  PROVE  /\ rows'[a] \in {NoRow} \cup TokenRows
         /\ rows[a] = NoRow => rows'[a] = NoRow
         /\ rows[a] # NoRow => rows'[a] \in TokenRows /\ rows'[a] # NoRow
         /\ rows[a] # NoRow /\ rows[a].revoked => rows'[a].revoked
  BY AccessConstants DEF RowsType, RevokeToken, TokenRows

(* Let in, refused or charged: a call that is let in is one of an agent    *)
(* whose token is not revoked, and nothing is executed.                    *)
LEMMA ProcessKeeps ==
  ASSUME LateInv, NEW a \in Agents, NEW t \in Tools, NEW big \in BOOLEAN, Process(a, t, big)
  PROVE  LateInv'
  <1>1. rows' = rows /\ late' = late
    BY DEF Process, Refuse, Enter
  <1>2. CASE call' = call
    BY <1>1, <1>2 DEF LateInv, RowsType, CallerKnown, LateIsOver
  <1>3. CASE Enter(a, t) /\ Authentic(a)
    <2>1. call'.agent = a
      BY <1>3 DEF Enter
    <2> QED BY <1>1, <1>3, <2>1 DEF LateInv, RowsType, CallerKnown, LateIsOver, Authentic
  <1> QED BY <1>2, <1>3 DEF Process, Refuse

(* Whatever a tool answers, its call is over, and is late if the agent has *)
(* been revoked since.                                                     *)
LEMMA FinishKeeps ==
  ASSUME LateInv, call # NoRow, NEW answer, Finish(answer)
  PROVE  LateInv'
  <1> DEFINE a == call.agent
  <1>1. a \in Agents /\ rows[a] # NoRow /\ rows' = rows /\ call' = NoRow
    BY DEF LateInv, CallerKnown, Finish
  <1>2. late[a] = 0
    BY <1>1 DEF LateInv, LateIsOver
  <1>3. /\ late' \in [Agents -> Nat]
        /\ \A b \in Agents : b # a => late'[b] = late[b]
        /\ late'[a] = IF rows[a].revoked THEN 1 ELSE 0
    BY <1>1, <1>2 DEF LateInv, Finish
  <1> HIDE DEF a
  <1> QED BY <1>1, <1>3 DEF LateInv, RowsType, CallerKnown, LateIsOver

LEMMA LateStep == LateInv /\ [AccessNext]_avars => LateInv'
  <1> SUFFICES ASSUME LateInv, [AccessNext]_avars PROVE LateInv'
    OBVIOUS
  <1>1. CASE UNCHANGED <<rows, call, late>>
    BY <1>1 DEF LateInv, RowsType, CallerKnown, LateIsOver
  <1>2. ASSUME NEW a \in Agents, NEW n \in Names, NEW r \in Roles, CreateToken(a, n, r)
        PROVE  LateInv'
    BY <1>2, AccessConstants
    DEF CreateToken, LateInv, RowsType, CallerKnown, LateIsOver, TokenRows
  <1>3. ASSUME NEW n \in Names, RevokeToken(n) PROVE LateInv'
    <2>1. rows' \in [Agents -> {NoRow} \cup TokenRows]
      <3>1. rows' = [a \in Agents |-> rows'[a]]
        BY <1>3 DEF RevokeToken
      <3>2. \A a \in Agents : rows'[a] \in {NoRow} \cup TokenRows
        BY <1>3, RevokedStays DEF LateInv
      <3> QED BY <3>1, <3>2
    <2>2. call' = call /\ late' = late
      BY <1>3 DEF RevokeToken
    <2>3. \A a \in Agents : /\ rows[a] # NoRow => rows'[a] # NoRow
                            /\ rows[a] # NoRow /\ rows[a].revoked => rows'[a].revoked
      BY <1>3, RevokedStays DEF LateInv
    <2> QED BY <2>1, <2>2, <2>3 DEF LateInv, RowsType, CallerKnown, LateIsOver
  <1>4. ASSUME NEW a \in Agents, NEW t \in Tools, NEW big \in BOOLEAN, Process(a, t, big)
        PROVE  LateInv'
    BY <1>4, ProcessKeeps
  <1>5. CASE Remember
    BY <1>5, FinishKeeps DEF Remember, Runs
  <1>6. CASE Read
    BY <1>6, FinishKeeps DEF Read, Runs
  <1>7. ASSUME NEW s \in EntryIds, NEW d \in EntryIds, Reference(s, d) PROVE LateInv'
    BY <1>7, FinishKeeps DEF Reference, Runs
  <1>8. ASSUME NEW sid, Verify(sid) PROVE LateInv'
    BY <1>8, FinishKeeps DEF Verify, Runs
  <1>9. CASE AccessTick \/ CountFromNow
    BY <1>9, <1>1 DEF AccessTick, CountFromNow
  <1>10. CASE UNCHANGED avars
    BY <1>10, <1>1 DEF avars
  <1> QED BY <1>2, <1>3, <1>4, <1>5, <1>6, <1>7, <1>8, <1>9, <1>10 DEF AccessNext

(* A revocation is for good, and from then on the middleware lets no call  *)
(* of the agent in.                                                        *)
ShutsOut(a) ==
  rows[a] # NoRow /\ rows[a].revoked =>
    /\ rows'[a] # NoRow /\ rows'[a].revoked
    /\ call' # NoRow /\ call'.agent = a => call' = call

RevokedStayOut == [][\A a \in Agents : ShutsOut(a)]_avars

LEMMA ShutOutStep ==
  ASSUME LateInv, [AccessNext]_avars, NEW a \in Agents
  PROVE  ShutsOut(a)
  <1> SUFFICES ASSUME rows[a] # NoRow, rows[a].revoked
               PROVE  /\ rows'[a] # NoRow /\ rows'[a].revoked
                      /\ call' # NoRow /\ call'.agent = a => call' = call
    BY DEF ShutsOut
  <1>1. CASE UNCHANGED rows /\ (UNCHANGED call \/ call' = NoRow)
    BY <1>1
  <1>2. ASSUME NEW b \in Agents, NEW n \in Names, NEW q \in Roles, CreateToken(b, n, q)
        PROVE  rows'[a] = rows[a] /\ call' = call
    BY <1>2 DEF CreateToken, LateInv, RowsType
  <1>3. ASSUME NEW n \in Names, RevokeToken(n)
        PROVE  rows'[a] # NoRow /\ rows'[a].revoked /\ call' = call
    BY <1>3, RevokedStays DEF LateInv, RevokeToken
  <1>4. ASSUME NEW b \in Agents, NEW t \in Tools, NEW big \in BOOLEAN, Process(b, t, big)
        PROVE  rows' = rows /\ (call' = call \/ call'.agent # a)
    <2>1. rows' = rows
      BY <1>4 DEF Process, Refuse, Enter
    <2>2. CASE call' = call
      BY <2>1, <2>2
    <2>3. CASE Enter(b, t) /\ Authentic(b)
      BY <2>1, <2>3 DEF Enter, Authentic
    <2> QED BY <1>4, <2>2, <2>3 DEF Process, Refuse
  <1> QED BY <1>1, <1>2, <1>3, <1>4
      DEF AccessNext, AccessTick, CountFromNow, Remember, Read, Reference, Verify, Finish, avars

(* However calls, revocations and new tokens interleave: from a revocation *)
(* on no call of the agent is let in, and at most one operation of it is   *)
(* still carried out, the one that was past the middleware by then.        *)
THEOREM RevocationTheorem == AccessSpec => []RevocationTakesEffect /\ RevokedStayOut
  <1>1. LateInv => RevocationTakesEffect
    BY DEF LateInv, LateIsOver, RevocationTakesEffect
  <1>2. LateInv /\ [AccessNext]_avars => [\A a \in Agents : ShutsOut(a)]_avars
    BY ShutOutStep
  <1> QED BY <1>1, <1>2, LateInit, LateStep, PTL DEF AccessSpec, RevokedStayOut

-----------------------------------------------------------------------------
LEMMA ClassKey ==
  ASSUME NEW a \in Agents, NEW t \in Tools
  PROVE  <<a, Class(t)>> \in Keys
  BY AccessConstants DEF Class

(* The three outcomes of a call, as the limiter and the history see them.  *)
LEMMA ProcessOutcomes ==
  ASSUME NEW a \in Agents, NEW t \in Tools, NEW big \in BOOLEAN, used \in [Keys -> Nat],
         Process(a, t, big)
  PROVE  \/ UNCHANGED limiter /\ UNCHANGED counted
         \/ /\ Check(<<a, Class(t)>>) /\ since' = since
            /\ used' = IF verdict' = "granted"
                       THEN [used EXCEPT ![<<a, Class(t)>>] = @ + 1] ELSE used
  <1> DEFINE limited == rows[a].role # "admin" /\ Charge(a, t)
  <1>1. \/ UNCHANGED limiter /\ UNCHANGED counted
        \/ UNCHANGED limiter /\ rows[a].role = "admin" /\ Enter(a, t)
        \/ limited /\ verdict' = "granted" /\ Enter(a, t)
        \/ limited /\ verdict' # "granted" /\ UNCHANGED counted
    BY DEF Process, Refuse
  <1>2. ASSUME rows[a].role = "admin", Enter(a, t) PROVE UNCHANGED counted
    BY <1>2 DEF Enter, counted
  <1>3. ASSUME rows[a].role # "admin", Enter(a, t)
        PROVE  since' = since /\ used' = [used EXCEPT ![<<a, Class(t)>>] = @ + 1]
    BY <1>3 DEF Enter
  <1> QED BY <1>1, <1>2, <1>3 DEF Charge, CallerSession, counted

LEMMA LimiterStep == [AccessNext]_avars => [Next]_vars
  <1> SUFFICES ASSUME [AccessNext]_avars PROVE [Next]_vars
    OBVIOUS
  <1>1. CASE UNCHANGED limiter
    BY <1>1 DEF limiter, vars
  <1>2. CASE AccessTick
    BY <1>2 DEF AccessTick, Next
  <1>3. ASSUME NEW a \in Agents, NEW t \in Tools, NEW big \in BOOLEAN, Process(a, t, big)
        PROVE  UNCHANGED limiter \/ Check(<<a, Class(t)>>)
    BY <1>3 DEF Process, Charge, CallerSession
  <1>4. ASSUME NEW a \in Agents, NEW t \in Tools, Check(<<a, Class(t)>>) PROVE Next
    BY <1>4, ClassKey DEF Next
  <1> QED BY <1>1, <1>2, <1>3, <1>4
      DEF AccessNext, CountFromNow, CreateToken, RevokeToken, Remember, Read, Reference, Verify,
          Finish, limiter, avars

(* Behind the middleware the limiter is the one RateLimiter describes.     *)
LEMMA LimiterBehind == AccessSpec => Spec
  <1>1. AccessInit => Init
    BY DEF AccessInit
  <1>2. [AccessNext]_avars => [Next]_vars
    BY LimiterStep
  <1> QED BY <1>1, <1>2, PTL DEF AccessSpec, Spec

(* Behind the middleware, with calls that are refused before they reach    *)
(* the limiter, a refusal still names the exact time to retry at.          *)
THEOREM AccessRetry == AccessSpec => []RetryAfterHonest
  BY LimiterBehind, RetryTheorem, PTL

(* Behind the middleware, the limiter still implements the ideal buckets.  *)
THEOREM AccessBuckets == AccessSpec => ImplementsTokenBuckets
  BY LimiterBehind, BucketRefinement, PTL

-----------------------------------------------------------------------------
Budgeted(k) == used[k] * Unit + Level(k) <= Capacity[k] + (now - since) * Rate[k]

BudgetInv ==
  /\ TypeOK
  /\ since \in 0..now
  /\ used \in [Keys -> Nat]
  /\ \A k \in Keys : Budgeted(k)

LEMMA BudgetInit == AccessInit => BudgetInv
  <1> SUFFICES ASSUME AccessInit PROVE BudgetInv
    OBVIOUS
  <1>1. TypeOK /\ now = 0 /\ since = 0 /\ used = [k \in Keys |-> 0]
    BY TypeInit DEF AccessInit, Init
  <1>2. ASSUME NEW k \in Keys PROVE Budgeted(k)
    <2>1. used[k] * Unit = 0 /\ (now - since) * Rate[k] = 0
      BY <1>1, LimitsType
    <2> QED BY <1>1, <2>1, LevelType, LimitsType DEF Budgeted
  <1> QED BY <1>1, <1>2 DEF BudgetInv

LEMMA BudgetTick ==
  ASSUME BudgetInv, Tick, UNCHANGED counted, NEW k \in Keys
  PROVE  Budgeted(k)'
  <1> DEFINE m == now - since
  <1>0. now \in Nat /\ since \in Nat /\ m \in Nat /\ now' = now + 1 /\ since' = since
        /\ used' = used /\ now' - since' = m + 1
    BY LimitsType DEF BudgetInv, TypeOK, Tick, counted
  <1>1. /\ Level(k) \in Nat /\ used[k] * Unit \in Nat /\ m * Rate[k] \in Nat
        /\ (m + 1) * Rate[k] = m * Rate[k] + Rate[k]
        /\ Capacity[k] \in Nat /\ Rate[k] \in Nat
    <2> HIDE DEF m
    <2> QED BY <1>0, LevelType, ProductGrows, OneMore, LimitsType DEF BudgetInv
  <1>2. Level(k)' <= Level(k) + Rate[k]
    BY <1>1, TickLevel DEF BudgetInv, AtMost
  <1>3. Level(k)' \in Nat
    BY <1>1, TickLevel DEF BudgetInv, AtMost
  <1>4. used[k] * Unit + Level(k) <= Capacity[k] + m * Rate[k]
    BY DEF BudgetInv, Budgeted
  <1>5. used[k] * Unit + Level(k)' <= Capacity[k] + (m + 1) * Rate[k]
    <2> HIDE DEF m
    <2> QED BY <1>1, <1>2, <1>3, <1>4
  <1> QED BY <1>0, <1>5 DEF Budgeted

(* A token is taken from the level of the caller's key, and only if the    *)
(* call is let in.                                                         *)
LEMMA BudgetCharge ==
  ASSUME BudgetInv, NEW c \in Keys, Check(c), since' = since,
         used' = IF verdict' = "granted" THEN [used EXCEPT ![c] = @ + 1] ELSE used,
         NEW k \in Keys
  PROVE  Budgeted(k)'
  <1> DEFINE inflow == (now - since) * Rate[k]
  <1>1. /\ Level(k) \in Nat /\ used[k] \in Nat /\ used[k] * Unit \in Nat /\ Unit \in Nat
        /\ inflow \in Nat /\ Capacity[k] \in Nat /\ now' = now
        /\ (used[k] + 1) * Unit = used[k] * Unit + Unit
    <2>1. now' = now
      BY DEF Check
    <2>2. used[k] \in Nat /\ Unit \in Nat /\ now - since \in Nat /\ Rate[k] \in Nat
      BY LimitsType DEF BudgetInv, TypeOK
    <2>3. Level(k) \in Nat /\ Capacity[k] \in Nat
      BY LevelType, LimitsType DEF BudgetInv
    <2> QED BY <2>1, <2>2, <2>3, ProductGrows, OneMore
  <1>2. used[k] * Unit + Level(k) <= Capacity[k] + inflow
    BY DEF BudgetInv, Budgeted
  <1>3. used'[k] * Unit + Level(k)' <= Capacity[k] + inflow
    <2> HIDE DEF inflow
    <2>1. CASE k = c /\ Level(k) >= Unit
      <3>1. used'[k] = used[k] + 1 /\ Level(k)' = Level(k) - Unit
        BY <2>1, CheckLevel DEF BudgetInv
      <3> QED BY <1>1, <1>2, <3>1
    <2>2. CASE ~(k = c /\ Level(k) >= Unit)
      <3>1. used'[k] = used[k] /\ Level(k)' = Level(k)
        BY <2>2, CheckLevel DEF BudgetInv
      <3> QED BY <1>1, <1>2, <3>1
    <2> QED BY <2>1, <2>2
  <1> QED BY <1>1, <1>3 DEF Budgeted

LEMMA BudgetStep == BudgetInv /\ [AccessNext]_avars => BudgetInv'
  <1> SUFFICES ASSUME BudgetInv, [AccessNext]_avars PROVE BudgetInv'
    OBVIOUS
  <1>1. TypeOK'
    BY LimiterStep, TypeStep DEF BudgetInv
  <1>2. CASE UNCHANGED limiter /\ UNCHANGED counted
    <2>1. \A k \in Keys : Level(k)' = Level(k)
      BY <1>2 DEF limiter, Level, AtMost
    <2>2. now' = now /\ since' = since /\ used' = used
      BY <1>2 DEF limiter, counted
    <2> QED BY <1>1, <2>1, <2>2 DEF BudgetInv, Budgeted
  <1>3. CASE AccessTick
    <2>1. Tick /\ UNCHANGED counted
      BY <1>3 DEF AccessTick
    <2>2. since' \in 0..now' /\ used' = used
      BY <2>1, LimitsType DEF BudgetInv, TypeOK, Tick, counted
    <2> QED BY <1>1, <2>1, <2>2, BudgetTick DEF BudgetInv
  <1>4. ASSUME NEW c \in Keys, Check(c), since' = since,
               used' = IF verdict' = "granted" THEN [used EXCEPT ![c] = @ + 1] ELSE used
        PROVE  BudgetInv'
    <2>1. used' \in [Keys -> Nat] /\ now' = now
      BY <1>4 DEF BudgetInv, Check
    <2>2. ASSUME NEW k \in Keys PROVE Budgeted(k)'
      BY <1>4, BudgetCharge
    <2> QED BY <1>1, <1>4, <2>1, <2>2 DEF BudgetInv
  <1>5. ASSUME NEW a \in Agents, NEW t \in Tools, NEW big \in BOOLEAN, Process(a, t, big)
        PROVE  BudgetInv'
    BY <1>2, <1>4, <1>5, ProcessOutcomes, ClassKey DEF BudgetInv
  <1>6. CASE CountFromNow
    <2>1. now \in Nat /\ now' = now /\ since' = now /\ used' = [k \in Keys |-> 0]
      BY <1>6, LimitsType DEF CountFromNow, limiter, BudgetInv, TypeOK
    <2>2. ASSUME NEW k \in Keys PROVE Budgeted(k)'
      <3>1. Level(k)' = Level(k)
        BY <1>6 DEF CountFromNow, limiter, Level, AtMost
      <3>2. used'[k] * Unit = 0 /\ (now' - since') * Rate[k] = 0
        BY <2>1, LimitsType
      <3> QED BY <3>1, <3>2, LevelType, LimitsType DEF BudgetInv, Budgeted
    <2> QED BY <1>1, <2>1, <2>2 DEF BudgetInv
  <1> QED BY <1>2, <1>3, <1>5, <1>6
      DEF AccessNext, CreateToken, RevokeToken, Remember, Read, Reference, Verify, Finish, avars

(* Whatever comes between, from any moment on an agent that is no admin is *)
(* let in no more often than a full bucket and what has flowed in since    *)
(* then allow: the moment the count begins at is any.                      *)
THEOREM BudgetTheorem == AccessSpec => []WithinBudget
  <1>1. BudgetInv => WithinBudget
    BY DEF BudgetInv, Budgeted, WithinBudget
  <1> QED BY <1>1, BudgetInit, BudgetStep, PTL DEF AccessSpec

-----------------------------------------------------------------------------
Calls == [agent : Agents, role : Roles, tool : Tools]

EntryRows == [session : {ServerSession, OtherSession}, author : Agents \cup {NoRow}]

(* The role of a call is still that of its agent: no row ever changes it.  *)
CallerRole ==
  call \in {NoRow} \cup Calls /\ (call # NoRow => rows[call.agent].role = call.role)

(* A call that was let in has a place for the entry it is going to store.  *)
RoomLeft ==
  /\ entries \in Seq(EntryRows) /\ Len(entries) \in EntryIds
  /\ call # NoRow /\ call.tool = "remember" => Len(entries) < MaxEntries

(* No entry has an agent's session, so the owner check of reference() lets *)
(* through admins only.                                                    *)
ReferencesByAdmins == \A r \in refs : r.by = "admin"

CallInv == LateInv /\ CallerRole /\ RoomLeft /\ ReferencesByAdmins

LEMMA CallInit == AccessInit => CallInv
  <1> SUFFICES ASSUME AccessInit PROVE CallInv
    OBVIOUS
  <1>1. entries = <<[session |-> OtherSession, author |-> NoRow]>> /\ call = NoRow /\ refs = {}
    BY DEF AccessInit
  <1>2. [session |-> OtherSession, author |-> NoRow] \in EntryRows
    BY DEF EntryRows
  <1>3. entries \in Seq(EntryRows) /\ Len(entries) = 1
    BY <1>1, <1>2
  <1>4. 1 \in EntryIds
    BY AccessConstants DEF EntryIds
  <1> QED BY <1>1, <1>3, <1>4, LateInit DEF CallInv, CallerRole, RoomLeft, ReferencesByAdmins

LEMMA CallEnters ==
  ASSUME CallInv, LateInv', NEW a \in Agents, NEW t \in Tools, NEW big \in BOOLEAN, Process(a, t, big)
  PROVE  CallInv'
  <1>1. UNCHANGED <<rows, entries, refs>>
    BY DEF Process, Refuse, Enter, store
  <1>2. CASE call' = call
    BY <1>1, <1>2 DEF CallInv, CallerRole, RoomLeft, ReferencesByAdmins
  <1>3. CASE Enter(a, t) /\ Authentic(a)
    <2>1. call' = [agent |-> a, role |-> rows[a].role, tool |-> t]
      BY <1>3 DEF Enter
    <2>2. rows[a].role \in Roles
      BY <1>3 DEF Authentic, CallInv, LateInv, RowsType, TokenRows
    <2>3. call' \in Calls /\ call'.agent = a /\ call'.role = rows[a].role /\ call'.tool = t
      BY <2>1, <2>2 DEF Calls
    <2>4. t = "remember" => Len(entries) < MaxEntries
      BY DEF Process
    <2> QED BY <1>1, <2>3, <2>4 DEF CallInv, CallerRole, RoomLeft, ReferencesByAdmins
  <1> QED BY <1>2, <1>3 DEF Process, Refuse

LEMMA OwnersAreAdmins ==
  ASSUME CallInv, call # NoRow, NEW i \in DOMAIN entries, Owns(i)
  PROVE  call.role = "admin"
  <1>1. entries[i] \in EntryRows /\ call.agent \in Agents
    BY DEF CallInv, RoomLeft, CallerRole, Calls
  <1> QED BY <1>1, AccessConstants DEF Owns, CallerSession, EntryRows

LEMMA CallStep == CallInv /\ [AccessNext]_avars => CallInv'
  <1> SUFFICES ASSUME CallInv, [AccessNext]_avars PROVE CallInv'
    OBVIOUS
  <1>1. LateInv'
    BY LateStep DEF CallInv
  <1>2. CASE UNCHANGED <<rows, call, entries, refs>>
    BY <1>1, <1>2 DEF CallInv, CallerRole, RoomLeft, ReferencesByAdmins
  <1>3. ASSUME NEW a \in Agents, NEW n \in Names, NEW r \in Roles, CreateToken(a, n, r)
        PROVE  CallInv'
    <2>1. UNCHANGED <<call, entries, refs>>
      BY <1>3 DEF CreateToken, store
    <2>2. call # NoRow => rows'[call.agent] = rows[call.agent]
      BY <1>3 DEF CreateToken, CallInv, LateInv, CallerKnown, RowsType
    <2> QED BY <1>1, <2>1, <2>2 DEF CallInv, CallerRole, RoomLeft, ReferencesByAdmins
  <1>4. ASSUME NEW n \in Names, RevokeToken(n) PROVE CallInv'
    <2>1. UNCHANGED <<call, entries, refs>>
      BY <1>4 DEF RevokeToken, store
    <2>2. ASSUME call # NoRow PROVE rows'[call.agent].role = rows[call.agent].role
      <3>1. call.agent \in Agents /\ rows[call.agent] \in TokenRows
        BY <2>2 DEF CallInv, LateInv, CallerKnown, RowsType
      <3> QED BY <1>4, <3>1 DEF RevokeToken, TokenRows
    <2> QED BY <1>1, <2>1, <2>2 DEF CallInv, CallerRole, RoomLeft, ReferencesByAdmins
  <1>5. ASSUME NEW a \in Agents, NEW t \in Tools, NEW big \in BOOLEAN, Process(a, t, big)
        PROVE  CallInv'
    BY <1>1, <1>5, CallEnters
  <1>6. CASE Remember
    <2> DEFINE e == [session |-> ServerSession, author |-> call.agent]
    <2>1. call # NoRow /\ call.tool = "remember" /\ call' = NoRow /\ refs' = refs
      BY <1>6 DEF Remember, Runs, Finish
    <2>2. e \in EntryRows
      BY <2>1 DEF CallInv, CallerRole, Calls, EntryRows
    <2>3. entries' = Append(entries, e)
      BY <1>6 DEF Remember
    <2> HIDE DEF e
    <2>4. entries' \in Seq(EntryRows) /\ Len(entries') = Len(entries) + 1
      BY <2>2, <2>3 DEF CallInv, RoomLeft
    <2>5. Len(entries') \in EntryIds
      BY <2>1, <2>4, AccessConstants DEF CallInv, RoomLeft, EntryIds
    <2> QED BY <1>1, <2>1, <2>4, <2>5 DEF CallInv, CallerRole, RoomLeft, ReferencesByAdmins
  <1>7. ASSUME UNCHANGED <<entries, refs>>, call' = NoRow PROVE CallInv'
    BY <1>1, <1>7 DEF CallInv, CallerRole, RoomLeft, ReferencesByAdmins
  <1>8. ASSUME NEW i \in EntryIds, NEW j \in EntryIds, Reference(i, j) PROVE CallInv'
    <2>1. call # NoRow /\ call' = NoRow /\ entries' = entries
      BY <1>8 DEF Reference, Runs, Finish, store
    <2>2. CASE refs' = refs
      BY <1>7, <2>1, <2>2
    <2>3. CASE /\ i \in DOMAIN entries /\ Owns(i)
               /\ refs' = refs \cup {[source |-> i, target |-> j, by |-> call.role]}
      <3>1. call.role = "admin"
        BY <2>1, <2>3, OwnersAreAdmins
      <3> QED BY <1>1, <2>1, <2>3, <3>1 DEF CallInv, CallerRole, RoomLeft, ReferencesByAdmins
    <2> QED BY <1>8, <2>2, <2>3 DEF Reference, store
  <1> QED BY <1>2, <1>3, <1>4, <1>5, <1>6, <1>7, <1>8
      DEF AccessNext, AccessTick, CountFromNow, Read, Verify, Finish, store, avars

(* The type invariant behind the middleware: every call under way has the  *)
(* role its agent's row has, and no entry has an agent's session.          *)
THEOREM AccessTypeCorrect == AccessSpec => []AccessTypeOK
  <1>1. AccessSpec => []CallInv
    BY CallInit, CallStep, PTL DEF AccessSpec
  <1>2. AccessSpec => []BudgetInv
    BY BudgetInit, BudgetStep, PTL DEF AccessSpec
  <1>3. CallInv /\ BudgetInv => AccessTypeOK
    <2> SUFFICES ASSUME CallInv, BudgetInv PROVE AccessTypeOK
      OBVIOUS
    <2>1. \A i \in DOMAIN entries : entries[i].session \in {ServerSession, OtherSession}
      <3>1. \A i \in DOMAIN entries : entries[i] \in EntryRows
        BY DEF CallInv, RoomLeft
      <3> QED BY <3>1 DEF EntryRows
    <2> QED BY <2>1 DEF CallInv, BudgetInv, LateInv, RowsType, CallerKnown, CallerRole, RoomLeft,
               AccessTypeOK, TokenRows, Calls
  <1> QED BY <1>1, <1>2, <1>3, PTL

(* What agents remember is stored under the server's session and compared  *)
(* with their own id, so the contributors, to whom the tool is open, never *)
(* write a reference: an admin wrote every row of cross_references.        *)
THEOREM ReferenceTheorem == AccessSpec => []ReferencesByAdmins
  <1>1. CallInv => ReferencesByAdmins
    BY DEF CallInv
  <1> QED BY <1>1, CallInit, CallStep, PTL DEF AccessSpec

=============================================================================
