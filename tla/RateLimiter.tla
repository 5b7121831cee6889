----------------------------- MODULE RateLimiter -----------------------------
(***************************************************************************)
(* security/rate_limit.py: one bucket per session and class of tool, made  *)
(* on first use, refilled only when it is used, and evicted when idle.     *)
(* check() runs on the server's event loop and awaits nothing: one step.   *)
(*                                                                         *)
(* Time is counted in ticks and tokens in fractions, Unit of which are one *)
(* token, so that the code's floats become integers.                       *)
(***************************************************************************)
EXTENDS Naturals

CONSTANTS
  Keys,        (* (session_id, bucket_type)                                *)
  Capacity,    (* Capacity[k], in fractions of a token                     *)
  Rate,        (* Rate[k], fractions per tick                              *)
  Unit,        (* fractions in one token                                   *)
  Ttl,         (* _BUCKET_TTL, in ticks                                    *)
  EvictEvery,  (* _EVICTION_INTERVAL                                       *)
  MaxTime      (* bound: ticks                                             *)

ASSUME LimitsType ==
  /\ Unit \in Nat \ {0} /\ Ttl \in Nat /\ EvictEvery \in Nat \ {0}
  /\ Capacity \in [Keys -> Nat] /\ Rate \in [Keys -> Nat \ {0}]
  /\ MaxTime \in Nat

(* The constants of the module: an idle bucket is full long before it is   *)
(* evicted (600 s at 100 or 300 tokens a minute, for 100 or 300 tokens).   *)
ASSUME FullBeforeEviction == \A k \in Keys : Capacity[k] <= (Ttl + 1) * Rate[k]

VARIABLES
  now,       (* time.monotonic()                                           *)
  buckets,   (* keys of _buckets                                           *)
  tokens,    (* tokens[k]: _Bucket.tokens                                  *)
  last,      (* last[k]: _Bucket.last_refill                               *)
  checks,    (* _check_count modulo EvictEvery                             *)
  verdict,   (* what the last check answered                               *)
  retryAt    (* history: when the last refusal of k told to retry, or 0    *)

vars == <<now, buckets, tokens, last, checks, verdict, retryAt>>

AtMost(n, c) == IF n <= c THEN n ELSE c

(* What try_consume would find in k's bucket now.                          *)
Level(k) ==
  IF k \in buckets
  THEN AtMost(tokens[k] + (now - last[k]) * Rate[k], Capacity[k])
  ELSE Capacity[k]

Init ==
  /\ now = 0
  /\ buckets = {}
  /\ tokens = [k \in Keys |-> 0]
  /\ last = [k \in Keys |-> 0]
  /\ checks = 0
  /\ verdict = "none"
  /\ retryAt = [k \in Keys |-> 0]

Tick ==
  /\ now < MaxTime
  /\ now' = now + 1
  /\ verdict' = "none"
  /\ UNCHANGED <<buckets, tokens, last, checks, retryAt>>

(* Slip: a bucket is dropped one tick too early.                           *)
StaleEarly == {k \in buckets : now - last[k] >= Ttl}

(* Every EvictEvery-th check first drops the buckets idle for longer than  *)
(* Ttl.                                                                    *)
Stale == {k \in buckets : now - last[k] > Ttl}

Counted == (checks + 1) % EvictEvery
Kept == IF Counted = 0 THEN buckets \ Stale ELSE buckets

(* Slip: retry_after is rounded down.                                      *)
RetryTimeRounded(k, n) == now + (Unit - n) \div Rate[k]

(* (1 - tokens) / rate from now, in whole ticks.                           *)
RetryTime(k, n) == now + ((Unit - n) + (Rate[k] - 1)) \div Rate[k]

(* check() of a limited tool: a bucket dropped by this very check is made  *)
(* anew; the refill is capped; a token is taken or the call refused.       *)
Check(k) ==
  LET found == IF k \in Kept THEN Level(k) ELSE Capacity[k]
      granted == found >= Unit
  IN  /\ buckets' = Kept \cup {k}
      /\ last' = [last EXCEPT ![k] = now]
      /\ tokens' = [tokens EXCEPT ![k] = IF granted THEN found - Unit ELSE found]
      /\ verdict' = IF granted THEN "granted" ELSE "refused"
      /\ retryAt' = [retryAt EXCEPT ![k] = IF granted THEN 0 ELSE RetryTime(k, found)]
      /\ checks' = Counted
      /\ UNCHANGED now

Next ==
  \/ Tick
  \/ \E k \in Keys : Check(k)

Spec == Init /\ [][Next]_vars

-----------------------------------------------------------------------------
TypeOK ==
  /\ now \in 0..MaxTime
  /\ buckets \subseteq Keys
  /\ tokens \in [Keys -> Nat]
  /\ \A k \in Keys : tokens[k] <= Capacity[k]
  /\ last \in [Keys -> 0..MaxTime]
  /\ \A k \in Keys : last[k] <= now
  /\ checks \in 0..(EvictEvery - 1)
  /\ verdict \in {"none", "granted", "refused"}
  /\ retryAt \in [Keys -> Nat]

(* RateLimitError's retry_after_seconds is neither too short nor too long: *)
(* a caller that was refused and has not called again since finds a token  *)
(* from that time on and none before, evictions or not.                    *)
RetryAfterHonest ==
  \A k \in Keys : retryAt[k] # 0 /\ Unit <= Capacity[k]
    => (now >= retryAt[k] <=> Level(k) >= Unit)

(* Filling on use and dropping idle buckets is not observable: every call  *)
(* is granted or refused as by buckets filled all the time and never       *)
(* dropped, so no session gets more than capacity plus rate times elapsed  *)
(* time, and none with tokens left is refused.                             *)
Ideal == INSTANCE TokenBuckets WITH level <- [k \in Keys |-> Level(k)]

ImplementsTokenBuckets == Ideal!Spec

=============================================================================
