---------------------------- MODULE RateLimiter ----------------------------
(***************************************************************************)
(* The lock-free token bucket in front of every request                    *)
(* (victauri-core/src/security.rs, RateLimiter): two atomics, `tokens' and *)
(* `last_refill_ms', moved by compare-exchange loops of any number of      *)
(* request tasks.  One step of a caller is one atomic access.  Time is     *)
(* counted in units of which Second make a second (1000 in the code), so   *)
(* that a rate of less than one token per unit is an ordinary case.        *)
(***************************************************************************)
EXTENDS Integers, FiniteSets

CONSTANTS Requests,      \* concurrent callers of try_acquire
          PerSecond,     \* max_requests_per_sec: the capacity and the rate
          Second,        \* clock units in a second
          MaxClock       \* bound on the clock

ASSUME RateAssumption ==
  /\ PerSecond \in Nat \ {0} /\ Second \in Nat \ {0} /\ MaxClock \in Nat
  /\ IsFiniteSet(Requests)

VARIABLES tokens,        \* tokens: AtomicU64
          lastRefill,    \* last_refill_ms: AtomicU64
          rateClock,     \* epoch.elapsed()
          at,            \* where each caller is
          seen,          \* what it has read: the clock, the mark, the tokens
          due,           \* tokens it has won the right to add
          granted,       \* how many calls returned TRUE (history)
          claimed        \* how many tokens the refills have won (history)

rateVars == <<tokens, lastRefill, rateClock, at, seen, due, granted, claimed>>

Unread == [now |-> 0, last |-> 0, current |-> 0]

RateInit ==
  /\ tokens = PerSecond
  /\ lastRefill = 0 /\ rateClock = 0 /\ granted = 0 /\ claimed = 0
  /\ at = [r \in Requests |-> "out"]
  /\ seen = [r \in Requests |-> Unread]
  /\ due = [r \in Requests |-> 0]

Min2(a, b) == IF a < b THEN a ELSE b

(* now.saturating_sub(last) * rate / 1000: whole tokens only. *)
Earned(now, last) ==
  ((IF now > last THEN now - last ELSE 0) * PerSecond) \div Second

(* try_acquire begins: refill reads the clock first ... *)
ReadClock(r) ==
  /\ at[r] = "out"
  /\ seen' = [seen EXCEPT ![r] = [Unread EXCEPT !.now = rateClock]]
  /\ at' = [at EXCEPT ![r] = "mark"]
  /\ UNCHANGED <<tokens, lastRefill, rateClock, due, granted, claimed>>

(* ... then the mark, and leaves it alone unless a whole token is earned. *)
ReadMark(r) ==
  /\ at[r] = "mark"
  /\ seen' = [seen EXCEPT ![r].last = lastRefill]
  /\ at' = [at EXCEPT ![r] =
              IF Earned(seen[r].now, lastRefill) = 0 THEN "take" ELSE "claim"]
  /\ UNCHANGED <<tokens, lastRefill, rateClock, due, granted, claimed>>

(* A mistaken ClaimInterval: the mark is stored without comparing it. *)
ClaimWithoutExchange(r) ==
  /\ at[r] = "claim"
  /\ lastRefill' = seen[r].now
  /\ due' = [due EXCEPT ![r] = Earned(seen[r].now, seen[r].last)]
  /\ claimed' = claimed + Earned(seen[r].now, seen[r].last)
  /\ at' = [at EXCEPT ![r] = "load"]
  /\ UNCHANGED <<tokens, rateClock, seen, granted>>

(* last_refill_ms.compare_exchange(last, now): one caller wins the interval. *)
ClaimInterval(r) ==
  /\ at[r] = "claim"
  /\ IF lastRefill = seen[r].last
     THEN /\ lastRefill' = seen[r].now
          /\ due' = [due EXCEPT ![r] = Earned(seen[r].now, seen[r].last)]
          /\ claimed' = claimed + Earned(seen[r].now, seen[r].last)
          /\ at' = [at EXCEPT ![r] = "load"]
     ELSE /\ at' = [at EXCEPT ![r] = "take"]
          /\ UNCHANGED <<lastRefill, due, claimed>>
  /\ UNCHANGED <<tokens, rateClock, seen, granted>>

(* The winner adds what it won, at most up to the capacity. *)
LoadForCredit(r) ==
  /\ at[r] = "load"
  /\ seen' = [seen EXCEPT ![r].current = tokens]
  /\ at' = [at EXCEPT ![r] = "credit"]
  /\ UNCHANGED <<tokens, lastRefill, rateClock, due, granted, claimed>>

Credit(r) ==
  /\ at[r] = "credit"
  /\ IF tokens = seen[r].current
     THEN /\ tokens' = Min2(seen[r].current + due[r], PerSecond)
          /\ due' = [due EXCEPT ![r] = 0]
          /\ at' = [at EXCEPT ![r] = "take"]
     ELSE /\ at' = [at EXCEPT ![r] = "load"]
          /\ UNCHANGED <<tokens, due>>
  /\ UNCHANGED <<lastRefill, rateClock, seen, granted, claimed>>

(* try_acquire's own loop: refused at zero, otherwise one token less. *)
LoadForTake(r) ==
  /\ at[r] = "take"
  /\ seen' = [seen EXCEPT ![r].current = tokens]
  /\ at' = [at EXCEPT ![r] = IF tokens = 0 THEN "out" ELSE "spend"]
  /\ UNCHANGED <<tokens, lastRefill, rateClock, due, granted, claimed>>

Spend(r) ==
  /\ at[r] = "spend"
  /\ IF tokens = seen[r].current
     THEN /\ tokens' = tokens - 1
          /\ granted' = granted + 1
          /\ at' = [at EXCEPT ![r] = "out"]
     ELSE /\ at' = [at EXCEPT ![r] = "take"]
          /\ UNCHANGED <<tokens, granted>>
  /\ UNCHANGED <<lastRefill, rateClock, seen, due, claimed>>

(* compare_exchange_weak may fail although nothing changed. *)
SpuriousFailure(r) ==
  /\ at[r] \in {"credit", "spend"}
  /\ at' = [at EXCEPT ![r] = IF at[r] = "credit" THEN "load" ELSE "take"]
  /\ UNCHANGED <<tokens, lastRefill, rateClock, seen, due, granted, claimed>>

RateTick ==
  /\ rateClock < MaxClock
  /\ rateClock' = rateClock + 1
  /\ UNCHANGED <<tokens, lastRefill, at, seen, due, granted, claimed>>

RateNext ==
  \/ RateTick
  \/ \E r \in Requests :
       \/ ReadClock(r) \/ ReadMark(r) \/ ClaimInterval(r)
       \/ LoadForCredit(r) \/ Credit(r) \/ LoadForTake(r) \/ Spend(r)
       \/ SpuriousFailure(r)

RateSpec == RateInit /\ [][RateNext]_rateVars

-----------------------------------------------------------------------------
(* The tokens won and not added yet, one by one, and their number. *)
OwedTo(r) == {r} \X (1 .. due[r])
Owed == UNION {OwedTo(r) : r \in Requests}
Outstanding == Cardinality(Owed)

(* Time is paid for once, and paid for: whatever the order of the         *)
(* compare-exchanges of concurrent refills, no interval is credited twice  *)
(* and no call is allowed beyond a full bucket plus what has been claimed; *)
(* and although the mark moves to now, dropping the remainder of a partly  *)
(* earned token, at least half of the time's worth is always credited.     *)
TimeIsPaidOnce ==
  /\ granted + tokens + Outstanding =< PerSecond + claimed
  /\ Second * claimed =< PerSecond * lastRefill
  /\ PerSecond * lastRefill =< 2 * Second * claimed
=============================================================================
