---------------------------- MODULE TokenBucket -----------------------------
(***************************************************************************)
(* RateLimiter (src/mittelwerk/utils/decorators.py): a token bucket that   *)
(* several threads share.  acquire() asks once; wait() computes under the  *)
(* lock how long it has to sleep and sleeps without it, while others may   *)
(* take the tokens.  Time goes in ticks in which whole tokens come in.     *)
(***************************************************************************)
EXTENDS Integers, Sequences, FiniteSetsExt

CONSTANTS Threads,     \* threads that use the limiter
          TokenRate,   \* tokens that come in per tick
          Burst,       \* the capacity of the bucket
          MaxTicks,    \* bound: how far the clock runs
          MaxGrants    \* bound: how many requests are granted

ASSUME BucketAssumption == TokenRate \in Nat \ {0} /\ Burst \in Nat \ {0}

VARIABLES clock,    \* time.monotonic()
          tokens,   \* _tokens
          refilled, \* _last_refill
          caller,   \* what each thread waits for and until when it sleeps
          grants    \* history: what was granted when

bucketVars == <<clock, tokens, refilled, caller, grants>>

NotWaiting == [wants |-> 0, until |-> 0]

BucketInit ==
  /\ clock = 0 /\ tokens = Burst /\ refilled = 0
  /\ caller = [t \in Threads |-> NotWaiting]
  /\ grants = <<>>

Least(a, b) == IF a < b THEN a ELSE b

\* For mutation: the bucket fills beyond its capacity.
RefilledUncapped == tokens + (clock - refilled) * TokenRate

\* _refill_locked
Refilled == Least(Burst, tokens + (clock - refilled) * TokenRate)

\* What is granted leaves the bucket.
Grant(t, n) ==
  /\ Refilled >= n
  /\ Len(grants) < MaxGrants
  /\ tokens' = Refilled - n
  /\ refilled' = clock
  /\ grants' = Append(grants, [at |-> clock, tokens |-> n])
  /\ UNCHANGED clock

Refuse(n) ==
  /\ Refilled < n
  /\ tokens' = Refilled
  /\ refilled' = clock
  /\ UNCHANGED <<clock, grants>>

Acquire(t, n) ==
  /\ caller[t] = NotWaiting
  /\ Grant(t, n) \/ Refuse(n)
  /\ UNCHANGED caller

\* The ticks until the missing tokens have come in, if nobody else takes them
SleepFor(n) == (n - Refilled + TokenRate - 1) \div TokenRate

Wait(t, n) ==
  /\ caller[t] = NotWaiting
  /\ \/ Grant(t, n) /\ UNCHANGED caller
     \/ /\ Refuse(n)
        /\ caller' = [caller EXCEPT ![t] =
                        [wants |-> n, until |-> clock + SleepFor(n)]]

\* It starts over with what is there when it wakes.
TakesOrSleeps(t) ==
  \/ Grant(t, caller[t].wants) /\ caller' = [caller EXCEPT ![t] = NotWaiting]
  \/ /\ Refuse(caller[t].wants)
     /\ caller' = [caller EXCEPT ![t].until = clock + SleepFor(caller[t].wants)]

Awake(t) ==
  /\ caller[t] # NotWaiting
  /\ clock >= caller[t].until
  /\ TakesOrSleeps(t)

TickOver ==
  /\ clock < MaxTicks
  /\ clock' = clock + 1
  /\ UNCHANGED <<tokens, refilled, caller, grants>>

BucketNext ==
  \/ \E t \in Threads, n \in 1..Burst : Acquire(t, n) \/ Wait(t, n)
  \/ \E t \in Threads : Awake(t)
  \/ TickOver

-----------------------------------------------------------------------------
\* Properties

GrantedIn(i, j) == SumFunctionOnSet([k \in i..j |-> grants[k].tokens], i..j)

\* Over no span of time do all the threads together get more than a full bucket
\* and what comes in meanwhile, however their sleeps overlap.
RateIsKept ==
  \A i, j \in DOMAIN grants :
    i =< j => GrantedIn(i, j) =< Burst + (grants[j].at - grants[i].at) * TokenRate

=============================================================================
