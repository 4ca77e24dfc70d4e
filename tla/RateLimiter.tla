---------------------------- MODULE RateLimiter ----------------------------
(***************************************************************************)
(* serwebs.utils.RateLimiter: a token bucket per web socket.               *)
(*                                                                         *)
(* The code counts tokens and seconds in floating point.  Here time is     *)
(* counted in ticks and tokens in fixed point: a tick adds Rate units, a   *)
(* write takes Cost units, and a full bucket holds Burst writes.           *)
(***************************************************************************)
EXTENDS Integers, Sequences

CONSTANTS Client,
          Rate,      \* units added per tick
          Cost,      \* units of one write (one token)
          Burst,     \* _burst
          MaxTime    \* bound: ticks of the clock

ASSUME RateAssumption == {Rate, Cost, Burst, MaxTime} \subseteq Nat /\ Cost > 0

VARIABLES
  now,      \* time.monotonic()
  bucket,   \* _tokens and _last of each client
  passed    \* history: when the client's bucket let a write pass

limiterVars == <<now, bucket, passed>>

Full == Cost * Burst

\* A client without an entry is as good as one whose bucket is full.
Fresh == [tokens |-> Full, last |-> 0]

LimiterInit ==
    /\ now = 0
    /\ bucket = [c \in Client |-> Fresh]
    /\ passed = [c \in Client |-> <<>>]

Refilled(b) == b.tokens + Rate * (now - b.last)

\* (A slip: idle time is saved up beyond the burst.)
MutAvailable(c) == Refilled(bucket[c])

\* What is in the bucket now.
Available(c) == IF Refilled(bucket[c]) <= Full THEN Refilled(bucket[c]) ELSE Full

Allowed(c) == Available(c) >= Cost

\* allow(): whatever it answers, the bucket is refilled and stamped.
Allow(c) ==
    /\ bucket' = [bucket EXCEPT ![c] =
                    [tokens |-> Available(c) - IF Allowed(c) THEN Cost ELSE 0,
                     last   |-> now]]
    /\ passed' = [passed EXCEPT ![c] = IF Allowed(c) THEN Append(@, now) ELSE @]
    /\ UNCHANGED now

Remove(c) ==
    /\ bucket' = [bucket EXCEPT ![c] = Fresh]
    /\ passed' = [passed EXCEPT ![c] = <<>>]
    /\ UNCHANGED now

Tick == now < MaxTime /\ now' = now + 1 /\ UNCHANGED <<bucket, passed>>

LimiterNext == Tick \/ \E c \in Client : Allow(c) \/ Remove(c)

LimiterSpec == LimiterInit /\ [][LimiterNext]_limiterVars

-----------------------------------------------------------------------------
LimiterTypeOK ==
    /\ now \in Nat
    /\ bucket \in [Client -> [tokens : 0..Full, last : Nat]]
    /\ passed \in [Client -> Seq(Nat)]

\* In any stretch of time a client passes at most a burst and what was refilled
\* meanwhile, however its writes, refusals and pauses alternate (utils.py:68-74).
WindowBound ==
    \A c \in Client : \A i, j \in 1..Len(passed[c]) :
       i <= j => Cost * (j - i + 1) <= Full + Rate * (passed[c][j] - passed[c][i])
=============================================================================
