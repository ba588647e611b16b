------------------------------- MODULE Backoff -------------------------------
(***************************************************************************)
(* compute_backoff on words of Width bits: the delay before attempt n + 1, *)
(* as the set of values the jitter can give it.  The release build wraps.  *)
(***************************************************************************)
EXTENDS Integers

CONSTANTS
  Width,      \* 64 in the code; smaller for TLC, with delays to match
  Policies    \* the retry policies of the endpoints

\* max_delay_ms is not negative: clamp panics otherwise.
ASSUME BackoffAssumption ==
  /\ Width \in Nat \ {0}
  /\ Policies \subseteq [backoff : STRING, initial_delay_ms : Nat, max_delay_ms : Nat,
                         max_attempts : Int]

VARIABLE retry      \* the policy, the attempt that failed, the delay chosen

\* The powers of two.
Two[n \in Nat] == IF n = 0 THEN 1 ELSE 2 * Two[n - 1]

Half == Two[Width - 1]
Wrap(x) == ((x + Half) % (2 * Half)) - Half

\* 2_i64.pow(n) multiplies by squaring, each product wrapping.
pow(n) == IF n >= Width THEN 0 ELSE Wrap(Two[n])

Delay(policy, attempt) ==
  CASE policy.backoff = "fixed"       -> policy.initial_delay_ms
    [] policy.backoff = "linear"      -> Wrap(policy.initial_delay_ms * attempt)
    [] OTHER                          ->
         Wrap(policy.initial_delay_ms * pow(IF attempt > 1 THEN attempt - 1 ELSE 0))

clamp(x, hi) == IF x < 0 THEN 0 ELSE IF x > hi THEN hi ELSE x

\* Mutant: the jitter is added after the clamp.
compute_backoff_jitterLast(policy, attempt) ==
  LET delay == clamp(Delay(policy, attempt), policy.max_delay_ms)
      range == delay \div 4
  IN  {delay + jitter : jitter \in (-range) .. range}

compute_backoff(policy, attempt) ==
  LET delay == Delay(policy, attempt)
      range == IF delay >= 4 THEN delay \div 4 ELSE 0
  IN  {clamp(Wrap(delay + jitter), policy.max_delay_ms) : jitter \in (-range) .. range}

-----------------------------------------------------------------------------
RetryInit ==
  \E p \in Policies : retry = [policy |-> p, attempt |-> 0, delay |-> 0]

RetryNext ==
  /\ retry.attempt < retry.policy.max_attempts - 1
  /\ \E d \in compute_backoff(retry.policy, retry.attempt + 1) :
       retry' = [retry EXCEPT !.attempt = @ + 1, !.delay = d]

-----------------------------------------------------------------------------
(* The documented schedule, on unbounded integers.                         *)

Nominal(policy, attempt) ==
  policy.initial_delay_ms *
    (CASE policy.backoff = "fixed"       -> 1
       [] policy.backoff = "linear"      -> attempt
       [] OTHER                          -> Two[attempt - 1])

\* Room for the delay and its jitter in a word.
Fits(policy, attempt) == Nominal(policy, attempt) * 5 < 4 * Half

\* The delay never exceeds max_delay_ms, and for the attempts whose delay the
\* word has room for it is the documented one, give or take a quarter.
DelayAsDocumented ==
  LET p == retry.policy
      n == Nominal(p, retry.attempt)
  IN  retry.attempt > 0 =>
        /\ retry.delay \in 0 .. p.max_delay_ms
        /\ Fits(p, retry.attempt) =>
             /\ 4 * retry.delay <= 5 * n
             /\ 4 * retry.delay >= 3 * n \/ retry.delay = p.max_delay_ms

\* Once the nominal delay has passed max_delay_ms, every retry waits that long,
\* give or take the jitter (retry-policy.md), for all attempts that follow.
DelayStaysAtCap ==
  LET p == retry.policy
  IN  retry.attempt > 0 /\ Nominal(p, retry.attempt) > p.max_delay_ms =>
        4 * retry.delay >= 3 * p.max_delay_ms
=============================================================================
