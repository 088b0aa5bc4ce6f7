---------------------------- MODULE MCRateLimiter ----------------------------
(* Model-checking instances of RateLimiter.                                *)
EXTENDS RateLimiter, TLC

Symmetry == Permutations(Calls)

\* A burst of two above the steady rate; the same with an hour limit that binds
\* first; a rate of one that calls which overlap exceed; and a limit of zero.
MCConfigs == {[perMinute |-> 1, perHour |-> 3, burst |-> 2],
              [perMinute |-> 1, perHour |-> 1, burst |-> 2],
              [perMinute |-> 1, perHour |-> 3, burst |-> 0],
              [perMinute |-> 0, perHour |-> 1, burst |-> 0]}
=============================================================================
