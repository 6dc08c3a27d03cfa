---------------------------- MODULE RateLimiter ----------------------------
(***************************************************************************)
(* slowapi's limits (limiter.py), counted in Redis per path and per token  *)
(* subject, or per address where there is no token.  The strategy is the   *)
(* default one, a fixed window: INCR the key, and EXPIRE it if this was    *)
(* the first hit.  A refused hit counts and extends nothing.               *)
(*                                                                         *)
(* Time is relative: ticks to the expiry of a key, and ticks since a hit   *)
(* was admitted.                                                           *)
(***************************************************************************)
EXTENDS Integers, FiniteSets

CONSTANTS
    Keys,       \* keys of one path: subjects and addresses
    Limit,      \* "60/minute": the 60
    Window      \* the minute, in ticks

ASSUME LimitAssumption == Limit \in Nat \ {0} /\ Window \in Nat \ {0}

VARIABLES
    count,      \* the counter, saturating one above Limit
    left,       \* ticks until the key expires, 0 where there is none
    recent      \* history: <<d, n>>, the n-th hit of its window, d ticks ago

buckets == <<count, left, recent>>

\* admitted hits no older than a window
Hits == (0 .. Window - 1) \X (1 .. Limit)

BucketsOK ==
    /\ count \in [Keys -> 0 .. Limit + 1]
    /\ left \in [Keys -> 0 .. Window]
    /\ recent \in [Keys -> SUBSET Hits]

InitBuckets ==
    /\ count = [k \in Keys |-> 0]
    /\ left = [k \in Keys |-> 0]
    /\ recent = [k \in Keys |-> {}]

Admits(k) == count[k] < Limit

\* mutant: the window moves with every hit
Hit_Elastic(k) ==
    /\ left' = [left EXCEPT ![k] = Window]
    /\ count' = [count EXCEPT ![k] = IF @ > Limit THEN @ ELSE @ + 1]
    /\ recent' = [recent EXCEPT ![k] =
          IF Admits(k) THEN @ \cup {<<0, count[k] + 1>>} ELSE @]

Hit(k) ==
    /\ left' = [left EXCEPT ![k] = IF @ = 0 THEN Window ELSE @]
    /\ count' = [count EXCEPT ![k] = IF @ > Limit THEN @ ELSE @ + 1]
    /\ recent' = [recent EXCEPT ![k] =
          IF Admits(k) THEN @ \cup {<<0, count[k] + 1>>} ELSE @]

Older(hits) == {<<h[1] + 1, h[2]>> : h \in {g \in hits : g[1] + 1 < Window}}

\* mutant: keys whose time to live runs on below zero
Tick_Overdue ==
    /\ left' = [k \in Keys |-> left[k] - 1]
    /\ count' = [k \in Keys |-> IF left[k] <= 1 THEN 0 ELSE count[k]]
    /\ recent' = [k \in Keys |-> Older(recent[k])]

\* mutant: a counter that is dropped a tick before its window ends
Tick_Early ==
    /\ left' = [k \in Keys |-> IF left[k] = 0 THEN 0 ELSE left[k] - 1]
    /\ count' = [k \in Keys |-> IF left[k] <= 2 THEN 0 ELSE count[k]]
    /\ recent' = [k \in Keys |-> Older(recent[k])]

\* time passes; a key that expires takes its counter along
Tick ==
    /\ left' = [k \in Keys |-> IF left[k] = 0 THEN 0 ELSE left[k] - 1]
    /\ count' = [k \in Keys |-> IF left[k] <= 1 THEN 0 ELSE count[k]]
    /\ recent' = [k \in Keys |-> Older(recent[k])]

-----------------------------------------------------------------------------
\* A fixed window promises Limit hits per window, not per interval of its
\* length.  What any such interval can see: the rest of a window whose first
\* hit came before it, and a whole new one.
Burst == \A k \in Keys : Cardinality(recent[k]) <= 2 * Limit - 1

\* A caller is refused only if Limit of its hits have been admitted within the
\* last window: neither the refused hits, which count, nor those of the window
\* before keep it out.
RefusedOnlyAtLimit ==
    \A k \in Keys : ~ Admits(k) => Cardinality(recent[k]) >= Limit

=============================================================================
