------------------------------- MODULE Limiter -------------------------------
(***************************************************************************)
(* The limiter of sign-in attempts (limiter and throttle in                *)
(* httpapi/identity.go): a token bucket for each address and path, all of  *)
(* them dropped now and then.  A mutex makes each attempt one step.  Time  *)
(* is counted in ticks; a bucket's level is counted in ticks too, so that  *)
(* an attempt costs Every of them (rate.Every(6s), Burst 10, Forget 10     *)
(* minutes in the code).                                                   *)
(***************************************************************************)
EXTENDS Integers, FiniteSets, FiniteSetsExt

CONSTANTS
    Callers,  \* addresses with a path
    Every,    \* ticks until a bucket has one more attempt
    Burst,    \* attempts a full bucket has
    Forget,   \* ticks until the buckets may be dropped
    Window    \* the ticks over which attempts are counted: a minute in the documentation

ASSUME LimiterAssumption ==
    /\ Every \in Nat \ {0} /\ Burst \in Nat \ {0}
    /\ Window \in Nat \ {0} /\ Forget \in Nat /\ Forget >= Window

VARIABLES
    level,       \* level[c]: what c's bucket holds, NoBucket for none
    sinceReset,  \* ticks since buckets were last dropped; stops past Forget, where the limiter starts
    hits,        \* history: hits[c][a]: attempts let through a ticks ago
    fresh        \* history: ticks since c's bucket was dropped by a reset; stops at Window

limiterVars == <<level, sinceReset, hits, fresh>>

NoBucket == -1
Full == Burst * Every
Ages == 0 .. Window - 1

LimiterInit ==
    /\ level = [c \in Callers |-> NoBucket]
    /\ sinceReset = Forget + 1
    /\ hits = [c \in Callers |-> [a \in Ages |-> 0]]
    /\ fresh = [c \in Callers |-> Window]

Least(a, b) == IF a < b THEN a ELSE b

\* rate.Limiter fills a bucket as time goes by, up to its burst.
Tick ==
    /\ level' = [c \in Callers |-> IF level[c] = NoBucket THEN NoBucket ELSE Least(Full, level[c] + 1)]
    /\ sinceReset' = Least(Forget + 1, sinceReset + 1)
    /\ hits' = [c \in Callers |-> [a \in Ages |-> IF a = 0 THEN 0 ELSE hits[c][a - 1]]]
    /\ fresh' = [c \in Callers |-> Least(Window, fresh[c] + 1)]

\* Mutant: the time of the next reset is set when the limiter is made, and never again.
ForgettingAlways == sinceReset > Forget /\ UNCHANGED sinceReset

\* The reset is due, and the next one Forget ticks later.
Forgetting == sinceReset > Forget /\ sinceReset' = 0

\* allow: drops every bucket when that is due, gives c a full one if it has none, and takes an
\* attempt from it if there is one to take; throttle lets the request through or refuses it.
Allow(c) ==
    LET has(held) == IF held = NoBucket THEN Full ELSE held
        passes(held) == has(held) >= Every
        left(held) == IF passes(held) THEN has(held) - Every ELSE has(held)
    IN  \/ /\ Forgetting
           /\ level' = [x \in Callers |-> IF x = c THEN left(NoBucket) ELSE NoBucket]
           /\ fresh' = [x \in Callers |-> IF level[x] = NoBucket THEN fresh[x] ELSE 0]
           /\ hits' = [hits EXCEPT ![c][0] = @ + 1]
        \/ /\ sinceReset <= Forget /\ UNCHANGED <<sinceReset, fresh>>
           /\ level' = [level EXCEPT ![c] = left(level[c])]
           /\ hits' = [hits EXCEPT ![c][0] = @ + (IF passes(level[c]) THEN 1 ELSE 0)]

LimiterNext == Tick \/ \E c \in Callers : Allow(c)

LimiterSpec == LimiterInit /\ [][LimiterNext]_limiterVars

-----------------------------------------------------------------------------
(* Properties. *)

LimiterTypeOK ==
    /\ level \in [Callers -> {NoBucket} \cup 0 .. Full]
    /\ sinceReset \in 0 .. Forget + 1
    /\ hits \in [Callers -> [Ages -> Nat]]
    /\ fresh \in [Callers -> 0 .. Window]

Passed(c) == MapThenSumSet(LAMBDA a : hits[c][a], Ages)

\* "At worst it hands out one fresh burst" (identity.go:162): within any Window ticks a caller
\* gets a full bucket and what flows in meanwhile, and one more burst if its bucket was dropped.
MinuteBound ==
    \A c \in Callers :
        Passed(c) <= Burst + ((Window - 1) \div Every) + (IF fresh[c] < Window THEN Burst ELSE 0)
=============================================================================
