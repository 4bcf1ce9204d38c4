----------------------------- MODULE RateLimiter -----------------------------
(***************************************************************************)
(* auth.RateLimiter (server/internal/auth/ratelimit.go) and the middleware *)
(* around it (server/internal/httpapi/ratelimit.go): a fixed-window counter *)
(* per client address and one for all clients.  Allow runs under the mutex *)
(* and is one step.  Time is a counter of ticks, TicksPerSecond of them in *)
(* a second: windows are durations, Retry-After is in whole seconds.       *)
(***************************************************************************)
EXTENDS Naturals

CONSTANTS IPs,
          PerIPMax, GlobalMax,  \* cfg.Auth.RateLimitPerIP, RateLimitGlobal
          Window,               \* cfg.Auth.RateLimitWindow, in ticks
          TicksPerSecond,
          MaxClock              \* bound: clock

ASSUME LimitsAssumption ==
    /\ PerIPMax \in Nat \ {0} /\ GlobalMax \in Nat \ {0}
    /\ Window \in Nat \ {0} /\ TicksPerSecond \in Nat \ {0}
    /\ MaxClock \in Nat

VARIABLES
    clock,
    perIP,      \* r.perIP; an address never seen has a bucket of time zero
    global,     \* r.global
    told,       \* history: when the last refusal said a counter rolls over
    retryAt,    \* history: when the last Retry-After header asked to come back
    admitted,   \* history: admitted[ip][t] requests let through up to tick t
    total       \* history: the same of all addresses

buckets == <<perIP, global>>
history == <<told, retryAt, admitted, total>>
limiterVars == <<clock, buckets, history>>

Ticks == 0..(MaxClock + 1)
Bucket(max) == [count : 0..max, end : Nat]
Never == [count |-> 0, end |-> 0]

LimiterTypeOK ==
    /\ clock \in 1..(MaxClock + 1)
    /\ perIP \in [IPs -> Bucket(PerIPMax)]
    /\ global \in Bucket(GlobalMax)
    /\ told \in [IPs -> Nat]
    /\ retryAt \in [IPs -> Nat]
    /\ admitted \in [IPs -> [Ticks -> Nat]]
    /\ total \in [Ticks -> Nat]

\* The clock starts after time zero, which time.Time.IsZero tells apart.
LimiterInit ==
    /\ clock = 1
    /\ perIP = [ip \in IPs |-> Never]
    /\ global = Never
    /\ told = [ip \in IPs |-> 0]
    /\ retryAt = [ip \in IPs |-> 0]
    /\ admitted = [ip \in IPs |-> [t \in Ticks |-> 0]]
    /\ total = [t \in Ticks |-> 0]

ClockTicks ==
    /\ clock <= MaxClock
    /\ clock' = clock + 1
    /\ UNCHANGED <<buckets, history>>

-----------------------------------------------------------------------------

\* Mutant: the count is reset and the old end stays.
RolledInPlace(b) ==
    IF b.end <= clock THEN [count |-> 0, end |-> b.end + Window] ELSE b

\* A bucket whose window has ended starts a new one at this access.
Rolled(b) ==
    IF b.end <= clock THEN [count |-> 0, end |-> clock + Window] ELSE b

\* One more from this tick on.
OneMore(count) == [t \in Ticks |-> IF t < clock THEN count[t] ELSE count[t] + 1]

Admit(ip) ==
    /\ admitted' = [admitted EXCEPT ![ip] = OneMore(@)]
    /\ total' = OneMore(total)

Counted(b) == [b EXCEPT !.count = @ + 1]

\* Mutant: the part of a second is cut off.
HeaderFloor(wait) ==
    IF wait < TicksPerSecond THEN 1 ELSE wait \div TicksPerSecond

\* Retry-After: the wait in seconds, rounded up, one at least.
Header(wait) ==
    LET seconds == (wait + TicksPerSecond - 1) \div TicksPerSecond
    IN  IF seconds < 1 THEN 1 ELSE seconds

\* Mutant: the caller is told a whole window, not what is left of it.
RefusalForAWindow(ip, end) ==
    /\ told' = [told EXCEPT ![ip] = clock + Window]
    /\ retryAt' = [retryAt EXCEPT
                     ![ip] = clock + TicksPerSecond * Header(Window)]
    /\ UNCHANGED <<admitted, total>>

Refusal(ip, end) ==
    /\ told' = [told EXCEPT ![ip] = end]
    /\ retryAt' = [retryAt EXCEPT
                     ![ip] = clock + TicksPerSecond * Header(end - clock)]
    /\ UNCHANGED <<admitted, total>>

\* Mutant: a request over its own budget is still counted.
AllowCountsRefusals(ip) ==
    LET b == Rolled(perIP[ip])
        g == Rolled(global)
    IN  /\ perIP' = [perIP EXCEPT ![ip] = Counted(b)]
        /\ global' = Counted(g)
        /\ \/ b.count >= PerIPMax /\ Refusal(ip, b.end)
           \/ b.count < PerIPMax /\ g.count >= GlobalMax /\ Refusal(ip, g.end)
           \/ /\ b.count < PerIPMax /\ g.count < GlobalMax
              /\ Admit(ip)
              /\ UNCHANGED <<told, retryAt>>
        /\ UNCHANGED clock

\* Both buckets roll over first; the address is judged before the total, and
\* a refused request is counted nowhere.
Allow(ip) ==
    LET b == Rolled(perIP[ip])
        g == Rolled(global)
    IN  /\ \/ /\ b.count >= PerIPMax
              /\ Refusal(ip, b.end)
              /\ perIP' = [perIP EXCEPT ![ip] = b]
              /\ global' = g
           \/ /\ b.count < PerIPMax /\ g.count >= GlobalMax
              /\ Refusal(ip, g.end)
              /\ perIP' = [perIP EXCEPT ![ip] = b]
              /\ global' = g
           \/ /\ b.count < PerIPMax /\ g.count < GlobalMax
              /\ perIP' = [perIP EXCEPT ![ip] = Counted(b)]
              /\ global' = Counted(g)
              /\ Admit(ip)
              /\ UNCHANGED <<told, retryAt>>
        /\ UNCHANGED clock

LimiterNext == ClockTicks \/ \E ip \in IPs : Allow(ip)

LimiterSpec == LimiterInit /\ [][LimiterNext]_limiterVars

-----------------------------------------------------------------------------
(* Properties.                                                              *)

\* The wait a refusal reports is not shorter than it had to be said: until it
\* is over, the same client is refused again, whatever other clients do.
NoAdmissionBeforeTold ==
    [][\A ip \in IPs : admitted'[ip] # admitted[ip] => told[ip] <= clock]_limiterVars

\* What was let through in the Window ticks that end with this one.
Ago(t) == IF t > Window THEN t - Window ELSE 0
Spent(count) == count[clock] - count[Ago(clock)]

\* Two fixed windows overlap any stretch of one window's length, no more: an
\* address, and all of them together, get twice their budget at most in it.
TwiceTheBudget ==
    /\ \A ip \in IPs : Spent(admitted[ip]) <= 2 * PerIPMax
    /\ Spent(total) <= 2 * GlobalMax

\* The limiter does not throttle below its configuration: an address refused
\* while all are within the total budget has used its own in this window.
RefusedOnlyWhenSpent ==
    \A ip \in IPs : told[ip] > clock =>
        \/ Spent(admitted[ip]) >= PerIPMax
        \/ Spent(total) >= GlobalMax

\* A client that obeys the Retry-After header comes back when the counter
\* that refused it has rolled over, not a fraction of a second before.
HeaderCoversWait == \A ip \in IPs : told[ip] <= retryAt[ip]

\* What the comments on NewRateLimiter and rate_limit_window say: the budget
\* is "per rolling window", so it holds for ANY stretch of that length.
RollingBudget ==
    /\ \A ip \in IPs : Spent(admitted[ip]) <= PerIPMax
    /\ Spent(total) <= GlobalMax

\* What the comment on Allow says of the reported duration: it is the time
\* "until the earliest counter rolls over".
ToldTheEarliest ==
    [][\A ip \in IPs : told'[ip] # told[ip] =>
         told'[ip] <= perIP'[ip].end /\ told'[ip] <= global'.end]_limiterVars

=============================================================================
