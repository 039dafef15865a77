------------------------------ MODULE Limiter ------------------------------
(***************************************************************************)
(* The rate limiter of the source clients (osint/core/rate_limiter.py) and *)
(* the budget of the paid one (osint/clients/proxycurl.py).                *)
(*                                                                         *)
(* The counters are in Redis and shared by the agents of a fan-out and by  *)
(* all workers.  Each command is atomic, but a check and the increment     *)
(* that follows it are two commands, and others run in between.  A window  *)
(* is a second or a minute, as the domain has it; a day is longer than a   *)
(* behaviour of this module.                                               *)
(***************************************************************************)
EXTENDS Integers, FiniteSets

CONSTANTS
    Caller,       \* coroutines that ask the same domain
    Domains,      \* limits, as in RATE_LIMITS
    Retries,      \* length of retry_backoff_seconds
    MaxRequests,  \* bound on the requests of all callers
    MaxNow,       \* bound on the windows
    MaxFaults     \* bound on Redis commands that fail after an answer

ASSUME CallerAssumption == IsFiniteSet(Caller) /\ Caller # {}
ASSUME DomainsAssumption ==
    Domains \subseteq [perDay : Nat, perWindow : Nat, cap : Nat]
ASSUME BoundsAssumption ==
    Retries \in Nat /\ MaxRequests \in Nat /\ MaxNow \in Nat /\ MaxFaults \in Nat

VARIABLES
    domain,    \* the limits; 0 says that there is no such limit
    now,       \* the window
    pc,        \* where each caller is
    key,       \* the window whose counter a caller looked at
    tries,     \* attempts of its request so far
    asked,     \* requests so far
    dayCount,  \* ratelimit:<domain>:day:<date>
    count,     \* ratelimit:<domain>:minute:<n> or :second:<n>
    sent,      \* first attempts in each window
    stored,    \* whether the cache holds an answer
    spend,     \* spend:<domain>:<run>, in calls
    answered,  \* answers of the source itself
    faults     \* failed commands so far

vars == <<domain, now, pc, key, tries, asked, dayCount, count, sent, stored,
          spend, answered, faults>>

Places == {"idle", "cache", "day", "dayIncr", "window", "asleep", "count",
           "send", "store", "bill"}

Windows == 0..MaxNow

TypeOK ==
    /\ domain   \in Domains
    /\ now      \in Windows
    /\ pc       \in [Caller -> Places]
    /\ key      \in [Caller -> Windows]
    /\ tries    \in [Caller -> 0..Retries]
    /\ asked    \in 0..MaxRequests
    /\ dayCount \in Nat
    /\ count    \in [Windows -> Nat]
    /\ sent     \in [Windows -> Nat]
    /\ stored   \in BOOLEAN
    /\ spend    \in Nat
    /\ answered \in Nat
    /\ faults   \in 0..MaxFaults

Init ==
    /\ domain \in Domains
    /\ now = 0
    /\ pc = [c \in Caller |-> "idle"]
    /\ key = [c \in Caller |-> 0] /\ tries = [c \in Caller |-> 0]
    /\ asked = 0 /\ dayCount = 0
    /\ count = [w \in Windows |-> 0] /\ sent = [w \in Windows |-> 0]
    /\ stored = FALSE /\ spend = 0 /\ answered = 0 /\ faults = 0

Paid == domain.cap > 0

Goto(c, place) == pc' = [pc EXCEPT ![c] = place]

At(place) == {c \in Caller : pc[c] = place}

-----------------------------------------------------------------------------

\* Mutant: the budget is looked at only when the answer is billed.
Ask_Unchecked(c) ==
    /\ pc[c] = "idle" /\ asked < MaxRequests
    /\ asked' = asked + 1
    /\ Goto(c, "cache")
    /\ UNCHANGED <<domain, now, key, tries, dayCount, count, sent, stored, spend,
                   answered, faults>>

\* check_budget; without a budget nothing is asked.
Ask(c) ==
    /\ pc[c] = "idle" /\ asked < MaxRequests
    /\ asked' = asked + 1
    /\ IF Paid /\ spend >= domain.cap THEN UNCHANGED pc ELSE Goto(c, "cache")
    /\ UNCHANGED <<domain, now, key, tries, dayCount, count, sent, stored, spend,
                   answered, faults>>

\* An answer from the cache is billed like any other.
CacheHit(c) ==
    /\ pc[c] = "cache" /\ stored
    /\ Goto(c, IF Paid THEN "bill" ELSE "idle")
    /\ UNCHANGED <<domain, now, key, tries, asked, dayCount, count, sent, stored,
                   spend, answered, faults>>

\* A miss, an expired answer, or a POST.
CacheMiss(c) ==
    /\ pc[c] = "cache"
    /\ Goto(c, IF domain.perDay > 0 THEN "day" ELSE "window")
    /\ UNCHANGED <<domain, now, key, tries, asked, dayCount, count, sent, stored,
                   spend, answered, faults>>

\* Mutant: the last request of the day is let through once more.
ReadDay_OffByOne(c) ==
    /\ pc[c] = "day"
    /\ Goto(c, IF dayCount > domain.perDay THEN "idle" ELSE "dayIncr")
    /\ UNCHANGED <<domain, now, key, tries, asked, dayCount, count, sent, stored,
                   spend, answered, faults>>

\* GET of the day; RateLimitExceeded ends the request.
ReadDay(c) ==
    /\ pc[c] = "day"
    /\ Goto(c, IF dayCount >= domain.perDay THEN "idle" ELSE "dayIncr")
    /\ UNCHANGED <<domain, now, key, tries, asked, dayCount, count, sent, stored,
                   spend, answered, faults>>

CountDay(c) ==
    /\ pc[c] = "dayIncr"
    /\ dayCount' = dayCount + 1
    /\ Goto(c, "window")
    /\ UNCHANGED <<domain, now, key, tries, asked, count, sent, stored, spend,
                   answered, faults>>

\* GET of the window; at the limit the caller sleeps until the next one.
ReadWindow(c) ==
    /\ pc[c] = "window"
    /\ key' = [key EXCEPT ![c] = now]
    /\ Goto(c, IF domain.perWindow > 0 /\ count[now] >= domain.perWindow THEN "asleep" ELSE "count")
    /\ UNCHANGED <<domain, now, tries, asked, dayCount, count, sent, stored, spend,
                   answered, faults>>

Wake(c) ==
    /\ pc[c] = "asleep" /\ now > key[c]
    /\ Goto(c, "count")
    /\ UNCHANGED <<domain, now, key, tries, asked, dayCount, count, sent, stored,
                   spend, answered, faults>>

\* Mutant: the window is looked at and never counted.
CountWindow_Missing(c) ==
    /\ pc[c] = "count"
    /\ UNCHANGED count
    /\ tries' = [tries EXCEPT ![c] = 0]
    /\ Goto(c, "send")
    /\ UNCHANGED <<domain, now, key, asked, dayCount, sent, stored, spend,
                   answered, faults>>

\* INCR of the window that was looked at, also by a caller that slept.
CountWindow(c) ==
    /\ pc[c] = "count"
    /\ count' = [count EXCEPT ![key[c]] = @ + 1]
    /\ tries' = [tries EXCEPT ![c] = 0]
    /\ Goto(c, "send")
    /\ UNCHANGED <<domain, now, key, asked, dayCount, sent, stored, spend,
                   answered, faults>>

\* One attempt: an answer, an error, or one that is tried again, which
\* nothing counts.
Send(c) ==
    /\ pc[c] = "send"
    /\ sent' = IF tries[c] = 0 THEN [sent EXCEPT ![now] = @ + 1] ELSE sent
    /\ \/ Goto(c, "store") /\ answered' = answered + 1 /\ UNCHANGED tries
       \/ Goto(c, "idle") /\ UNCHANGED <<answered, tries>>
       \/ /\ tries[c] < Retries
          /\ tries' = [tries EXCEPT ![c] = @ + 1]
          /\ UNCHANGED <<pc, answered>>
    /\ UNCHANGED <<domain, now, key, asked, dayCount, count, stored, spend, faults>>

\* SETEX; if it fails the answer is lost and never billed.
Store(c) ==
    /\ pc[c] = "store"
    /\ \/ stored' = TRUE /\ Goto(c, IF Paid THEN "bill" ELSE "idle") /\ UNCHANGED faults
       \/ /\ faults < MaxFaults /\ faults' = faults + 1
          /\ Goto(c, "idle") /\ UNCHANGED stored
    /\ UNCHANGED <<domain, now, key, tries, asked, dayCount, count, sent, spend, answered>>

\* record_spend.
Bill(c) ==
    /\ pc[c] = "bill"
    /\ \/ spend' = spend + 1 /\ UNCHANGED faults
       \/ faults < MaxFaults /\ faults' = faults + 1 /\ UNCHANGED spend
    /\ Goto(c, "idle")
    /\ UNCHANGED <<domain, now, key, tries, asked, dayCount, count, sent, stored, answered>>

Tick ==
    /\ now < MaxNow
    /\ now' = now + 1
    /\ UNCHANGED <<domain, pc, key, tries, asked, dayCount, count, sent, stored,
                   spend, answered, faults>>

Step(c) ==
    \/ Ask(c) \/ CacheHit(c) \/ CacheMiss(c) \/ ReadDay(c) \/ CountDay(c)
    \/ ReadWindow(c) \/ Wake(c) \/ CountWindow(c) \/ Send(c) \/ Store(c) \/ Bill(c)

Next == Tick \/ \E c \in Caller : Step(c)

Spec == Init /\ [][Next]_vars

-----------------------------------------------------------------------------

N == Cardinality(Caller)

\* The quota of a day is overrun by at most one request of every caller but
\* one, whatever the interleaving of checks and increments.
DayOverrunIsBounded ==
    domain.perDay > 0 => dayCount <= domain.perDay + N - 1

\* In a window go out what its limit allows, one more for every other caller
\* that looked at the same count, and one for every caller that slept or was
\* slow and counts for an earlier window.
WindowOverrunIsBounded ==
    domain.perWindow > 0 => \A w \in Windows : sent[w] <= domain.perWindow + 2 * N - 1

\* The budget of a run is overrun by at most one call of every caller but
\* one, and what is paid beyond it are answers whose billing failed.
BudgetOverrunIsBounded ==
    Paid => /\ spend <= domain.cap + N - 1
            /\ answered <= domain.cap + N - 1 + faults

=============================================================================
