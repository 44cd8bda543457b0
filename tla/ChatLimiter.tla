----------------------------- MODULE ChatLimiter -----------------------------
(***************************************************************************)
(* Layer 2 of services/rate_limiter.py: the limits on the chat turns of one *)
(* user.  chat_stream asks check_chat_rate before a turn and calls          *)
(* log_token_usage after it; a turn runs for minutes in between, and a user *)
(* may have several open.                                                   *)
(*                                                                         *)
(* Four limits: turns in a sliding hour (one sorted set), turns of a UTC    *)
(* day (a sorted set whose key contains the date), tokens of a clock hour   *)
(* and of a UTC day (counters with the hour, the date in their keys).       *)
(***************************************************************************)
EXTENDS Integers, FiniteSets

CONSTANTS
    Requests,       \* requests of the user that can be open at once
    Members,        \* unique sorted-set members, f"{now}:{uuid4().hex[:8]}"
    TokenCounts,    \* what a turn may report as total_tokens
    RequestsPerHour, RequestsPerDay, TokensPerHour, TokensPerDay, \* _get_chat_limits(tier)
    Hour, Day,      \* 3600 and 86400
    HourSlack,      \* the +60 of the EXPIRE of the sliding set
    CallTimeout,    \* socket_timeout and its retries, over a call's transactions
    MaxRetries,     \* bound on the retries of one transaction
    MaxTime,        \* bound on the clock
    NoMember

ASSUME RequestsFinite == IsFiniteSet(Requests) /\ Requests # {}
ASSUME MembersFinite == IsFiniteSet(Members) /\ Members \cap Requests = {}
ASSUME TokensNatural == TokenCounts \subseteq Nat
ASSUME LimitsPositive ==
    /\ RequestsPerHour \in Nat \ {0} /\ RequestsPerDay \in Nat \ {0}
    /\ TokensPerHour \in Nat \ {0} /\ TokensPerDay \in Nat \ {0}
ASSUME PeriodsPositive == Hour \in Nat \ {0} /\ Day \in Nat \ {0}
ASSUME TimeNatural ==
    /\ HourSlack \in Nat /\ CallTimeout \in Nat \ {0}
    /\ MaxTime \in Nat /\ MaxRetries \in Nat
ASSUME NoMemberOutside == NoMember \notin Members /\ NoMember \notin Requests

HourOf(t) == t \div Hour    \* _hour_key_suffix
DayOf(t) == t \div Day      \* _today_key_suffix

Times == 0..MaxTime

VARIABLES
    clock,
    hourSet, hourExp,   \* chat_req:{user}:hour, and when Redis drops it
    daySet,         \* chat_req:{user}:day:{date}, by date
    hourTokens,     \* chat_tok:{user}:hour:{hour}, by hour
    dayTokens,      \* chat_tok:{user}:day:{date}, by date
    score,          \* the score of a member
    pc, now,        \* a request: its place, its time.time()
    full,           \* the limits it has read as reached
    member, tokens, \* what it is about to record
    retries, retry, \* re-runs of its transaction; the retry_after of its denial
    recorded,       \* history: members added since the last reset
    used,           \* history: tokens of the recorded turns, by hour
    overlapped      \* history: two requests were open at the same time

locals == <<pc, now, full, member, tokens, retries, retry>>
store == <<hourSet, hourExp, daySet, hourTokens, dayTokens, score>>
history == <<recorded, used, overlapped>>
vars == <<clock, store, locals, history>>

Reasons == {"requests_hour", "requests_day", "tokens_hour", "tokens_day"}
Waiting == {"requests", "tokens", "decide", "log", "usage"}
Phase == {"idle", "running", "denied"} \union Waiting

Init ==
    /\ clock = 0
    /\ hourSet = {} /\ hourExp = 0
    /\ daySet = [t \in Times |-> {}]
    /\ hourTokens = [t \in Times |-> 0] /\ dayTokens = [t \in Times |-> 0]
    /\ score = [m \in Members |-> 0]
    /\ pc = [r \in Requests |-> "idle"]
    /\ now = [r \in Requests |-> 0]
    /\ full = [r \in Requests |-> {}]
    /\ member = [r \in Requests |-> NoMember]
    /\ tokens = [r \in Requests |-> 0]
    /\ retries = [r \in Requests |-> 0]
    /\ retry = [r \in Requests |-> 0]
    /\ recorded = {} /\ used = [t \in Times |-> 0] /\ overlapped = FALSE

-----------------------------------------------------------------------------

To(r, place) == pc' = [pc EXCEPT ![r] = place]

\* The request ends; its locals are gone.
Leave(r) ==
    /\ To(r, "idle")
    /\ now' = [now EXCEPT ![r] = 0]
    /\ full' = [full EXCEPT ![r] = {}]
    /\ member' = [member EXCEPT ![r] = NoMember]
    /\ tokens' = [tokens EXCEPT ![r] = 0]
    /\ retries' = [retries EXCEPT ![r] = 0]
    /\ retry' = [retry EXCEPT ![r] = 0]

Prune(set, start) == {m \in set : score[m] > start}

\* A request opens; check_chat_rate fixes its time and, from it, its keys.
Call(r) ==
    /\ pc[r] = "idle"
    /\ To(r, "requests")
    /\ now' = [now EXCEPT ![r] = clock]
    /\ overlapped' = (overlapped \/ \E s \in Requests : pc[s] # "idle")
    /\ UNCHANGED <<clock, store, full, member, tokens, retries, retry, recorded, used>>

\* MUTANT of Reached: > for >=.
ReachedLate(count, limit) == count > limit

Reached(count, limit) == count >= limit

\* The first transaction of the check: prune and count both sets.
ReadRequests(r) ==
    LET d == DayOf(now[r]) IN
    /\ pc[r] = "requests"
    /\ hourSet' = Prune(hourSet, now[r] - Hour)
    /\ daySet' = [daySet EXCEPT ![d] = Prune(daySet[d], now[r] - Day)]
    /\ full' = [full EXCEPT ![r] =
                  {x \in {"requests_hour"} : Reached(Cardinality(hourSet'), RequestsPerHour)}
                    \union
                  {x \in {"requests_day"} : Reached(Cardinality(daySet'[d]), RequestsPerDay)}]
    /\ To(r, "tokens")
    /\ UNCHANGED <<clock, hourExp, hourTokens, dayTokens, score, now, member, tokens, retries,
                   retry, history>>

\* The second round trip reads both token counters.
ReadTokens(r) ==
    /\ pc[r] = "tokens"
    /\ full' = [full EXCEPT ![r] = @
                  \union {x \in {"tokens_hour"} : Reached(hourTokens[HourOf(now[r])], TokensPerHour)}
                  \union {x \in {"tokens_day"} : Reached(dayTokens[DayOf(now[r])], TokensPerDay)}]
    /\ To(r, "decide")
    /\ UNCHANGED <<clock, store, now, member, tokens, retries, retry, history>>

Admit(r) ==
    /\ pc[r] = "decide" /\ full[r] = {}
    /\ To(r, "running")
    /\ now' = [now EXCEPT ![r] = 0]
    /\ UNCHANGED <<clock, store, full, member, tokens, retries, retry, history>>

\* The limit that is reported: the first of the four that is reached.
Reason(reached) ==
    CASE "requests_hour" \in reached -> "requests_hour"
      [] "requests_day" \in reached -> "requests_day"
      [] "tokens_hour" \in reached -> "tokens_hour"
      [] OTHER -> "tokens_day"

\* MUTANT of UntilFree: the last second is forgotten.
UntilFreeTooShort(t) ==
    IF hourSet = {}
      THEN Hour
      ELSE LET oldest == CHOOSE m \in hourSet : \A n \in hourSet : score[m] <= score[n]
               wait == Hour - (t - score[oldest])
           IN IF wait - 1 < 1 THEN 1 ELSE wait - 1

\* Seconds until the oldest turn leaves the sliding hour; it is read after the count, by a
\* ZRANGE of its own.
UntilFree(t) ==
    IF hourSet = {}
      THEN Hour
      ELSE LET oldest == CHOOSE m \in hourSet : \A n \in hourSet : score[m] <= score[n]
               wait == Hour - (t - score[oldest]) + 1
           IN IF wait < 1 THEN 1 ELSE wait

\* retry_after: the other limits end with the current hour or day, by a clock that is read
\* after the keys were named.
RetryAfter(r) ==
    CASE Reason(full[r]) = "requests_hour" -> UntilFree(now[r])
      [] Reason(full[r]) = "tokens_hour" -> Hour - (clock % Hour)
      [] OTHER -> Day - (clock % Day)

Deny(r) ==
    /\ pc[r] = "decide" /\ full[r] # {}
    /\ retry' = [retry EXCEPT ![r] = RetryAfter(r)]
    /\ To(r, "denied")
    /\ UNCHANGED <<clock, store, now, full, member, tokens, retries, history>>

\* The 429 goes out.
Refuse(r) ==
    /\ pc[r] = "denied"
    /\ Leave(r)
    /\ UNCHANGED <<clock, store, history>>

\* MUTANT of Finish: no member is made.
FinishNoMember(r) ==
    /\ pc[r] = "running"
    /\ \E n \in TokenCounts \ {0} : tokens' = [tokens EXCEPT ![r] = n]
    /\ now' = [now EXCEPT ![r] = clock]
    /\ To(r, "log")
    /\ UNCHANGED <<clock, store, full, member, retries, retry, history>>

\* The turn reports its tokens with "done" and the stream goes on to log_token_usage,
\* which fixes its time, its keys and its member.
Finish(r) ==
    /\ pc[r] = "running"
    /\ \E n \in TokenCounts \ {0} : tokens' = [tokens EXCEPT ![r] = n]
    /\ \E m \in Members \ (recorded \union {member[s] : s \in Requests}) :
          member' = [member EXCEPT ![r] = m]
    /\ now' = [now EXCEPT ![r] = clock]
    /\ To(r, "log")
    /\ UNCHANGED <<clock, store, full, retries, retry, history>>

\* The turn ends without usage: an error, no tokens reported, or a client that hangs up
\* at the latest on receiving "done".
End(r) ==
    /\ pc[r] = "running"
    /\ Leave(r)
    /\ UNCHANGED <<clock, store, history>>

\* MUTANT of HourExpiry: the sliding set expires with the clock hour, as the counter does.
HourExpiryAligned == clock + Hour - (clock % Hour)

HourExpiry == clock + Hour + HourSlack

\* MUTANT of Increment: SET for INCRBY.
IncrementSets(counter, key, n) == [counter EXCEPT ![key] = n]

Increment(counter, key, n) == [counter EXCEPT ![key] = @ + n]

\* log_token_usage, one transaction: ZADD to both sets, INCRBY on both counters, each
\* with its EXPIRE.  The keys with a date or an hour expire at the earliest when that day
\* or hour is over and nothing reads them any more, so that their expiry is left out.
\* The transaction runs again when its answer is late (retry_on_timeout): a ZADD
\* of the same member changes nothing, an INCRBY counts again.
Log(r) ==
    LET d == DayOf(now[r])
        h == HourOf(now[r])
    IN
    /\ pc[r] = "log"
    /\ score' = [score EXCEPT ![member[r]] = now[r]]
    /\ hourSet' = hourSet \union {member[r]}
    /\ hourExp' = HourExpiry
    /\ daySet' = [daySet EXCEPT ![d] = @ \union {member[r]}]
    /\ hourTokens' = Increment(hourTokens, h, tokens[r])
    /\ dayTokens' = Increment(dayTokens, d, tokens[r])
    /\ recorded' = recorded \union {member[r]}
    /\ used' = IF member[r] \in recorded THEN used ELSE [used EXCEPT ![h] = @ + tokens[r]]
    /\ \/ Leave(r)
       \/ /\ retries[r] < MaxRetries
          /\ retries' = [retries EXCEPT ![r] = @ + 1]
          /\ UNCHANGED <<pc, now, full, member, tokens, retry>>
    /\ UNCHANGED <<clock, overlapped>>

\* A Redis error or the death of the worker during a call; a turn in progress is End.
Fail(r) ==
    /\ pc[r] \in Waiting
    /\ Leave(r)
    /\ UNCHANGED <<clock, store, history>>

\* get_chat_usage: `now`, then both sets are pruned and everything is counted.
CallUsage(r) ==
    /\ pc[r] = "idle"
    /\ To(r, "usage")
    /\ now' = [now EXCEPT ![r] = clock]
    /\ overlapped' = (overlapped \/ \E s \in Requests : pc[s] # "idle")
    /\ UNCHANGED <<clock, store, full, member, tokens, retries, retry, recorded, used>>

GetUsage(r) ==
    LET d == DayOf(now[r]) IN
    /\ pc[r] = "usage"
    /\ hourSet' = Prune(hourSet, now[r] - Hour)
    /\ daySet' = [daySet EXCEPT ![d] = Prune(daySet[d], now[r] - Day)]
    /\ Leave(r)
    /\ UNCHANGED <<clock, hourExp, hourTokens, dayTokens, score, history>>

\* reset_chat_limits: one DEL of the four keys of this hour and day.
Reset ==
    /\ recorded # {}
    /\ hourSet' = {}
    /\ daySet' = [daySet EXCEPT ![DayOf(clock)] = {}]
    /\ hourTokens' = [hourTokens EXCEPT ![HourOf(clock)] = 0]
    /\ dayTokens' = [dayTokens EXCEPT ![DayOf(clock)] = 0]
    /\ recorded' = {}
    /\ used' = [t \in Times |-> 0]
    /\ score' = [m \in Members |-> 0]
    /\ UNCHANGED <<clock, hourExp, locals, overlapped>>

\* Time passes and Redis drops what expires.  A call that waits for Redis gives up
\* (Fail) before CallTimeout; a turn may run for any time.
Tick ==
    /\ clock < MaxTime
    /\ \A r \in Requests : pc[r] \in Waiting => clock + 1 - now[r] <= CallTimeout
    /\ clock' = clock + 1
    /\ hourSet' = IF hourExp <= clock' THEN {} ELSE hourSet
    /\ UNCHANGED <<hourExp, daySet, hourTokens, dayTokens, score, locals, history>>

Next ==
    \/ \E r \in Requests :
          \/ Call(r) \/ ReadRequests(r) \/ ReadTokens(r) \/ Admit(r) \/ Deny(r) \/ Refuse(r)
          \/ Finish(r) \/ End(r) \/ Log(r) \/ Fail(r) \/ CallUsage(r) \/ GetUsage(r)
    \/ Reset
    \/ Tick

Spec == Init /\ [][Next]_vars

-----------------------------------------------------------------------------

\* Type correctness of the four keys and of the locals of the requests.
TypeOK ==
    /\ clock \in Times
    /\ hourSet \subseteq Members /\ hourExp \in Nat
    /\ daySet \in [Times -> SUBSET Members]
    /\ hourTokens \in [Times -> Nat] /\ dayTokens \in [Times -> Nat]
    /\ score \in [Members -> Times]
    /\ pc \in [Requests -> Phase]
    /\ now \in [Requests -> Times]
    /\ full \in [Requests -> SUBSET Reasons]
    /\ member \in [Requests -> Members \union {NoMember}]
    /\ \A r \in Requests : pc[r] = "log" => member[r] \in Members
    /\ tokens \in [Requests -> Nat]
    /\ retries \in [Requests -> 0..MaxRetries]
    /\ retry \in [Requests -> Nat]
    /\ recorded \subseteq Members
    /\ used \in [Times -> Nat]
    /\ overlapped \in BOOLEAN

\* Parallel turns all pass at the last free slot, but no more of them than can be open
\* (rate_limiter.py 335-376 checks, 492-506 records, the whole turn lies in between).
Overshoot == Cardinality(Requests) - 1

TurnsBounded ==
    /\ Cardinality(hourSet) <= RequestsPerHour + Overshoot
    /\ \A t \in Times : Cardinality(daySet[t]) <= RequestsPerDay + Overshoot

\* What was recorded is counted for as long as it matters: a turn of the last hour and a
\* turn of the current date are in their sets, whatever is pruned or expires
\* (rate_limiter.py 336-343, 493-497).
RecentTurnsCounted ==
    /\ \A m \in recorded : score[m] > clock - Hour => m \in hourSet
    /\ \A m \in recorded : DayOf(score[m]) = DayOf(clock) => m \in daySet[DayOf(clock)]

\* The tokens of the turns recorded in this hour are in its counter, at least once and at
\* most once more for each retry of a transaction (rate_limiter.py 499-504).
UsedTokensCounted ==
    LET h == HourOf(clock)
    IN used[h] <= hourTokens[h] /\ hourTokens[h] <= used[h] * (MaxRetries + 1)

\* Whoever comes back retry[r] later finds the limit that was reported no longer reached: a
\* turn has left the sliding hour, the clock hour or the day is another one.
HourFree(r) == Cardinality(Prune(hourSet, now[r] + retry[r] - Hour)) < RequestsPerHour
Honest(r) ==
    CASE Reason(full[r]) = "requests_hour" -> HourFree(r)
      [] Reason(full[r]) = "tokens_hour" -> HourOf(clock + retry[r]) > HourOf(now[r])
      [] OTHER -> DayOf(clock + retry[r]) > DayOf(now[r])

\* retry_after is, as ChatRateLimitResult says (rate_limiter.py 135), "seconds until reset":
\* a user who has one request open at a time and comes back after that long does not find
\* the limit that was reported reached by what is stored now.
RetryHonest == \A r \in Requests : ~overlapped /\ pc[r] = "denied" => Honest(r)

\* The docstring's daily limit, "requests_per_day (sliding window -- accurate)"
\* (rate_limiter.py 318): no window of a day holds more turns than the limit, if the
\* user opens one request at a time.
DayWindowSlides ==
    ~overlapped =>
       \A t \in 0..clock :
          Cardinality({m \in recorded : t - Day < score[m] /\ score[m] <= t}) <= RequestsPerDay

=============================================================================
