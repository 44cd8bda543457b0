--------------------------- MODULE ToolRateLimiter ---------------------------
(***************************************************************************)
(* Layer 1 of services/rate_limiter.py: the sliding-window limiter that     *)
(* tool_node consults once per provider.  One instance of this module is    *)
(* one (user_id, provider) pair: the two Redis sorted sets                  *)
(*     ratelimit:{user}:{provider}:minute   and   ...:hour                  *)
(* shared by all the coroutines and Gunicorn workers serving that user.     *)
(*                                                                         *)
(* check_and_increment is three Redis transactions with an await between    *)
(* them (prune+count minute, prune+count hour, add to both); each is one    *)
(* atomic action here and anything may happen in between.                   *)
(***************************************************************************)
EXTENDS Integers, FiniteSets

CONSTANTS
    Workers,        \* coroutines that can be inside the limiter at once
    Members,        \* unique sorted-set members, f"{now}:{uuid4().hex[:8]}"
    MinuteLimit, HourLimit,     \* _get_provider_limits(provider)
    MinuteWindow, HourWindow,   \* WINDOW_SIZES
    MinuteSlack, HourSlack,     \* the +10 and +60 of the two EXPIREs
    CallTimeout,    \* socket_timeout and one retry, over the three transactions
    MaxTime,        \* bound on the clock
    NoMember        \* no member generated

ASSUME WorkersFinite == IsFiniteSet(Workers) /\ Workers # {}
ASSUME MembersFinite == IsFiniteSet(Members) /\ Members # {}
ASSUME LimitsPositive == MinuteLimit \in Nat \ {0} /\ HourLimit \in Nat \ {0}
ASSUME WindowsPositive == MinuteWindow \in Nat \ {0} /\ HourWindow \in Nat \ {0}
ASSUME SlackNatural == MinuteSlack \in Nat /\ HourSlack \in Nat
ASSUME TimeoutPositive == CallTimeout \in Nat \ {0}
ASSUME MaxTimeNatural == MaxTime \in Nat
ASSUME NoMemberOutside == NoMember \notin Members

VARIABLES
    clock,          \* time.time(), the one clock of the host
    minute, hour,   \* members of the two sorted sets
    score,          \* the score of a member, the same in both sets
    minuteExp, hourExp, \* when Redis drops the keys (EXPIRE)
    pc,             \* where a worker is in check_and_increment
    now, member,    \* its locals, sampled once on entry
    retry,          \* retry_after of its last denial
    recorded,       \* history: every member added since the last reset
    overlapped      \* history: two calls were under way at the same time

vars == <<clock, minute, hour, score, minuteExp, hourExp, pc, now, member, retry, recorded,
          overlapped>>

Waiting == {"minute", "full_minute", "hour", "full_hour", "record", "usage"}
Phase == {"idle", "allowed", "denied_minute", "denied_hour"} \union Waiting

(***************************************************************************)
(* Redis: a sorted set without the scores <= start (ZREMRANGEBYSCORE key 0  *)
(* start), and the expiry of both keys when the clock reaches t.            *)
(***************************************************************************)
Prune(set, start) == {m \in set : score[m] > start}

MinuteAt(t) == IF minuteExp <= t THEN {} ELSE minute
HourAt(t) == IF hourExp <= t THEN {} ELSE hour

\* The locals of a call die with it.
Leave(w) ==
    /\ pc' = [pc EXCEPT ![w] = "idle"]
    /\ now' = [now EXCEPT ![w] = 0]
    /\ member' = [member EXCEPT ![w] = NoMember]
    /\ retry' = [retry EXCEPT ![w] = 0]

Init ==
    /\ clock = 0
    /\ minute = {} /\ hour = {}
    /\ score = [m \in Members |-> 0]
    /\ minuteExp = 0 /\ hourExp = 0
    /\ pc = [w \in Workers |-> "idle"]
    /\ now = [w \in Workers |-> 0]
    /\ member = [w \in Workers |-> NoMember]
    /\ retry = [w \in Workers |-> 0]
    /\ recorded = {}
    /\ overlapped = FALSE

-----------------------------------------------------------------------------

\* check_and_increment, entry: `now` and `member` are fixed before any await.
Call(w) ==
    /\ pc[w] = "idle"
    /\ \E m \in Members \ (recorded \union {member[v] : v \in Workers}) :
          member' = [member EXCEPT ![w] = m]
    /\ now' = [now EXCEPT ![w] = clock]
    /\ pc' = [pc EXCEPT ![w] = "minute"]
    /\ overlapped' = (overlapped \/ \E v \in Workers : pc[v] # "idle")
    /\ UNCHANGED <<clock, minute, hour, score, minuteExp, hourExp, retry, recorded>>

\* MUTANT of CheckMinute: > for >=.
CheckMinuteOffByOne(w) ==
    /\ pc[w] = "minute"
    /\ minute' = Prune(minute, now[w] - MinuteWindow)
    /\ pc' = [pc EXCEPT ![w] =
                IF Cardinality(minute') > MinuteLimit THEN "full_minute" ELSE "hour"]
    /\ UNCHANGED <<clock, hour, score, minuteExp, hourExp, now, member, retry, recorded,
                   overlapped>>

\* First transaction: prune the minute set, count it, deny at the limit.
CheckMinute(w) ==
    /\ pc[w] = "minute"
    /\ minute' = Prune(minute, now[w] - MinuteWindow)
    /\ pc' = [pc EXCEPT ![w] =
                IF Cardinality(minute') >= MinuteLimit THEN "full_minute" ELSE "hour"]
    /\ UNCHANGED <<clock, hour, score, minuteExp, hourExp, now, member, retry, recorded,
                   overlapped>>

\* Second transaction: the same for the hour set.
CheckHour(w) ==
    /\ pc[w] = "hour"
    /\ hour' = Prune(hour, now[w] - HourWindow)
    /\ pc' = [pc EXCEPT ![w] =
                IF Cardinality(hour') >= HourLimit THEN "full_hour" ELSE "record"]
    /\ UNCHANGED <<clock, minute, score, minuteExp, hourExp, now, member, retry, recorded,
                   overlapped>>

\* MUTANT of RetryAfter: min(1, ...) for max(1, ...).
RetryAfterAtMostOne(set, window, t) ==
    IF set = {}
      THEN window
      ELSE LET oldest == CHOOSE m \in set : \A n \in set : score[m] <= score[n]
               wait   == window - (t - score[oldest]) + 1
           IN IF wait > 1 THEN 1 ELSE wait

\* retry_after: from the oldest entry, read by a ZRANGE of its own after the
\* transaction (so the set may have changed), never below one second.
RetryAfter(set, window, t) ==
    IF set = {}
      THEN window
      ELSE LET oldest == CHOOSE m \in set : \A n \in set : score[m] <= score[n]
               wait   == window - (t - score[oldest]) + 1
           IN IF wait < 1 THEN 1 ELSE wait

DenyMinute(w) ==
    /\ pc[w] = "full_minute"
    /\ retry' = [retry EXCEPT ![w] = RetryAfter(minute, MinuteWindow, now[w])]
    /\ pc' = [pc EXCEPT ![w] = "denied_minute"]
    /\ UNCHANGED <<clock, minute, hour, score, minuteExp, hourExp, now, member, recorded,
                   overlapped>>

DenyHour(w) ==
    /\ pc[w] = "full_hour"
    /\ retry' = [retry EXCEPT ![w] = RetryAfter(hour, HourWindow, now[w])]
    /\ pc' = [pc EXCEPT ![w] = "denied_hour"]
    /\ UNCHANGED <<clock, minute, hour, score, minuteExp, hourExp, now, member, recorded,
                   overlapped>>

\* MUTANT of Record: both keys expire with the minute window.
RecordShortExpiry(w) ==
    /\ pc[w] = "record"
    /\ minute' = minute \union {member[w]}
    /\ hour' = hour \union {member[w]}
    /\ score' = [score EXCEPT ![member[w]] = now[w]]
    /\ minuteExp' = clock + MinuteWindow + MinuteSlack
    /\ hourExp' = clock + MinuteWindow + MinuteSlack
    /\ recorded' = recorded \union {member[w]}
    /\ pc' = [pc EXCEPT ![w] = "allowed"]
    /\ UNCHANGED <<clock, now, member, retry, overlapped>>

\* Third transaction: ZADD and EXPIRE on both keys.  The client is built with
\* retry_on_timeout, so a transaction whose answer is late runs again: the worker
\* may stay at "record".
Record(w) ==
    /\ pc[w] = "record"
    /\ minute' = minute \union {member[w]}
    /\ hour' = hour \union {member[w]}
    /\ score' = [score EXCEPT ![member[w]] = now[w]]
    /\ minuteExp' = clock + MinuteWindow + MinuteSlack
    /\ hourExp' = clock + HourWindow + HourSlack
    /\ recorded' = recorded \union {member[w]}
    /\ \/ pc' = [pc EXCEPT ![w] = "allowed"]
       \/ pc' = pc
    /\ UNCHANGED <<clock, now, member, retry, overlapped>>

\* The RateLimitResult reaches tool_node.
Return(w) ==
    /\ pc[w] \in {"allowed", "denied_minute", "denied_hour"}
    /\ Leave(w)
    /\ UNCHANGED <<clock, minute, hour, score, minuteExp, hourExp, recorded, overlapped>>

\* A Redis error or the death of the worker in the middle of the call: what was
\* written stays written, the rest never happens.
Fail(w) ==
    /\ pc[w] \in Waiting
    /\ Leave(w)
    /\ UNCHANGED <<clock, minute, hour, score, minuteExp, hourExp, recorded, overlapped>>

\* get_usage: `now`, then one transaction that prunes and counts both sets.
CallUsage(w) ==
    /\ pc[w] = "idle"
    /\ now' = [now EXCEPT ![w] = clock]
    /\ pc' = [pc EXCEPT ![w] = "usage"]
    /\ overlapped' = (overlapped \/ \E v \in Workers : pc[v] # "idle")
    /\ UNCHANGED <<clock, minute, hour, score, minuteExp, hourExp, member, retry, recorded>>

GetUsage(w) ==
    /\ pc[w] = "usage"
    /\ minute' = Prune(minute, now[w] - MinuteWindow)
    /\ hour' = Prune(hour, now[w] - HourWindow)
    /\ Leave(w)
    /\ UNCHANGED <<clock, score, minuteExp, hourExp, recorded, overlapped>>

\* MUTANT of Reset: the hour key is forgotten.
ResetMinuteOnly ==
    /\ recorded # {}
    /\ minute' = {} /\ hour' = hour
    /\ recorded' = {}
    /\ UNCHANGED <<clock, score, minuteExp, hourExp, pc, now, member, retry, overlapped>>

\* reset: one DEL of both keys.
Reset ==
    /\ recorded # {}
    /\ minute' = {} /\ hour' = {}
    /\ recorded' = {}
    /\ UNCHANGED <<clock, score, minuteExp, hourExp, pc, now, member, retry, overlapped>>

\* Time passes, and Redis drops the keys that expire.  A call that waits for
\* Redis gives up (Fail) before CallTimeout.
Tick ==
    /\ clock < MaxTime
    /\ \A w \in Workers : pc[w] \in Waiting => clock + 1 - now[w] <= CallTimeout
    /\ clock' = clock + 1
    /\ minute' = MinuteAt(clock + 1)
    /\ hour' = HourAt(clock + 1)
    /\ UNCHANGED <<score, minuteExp, hourExp, pc, now, member, retry, recorded,
                   overlapped>>

Next ==
    \/ \E w \in Workers :
          \/ Call(w) \/ CheckMinute(w) \/ DenyMinute(w) \/ CheckHour(w) \/ DenyHour(w)
          \/ Record(w) \/ Return(w) \/ Fail(w) \/ CallUsage(w) \/ GetUsage(w)
    \/ Reset
    \/ Tick

Spec == Init /\ [][Next]_vars

-----------------------------------------------------------------------------

\* Type correctness of the two sorted sets and of the callers' locals.
TypeOK ==
    /\ clock \in Nat
    /\ minute \subseteq recorded /\ hour \subseteq recorded
    /\ recorded \subseteq Members
    /\ score \in [Members -> Nat]
    /\ minuteExp \in Nat /\ hourExp \in Nat
    /\ pc \in [Workers -> Phase]
    /\ now \in [Workers -> Nat]
    /\ member \in [Workers -> Members \union {NoMember}]
    /\ \A w \in Workers : pc[w] \in Phase \ {"idle", "usage"} => member[w] \in Members
    /\ retry \in [Workers -> Nat]
    /\ overlapped \in BOOLEAN

\* What the limiter really guarantees when several coroutines race between the
\* count and the ZADD: a set exceeds its limit by at most one entry for each
\* caller but the last.  (rate_limiter.py 186-266.)
Overshoot == Cardinality(Workers) - 1

\* The stored sets never hold more than the limit plus the possible overshoot.
StoredBounded ==
    /\ Cardinality(minute) <= MinuteLimit + Overshoot
    /\ Cardinality(hour) <= HourLimit + Overshoot

InWindow(t, window) == {m \in recorded : t - window < score[m] /\ score[m] <= t}

\* The claim of the docstring of check_and_increment (rate_limiter.py 188-191), that
\* the check and the record are one indivisible step: no window exceeds its limit.
NoOvershoot ==
    \A t \in 0..clock :
       /\ Cardinality(InWindow(t, MinuteWindow)) <= MinuteLimit
       /\ Cardinality(InWindow(t, HourWindow)) <= HourLimit

\* Neither pruning nor EXPIRE loses a call that is still inside its window: what
\* was admitted and is recent is counted.
RecentCallsCounted ==
    /\ \A m \in recorded : score[m] > clock - MinuteWindow => m \in minute
    /\ \A m \in recorded : score[m] > clock - HourWindow => m \in hour

\* A caller that comes back after its retry_after finds the set below its limit.
Opens(w, set, window, limit) == Cardinality(Prune(set, now[w] + retry[w] - window)) < limit

\* retry_after is what RateLimitResult says it is (rate_limiter.py 105), "seconds until
\* a slot opens": as long as calls do not overlap, a caller that comes back after that
\* long finds the set that denied it below its limit.
RetryOpensSlot ==
    \A w \in Workers : ~overlapped =>
       /\ pc[w] = "denied_minute" => Opens(w, minute, MinuteWindow, MinuteLimit)
       /\ pc[w] = "denied_hour" => Opens(w, hour, HourWindow, HourLimit)

=============================================================================
