----------------------------- MODULE RateLimit ------------------------------
(***************************************************************************)
(* The fixed-window rate limit of one scope and action: consume and        *)
(* prune_rate_limits of storage/quotas.py.  Each statement of consume is a *)
(* step of its own; at READ COMMITTED it sees what others have committed.  *)
(***************************************************************************)
EXTENDS ApiRequests, Naturals, FiniteSets

CONSTANTS
  Callers,
  Limit,
  MaxWindow,  \* bound on the windows that begin
  MaxCalls    \* bound on the calls

ASSUME RateLimitAssumption ==
  /\ Limit \in Nat \ {0} /\ MaxWindow \in Nat \ {0} /\ MaxCalls \in Nat
  /\ IsFiniteSet(Callers) /\ Callers # {} /\ None \notin Nat

VARIABLES
  now,      \* the window of the current time
  bucket,   \* rate_limit_buckets: window -> None or the count
  call,     \* what a caller is about to do, for the window in which it called
  calls,    \* the number of calls
  allowed,  \* history: calls of each window that were allowed
  refused   \* history: windows in which a call was refused

rateLimitHistory == <<allowed, refused>>
rateLimitVars == <<now, bucket, call, calls, rateLimitHistory>>

Windows == 1..MaxWindow
NoCall == [at |-> "idle"]

\* Counts stay within the limit.
RateLimitTypeOK ==
  /\ now \in Windows
  /\ bucket \in [Windows -> {None} \cup (1..Limit)]
  /\ call \in [Callers -> {NoCall} \cup [at : {"update", "look", "insert", "retry", "count"}, window : Windows]]
  /\ calls \in 0..MaxCalls /\ allowed \in [Windows -> 0..MaxCalls] /\ refused \subseteq Windows

RateLimitInit ==
  /\ now = 1
  /\ bucket = [w \in Windows |-> None]
  /\ call = [c \in Callers |-> NoCall]
  /\ calls = 0
  /\ allowed = [w \in Windows |-> 0] /\ refused = {}

Step(c, at) == call' = [call EXCEPT ![c].at = at]

\* The decision from a count: allowed when count <= limit.
Decide(c, count) ==
  LET w == call[c].window IN
  /\ call' = [call EXCEPT ![c] = NoCall]
  /\ IF count =< Limit THEN allowed' = [allowed EXCEPT ![w] = @ + 1] /\ UNCHANGED refused
     ELSE refused' = refused \cup {w} /\ UNCHANGED allowed

-----------------------------------------------------------------------------

\* consume: the window is that of the clock when the call begins.
Consume(c) ==
  /\ call[c] = NoCall /\ calls < MaxCalls
  /\ calls' = calls + 1
  /\ call' = [call EXCEPT ![c] = [at |-> "update", window |-> now]]
  /\ UNCHANGED <<now, bucket, rateLimitHistory>>

HasRoom(w) == bucket[w] # None /\ bucket[w] < Limit

\* The conditional UPDATE; without a row that has room it changes nothing.
Increment(c) ==
  LET w == call[c].window IN
  /\ call[c].at = "update"
  /\ IF HasRoom(w) THEN bucket' = [bucket EXCEPT ![w] = @ + 1] /\ Step(c, "count")
     ELSE UNCHANGED bucket /\ Step(c, "look")
  /\ UNCHANGED <<now, calls, rateLimitHistory>>

\* Mutant: the count alone.
CountOnly(w) == bucket[w]

\* The row that the UPDATE did not change: its count and one more.  The row may have been
\* inserted since; then the call is decided without having been counted.
Overflow(w) == bucket[w] + 1

Look(c) ==
  LET w == call[c].window IN
  /\ call[c].at = "look"
  /\ IF bucket[w] # None THEN Decide(c, Overflow(w)) ELSE Step(c, "insert") /\ UNCHANGED rateLimitHistory
  /\ UNCHANGED <<now, bucket, calls>>

\* The INSERT fails when another first call has won.
Insert(c) ==
  LET w == call[c].window IN
  /\ call[c].at = "insert"
  /\ IF bucket[w] = None THEN bucket' = [bucket EXCEPT ![w] = 1] /\ Decide(c, 1)
     ELSE UNCHANGED <<bucket, rateLimitHistory>> /\ Step(c, "retry")
  /\ UNCHANGED <<now, calls>>

Retry(c) ==
  LET w == call[c].window IN
  /\ call[c].at = "retry"
  /\ IF HasRoom(w) THEN bucket' = [bucket EXCEPT ![w] = @ + 1] /\ Step(c, "count") /\ UNCHANGED rateLimitHistory
     ELSE UNCHANGED bucket /\ Decide(c, Limit + 1)
  /\ UNCHANGED <<now, calls>>

\* _bucket_count in a session of its own: what others have counted since is in it.
ReadCount(c) ==
  LET w == call[c].window IN
  /\ call[c].at = "count"
  /\ Decide(c, IF bucket[w] = None THEN 0 ELSE bucket[w])
  /\ UNCHANGED <<now, bucket, calls>>

Tick ==
  /\ now < MaxWindow
  /\ now' = now + 1
  /\ UNCHANGED <<bucket, call, calls, rateLimitHistory>>

\* prune_rate_limits of the windows before the current one.
Prune ==
  /\ \E w \in Windows : w < now /\ bucket[w] # None
  /\ bucket' = [w \in Windows |-> IF w < now THEN None ELSE bucket[w]]
  /\ UNCHANGED <<now, call, calls, rateLimitHistory>>

\* The caller's process dies.
CallerDies(c) ==
  /\ call[c] # NoCall
  /\ call' = [call EXCEPT ![c] = NoCall]
  /\ UNCHANGED <<now, bucket, calls, rateLimitHistory>>

RateLimitNext ==
  \/ Tick \/ Prune
  \/ \E c \in Callers :
       Consume(c) \/ Increment(c) \/ Look(c) \/ Insert(c) \/ Retry(c) \/ ReadCount(c) \/ CallerDies(c)

RateLimitSpec == RateLimitInit /\ [][RateLimitNext]_rateLimitVars

-----------------------------------------------------------------------------

\* In the current window, more calls than the limit are allowed only by those that raced the
\* first one, fewer than there are callers; and none is refused before the limit is reached.
QuotaHolds ==
  /\ allowed[now] =< Limit + Cardinality(Callers) - 1
  /\ now \in refused => bucket[now] = Limit

-----------------------------------------------------------------------------
(* The inductive invariant behind RateLimitTypeOK and QuotaHolds *)

\* The callers that are in the given places of consume for window w.
Among(places, w) == {c \in Callers : call[c].at \in places /\ call[c] # NoCall /\ call[c].window = w}
Anywhere == {"update", "look", "insert", "retry", "count"}

\* Every call is answered at most once.
Answered == \A w \in Windows : allowed[w] + Cardinality(Among(Anywhere, w)) =< calls

\* Nobody has called in a window that has not begun.
Unbegun ==
  \A w \in Windows : w > now => bucket[w] = None /\ allowed[w] = 0 /\ w \notin refused /\ Among(Anywhere, w) = {}

\* Before the first call of the current window has inserted its row nobody is allowed or refused.
\* Of those who saw no row at their update one inserts it; the others, fewer than the callers, may
\* find that it has room and be allowed without being counted, for as long as it has room.
Counted ==
  LET w == now IN
  /\ bucket[w] = None =>
       allowed[w] = 0 /\ w \notin refused /\ Among({"retry", "count"}, w) = {}
  /\ HasRoom(w) =>
       /\ allowed[w] + Cardinality(Among({"look", "count"}, w)) < bucket[w] + Cardinality(Callers)
       /\ w \notin refused
  /\ bucket[w] = Limit =>
       allowed[w] + Cardinality(Among({"count"}, w)) < Limit + Cardinality(Callers)

RateLimitInv == RateLimitTypeOK /\ Answered /\ Unbegun /\ Counted
=============================================================================
