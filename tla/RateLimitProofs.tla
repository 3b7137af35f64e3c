--------------------------- MODULE RateLimitProofs ---------------------------
(***************************************************************************)
(* How far the rate limit of RateLimit holds, for every limit, every       *)
(* number of callers and every number of windows.                          *)
(***************************************************************************)
EXTENDS RateLimit, FiniteSetTheorems, TLAPS

\* Sets of callers can be counted.
LEMMA Sized ==
  ASSUME NEW S \in SUBSET Callers
  PROVE  /\ IsFiniteSet(S) /\ Cardinality(S) \in Nat
         /\ Cardinality(Callers) \in Nat /\ Cardinality(S) <= Cardinality(Callers)
BY FS_Subset, FS_CardinalityType, RateLimitAssumption

\* A set of callers that gains or loses one caller.
LEMMA SizeMoves ==
  ASSUME NEW S \in SUBSET Callers, NEW T \in SUBSET Callers, NEW c,
         S \ {c} = T \ {c}
  PROVE  /\ c \in S /\ c \notin T => Cardinality(T) = Cardinality(S) - 1
         /\ c \notin S /\ c \in T => Cardinality(T) = Cardinality(S) + 1
         /\ (c \in S <=> c \in T) => T = S
<1>1. IsFiniteSet(S) /\ IsFiniteSet(T) /\ Cardinality(S) \in Nat /\ Cardinality(T) \in Nat
  BY Sized
<1>2. CASE c \in S /\ c \notin T
  <2>1. T = S \ {c}
    BY <1>2
  <2> QED
    BY <1>1, <1>2, <2>1, FS_RemoveElement
<1>3. CASE c \notin S /\ c \in T
  <2>1. S = T \ {c}
    BY <1>3
  <2> QED
    BY <1>1, <1>3, <2>1, FS_RemoveElement
<1>4. CASE c \in S <=> c \in T
  BY <1>4
<1> QED
  BY <1>2, <1>3, <1>4

\* When one caller moves, only that caller enters or leaves a place.
LEMMA OthersStay ==
  ASSUME NEW c \in Callers, NEW v, call' = [call EXCEPT ![c] = v], DOMAIN call = Callers, NEW P, NEW w
  PROVE  /\ Among(P, w) \in SUBSET Callers /\ Among(P, w)' \in SUBSET Callers
         /\ Among(P, w) \ {c} = Among(P, w)' \ {c}
BY DEF Among

\* The next place of a caller that stays in its call.
LEMMA Stepped ==
  ASSUME RateLimitTypeOK, NEW c \in Callers, call[c] # NoCall, NEW l \in Anywhere, Step(c, l)
  PROVE  call' = [call EXCEPT ![c] = [at |-> l, window |-> call[c].window]]
<1>1. PICK q : q = call[c]
  OBVIOUS
<1>2. q \in [at : Anywhere, window : Windows]
  BY <1>1 DEF RateLimitTypeOK, Anywhere
<1>3. [q EXCEPT !.at = l] = [at |-> l, window |-> q.window]
  BY <1>2
<1> QED
  BY <1>1, <1>3 DEF Step

\* A caller in its call is in one place of one window that has begun.
LEMMA InCall ==
  ASSUME RateLimitTypeOK, NEW c \in Callers, call[c] # NoCall
  PROVE  /\ call[c] \in [at : Anywhere, window : Windows]
         /\ \A P : call[c].at \in P => c \in Among(P, call[c].window)
BY DEF RateLimitTypeOK, Among, Anywhere

\* What a step does to the calls: nothing, a call begins, a caller goes on in its call, the call
\* is decided, or its process dies.
LEMMA Kinds ==
  ASSUME [RateLimitNext]_rateLimitVars
  PROVE  \/ UNCHANGED <<call, calls, allowed, refused>>
         \/ \E c \in Callers : Consume(c)
         \/ \E c \in Callers :
              /\ call[c] # NoCall /\ UNCHANGED <<now, calls>>
              /\ \/ (\E l \in Anywhere : Step(c, l)) /\ UNCHANGED rateLimitHistory
                 \/ \E count : Decide(c, count)
                 \/ CallerDies(c)
<1>1. ASSUME NEW c \in Callers, Increment(c)
      PROVE  call[c] # NoCall /\ UNCHANGED <<now, calls, rateLimitHistory>> /\ \E l \in Anywhere : Step(c, l)
  BY <1>1 DEF Increment, Anywhere, NoCall
<1>2. ASSUME NEW c \in Callers, Look(c) \/ Insert(c) \/ Retry(c) \/ ReadCount(c)
      PROVE  /\ call[c] # NoCall /\ UNCHANGED <<now, calls>>
             /\ \/ (\E l \in Anywhere : Step(c, l)) /\ UNCHANGED rateLimitHistory
                \/ \E count : Decide(c, count)
  BY <1>2 DEF Look, Insert, Retry, ReadCount, Anywhere, NoCall
<1> QED
  BY <1>1, <1>2 DEF RateLimitNext, Tick, Prune, CallerDies, rateLimitVars, rateLimitHistory

\* A decision ends the call; it is counted in its window as one allowed call or as a refusal.
LEMMA Decided ==
  ASSUME RateLimitTypeOK, NEW c \in Callers, call[c] # NoCall, NEW count, Decide(c, count), NEW w \in Windows
  PROVE  /\ call' = [call EXCEPT ![c] = NoCall]
         /\ \/ allowed'[w] = allowed[w]
            \/ allowed'[w] = allowed[w] + 1 /\ call[c].window = w /\ count =< Limit
         /\ w \in refused' => w \in refused \/ (call[c].window = w /\ ~(count =< Limit))
BY InCall DEF Decide, RateLimitTypeOK

\* Nobody is allowed a call that was not made.
LEMMA AnsweredStep ==
  ASSUME RateLimitTypeOK, Answered, [RateLimitNext]_rateLimitVars
  PROVE  Answered'
<1> SUFFICES ASSUME NEW w \in Windows PROVE (allowed[w] + Cardinality(Among(Anywhere, w)) =< calls)'
  BY DEF Answered, Windows
<1>1. PICK S : S = Among(Anywhere, w)
  OBVIOUS
<1>2. PICK T : T = Among(Anywhere, w)'
  OBVIOUS
<1>11. S \in SUBSET Callers /\ T \in SUBSET Callers
  BY <1>1, <1>2 DEF Among
<1>12. PICK m \in Nat : m = Cardinality(S)
  BY <1>11, Sized
<1>13. PICK n \in Nat : n = Cardinality(T)
  BY <1>11, Sized
<1> SUFFICES allowed'[w] + n =< calls'
  BY <1>2, <1>13
<1>3. /\ allowed[w] \in Nat /\ calls \in Nat /\ allowed[w] + m =< calls
      /\ DOMAIN call = Callers
  BY <1>1, <1>12, RateLimitAssumption DEF RateLimitTypeOK, Answered
<1>4. ASSUME NEW c \in Callers, S \ {c} = T \ {c}
      PROVE  /\ c \in S /\ c \notin T => n = m - 1
             /\ c \notin S /\ c \in T => n = m + 1
             /\ (c \in S <=> c \in T) => n = m
  BY <1>4, <1>11, <1>12, <1>13, SizeMoves
<1>5. CASE UNCHANGED <<call, calls, allowed, refused>>
  BY <1>1, <1>2, <1>3, <1>5, <1>12, <1>13 DEF Among
<1>6. ASSUME NEW c \in Callers, Consume(c) PROVE allowed'[w] + n =< calls'
  <2>1. call' = [call EXCEPT ![c] = [at |-> "update", window |-> now]]
    BY <1>6 DEF Consume
  <2>2. c \notin S
    BY <1>1, <1>6 DEF Consume, Among
  <2>3. S \ {c} = T \ {c}
    BY <1>1, <1>2, <1>3, <2>1, OthersStay
  <2>4. n = m \/ n = m + 1
    BY <1>4, <2>2, <2>3
  <2> QED
    BY <1>3, <1>6, <2>4 DEF Consume, rateLimitHistory
<1>7. ASSUME NEW c \in Callers, call[c] # NoCall, calls' = calls,
             NEW l \in Anywhere, Step(c, l), UNCHANGED rateLimitHistory
      PROVE  allowed'[w] + n =< calls'
  <2>1. call' = [call EXCEPT ![c] = [at |-> l, window |-> call[c].window]]
    BY <1>7, Stepped
  <2>2. c \in S <=> call[c].window = w
    BY <1>1, <1>7, InCall DEF Among
  <2>3. c \in T <=> call[c].window = w
    BY <1>2, <1>3, <2>1 DEF Among, NoCall, Anywhere
  <2>4. S \ {c} = T \ {c}
    BY <1>1, <1>2, <1>3, <2>1, OthersStay
  <2>5. n = m
    BY <1>4, <2>2, <2>3, <2>4
  <2> QED
    BY <1>3, <1>7, <2>5 DEF rateLimitHistory
<1>8. ASSUME NEW c \in Callers, call[c] # NoCall, calls' = calls, call' = [call EXCEPT ![c] = NoCall],
             allowed'[w] = allowed[w] \/ (allowed'[w] = allowed[w] + 1 /\ call[c].window = w)
      PROVE  allowed'[w] + n =< calls'
  <2>1. call[c].window = w => c \in S
    BY <1>1, <1>8, InCall DEF Among
  <2>2. c \notin T
    BY <1>2, <1>3, <1>8 DEF Among
  <2>3. S \ {c} = T \ {c}
    BY <1>1, <1>2, <1>3, <1>8, OthersStay
  <2>4. (c \in S => n = m - 1) /\ (c \notin S => n = m)
    BY <1>4, <2>2, <2>3
  <2> QED
    BY <1>3, <1>8, <2>1, <2>4
<1>9. ASSUME NEW c \in Callers, call[c] # NoCall, calls' = calls, NEW count, Decide(c, count)
      PROVE  allowed'[w] + n =< calls'
  <2>1. call' = [call EXCEPT ![c] = NoCall]
    BY <1>9, Decided
  <2>2. allowed'[w] = allowed[w] \/ (allowed'[w] = allowed[w] + 1 /\ call[c].window = w)
    BY <1>9, Decided
  <2> QED
    BY <1>8, <1>9, <2>1, <2>2
<1>10. ASSUME NEW c \in Callers, CallerDies(c) PROVE allowed'[w] + n =< calls'
  BY <1>8, <1>10 DEF CallerDies, rateLimitHistory
<1> QED
  BY <1>5, <1>6, <1>7, <1>9, <1>10, Kinds

\* Every step keeps the types; that a count stays below its bound follows from Answered.
LEMMA TypeStep ==
  ASSUME RateLimitTypeOK, Answered, [RateLimitNext]_rateLimitVars
  PROVE  RateLimitTypeOK'
<1> USE RateLimitAssumption
<1>1. now' \in Windows
  BY DEF RateLimitTypeOK, RateLimitNext, rateLimitVars, Tick, Prune, Consume, Increment, Look, Insert, Retry, ReadCount, CallerDies, Windows
<1>2. calls' \in 0..MaxCalls
  BY DEF RateLimitTypeOK, RateLimitNext, rateLimitVars, Tick, Prune, Consume, Increment, Look, Insert, Retry, ReadCount, CallerDies
<1>3. call' \in [Callers -> {NoCall} \cup [at : Anywhere, window : Windows]]
  <2>1. ASSUME NEW c \in Callers, NEW v \in {NoCall} \cup [at : Anywhere, window : Windows],
               call' = [call EXCEPT ![c] = v]
        PROVE  call' \in [Callers -> {NoCall} \cup [at : Anywhere, window : Windows]]
    BY <2>1 DEF RateLimitTypeOK, Anywhere
  <2>2. ASSUME NEW c \in Callers, call[c] # NoCall, NEW l \in Anywhere, Step(c, l)
        PROVE  call' \in [Callers -> {NoCall} \cup [at : Anywhere, window : Windows]]
    BY <2>1, <2>2, Stepped, InCall
  <2>3. ASSUME NEW c \in Callers, Consume(c)
        PROVE  call' \in [Callers -> {NoCall} \cup [at : Anywhere, window : Windows]]
    BY <2>1, <2>3 DEF Consume, RateLimitTypeOK, Anywhere
  <2>4. ASSUME NEW c \in Callers, CallerDies(c) \/ \E count : Decide(c, count)
        PROVE  call' \in [Callers -> {NoCall} \cup [at : Anywhere, window : Windows]]
    BY <2>1, <2>4 DEF CallerDies, Decide
  <2> QED
    BY <2>2, <2>3, <2>4, Kinds DEF RateLimitTypeOK, Anywhere
<1>4. bucket' \in [Windows -> {None} \cup (1..Limit)]
  <2>1. ASSUME NEW c \in Callers, Increment(c) \/ Retry(c) PROVE bucket' \in [Windows -> {None} \cup (1..Limit)]
    <3>1. call[c].window \in Windows
      BY <2>1, InCall DEF Increment, Retry, NoCall
    <3> QED
      BY <2>1, <3>1 DEF Increment, Retry, HasRoom, RateLimitTypeOK
  <2>2. ASSUME NEW c \in Callers, Insert(c) PROVE bucket' \in [Windows -> {None} \cup (1..Limit)]
    BY <2>2 DEF Insert, RateLimitTypeOK
  <2>3. Prune => bucket' \in [Windows -> {None} \cup (1..Limit)]
    BY DEF Prune, RateLimitTypeOK
  <2> QED
    BY <2>1, <2>2, <2>3 DEF RateLimitNext, rateLimitVars, Tick, Consume, Look, ReadCount, CallerDies, RateLimitTypeOK
<1>5. allowed' \in [Windows -> 0..MaxCalls] /\ refused' \subseteq Windows
  <2>1. ASSUME NEW c \in Callers, call[c] # NoCall, NEW count, Decide(c, count)
        PROVE  allowed' \in [Windows -> 0..MaxCalls] /\ refused' \subseteq Windows
    <3> DEFINE w == call[c].window
    <3>1. w \in Windows /\ c \in Among(Anywhere, w)
      BY <2>1, InCall
    <3>2. Cardinality(Among(Anywhere, w)) >= 1 /\ Cardinality(Among(Anywhere, w)) \in Nat
      BY <3>1, Sized, FS_EmptySet DEF Among
    <3>3. allowed[w] + 1 \in 0..MaxCalls
      BY <3>1, <3>2 DEF Answered, RateLimitTypeOK
    <3> QED
      BY <2>1, <3>1, <3>3 DEF Decide, RateLimitTypeOK
  <2> QED
    BY <2>1, Kinds DEF RateLimitTypeOK, Consume, CallerDies, rateLimitHistory
<1> QED
  BY <1>1, <1>2, <1>3, <1>4, <1>5 DEF RateLimitTypeOK, Anywhere

\* Nobody calls in a window that has not begun, so nothing is stored or decided for it.
LEMMA UnbegunStep ==
  ASSUME RateLimitTypeOK, Unbegun, [RateLimitNext]_rateLimitVars
  PROVE  Unbegun'
<1> SUFFICES ASSUME NEW w \in Windows, w > now'
             PROVE  bucket'[w] = None /\ allowed'[w] = 0 /\ w \notin refused' /\ Among(Anywhere, w)' = {}
  BY DEF Unbegun, Windows
<1>1. now' = now \/ now' = now + 1
  BY DEF RateLimitNext, rateLimitVars, Tick, Prune, Consume, Increment, Look, Insert, Retry, ReadCount, CallerDies
<1>2. now \in Nat /\ w \in Nat /\ w > now
  BY <1>1, RateLimitAssumption DEF RateLimitTypeOK, Windows
<1>3. bucket[w] = None /\ allowed[w] = 0 /\ w \notin refused /\ DOMAIN call = Callers
  BY <1>2 DEF Unbegun, RateLimitTypeOK
<1>4. \A c \in Callers : call[c] # NoCall => call[c].window # w /\ call[c].at \in Anywhere
  BY <1>2, InCall DEF Unbegun, Among
<1>5. bucket'[w] = None
  <2>1. ASSUME NEW c \in Callers, Increment(c) \/ Insert(c) \/ Retry(c) PROVE bucket'[w] = bucket[w]
    <3>1. call[c].window # w
      BY <1>4, <2>1 DEF Increment, Insert, Retry, NoCall
    <3> QED
      BY <2>1, <3>1 DEF Increment, Insert, Retry, RateLimitTypeOK
  <2>2. Prune => bucket'[w] = bucket[w]
    BY <1>2 DEF Prune
  <2> QED
    BY <1>3, <2>1, <2>2 DEF RateLimitNext, rateLimitVars, Tick, Consume, Look, ReadCount, CallerDies
<1>6. allowed'[w] = 0 /\ w \notin refused'
  <2>1. ASSUME NEW c \in Callers, call[c] # NoCall, NEW count, Decide(c, count)
        PROVE  allowed'[w] = 0 /\ w \notin refused'
    BY <1>3, <1>4, <2>1, Decided
  <2> QED
    BY <1>3, <2>1, Kinds DEF Consume, CallerDies, rateLimitHistory
<1>7. ASSUME NEW d \in Callers, call'[d] # NoCall, call'[d].at \in Anywhere, call'[d].window = w PROVE FALSE
  <2>1. CASE call'[d] = call[d]
    BY <1>4, <1>7, <2>1
  <2>2. ASSUME NEW c \in Callers, Consume(c) PROVE FALSE
    BY <1>2, <1>3, <1>4, <1>7, <2>2 DEF Consume
  <2>3. ASSUME NEW c \in Callers, call[c] # NoCall, NEW l \in Anywhere, Step(c, l) PROVE FALSE
    <3>1. call' = [call EXCEPT ![c] = [at |-> l, window |-> call[c].window]]
      BY <2>3, Stepped
    <3> QED
      BY <1>3, <1>4, <1>7, <2>3, <3>1
  <2>4. ASSUME NEW c \in Callers, call' = [call EXCEPT ![c] = NoCall] PROVE FALSE
    BY <1>3, <1>4, <1>7, <2>4
  <2> QED
    BY <2>1, <2>2, <2>3, <2>4, Kinds DEF Decide, CallerDies
<1> QED
  BY <1>5, <1>6, <1>7 DEF Among

\* A step of a caller in the current window keeps what its row says about the calls allowed.
LEMMA CountedInWindow ==
  ASSUME RateLimitTypeOK, Counted, NEW c \in Callers, call[c] # NoCall, call[c].window = now,
         Increment(c) \/ Look(c) \/ Insert(c) \/ Retry(c) \/ ReadCount(c) \/ CallerDies(c)
  PROVE  Counted'
<1> DEFINE w == now
<1>1. w' = w /\ w \in Windows /\ DOMAIN call = Callers
  BY DEF RateLimitTypeOK, Increment, Look, Insert, Retry, ReadCount, CallerDies
<1>2. PICK S1 : S1 = Among({"look", "count"}, w)
  OBVIOUS
<1>3. PICK S2 : S2 = Among({"count"}, w)
  OBVIOUS
<1>4. PICK T1 : T1 = Among({"look", "count"}, w)'
  OBVIOUS
<1>5. PICK T2 : T2 = Among({"count"}, w)'
  OBVIOUS
<1>6. /\ S1 \in SUBSET Callers /\ S2 \in SUBSET Callers /\ T1 \in SUBSET Callers /\ T2 \in SUBSET Callers
      /\ S2 \subseteq S1 /\ T2 \subseteq T1
  BY <1>2, <1>3, <1>4, <1>5 DEF Among
<1>7. PICK m1 \in Nat : m1 = Cardinality(S1)
  BY <1>6, Sized
<1>8. PICK m2 \in Nat : m2 = Cardinality(S2)
  BY <1>6, Sized
<1>9. PICK n1 \in Nat : n1 = Cardinality(T1)
  BY <1>6, Sized
<1>10. PICK n2 \in Nat : n2 = Cardinality(T2)
  BY <1>6, Sized
<1>11. PICK N \in Nat : N = Cardinality(Callers)
  BY <1>6, Sized
<1>12. PICK a \in Nat : a = allowed[w]
  BY <1>1 DEF RateLimitTypeOK
<1>13. PICK b \in {None} \cup (1..Limit) : b = bucket[w]
  BY <1>1 DEF RateLimitTypeOK
<1>14. Limit \in Nat /\ Limit > 0 /\ None \notin Nat
  BY RateLimitAssumption
<1>15. m2 <= m1 /\ n2 <= n1
  <2>1. IsFiniteSet(S1) /\ IsFiniteSet(T1)
    BY <1>6, Sized
  <2> QED
    BY <1>6, <1>7, <1>8, <1>9, <1>10, <2>1, FS_Subset
<1>16. /\ b = None => a = 0 /\ w \notin refused /\ Among({"retry", "count"}, w) = {}
       /\ b # None /\ b < Limit => a + m1 < b + N /\ w \notin refused
       /\ b = Limit => a + m2 < Limit + N
  BY <1>2, <1>3, <1>7, <1>8, <1>11, <1>12, <1>13 DEF Counted, HasRoom
<1>17. SUFFICES /\ bucket'[w] = None => allowed'[w] = 0 /\ w \notin refused' /\ Among({"retry", "count"}, w)' = {}
                /\ bucket'[w] # None /\ bucket'[w] < Limit =>
                     allowed'[w] + n1 < bucket'[w] + N /\ w \notin refused'
                /\ bucket'[w] = Limit => allowed'[w] + n2 < Limit + N
  BY <1>1, <1>4, <1>5, <1>9, <1>10, <1>11 DEF Counted, HasRoom
<1>18. \A d \in Callers \ {c} : call'[d] = call[d]
  BY <1>1 DEF Increment, Look, Insert, Retry, ReadCount, CallerDies, Decide, Step
<1>19. S1 \ {c} = T1 \ {c} /\ S2 \ {c} = T2 \ {c}
  BY <1>1, <1>2, <1>3, <1>4, <1>5, <1>18 DEF Among
<1>20. /\ c \in S1 /\ c \notin T1 => n1 = m1 - 1
       /\ c \notin S1 /\ c \in T1 => n1 = m1 + 1
       /\ (c \in S1 <=> c \in T1) => n1 = m1
  BY <1>6, <1>7, <1>9, <1>19, SizeMoves
<1>21. /\ c \in S2 /\ c \notin T2 => n2 = m2 - 1
       /\ c \notin S2 /\ c \in T2 => n2 = m2 + 1
       /\ (c \in S2 <=> c \in T2) => n2 = m2
  BY <1>6, <1>8, <1>10, <1>19, SizeMoves
<1>22. /\ c \in S1 <=> call[c].at \in {"look", "count"}
       /\ c \in S2 <=> call[c].at = "count"
       /\ c \in Among({"retry", "count"}, w) <=> call[c].at \in {"retry", "count"}
  BY <1>2, <1>3 DEF Among
<1>23. ASSUME NEW l \in Anywhere, Step(c, l)
       PROVE  /\ c \in T1 <=> l \in {"look", "count"}
              /\ c \in T2 <=> l = "count"
              /\ l \notin {"retry", "count"} /\ Among({"retry", "count"}, w) = {} => Among({"retry", "count"}, w)' = {}
  <2>1. call' = [call EXCEPT ![c] = [at |-> l, window |-> call[c].window]]
    BY <1>23, Stepped
  <2>2. call'[c] # NoCall /\ call'[c].at = l /\ call'[c].window = w
    BY <1>1, <1>23, <2>1 DEF NoCall, Anywhere
  <2> QED
    BY <1>1, <1>4, <1>5, <1>18, <2>2 DEF Among
<1>24. ASSUME call' = [call EXCEPT ![c] = NoCall]
       PROVE  /\ c \notin T1 /\ c \notin T2
              /\ Among({"retry", "count"}, w) = {} => Among({"retry", "count"}, w)' = {}
  BY <1>1, <1>4, <1>5, <1>18, <1>24 DEF Among
<1>25. ASSUME NEW count, Decide(c, count)
       PROVE  /\ call' = [call EXCEPT ![c] = NoCall]
              /\ count =< Limit => allowed'[w] = a + 1 /\ refused' = refused
              /\ ~(count =< Limit) => allowed'[w] = a /\ refused' \subseteq refused \cup {w}
  BY <1>1, <1>12, <1>25 DEF Decide, RateLimitTypeOK
<1>26. CASE Increment(c)
  <2>1. call[c].at = "update" /\ allowed'[w] = a /\ refused' = refused
    BY <1>12, <1>26 DEF Increment, rateLimitHistory
  <2>2. CASE HasRoom(w)
    <3>1. b \in Nat /\ b < Limit /\ bucket'[w] = b + 1 /\ Step(c, "count")
      BY <1>1, <1>13, <1>14, <1>26, <2>2 DEF Increment, HasRoom, RateLimitTypeOK
    <3>2. n1 = m1 + 1
      BY <1>20, <1>22, <1>23, <2>1, <3>1 DEF Anywhere
    <3> QED
      BY <1>14, <1>15, <1>16, <2>1, <3>1, <3>2
  <2>3. CASE ~HasRoom(w)
    <3>1. bucket'[w] = b /\ Step(c, "look") /\ (b = None \/ b = Limit)
      BY <1>1, <1>13, <1>14, <1>26, <2>3 DEF Increment, HasRoom
    <3>2. n2 = m2 /\ (b = None => Among({"retry", "count"}, w)' = {})
      BY <1>16, <1>21, <1>22, <1>23, <2>1, <3>1 DEF Anywhere
    <3> QED
      BY <1>14, <1>16, <2>1, <3>1, <3>2
  <2> QED
    BY <2>2, <2>3
<1>27. CASE Look(c)
  <2>1. call[c].at = "look" /\ bucket'[w] = b
    BY <1>13, <1>27 DEF Look
  <2>2. CASE b = None
    <3>1. Step(c, "insert") /\ allowed'[w] = a /\ refused' = refused
      BY <1>12, <1>13, <1>27, <2>2 DEF Look, rateLimitHistory
    <3> QED
      BY <1>14, <1>16, <1>23, <2>1, <2>2, <3>1 DEF Anywhere
  <2>3. CASE b # None
    <3>1. Decide(c, b + 1) /\ b \in Nat /\ b <= Limit
      BY <1>13, <1>14, <1>27, <2>3 DEF Look, Overflow
    <3>2. n1 = m1 - 1 /\ n2 = m2
      BY <1>20, <1>21, <1>22, <1>24, <1>25, <2>1, <3>1
    <3>3. CASE b < Limit
      <4>1. allowed'[w] = a + 1 /\ refused' = refused
        BY <1>14, <1>25, <3>1, <3>3
      <4> QED
        BY <1>14, <1>16, <2>1, <2>3, <3>1, <3>2, <3>3, <4>1
    <3>4. CASE b = Limit
      <4>1. allowed'[w] = a
        BY <1>14, <1>25, <3>1, <3>4
      <4> QED
        BY <1>14, <1>16, <2>1, <2>3, <3>1, <3>2, <3>4, <4>1
    <3> QED
      BY <1>14, <3>1, <3>3, <3>4
  <2> QED
    BY <2>2, <2>3
<1>28. CASE Insert(c)
  <2>1. call[c].at = "insert"
    BY <1>28 DEF Insert
  <2>2. CASE b = None
    <3>1. Decide(c, 1) /\ bucket'[w] = 1
      BY <1>1, <1>13, <1>28, <2>2 DEF Insert, RateLimitTypeOK
    <3>2. allowed'[w] = 1 /\ refused' = refused /\ w \notin refused /\ c \notin T1
      BY <1>14, <1>16, <1>24, <1>25, <2>2, <3>1
    <3>3. n1 < N
      <4>1. T1 \in SUBSET Callers /\ T1 # Callers /\ IsFiniteSet(Callers)
        BY <1>6, <3>2, RateLimitAssumption
      <4> QED
        BY <1>9, <1>11, <4>1, FS_Subset
    <3> QED
      BY <1>14, <1>15, <3>1, <3>2, <3>3
  <2>3. CASE b # None
    <3>1. Step(c, "retry") /\ bucket'[w] = b /\ allowed'[w] = a /\ refused' = refused
      BY <1>12, <1>13, <1>28, <2>3 DEF Insert, rateLimitHistory
    <3>2. n1 = m1 /\ n2 = m2
      BY <1>20, <1>21, <1>22, <1>23, <2>1, <3>1 DEF Anywhere
    <3> QED
      BY <1>14, <1>16, <2>3, <3>1, <3>2
  <2> QED
    BY <2>2, <2>3
<1>29. CASE Retry(c)
  <2>1. call[c].at = "retry" /\ b # None /\ b \in Nat /\ b <= Limit
    BY <1>13, <1>14, <1>16, <1>22, <1>29 DEF Retry
  <2>2. CASE HasRoom(w)
    <3>1. b < Limit /\ bucket'[w] = b + 1 /\ Step(c, "count") /\ allowed'[w] = a /\ refused' = refused
      BY <1>1, <1>12, <1>13, <1>29, <2>2 DEF Retry, HasRoom, RateLimitTypeOK, rateLimitHistory
    <3>2. n1 = m1 + 1
      BY <1>20, <1>22, <1>23, <2>1, <3>1 DEF Anywhere
    <3> QED
      BY <1>14, <1>15, <1>16, <2>1, <3>1, <3>2
  <2>3. CASE ~HasRoom(w)
    <3>1. b = Limit /\ bucket'[w] = b /\ Decide(c, Limit + 1)
      BY <1>13, <1>14, <1>29, <2>1, <2>3 DEF Retry, HasRoom
    <3>2. allowed'[w] = a /\ n2 = m2
      BY <1>14, <1>21, <1>22, <1>24, <1>25, <2>1, <3>1
    <3> QED
      BY <1>14, <1>16, <3>1, <3>2
  <2> QED
    BY <2>2, <2>3
<1>30. CASE ReadCount(c)
  <2>1. call[c].at = "count" /\ b # None /\ b \in Nat /\ b <= Limit
    BY <1>13, <1>14, <1>16, <1>22, <1>30 DEF ReadCount
  <2>2. Decide(c, b) /\ bucket'[w] = b
    BY <1>13, <1>30, <2>1 DEF ReadCount
  <2>3. allowed'[w] = a + 1 /\ refused' = refused /\ n1 = m1 - 1 /\ n2 = m2 - 1
    BY <1>20, <1>21, <1>22, <1>24, <1>25, <2>1, <2>2
  <2> QED
    BY <1>14, <1>16, <2>1, <2>2, <2>3
<1>31. CASE CallerDies(c)
  <2>1. bucket'[w] = b /\ allowed'[w] = a /\ refused' = refused /\ call' = [call EXCEPT ![c] = NoCall]
    BY <1>12, <1>13, <1>31 DEF CallerDies, rateLimitHistory
  <2>2. n1 <= m1 /\ n2 <= m2 /\ (b = None => Among({"retry", "count"}, w)' = {})
    BY <1>16, <1>20, <1>21, <1>24, <2>1
  <2>3. b = None \/ (b \in Nat /\ b <= Limit)
    BY <1>13, <1>14
  <2> QED
    BY <1>14, <1>16, <2>1, <2>2, <2>3
<1> QED
  BY <1>26, <1>27, <1>28, <1>29, <1>30, <1>31

\* So does every other step: a caller in an earlier window changes nothing in the current one, a
\* new call is in none of the counted places, and a new window starts with nothing.
LEMMA CountedStep ==
  ASSUME RateLimitTypeOK, Unbegun, Counted, [RateLimitNext]_rateLimitVars
  PROVE  Counted'
<1>1. /\ None \notin Nat /\ Limit \in Nat /\ now \in Windows /\ now \in Nat /\ DOMAIN call = Callers
      /\ DOMAIN bucket = Windows /\ DOMAIN allowed = Windows
  BY RateLimitAssumption DEF RateLimitTypeOK, Windows
<1>2. ASSUME now' = now, bucket'[now] = bucket[now], allowed'[now] = allowed[now],
             now \in refused' <=> now \in refused,
             \A P \in SUBSET {"look", "count", "retry"} : Among(P, now)' = Among(P, now)
      PROVE  Counted'
  <2>1. /\ Among({"look", "count"}, now)' = Among({"look", "count"}, now)
        /\ Among({"retry", "count"}, now)' = Among({"retry", "count"}, now)
        /\ Among({"count"}, now)' = Among({"count"}, now)
    BY <1>2
  <2> QED
    BY <1>2, <2>1 DEF Counted, HasRoom
<1>3. CASE Tick
  <2>1. now' = now + 1 /\ now' > now /\ now' \in Windows
    BY <1>1, <1>3, RateLimitAssumption DEF Tick, Windows
  <2>2. /\ bucket'[now'] = None /\ allowed'[now'] = 0 /\ now' \notin refused' /\ Among(Anywhere, now') = {}
    BY <1>3, <2>1 DEF Unbegun, Tick, rateLimitHistory
  <2>3. Among({"retry", "count"}, now)' = {}
    BY <1>3, <2>2 DEF Tick, Among, Anywhere
  <2> QED
    BY <1>1, <2>2, <2>3 DEF Counted, HasRoom
<1>4. CASE Prune
  <2>1. bucket'[now] = bucket[now]
    BY <1>1, <1>4 DEF Prune
  <2>2. \A P : Among(P, now)' = Among(P, now)
    BY <1>4 DEF Prune, Among
  <2> QED
    BY <1>2, <1>4, <2>1, <2>2 DEF Prune, rateLimitHistory
<1>5. ASSUME NEW c \in Callers, Consume(c) PROVE Counted'
  <2>1. call' = [call EXCEPT ![c] = [at |-> "update", window |-> now]] /\ call[c] = NoCall
    BY <1>5 DEF Consume
  <2>2. now' = now /\ bucket' = bucket /\ allowed' = allowed /\ refused' = refused
    BY <1>5 DEF Consume, rateLimitHistory
  <2>3. \A P \in SUBSET {"look", "count", "retry"} : Among(P, now)' = Among(P, now)
    BY <1>1, <2>1, <2>2 DEF Among
  <2> QED
    BY <1>2, <2>2, <2>3
<1>6. ASSUME NEW c \in Callers, call[c] # NoCall,
             Increment(c) \/ Look(c) \/ Insert(c) \/ Retry(c) \/ ReadCount(c) \/ CallerDies(c)
      PROVE  Counted'
  <2>1. CASE call[c].window = now
    BY <1>6, <2>1, CountedInWindow
  <2>2. CASE call[c].window # now
    <3>1. now' = now
      BY <1>6 DEF Increment, Look, Insert, Retry, ReadCount, CallerDies
    <3>2. bucket'[now] = bucket[now]
      BY <1>1, <1>6, <2>2 DEF Increment, Look, Insert, Retry, ReadCount, CallerDies
    <3>3. allowed'[now] = allowed[now] /\ (now \in refused' <=> now \in refused)
      BY <1>1, <1>6, <2>2 DEF Increment, Look, Insert, Retry, ReadCount, CallerDies, Decide, rateLimitHistory
    <3>4. /\ \A d \in Callers \ {c} : call'[d] = call[d]
          /\ call'[c] # NoCall => call'[c].window = call[c].window
      <4>1. ASSUME NEW l \in Anywhere, Step(c, l) PROVE call'[c].window = call[c].window
        BY <1>1, <1>6, <4>1, Stepped
      <4>2. call' = [call EXCEPT ![c] = NoCall] => call'[c] = NoCall
        BY <1>1
      <4>3. (\E l \in Anywhere : Step(c, l)) \/ call' = [call EXCEPT ![c] = NoCall]
        BY <1>6 DEF Increment, Look, Insert, Retry, ReadCount, CallerDies, Decide, Anywhere
      <4>4. \A d \in Callers \ {c} : call'[d] = call[d]
        BY <1>1, <4>3 DEF Step
      <4> QED
        BY <4>1, <4>2, <4>3, <4>4
    <3>5. \A P : Among(P, now)' = Among(P, now)
      BY <2>2, <3>1, <3>4 DEF Among
    <3> QED
      BY <1>2, <3>1, <3>2, <3>3, <3>5
  <2> QED
    BY <2>1, <2>2
<1>7. CASE UNCHANGED rateLimitVars
  <2>1. \A P : Among(P, now)' = Among(P, now)
    BY <1>7 DEF rateLimitVars, Among
  <2> QED
    BY <1>2, <1>7, <2>1 DEF rateLimitVars, rateLimitHistory
<1>8. ASSUME NEW c \in Callers, Increment(c) \/ Look(c) \/ Insert(c) \/ Retry(c) \/ ReadCount(c) \/ CallerDies(c)
      PROVE  call[c] # NoCall
  BY <1>8 DEF Increment, Look, Insert, Retry, ReadCount, CallerDies, NoCall
<1> QED
  BY <1>3, <1>4, <1>5, <1>6, <1>7, <1>8 DEF RateLimitNext

\* The types, and what is allowed in the windows, for every interleaving of the callers.
THEOREM Inductive == RateLimitSpec => []RateLimitInv
<1>1. RateLimitInit => RateLimitInv
  <2> SUFFICES ASSUME RateLimitInit PROVE RateLimitInv
    OBVIOUS
  <2>1. RateLimitTypeOK
    BY RateLimitAssumption DEF RateLimitInit, RateLimitTypeOK, Windows
  <2>2. \A P, w : Among(P, w) = {}
    BY DEF RateLimitInit, Among
  <2>3. Answered
    <3>1. Cardinality({}) = 0 /\ \A w \in Windows : allowed[w] = 0
      BY FS_EmptySet DEF RateLimitInit
    <3>2. \A w \in Windows : Among(Anywhere, w) = {}
      BY <2>2
    <3> QED
      BY <3>1, <3>2 DEF RateLimitInit, Answered
  <2>4. Unbegun
    BY <2>2 DEF RateLimitInit, Unbegun
  <2>5. now \in Windows /\ bucket[now] = None /\ allowed[now] = 0 /\ now \notin refused
    BY RateLimitAssumption DEF RateLimitInit, Windows
  <2>6. Counted
    BY <2>2, <2>5, RateLimitAssumption DEF Counted, HasRoom
  <2> QED
    BY <2>1, <2>3, <2>4, <2>6 DEF RateLimitInv
<1>2. RateLimitInv /\ [RateLimitNext]_rateLimitVars => RateLimitInv'
  BY TypeStep, AnsweredStep, UnbegunStep, CountedStep DEF RateLimitInv
<1> QED
  BY <1>1, <1>2, PTL DEF RateLimitSpec

\* Counts stay within the limit and calls within their number.
THEOREM RateLimitTypes == RateLimitSpec => []RateLimitTypeOK
<1>1. RateLimitInv => RateLimitTypeOK
  BY DEF RateLimitInv
<1> QED
  BY <1>1, Inductive, PTL

\* In the current window at most as many calls beyond the limit are allowed as callers raced the
\* first one, and none is refused before the row of the window is full.
THEOREM RateLimitHolds == RateLimitSpec => []QuotaHolds
<1>1. RateLimitInv => QuotaHolds
  <2> SUFFICES ASSUME RateLimitInv PROVE QuotaHolds
    OBVIOUS
  <2>1. /\ now \in Windows /\ allowed[now] \in Nat /\ bucket[now] \in {None} \cup (1..Limit)
        /\ None \notin Nat /\ Limit \in Nat /\ Limit > 0
    BY RateLimitAssumption DEF RateLimitInv, RateLimitTypeOK
  <2>2. PICK N \in Nat : N = Cardinality(Callers)
    BY Sized
  <2>3. N > 0
    BY <2>2, FS_EmptySet, RateLimitAssumption
  <2>4. PICK m1 \in Nat : m1 = Cardinality(Among({"look", "count"}, now))
    BY Sized DEF Among
  <2>5. PICK m2 \in Nat : m2 = Cardinality(Among({"count"}, now))
    BY Sized DEF Among
  <2>6. /\ bucket[now] = None => allowed[now] = 0 /\ now \notin refused
        /\ bucket[now] # None /\ bucket[now] < Limit => allowed[now] + m1 < bucket[now] + N /\ now \notin refused
        /\ bucket[now] = Limit => allowed[now] + m2 < Limit + N
    BY <2>2, <2>4, <2>5 DEF RateLimitInv, Counted, HasRoom
  <2>7. now \in refused => bucket[now] = Limit
    BY <2>1, <2>6
  <2>8. allowed[now] <= Limit + N - 1
    BY <2>1, <2>3, <2>6
  <2> QED
    BY <2>2, <2>7, <2>8 DEF QuotaHolds
<1> QED
  BY <1>1, Inductive, PTL
=============================================================================
