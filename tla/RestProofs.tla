----------------------------- MODULE RestProofs -----------------------------
(***************************************************************************)
(* What request() returns is true, for any number of callers and attempts: *)
(* each attempt of the loop, its retry after an 8005 included, makes one   *)
(* order at most, so the count of orders never passes that of attempts.    *)
(* And what the rate limiter keeps: its window while callers do not meet   *)
(* in it, and a period between the resends that skip it.                   *)
(***************************************************************************)
EXTENDS RestClient, TLAPS

\* What the argument needs of the types.
CallTypes ==
    /\ at \in [Callers -> Posts \cup {"idle", "asleep", "backoff"}]
    /\ goal \in [Callers -> Posts \cup {"idle"}]
    /\ attempt \in [Callers -> Nat]
    /\ placed \in [Callers -> Nat]
    /\ result \in [Callers -> Results]

\* While an attempt has no answer the orders are fewer than the attempts.
OrdersPerAttempt ==
    \A c \in Callers :
        /\ at[c] \in Posts \cup {"asleep"} => placed[c] + 1 <= attempt[c]
        /\ at[c] = "backoff" => placed[c] <= attempt[c]
        /\ at[c] # "idle" => result[c] = "none"
        /\ at[c] = "asleep" => goal[c] \in Posts
        /\ result[c] = "ok" => placed[c] >= 1

ResultInv == CallTypes /\ OrdersPerAttempt

LEMMA ResultInit == Init => ResultInv
BY DEF Init, ResultInv, CallTypes, OrdersPerAttempt, Posts, Results

\* A visit to the limiter ends in the post it is for or in a sleep before it.
LEMMA Waits ==
    ASSUME CallTypes, NEW c \in Callers, NEW what \in Posts, Wait(c, what)
    PROVE  \/ at' = [at EXCEPT ![c] = what] /\ goal' = goal
           \/ at' = [at EXCEPT ![c] = "asleep"] /\ goal' = [goal EXCEPT ![c] = what]
BY DEF Wait

\* The end of a request disturbs no other caller.
LEMMA EndsWell ==
    ASSUME ResultInv, NEW c \in Callers, NEW how \in Results, Ends(c, how),
           NEW n \in Nat, placed' = [placed EXCEPT ![c] = n], how = "ok" => n >= 1
    PROVE  ResultInv'
BY DEF ResultInv, CallTypes, OrdersPerAttempt, Ends, Posts

LEMMA RefusesWell ==
    ASSUME ResultInv, NEW c \in Callers, Refuses(c) PROVE ResultInv'
BY EndsWell DEF Refuses, Results

LEMMA RaisesWell ==
    ASSUME ResultInv, NEW c \in Callers, Raises(c) PROVE ResultInv'
BY EndsWell DEF Raises, Results

LEMMA ResultStep == ResultInv /\ [Next]_vars => ResultInv'
<1> SUFFICES ASSUME ResultInv, [Next]_vars PROVE ResultInv'
  OBVIOUS
<1>1. ASSUME NEW c \in Callers, Request(c) PROVE ResultInv'
  <2> DEFINE what == IF expiring THEN "ensure" ELSE "send"
  <2>1. what \in Posts
    BY DEF Posts
  <2>2. \/ at' = [at EXCEPT ![c] = what] /\ goal' = goal
        \/ at' = [at EXCEPT ![c] = "asleep"] /\ goal' = [goal EXCEPT ![c] = what]
    BY <1>1, <2>1, Waits DEF Request, ResultInv
  <2>3. /\ attempt' = [attempt EXCEPT ![c] = 1] /\ placed' = [placed EXCEPT ![c] = 0]
        /\ result' = [result EXCEPT ![c] = "none"]
    BY <1>1 DEF Request
  <2> HIDE DEF what
  <2> QED
    BY <2>1, <2>2, <2>3 DEF ResultInv, CallTypes, OrdersPerAttempt, Posts, Results
<1>2. ASSUME NEW c \in Callers, Wake(c) PROVE ResultInv'
  BY <1>2 DEF Wake, ResultInv, CallTypes, OrdersPerAttempt, Posts
<1>3. ASSUME NEW c \in Callers, Again(c) PROVE ResultInv'
  BY <1>3 DEF Again, ResultInv, CallTypes, OrdersPerAttempt, Posts
<1>4. ASSUME NEW c \in Callers, TokenIssued(c) PROVE ResultInv'
  <2> DEFINE what == IF at[c] = "ensure" THEN "send" ELSE "resend"
  <2>1. what \in Posts
    BY DEF Posts
  <2>2. \/ at' = [at EXCEPT ![c] = what] /\ goal' = goal
        \/ at' = [at EXCEPT ![c] = "asleep"] /\ goal' = [goal EXCEPT ![c] = what]
    BY <1>4, <2>1, Waits DEF TokenIssued, ResultInv
  <2>3. UNCHANGED <<attempt, placed, result>> /\ at[c] \in Posts
    BY <1>4 DEF TokenIssued, Posts
  <2> HIDE DEF what
  <2> QED
    BY <2>1, <2>2, <2>3 DEF ResultInv, CallTypes, OrdersPerAttempt, Posts
<1>5. ASSUME NEW c \in Callers, TokenFails(c) PROVE ResultInv'
  BY <1>5, RefusesWell, RaisesWell DEF TokenFails
<1>6. ASSUME NEW c \in Callers, Accepted(c) PROVE ResultInv'
  <2> DEFINE n == placed[c] + 1
  <2>1. placed' = [placed EXCEPT ![c] = n]
    BY <1>6 DEF Accepted
  <2>2. n \in Nat /\ n >= 1
    BY DEF ResultInv, CallTypes
  <2>3. Ends(c, "ok") /\ "ok" \in Results
    BY <1>6 DEF Accepted, Results
  <2> HIDE DEF n
  <2> QED
    BY <2>1, <2>2, <2>3, EndsWell
<1>7. ASSUME NEW c \in Callers, Rejected(c) PROVE ResultInv'
  <2>1. CASE Refuses(c)
    BY <2>1, RefusesWell
  <2>2. CASE ~ Refuses(c)
    <3>1. Wait(c, "reissue") /\ UNCHANGED <<attempt, placed, result>>
      BY <1>7, <2>2 DEF Rejected, Noticed
    <3>2. \/ at' = [at EXCEPT ![c] = "reissue"] /\ goal' = goal
          \/ at' = [at EXCEPT ![c] = "asleep"] /\ goal' = [goal EXCEPT ![c] = "reissue"]
      BY <3>1, Waits DEF ResultInv, Posts
    <3> QED
      BY <1>7, <3>1, <3>2
      DEF Rejected, Sent, ResultInv, CallTypes, OrdersPerAttempt, Posts
  <2> QED
    BY <2>1, <2>2
<1>8. ASSUME NEW c \in Callers, Raised(c) \/ Denied(c) PROVE ResultInv'
  BY <1>8, RaisesWell, RefusesWell DEF Raised, Denied
<1>9. ASSUME NEW c \in Callers, Fails(c) PROVE ResultInv'
  <2>1. CASE Raises(c)
    BY <2>1, RaisesWell
  <2>2. CASE ~ Raises(c)
    <3>1. PICK made \in {0, 1} : placed' = [placed EXCEPT ![c] = @ + made]
      BY <1>9, <2>2 DEF Fails
    <3>2. /\ at' = [at EXCEPT ![c] = "backoff"] /\ at[c] \in {"send", "resend"}
          /\ UNCHANGED <<goal, attempt, result>>
      BY <1>9, <2>2 DEF Fails, Sent
    <3> QED
      BY <3>1, <3>2 DEF ResultInv, CallTypes, OrdersPerAttempt, Posts
  <2> QED
    BY <2>1, <2>2
<1>10. CASE Tick
  BY <1>10 DEF Tick, ResultInv, CallTypes, OrdersPerAttempt
<1>11. CASE Invalidated \/ Expires \/ IntervalOver
  BY <1>11 DEF Invalidated, Expires, IntervalOver, callerVars, ResultInv, CallTypes,
               OrdersPerAttempt
<1>12. CASE UNCHANGED vars
  BY <1>12 DEF vars, callerVars, ResultInv, CallTypes, OrdersPerAttempt
<1> QED
  BY <1>1, <1>2, <1>3, <1>4, <1>5, <1>6, <1>7, <1>8, <1>9, <1>10, <1>11, <1>12
  DEF Next, Proceeds, Answered, Failed

LEMMA ResultInvTrue == ResultInv => ResultTrue
BY DEF ResultInv, CallTypes, OrdersPerAttempt, ResultTrue, Posts

\* Whatever tasks share the client and however often it resends, "done" means
\* that the broker has the order, and no attempt makes two
\* (rest_client.py:133-181).
THEOREM RestResultTrue == Spec => []ResultTrue
BY ResultInit, ResultStep, ResultInvTrue, PTL DEF Spec

----------------------------------------------------------------------------
(* Types.                                                                  *)

LEMMA Times ==
    \A a \in Nat, b \in Nat \ {0}, m \in Nat :
        b <= m => a * b \in 0..(a * m) /\ a <= a * b
<1> SUFFICES ASSUME NEW a \in Nat, NEW b \in Nat \ {0}, NEW m \in Nat, b <= m
             PROVE  a * b \in 0..(a * m) /\ a <= a * b
  OBVIOUS
<1>1. a * m = a * b + a * (m - b) /\ a * b = a + a * (b - 1)
  OBVIOUS
<1>2. a * (m - b) \in Nat /\ a * (b - 1) \in Nat /\ a * b \in Nat /\ a * m \in Nat
  OBVIOUS
<1> QED
  BY <1>1, <1>2

\* Who backs off has an attempt left; who is sent for has begun one.
AttemptsLeft == \A c \in Callers : at[c] = "backoff" => attempt[c] < MaxAttempts

RestInv == TypeOK /\ ResultInv /\ AttemptsLeft

limitVars == <<calls, left, crowded>>

LEMMA PurgedTyped ==
    ASSUME calls \in Seq(Ages), NEW n \in 0..Len(calls), Purged(n)
    PROVE  /\ calls' \in Seq(Ages) /\ Len(calls') = Len(calls) - n
           /\ n = 0 => \A i \in 1..Len(calls) : calls'[i] = calls[i] + 1
<1>1. \A i \in 1..Len(calls) : calls[i] \in Ages
  OBVIOUS
<1>2. ASSUME NEW i \in 1..(Len(calls) - n) PROVE calls[i + n] + 1 \in Ages
  <2>1. i + n \in 1..Len(calls) /\ ~(i + n <= n)
    BY <1>2
  <2>2. calls[i + n] \in Ages /\ calls[i + n] # Period - 1
    BY <1>1, <2>1 DEF Purged
  <2> QED
    BY <2>2, RestAssumption DEF Ages
<1>3. calls' \in Seq(Ages) /\ Len(calls') = Len(calls) - n
  BY <1>2 DEF Purged
<1> QED
  BY <1>3 DEF Purged

LEMMA WaitTyped ==
    ASSUME TypeOK, NEW c \in Callers, NEW what \in Posts, Wait(c, what)
    PROVE  /\ at' \in [Callers -> Posts \cup {"idle", "asleep", "backoff"}]
           /\ goal' \in [Callers -> Posts \cup {"idle"}]
           /\ left' \in [Callers -> 0..Period * MaxAttempts]
           /\ calls' \in Seq(Ages) /\ crowded' \in BOOLEAN
           /\ \A d \in Callers \ {c} : at'[d] = at[d]
           /\ at'[c] # "backoff"
<1> USE DEF TypeOK
<1>1. /\ Period \in Nat \ {0} /\ MaxAttempts \in Nat \ {0} /\ MaxCalls \in Nat \ {0}
      /\ 0 \in Ages
  BY RestAssumption DEF Ages
<1>4. crowded' \in BOOLEAN
  BY DEF Wait
<1>2. CASE SlotFree
  <2>1. calls' = Append(calls, 0) /\ at' = [at EXCEPT ![c] = what]
        /\ UNCHANGED <<goal, left>>
    BY <1>2 DEF Wait, Noted
  <2>2. calls' \in Seq(Ages)
    BY <1>1, <2>1
  <2> QED
    BY <2>1, <2>2, <1>4 DEF Posts
<1>3. CASE ~SlotFree
  <2>1. Head(calls) \in Ages
    BY <1>1, <1>3 DEF SlotFree
  <2>2. Period <= Period * MaxAttempts
    BY <1>1, Times
  <2>3. Period * MaxAttempts \in Nat
    BY <1>1
  <2>4. Period - Head(calls) \in 0..Period * MaxAttempts
    <3>1. PICK h \in 0..Period - 1 : h = Head(calls)
      BY <2>1 DEF Ages
    <3>2. PICK m \in Nat : m = Period * MaxAttempts
      BY <2>3
    <3>3. Period <= m
      BY <2>2, <3>2
    <3>4. Period - h \in 0..m
      BY <1>1, <3>3
    <3> QED
      BY <3>1, <3>2, <3>4
  <2>5. /\ at' = [at EXCEPT ![c] = "asleep"] /\ goal' = [goal EXCEPT ![c] = what]
        /\ left' = [left EXCEPT ![c] = Period - Head(calls)] /\ UNCHANGED calls
    BY <1>3 DEF Wait
  <2> QED
    BY <1>4, <2>4, <2>5 DEF Posts
<1> QED
  BY <1>2, <1>3

LEMMA EndsTyped ==
    ASSUME RestInv, NEW c \in Callers, NEW how \in Results, Ends(c, how),
           old' \subseteq Callers, valid' \in BOOLEAN, recent' \in BOOLEAN,
           placed' \in [Callers -> 0..MaxAttempts]
    PROVE  TypeOK' /\ AttemptsLeft'
<1>1. TypeOK /\ AttemptsLeft /\ MaxAttempts \in Nat
  BY RestAssumption DEF RestInv
<1>2. /\ at' = [at EXCEPT ![c] = "idle"] /\ attempt' = [attempt EXCEPT ![c] = 0]
      /\ result' = [result EXCEPT ![c] = how]
      /\ UNCHANGED <<goal, left, expiring, calls, extra, crowded>>
  BY DEF Ends, limiterVars
<1>3. at' \in [Callers -> Posts \cup {"idle", "asleep", "backoff"}]
  BY <1>1, <1>2 DEF TypeOK
<1>4. attempt' \in [Callers -> 0..MaxAttempts] /\ AttemptsLeft'
  BY <1>1, <1>2 DEF TypeOK, AttemptsLeft
<1>5. result' \in [Callers -> Results]
  BY <1>1, <1>2 DEF TypeOK
<1> QED
  BY <1>1, <1>2, <1>3, <1>4, <1>5 DEF TypeOK

LEMMA KeptTyped ==
    ASSUME TypeOK, NEW c \in Callers, TokenKept(c)
    PROVE  old' \subseteq Callers /\ valid' \in BOOLEAN
BY DEF TokenKept, TypeOK

LEMMA OverTyped ==
    ASSUME RestInv, NEW c \in Callers, Refuses(c) \/ Raises(c),
           old' \subseteq Callers, valid' \in BOOLEAN
    PROVE  TypeOK' /\ AttemptsLeft'
<1>1. PICK how \in Results : Ends(c, how)
  BY DEF Refuses, Raises, Results
<1>2. recent' \in BOOLEAN /\ placed' \in [Callers -> 0..MaxAttempts]
  <2>1. TypeOK /\ recent' = recent /\ placed' = [placed EXCEPT ![c] = 0]
    BY DEF Refuses, Raises, RestInv
  <2> QED
    BY <2>1, RestAssumption DEF TypeOK
<1> QED
  BY <1>1, <1>2, EndsTyped

LEMMA RestStep == RestInv /\ [Next]_vars => RestInv'
<1> SUFFICES ASSUME RestInv, [Next]_vars PROVE TypeOK' /\ AttemptsLeft'
  BY ResultStep DEF RestInv
<1>0. /\ Period \in Nat \ {0} /\ MaxAttempts \in Nat \ {0} /\ MaxCalls \in Nat \ {0}
      /\ TypeOK /\ OrdersPerAttempt /\ AttemptsLeft
  BY RestAssumption DEF RestInv, ResultInv
<1>1. ASSUME NEW c \in Callers, Request(c) PROVE TypeOK' /\ AttemptsLeft'
  <2> DEFINE what == IF expiring THEN "ensure" ELSE "send"
  <2>1. what \in Posts /\ Wait(c, what)
    BY <1>1 DEF Posts, Request
  <2> HIDE DEF what
  <2> QED
    <3>1. /\ attempt' = [attempt EXCEPT ![c] = 1] /\ placed' = [placed EXCEPT ![c] = 0]
          /\ result' = [result EXCEPT ![c] = "none"]
          /\ UNCHANGED <<old, expiring, valid, recent, extra>>
      BY <1>1 DEF Request, tokenVars
    <3>2. attempt' \in [Callers -> 0..MaxAttempts] /\ placed' \in [Callers -> 0..MaxAttempts]
      BY <1>0, <3>1 DEF TypeOK
    <3>3. result' \in [Callers -> Results]
      BY <1>0, <3>1 DEF TypeOK, Results
    <3>4. AttemptsLeft'
      BY <1>0, <2>1, <3>1, WaitTyped DEF AttemptsLeft, TypeOK
    <3> QED
      BY <1>0, <2>1, <3>1, <3>2, <3>3, <3>4, WaitTyped DEF TypeOK
<1>2. ASSUME NEW c \in Callers, Wake(c) PROVE TypeOK' /\ AttemptsLeft'
  <2>1. 0 \in Ages /\ goal[c] \in Posts
    BY <1>0, <1>2 DEF Ages, Wake, OrdersPerAttempt
  <2>2. calls' \in Seq(Ages)
    BY <1>0, <1>2, <2>1 DEF Wake, Noted, TypeOK
  <2> QED
    BY <1>0, <1>2, <2>1, <2>2 DEF Wake, TypeOK, AttemptsLeft, tokenVars, Posts
<1>3. ASSUME NEW c \in Callers, Again(c) PROVE TypeOK' /\ AttemptsLeft'
  BY <1>0, <1>3 DEF Again, TypeOK, AttemptsLeft, tokenVars, Posts
<1>4. ASSUME NEW c \in Callers, TokenIssued(c) PROVE TypeOK' /\ AttemptsLeft'
  <2> DEFINE what == IF at[c] = "ensure" THEN "send" ELSE "resend"
  <2>1. what \in Posts /\ Wait(c, what)
    BY <1>4 DEF Posts, TokenIssued
  <2>2. expiring' \in BOOLEAN /\ valid' \in BOOLEAN /\ recent' \in BOOLEAN
        /\ old' \subseteq Callers /\ UNCHANGED <<attempt, extra, placed, result>>
    BY <1>0, <1>4 DEF TokenIssued, HeadersMade, TypeOK
  <2> HIDE DEF what
  <2> QED
    BY <1>0, <2>1, <2>2, WaitTyped DEF TypeOK, AttemptsLeft
<1>5. ASSUME NEW c \in Callers, TokenFails(c) PROVE TypeOK' /\ AttemptsLeft'
  <2>1. old' \subseteq Callers /\ valid' \in BOOLEAN
    BY <1>0, <1>5, KeptTyped DEF TokenFails, HeadersMade, TypeOK
  <2> QED
    BY <1>5, <2>1, OverTyped DEF TokenFails
<1>6. ASSUME NEW c \in Callers, Accepted(c) PROVE TypeOK' /\ AttemptsLeft'
  <2>1. placed[c] + 1 <= attempt[c]
    BY <1>0, <1>6 DEF Accepted, Sent, OrdersPerAttempt, Posts
  <2>2. placed' \in [Callers -> 0..MaxAttempts]
    BY <1>0, <1>6, <2>1 DEF Accepted, TypeOK
  <2> QED
    BY <1>0, <1>6, <2>2, EndsTyped, KeptTyped DEF Accepted, Results, TypeOK
<1>7. ASSUME NEW c \in Callers, Rejected(c) PROVE TypeOK' /\ AttemptsLeft'
  <2>1. CASE Refuses(c) /\ TokenKept(c)
    BY <1>0, <2>1, OverTyped, KeptTyped
  <2>2. CASE ~ (Refuses(c) /\ TokenKept(c))
    <3>1. Wait(c, "reissue") /\ UNCHANGED <<attempt, tokenVars, extra, placed, result>>
      BY <1>7, <2>2 DEF Rejected, Noticed
    <3> QED
      BY <1>0, <3>1, WaitTyped DEF TypeOK, AttemptsLeft, tokenVars, Posts
  <2> QED
    BY <2>1, <2>2
<1>8. ASSUME NEW c \in Callers, Raised(c) \/ Denied(c) PROVE TypeOK' /\ AttemptsLeft'
  BY <1>0, <1>8, OverTyped, KeptTyped DEF Raised, Denied
<1>9. ASSUME NEW c \in Callers, Fails(c) PROVE TypeOK' /\ AttemptsLeft'
  <2>1. CASE Raises(c) /\ TokenKept(c)
    BY <1>0, <2>1, OverTyped, KeptTyped
  <2>2. CASE ~ (Raises(c) /\ TokenKept(c))
    <3>1. /\ at' = [at EXCEPT ![c] = "backoff"] /\ at[c] \in Posts
          /\ attempt[c] < MaxAttempts
          /\ left' = [left EXCEPT ![c] = Period * attempt[c]]
          /\ UNCHANGED <<goal, attempt, tokenVars, limiterVars, result>>
      BY <1>9, <2>2 DEF Fails, Sent, AttemptLeft, BackOff, Posts
    <3>2. PICK made \in {0, 1} : placed' = [placed EXCEPT ![c] = @ + made]
      BY <1>9, <2>2 DEF Fails
    <3>3. placed[c] + 1 <= attempt[c] /\ attempt[c] \in 0..MaxAttempts
          /\ placed[c] \in 0..MaxAttempts
      BY <1>0, <3>1 DEF OrdersPerAttempt, TypeOK
    <3>4. Period * attempt[c] \in 0..Period * MaxAttempts
      BY <1>0, <3>3, Times
    <3>5. placed' \in [Callers -> 0..MaxAttempts]
      BY <1>0, <3>2, <3>3 DEF TypeOK
    <3> QED
      BY <1>0, <3>1, <3>4, <3>5 DEF TypeOK, AttemptsLeft, tokenVars, limiterVars
  <2> QED
    BY <2>1, <2>2
<1>10. CASE Tick
  <2>1. PICK n \in 0..Len(calls) : Purged(n)
    BY <1>10 DEF Tick
  <2>2. calls' \in Seq(Ages)
    BY <1>0, <2>1, PurgedTyped DEF TypeOK
  <2>3. left' \in [Callers -> 0..Period * MaxAttempts]
    <3>1. Period * MaxAttempts \in Nat
      BY <1>0
    <3> QED
      BY <1>0, <1>10, <3>1 DEF Tick, TypeOK
  <2>4. extra' \in [Callers -> 0..Period] /\ crowded' \in BOOLEAN
    BY <1>0, <1>10 DEF Tick, TypeOK
  <2> QED
    BY <1>0, <1>10, <2>2, <2>3, <2>4 DEF Tick, TypeOK, AttemptsLeft, tokenVars
<1>11. CASE Invalidated \/ Expires \/ IntervalOver \/ UNCHANGED vars
  BY <1>0, <1>11
  DEF Invalidated, Expires, IntervalOver, vars, callerVars, tokenVars, limiterVars, TypeOK,
      AttemptsLeft
<1> QED
  BY <1>1, <1>2, <1>3, <1>4, <1>5, <1>6, <1>7, <1>8, <1>9, <1>10, <1>11
  DEF Next, Proceeds, Answered, Failed

LEMMA RestInit == Init => RestInv
<1> SUFFICES ASSUME Init PROVE TypeOK /\ AttemptsLeft
  BY ResultInit DEF RestInv
<1>1. Period * MaxAttempts \in Nat /\ MaxAttempts \in Nat /\ Period \in Nat
  BY RestAssumption
<1> QED
  <2>1. <<>> \in Seq(Ages)
    OBVIOUS
  <2>2. /\ [c \in Callers |-> 0] \in [Callers -> 0..Period * MaxAttempts]
        /\ [c \in Callers |-> 0] \in [Callers -> 0..MaxAttempts]
        /\ [c \in Callers |-> Period] \in [Callers -> 0..Period]
    BY <1>1
  <2>3. /\ expiring \in BOOLEAN /\ valid \in BOOLEAN /\ recent \in BOOLEAN
        /\ crowded \in BOOLEAN /\ old \subseteq Callers
    BY DEF Init
  <2> QED
    BY <2>1, <2>2, <2>3 DEF Init, TypeOK, AttemptsLeft, Posts, Results

\* Types: in particular no request makes more attempts than max_retries and no
\* caller sleeps longer than the last back-off (rest_client.py:132-181).
THEOREM RestTypes == Spec => []TypeOK
<1>1. RestInv => TypeOK
  BY DEF RestInv
<1> QED
  BY <1>1, RestInit, RestStep, PTL DEF Spec

----------------------------------------------------------------------------
(* The window.                                                             *)

\* While callers come one by one at most one sleeps, and a full window's
\* oldest call will have left it when that one wakes.
LimitInv ==
    ~crowded =>
        /\ \A c, d \in Asleep : c = d
        /\ Len(calls) <= MaxCalls
        /\ \A c \in Asleep : Len(calls) < MaxCalls \/ calls[1] + left[c] >= Period

LEMMA WaitKeepsLimit ==
    ASSUME TypeOK, LimitInv, NEW c \in Callers, NEW what \in Posts, Wait(c, what),
           at[c] # "asleep"
    PROVE  LimitInv'
<1>0. Period \in Nat \ {0} /\ MaxCalls \in Nat \ {0} /\ calls \in Seq(Ages)
  BY RestAssumption DEF TypeOK
<1>1. SUFFICES ASSUME ~crowded'
               PROVE  /\ Len(calls') <= MaxCalls
                      /\ \A d, e \in Asleep' : d = e
                      /\ \A d \in Asleep' : \/ Len(calls') < MaxCalls
                                            \/ calls'[1] + left'[d] >= Period
  BY DEF LimitInv
<1>2. Asleep = {} /\ Len(calls) <= MaxCalls
  BY <1>1 DEF Wait, LimitInv
<1>3. CASE SlotFree
  <2>1. Asleep' = {}
    BY <1>2, <1>3 DEF Wait, Asleep, TypeOK, Posts
  <2>2. Len(calls') = Len(calls) + 1
    BY <1>0, <1>3 DEF Wait, Noted, Ages
  <2> QED
    BY <1>0, <1>3, <2>1, <2>2 DEF SlotFree
<1>4. CASE ~SlotFree
  <2>1. Asleep' = {c} /\ left'[c] = Period - Head(calls) /\ calls' = calls
    BY <1>2, <1>4 DEF Wait, Asleep, TypeOK
  <2>2. Head(calls) = calls[1] /\ calls[1] \in Int
    BY <1>0, <1>4 DEF SlotFree, Ages
  <2> QED
    BY <1>0, <1>2, <2>1, <2>2
<1> QED
  BY <1>3, <1>4

LEMMA LimitStep == RestInv /\ LimitInv /\ [Next]_vars => LimitInv'
<1> SUFFICES ASSUME RestInv, LimitInv, [Next]_vars PROVE LimitInv'
  OBVIOUS
<1>0. /\ Period \in Nat \ {0} /\ MaxCalls \in Nat \ {0} /\ calls \in Seq(Ages)
      /\ TypeOK /\ OrdersPerAttempt
  BY RestAssumption DEF RestInv, TypeOK, ResultInv
<1>1. ASSUME NEW c \in Callers, Request(c) \/ TokenIssued(c) PROVE LimitInv'
  BY <1>0, <1>1, WaitKeepsLimit DEF Request, TokenIssued, Posts
<1>2. ASSUME NEW c \in Callers, Wake(c) PROVE LimitInv'
  <2> SUFFICES ASSUME ~crowded PROVE Len(calls') <= MaxCalls /\ Asleep' = {}
    BY <1>2 DEF LimitInv, Wake
  <2>1. c \in Asleep /\ \A d \in Asleep : d = c
    BY <1>2 DEF LimitInv, Asleep, Wake
  <2>2. Len(calls) < MaxCalls
    <3>1. CASE Len(calls) = 0
      BY <1>0, <3>1
    <3>2. CASE Len(calls) # 0
      <4>1. calls[1] \in Ages
        BY <1>0, <3>2
      <4> QED
        BY <1>0, <1>2, <2>1, <4>1 DEF LimitInv, Wake, Ages
    <3> QED
      BY <3>1, <3>2
  <2>3. Len(calls') = Len(calls) + 1
    BY <1>0, <1>2 DEF Wake, Noted, Ages
  <2>4. Asleep' = {}
    BY <1>0, <1>2, <2>1 DEF Wake, Asleep, OrdersPerAttempt, Posts, TypeOK
  <2> QED
    BY <1>0, <2>2, <2>3, <2>4
<1>3. ASSUME NEW c \in Callers, Again(c) PROVE LimitInv'
  <2>1. Asleep' = Asleep /\ UNCHANGED <<calls, left, crowded>>
    BY <1>0, <1>3 DEF Again, Asleep, TypeOK
  <2> QED
    BY <2>1 DEF LimitInv
<1>4. ASSUME NEW c \in Callers, Refuses(c) \/ Raises(c), at[c] # "asleep" PROVE LimitInv'
  <2>1. Asleep' = Asleep /\ UNCHANGED <<calls, left, crowded>>
    BY <1>0, <1>4 DEF Refuses, Raises, Ends, limiterVars, Asleep, TypeOK
  <2> QED
    BY <2>1 DEF LimitInv
<1>5. ASSUME NEW c \in Callers, Accepted(c) PROVE LimitInv'
  <2>1. Asleep' = Asleep /\ UNCHANGED <<calls, left, crowded>>
    BY <1>0, <1>5 DEF Accepted, Sent, Ends, limiterVars, Asleep, TypeOK
  <2> QED
    BY <2>1 DEF LimitInv
<1>6. ASSUME NEW c \in Callers, Rejected(c) PROVE LimitInv'
  BY <1>0, <1>4, <1>6, WaitKeepsLimit DEF Rejected, Noticed, Sent, Posts
<1>7. ASSUME NEW c \in Callers, Fails(c) PROVE LimitInv'
  <2>1. CASE Raises(c)
    BY <1>4, <1>7, <2>1 DEF Fails, Sent
  <2>2. CASE ~ Raises(c)
    <3>1. /\ Asleep' = Asleep /\ UNCHANGED <<calls, crowded>>
          /\ \A d \in Asleep : left'[d] = left[d]
      BY <1>0, <1>7, <2>2 DEF Fails, Sent, limiterVars, Asleep, TypeOK
    <3> QED
      BY <3>1 DEF LimitInv
  <2> QED
    BY <2>1, <2>2
<1>8. CASE Tick
  <2> SUFFICES ASSUME ~crowded'
               PROVE  /\ Len(calls') <= MaxCalls
                      /\ \A d, e \in Asleep : d = e
                      /\ \A d \in Asleep : \/ Len(calls') < MaxCalls
                                           \/ calls'[1] + left'[d] >= Period
    BY <1>8 DEF LimitInv, Tick, Asleep
  <2>1. PICK n \in 0..Len(calls) : Purged(n)
    BY <1>8 DEF Tick
  <2>2. /\ Len(calls') = Len(calls) - n
        /\ n = 0 => \A i \in 1..Len(calls) : calls'[i] = calls[i] + 1
    BY <1>0, <2>1, PurgedTyped
  <2>3. CASE crowded
    <3>1. Asleep = {} /\ ~ Len(calls') > MaxCalls
      BY <1>8, <2>3 DEF Tick
    <3>2. Len(calls') <= MaxCalls
      BY <1>0, <2>2, <3>1
    <3> QED
      BY <3>1, <3>2
  <2>4. CASE ~crowded
    <3>1. ASSUME NEW d \in Asleep, Len(calls') >= MaxCalls
          PROVE  calls'[1] + left'[d] >= Period
      <4>1. n = 0 /\ Len(calls) = MaxCalls
        BY <1>0, <2>2, <2>4, <3>1 DEF LimitInv
      <4>2. calls'[1] = calls[1] + 1 /\ calls[1] \in Ages
        BY <1>0, <2>2, <4>1
      <4>3. left[d] \in Int /\ left'[d] >= left[d] - 1
        <5>1. left[d] \in 0..Period * MaxAttempts /\ Period * MaxAttempts \in Nat
          BY <1>0, RestAssumption DEF TypeOK, Asleep
        <5> QED
          BY <1>8, <5>1 DEF Tick, Asleep
      <4>4. calls[1] + left[d] >= Period
        BY <1>0, <2>4, <4>1 DEF LimitInv
      <4>5. left'[d] \in Int
        BY <1>8, <4>3 DEF Tick, Asleep
      <4> QED
        BY <1>0, <4>2, <4>3, <4>4, <4>5 DEF Ages
    <3>2. Len(calls') <= MaxCalls /\ \A d, e \in Asleep : d = e
      BY <1>0, <2>2, <2>4 DEF LimitInv
    <3>3. Len(calls') \in Int
      BY <1>0, <2>2
    <3> QED
      BY <1>0, <3>1, <3>2, <3>3
  <2> QED
    BY <2>3, <2>4
<1>9. CASE Invalidated \/ Expires \/ IntervalOver \/ UNCHANGED vars
  <2>1. UNCHANGED <<at, calls, left, crowded>>
    BY <1>9 DEF Invalidated, Expires, IntervalOver, vars, callerVars, limiterVars
  <2> QED
    BY <2>1 DEF LimitInv, Asleep
<1> QED
  BY <1>1, <1>2, <1>3, <1>4, <1>5, <1>6, <1>7, <1>8, <1>9
  DEF Next, Proceeds, Answered, Failed, TokenFails, Raised, Denied, Sent

\* Whatever period, limit and number of callers: the window never holds more
\* than max_calls while nobody comes to the limiter as another sleeps in it,
\* although who wakes does not look again (rate_limiter.py:81-90).
THEOREM RestLimit == Spec => []LimitKept
<1>1. Init => LimitInv
  BY RestAssumption DEF Init, LimitInv, Asleep
<1>2. LimitInv => LimitKept
  BY DEF LimitInv, LimitKept
<1> QED
  BY <1>1, <1>2, RestInit, RestStep, LimitStep, PTL DEF Spec

----------------------------------------------------------------------------
(* Attempts without a slot.                                                *)

\* A back-off that is over began a period after the caller's last resend.
Spaced == \A c \in Callers : at[c] = "backoff" => extra[c] + left[c] >= Period

LEMMA SpacedStep == RestInv /\ Spaced /\ [Next]_vars => Spaced'
<1> SUFFICES ASSUME RestInv, Spaced, [Next]_vars PROVE Spaced'
  OBVIOUS
<1>0. /\ Period \in Nat \ {0} /\ TypeOK /\ OrdersPerAttempt /\ Period * MaxAttempts \in Nat
      /\ MaxAttempts \in Nat \ {0}
  BY RestAssumption DEF RestInv, ResultInv
<1>1. ASSUME NEW c \in Callers, NEW what \in Posts, Wait(c, what), UNCHANGED extra
      PROVE  Spaced'
  BY <1>0, <1>1 DEF Wait, Spaced, TypeOK, Posts
<1>2. ASSUME NEW c \in Callers, NEW how \in Results, Ends(c, how) PROVE Spaced'
  BY <1>0, <1>2 DEF Ends, Spaced, TypeOK, limiterVars
<1>3. ASSUME NEW c \in Callers, Request(c) \/ TokenIssued(c) PROVE Spaced'
  BY <1>1, <1>3 DEF Request, TokenIssued, Posts
<1>4. ASSUME NEW c \in Callers, Wake(c) PROVE Spaced'
  BY <1>0, <1>4 DEF Wake, Spaced, TypeOK, OrdersPerAttempt, Posts
<1>5. ASSUME NEW c \in Callers, Again(c) PROVE Spaced'
  BY <1>0, <1>5 DEF Again, Spaced, TypeOK
<1>6. ASSUME NEW c \in Callers, Refuses(c) \/ Raises(c) \/ Accepted(c) PROVE Spaced'
  BY <1>2, <1>6 DEF Refuses, Raises, Accepted, Results
<1>7. ASSUME NEW c \in Callers, Rejected(c) PROVE Spaced'
  BY <1>1, <1>6, <1>7 DEF Rejected, Noticed, Posts
<1>8. ASSUME NEW c \in Callers, Fails(c), ~Raises(c) PROVE Spaced'
  <2>1. /\ at' = [at EXCEPT ![c] = "backoff"] /\ at[c] \in Posts
        /\ left' = [left EXCEPT ![c] = Period * attempt[c]]
        /\ UNCHANGED extra
    BY <1>8 DEF Fails, Sent, BackOff, Posts, limiterVars
  <2>2. attempt[c] \in Nat \ {0} /\ attempt[c] <= MaxAttempts
    <3>1. placed[c] + 1 <= attempt[c] /\ placed[c] \in 0..MaxAttempts
          /\ attempt[c] \in 0..MaxAttempts
      BY <1>0, <2>1 DEF OrdersPerAttempt, TypeOK
    <3> QED
      BY <1>0, <3>1
  <2>3. Period <= Period * attempt[c] /\ Period * attempt[c] \in Nat
    BY <1>0, <2>2, Times
  <2> QED
    BY <1>0, <2>1, <2>3 DEF Spaced, TypeOK
<1>9. CASE Tick
  <2> SUFFICES ASSUME NEW c \in Callers, at[c] = "backoff" PROVE extra'[c] + left'[c] >= Period
    BY <1>9 DEF Spaced, Tick
  <2>1. extra[c] \in 0..Period /\ left[c] \in 0..Period * MaxAttempts
    BY <1>0 DEF TypeOK
  <2>2. extra[c] + left[c] >= Period
    BY DEF Spaced
  <2>3. /\ extra'[c] = IF extra[c] < Period THEN extra[c] + 1 ELSE Period
        /\ left'[c] = IF left[c] = 0 THEN 0 ELSE left[c] - 1
    BY <1>9 DEF Tick
  <2> QED
    BY <1>0, <2>1, <2>2, <2>3
<1>10. CASE Invalidated \/ Expires \/ IntervalOver \/ UNCHANGED vars
  BY <1>10 DEF Invalidated, Expires, IntervalOver, vars, callerVars, limiterVars, Spaced
<1> QED
  BY <1>3, <1>4, <1>5, <1>6, <1>7, <1>8, <1>9, <1>10
  DEF Next, Proceeds, Answered, Failed, TokenFails, Raised, Denied

\* A step out of a back-off is the next attempt, and its sleep is over.
LEMMA SpacedResend ==
    RestInv /\ Spaced /\ [Next]_vars
    => [\A c \in Callers : at[c] = "backoff" /\ at'[c] = "send" => extra[c] = Period]_vars
<1> SUFFICES ASSUME RestInv, Spaced, [Next]_vars, NEW c \in Callers,
                    at[c] = "backoff", at'[c] = "send"
             PROVE  extra[c] = Period
  OBVIOUS
<1>0. TypeOK /\ Period \in Nat
  BY RestAssumption DEF RestInv
<1>1. left[c] = 0
  <2>1. ASSUME NEW d \in Callers, NEW what \in Posts, Wait(d, what), at[d] # "backoff"
        PROVE  FALSE
    BY <1>0, <2>1 DEF Wait, TypeOK
  <2>2. ASSUME NEW d \in Callers, NEW how \in Results, Ends(d, how), at[d] # "backoff"
        PROVE  FALSE
    BY <1>0, <2>2 DEF Ends, TypeOK
  <2>3. ASSUME NEW d \in Callers, Request(d) \/ TokenIssued(d) PROVE FALSE
    BY <2>1, <2>3 DEF Request, TokenIssued, Posts
  <2>4. ASSUME NEW d \in Callers, at[d] # "backoff", Refuses(d) \/ Raises(d) \/ Accepted(d)
        PROVE  FALSE
    BY <2>2, <2>4 DEF Refuses, Raises, Accepted, Results
  <2>5. ASSUME NEW d \in Callers, Wake(d) PROVE FALSE
    BY <1>0, <2>5 DEF Wake, TypeOK
  <2>6. ASSUME NEW d \in Callers,
               Rejected(d) \/ Raised(d) \/ Accepted(d) \/ Denied(d) \/ TokenFails(d)
        PROVE  FALSE
    BY <2>1, <2>4, <2>6
    DEF Rejected, Noticed, Raised, Sent, Posts, Accepted, Denied, TokenFails
  <2>7. ASSUME NEW d \in Callers, Fails(d) PROVE FALSE
    BY <1>0, <2>4, <2>7 DEF Fails, Sent, TypeOK
  <2>8. ASSUME NEW d \in Callers, Again(d) PROVE left[c] = 0
    BY <1>0, <2>8 DEF Again, TypeOK
  <2>9. CASE Tick \/ Invalidated \/ Expires \/ IntervalOver \/ UNCHANGED vars
    BY <2>9 DEF Tick, Invalidated, Expires, IntervalOver, vars, callerVars
  <2> QED
    BY <2>3, <2>5, <2>6, <2>7, <2>8, <2>9 DEF Next, Proceeds, Answered, Failed
<1>2. extra[c] \in 0..Period /\ extra[c] + left[c] >= Period
  BY <1>0 DEF TypeOK, Spaced
<1> QED
  BY <1>0, <1>1, <1>2

\* No caller sends two attempts that skip the limiter within one period, for
\* every limit, period and number of attempts (rest_client.py:132-138, 173).
THEOREM RestFewWithoutSlot == Spec => FewWithoutSlot
<1>1. Init => Spaced
  BY DEF Init, Spaced
<1> QED
  BY <1>1, RestInit, RestStep, SpacedStep, SpacedResend, PTL DEF Spec, FewWithoutSlot
=============================================================================
