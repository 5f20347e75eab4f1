----------------------------- MODULE RestClient -----------------------------
(***************************************************************************)
(* The REST client (src/broker/rest_client.py) and its rate limiter        *)
(* (rate_limiter.py) under the tasks that share them: the token and its    *)
(* reissue, the slots of the sliding window, and a request with its retry  *)
(* after a token error and its two resends after an error of the server or *)
(* the connection.                                                         *)
(*                                                                         *)
(* Every request is an order, so that each one the broker carries out      *)
(* counts.  Time is a count of ticks, of which Period make a second; a     *)
(* call made k to k+1 ticks ago has age k, so ties of the clock are left   *)
(* out.                                                                    *)
(***************************************************************************)
EXTENDS Integers, Sequences, FiniteSets

CONSTANTS
    Callers,     \* tasks: the polling loop, the jobs
    MaxCalls,    \* max_calls
    Period,      \* ticks in period; the first back-off lasts as long
    MaxAttempts  \* max_retries

ASSUME RestAssumption ==
    /\ IsFiniteSet(Callers)
    /\ {MaxCalls, Period, MaxAttempts} \subseteq Nat \ {0}

VARIABLES
    at,        \* where each caller stands in request()
    goal,      \* what a caller asleep in the limiter or backing off does next
    left,      \* ticks of sleep left
    attempt,   \* attempts of the loop begun
    old,       \* callers whose headers hold a token replaced meanwhile
    expiring,  \* _token_expires is unknown or less than ten minutes off
    valid,     \* the broker accepts the client's token
    recent,    \* less than TOKEN_REISSUE_MIN_INTERVAL since _last_reissue
    calls,     \* _calls: the age of each, oldest first
    extra,     \* history: the age of each caller's last request without a slot
    crowded,   \* history: someone came to the limiter while another slept
    placed,    \* history: orders the broker made of a caller's request
    result     \* what each caller's last request returned; none if it raised

callerVars == <<at, goal, left, attempt>>
tokenVars == <<old, expiring, valid, recent>>
limiterVars == <<calls, extra, crowded>>
vars == <<callerVars, tokenVars, limiterVars, placed, result>>

Ages == 0..Period - 1
Posts == {"ensure", "send", "reissue", "resend"}  \* awaited replies
Results == {"none", "ok", "refused"}

TypeOK ==
    /\ at \in [Callers -> Posts \cup {"idle", "asleep", "backoff"}]
    /\ goal \in [Callers -> Posts \cup {"idle"}]
    /\ left \in [Callers -> 0..Period * MaxAttempts]
    /\ attempt \in [Callers -> 0..MaxAttempts]
    /\ old \subseteq Callers
    /\ expiring \in BOOLEAN /\ valid \in BOOLEAN /\ recent \in BOOLEAN
    /\ calls \in Seq(Ages)
    /\ extra \in [Callers -> 0..Period]
    /\ crowded \in BOOLEAN
    /\ placed \in [Callers -> 0..MaxAttempts]
    /\ result \in [Callers -> Results]

Init ==
    /\ at = [c \in Callers |-> "idle"] /\ goal = [c \in Callers |-> "idle"]
    /\ left = [c \in Callers |-> 0] /\ attempt = [c \in Callers |-> 0]
    /\ old = {} /\ expiring = TRUE /\ valid = FALSE /\ recent = FALSE
    /\ calls = <<>> /\ extra = [c \in Callers |-> Period] /\ crowded = FALSE
    /\ placed = [c \in Callers |-> 0] /\ result = [c \in Callers |-> "none"]

----------------------------------------------------------------------------
(* The limiter.                                                            *)

Asleep == {c \in Callers : at[c] = "asleep"}

\* Mutant: the comparison is off by one.
OneTooMany == Len(calls) <= MaxCalls

SlotFree == Len(calls) < MaxCalls

Noted == calls' = Append(calls, 0)

\* wait(): a free slot is taken at once, else the oldest call is slept out.
Wait(c, what) ==
    /\ crowded' = (crowded \/ Asleep # {})
    /\ IF SlotFree
       THEN Noted /\ at' = [at EXCEPT ![c] = what] /\ UNCHANGED <<goal, left>>
       ELSE /\ at' = [at EXCEPT ![c] = "asleep"]
            /\ goal' = [goal EXCEPT ![c] = what]
            /\ left' = [left EXCEPT ![c] = Period - Head(calls)]
            /\ UNCHANGED calls

\* Mutant: who wakes waits again if the window is full.
WakeAndWait(c) ==
    /\ at[c] = "asleep" /\ left[c] = 0
    /\ Wait(c, goal[c])
    /\ UNCHANGED <<attempt, tokenVars, extra, placed, result>>

\* Whoever wakes takes the slot, without another look at the window.
Wake(c) ==
    /\ at[c] = "asleep" /\ left[c] = 0
    /\ Noted
    /\ at' = [at EXCEPT ![c] = goal[c]] /\ goal' = [goal EXCEPT ![c] = "idle"]
    /\ UNCHANGED <<left, attempt, tokenVars, extra, crowded, placed, result>>

----------------------------------------------------------------------------
(* A request.                                                              *)

Ends(c, how) ==
    /\ at' = [at EXCEPT ![c] = "idle"]
    /\ attempt' = [attempt EXCEPT ![c] = 0]
    /\ result' = [result EXCEPT ![c] = how]
    /\ UNCHANGED <<goal, left, expiring, limiterVars>>

TokenKept(c) == old' = old \ {c} /\ UNCHANGED valid

\* The caller gets a reply, which is no acceptance.
Refuses(c) ==
    /\ Ends(c, "refused")
    /\ placed' = [placed EXCEPT ![c] = 0] /\ UNCHANGED recent

Raises(c) ==
    /\ Ends(c, "none")
    /\ placed' = [placed EXCEPT ![c] = 0] /\ UNCHANGED recent

\* request() up to its first await.
Request(c) ==
    /\ at[c] = "idle"
    /\ Wait(c, IF expiring THEN "ensure" ELSE "send")
    /\ attempt' = [attempt EXCEPT ![c] = 1]
    /\ placed' = [placed EXCEPT ![c] = 0]
    /\ result' = [result EXCEPT ![c] = "none"]
    /\ UNCHANGED <<tokenVars, extra>>

\* Requests under way keep the headers, and the token, they were made with;
\* one that still sleeps before its first attempt makes them when it wakes.
HeadersMade == {d \in Callers : \/ at[d] \in {"send", "resend", "backoff"}
                                \/ at[d] = "asleep" /\ goal[d] = "resend"}

TokenIssued(c) ==
    /\ at[c] \in {"ensure", "reissue"}
    /\ expiring' = FALSE /\ valid' = TRUE
    /\ recent' = (recent \/ at[c] = "reissue")
    /\ old' = (old \cup HeadersMade) \ {c}
    /\ Wait(c, IF at[c] = "ensure" THEN "send" ELSE "resend")
    /\ UNCHANGED <<attempt, extra, placed, result>>

\* authenticate() raises: request() with it, _reissue_token returns False.  Its
\* reply may have left the client a blank token, or a good one with a date that
\* cannot be read.
TokenFails(c) ==
    /\ \/ at[c] = "ensure" /\ Raises(c)
       \/ at[c] = "reissue" /\ Refuses(c)
    /\ \/ TokenKept(c)
       \/ valid' \in BOOLEAN /\ old' = (old \cup HeadersMade) \ {c}

Sent(c) == at[c] \in {"send", "resend"}

\* The broker may take a token that has been replaced.
Good(c) == valid \/ c \in old

\* The broker makes the order.
Accepted(c) ==
    /\ Sent(c) /\ Good(c)
    /\ placed' = [placed EXCEPT ![c] = @ + 1]
    /\ Ends(c, "ok") /\ TokenKept(c) /\ UNCHANGED recent

\* It refuses the order, in a reply like any other.
Denied(c) ==
    /\ Sent(c) /\ Good(c)
    /\ Refuses(c) /\ TokenKept(c)

\* Mutant: an 8005 is taken for an answer.
Unnoticed(c) == Ends(c, "ok") /\ TokenKept(c) /\ UNCHANGED <<recent, placed>>

\* The 8005: one reissue, not within a minute of the last, and one resend.
Noticed(c) ==
    IF at[c] = "resend" \/ recent
    THEN Refuses(c) /\ TokenKept(c)
    ELSE Wait(c, "reissue") /\ UNCHANGED <<attempt, tokenVars, extra, placed, result>>

Rejected(c) ==
    /\ Sent(c) /\ (~valid \/ c \in old)
    /\ Noticed(c)

\* Mutant: the status of the reply is not looked at.
StatusIgnored(c) ==
    Sent(c) /\ Ends(c, "ok") /\ TokenKept(c) /\ UNCHANGED <<recent, placed>>

\* A client error, or a reply that is not JSON.
Raised(c) == Sent(c) /\ Raises(c) /\ TokenKept(c)

\* Mutant: the next attempt follows at once.
BackOffNot(c) == 0

BackOff(c) == Period * attempt[c]

\* Mutant: one attempt more than max_retries.
OneMore(c) == attempt[c] <= MaxAttempts

AttemptLeft(c) == attempt[c] < MaxAttempts

\* A server error or a lost connection; the order may have been made.
Fails(c) ==
    /\ Sent(c)
    /\ \/ ~AttemptLeft(c) /\ Raises(c) /\ TokenKept(c)
       \/ /\ AttemptLeft(c)
          /\ \E made \in IF Good(c) THEN {0, 1} ELSE {0} :
                 placed' = [placed EXCEPT ![c] = @ + made]
          /\ at' = [at EXCEPT ![c] = "backoff"]
          /\ left' = [left EXCEPT ![c] = BackOff(c)]
          /\ UNCHANGED <<goal, attempt, tokenVars, limiterVars, result>>

\* The next attempt asks the limiter for nothing and keeps its headers.
Again(c) ==
    /\ at[c] = "backoff" /\ left[c] = 0
    /\ at' = [at EXCEPT ![c] = "send"]
    /\ attempt' = [attempt EXCEPT ![c] = @ + 1]
    /\ extra' = [extra EXCEPT ![c] = 0]
    /\ UNCHANGED <<goal, left, tokenVars, calls, crowded, placed, result>>

----------------------------------------------------------------------------
(* Time and the broker.                                                    *)

\* _purge_old: the calls at the head that are a period old leave the window.
Purged(n) ==
    /\ \A i \in DOMAIN calls : i <= n <=> calls[i] = Period - 1
    /\ calls' = [i \in 1..(Len(calls) - n) |-> calls[i + n] + 1]

\* A sleep may last longer than asked for, by less than a period.
Tick ==
    /\ \E n \in 0..Len(calls) : Purged(n)
    /\ extra' = [c \in Callers |-> IF extra[c] < Period THEN extra[c] + 1 ELSE Period]
    /\ crowded' = (crowded /\ (Asleep # {} \/ Len(calls') > MaxCalls))
    /\ left' = [c \in Callers |-> IF left[c] = 0 THEN 0 ELSE left[c] - 1]
    /\ UNCHANGED <<at, goal, attempt, tokenVars, placed, result>>

\* The broker drops the token, as when another session asks for one.
Invalidated ==
    /\ valid /\ valid' = FALSE
    /\ UNCHANGED <<callerVars, old, expiring, recent, limiterVars, placed, result>>

Expires ==
    /\ ~expiring /\ expiring' = TRUE
    /\ UNCHANGED <<callerVars, old, valid, recent, limiterVars, placed, result>>

IntervalOver ==
    /\ recent /\ recent' = FALSE
    /\ UNCHANGED <<callerVars, old, expiring, valid, limiterVars, placed, result>>

Answered(c) == Accepted(c) \/ Denied(c) \/ Rejected(c)
Failed(c) == TokenFails(c) \/ Raised(c) \/ Fails(c)
Proceeds(c) ==
    Request(c) \/ Wake(c) \/ Again(c) \/ TokenIssued(c) \/ Answered(c) \/ Failed(c)

Next == (\E c \in Callers : Proceeds(c)) \/ Tick \/ Invalidated \/ Expires \/ IntervalOver

\* Timers run; httpx gives up a request without an answer after ten seconds;
\* the polling loop asks cycle after cycle.  A broker asked again and again
\* answers, and issues a token, at last.
Fairness ==
    /\ WF_vars(Tick) /\ WF_vars(IntervalOver)
    /\ \A c \in Callers : WF_vars(Proceeds(c))
    /\ SF_vars(\E c \in Callers : Answered(c))
    /\ SF_vars(\E c \in Callers : TokenIssued(c))

Spec == Init /\ [][Next]_vars /\ Fairness

----------------------------------------------------------------------------
(* Properties.                                                             *)

\* In rate_limiter.py:81-90 the window holds more than max_calls only when
\* callers met in the limiter: one that has it for itself is always held.
LimitKept == ~crowded => Len(calls) <= MaxCalls

\* Attempts that skip the limiter (rest_client.py:133-138) come after a
\* back-off of a period or more: none follows another of the same caller
\* within a period.
FewWithoutSlot ==
    [][\A c \in Callers : at[c] = "backoff" /\ at'[c] = "send" => extra[c] = Period]_vars

\* request() says "done" of an order only when the broker has made it, and
\* each attempt, with its retry after an 8005, makes one order at most
\* (rest_client.py:133-181): what is made twice was resent.
ResultTrue ==
    \A c \in Callers :
        /\ result[c] = "ok" => placed[c] >= 1
        /\ at[c] # "idle" => placed[c] <= attempt[c]

\* A token the broker has dropped, or a blank one that a failed issue left, is
\* replaced: after any failures, and the minute between two reissues, an 8005
\* reaches another reissue (rest_client.py:97-117, 143-167).
TokenHeals == []<>valid

\* Whatever the limiter, the token and the broker do, a request ends.
RequestsEnd == \A c \in Callers : []<>(at[c] = "idle")
=============================================================================
