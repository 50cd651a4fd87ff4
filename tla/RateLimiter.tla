---------------------------- MODULE RateLimiter ----------------------------
(***************************************************************************)
(* lib/rate_limiter.go: a counter of calls, a ticker goroutine that resets *)
(* it once per second, and the unbuffered channel lockCh on which a caller *)
(* over the limit parks until the ticker goroutine receives from it.       *)
(*                                                                         *)
(* There is one caller: NewWorker makes a limiter for each worker          *)
(* (worker.go:39) and only that worker's loop calls Limit (worker.go:65).  *)
(* The steps are the code's atomic ones: each atomic operation on count,   *)
(* each plain read of it by the ticker goroutine, each channel operation.  *)
(***************************************************************************)
EXTENDS Naturals

CONSTANT limit              \* RateLimiter.limit, calls allowed between two resets

ASSUME LimitAssumption == limit \in Nat \ {0}

VARIABLES
  count,    \* RateLimiter.count
  caller,   \* where the calling goroutine is in Limit
  ticker,   \* where the ticker goroutine is in its loop
  tick,     \* TRUE while a tick waits in ticker.C, a channel of capacity one
  granted   \* history: Limit calls that returned since count was last reset

vars == <<count, caller, ticker, tick, granted>>

\* "out" is outside Limit; "check" after addCount, before getCount; "exceeds"
\* before the send on lockCh; "send" parked on it; "woken" after the send,
\* before the second addCount.
CallerPC == {"out", "check", "exceeds", "send", "woken"}

\* "range" waits for a tick; "over" is before the read of line 26, "select"
\* before the select, "reset" before the reset of its default branch,
\* "positive" before the read of line 34, "clear" before the reset of line 35.
TickerPC == {"range", "over", "select", "reset", "positive", "clear"}

TypeOK ==
  /\ count \in Nat
  /\ caller \in CallerPC
  /\ ticker \in TickerPC
  /\ tick \in BOOLEAN
  /\ granted \in Nat

Init ==
  /\ count = 0
  /\ caller = "out"
  /\ ticker = "range"
  /\ tick = FALSE
  /\ granted = 0

-----------------------------------------------------------------------------
(* Limit, run by the worker's loop. *)

\* Limit is entered and counts the call.
Enter ==
  /\ caller = "out"
  /\ count' = count + 1
  /\ caller' = "check"
  /\ UNCHANGED <<ticker, tick, granted>>

\* Mutant of Pass: compares with limit + 1.
PassOneMore ==
  /\ caller = "check"
  /\ count <= limit + 1
  /\ caller' = "out"
  /\ granted' = granted + 1
  /\ UNCHANGED <<count, ticker, tick>>

\* The counter is within the limit: Limit returns.
Pass ==
  /\ caller = "check"
  /\ count <= limit
  /\ caller' = "out"
  /\ granted' = granted + 1
  /\ UNCHANGED <<count, ticker, tick>>

\* The counter is over the limit.
Exceed ==
  /\ caller = "check"
  /\ count > limit
  /\ caller' = "exceeds"
  /\ UNCHANGED <<count, ticker, tick, granted>>

\* Nobody receives from lockCh at this moment: the caller parks on it.
Park ==
  /\ caller = "exceeds"
  /\ caller' = "send"
  /\ UNCHANGED <<count, ticker, tick, granted>>

\* Mutant of Return: gives the call back instead of counting it again.
ReturnUncounts ==
  /\ caller = "woken"
  /\ count' = count - 1
  /\ caller' = "out"
  /\ granted' = granted + 1
  /\ UNCHANGED <<ticker, tick>>

\* After its send was received the caller counts itself again and returns.
Return ==
  /\ caller = "woken"
  /\ count' = count + 1
  /\ caller' = "out"
  /\ granted' = granted + 1
  /\ UNCHANGED <<ticker, tick>>

-----------------------------------------------------------------------------
(* The goroutine NewRateLimiter starts. *)

\* time.Ticker drops a tick when the last one was not received yet.
Tick ==
  /\ tick' = TRUE
  /\ UNCHANGED <<count, caller, ticker, granted>>

TickReceived ==
  /\ ticker = "range"
  /\ tick
  /\ tick' = FALSE
  /\ ticker' = "over"
  /\ UNCHANGED <<count, caller, granted>>

\* Mutants of ReadOver: the test is dropped, or off by one.
ReadOverAlways ==
  /\ ticker = "over"
  /\ ticker' = "select"
  /\ UNCHANGED <<count, caller, tick, granted>>

ReadOverLate ==
  /\ ticker = "over"
  /\ ticker' = IF count > limit + 1 THEN "select" ELSE "positive"
  /\ UNCHANGED <<count, caller, tick, granted>>

\* Line 26 reads count.
ReadOver ==
  /\ ticker = "over"
  /\ ticker' = IF count > limit THEN "select" ELSE "positive"
  /\ UNCHANGED <<count, caller, tick, granted>>

\* The select receives when a caller is parked on lockCh at that moment, and
\* takes its default branch when none is.
Release ==
  /\ ticker = "select"
  /\ caller = "send"
  /\ caller' = "woken"
  /\ ticker' = "positive"
  /\ UNCHANGED <<count, tick, granted>>

NobodyParked ==
  /\ ticker = "select"
  /\ caller # "send"
  /\ ticker' = "reset"
  /\ UNCHANGED <<count, caller, tick, granted>>

resetCount ==
  /\ count' = 0
  /\ granted' = 0

ResetInDefault ==
  /\ ticker = "reset"
  /\ resetCount
  /\ ticker' = "positive"
  /\ UNCHANGED <<caller, tick>>

\* Line 34 reads count again.
ReadPositive ==
  /\ ticker = "positive"
  /\ ticker' = IF count > 0 THEN "clear" ELSE "range"
  /\ UNCHANGED <<count, caller, tick, granted>>

\* Mutants of Clear: nothing is reset, or the counter is only taken down by the
\* limit.
ClearNothing ==
  /\ ticker = "clear"
  /\ ticker' = "range"
  /\ UNCHANGED <<count, caller, tick, granted>>

ClearLimitOnly ==
  /\ ticker = "clear"
  /\ count' = count - limit
  /\ granted' = 0
  /\ ticker' = "range"
  /\ UNCHANGED <<caller, tick>>

Clear ==
  /\ ticker = "clear"
  /\ resetCount
  /\ ticker' = "range"
  /\ UNCHANGED <<caller, tick>>

-----------------------------------------------------------------------------
Limit == Enter \/ Pass \/ Exceed \/ Park \/ Return

TickerLoop ==
  \/ TickReceived \/ ReadOver \/ Release \/ NobodyParked
  \/ ResetInDefault \/ ReadPositive \/ Clear

Next == Limit \/ Tick \/ TickerLoop

Spec == Init /\ [][Next]_vars

\* Both goroutines are scheduled and time passes. Enter is the caller's choice:
\* nothing obliges a worker to call Limit again.
Fairness ==
  /\ WF_vars(Pass \/ Exceed \/ Park \/ Return)
  /\ WF_vars(Tick)
  /\ WF_vars(TickerLoop)

FairSpec == Spec /\ Fairness

-----------------------------------------------------------------------------
(* Properties. *)

\* Between two resets of the counter Limit lets through at most two calls more
\* than the limit: one that had counted itself before the reset wiped its count
\* (lines 44, 64), and one that the ticker goroutine released (lines 28, 48).
RateBound == granted <= limit + 2

\* The counter never runs away: a caller over the limit parks, so at most three
\* increments go on top of the limit before the next reset (lines 44, 46, 49).
CountBound == count <= limit + 3

\* The caller is parked on lockCh, the counter has been reset under it and the
\* ticker goroutine is not on its way to a receive from lockCh.
Stuck == caller = "send" /\ count <= limit /\ ticker # "select"

\* A caller once stuck is stuck for good: the ticker goroutine only receives from
\* lockCh when it reads a counter over the limit, and the parked caller is the
\* only one that could count further (lines 26-28, 44, 48).
StuckForGood == [][Stuck => Stuck']_vars

\* A caller that is parked with the counter over the limit while the ticker
\* goroutine waits for its tick is released and returns (lines 25-28, 48-52).
ReleasedAtTick ==
  (caller = "send" /\ count > limit /\ ticker = "range") ~> (caller = "out")

\* A counter over the limit is always reset, so a worker that does come back is
\* served again at the full rate (lines 26-36).
OverLimitIsCleared == (count > limit) ~> (count = 0)

\* What lib/rate_limiter_test.go relies on: every call of Limit returns.
LimitReturns == (caller # "out") ~> (caller = "out")
=============================================================================
