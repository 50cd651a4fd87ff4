------------------------- MODULE RateLimiterProofs -------------------------
(***************************************************************************)
(* Proofs about RateLimiter: for every limit, the bounds on the counter    *)
(* and on the calls let through between two resets, and that a caller      *)
(* whose wake-up was lost never returns.                                   *)
(***************************************************************************)
EXTENDS RateLimiter, TLAPS

\* The ticker goroutine has left its first if statement and is about to reset
\* a counter it finds positive.
AboutToClear == ticker \in {"positive", "clear"}

\* What the counter and the history may be, by where the caller is. A released
\* caller is the only one that counts twice, and until the reset that follows
\* its release the ticker goroutine is AboutToClear.
Ahead ==
  /\ caller = "out" =>
       /\ granted <= count + 1
       /\ count <= limit + 2
       /\ ~AboutToClear => count <= limit
  /\ caller \in {"check", "exceeds", "send"} =>
       /\ granted <= count
       /\ count <= limit + 3
       /\ ~AboutToClear => count <= limit + 1
  /\ caller = "woken" =>
       /\ granted <= count
       /\ count <= limit + 1
       /\ ~AboutToClear => count = 0

IInv == TypeOK /\ RateBound /\ Ahead

\* IInv holds in the initial state.
LEMMA InitIInv == Init => IInv
<1> SUFFICES ASSUME Init PROVE IInv
  OBVIOUS
<1> USE LimitAssumption DEF Init
<1>1. limit \in Nat /\ limit # 0
  BY DEF LimitAssumption
<1>2. TypeOK
  BY DEF TypeOK, CallerPC, TickerPC
<1>3. RateBound
  BY <1>1 DEF RateBound
<1>4. Ahead
  BY <1>1 DEF Ahead
<1> QED
  BY <1>2, <1>3, <1>4 DEF IInv

\* IInv is preserved by every step of the caller, the clock and the ticker.
LEMMA NextIInv == IInv /\ [Next]_vars => IInv'
<1> SUFFICES ASSUME IInv, [Next]_vars PROVE IInv'
  OBVIOUS
<1> USE LimitAssumption DEF LimitAssumption, IInv, TypeOK, RateBound, Ahead, AboutToClear, CallerPC, TickerPC
<1>1. CASE Enter   BY <1>1 DEF Enter
<1>2. CASE Pass    BY <1>2 DEF Pass
<1>3. CASE Exceed  BY <1>3 DEF Exceed
<1>4. CASE Park    BY <1>4 DEF Park
<1>5. CASE Return  BY <1>5 DEF Return
<1>6. CASE Tick    BY <1>6 DEF Tick
<1>7. CASE TickReceived    BY <1>7 DEF TickReceived
<1>8. CASE ReadOver        BY <1>8 DEF ReadOver
<1>9. CASE Release         BY <1>9 DEF Release
<1>10. CASE NobodyParked   BY <1>10 DEF NobodyParked
<1>11. CASE ResetInDefault BY <1>11 DEF ResetInDefault, resetCount
<1>12. CASE ReadPositive   BY <1>12 DEF ReadPositive
<1>13. CASE Clear          BY <1>13 DEF Clear, resetCount
<1>14. CASE UNCHANGED vars BY <1>14 DEF vars
<1> QED
  BY <1>1, <1>2, <1>3, <1>4, <1>5, <1>6, <1>7, <1>8, <1>9, <1>10, <1>11, <1>12,
     <1>13, <1>14 DEF Next, Limit, TickerLoop

\* IInv is an invariant of the specification.
LEMMA Invariance == Spec => []IInv
  BY InitIInv, NextIInv, PTL DEF Spec

\* The variables keep their types.
THEOREM TypeCorrect == Spec => []TypeOK
<1>1. IInv => TypeOK
  BY DEF IInv
<1> QED
  BY <1>1, Invariance, PTL

\* Between two resets Limit lets through at most limit + 2 calls.
THEOREM RateIsBounded == Spec => []RateBound
<1>1. IInv => RateBound
  BY DEF IInv
<1> QED
  BY <1>1, Invariance, PTL

\* The counter stays within three of the limit.
THEOREM CountIsBounded == Spec => []CountBound
<1>1. IInv => CountBound
  BY LimitAssumption DEF LimitAssumption, IInv, TypeOK, Ahead, CountBound, CallerPC
<1> QED
  BY <1>1, Invariance, PTL

\* A caller parked under a counter that was reset stays parked: the lost wake-up
\* of lines 26-30 is permanent, whatever the limit.
THEOREM LostWakeupIsPermanent == Spec => StuckForGood
<1>1. TypeOK /\ [Next]_vars => [Stuck => Stuck']_vars
  <2> SUFFICES ASSUME TypeOK, Next, Stuck PROVE Stuck'
    BY DEF Stuck, vars
  <2> USE LimitAssumption DEF LimitAssumption, TypeOK, Stuck
  <2>1. CASE Limit
    BY <2>1 DEF Limit, Enter, Pass, Exceed, Park, Return
  <2>2. CASE Tick
    BY <2>2 DEF Tick
  <2>3. CASE TickerLoop
    BY <2>3 DEF TickerLoop, TickReceived, ReadOver, Release, NobodyParked,
                ResetInDefault, ReadPositive, Clear, resetCount
  <2> QED
    BY <2>1, <2>2, <2>3 DEF Next
<1> QED
  BY <1>1, TypeCorrect, PTL DEF Spec, StuckForGood
=============================================================================
