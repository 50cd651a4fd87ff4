-------------------------- MODULE PublisherProofs ---------------------------
(***************************************************************************)
(* Publisher implements ServiceListing, and its types.                     *)
(***************************************************************************)
EXTENDS Publisher, TLAPS

\* Where the process is tells its standing: it is out until Register returns,
\* Heartbeat ends only when the service has left, and what was registered before
\* is found registered, or not at all.
StandingOfMain ==
  /\ main = "set" => standing = "out"
  /\ main \in {"swap", "free", "ended"} \cup Beating => standing # "out"
  /\ main = "registered" => standing # "left"
  /\ standing = "in" => main \in {"swap", "registered", "free"} \cup Beating
  /\ quit \/ unregister = "deleted" =>
       standing = "left" /\ main \in {"swap", "free", "ended"} \cup Beating
  /\ lastIndex # "zero" => standing # "out" /\ main \notin Dead \cup {"set"}

\* A service that is in has all of its TTL until the first tick, and half of it
\* then; one that left has no key.
TimeLeft ==
  /\ standing = "in" => ttl > 0
  /\ standing = "in" /\ main \in {"swap", "registered", "free", "wait"} => ttl = 2
  /\ main = "registered" => ttl = 2
  /\ standing = "left" => ttl = 0

\* What is on its way to etcd: the Set of a process that starts is alone, and an
\* answer is only awaited by a goroutine that is there. Until Register has
\* returned nobody knows the index of its key.
Traffic ==
  /\ \A q \in net : q.op = "set" =>
       /\ \A p \in net : p = q
       /\ standing = "out" /\ main \in Dead \cup {"set"}
       /\ q.awaited => main = "set"
  /\ \A q \in net : q.op = "swap" /\ q.awaited =>
       main = "swap" /\ \A p \in net : p.op = "swap" /\ p.awaited => p = q
  /\ \A q \in net : q.op = "refresh" /\ q.awaited => main = "refresh"
  /\ \A q \in net : q.op = "delete" /\ q.awaited => lastIndex # "zero"
  /\ main = "registered" => lastIndex # "current" /\ \A q \in net : ~q.current

IInv == TypeOK /\ StandingOfMain /\ TimeLeft /\ Traffic

-----------------------------------------------------------------------------
LEMMA OutdatedRequests ==
  ASSUME NEW S, S \subseteq Request
  PROVE  /\ Outdated(S) \subseteq Request
         /\ \A q \in Outdated(S) :
              /\ ~q.current
              /\ \E p \in S : p.op = q.op /\ p.awaited = q.awaited
         /\ \A p, q \in Outdated(S) : p.op = q.op /\ p.awaited = q.awaited => p = q
<1>1. Outdated(S) \subseteq Request
  BY DEF Outdated, Request
<1>2. \A q \in Outdated(S) : ~q.current /\ \E p \in S : p.op = q.op /\ p.awaited = q.awaited
  BY DEF Outdated, Request
<1>3. ASSUME NEW p \in Outdated(S), NEW q \in Outdated(S), p.op = q.op, p.awaited = q.awaited
      PROVE  p = q
  BY <1>1, <1>2, <1>3 DEF Request
<1> QED
  BY <1>1, <1>2, <1>3

LEMMA OrphanedRequests ==
  ASSUME NEW S, S \subseteq Request
  PROVE  /\ Orphans(S) \subseteq Request
         /\ \A q \in Orphans(S) :
              /\ ~q.awaited
              /\ \E p \in S : q = [p EXCEPT !.awaited = FALSE] /\ q.op = p.op /\ q.current = p.current
BY DEF Orphans, Request

LEMMA SentRequests ==
  \A op \in {"set", "swap", "refresh", "delete"} :
    /\ Sent(op) \in Request /\ Sent(op).op = op
    /\ SentWithIndex(op) \in Request /\ SentWithIndex(op).op = op
BY DEF Sent, SentWithIndex, Request

LEMMA TypeInit == Init => TypeOK
<1> SUFFICES ASSUME Init PROVE TypeOK
  OBVIOUS
<1>1. ttl \in 0 .. 2
  BY DEF Init
<1>2. quit \in BOOLEAN
  BY DEF Init
<1> QED
  BY <1>1, <1>2 DEF Init, TypeOK, Dead

LEMMA TypeNext == TypeOK /\ [Next]_vars => TypeOK'
<1> SUFFICES ASSUME TypeOK, [Next]_vars PROVE TypeOK'
  OBVIOUS
<1> USE DEF TypeOK, Dead, Beating
<1>1. CASE Start
  BY <1>1, SentRequests DEF Start
<1>2. CASE RegisterReturns \/ Heartbeat \/ Quits
  BY <1>2 DEF RegisterReturns, Heartbeat, Quits
<1>3. CASE Refreshes
  BY <1>3, SentRequests DEF Refreshes
<1>4. CASE MainTimesOut \/ Crash
  BY <1>4, OrphanedRequests DEF MainTimesOut, Crash, Dies
<1>5. CASE HalfPeriod
  BY <1>5 DEF HalfPeriod, Due
<1>6. CASE RegisterAgain \/ Unregister
  BY <1>6, SentRequests DEF RegisterAgain, Unregister
<1>7. CASE UnregisterStops
  BY <1>7 DEF UnregisterStops
<1>8. CASE DeleteTimesOut
  <2>1. Orphans({q \in net : q.op = "delete"}) \subseteq Request
    BY OrphanedRequests
  <2> QED
    BY <1>8, <2>1 DEF DeleteTimesOut
<1>9. ASSUME NEW q \in net, SetApplied(q) \/ SwapApplied(q) \/ DeleteApplied(q) PROVE TypeOK'
  <2>1. Outdated(net \ {q}) \subseteq Request
    BY OutdatedRequests
  <2> QED
    BY <1>9, <2>1 DEF SetApplied, SwapApplied, DeleteApplied, IndexChanges, Lifetime
<1>10. ASSUME NEW q \in net, Refused(q) PROVE TypeOK'
  <2>1. Orphans(net \ {q}) \subseteq Request
    BY OrphanedRequests
  <2> QED
    BY <1>10, <2>1 DEF Refused, Dies
<1>11. ASSUME NEW q \in net, DeleteRefused(q) \/ Lost(q) PROVE TypeOK'
  BY <1>11 DEF DeleteRefused, Lost
<1>12. CASE UNCHANGED vars
  BY <1>12 DEF vars
<1> QED
  BY <1>1, <1>2, <1>3, <1>4, <1>5, <1>6, <1>7, <1>8, <1>9, <1>10, <1>11, <1>12
     DEF Next, Main, Etcd, SwapRefused, RefreshRefused

\* One step per action; a step that leaves a part's variables alone leaves the
\* part alone.
LEMMA IInvNext == IInv /\ [Next]_vars => IInv'
<1> SUFFICES ASSUME IInv, [Next]_vars PROVE StandingOfMain' /\ TimeLeft' /\ Traffic'
  BY TypeNext DEF IInv
<1>a. TypeOK /\ StandingOfMain /\ TimeLeft /\ Traffic /\ TypeOK'
  BY TypeNext DEF IInv
<1>b. net \subseteq Request /\ ttl \in 0 .. 2
  BY <1>a DEF TypeOK
<1>c. IndexChanges => lastIndex' # "current" /\ (lastIndex' = "zero" <=> lastIndex = "zero")
  BY DEF IndexChanges
<1> USE DEF Dead, Beating
<1>1. CASE Start
  <2>1. /\ net' = {Sent("set")} /\ main' = "set" /\ standing' = "out"
        /\ quit' = quit /\ unregister' = unregister /\ lastIndex' = lastIndex /\ main \in Dead
    BY <1>1 DEF Start
  <2>2. Sent("set").op = "set" /\ Sent("set").awaited
    BY DEF Sent
  <2>3. StandingOfMain'
    BY <1>a, <2>1 DEF StandingOfMain
  <2>4. TimeLeft'
    BY <2>1 DEF TimeLeft
  <2>5. Traffic'
    BY <2>1, <2>2 DEF Traffic
  <2> QED
    BY <2>3, <2>4, <2>5
<1>2. ASSUME NEW q \in net, SetApplied(q) PROVE StandingOfMain' /\ TimeLeft' /\ Traffic'
  <2>1. /\ q.op = "set" /\ standing = "out" /\ main \in Dead \cup {"set"}
        /\ \A p \in net : p = q
        /\ q.awaited => main = "set"
    BY <1>a, <1>2 DEF SetApplied, Traffic
  <2>2. net' = {}
    BY <1>2, <2>1 DEF SetApplied, Outdated
  <2>3. /\ ttl' = 2 /\ standing' = "out" /\ quit' = quit /\ unregister' = unregister
        /\ main' \in Dead \cup {"set", "registered"}
        /\ lastIndex' = "zero"
    BY <1>a, <1>c, <1>2, <2>1 DEF SetApplied, Lifetime, StandingOfMain
  <2>4. StandingOfMain'
    BY <1>a, <2>1, <2>3 DEF StandingOfMain
  <2>5. TimeLeft'
    BY <2>3 DEF TimeLeft
  <2>6. Traffic'
    BY <2>2, <2>3 DEF Traffic
  <2> QED
    BY <2>4, <2>5, <2>6
<1>3. CASE RegisterReturns
  <2>1. /\ main = "registered" /\ main' = "free" /\ standing' = "in" /\ ttl = 2
        /\ lastIndex' = "current"
        /\ ~quit /\ unregister # "deleted" /\ \A q \in net : q.op # "set"
        /\ UNCHANGED <<ttl, net, quit, unregister>>
    BY <1>a, <1>3 DEF RegisterReturns, StandingOfMain, TimeLeft, Traffic
  <2>2. StandingOfMain'
    BY <1>a, <2>1 DEF StandingOfMain
  <2>3. Traffic'
    BY <1>a, <2>1 DEF Traffic
  <2> QED
    BY <2>1, <2>2, <2>3 DEF TimeLeft
<1>4. CASE HalfPeriod
  <2>1. /\ main \in Dead \cup {"wait", "ended"}
        /\ UNCHANGED <<net, unregister, quit, standing, lastIndex>>
        /\ ttl' = IF ttl \in 1 .. 2 THEN ttl - 1 ELSE ttl
        /\ main' = IF main = "wait" /\ Due(ttl') THEN "tick" ELSE main
    BY <1>4 DEF HalfPeriod
  <2>2. ttl = 2 => ttl' = 1 /\ Due(ttl')
    BY <2>1 DEF Due
  <2>3. StandingOfMain'
    BY <1>a, <2>1 DEF StandingOfMain
  <2>4. standing = "in" => main = "wait" /\ main' = "tick" /\ ttl' = 1
    BY <1>a, <2>1, <2>2 DEF TimeLeft, StandingOfMain
  <2>5. standing = "left" => ttl' = 0
    BY <1>a, <2>1 DEF TimeLeft
  <2>6. TimeLeft'
    BY <2>1, <2>4, <2>5 DEF TimeLeft
  <2>7. Traffic'
    BY <1>a, <2>1 DEF Traffic
  <2> QED
    BY <2>3, <2>6, <2>7
<1>5. CASE Quits
  <2>1. /\ main = "tick" /\ quit /\ main' = "ended" /\ ~quit' /\ standing = "left"
        /\ UNCHANGED <<ttl, net, unregister, lastIndex, standing>>
    BY <1>a, <1>5 DEF Quits, StandingOfMain
  <2> QED
    BY <1>a, <2>1 DEF StandingOfMain, TimeLeft, Traffic
<1>6. CASE Heartbeat
  <2>1. /\ main = "free" /\ main' = "wait"
        /\ UNCHANGED <<ttl, net, unregister, lastIndex, quit, standing>>
    BY <1>6 DEF Heartbeat
  <2> QED
    BY <1>a, <2>1 DEF StandingOfMain, TimeLeft, Traffic
<1>7. ASSUME NEW q, q.op = "swap" \/ q.op = "refresh" \/ q.op = "delete", net' = net \cup {q},
             main \notin Dead \cup {"set"}, main' = main \/ main' \in {"swap", "refresh"},
             main' # main => main # "swap" /\ main # "refresh",
             q.op = "swap" => main' = "swap" /\ main # "swap", q.op = "refresh" => main' = "refresh",
             q.op = "delete" => lastIndex # "zero", lastIndex' = lastIndex,
             main' = "registered" => main = "registered" /\ ~q.current
      PROVE  Traffic'
  <2>1. \A p \in net : p.op # "set"
    BY <1>a, <1>7 DEF Traffic
  <2> QED
    BY <1>a, <1>7, <2>1 DEF Traffic
<1>8. CASE Refreshes
  <2>1. /\ main = "tick" /\ main' = "refresh" /\ net' = net \cup {Sent("refresh")}
        /\ UNCHANGED <<ttl, unregister, lastIndex, quit, standing>>
    BY <1>8 DEF Refreshes
  <2>2. Traffic'
    BY <1>7, <2>1, SentRequests
  <2> QED
    BY <1>a, <2>1, <2>2 DEF StandingOfMain, TimeLeft
<1>9. CASE RegisterAgain
  <2>1. /\ main \in {"free", "ended"} /\ main' = "swap" /\ net' = net \cup {SentWithIndex("swap")}
        /\ UNCHANGED <<ttl, unregister, lastIndex, quit, standing>>
    BY <1>9 DEF RegisterAgain
  <2>2. Traffic'
    BY <1>7, <2>1, SentRequests
  <2> QED
    BY <1>a, <2>1, <2>2 DEF StandingOfMain, TimeLeft
<1>10. CASE Unregister
  <2>1. /\ lastIndex # "zero" /\ unregister' = "delete" /\ net' = net \cup {SentWithIndex("delete")}
        /\ UNCHANGED <<ttl, main, lastIndex, quit, standing>>
    BY <1>10 DEF Unregister
  <2>2. main \notin Dead \cup {"set"} /\ (main = "registered" => ~SentWithIndex("delete").current)
    BY <1>a, <2>1 DEF StandingOfMain, Traffic, SentWithIndex, Sent
  <2>3. Traffic'
    BY <1>7, <2>1, <2>2, SentRequests
  <2> QED
    BY <1>a, <2>1, <2>3 DEF StandingOfMain, TimeLeft
<1>11. ASSUME NEW q \in net, SwapApplied(q) PROVE StandingOfMain' /\ TimeLeft' /\ Traffic'
  <2>1. /\ q.op = "swap" /\ ttl > 0 /\ ttl' = 2 /\ net' = Outdated(net \ {q})
        /\ UNCHANGED <<unregister, quit, standing>>
        /\ main' = IF q.awaited THEN "registered" ELSE main
        /\ q.awaited => main = "swap"
        /\ lastIndex' # "current" /\ (lastIndex' = "zero" <=> lastIndex = "zero")
    BY <1>a, <1>c, <1>11 DEF SwapApplied, Fits, Lifetime, Traffic
  <2>2. standing # "left" /\ (q.awaited => standing = "in")
    BY <1>a, <2>1 DEF TimeLeft, StandingOfMain, TypeOK
  <2>3. \A r \in net' : ~r.current /\ \E p \in net : p # q /\ p.op = r.op /\ p.awaited = r.awaited
    BY <1>b, <2>1, OutdatedRequests
  <2>4. \A r \in net : r.op # "set"
    BY <1>a, <2>1 DEF Traffic
  <2>5. StandingOfMain'
    BY <1>a, <2>1, <2>2 DEF StandingOfMain
  <2>6. TimeLeft'
    BY <1>a, <2>1, <2>2 DEF TimeLeft
  <2>7. Traffic'
    <3>1. \A r \in net' : r.op # "set" /\ (r.op = "delete" /\ r.awaited => lastIndex' # "zero")
      BY <1>a, <2>1, <2>3, <2>4 DEF Traffic
    <3>2. ASSUME q.awaited, NEW r \in net', r.awaited PROVE r.op \notin {"swap", "refresh"}
      <4>1. PICK p \in net : p # q /\ p.op = r.op /\ p.awaited
        BY <2>3, <3>2
      <4>2. p.op # "refresh"
        BY <1>a, <2>1, <3>2, <4>1 DEF Traffic
      <4>3. ASSUME p.op = "swap" PROVE FALSE
        BY <1>a, <2>1, <3>2, <4>1, <4>3 DEF Traffic
      <4> QED
        BY <4>1, <4>2, <4>3
    <3>5. \A r \in net' : ~r.current
      BY <2>3
    <3>3. CASE q.awaited
      BY <2>1, <3>1, <3>2, <3>3, <3>5 DEF Traffic
    <3>4. CASE ~q.awaited
      <4>1. main' = main
        BY <2>1, <3>4
      <4>2. \A r \in net' : r.awaited => (r.op = "swap" => main = "swap") /\ (r.op = "refresh" => main = "refresh")
        BY <1>a, <2>3 DEF Traffic
      <4>3. \A r1, r2 \in net' : r1.op = r2.op /\ r1.awaited = r2.awaited => r1 = r2
        BY <1>b, <2>1, OutdatedRequests
      <4> QED
        BY <2>1, <3>1, <3>5, <4>1, <4>2, <4>3 DEF Traffic
    <3> QED
      BY <3>3, <3>4
  <2> QED
    BY <2>5, <2>6, <2>7
<1>12. ASSUME NEW S, S \subseteq net, main \notin Dead,
             main' \in Dead, net' = Orphans(S), unregister' = "idle", ~quit', lastIndex' = "zero",
             standing' = (IF standing = "in" THEN "out" ELSE standing), ttl' = ttl
      PROVE  StandingOfMain' /\ TimeLeft' /\ Traffic'
  <2>1. /\ main' \notin Beating \cup {"set", "swap", "registered", "free", "ended"}
        /\ standing' # "in"
    BY <1>12
  <2>2. \A r \in net' : ~r.awaited /\ \E p \in net : r = [p EXCEPT !.awaited = FALSE] /\ r.op = p.op
    BY <1>b, <1>12, OrphanedRequests
  <2>3. StandingOfMain'
    BY <1>12, <2>1 DEF StandingOfMain
  <2>4. TimeLeft'
    BY <1>a, <1>12, <2>1 DEF TimeLeft
  <2>5. Traffic'
    <3>1. \A r \in net' : r.op = "set" => standing' = "out" /\ \A p \in net' : p = r
      <4> SUFFICES ASSUME NEW r \in net', r.op = "set", NEW p \in net'
                   PROVE  standing' = "out" /\ p = r
        OBVIOUS
      <4>1. PICK r0 \in net : r = [r0 EXCEPT !.awaited = FALSE] /\ r0.op = "set"
        BY <2>2
      <4>2. PICK p0 \in net : p = [p0 EXCEPT !.awaited = FALSE]
        BY <2>2
      <4>3. p0 = r0 /\ standing = "out"
        BY <1>a, <4>1 DEF Traffic
      <4> QED
        BY <1>12, <4>1, <4>2, <4>3
    <3> QED
      BY <1>a, <1>12, <2>1, <2>2, <3>1 DEF Traffic
  <2> QED
    BY <2>3, <2>4, <2>5
<1>13. CASE MainTimesOut \/ Crash
  BY <1>12, <1>13 DEF MainTimesOut, Crash, Dies
<1>14. ASSUME NEW q \in net, q.op \in {"swap", "refresh"}, Refused(q)
       PROVE  StandingOfMain' /\ TimeLeft' /\ Traffic'
  <2>1. CASE q.awaited
    <3>1. main \in {"swap", "refresh"}
      BY <1>a, <1>14, <2>1 DEF Traffic
    <3> QED
      BY <1>12, <1>14, <2>1, <3>1 DEF Refused, Dies
  <2>2. CASE ~q.awaited
    <3>1. net' = net \ {q} /\ UNCHANGED <<ttl, main, unregister, lastIndex, quit, standing>>
      BY <1>14, <2>2 DEF Refused
    <3> QED
      BY <1>a, <3>1 DEF StandingOfMain, TimeLeft, Traffic
  <2> QED
    BY <2>1, <2>2
<1>15. ASSUME NEW q \in net, SwapRefused(q) \/ RefreshRefused(q)
       PROVE  StandingOfMain' /\ TimeLeft' /\ Traffic'
  BY <1>14, <1>15 DEF SwapRefused, RefreshRefused
<1>16. ASSUME NEW q \in net, DeleteApplied(q) PROVE StandingOfMain' /\ TimeLeft' /\ Traffic'
  <2>1. /\ q.op = "delete" /\ ttl > 0 /\ ttl' = 0 /\ net' = Outdated(net \ {q})
        /\ q.current
        /\ unregister' = IF q.awaited THEN "deleted" ELSE unregister
        /\ standing' = IF standing = "in" THEN "left" ELSE standing
        /\ UNCHANGED <<main, quit>>
        /\ lastIndex' # "current" /\ (lastIndex' = "zero" <=> lastIndex = "zero")
    BY <1>c, <1>16 DEF DeleteApplied, Fits
  <2>2. standing # "left"
    BY <1>a, <2>1 DEF TimeLeft
  <2>0. main # "registered"
    BY <1>a, <2>1 DEF Traffic
  <2>3. q.awaited => lastIndex # "zero" /\ standing = "in" /\ main \in {"swap", "free"} \cup Beating
    BY <1>a, <2>0, <2>1, <2>2 DEF Traffic, StandingOfMain, TypeOK
  <2>4. \A r \in net' : ~r.current /\ \E p \in net : p.op = r.op /\ p.awaited = r.awaited
    BY <1>b, <2>1, OutdatedRequests
  <2>5. \A r \in net : r.op # "set"
    BY <1>a, <2>1 DEF Traffic
  <2>6. StandingOfMain'
    BY <1>a, <2>0, <2>1, <2>2, <2>3 DEF StandingOfMain
  <2>7. TimeLeft'
    BY <1>a, <2>0, <2>1, <2>2 DEF TimeLeft
  <2>8. Traffic'
    <3>1. \A r \in net' : r.op # "set"
      BY <2>4, <2>5
    <3>2. \A r1, r2 \in net' : r1.op = r2.op /\ r1.awaited = r2.awaited => r1 = r2
      BY <1>b, <2>1, OutdatedRequests
    <3>3. \A r \in net' : r.awaited =>
            /\ r.op = "swap" => main = "swap"
            /\ r.op = "refresh" => main = "refresh"
            /\ r.op = "delete" => lastIndex # "zero"
      BY <1>a, <2>4 DEF Traffic
    <3>4. \A r \in net' : ~r.current
      BY <2>4
    <3> QED
      BY <2>1, <3>1, <3>2, <3>3, <3>4 DEF Traffic
  <2> QED
    BY <2>6, <2>7, <2>8
<1>17. ASSUME NEW q \in net, DeleteRefused(q) \/ Lost(q) PROVE StandingOfMain' /\ TimeLeft' /\ Traffic'
  <2>1. /\ net' = net \ {q} /\ UNCHANGED <<ttl, main, quit, standing, lastIndex>>
        /\ unregister' \in {unregister, "idle"}
    BY <1>17 DEF DeleteRefused, Lost
  <2> QED
    BY <1>a, <2>1 DEF StandingOfMain, TimeLeft, Traffic
<1>18. CASE UnregisterStops
  <2>1. /\ unregister = "deleted" /\ unregister' = "done" /\ UNCHANGED <<ttl, net, main, standing>>
        /\ lastIndex' = "old"
    BY <1>18 DEF UnregisterStops
  <2> QED
    BY <1>a, <2>1 DEF StandingOfMain, TimeLeft, Traffic
<1>19. CASE DeleteTimesOut
  <2>1. /\ unregister' = "idle" /\ UNCHANGED <<ttl, main, quit, standing, lastIndex>>
        /\ net' = {q \in net : q.op # "delete"} \cup Orphans({q \in net : q.op = "delete"})
    BY <1>19 DEF DeleteTimesOut
  <2>2. \A r \in net' :
          \/ r \in net
          \/ r.op = "delete" /\ ~r.awaited /\ \E p \in net : p.op = "delete" /\ p.current = r.current
    <3>1. {q \in net : q.op = "delete"} \subseteq Request
      BY <1>b
    <3>2. \A r \in Orphans({q \in net : q.op = "delete"}) :
            ~r.awaited /\ \E p \in net : p.op = "delete" /\ r.op = p.op /\ r.current = p.current
      BY <3>1, OrphanedRequests
    <3> QED
      BY <2>1, <3>2
  <2>3. (\E p \in net : p.op = "delete") => \A p \in net : p.op # "set"
    BY <1>a DEF Traffic
  <2>4. Traffic'
    BY <1>a, <2>1, <2>2, <2>3 DEF Traffic
  <2> QED
    BY <1>a, <2>1, <2>4 DEF StandingOfMain, TimeLeft
<1>20. CASE UNCHANGED vars
  BY <1>a, <1>20 DEF vars, StandingOfMain, TimeLeft, Traffic
<1> QED
  BY <1>1, <1>2, <1>3, <1>4, <1>5, <1>6, <1>8, <1>9, <1>10, <1>11, <1>13, <1>15, <1>16, <1>17, <1>18, <1>19, <1>20
     DEF Next, Main, Etcd

\* The types of the model, in every reachable state.
THEOREM TypeCorrect == Spec => []TypeOK
BY TypeInit, TypeNext, PTL DEF Spec

THEOREM Invariance == Spec => []IInv
<1>1. Init => IInv
  <2> SUFFICES ASSUME Init PROVE IInv
    OBVIOUS
  <2>1. /\ ttl = 0 /\ net = {} /\ main = "down" /\ unregister = "idle"
        /\ lastIndex = "zero" /\ quit = FALSE /\ standing = "out"
    BY DEF Init
  <2> QED
    BY <2>1, TypeInit DEF IInv, StandingOfMain, TimeLeft, Traffic, Dead, Beating
<1> QED
  BY <1>1, IInvNext, PTL DEF Spec

\* Whatever is lost, late or refused, and whenever the process dies, the key is
\* there while the service is in, and not there once it has left (etcd.go:57-113).
THEOREM Implements == Spec => ImplementsListing
<1>1. Init => Listing!Init
  BY DEF Init, Listing!Init
<1>2. IInv /\ [Next]_vars => [Listing!Next]_<<standing, ttl > 0>>
  <2> SUFFICES ASSUME IInv, [Next]_vars PROVE [Listing!Next]_<<standing, ttl > 0>>
    OBVIOUS
  <2>a. TypeOK /\ StandingOfMain /\ TimeLeft /\ Traffic
    BY DEF IInv
  <2>b. ttl \in 0 .. 2 /\ standing \in {"out", "in", "left"}
    BY <2>a DEF TypeOK
  <2> USE DEF Listing!Next
  <2>1. CASE Start
    <3>1. standing' = "out" /\ ttl' = ttl /\ standing # "in"
      BY <2>a, <2>1 DEF Start, StandingOfMain, Dead, Beating
    <3> QED
      BY <2>b, <3>1 DEF Listing!Return
  <2>2. ASSUME NEW q \in net, SetApplied(q) PROVE [Listing!Next]_<<standing, ttl > 0>>
    <3>1. standing = "out" /\ standing' = standing /\ ttl' = 2
      BY <2>a, <2>2 DEF SetApplied, Traffic, Lifetime
    <3> QED
      BY <3>1 DEF Listing!Appear
  <2>3. CASE RegisterReturns
    <3>1. standing # "left" /\ standing' = "in" /\ ttl' = ttl /\ ttl = 2
      BY <2>a, <2>3 DEF RegisterReturns, StandingOfMain, TimeLeft
    <3> QED
      BY <2>b, <3>1 DEF Listing!Join
  <2>4. CASE HalfPeriod
    <3>1. standing' = standing /\ ttl' = IF ttl \in 1 .. 2 THEN ttl - 1 ELSE ttl
      BY <2>4 DEF HalfPeriod
    <3>2. standing = "in" => ttl = 2
      BY <2>a, <2>4 DEF HalfPeriod, StandingOfMain, TimeLeft, Dead, Beating
    <3>3. standing = "left" => ttl = 0
      BY <2>a DEF TimeLeft
    <3> QED
      BY <2>b, <3>1, <3>2, <3>3 DEF Listing!Vanish
  <2>5. ASSUME NEW q \in net, SwapApplied(q) PROVE [Listing!Next]_<<standing, ttl > 0>>
    <3>1. standing' = standing /\ ttl' = 2 /\ ttl > 0
      BY <2>5 DEF SwapApplied, Fits, Lifetime
    <3> QED
      BY <3>1
  <2>6. ASSUME NEW q \in net, DeleteApplied(q) PROVE [Listing!Next]_<<standing, ttl > 0>>
    <3>1. /\ ttl > 0 /\ ttl' = 0
          /\ standing' = IF standing = "in" THEN "left" ELSE standing
      BY <2>6 DEF DeleteApplied, Fits
    <3>2. standing # "left"
      BY <2>a, <3>1 DEF TimeLeft
    <3> QED
      BY <2>b, <3>1, <3>2 DEF Listing!Leave, Listing!Vanish
  <2>7. CASE standing' = (IF standing = "in" THEN "out" ELSE standing) /\ ttl' = ttl
    BY <2>7 DEF Listing!Die
  <2>8. CASE MainTimesOut \/ Crash
    BY <2>7, <2>8 DEF MainTimesOut, Crash, Dies
  <2>9. CASE UNCHANGED <<standing, ttl>>
    BY <2>9
  <2>10. CASE \/ RegisterAgain \/ Heartbeat \/ Quits \/ Refreshes
              \/ Unregister \/ UnregisterStops \/ DeleteTimesOut
    BY <2>9, <2>10 DEF RegisterAgain, Heartbeat, Quits, Refreshes, Unregister, UnregisterStops,
                       DeleteTimesOut
  <2>11. ASSUME NEW q \in net, SwapRefused(q) \/ RefreshRefused(q)
         PROVE  [Listing!Next]_<<standing, ttl > 0>>
    BY <2>7, <2>9, <2>11 DEF SwapRefused, RefreshRefused, Refused, Dies
  <2>13. ASSUME NEW q \in net, DeleteRefused(q) \/ Lost(q) PROVE [Listing!Next]_<<standing, ttl > 0>>
    BY <2>9, <2>13 DEF DeleteRefused, Lost
  <2>12. CASE UNCHANGED vars
    BY <2>9, <2>12 DEF vars
  <2> QED
    BY <2>1, <2>2, <2>3, <2>4, <2>5, <2>6, <2>8, <2>10, <2>11, <2>12, <2>13 DEF Next, Main, Etcd
<1> QED
  BY <1>1, <1>2, Invariance, PTL DEF Spec, ImplementsListing, Listing!Spec
=============================================================================
