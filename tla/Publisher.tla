----------------------------- MODULE Publisher ------------------------------
(***************************************************************************)
(* publisher/etcd.go: a process registers its service under a key of etcd  *)
(* that lives for a TTL, calls Heartbeat, which is to refresh it, and      *)
(* removes it in Unregister, which another goroutine calls meanwhile, as   *)
(* etcd_test.go does.  It may register the service again, before Heartbeat *)
(* or after it.  The process may die and be started again.                 *)
(*                                                                         *)
(* Heartbeat sends the service's value with Refresh set.  etcd takes no    *)
(* value with a refresh and answers with an error, and line 109 reads the  *)
(* answer that is nil then: no refresh is ever applied, and a Heartbeat    *)
(* that ticks before Unregister has returned ends its process.             *)
(*                                                                         *)
(* Requests reach etcd in any order, late, or never; a caller gives up on  *)
(* an answer that is late.  An index of etcd only serves for comparison    *)
(* with the key's modified index, so it is "current" or not.  Time is      *)
(* counted in halves of the TTL.  Three things are assumed of it: a call   *)
(* that Register and Heartbeat wait for takes less than half the TTL (the  *)
(* client waits for a second), the program does not tarry between them,    *)
(* and what a dead process sent has arrived or is lost before the process  *)
(* is started again.  A program whose Register fails ends, as etcd_test.go *)
(* does.                                                                   *)
(***************************************************************************)
EXTENDS Naturals

VARIABLES
  ttl,         \* halves of the TTL the key has left, 0 if there is no key
  net,         \* the requests on their way to etcd
  main,        \* the goroutine that calls Register and Heartbeat
  unregister,  \* the goroutine that calls Unregister
  lastIndex,   \* Service.lastIndex
  quit,        \* whether Service.quit, of capacity one, holds a signal
  standing     \* history: whether the service is out, in, or left

vars == <<ttl, net, main, unregister, lastIndex, quit, standing>>

\* "set", "swap" and "refresh": a call is not answered yet; "registered": it is;
\* "free": Register has returned; "wait" is Heartbeat before a tick, "tick" after
\* it, and "ended" when it has returned.
Dead == {"down", "panicked"}
Beating == {"wait", "tick", "refresh"}

\* A Set with a PrevIndex, which is a "swap", and a Delete ask for the index that
\* is current or for an older one.
Request == [op : {"set", "swap", "refresh", "delete"}, current : BOOLEAN, awaited : BOOLEAN]
Sent(op) == [op |-> op, current |-> FALSE, awaited |-> TRUE]
SentWithIndex(op) == [Sent(op) EXCEPT !.current = (lastIndex = "current")]

TypeOK ==
  /\ ttl \in 0 .. 2
  /\ net \subseteq Request
  /\ main \in Dead \cup Beating \cup {"set", "swap", "registered", "free", "ended"}
  /\ unregister \in {"idle", "delete", "deleted", "done"}
  /\ lastIndex \in {"zero", "current", "old"}
  /\ quit \in BOOLEAN
  /\ standing \in {"out", "in", "left"}

Init ==
  /\ ttl = 0
  /\ net = {}
  /\ main = "down"
  /\ unregister = "idle"
  /\ lastIndex = "zero"
  /\ quit = FALSE
  /\ standing = "out"

\* Mutant of Lifetime: a key that does not expire.
NoLifetime == 3

\* The TTL in the options of Register and Heartbeat.
Lifetime == 2

\* The key was modified: what was its index no longer is.
Outdated(requests) == {[q EXCEPT !.current = FALSE] : q \in requests}
IndexChanges == lastIndex' = IF lastIndex = "current" THEN "old" ELSE lastIndex

\* Nobody waits for the answers to these requests any longer.
Orphans(requests) == {[q EXCEPT !.awaited = FALSE] : q \in requests}

-----------------------------------------------------------------------------
(* Register. *)

\* A process starts, with a new Service.
Start ==
  /\ main \in Dead
  /\ net = {}
  /\ main' = "set"
  /\ net' = {Sent("set")}
  /\ standing' = "out"
  /\ UNCHANGED <<ttl, unregister, lastIndex, quit>>

\* The same Service is registered again.
RegisterAgain ==
  /\ main \in {"free", "ended"}
  /\ main' = "swap"
  /\ net' = net \cup {SentWithIndex("swap")}
  /\ UNCHANGED <<ttl, unregister, lastIndex, quit, standing>>

SetApplied(q) ==
  /\ q.op = "set"
  /\ ttl' = Lifetime
  /\ net' = Outdated(net \ {q})
  /\ IndexChanges
  /\ main' = IF q.awaited THEN "registered" ELSE main
  /\ UNCHANGED <<unregister, quit, standing>>

\* There is a key, and it has the index.
Fits(q) == q.current /\ ttl > 0

SwapApplied(q) ==
  /\ q.op = "swap" /\ Fits(q)
  /\ ttl' = Lifetime
  /\ net' = Outdated(net \ {q})
  /\ IndexChanges
  /\ main' = IF q.awaited THEN "registered" ELSE main
  /\ UNCHANGED <<unregister, quit, standing>>

\* A process that dies leaves the key, and these requests on their way.
Dies(how, requests) ==
  /\ main' = how
  /\ net' = Orphans(requests)
  /\ unregister' = "idle" /\ lastIndex' = "zero" /\ quit' = FALSE
  /\ standing' = IF standing = "in" THEN "out" ELSE standing

\* The answer is an error, which ends the process of whoever waits for it.
Refused(q) ==
  /\ IF q.awaited
     THEN Dies("panicked", net \ {q})
     ELSE net' = net \ {q} /\ UNCHANGED <<main, unregister, lastIndex, quit, standing>>
  /\ UNCHANGED ttl

\* The key is gone, as it is after Unregister, or was modified.
SwapRefused(q) == q.op = "swap" /\ ~Fits(q) /\ Refused(q)

RegisterReturns ==
  /\ main = "registered"
  /\ lastIndex' = "current"
  /\ main' = "free"
  /\ standing' = "in"
  /\ UNCHANGED <<ttl, net, unregister, quit>>

-----------------------------------------------------------------------------
(* Heartbeat. *)

Heartbeat ==
  /\ main = "free"
  /\ main' = "wait"
  /\ UNCHANGED <<ttl, net, unregister, lastIndex, quit, standing>>

\* Mutant of Due: the ticker of the comment, "every {ttl} seconds".
DueAtTTL(left) == left = 0

\* Half the TTL after Register the ticker ticks.
Due(left) == left <= 1

\* Half a TTL passes.
HalfPeriod ==
  /\ main \in Dead \cup {"wait", "ended"}
  /\ ttl' = IF ttl \in 1 .. 2 THEN ttl - 1 ELSE ttl
  /\ main' = IF main = "wait" /\ Due(ttl') THEN "tick" ELSE main
  /\ UNCHANGED <<net, unregister, lastIndex, quit, standing>>

\* Mutant of Quits: the signal is left alone, and Heartbeat goes on.
QuitsNot ==
  /\ main = "tick" /\ quit
  /\ main' = "refresh"
  /\ net' = net \cup {Sent("refresh")}
  /\ UNCHANGED <<ttl, unregister, lastIndex, quit, standing>>

Quits ==
  /\ main = "tick" /\ quit
  /\ quit' = FALSE
  /\ main' = "ended"
  /\ UNCHANGED <<ttl, net, unregister, lastIndex, standing>>

Refreshes ==
  /\ main = "tick" /\ ~quit
  /\ main' = "refresh"
  /\ net' = net \cup {Sent("refresh")}
  /\ UNCHANGED <<ttl, unregister, lastIndex, quit, standing>>

\* The refresh carries a value, which etcd does not take. Heartbeat logs the error
\* and reads the answer, nil.
RefreshRefused(q) == q.op = "refresh" /\ Refused(q)

-----------------------------------------------------------------------------
(* Unregister. *)

\* Once Register has returned.
Unregister ==
  /\ unregister = "idle"
  /\ lastIndex # "zero"
  /\ unregister' = "delete"
  /\ net' = net \cup {SentWithIndex("delete")}
  /\ UNCHANGED <<ttl, main, lastIndex, quit, standing>>

DeleteApplied(q) ==
  /\ q.op = "delete" /\ Fits(q)
  /\ ttl' = 0
  /\ net' = Outdated(net \ {q})
  /\ IndexChanges
  /\ unregister' = IF q.awaited THEN "deleted" ELSE unregister
  /\ standing' = IF standing = "in" THEN "left" ELSE standing
  /\ UNCHANGED <<main, quit>>

\* The key is gone or was modified: the caller gets an error and may try again.
DeleteRefused(q) ==
  /\ q.op = "delete" /\ ~Fits(q)
  /\ net' = net \ {q}
  /\ unregister' = IF q.awaited THEN "idle" ELSE unregister
  /\ UNCHANGED <<ttl, main, lastIndex, quit, standing>>

\* SetIndex and Stop.
UnregisterStops ==
  /\ unregister = "deleted" /\ ~quit
  /\ lastIndex' = "old"
  /\ quit' = TRUE
  /\ unregister' = "done"
  /\ UNCHANGED <<ttl, net, main, standing>>

-----------------------------------------------------------------------------
(* Failures. *)

Lost(q) ==
  /\ net' = net \ {q}
  /\ UNCHANGED <<ttl, main, unregister, lastIndex, quit, standing>>

\* Unregister gives up on its answer.
DeleteTimesOut ==
  /\ unregister = "delete"
  /\ unregister' = "idle"
  /\ net' = {q \in net : q.op # "delete"} \cup Orphans({q \in net : q.op = "delete"})
  /\ UNCHANGED <<ttl, main, lastIndex, quit, standing>>

\* Register gives up, and the program with it; Heartbeat gives up, and panics.
MainTimesOut ==
  /\ main \in {"set", "swap", "refresh"}
  /\ Dies("panicked", net)
  /\ UNCHANGED ttl

Crash ==
  /\ main \notin Dead
  /\ Dies("down", net)
  /\ UNCHANGED ttl

-----------------------------------------------------------------------------
Etcd(q) ==
  \/ SetApplied(q) \/ SwapApplied(q) \/ SwapRefused(q) \/ RefreshRefused(q)
  \/ DeleteApplied(q) \/ DeleteRefused(q)

Main == RegisterReturns \/ Heartbeat \/ Quits \/ Refreshes \/ MainTimesOut

Next ==
  \/ Start \/ RegisterAgain \/ Main \/ HalfPeriod \/ Crash
  \/ Unregister \/ UnregisterStops \/ DeleteTimesOut
  \/ \E q \in net : Etcd(q) \/ Lost(q)

Spec == Init /\ [][Next]_vars

\* Time passes, the goroutine of Heartbeat runs, and no call waits for ever.
FairSpec == Spec /\ WF_vars(HalfPeriod) /\ WF_vars(Main)

-----------------------------------------------------------------------------
(* Properties. *)

Listing == INSTANCE ServiceListing WITH standing <- standing, listed <- (ttl > 0)

\* The service is listed without a gap from the return of Register until it is
\* removed or its process dies, which it does at the first tick that finds it in,
\* half a TTL later, and so before the key lapses. Nothing that is late, and no
\* second Register, brings it back once it is removed (etcd.go:57-113).
ImplementsListing == Listing!Spec

\* A dead process is not listed for ever (the TTL of etcd.go:60, 97).
GhostVanishes == main \in Dead /\ ttl > 0 ~> ttl = 0 \/ main = "set"

\* Once Unregister has returned, a Heartbeat that is between two ticks ends, and
\* does so without a panic (etcd.go:86, 102-103).
HeartbeatEnds == quit /\ main = "wait" ~> main = "ended" \/ main = "down"
=============================================================================
