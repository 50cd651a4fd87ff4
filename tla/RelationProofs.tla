--------------------------- MODULE RelationProofs ---------------------------
(***************************************************************************)
(* Properties of RelationWorker, for any users, accounts and requests, for *)
(* requests handled concurrently or not, and with any number of restarts.  *)
(* TypeInv says what a thread may be at and that its slices lie within     *)
(* their arrays; LinkInv, that every copy of a contact links it to a user  *)
(* that had its account, if it has one; StoreInv, that a user whose copy   *)
(* in the database is old has a thread that is going to store it, or its   *)
(* last store failed.  The last four parts are about requests made one     *)
(* after the other: OneAtWork says what they and the reverse checks may do *)
(* at a time; ListInv, ContactInv and MutualInv, of the list, the contacts *)
(* and the links, rest on it.                                              *)
(***************************************************************************)
EXTENDS RelationWorker, SequenceTheorems, FiniteSetTheorems, WellFoundedInduction, TLAPS

-----------------------------------------------------------------------------
(* The types. *)

Slices == [a : Nat, len : Nat]

\* A slice lies within its backing array.
InArray(s, arr) == s.a \in DOMAIN arr /\ s.len <= Len(arr[s.a])

\* The labels at which a thread calls getUIDs or getFriendsByType, and those the
\* calls return to.
ListCalls == {"uids", "makeUIDs", "rereadUIDs", "in"}
FriendCalls == {"get", "makeFriends", "rereadFriends"}
BindReturns == {"append", "exists", "merge", "scan"}
BindLabels == BindReturns \cup {"bind", "send"}
Labels == {"idle", "done", "store", "unbind", "forget", "remove", "jerry", "link"}
            \cup ListCalls \cup FriendCalls \cup BindLabels

ThreadRecord ==
  [at : Labels, ret : Labels \cup {"none"}, user : Users \cup {NoUID}, uids : Slices,
   in : BOOLEAN, old : Seq(Friend), i : Nat, readyToMerge : Seq(Friend),
   backCheckUsers : SUBSET (Nat \X Nat \X Users),
   jerry : Users \cup {NoUID}, jerryTpID : TpIDs \cup {NoTpID}]

\* Where the thread is, or goes on when its call returns.
Target(s) == IF s.at \in ListCalls \cup FriendCalls THEN s.ret ELSE s.at

\* The labels a request is at once it found a list.
ListedLabels == {"rereadUIDs", "in"} \cup FriendCalls \cup BindLabels

\* What a request's thread does, and where.
RequestFlow(r, s) ==
  /\ s.user = input[r].uid
  /\ s.at \notin {"jerry", "link"}
  /\ s.at \in ListCalls => s.ret \in {"append", "remove"}
  /\ s.at \in FriendCalls => s.ret \in {"exists", "merge", "scan"}
  /\ Target(s) \in BindLabels => input[r].op = "bind"
  /\ Target(s) \in {"idle", "append", "bind"} => s.i = 1
  /\ Target(s) = "exists" => s.i \in DOMAIN input[r].contacts

CheckerFlow(s) ==
  /\ s.at \in {"idle", "jerry", "link", "store"} \cup FriendCalls
  /\ s.at \in FriendCalls => s.ret = "link"
  /\ s.at # "idle" => s.user \in Users /\ s.jerry \in Users

ThreadOK(t, s, arr, uids) ==
  /\ s \in ThreadRecord
  /\ s.at \in {"in", "append", "remove"} => InArray(s.uids, arr)
  /\ t # Checker /\ s.at \in ListedLabels => uids # Missing
  /\ IF t = Checker THEN CheckerFlow(s) ELSE RequestFlow(t, s)

FriendsSet == {Missing} \cup Seq(Friend)
Account == [bindApp : TpIDs \cup {NoTpID}, friends : FriendsSet]

MemoryOK ==
  /\ users \subseteq Users
  /\ bindApp \in [Users -> TpIDs \cup {NoTpID}]
  /\ friends \in [Users -> FriendsSet]
  /\ stored \in [Users -> {Missing} \cup Account]
  /\ everBound \in [Users -> SUBSET TpIDs]
  /\ unsaved \subseteq Users
  /\ restarts \in 0 .. MaxRestarts

QueueOK == checkFriendsChan \in Seq([user : Users, other : Users])

ListOK ==
  /\ array \in Seq(Seq(Users))
  /\ typeUID # Missing => typeUID \in Slices /\ InArray(typeUID, array)

TypeInv ==
  /\ MemoryOK /\ QueueOK /\ ListOK
  /\ DOMAIN thread = Threads
  /\ \A t \in Threads : ThreadOK(t, thread[t], array, typeUID)

-----------------------------------------------------------------------------
(* Links. *)

WasBound(u, tpID, bound) == tpID # NoTpID => tpID \in bound[u]

\* The contacts f of user u are linked to users that had their accounts, by what
\* accounts each user had.
TrueLinks(u, f, bound) ==
  \A k \in DOMAIN f : f[k].UID # NoUID => f[k].UID # u /\ WasBound(f[k].UID, f[k].TpID, bound)

UserLinks(u, tpID, f, bound) ==
  WasBound(u, tpID, bound) /\ (f # Missing => TrueLinks(u, f, bound))

ThreadLinks(s, bound) ==
  /\ TrueLinks(s.user, s.old, bound)
  /\ \A k \in DOMAIN s.readyToMerge : s.readyToMerge[k].UID = NoUID
  /\ \A due \in s.backCheckUsers : due[3] # s.user
  /\ s.jerry # NoUID => s.jerry # s.user
  /\ s.jerryTpID # NoTpID => s.jerry \in Users /\ s.jerryTpID \in bound[s.jerry]

ChecksOthers == \A k \in DOMAIN checkFriendsChan : checkFriendsChan[k].user # checkFriendsChan[k].other

LinkInv ==
  /\ \A u \in Users : UserLinks(u, bindApp[u], friends[u], everBound)
  /\ \A u \in Users : stored[u] # Missing =>
       UserLinks(u, stored[u].bindApp, stored[u].friends, everBound)
  /\ ChecksOthers
  /\ \A t \in Threads : ThreadLinks(thread[t], everBound)

-----------------------------------------------------------------------------
(* The database. *)

Busy(t) == thread[t].at \notin {"idle", "done"}

IsStored(u) == stored[u] = [bindApp |-> bindApp[u], friends |-> friends[u]]

StoreInv ==
  \A u \in users :
    IsStored(u) \/ u \in unsaved \/ \E t \in Threads : Busy(t) /\ thread[t].user = u

-----------------------------------------------------------------------------
(* Sequences and slices. *)

\* Induction over the natural numbers is proved by the least counterexample.
LEMMA Least ==
  ASSUME NEW T \in SUBSET Nat, T # {}
  PROVE  \E x \in T : \A y \in T : x <= y
<1>1. \E x \in T : \A y \in T : <<y, x>> \notin OpToRel(<, Nat)
  BY WFMin, NatLessThanWellFounded
<1>2. \A x, y \in Nat : <<y, x>> \in OpToRel(<, Nat) <=> y < x
  BY DEF OpToRel
<1> DEFINE less == OpToRel(<, Nat)
<1> HIDE DEF less
<1>3. PICK x \in T : \A y \in T : <<y, x>> \notin less
  BY <1>1 DEF less
<1>4. \A y \in T : <<y, x>> \in less <=> y < x
  BY <1>2 DEF less
<1>5. ASSUME NEW y \in T
      PROVE  x <= y
  <2>1. ~(y < x)
    BY <1>3, <1>4
  <2>2. x \in Nat /\ y \in Nat
    OBVIOUS
  <2> QED
    BY <2>1, <2>2
<1> QED
  BY <1>5

LEMMA Greatest ==
  ASSUME NEW n \in Nat, NEW T \in SUBSET (0 .. n), T # {}
  PROVE  \E x \in T : \A y \in T : y <= x
<1> DEFINE D == {d \in Nat : n - d \in T}
<1>1. D \in SUBSET Nat /\ D # {}
  <2>1. PICK x \in T : TRUE
    OBVIOUS
  <2>2. n - x \in Nat /\ n - (n - x) = x
    OBVIOUS
  <2> QED
    BY <2>1, <2>2
<1> HIDE DEF D
<1>2. PICK d \in D : \A e \in D : d <= e
  BY <1>1, Least
<1>3. n - d \in T /\ d \in Nat
  BY DEF D
<1>4. ASSUME NEW y \in T
      PROVE  y <= n - d
  <2>1. n - y \in Nat /\ n - (n - y) = y
    OBVIOUS
  <2>2. n - y \in D
    BY <2>1 DEF D
  <2> QED
    BY <1>2, <1>3, <2>2
<1> QED
  BY <1>3, <1>4

LEMMA ConcatLen ==
  ASSUME NEW S, NEW s1 \in Seq(S), NEW s2 \in Seq(S)
  PROVE  s1 \o s2 \in Seq(S) /\ Len(s1 \o s2) = Len(s1) + Len(s2)
OBVIOUS

LEMMA RemovedType ==
  ASSUME NEW arr \in Seq(Users), NEW n \in 0 .. Len(arr), NEW i \in 1 .. n
  PROVE  Removed(arr, i, n) \in Seq(Users) /\ Len(Removed(arr, i, n)) = Len(arr)
<1> DEFINE before == SubSeq(arr, 1, i - 1)
           after == SubSeq(arr, i + 1, n)
           rest == SubSeq(arr, n, Len(arr))
<1>1. Len(arr) \in Nat /\ \A k \in 1 .. Len(arr) : arr[k] \in Users
  BY ElementOfSeq
<1>2. before \in Seq(Users) /\ Len(before) = i - 1
  BY <1>1, SubSeqProperties
<1>3. after \in Seq(Users) /\ Len(after) = n - i
  BY <1>1, SubSeqProperties
<1>4. rest \in Seq(Users) /\ Len(rest) = Len(arr) - n + 1
  BY <1>1, SubSeqProperties
<1> HIDE DEF before, after, rest
<1>5. PICK left \in Seq(Users) : left = before \o after /\ Len(left) = n - 1
  <2>1. before \o after \in Seq(Users) /\ Len(before \o after) = (i - 1) + (n - i)
    BY <1>2, <1>3, ConcatLen
  <2>2. (i - 1) + (n - i) = n - 1
    BY <1>1
  <2> QED
    BY <2>1, <2>2
<1>6. left \o rest \in Seq(Users) /\ Len(left \o rest) = Len(left) + Len(rest)
  BY <1>4, ConcatLen
<1>7. Len(left) + Len(rest) = Len(arr)
  BY <1>1, <1>4, <1>5
<1> QED
  BY <1>5, <1>6, <1>7 DEF Removed, before, after, rest

\* One round of the loop of removeUID.
LoopStep(m, uid, n, i) ==
  IF m.arr[i] = uid THEN [arr |-> Removed(m.arr, i, n), removed |-> TRUE] ELSE m

\* What the loop keeps.
LoopState(arr) == [arr : {a \in Seq(Users) : Len(a) = Len(arr)}, removed : BOOLEAN]

LEMMA LoopStepType ==
  ASSUME NEW arr \in Seq(Users), NEW uid, NEW n \in 0 .. Len(arr),
         NEW m \in LoopState(arr), NEW i \in 1 .. n
  PROVE  LoopStep(m, uid, n, i) \in LoopState(arr)
<1>1. m.arr \in Seq(Users) /\ Len(m.arr) = Len(arr)
  BY DEF LoopState
<1>2. Removed(m.arr, i, n) \in Seq(Users) /\ Len(Removed(m.arr, i, n)) = Len(arr)
  BY <1>1, RemovedType
<1>3. [arr |-> Removed(m.arr, i, n), removed |-> TRUE] \in LoopState(arr)
  BY <1>2 DEF LoopState
<1> QED
  BY <1>3 DEF LoopStep

\* The run f of the rounds: what they begin with, and what each makes of it.
LoopRun(f, arr, uid, n) ==
  /\ f[0] = [arr |-> arr, removed |-> FALSE]
  /\ \A i \in 1 .. n : f[i] = LoopStep(f[i - 1], uid, n, i)

\* RemoveLoop is the last of a run of rounds.
LEMMA RemoveLoopRuns ==
  ASSUME NEW arr \in Seq(Users), NEW uid, NEW n \in 0 .. Len(arr)
  PROVE  \E f : LoopRun(f, arr, uid, n) /\ RemoveLoop(arr, uid, n) = f[n]
<1> DEFINE start == [arr |-> arr, removed |-> FALSE]
           Loop == LoopState(arr)
           body(m, i) == LoopStep(m, uid, n, i)
           IsRun(g, k) == g \in [0 .. k -> Loop] /\ g[0] = start
                            /\ \A i \in 1 .. k : g[i] = body(g[i - 1], i)
           After(f) == f = [i \in 0 .. n |->
                             IF i = 0 THEN [arr |-> arr, removed |-> FALSE]
                             ELSE IF f[i - 1].arr[i] = uid
                                  THEN [arr |-> Removed(f[i - 1].arr, i, n), removed |-> TRUE]
                                  ELSE f[i - 1]]
<1>1. RemoveLoop(arr, uid, n) = (CHOOSE f : After(f))[n]
  BY DEF RemoveLoop
<1>2. start \in Loop /\ Len(arr) \in Nat /\ n \in Nat
  BY DEF LoopState
<1>3. ASSUME NEW m \in Loop, NEW i \in 1 .. n
      PROVE  body(m, i) \in Loop
  BY LoopStepType
<1> HIDE DEF Loop, start
<1>4. ASSUME NEW k \in 0 .. n
      PROVE  \E g : IsRun(g, k)
  <2> DEFINE Bad == {l \in Nat : l <= n /\ ~ \E g : IsRun(g, l)}
  <2> HIDE DEF IsRun
  <2> SUFFICES ASSUME ~ \E g : IsRun(g, k)
               PROVE  FALSE
    OBVIOUS
  <2>1. k \in Bad
    BY <1>2
  <2>2. PICK l \in Bad : \A o \in Bad : l <= o
    BY <2>1, Least
  <2>3. l \in Nat /\ l <= n
    OBVIOUS
  <2>4. CASE l = 0
    <3>1. IsRun([i \in 0 .. 0 |-> start], 0)
      BY <1>2 DEF IsRun
    <3> QED
      BY <2>4, <3>1
  <2>5. CASE l # 0
    <3>1. l - 1 \in Nat /\ l - 1 <= n /\ l - 1 \notin Bad
      BY <2>2, <2>3, <2>5
    <3>2. PICK g : IsRun(g, l - 1)
      BY <3>1
    <3> DEFINE h == [i \in 0 .. l |-> IF i < l THEN g[i] ELSE body(g[l - 1], l)]
    <3>3. g \in [0 .. l - 1 -> Loop] /\ g[0] = start
          /\ \A i \in 1 .. l - 1 : g[i] = body(g[i - 1], i)
      BY <3>2 DEF IsRun
    <3>4. g[l - 1] \in Loop /\ body(g[l - 1], l) \in Loop
      <4>1. l - 1 \in 0 .. l - 1 /\ l \in 1 .. n
        BY <2>3, <2>5
      <4>2. g[l - 1] \in Loop
        BY <3>3, <4>1
      <4> QED
        BY <1>3, <4>1, <4>2
    <3> HIDE DEF body
    <3>5. h \in [0 .. l -> Loop]
      BY <2>3, <2>5, <3>3, <3>4
    <3>6. h[0] = start
      BY <2>3, <2>5, <3>3
    <3>7. ASSUME NEW i \in 1 .. l
          PROVE  h[i] = body(h[i - 1], i)
      <4>1. h[i - 1] = g[i - 1]
        BY <2>3, <2>5
      <4>2. CASE i < l
        <5>1. i \in 1 .. l - 1 /\ h[i] = g[i]
          BY <2>3, <4>2
        <5> QED
          BY <3>3, <4>1, <5>1
      <4>3. CASE i = l
        BY <4>1, <4>3
      <4> QED
        BY <2>3, <4>2, <4>3
    <3>8. IsRun(h, l)
      BY <3>5, <3>6, <3>7 DEF IsRun
    <3> QED
      BY <3>8
  <2> QED
    BY <2>4, <2>5
<1>5. \E f : After(f)
  <2>1. PICK g : IsRun(g, n)
    BY <1>2, <1>4
  <2>2. g \in [0 .. n -> Loop] /\ g[0] = start /\ \A i \in 1 .. n : g[i] = body(g[i - 1], i)
    BY <2>1
  <2>3. ASSUME NEW i \in 0 .. n
        PROVE  g[i] = IF i = 0 THEN start ELSE body(g[i - 1], i)
    <3> HIDE DEF body
    <3>1. CASE i = 0
      BY <2>2, <3>1
    <3>2. CASE i # 0
      <4>1. i \in 1 .. n
        BY <1>2, <3>2
      <4> QED
        BY <2>2, <3>2, <4>1
    <3> QED
      BY <3>1, <3>2
  <2>4. After(g)
    BY <2>2, <2>3 DEF start, LoopStep
  <2> QED
    BY <2>4
<1>6. PICK f : After(f) /\ RemoveLoop(arr, uid, n) = f[n]
  BY <1>1, <1>5
<1>7. f[0] = start /\ \A i \in 1 .. n : f[i] = body(f[i - 1], i)
  <2>1. f = [i \in 0 .. n |-> IF i = 0 THEN start ELSE body(f[i - 1], i)]
    BY <1>6 DEF start, LoopStep
  <2> HIDE DEF body, After
  <2>2. 0 \in 0 .. n
    BY <1>2
  <2>3. f[0] = start
    BY <2>1, <2>2
  <2>4. ASSUME NEW i \in 1 .. n
        PROVE  f[i] = body(f[i - 1], i)
    <3>1. i \in 0 .. n /\ i # 0
      BY <1>2
    <3> QED
      BY <2>1, <3>1
  <2> QED
    BY <2>3, <2>4
<1> HIDE DEF After
<1>8. LoopRun(f, arr, uid, n)
  BY <1>7 DEF start, LoopRun
<1> QED
  BY <1>6, <1>8

\* The array keeps its type and length through the loop of removeUID.
LEMMA RemoveLoopType ==
  ASSUME NEW arr \in Seq(Users), NEW uid, NEW n \in 0 .. Len(arr)
  PROVE  /\ RemoveLoop(arr, uid, n).arr \in Seq(Users)
         /\ Len(RemoveLoop(arr, uid, n).arr) = Len(arr)
<1> DEFINE Loop == LoopState(arr)
<1>1. PICK f : LoopRun(f, arr, uid, n) /\ RemoveLoop(arr, uid, n) = f[n]
  BY RemoveLoopRuns
<1>2. f[0] \in Loop /\ Len(arr) \in Nat /\ n \in Nat
  BY <1>1 DEF LoopState, LoopRun
<1>3. ASSUME NEW m \in Loop, NEW i \in 1 .. n
      PROVE  LoopStep(m, uid, n, i) \in Loop
  BY LoopStepType
<1> HIDE DEF Loop
<1>4. f[n] \in Loop
  <2> DEFINE Bad == {l \in Nat : l <= n /\ f[l] \notin Loop}
  <2>1. SUFFICES ASSUME Bad # {}
                 PROVE  FALSE
    BY <1>2
  <2>2. PICK l \in Bad : \A o \in Bad : l <= o
    BY <2>1, Least
  <2>3. l \in Nat /\ l <= n /\ f[l] \notin Loop
    OBVIOUS
  <2>4. l # 0
    BY <1>2, <2>3
  <2>5. l - 1 \in Nat /\ l - 1 <= n /\ l - 1 \notin Bad
    BY <1>2, <2>2, <2>3, <2>4
  <2>6. l \in 1 .. n /\ f[l - 1] \in Loop
    BY <1>2, <2>3, <2>4, <2>5
  <2>7. f[l] \in Loop
    BY <1>1, <1>3, <2>6 DEF LoopRun
  <2> QED
    BY <2>3, <2>7
<1> QED
  BY <1>1, <1>4 DEF Loop, LoopState

LEMMA AppendedType ==
  ASSUME NEW arr \in Seq(Users), NEW n \in 0 .. Len(arr), NEW uid \in Users
  PROVE  LET new == SubSeq(arr, 1, n) \o <<uid>> \o SubSeq(arr, n + 2, Len(arr))
         IN new \in Seq(Users) /\ Len(new) >= Len(arr) /\ Len(new) >= n + 1
<1> DEFINE before == SubSeq(arr, 1, n)
           rest == SubSeq(arr, n + 2, Len(arr))
<1>1. Len(arr) \in Nat /\ \A k \in 1 .. Len(arr) : arr[k] \in Users
  BY ElementOfSeq
<1>2. before \in Seq(Users) /\ Len(before) = n
  BY <1>1, SubSeqProperties
<1>3. rest \in Seq(Users) /\ Len(rest) = IF n + 2 <= Len(arr) THEN Len(arr) - n - 1 ELSE 0
  BY <1>1, SubSeqProperties
<1> HIDE DEF before, rest
<1>4. <<uid>> \in Seq(Users) /\ Len(<<uid>>) = 1
  OBVIOUS
<1>5. before \o <<uid>> \in Seq(Users) /\ Len(before \o <<uid>>) = Len(before) + Len(<<uid>>)
  BY <1>2, <1>4, ConcatLen
<1>6. PICK left \in Seq(Users) : left = before \o <<uid>> /\ Len(left) = n + 1
  BY <1>2, <1>4, <1>5
<1>7. left \o rest \in Seq(Users) /\ Len(left \o rest) = Len(left) + Len(rest)
  BY <1>3, <1>6, ConcatLen
<1>8. Len(left) + Len(rest) >= Len(arr) /\ Len(left) + Len(rest) >= n + 1
  <2>1. n \in Nat /\ n <= Len(arr)
    BY <1>1
  <2>2. CASE n + 2 <= Len(arr)
    <3>1. Len(rest) = Len(arr) - n - 1 /\ Len(left) = n + 1
      BY <1>3, <1>6, <2>2
    <3> QED
      BY <1>1, <2>1, <2>2, <3>1
  <2>3. CASE ~(n + 2 <= Len(arr))
    <3>1. Len(rest) = 0 /\ Len(left) = n + 1
      BY <1>3, <1>6, <2>3
    <3> QED
      BY <1>1, <2>1, <2>3, <3>1
  <2> QED
    BY <2>2, <2>3
<1> QED
  BY <1>6, <1>7, <1>8 DEF before, rest

LEMMA SetToSeqType ==
  ASSUME NEW S, IsFiniteSet(S)
  PROVE  SetToSeq(S) \in Seq(S)
<1>1. Cardinality(S) \in Nat /\ ExistsBijection(1 .. Cardinality(S), S)
  BY FS_CardinalityType
<1>2. PICK f \in Bijection(1 .. Cardinality(S), S) : TRUE
  BY <1>1 DEF ExistsBijection
<1>3. f \in [1 .. Cardinality(S) -> S] /\ IsInjective(f)
  BY <1>2 DEF Bijection, Injection, IsInjective
<1>4. SetToSeq(S) \in [1 .. Cardinality(S) -> S]
  BY <1>3 DEF SetToSeq
<1> QED
  BY <1>1, <1>4

\* The places found are among those of the list; when there are any, Max is one.
LEMMA MaxIsOne ==
  ASSUME NEW n \in Nat, NEW S \in SUBSET (1 .. n), S # {}
  PROVE  Max(S) \in S
<1>1. S \in SUBSET (0 .. n)
  OBVIOUS
<1>2. \E x \in S : \A y \in S : y <= x
  BY <1>1, Greatest
<1>3. \E x \in S : \A y \in S : x >= y
  BY <1>2
<1> QED
  BY <1>3 DEF Max

\* The loop over no element removes none.
LEMMA RemoveLoopNone ==
  ASSUME NEW arr \in Seq(Users), NEW uid
  PROVE  RemoveLoop(arr, uid, 0).removed = FALSE
<1> DEFINE After(f) == f = [i \in 0 .. 0 |->
                             IF i = 0 THEN [arr |-> arr, removed |-> FALSE]
                             ELSE IF f[i - 1].arr[i] = uid
                                  THEN [arr |-> Removed(f[i - 1].arr, i, 0), removed |-> TRUE]
                                  ELSE f[i - 1]]
<1>1. RemoveLoop(arr, uid, 0) = (CHOOSE f : After(f))[0]
  BY DEF RemoveLoop
<1>2. After([i \in 0 .. 0 |-> [arr |-> arr, removed |-> FALSE]])
  OBVIOUS
<1>3. PICK f : After(f) /\ RemoveLoop(arr, uid, 0) = f[0]
  BY <1>1, <1>2
<1>4. f[0] = [arr |-> arr, removed |-> FALSE]
  BY <1>3
<1> QED
  BY <1>3, <1>4

-----------------------------------------------------------------------------
(* A step of one thread. *)

LEMMA LabelFacts ==
  {"idle", "done", "store", "unbind", "forget", "remove", "jerry", "link", "uids", "makeUIDs",
   "rereadUIDs", "in", "get", "makeFriends", "rereadFriends", "append", "exists", "merge", "scan",
   "bind", "send"} \subseteq Labels
BY DEF Labels, ListCalls, FriendCalls, BindLabels, BindReturns

LEMMA RequestFacts ==
  ASSUME NEW r \in Requests
  PROVE  /\ r \in Threads /\ r # Checker
         /\ input[r].uid \in Users
         /\ input[r].op = "bind" => /\ input[r].tpID \in TpIDs \cup {NoTpID}
                                    /\ input[r].contacts \in Seq(TpIDs \cup {NoTpID})
<1>1. input[r] \in InputRequest /\ Checker \notin Requests
  BY RelationAssumption DEF RelationAssumption
<1> QED
  BY <1>1 DEF InputRequest, Threads

\* Only a request's thread is at a label that is not one of the checker's.
LEMMA IsRequest ==
  ASSUME TypeInv, NEW t \in Threads,
         thread[t].at \notin {"idle", "jerry", "link", "store"} \cup FriendCalls
  PROVE  t \in Requests /\ t # Checker /\ RequestFlow(t, thread[t])
<1>1. ThreadOK(t, thread[t], array, typeUID)
  BY DEF TypeInv
<1>2. t # Checker
  BY <1>1 DEF ThreadOK, CheckerFlow
<1> QED
  BY <1>1, <1>2 DEF ThreadOK, Threads

\* A list that only grows keeps every other thread's slice in its array.
LEMMA StepOf ==
  ASSUME TypeInv, NEW t \in Threads, NEW s,
         thread' = [thread EXCEPT ![t] = s],
         MemoryOK', QueueOK', ListOK',
         \A a \in DOMAIN array : a \in DOMAIN array' /\ Len(array'[a]) >= Len(array[a]),
         typeUID # Missing => typeUID' # Missing,
         ThreadOK(t, s, array', typeUID')
  PROVE  TypeInv'
<1>1. DOMAIN thread' = Threads
  BY DEF TypeInv
<1>2. ASSUME NEW o \in Threads
      PROVE  ThreadOK(o, thread'[o], array', typeUID')
  <2>1. CASE o = t
    BY <2>1 DEF TypeInv
  <2>2. CASE o # t
    <3>1. thread'[o] = thread[o] /\ ThreadOK(o, thread[o], array, typeUID)
      BY <2>2 DEF TypeInv
    <3>2. ASSUME NEW a \in DOMAIN array
          PROVE  Len(array[a]) \in Nat /\ Len(array'[a]) \in Nat
      BY DEF TypeInv, ListOK
    <3>3. ASSUME NEW x \in Slices, InArray(x, array)
          PROVE  InArray(x, array')
      BY <3>2, <3>3 DEF InArray, Slices
    <3>4. thread[o].uids \in Slices
      BY <3>1 DEF ThreadOK, ThreadRecord
    <3> QED
      BY <3>1, <3>3, <3>4 DEF ThreadOK
  <2> QED
    BY <2>1, <2>2
<1> QED
  BY <1>1, <1>2 DEF TypeInv

\* The same when the list stays as it is.
LEMMA MemoryStep ==
  ASSUME TypeInv, NEW t \in Threads, NEW s,
         thread' = [thread EXCEPT ![t] = s],
         UNCHANGED list, MemoryOK', QueueOK',
         ThreadOK(t, s, array, typeUID)
  PROVE  TypeInv'
<1>1. array' = array /\ typeUID' = typeUID
  BY DEF list
<1>2. ListOK'
  BY <1>1 DEF TypeInv, ListOK, InArray
<1>3. \A a \in DOMAIN array : a \in DOMAIN array' /\ Len(array'[a]) >= Len(array[a])
  BY <1>1 DEF TypeInv, ListOK
<1>4. ThreadOK(t, s, array', typeUID')
  BY <1>1
<1> QED
  BY <1>1, <1>2, <1>3, <1>4, StepOf

\* The same when only the thread changes.
LEMMA ThreadStep ==
  ASSUME TypeInv, NEW t \in Threads, NEW s,
         thread' = [thread EXCEPT ![t] = s],
         UNCHANGED <<memory, list, checkFriendsChan, stored, everBound, process>>,
         ThreadOK(t, s, array, typeUID)
  PROVE  TypeInv'
<1>1. MemoryOK'
  BY DEF TypeInv, MemoryOK, memory, process, Account, FriendsSet
<1>2. QueueOK'
  BY DEF TypeInv, QueueOK
<1> QED
  BY <1>1, <1>2, MemoryStep

LEMMA GetUIDsTyped ==
  ASSUME TypeInv, NEW t \in Threads, GetUIDs(t)
  PROVE  TypeInv'
<1> DEFINE s == thread[t]
<1>1. t \in Requests /\ t # Checker /\ RequestFlow(t, s) /\ s.at = "uids"
  BY IsRequest DEF GetUIDs, FriendCalls
<1>2. ThreadOK(t, s, array, typeUID) /\ s \in ThreadRecord
  BY DEF TypeInv, ThreadOK
<1>3. CASE typeUID = Missing
  <2> DEFINE new == [s EXCEPT !.at = "makeUIDs"]
  <2>1. thread' = [thread EXCEPT ![t] = new]
    BY <1>3 DEF GetUIDs
  <2>2. ThreadOK(t, new, array, typeUID)
    <3>1. new \in ThreadRecord /\ new.at = "makeUIDs" /\ new.ret = s.ret /\ new.user = s.user /\ new.i = s.i
      BY <1>2, LabelFacts DEF ThreadRecord
    <3> HIDE DEF new
    <3> QED
      BY <1>1, <3>1 DEF ThreadOK, RequestFlow, ListedLabels, Target, ListCalls, FriendCalls, BindLabels, BindReturns
  <2> QED
    BY <2>1, <2>2, ThreadStep DEF GetUIDs
<1>4. CASE typeUID # Missing
  <2> DEFINE new == [s EXCEPT !.at = "in", !.uids = typeUID]
  <2>1. thread' = [thread EXCEPT ![t] = new]
    BY <1>4 DEF GetUIDs
  <2>2. typeUID \in Slices /\ InArray(typeUID, array)
    BY <1>4 DEF TypeInv, ListOK
  <2>3. ThreadOK(t, new, array, typeUID)
    <3>1. /\ new \in ThreadRecord /\ new.at = "in" /\ new.uids = typeUID
          /\ new.ret = s.ret /\ new.user = s.user /\ new.i = s.i
      BY <1>2, <2>2, LabelFacts DEF ThreadRecord
    <3> HIDE DEF new
    <3> QED
      BY <1>1, <1>4, <2>2, <3>1 DEF ThreadOK, RequestFlow, ListedLabels, Target, ListCalls, FriendCalls, BindLabels, BindReturns
  <2> QED
    BY <2>1, <2>3, ThreadStep DEF GetUIDs
<1> QED
  BY <1>3, <1>4

LEMMA MakeUIDsTyped ==
  ASSUME TypeInv, NEW t \in Threads, MakeUIDs(t)
  PROVE  TypeInv'
<1> DEFINE s == thread[t]
           new == [s EXCEPT !.at = "rereadUIDs"]
           made == [a |-> Len(array) + 1, len |-> 0]
<1>1. t \in Requests /\ t # Checker /\ RequestFlow(t, s) /\ s.at = "makeUIDs"
  BY IsRequest DEF MakeUIDs, FriendCalls
<1>2. ThreadOK(t, s, array, typeUID) /\ s \in ThreadRecord
  BY DEF TypeInv, ThreadOK
<1>3. thread' = [thread EXCEPT ![t] = new]
  BY DEF MakeUIDs, Goto
<1>4. array' = Append(array, <<>>) /\ typeUID' = made
  BY DEF MakeUIDs
<1>5. array \in Seq(Seq(Users)) /\ <<>> \in Seq(Users) /\ Len(<<>>) = 0
  BY DEF TypeInv, ListOK
<1>6. /\ array' \in Seq(Seq(Users)) /\ Len(array') = Len(array) + 1
      /\ \A a \in 1 .. Len(array) : array'[a] = array[a]
      /\ array'[Len(array) + 1] = <<>>
  BY <1>4, <1>5
<1>7. ListOK' /\ typeUID' # Missing
  <2>1. made \in Slices /\ made # Missing
    BY <1>5, RelationAssumption DEF RelationAssumption, Slices
  <2>2. made.a \in DOMAIN array' /\ made.len <= Len(array'[made.a])
    BY <1>5, <1>6
  <2> QED
    BY <1>4, <1>6, <2>1, <2>2 DEF ListOK, InArray
<1>8. \A a \in DOMAIN array : a \in DOMAIN array' /\ Len(array'[a]) >= Len(array[a])
  <2> SUFFICES ASSUME NEW a \in DOMAIN array
               PROVE  a \in DOMAIN array' /\ Len(array'[a]) >= Len(array[a])
    OBVIOUS
  <2>1. a \in 1 .. Len(array) /\ array[a] \in Seq(Users) /\ Len(array[a]) \in Nat
    BY <1>5
  <2>2. a \in DOMAIN array' /\ array'[a] = array[a]
    BY <1>5, <1>6, <2>1
  <2> QED
    BY <2>1, <2>2
<1>9. ThreadOK(t, new, array', typeUID')
  <2>1. /\ new \in ThreadRecord /\ new.at = "rereadUIDs"
        /\ new.ret = s.ret /\ new.user = s.user /\ new.i = s.i
    BY <1>1, <1>2, LabelFacts DEF ThreadRecord
  <2> HIDE DEF new
  <2> QED
    BY <1>1, <1>7, <2>1 DEF ThreadOK, RequestFlow, ListedLabels, Target, ListCalls, FriendCalls, BindLabels, BindReturns
<1>10. MemoryOK' /\ QueueOK'
  BY DEF TypeInv, MemoryOK, QueueOK, MakeUIDs, memory, process
<1> QED
  BY <1>3, <1>7, <1>8, <1>9, <1>10, StepOf

LEMMA RereadUIDsTyped ==
  ASSUME TypeInv, NEW t \in Threads, RereadUIDs(t)
  PROVE  TypeInv'
<1> DEFINE s == thread[t]
           new == [s EXCEPT !.at = "in", !.uids = typeUID]
<1>1. t \in Requests /\ t # Checker /\ RequestFlow(t, s) /\ s.at = "rereadUIDs"
  BY IsRequest DEF RereadUIDs, FriendCalls
<1>2. ThreadOK(t, s, array, typeUID) /\ s \in ThreadRecord
  BY DEF TypeInv, ThreadOK
<1>3. thread' = [thread EXCEPT ![t] = new]
  BY DEF RereadUIDs
<1>4. typeUID \in Slices /\ InArray(typeUID, array)
  BY <1>1, <1>2 DEF TypeInv, ListOK, ThreadOK, ListedLabels
<1>5. ThreadOK(t, new, array, typeUID)
  <2>1. /\ new \in ThreadRecord /\ new.at = "in" /\ new.uids = typeUID
        /\ new.ret = s.ret /\ new.user = s.user /\ new.i = s.i
    BY <1>1, <1>2, <1>4, LabelFacts DEF ThreadRecord
  <2> HIDE DEF new
  <2> QED
    BY <1>1, <1>2, <1>4, <2>1 DEF ThreadOK, RequestFlow, ListedLabels, Target, ListCalls, FriendCalls, BindLabels, BindReturns
<1> QED
  BY <1>3, <1>5, ThreadStep DEF RereadUIDs

LEMMA InTypeUIDMapTyped ==
  ASSUME TypeInv, NEW t \in Threads, InTypeUIDMap(t)
  PROVE  TypeInv'
<1> DEFINE s == thread[t]
           found == s.user \in ToSet(Elements(s.uids))
           new == [s EXCEPT !.at = s.ret, !.in = found]
<1>1. t \in Requests /\ t # Checker /\ RequestFlow(t, s) /\ s.at = "in"
  BY IsRequest DEF InTypeUIDMap, FriendCalls
<1>2. ThreadOK(t, s, array, typeUID) /\ s \in ThreadRecord
  BY DEF TypeInv, ThreadOK
<1>3. thread' = [thread EXCEPT ![t] = new]
  BY DEF InTypeUIDMap
<1>4. found \in BOOLEAN
  OBVIOUS
<1> HIDE DEF found
<1>5. ThreadOK(t, new, array, typeUID)
  <2>1. /\ new \in ThreadRecord /\ new.at = s.ret /\ new.uids = s.uids
        /\ new.ret = s.ret /\ new.user = s.user /\ new.i = s.i
    <3>1. s.ret \in Labels
      BY <1>1, LabelFacts DEF RequestFlow, ListCalls
    <3> QED
      BY <1>2, <1>4, <3>1 DEF ThreadRecord
  <2> HIDE DEF new
  <2> QED
    BY <1>1, <1>2, <2>1 DEF ThreadOK, RequestFlow, ListedLabels, Target, ListCalls, FriendCalls, BindLabels, BindReturns
<1> QED
  BY <1>3, <1>5, ThreadStep DEF InTypeUIDMap

LEMMA AppendUIDTyped ==
  ASSUME TypeInv, NEW t \in Threads, AppendUID(t)
  PROVE  TypeInv'
<1> DEFINE s == thread[t]
           x == s.uids
           new == [s EXCEPT !.at = "bind"]
<1>1. t \in Requests /\ t # Checker /\ RequestFlow(t, s) /\ s.at = "append"
  BY IsRequest DEF AppendUID, FriendCalls
<1>2. ThreadOK(t, s, array, typeUID) /\ s \in ThreadRecord /\ x \in Slices /\ InArray(x, array)
  BY <1>1 DEF TypeInv, ThreadOK, ThreadRecord
<1>3. thread' = [thread EXCEPT ![t] = new]
  BY DEF AppendUID, Goto
<1>4. MemoryOK' /\ QueueOK'
  BY DEF TypeInv, MemoryOK, QueueOK, AppendUID, memory, process
<1>5. ASSUME NEW arr, NEW uids
      PROVE  uids # Missing => ThreadOK(t, new, arr, uids)
  <2>1. /\ new \in ThreadRecord /\ new.at = "bind"
        /\ new.ret = s.ret /\ new.user = s.user /\ new.i = s.i
    BY <1>1, <1>2, LabelFacts DEF ThreadRecord
  <2> HIDE DEF new
  <2> QED
    BY <1>1, <2>1 DEF ThreadOK, RequestFlow, ListedLabels, Target, ListCalls, FriendCalls, BindLabels, BindReturns
<1>8. typeUID # Missing
  BY <1>1, <1>2 DEF ThreadOK, ListedLabels, BindLabels, BindReturns
<1>6. CASE s.in
  <2>1. UNCHANGED list
    BY <1>6 DEF AppendUID
  <2> QED
    BY <1>2, <1>3, <1>4, <1>5, <1>8, <2>1, MemoryStep
<1>7. CASE ~ s.in
  <2> DEFINE old == array[x.a]
             longer == SubSeq(old, 1, x.len) \o <<s.user>> \o SubSeq(old, x.len + 2, Len(old))
             y == [x EXCEPT !.len = @ + 1]
  <2>1. array' = [array EXCEPT ![x.a] = longer] /\ typeUID' = y
    BY <1>7, Zenon DEF AppendUID, ExtendUIDs, Appended
  <2>2. array \in Seq(Seq(Users)) /\ x.a \in DOMAIN array /\ old \in Seq(Users) /\ x.len \in 0 .. Len(old)
    BY <1>2 DEF TypeInv, ListOK, InArray, Slices
  <2>3. s.user \in Users
    BY <1>1, RequestFacts DEF RequestFlow
  <2>4. longer \in Seq(Users) /\ Len(longer) >= Len(old) /\ Len(longer) >= x.len + 1
    BY <2>2, <2>3, AppendedType
  <2> HIDE DEF longer
  <2>5. /\ array' \in Seq(Seq(Users)) /\ array'[x.a] = longer
        /\ \A a \in DOMAIN array : a \in DOMAIN array' /\ (a # x.a => array'[a] = array[a])
    BY <2>1, <2>2, <2>4
  <2>6. \A a \in DOMAIN array : a \in DOMAIN array' /\ Len(array'[a]) >= Len(array[a])
    <3> SUFFICES ASSUME NEW a \in DOMAIN array
                 PROVE  a \in DOMAIN array' /\ Len(array'[a]) >= Len(array[a])
      OBVIOUS
    <3>1. array[a] \in Seq(Users) /\ Len(array[a]) \in Nat
      BY <2>2
    <3>2. CASE a = x.a
      BY <2>4, <2>5, <3>1, <3>2
    <3>3. CASE a # x.a
      BY <2>5, <3>1, <3>3
    <3> QED
      BY <3>2, <3>3
  <2>7. y \in Slices /\ y.a = x.a /\ y.len = x.len + 1
    BY <1>2 DEF Slices
  <2>8. ListOK' /\ typeUID' # Missing
    <3>1. y # Missing
      BY <2>7, RelationAssumption DEF RelationAssumption, Slices
    <3>2. InArray(y, array')
      BY <2>2, <2>4, <2>5, <2>7 DEF InArray
    <3> QED
      BY <2>1, <2>5, <2>7, <3>1, <3>2 DEF ListOK
  <2>9. ThreadOK(t, new, array', typeUID')
    BY <1>5, <2>8
  <2> QED
    BY <1>3, <1>4, <2>6, <2>8, <2>9, StepOf, Zenon
<1> QED
  BY <1>6, <1>7

LEMMA RemoveUIDTyped ==
  ASSUME TypeInv, NEW t \in Threads, RemoveUID(t)
  PROVE  TypeInv'
<1> DEFINE s == thread[t]
           x == s.uids
           end == RemoveLoop(array[x.a], s.user, x.len)
           new == [s EXCEPT !.at = "store"]
<1>1. t \in Requests /\ t # Checker /\ RequestFlow(t, s) /\ s.at = "remove"
  BY IsRequest DEF RemoveUID, FriendCalls
<1>2. ThreadOK(t, s, array, typeUID) /\ s \in ThreadRecord /\ x \in Slices /\ InArray(x, array)
  BY <1>1 DEF TypeInv, ThreadOK, ThreadRecord
<1>3. thread' = [thread EXCEPT ![t] = new]
  BY DEF RemoveUID, Goto
<1>4. MemoryOK' /\ QueueOK'
  BY DEF TypeInv, MemoryOK, QueueOK, RemoveUID, memory, process
<1> HIDE DEF end
<1>5. ASSUME NEW arr, NEW uids
      PROVE  ThreadOK(t, new, arr, uids)
  <2>1. new \in ThreadRecord /\ new.at = "store" /\ new.user = s.user
    BY <1>2, LabelFacts DEF ThreadRecord
  <2> HIDE DEF new
  <2> QED
    BY <1>1, <2>1 DEF ThreadOK, RequestFlow, ListedLabels, Target, ListCalls, FriendCalls, BindLabels, BindReturns
<1>6. CASE ~(s.in /\ end.removed)
  <2>1. UNCHANGED list
    BY <1>6 DEF RemoveUID, end
  <2> QED
    BY <1>3, <1>4, <1>5, <2>1, MemoryStep
<1>7. CASE s.in /\ end.removed
  <2> DEFINE old == array[x.a]
             y == [x EXCEPT !.len = @ - 1]
  <2>1. array' = [array EXCEPT ![x.a] = end.arr] /\ typeUID' = y
    BY <1>7 DEF RemoveUID, end
  <2>2. array \in Seq(Seq(Users)) /\ x.a \in DOMAIN array /\ old \in Seq(Users) /\ x.len \in 0 .. Len(old)
    BY <1>2 DEF TypeInv, ListOK, InArray, Slices
  <2>3. end.arr \in Seq(Users) /\ Len(end.arr) = Len(old)
    BY <2>2, RemoveLoopType DEF end
  <2>4. x.len # 0
    BY <1>7, <2>2, RemoveLoopNone DEF end
  <2>5. /\ array' \in Seq(Seq(Users)) /\ array'[x.a] = end.arr
        /\ \A a \in DOMAIN array : a \in DOMAIN array' /\ (a # x.a => array'[a] = array[a])
    BY <2>1, <2>2, <2>3
  <2>6. \A a \in DOMAIN array : a \in DOMAIN array' /\ Len(array'[a]) >= Len(array[a])
    <3> SUFFICES ASSUME NEW a \in DOMAIN array
                 PROVE  a \in DOMAIN array' /\ Len(array'[a]) >= Len(array[a])
      OBVIOUS
    <3>1. array[a] \in Seq(Users) /\ Len(array[a]) \in Nat
      BY <2>2
    <3>2. CASE a = x.a
      BY <2>3, <2>5, <3>1, <3>2
    <3>3. CASE a # x.a
      BY <2>5, <3>1, <3>3
    <3> QED
      BY <3>2, <3>3
  <2>7. y \in Slices /\ y.a = x.a /\ y.len = x.len - 1 /\ y.len <= Len(old)
    <3>1. x.len - 1 \in Nat /\ x.len - 1 <= Len(old)
      <4>1. \A m, n \in Nat : m <= n /\ m # 0 => m - 1 \in Nat /\ m - 1 <= n
        OBVIOUS
      <4>2. Len(old) \in Nat
        BY <2>2
      <4>3. x.len \in Nat /\ x.len <= Len(old)
        BY <2>2, <4>2
      <4> QED
        BY <2>4, <4>1, <4>2, <4>3
    <3> QED
      BY <1>2, <3>1 DEF Slices
  <2>8. ListOK' /\ typeUID' # Missing
    <3>1. y # Missing
      BY <2>7, RelationAssumption DEF RelationAssumption, Slices
    <3>2. InArray(y, array')
      BY <2>2, <2>3, <2>5, <2>7 DEF InArray
    <3> QED
      BY <2>1, <2>5, <2>7, <3>1, <3>2 DEF ListOK
  <2>9. ThreadOK(t, new, array', typeUID')
    BY <1>5
  <2> QED
    BY <1>3, <1>4, <2>6, <2>8, <2>9, StepOf, Zenon
<1> QED
  BY <1>6, <1>7

LEMMA ActiveUser ==
  ASSUME TypeInv, NEW t \in Threads, thread[t].at # "idle"
  PROVE  thread[t].user \in Users
<1>1. ThreadOK(t, thread[t], array, typeUID)
  BY DEF TypeInv
<1>2. CASE t = Checker
  BY <1>1, <1>2 DEF ThreadOK, CheckerFlow
<1>3. CASE t # Checker
  BY <1>1, <1>3, RequestFacts DEF ThreadOK, RequestFlow, Threads
<1> QED
  BY <1>2, <1>3

\* The thread goes on at another label of a call of getFriendsByType.
LEMMA FriendCallGoes ==
  ASSUME TypeInv, NEW t \in Threads, NEW new \in ThreadRecord,
         thread[t].at \in FriendCalls,
         \/ new.at \in FriendCalls /\ new.ret = thread[t].ret
         \/ new.at = thread[t].ret,
         new.user = thread[t].user, new.jerry = thread[t].jerry, new.i = thread[t].i
  PROVE  ThreadOK(t, new, array, typeUID)
<1>1. ThreadOK(t, thread[t], array, typeUID)
  BY DEF TypeInv
<1>2. CASE t = Checker
  BY <1>1, <1>2 DEF ThreadOK, CheckerFlow, FriendCalls
<1>3. CASE t # Checker
  <2>1. RequestFlow(t, thread[t]) /\ typeUID # Missing /\ new.at \in FriendCalls \cup {"exists", "merge", "scan"}
    BY <1>1, <1>3 DEF ThreadOK, RequestFlow, ListedLabels, FriendCalls
  <2>2. new.at \notin {"in", "append", "remove", "jerry", "link"} \cup ListCalls
    BY <2>1 DEF FriendCalls, ListCalls
  <2>3. Target(new) = Target(thread[t])
    BY <2>1, <2>2 DEF Target, FriendCalls, ListCalls, RequestFlow
  <2>4. RequestFlow(t, new)
    BY <2>1, <2>2, <2>3 DEF RequestFlow, FriendCalls
  <2> QED
    BY <1>3, <2>1, <2>2, <2>4 DEF ThreadOK
<1> QED
  BY <1>2, <1>3

\* A thread back at label l with contacts f.
Returning(s, l, f) == [s EXCEPT !.at = l, !.old = f]

LEMMA Returned ==
  ASSUME NEW s \in ThreadRecord, NEW l \in Labels, NEW f \in Seq(Friend)
  PROVE  /\ Returning(s, l, f) \in ThreadRecord /\ Returning(s, l, f).at = l
         /\ Returning(s, l, f).user = s.user /\ Returning(s, l, f).jerry = s.jerry
         /\ Returning(s, l, f).i = s.i
BY DEF ThreadRecord, Returning

LEMMA GetFriendsTyped ==
  ASSUME TypeInv, NEW t \in Threads, GetFriends(t)
  PROVE  TypeInv'
<1> DEFINE s == thread[t]
           f == friends[s.user]
<1>1. s.at = "get" /\ s.at \in FriendCalls /\ s.user \in Users
  BY ActiveUser DEF GetFriends, FriendCalls
<1>2. s \in ThreadRecord /\ ThreadOK(t, s, array, typeUID)
  BY DEF TypeInv, ThreadOK
<1>3. f \in FriendsSet
  BY <1>1 DEF TypeInv, MemoryOK
<1>4. CASE f = Missing
  <2> DEFINE new == [s EXCEPT !.at = "makeFriends"]
  <2>1. thread' = [thread EXCEPT ![t] = new]
    BY <1>4 DEF GetFriends
  <2>2. /\ new \in ThreadRecord /\ new.at \in FriendCalls
        /\ new.ret = s.ret /\ new.user = s.user /\ new.jerry = s.jerry /\ new.i = s.i
    BY <1>2, LabelFacts DEF ThreadRecord, FriendCalls
  <2> HIDE DEF new
  <2> QED
    BY <1>1, <2>1, <2>2, FriendCallGoes, ThreadStep DEF GetFriends
<1>5. CASE f # Missing
  <2> DEFINE new == Returning(s, s.ret, f)
  <2>1. thread' = [thread EXCEPT ![t] = new]
    BY <1>5 DEF GetFriends, Returning
  <2>2. f \in Seq(Friend)
    BY <1>3, <1>5 DEF FriendsSet
  <2> HIDE DEF f
  <2>3. s.ret \in Labels
    BY <1>1, <1>2 DEF ThreadOK, CheckerFlow, RequestFlow, Labels, BindLabels, BindReturns
  <2>4. /\ new \in ThreadRecord /\ new.at = s.ret
        /\ new.user = s.user /\ new.jerry = s.jerry /\ new.i = s.i
    BY <1>2, <2>2, <2>3, Returned
  <2> HIDE DEF new
  <2> QED
    BY <1>1, <2>1, <2>4, FriendCallGoes, ThreadStep DEF GetFriends
<1> QED
  BY <1>4, <1>5

\* A write of one user's contacts.
LEMMA FriendsWritten ==
  ASSUME TypeInv, NEW u \in Users, NEW f \in FriendsSet,
         friends' = [friends EXCEPT ![u] = f],
         UNCHANGED <<users, bindApp, list, checkFriendsChan, stored, everBound, process>>
  PROVE  MemoryOK' /\ QueueOK' /\ UNCHANGED list
<1>1. friends' \in [Users -> FriendsSet]
  BY DEF TypeInv, MemoryOK
<1> QED
  BY <1>1 DEF TypeInv, MemoryOK, QueueOK, process

LEMMA MakeFriendsTyped ==
  ASSUME TypeInv, NEW t \in Threads, MakeFriends(t)
  PROVE  TypeInv'
<1> DEFINE s == thread[t]
           new == [s EXCEPT !.at = "rereadFriends"]
<1>1. s.at \in FriendCalls /\ s.user \in Users
  BY ActiveUser DEF MakeFriends, FriendCalls
<1>2. s \in ThreadRecord
  BY DEF TypeInv, ThreadOK
<1>3. thread' = [thread EXCEPT ![t] = new]
  BY DEF MakeFriends, Goto
<1>4. PICK none \in Seq(Friend) : none = <<>>
  <2>1. <<>> \in Seq(Friend)
    OBVIOUS
  <2> QED
    BY <2>1
<1>5. none \in FriendsSet /\ friends' = [friends EXCEPT ![s.user] = none]
  BY <1>4 DEF MakeFriends, FriendsSet
<1>6. MemoryOK' /\ QueueOK' /\ UNCHANGED list
  BY <1>1, <1>5, FriendsWritten DEF MakeFriends
<1>7. /\ new \in ThreadRecord /\ new.at \in FriendCalls
      /\ new.ret = s.ret /\ new.user = s.user /\ new.jerry = s.jerry /\ new.i = s.i
  BY <1>2, LabelFacts DEF ThreadRecord, FriendCalls
<1> HIDE DEF new
<1> QED
  BY <1>1, <1>3, <1>6, <1>7, FriendCallGoes, MemoryStep

LEMMA RereadFriendsTyped ==
  ASSUME TypeInv, NEW t \in Threads, RereadFriends(t)
  PROVE  TypeInv'
<1> DEFINE s == thread[t]
           g == friends[s.user]
           f == IF g = Missing THEN <<>> ELSE g
           new == Returning(s, s.ret, f)
<1>1. s.at = "rereadFriends" /\ s.at \in FriendCalls /\ s.user \in Users
  BY ActiveUser DEF RereadFriends, FriendCalls
<1>2. s \in ThreadRecord /\ ThreadOK(t, s, array, typeUID)
  BY DEF TypeInv, ThreadOK
<1>3. g \in FriendsSet
  BY <1>1 DEF TypeInv, MemoryOK
<1>4. thread' = [thread EXCEPT ![t] = new]
  BY DEF RereadFriends, Returning
<1> HIDE DEF g
<1>5. f \in Seq(Friend)
  <2>1. <<>> \in Seq(Friend)
    OBVIOUS
  <2> QED
    BY <1>3, <2>1 DEF FriendsSet
<1> HIDE DEF f
<1>6. s.ret \in Labels
  BY <1>1, <1>2 DEF ThreadOK, CheckerFlow, RequestFlow, Labels, BindLabels, BindReturns
<1>7. /\ new \in ThreadRecord /\ new.at = s.ret
      /\ new.user = s.user /\ new.jerry = s.jerry /\ new.i = s.i
  BY <1>2, <1>5, <1>6, Returned
<1> HIDE DEF new
<1> QED
  BY <1>1, <1>4, <1>7, FriendCallGoes, ThreadStep DEF RereadFriends

\* A thread that read contact i - 1, and what CheckExists does to its thread, with
\* the test left aside.
Preparing(s, merged, i, next) ==
  [s EXCEPT !.readyToMerge = merged, !.i = i, !.at = "get", !.ret = next]

Prepared(t, merged, next) ==
  thread' = [thread EXCEPT ![t] = Preparing(thread[t], merged, thread[t].i + 1, next)]

NewContact(t) == [TpID |-> input[t].contacts[thread[t].i], UID |-> NoUID]

LEMMA CheckExistsFacts ==
  ASSUME NEW t, CheckExists(t)
  PROVE  /\ thread[t].at = "exists"
         /\ UNCHANGED <<memory, list, checkFriendsChan, stored, everBound, process>>
         /\ \E merged \in {thread[t].readyToMerge, Append(thread[t].readyToMerge, NewContact(t))} :
              Prepared(t, merged, IF thread[t].i < Len(input[t].contacts) THEN "exists" ELSE "merge")
<1> DEFINE known == \E k \in DOMAIN thread[t].old : thread[t].old[k].TpID = input[t].contacts[thread[t].i]
           merged == IF known THEN thread[t].readyToMerge ELSE Append(thread[t].readyToMerge, NewContact(t))
<1>1. merged \in {thread[t].readyToMerge, Append(thread[t].readyToMerge, NewContact(t))}
  OBVIOUS
<1>2. Prepared(t, merged, IF thread[t].i < Len(input[t].contacts) THEN "exists" ELSE "merge")
  BY Zenon DEF CheckExists, Prepared, Preparing, NewContact
<1> QED
  BY <1>1, <1>2 DEF CheckExists

LEMMA CheckExistsTyped ==
  ASSUME TypeInv, NEW t \in Threads, CheckExists(t)
  PROVE  TypeInv'
<1> DEFINE s == thread[t]
           contacts == input[t].contacts
           next == IF s.i < Len(contacts) THEN "exists" ELSE "merge"
<1>1. t \in Requests /\ t # Checker /\ RequestFlow(t, s) /\ s.at = "exists"
  BY CheckExistsFacts, IsRequest DEF FriendCalls
<1>2. ThreadOK(t, s, array, typeUID) /\ s \in ThreadRecord
  BY DEF TypeInv, ThreadOK
<1>3. PICK merged : /\ merged \in {s.readyToMerge, Append(s.readyToMerge, NewContact(t))}
                    /\ Prepared(t, merged, next)
  BY CheckExistsFacts
<1> DEFINE i == s.i + 1
           new == Preparing(s, merged, i, next)
<1>4. thread' = [thread EXCEPT ![t] = new]
  BY <1>3 DEF Prepared
<1>5. /\ input[t].op = "bind" /\ contacts \in Seq(TpIDs \cup {NoTpID}) /\ s.i \in 1 .. Len(contacts)
      /\ Len(contacts) \in Nat
  BY <1>1, RequestFacts DEF RequestFlow, Target, ListCalls, FriendCalls, BindLabels, BindReturns
<1>6. merged \in Seq(Friend)
  <2>1. contacts[s.i] \in TpIDs \cup {NoTpID}
    BY <1>5, ElementOfSeq
  <2>2. NewContact(t) \in Friend /\ s.readyToMerge \in Seq(Friend)
    BY <1>2, <2>1 DEF NewContact, Friend, ThreadRecord
  <2>3. \A ready \in Seq(Friend), item \in Friend : Append(ready, item) \in Seq(Friend)
    OBVIOUS
  <2> QED
    BY <1>3, <2>2, <2>3
<1> HIDE DEF contacts
<1>7. next \in {"exists", "merge"} /\ (next = "exists" => s.i + 1 \in DOMAIN contacts)
  BY <1>5
<1>8. i \in Nat /\ next \in {"exists", "merge"}
  BY <1>5
<1>12. s.i + 1 = i
  OBVIOUS
<1> HIDE DEF next, i
<1>9. /\ new \in ThreadRecord /\ new.at = "get" /\ new.ret = next
      /\ new.user = s.user /\ new.i = i
  <2>1. s \in ThreadRecord
    BY <1>2
  <2> HIDE DEF s
  <2>2. "get" \in Labels /\ next \in Labels
    BY <1>8 DEF Labels, FriendCalls, BindLabels, BindReturns
  <2> QED
    BY <1>6, <1>8, <2>1, <2>2 DEF ThreadRecord, Preparing
<1>10. typeUID # Missing
  BY <1>1, <1>2 DEF ThreadOK, ListedLabels, BindLabels, BindReturns
<1> HIDE DEF new
<1>11. ThreadOK(t, new, array, typeUID)
  BY <1>1, <1>5, <1>7, <1>9, <1>10, <1>12
     DEF ThreadOK, RequestFlow, Target, ListCalls, FriendCalls, contacts
<1> QED
  BY <1>4, <1>11, CheckExistsFacts, ThreadStep

LEMMA AppendFriendsTyped ==
  ASSUME TypeInv, NEW t \in Threads, AppendFriends(t)
  PROVE  TypeInv'
<1> DEFINE s == thread[t]
           f == s.old \o s.readyToMerge
           new == [s EXCEPT !.at = "get", !.ret = "scan"]
<1>1. t \in Requests /\ t # Checker /\ RequestFlow(t, s) /\ s.at = "merge"
  BY IsRequest DEF AppendFriends, FriendCalls
<1>2. ThreadOK(t, s, array, typeUID) /\ s \in ThreadRecord /\ s.user \in Users
  BY <1>1, RequestFacts DEF TypeInv, ThreadOK, RequestFlow
<1>3. thread' = [thread EXCEPT ![t] = new] /\ friends' = [friends EXCEPT ![s.user] = f]
  BY DEF AppendFriends, Call
<1>4. s.old \in Seq(Friend) /\ s.readyToMerge \in Seq(Friend)
  BY <1>2 DEF ThreadRecord
<1>5. f \in FriendsSet
  BY <1>4, ConcatLen DEF FriendsSet
<1> HIDE DEF f
<1>6. MemoryOK' /\ QueueOK' /\ UNCHANGED list
  BY <1>2, <1>3, <1>5, FriendsWritten DEF AppendFriends
<1>7. /\ new \in ThreadRecord /\ new.at = "get" /\ new.ret = "scan" /\ new.user = s.user
  BY <1>2, LabelFacts DEF ThreadRecord
<1>8. typeUID # Missing /\ input[t].op = "bind"
  BY <1>1, <1>2 DEF ThreadOK, RequestFlow, Target, ListCalls, FriendCalls, ListedLabels, BindLabels, BindReturns
<1> HIDE DEF new
<1>9. ThreadOK(t, new, array, typeUID)
  BY <1>1, <1>7, <1>8 DEF ThreadOK, RequestFlow, Target, ListCalls, FriendCalls
<1> QED
  BY <1>3, <1>6, <1>9, MemoryStep

\* The places found are places of the list; a contact stays one.
LEMMA MatchesFacts ==
  ASSUME TypeInv, typeUID # Missing, NEW u, NEW tpID
  PROVE  /\ typeUID.len \in Nat /\ Matches(u, tpID) \subseteq 1 .. typeUID.len
         /\ \A i \in Matches(u, tpID) :
              /\ array[typeUID.a][i] \in Users /\ array[typeUID.a][i] # u
              /\ bindApp[array[typeUID.a][i]] = tpID
<1>1. /\ typeUID.len \in Nat /\ typeUID.a \in DOMAIN array
      /\ array[typeUID.a] \in Seq(Users) /\ typeUID.len <= Len(array[typeUID.a])
  BY DEF TypeInv, ListOK, InArray, Slices
<1>2. \A i \in 1 .. typeUID.len : array[typeUID.a][i] \in Users
  BY <1>1
<1> QED
  BY <1>1, <1>2 DEF Matches

LEMMA LinkedFacts ==
  ASSUME TypeInv, typeUID # Missing, NEW u, NEW item \in Friend
  PROVE  /\ Linked(u, item) \in Friend
         /\ Linked(u, item).TpID = item.TpID
         /\ Linked(u, item).UID # NoUID => /\ Linked(u, item).UID # u
                                           /\ bindApp[Linked(u, item).UID] = item.TpID
<1> DEFINE found == Matches(u, item.TpID)
           uid == IF found = {} THEN NoUID ELSE array[typeUID.a][Max(found)]
<1>1. typeUID.len \in Nat /\ found \in SUBSET (1 .. typeUID.len)
  BY MatchesFacts
<1>2. found # {} => Max(found) \in found
  BY <1>1, MaxIsOne
<1>3. uid # NoUID => uid \in Users /\ uid # u /\ bindApp[uid] = item.TpID
  BY <1>2, MatchesFacts
<1>4. Linked(u, item) = [item EXCEPT !.UID = uid]
  BY DEF Linked
<1> HIDE DEF uid
<1> QED
  BY <1>3, <1>4 DEF Friend

LEMMA ScanAllFriendsTyped ==
  ASSUME TypeInv, NEW t \in Threads, ScanAllFriends(t)
  PROVE  TypeInv'
<1> DEFINE s == thread[t]
           f == [k \in DOMAIN s.old |-> Linked(s.user, s.old[k])]
           dues == UNION {{<<k, i, array[typeUID.a][i]>> : i \in Matches(s.user, s.old[k].TpID)}
                          : k \in DOMAIN s.old}
           new == [s EXCEPT !.at = "send", !.backCheckUsers = dues]
<1>1. t \in Requests /\ t # Checker /\ RequestFlow(t, s) /\ s.at = "scan"
  BY IsRequest DEF ScanAllFriends, FriendCalls
<1>2. ThreadOK(t, s, array, typeUID) /\ s \in ThreadRecord /\ s.user \in Users
  BY <1>1, RequestFacts DEF TypeInv, ThreadOK, RequestFlow
<1>3. thread' = [thread EXCEPT ![t] = new] /\ friends' = [friends EXCEPT ![s.user] = f]
  BY DEF ScanAllFriends, LinkFriends
<1>4. typeUID # Missing /\ input[t].op = "bind"
  BY <1>1, <1>2 DEF ThreadOK, RequestFlow, Target, ListCalls, FriendCalls, ListedLabels, BindLabels, BindReturns
<1>5. s.old \in Seq(Friend)
  BY <1>2 DEF ThreadRecord
<1>6. f \in FriendsSet
  <2>1. \A k \in DOMAIN s.old : s.old[k] \in Friend
    BY <1>5
  <2>2. \A k \in DOMAIN s.old : Linked(s.user, s.old[k]) \in Friend
    BY <1>4, <2>1, LinkedFacts
  <2>3. DOMAIN s.old = 1 .. Len(s.old) /\ Len(s.old) \in Nat
    BY <1>5
  <2>4. f \in [1 .. Len(s.old) -> Friend]
    BY <2>2, <2>3
  <2> HIDE DEF f
  <2>5. f \in Seq(Friend)
    BY <2>3, <2>4
  <2> QED
    BY <2>5 DEF FriendsSet
<1>7. dues \in SUBSET (Nat \X Nat \X Users)
  <2>1. ASSUME NEW k \in DOMAIN s.old, NEW i \in Matches(s.user, s.old[k].TpID)
        PROVE  <<k, i, array[typeUID.a][i]>> \in Nat \X Nat \X Users
    <3>1. k \in Nat
      BY <1>5
    <3>2. i \in Nat /\ array[typeUID.a][i] \in Users
      BY <1>4, MatchesFacts
    <3> QED
      BY <3>1, <3>2
  <2> QED
    BY <2>1
<1> HIDE DEF f, dues
<1>8. MemoryOK' /\ QueueOK' /\ UNCHANGED list
  BY <1>2, <1>3, <1>6, FriendsWritten DEF ScanAllFriends
<1>9. new \in ThreadRecord /\ new.at = "send" /\ new.user = s.user
  BY <1>2, <1>7, LabelFacts DEF ThreadRecord
<1> HIDE DEF new
<1>10. ThreadOK(t, new, array, typeUID)
  BY <1>1, <1>4, <1>9 DEF ThreadOK, RequestFlow, Target, ListCalls, FriendCalls
<1> QED
  BY <1>3, <1>8, <1>10, MemoryStep

LEMMA SendCheckTyped ==
  ASSUME TypeInv, NEW t \in Threads, SendCheck(t)
  PROVE  TypeInv'
<1> DEFINE s == thread[t]
<1>1. t \in Requests /\ t # Checker /\ RequestFlow(t, s) /\ s.at = "send"
  BY IsRequest DEF SendCheck, FriendCalls
<1>2. ThreadOK(t, s, array, typeUID) /\ s \in ThreadRecord /\ s.user \in Users
  BY <1>1, RequestFacts DEF TypeInv, ThreadOK, RequestFlow
<1>3. typeUID # Missing /\ input[t].op = "bind"
  BY <1>1, <1>2 DEF ThreadOK, RequestFlow, Target, ListCalls, FriendCalls, ListedLabels, BindLabels
<1>4. CASE s.backCheckUsers = {} /\ Goto(t, "store") /\ UNCHANGED checkFriendsChan
  <2> DEFINE new == [s EXCEPT !.at = "store"]
  <2>1. thread' = [thread EXCEPT ![t] = new]
    BY <1>4 DEF Goto
  <2>2. new \in ThreadRecord /\ new.at = "store" /\ new.user = s.user
    BY <1>2, LabelFacts DEF ThreadRecord
  <2> HIDE DEF new
  <2>3. ThreadOK(t, new, array, typeUID)
    BY <1>1, <2>2 DEF ThreadOK, RequestFlow, Target, ListedLabels, ListCalls, FriendCalls, BindLabels, BindReturns
  <2> QED
    BY <1>4, <2>1, <2>3, ThreadStep DEF SendCheck
<1>5. ASSUME NEW due \in s.backCheckUsers,
             checkFriendsChan' = Append(checkFriendsChan, [user |-> due[3], other |-> s.user]),
             thread' = [thread EXCEPT ![t].backCheckUsers = @ \ {due}]
      PROVE  TypeInv'
  <2> DEFINE new == [s EXCEPT !.backCheckUsers = @ \ {due}]
             check == [user |-> due[3], other |-> s.user]
  <2>1. thread' = [thread EXCEPT ![t] = new]
    BY <1>5
  <2>2. new \in ThreadRecord /\ new.at = "send" /\ new.user = s.user
    BY <1>1, <1>2 DEF ThreadRecord
  <2> HIDE DEF new
  <2>3. ThreadOK(t, new, array, typeUID)
    BY <1>1, <1>3, <2>2 DEF ThreadOK, RequestFlow, Target, ListCalls, FriendCalls
  <2>4. check \in [user : Users, other : Users]
    BY <1>2 DEF ThreadRecord
  <2> HIDE DEF check
  <2>5. QueueOK'
    BY <1>5, <2>4 DEF TypeInv, QueueOK, check
  <2>6. MemoryOK' /\ UNCHANGED list
    BY DEF TypeInv, MemoryOK, SendCheck, memory, process
  <2> QED
    BY <2>1, <2>3, <2>5, <2>6, MemoryStep
<1> QED
  BY <1>4, <1>5 DEF SendCheck

\* A new thread, that does nothing.
LEMMA RestingThread ==
  ASSUME NEW t \in Threads, NEW l \in {"idle", "done"}, t = Checker => l = "idle",
         NEW u, u = IF t = Checker THEN NoUID ELSE input[t].uid,
         NEW arr, NEW uids
  PROVE  ThreadOK(t, Thread(l, u), arr, uids)
<1> DEFINE new == Thread(l, u)
<1>1. u \in Users \cup {NoUID}
  BY RequestFacts DEF Threads
<1>2. <<>> \in Seq(Friend) /\ [a |-> 0, len |-> 0] \in Slices
  BY DEF Slices
<1>3. new \in ThreadRecord /\ new.at = l /\ new.user = u /\ new.i = 1
  BY <1>1, <1>2 DEF Thread, ThreadRecord, Labels
<1> HIDE DEF new
<1>4. ThreadOK(t, new, arr, uids)
  <2>1. CASE t = Checker
    BY <1>3, <2>1 DEF ThreadOK, CheckerFlow, FriendCalls
  <2>2. CASE t # Checker
    BY <1>3, <2>2 DEF ThreadOK, RequestFlow, Target, ListedLabels, ListCalls, FriendCalls, BindLabels, BindReturns
  <2> QED
    BY <2>1, <2>2
<1> QED
  BY <1>4 DEF new

LEMMA StoreUserTyped ==
  ASSUME TypeInv, NEW t \in Threads, StoreUser(t)
  PROVE  TypeInv'
<1> DEFINE s == thread[t]
           account == [bindApp |-> bindApp[s.user], friends |-> friends[s.user]]
           l == IF t = Checker THEN "idle" ELSE "done"
           u == IF t = Checker THEN NoUID ELSE s.user
           new == Thread(l, u)
<1>1. s.at = "store" /\ s.user \in Users
  BY ActiveUser DEF StoreUser
<1>2. ThreadOK(t, s, array, typeUID)
  BY DEF TypeInv
<1>3. /\ stored' = [stored EXCEPT ![s.user] = account] \/ stored' = stored
      /\ unsaved' = unsaved \ {s.user} \/ unsaved' = unsaved \cup {s.user}
  BY DEF StoreUser, Saved, NotSaved
<1>4. thread' = [thread EXCEPT ![t] = new]
  BY DEF StoreUser
<1>5. account \in Account
  BY <1>1 DEF TypeInv, MemoryOK, Account
<1> HIDE DEF account
<1>6. MemoryOK' /\ QueueOK' /\ UNCHANGED list
  <2>1. stored' \in [Users -> {Missing} \cup Account]
    BY <1>1, <1>3, <1>5 DEF TypeInv, MemoryOK
  <2>2. unsaved' \subseteq Users
    BY <1>1, <1>3 DEF TypeInv, MemoryOK
  <2> QED
    BY <2>1, <2>2 DEF TypeInv, MemoryOK, QueueOK, StoreUser, memory
<1>7. u = IF t = Checker THEN NoUID ELSE input[t].uid
  BY <1>2 DEF ThreadOK, RequestFlow
<1>8. l \in {"idle", "done"} /\ (t = Checker => l = "idle")
  OBVIOUS
<1> HIDE DEF l, u
<1>9. ThreadOK(t, new, array, typeUID)
  BY <1>7, <1>8, RestingThread
<1> HIDE DEF new
<1> QED
  BY <1>4, <1>6, <1>9, MemoryStep

LEMMA SetTpIDTyped ==
  ASSUME TypeInv, NEW t \in Threads, SetTpID(t)
  PROVE  TypeInv'
<1> DEFINE s == thread[t]
           next == IF input[t].contacts = <<>> THEN "merge" ELSE "exists"
           new == [s EXCEPT !.at = "get", !.ret = next]
<1>1. t \in Requests /\ t # Checker /\ RequestFlow(t, s) /\ s.at = "bind"
  BY IsRequest DEF SetTpID, FriendCalls
<1>2. ThreadOK(t, s, array, typeUID) /\ s \in ThreadRecord /\ s.user \in Users
  BY <1>1, RequestFacts DEF TypeInv, ThreadOK, RequestFlow
<1>3. /\ typeUID # Missing /\ input[t].op = "bind"
      /\ input[t].tpID \in TpIDs \cup {NoTpID} /\ input[t].contacts \in Seq(TpIDs \cup {NoTpID})
  BY <1>1, <1>2, RequestFacts DEF ThreadOK, RequestFlow, Target, ListCalls, FriendCalls, ListedLabels, BindLabels
<1>4. thread' = [thread EXCEPT ![t] = new]
  BY DEF SetTpID, Call
<1>5. s.i = 1
  BY <1>1 DEF RequestFlow, Target, ListCalls, FriendCalls
<1>6. MemoryOK' /\ QueueOK' /\ UNCHANGED list
  <2>1. bindApp' \in [Users -> TpIDs \cup {NoTpID}] /\ everBound' \in [Users -> SUBSET TpIDs]
    <3>1. CASE input[t].tpID = NoTpID
      BY <3>1 DEF TypeInv, MemoryOK, SetTpID
    <3>2. CASE input[t].tpID # NoTpID
      BY <1>2, <1>3, <3>2 DEF TypeInv, MemoryOK, SetTpID
    <3> QED
      BY <3>1, <3>2
  <2> QED
    BY <2>1 DEF TypeInv, MemoryOK, QueueOK, SetTpID, process
<1>7. next \in {"merge", "exists"} /\ (next = "exists" => 1 \in DOMAIN input[t].contacts)
  BY <1>3
<1> HIDE DEF next
<1>8. /\ new \in ThreadRecord /\ new.at = "get" /\ new.ret = next
      /\ new.user = s.user /\ new.i = 1
  BY <1>2, <1>5, <1>7, LabelFacts DEF ThreadRecord
<1> HIDE DEF new
<1>9. ThreadOK(t, new, array, typeUID)
  BY <1>1, <1>3, <1>7, <1>8 DEF ThreadOK, RequestFlow, Target, ListCalls, FriendCalls
<1> QED
  BY <1>4, <1>6, <1>9, MemoryStep

LEMMA RemoveTpIDTyped ==
  ASSUME TypeInv, NEW t \in Threads, RemoveTpID(t)
  PROVE  TypeInv'
<1> DEFINE s == thread[t]
           new == [s EXCEPT !.at = "forget"]
<1>1. t \in Requests /\ t # Checker /\ RequestFlow(t, s) /\ s.at = "unbind"
  BY IsRequest DEF RemoveTpID, FriendCalls
<1>2. s \in ThreadRecord /\ s.user \in Users
  BY <1>1, RequestFacts DEF TypeInv, ThreadOK, RequestFlow
<1>3. thread' = [thread EXCEPT ![t] = new] /\ bindApp' = [bindApp EXCEPT ![s.user] = NoTpID]
  BY DEF RemoveTpID, Goto
<1>4. MemoryOK' /\ QueueOK' /\ UNCHANGED list
  BY <1>2, <1>3 DEF TypeInv, MemoryOK, QueueOK, RemoveTpID, process
<1>5. new \in ThreadRecord /\ new.at = "forget" /\ new.user = s.user
  BY <1>2, LabelFacts DEF ThreadRecord
<1> HIDE DEF new
<1>6. ThreadOK(t, new, array, typeUID)
  BY <1>1, <1>5 DEF ThreadOK, RequestFlow, Target, ListedLabels, ListCalls, FriendCalls, BindLabels, BindReturns
<1> QED
  BY <1>3, <1>4, <1>6, MemoryStep

LEMMA RemoveFriendsTyped ==
  ASSUME TypeInv, NEW t \in Threads, RemoveFriends(t)
  PROVE  TypeInv'
<1> DEFINE s == thread[t]
           new == [s EXCEPT !.at = "uids", !.ret = "remove"]
<1>1. t \in Requests /\ t # Checker /\ RequestFlow(t, s) /\ s.at = "forget"
  BY IsRequest DEF RemoveFriends, FriendCalls
<1>2. s \in ThreadRecord /\ s.user \in Users
  BY <1>1, RequestFacts DEF TypeInv, ThreadOK, RequestFlow
<1>3. thread' = [thread EXCEPT ![t] = new] /\ friends' = [friends EXCEPT ![s.user] = Missing]
  BY DEF RemoveFriends, Call
<1>4. MemoryOK' /\ QueueOK' /\ UNCHANGED list
  BY <1>2, <1>3, FriendsWritten DEF FriendsSet, RemoveFriends
<1>5. new \in ThreadRecord /\ new.at = "uids" /\ new.ret = "remove" /\ new.user = s.user
  BY <1>2, LabelFacts DEF ThreadRecord
<1> HIDE DEF new
<1>6. ThreadOK(t, new, array, typeUID)
  BY <1>1, <1>5 DEF ThreadOK, RequestFlow, Target, ListedLabels, ListCalls, FriendCalls, BindLabels, BindReturns
<1> QED
  BY <1>3, <1>4, <1>6, MemoryStep

LEMMA StartWorkTyped ==
  ASSUME TypeInv, NEW t \in Requests, StartWork(t)
  PROVE  TypeInv'
<1> DEFINE s == thread[t]
           new == [s EXCEPT !.at = "uids", !.ret = "append"]
<1>1. t \in Threads /\ t # Checker /\ input[t].uid \in Users /\ input[t].op = "bind"
  BY RequestFacts DEF StartWork
<1>2. s \in ThreadRecord /\ RequestFlow(t, s)
  BY <1>1 DEF TypeInv, ThreadOK
<1>3. thread' = [thread EXCEPT ![t] = new] /\ users' = users \cup {input[t].uid}
  BY DEF StartWork, Call
<1>4. MemoryOK' /\ QueueOK' /\ UNCHANGED list
  BY <1>1, <1>3 DEF TypeInv, MemoryOK, QueueOK, StartWork, process
<1>5. /\ new \in ThreadRecord /\ new.at = "uids" /\ new.ret = "append"
      /\ new.user = s.user /\ new.i = s.i
  BY <1>2, LabelFacts DEF ThreadRecord
<1> HIDE DEF new
<1>6. s.user = input[t].uid /\ s.i = 1
  BY <1>2 DEF RequestFlow, Target, ListCalls, FriendCalls, StartWork, Begins
<1>7. ThreadOK(t, new, array, typeUID)
  BY <1>1, <1>5, <1>6 DEF ThreadOK, RequestFlow, Target, ListedLabels, ListCalls, FriendCalls, BindLabels, BindReturns
<1> QED
  BY <1>1, <1>3, <1>4, <1>7, MemoryStep

LEMMA UnbindAccountTyped ==
  ASSUME TypeInv, NEW t \in Requests, UnbindAccount(t)
  PROVE  TypeInv'
<1> DEFINE s == thread[t]
           next == IF input[t].uid \in users THEN "unbind" ELSE "done"
           new == [s EXCEPT !.at = next]
<1>1. t \in Threads /\ t # Checker
  BY RequestFacts
<1>2. s \in ThreadRecord /\ RequestFlow(t, s)
  BY <1>1 DEF TypeInv, ThreadOK
<1>3. thread' = [thread EXCEPT ![t] = new]
  BY DEF UnbindAccount, Goto
<1>4. next \in {"unbind", "done"}
  OBVIOUS
<1> HIDE DEF next
<1>5. new \in ThreadRecord /\ new.at = next /\ new.user = s.user
  BY <1>2, <1>4, LabelFacts DEF ThreadRecord
<1> HIDE DEF new
<1>6. ThreadOK(t, new, array, typeUID)
  BY <1>1, <1>2, <1>4, <1>5 DEF ThreadOK, RequestFlow, Target, ListedLabels, ListCalls, FriendCalls, BindLabels, BindReturns
<1> QED
  BY <1>1, <1>3, <1>6, ThreadStep DEF UnbindAccount

LEMMA TakeCheckTyped ==
  ASSUME TypeInv, TakeCheck
  PROVE  TypeInv'
<1> DEFINE check == Head(checkFriendsChan)
           base == Thread("jerry", check.user)
           new == [base EXCEPT !.jerry = check.other]
<1>1. Checker \in Threads
  BY DEF Threads
<1>2. thread' = [thread EXCEPT ![Checker] = new] /\ checkFriendsChan' = Tail(checkFriendsChan)
  BY DEF TakeCheck
<1>3. /\ checkFriendsChan \in Seq([user : Users, other : Users])
      /\ checkFriendsChan # <<>>
  BY DEF TypeInv, QueueOK, TakeCheck
<1>4. check \in [user : Users, other : Users] /\ QueueOK'
  <2> DEFINE Due == [user : Users, other : Users]
  <2>1. checkFriendsChan \in Seq(Due) /\ checkFriendsChan # <<>>
    BY <1>3
  <2> HIDE DEF Due
  <2>2. check \in Due /\ Tail(checkFriendsChan) \in Seq(Due)
    BY <2>1
  <2> QED
    BY <1>2, <2>2 DEF QueueOK, Due
<1> HIDE DEF check
<1>5. MemoryOK' /\ UNCHANGED list
  BY DEF TypeInv, MemoryOK, TakeCheck, memory, process
<1>6. /\ new \in ThreadRecord /\ new.at = "jerry"
      /\ new.user = check.user /\ new.jerry = check.other
  <2>1. <<>> \in Seq(Friend) /\ [a |-> 0, len |-> 0] \in Slices
    BY DEF Slices
  <2> QED
    BY <1>4, <2>1 DEF Thread, ThreadRecord, Labels
<1> HIDE DEF new
<1>7. ThreadOK(Checker, new, array, typeUID)
  BY <1>4, <1>6 DEF ThreadOK, CheckerFlow, FriendCalls
<1> QED
  BY <1>1, <1>2, <1>4, <1>5, <1>7, MemoryStep

LEMMA GetJerryTpIDTyped ==
  ASSUME TypeInv, GetJerryTpID
  PROVE  TypeInv'
<1> DEFINE s == thread[Checker]
           tpID == bindApp[s.jerry]
           new == [s EXCEPT !.jerryTpID = tpID, !.at = "get", !.ret = "link"]
<1>1. Checker \in Threads
  BY DEF Threads
<1>2. s \in ThreadRecord /\ s.user \in Users /\ s.jerry \in Users
  BY <1>1 DEF TypeInv, ThreadOK, CheckerFlow, GetJerryTpID
<1>3. thread' = [thread EXCEPT ![Checker] = new]
  BY DEF GetJerryTpID
<1>4. tpID \in TpIDs \cup {NoTpID}
  BY <1>2 DEF TypeInv, MemoryOK
<1> HIDE DEF tpID
<1>5. /\ new \in ThreadRecord /\ new.at = "get" /\ new.ret = "link"
      /\ new.user = s.user /\ new.jerry = s.jerry
  BY <1>2, <1>4, LabelFacts DEF ThreadRecord
<1> HIDE DEF new
<1>6. ThreadOK(Checker, new, array, typeUID)
  BY <1>2, <1>5 DEF ThreadOK, CheckerFlow, FriendCalls
<1> QED
  BY <1>1, <1>3, <1>6, ThreadStep DEF GetJerryTpID

LEMMA CheckFriendTyped ==
  ASSUME TypeInv, CheckFriend
  PROVE  TypeInv'
<1> DEFINE s == thread[Checker]
           LinkedTo(item) == IF item.TpID = s.jerryTpID THEN [item EXCEPT !.UID = s.jerry] ELSE item
           linked == [k \in DOMAIN s.old |-> LinkedTo(s.old[k])]
           f == IF s.jerryTpID = NoTpID THEN <<>> ELSE linked
           new == [s EXCEPT !.at = "store"]
<1>1. Checker \in Threads
  BY DEF Threads
<1>2. s \in ThreadRecord /\ s.user \in Users /\ s.jerry \in Users
  BY <1>1 DEF TypeInv, ThreadOK, CheckerFlow, CheckFriend
<1>3. friends' = [friends EXCEPT ![s.user] = f] /\ thread' = [thread EXCEPT ![Checker] = new]
  BY DEF CheckFriend, LinkJerry, Goto
<1>4. s.old \in Seq(Friend)
  BY <1>2 DEF ThreadRecord
<1>5. linked \in Seq(Friend)
  <2>1. DOMAIN s.old = 1 .. Len(s.old) /\ Len(s.old) \in Nat
        /\ \A k \in DOMAIN s.old : s.old[k] \in Friend
    BY <1>4
  <2>2. ASSUME NEW item \in Friend
        PROVE  LinkedTo(item) \in Friend
    BY <1>2 DEF Friend
  <2> HIDE DEF LinkedTo
  <2>3. linked \in [1 .. Len(s.old) -> Friend]
    BY <2>1, <2>2
  <2> HIDE DEF linked
  <2> QED
    BY <2>1, <2>3
<1> HIDE DEF linked
<1>6. f \in FriendsSet
  <2>1. <<>> \in Seq(Friend)
    OBVIOUS
  <2> QED
    BY <1>5, <2>1 DEF FriendsSet
<1> HIDE DEF f
<1>7. MemoryOK' /\ QueueOK' /\ UNCHANGED list
  BY <1>2, <1>3, <1>6, FriendsWritten DEF CheckFriend
<1>8. new \in ThreadRecord /\ new.at = "store" /\ new.user = s.user /\ new.jerry = s.jerry
  BY <1>2, LabelFacts DEF ThreadRecord
<1> HIDE DEF new
<1>9. ThreadOK(Checker, new, array, typeUID)
  BY <1>2, <1>8 DEF ThreadOK, CheckerFlow, FriendCalls
<1> QED
  BY <1>1, <1>3, <1>7, <1>9, MemoryStep

LEMMA RestartTyped ==
  ASSUME TypeInv, Restart
  PROVE  TypeInv'
<1> DEFINE S == {u \in Users : Bound(u)}
           uids == SetToSeq(S)
<1>1. ASSUME NEW u \in Users, stored[u] # Missing
      PROVE  stored[u].bindApp \in TpIDs \cup {NoTpID} /\ stored[u].friends \in FriendsSet
  BY <1>1 DEF TypeInv, MemoryOK, Account
<1>2. users' = {u \in Users : stored[u] # Missing}
  BY DEF Restart
<1>3. bindApp' \in [Users -> TpIDs \cup {NoTpID}]
  <2>1. \A u \in Users : (IF Bound(u) THEN stored[u].bindApp ELSE NoTpID) \in TpIDs \cup {NoTpID}
    BY <1>1 DEF Bound
  <2> QED
    BY <2>1 DEF Restart
<1>4. friends' \in [Users -> FriendsSet]
  <2>1. \A u \in Users : (IF u \in users' THEN stored[u].friends ELSE Missing) \in FriendsSet
    BY <1>1, <1>2 DEF FriendsSet
  <2> QED
    BY <2>1 DEF Restart
<1>5. MemoryOK'
  <2>1. restarts' \in 0 .. MaxRestarts
    BY RelationAssumption DEF RelationAssumption, TypeInv, MemoryOK, Restart
  <2> QED
    BY <1>2, <1>3, <1>4, <2>1 DEF TypeInv, MemoryOK, Restart
<1>6. QueueOK'
  <2>1. <<>> \in Seq([user : Users, other : Users])
    OBVIOUS
  <2> QED
    BY <2>1 DEF QueueOK, Restart
<1>7. uids \in Seq(Users)
  <2>1. IsFiniteSet(S)
    BY RelationAssumption, FS_Subset DEF RelationAssumption
  <2> HIDE DEF S
  <2>2. uids \in Seq(S)
    BY <2>1, SetToSeqType
  <2> HIDE DEF uids
  <2>3. S \subseteq Users
    BY DEF S
  <2> QED
    BY <2>2, <2>3
<1>8. /\ array' = IF uids = <<>> THEN <<>> ELSE <<uids>>
      /\ typeUID' = IF uids = <<>> THEN Missing ELSE [a |-> 1, len |-> Len(uids)]
  BY DEF Restart
<1> HIDE DEF uids
<1>9. ListOK'
  <2>1. CASE uids = <<>>
    <3>1. <<>> \in Seq(Seq(Users))
      OBVIOUS
    <3> QED
      BY <1>8, <2>1, <3>1 DEF ListOK
  <2>2. CASE uids # <<>>
    <3>1. array' = <<uids>> /\ typeUID' = [a |-> 1, len |-> Len(uids)]
      BY <1>8, <2>2
    <3>2. Len(uids) \in Nat
      BY <1>7
    <3> QED
      BY <1>7, <3>1, <3>2 DEF ListOK, InArray, Slices
  <2> QED
    BY <2>1, <2>2
<1>10. ASSUME NEW t \in Threads
       PROVE  ThreadOK(t, thread'[t], array', typeUID')
  <2> DEFINE l == IF t = Checker \/ thread[t].at = "idle" THEN "idle" ELSE "done"
             u == IF t = Checker THEN NoUID ELSE input[t].uid
  <2>1. thread'[t] = Thread(l, u)
    BY DEF Restart
  <2>2. l \in {"idle", "done"} /\ (t = Checker => l = "idle")
    OBVIOUS
  <2> QED
    BY <2>1, <2>2, RestingThread
<1>11. DOMAIN thread' = Threads
  BY DEF Restart
<1> QED
  BY <1>5, <1>6, <1>9, <1>10, <1>11 DEF TypeInv

LEMMA TypeInvInit == Init => TypeInv
<1> SUFFICES ASSUME Init
             PROVE  TypeInv
  OBVIOUS
<1>1. MemoryOK
  BY RelationAssumption DEF RelationAssumption, Init, MemoryOK, FriendsSet
<1>2. QueueOK /\ ListOK
  <2>1. <<>> \in Seq([user : Users, other : Users]) /\ <<>> \in Seq(Seq(Users))
    OBVIOUS
  <2> QED
    BY <2>1 DEF Init, QueueOK, ListOK
<1>3. ASSUME NEW t \in Threads
      PROVE  ThreadOK(t, thread[t], array, typeUID)
  <2> DEFINE u == IF t = Checker THEN NoUID ELSE input[t].uid
  <2>1. thread[t] = Thread("idle", u)
    BY DEF Init
  <2> QED
    BY <2>1, RestingThread
<1>4. DOMAIN thread = Threads
  BY DEF Init
<1> QED
  BY <1>1, <1>2, <1>3, <1>4 DEF TypeInv

LEMMA TypeInvStep == TypeInv /\ [Next]_vars => TypeInv'
<1> SUFFICES ASSUME TypeInv, [Next]_vars
             PROVE  TypeInv'
  OBVIOUS
<1>1. ASSUME NEW t \in Threads, Step(t)
      PROVE  TypeInv'
  BY <1>1, GetUIDsTyped, MakeUIDsTyped, RereadUIDsTyped, InTypeUIDMapTyped, AppendUIDTyped,
     RemoveUIDTyped, GetFriendsTyped, MakeFriendsTyped, RereadFriendsTyped, CheckExistsTyped,
     AppendFriendsTyped, ScanAllFriendsTyped, SendCheckTyped, StoreUserTyped, SetTpIDTyped,
     RemoveTpIDTyped, RemoveFriendsTyped
     DEF Step
<1>2. CASE Check
  <2>1. Checker \in Threads
    BY DEF Threads
  <2> QED
    BY <1>1, <1>2, <2>1, TakeCheckTyped, GetJerryTpIDTyped, CheckFriendTyped DEF Check
<1>3. ASSUME NEW r \in Requests, StartWork(r) \/ UnbindAccount(r) \/ Step(r)
      PROVE  TypeInv'
  <2>1. r \in Threads
    BY DEF Threads
  <2> QED
    BY <1>1, <1>3, <2>1, StartWorkTyped, UnbindAccountTyped
<1>4. CASE Restart
  BY <1>4, RestartTyped
<1>5. CASE UNCHANGED vars
  <2>1. /\ UNCHANGED <<users, bindApp, friends, array, typeUID, checkFriendsChan, stored, thread>>
        /\ UNCHANGED <<everBound, unsaved, restarts>>
    BY <1>5 DEF vars, memory, list, process
  <2>2. MemoryOK' /\ QueueOK' /\ ListOK'
    BY <2>1 DEF TypeInv, MemoryOK, QueueOK, ListOK, InArray
  <2> QED
    BY <2>1, <2>2 DEF TypeInv
<1> QED
  BY <1>2, <1>3, <1>4, <1>5 DEF Next

LEMMA TypeInvAlways == Spec => []TypeInv
<1> QED
  BY TypeInvInit, TypeInvStep, PTL DEF Spec

\* The users, the lists and the database keep their types, and a slice lies within
\* its backing array, however the reads and writes of the lists interleave
\* (container.go:28-78, relation.go:194-196).
THEOREM TypeCorrect == Spec => []TypeOK
<1>1. TypeInv => TypeOK
  <2> SUFFICES ASSUME TypeInv
               PROVE  TypeOK
    OBVIOUS
  <2>1. /\ users \subseteq Users /\ bindApp \in [Users -> TpIDs \cup {NoTpID}]
        /\ everBound \in [Users -> SUBSET TpIDs] /\ unsaved \subseteq Users /\ restarts \in 0 .. MaxRestarts
        /\ checkFriendsChan \in Seq([user : Users, other : Users])
    BY DEF TypeInv, MemoryOK, QueueOK
  <2>2. \A u \in Users : FriendsOrMissing(friends[u])
    BY DEF TypeInv, MemoryOK, FriendsSet, FriendsOrMissing
  <2>3. \A u \in Users : stored[u] # Missing =>
          stored[u].bindApp \in TpIDs \cup {NoTpID} /\ FriendsOrMissing(stored[u].friends)
    BY DEF TypeInv, MemoryOK, Account, FriendsSet, FriendsOrMissing
  <2>4. \A a \in DOMAIN array : array[a] \in Seq(Users)
    BY DEF TypeInv, ListOK
  <2>5. typeUID # Missing => typeUID.a \in DOMAIN array /\ typeUID.len \in 0 .. Len(array[typeUID.a])
    <3> SUFFICES ASSUME typeUID # Missing
                 PROVE  typeUID.a \in DOMAIN array /\ typeUID.len \in 0 .. Len(array[typeUID.a])
      OBVIOUS
    <3>1. typeUID \in Slices /\ typeUID.a \in DOMAIN array /\ typeUID.len <= Len(array[typeUID.a])
      BY DEF TypeInv, ListOK, InArray
    <3>2. typeUID.len \in Nat /\ Len(array[typeUID.a]) \in Nat
      BY <2>4, <3>1 DEF Slices
    <3> QED
      BY <3>1, <3>2
  <2> QED
    BY <2>1, <2>2, <2>3, <2>4, <2>5 DEF TypeOK
<1> QED
  BY <1>1, TypeInvAlways, PTL

-----------------------------------------------------------------------------
(* The database holds what is in memory. *)

\* A thread at a call returns to a label of its own work.
LEMMA ReturnsBusy ==
  ASSUME TypeInv, NEW t \in Threads, thread[t].at \in ListCalls \cup FriendCalls
  PROVE  thread[t].ret \notin {"idle", "done"}
<1>1. ThreadOK(t, thread[t], array, typeUID)
  BY DEF TypeInv
<1>2. CASE t = Checker
  BY <1>1, <1>2 DEF ThreadOK, CheckerFlow, ListCalls, FriendCalls
<1>3. CASE t # Checker
  BY <1>1, <1>3 DEF ThreadOK, RequestFlow, ListCalls, FriendCalls
<1> QED
  BY <1>2, <1>3

\* What a thread does at a label changes no other thread, and no other user than
\* its own; until it stores that user it is busy with it.
Works(t) ==
  /\ \A o \in Threads \ {t} : thread'[o] = thread[o]
  /\ Busy(t)
  /\ users' = users
  /\ \A u \in Users \ {thread[t].user} :
       /\ bindApp'[u] = bindApp[u] /\ friends'[u] = friends[u] /\ stored'[u] = stored[u]
       /\ u \in unsaved => u \in unsaved'
  /\ \/ Busy(t)' /\ thread'[t].user = thread[t].user
     \/ LET u == thread[t].user
        IN stored'[u] = [bindApp |-> bindApp'[u], friends |-> friends'[u]] \/ u \in unsaved'

LEMMA ListWorks ==
  ASSUME TypeInv, NEW t \in Threads,
         GetUIDs(t) \/ MakeUIDs(t) \/ RereadUIDs(t) \/ InTypeUIDMap(t) \/ AppendUID(t) \/ RemoveUID(t)
  PROVE  Works(t)
<1>1. DOMAIN thread = Threads /\ thread[t] \in ThreadRecord
  BY DEF TypeInv, ThreadOK
<1>2. UNCHANGED <<users, bindApp, friends, stored, unsaved>>
  BY DEF GetUIDs, MakeUIDs, RereadUIDs, InTypeUIDMap, AppendUID, RemoveUID, memory, process
<1>3. \A o \in Threads \ {t} : thread'[o] = thread[o]
  BY <1>1 DEF GetUIDs, MakeUIDs, RereadUIDs, InTypeUIDMap, AppendUID, RemoveUID, Goto
<1>4. Busy(t) /\ Busy(t)' /\ thread'[t].user = thread[t].user
  <2>1. CASE InTypeUIDMap(t)
    <3>1. thread[t].ret \notin {"idle", "done"} /\ thread[t].at = "in"
      BY <2>1, ReturnsBusy DEF InTypeUIDMap, ListCalls
    <3>2. thread'[t].at = thread[t].ret /\ thread'[t].user = thread[t].user
      BY <1>1, <2>1 DEF InTypeUIDMap, ThreadRecord
    <3> QED
      BY <3>1, <3>2 DEF Busy
  <2>2. CASE GetUIDs(t)
    BY <1>1, <2>2 DEF GetUIDs, ThreadRecord, Busy
  <2>3. CASE MakeUIDs(t) \/ AppendUID(t) \/ RemoveUID(t)
    BY <1>1, <2>3 DEF MakeUIDs, AppendUID, RemoveUID, Goto, ThreadRecord, Busy
  <2>4. CASE RereadUIDs(t)
    BY <1>1, <2>4 DEF RereadUIDs, ThreadRecord, Busy
  <2> QED
    BY <2>1, <2>2, <2>3, <2>4
<1> QED
  BY <1>2, <1>3, <1>4 DEF Works

LEMMA FriendCallWorks ==
  ASSUME TypeInv, NEW t \in Threads, GetFriends(t) \/ MakeFriends(t) \/ RereadFriends(t)
  PROVE  Works(t)
<1>1. DOMAIN thread = Threads /\ thread[t] \in ThreadRecord /\ DOMAIN friends = Users
  BY DEF TypeInv, ThreadOK, MemoryOK
<1>2. UNCHANGED <<users, bindApp, stored, unsaved>>
  BY DEF GetFriends, MakeFriends, RereadFriends, memory, process
<1>3. \A u \in Users \ {thread[t].user} : friends'[u] = friends[u]
  BY <1>1 DEF GetFriends, MakeFriends, RereadFriends, memory
<1>4. \A o \in Threads \ {t} : thread'[o] = thread[o]
  BY <1>1 DEF GetFriends, MakeFriends, RereadFriends, Goto
<1>5. Busy(t) /\ Busy(t)' /\ thread'[t].user = thread[t].user
  <2>1. thread[t].ret \notin {"idle", "done"} /\ Busy(t)
    BY ReturnsBusy DEF GetFriends, MakeFriends, RereadFriends, FriendCalls, Busy
  <2>2. CASE GetFriends(t)
    BY <1>1, <2>1, <2>2 DEF GetFriends, ThreadRecord, Busy
  <2>3. CASE MakeFriends(t)
    BY <1>1, <2>1, <2>3 DEF MakeFriends, Goto, ThreadRecord, Busy
  <2>4. CASE RereadFriends(t)
    BY <1>1, <2>1, <2>4 DEF RereadFriends, ThreadRecord, Busy
  <2> QED
    BY <2>2, <2>3, <2>4
<1> QED
  BY <1>2, <1>3, <1>4, <1>5 DEF Works

LEMMA CheckExistsWorks ==
  ASSUME TypeInv, NEW t \in Threads, CheckExists(t)
  PROVE  Works(t)
<1>1. DOMAIN thread = Threads /\ thread[t] \in ThreadRecord
  BY DEF TypeInv, ThreadOK
<1>2. thread[t].at = "exists" /\ UNCHANGED <<users, bindApp, friends, stored, unsaved>>
  BY CheckExistsFacts DEF memory, process
<1>3. PICK merged, next : Prepared(t, merged, next)
  BY CheckExistsFacts
<1>4. /\ \A o \in Threads \ {t} : thread'[o] = thread[o]
      /\ thread'[t].at = "get" /\ thread'[t].user = thread[t].user
  BY <1>1, <1>3 DEF Prepared, Preparing, ThreadRecord
<1> QED
  BY <1>2, <1>4 DEF Works, Busy

LEMMA ContactWorks ==
  ASSUME TypeInv, NEW t \in Threads,
         AppendFriends(t) \/ ScanAllFriends(t) \/ SendCheck(t)
  PROVE  Works(t)
<1>1. DOMAIN thread = Threads /\ thread[t] \in ThreadRecord /\ DOMAIN friends = Users
  BY DEF TypeInv, ThreadOK, MemoryOK
<1>2. UNCHANGED <<users, bindApp, stored, unsaved>>
  BY DEF AppendFriends, ScanAllFriends, SendCheck, memory, process
<1>3. \A u \in Users \ {thread[t].user} : friends'[u] = friends[u]
  BY <1>1 DEF AppendFriends, ScanAllFriends, LinkFriends, SendCheck, memory
<1>4. \A o \in Threads \ {t} : thread'[o] = thread[o]
  BY <1>1 DEF AppendFriends, ScanAllFriends, SendCheck, Goto, Call
<1>5. Busy(t) /\ Busy(t)' /\ thread'[t].user = thread[t].user
  <2>1. CASE AppendFriends(t)
    BY <1>1, <2>1 DEF AppendFriends, Call, ThreadRecord, Busy
  <2>2. CASE ScanAllFriends(t)
    BY <1>1, <2>2 DEF ScanAllFriends, ThreadRecord, Busy
  <2>3. CASE SendCheck(t)
    BY <1>1, <2>3 DEF SendCheck, Goto, ThreadRecord, Busy
  <2> QED
    BY <2>1, <2>2, <2>3
<1> QED
  BY <1>2, <1>3, <1>4, <1>5 DEF Works

LEMMA BindingWorks ==
  ASSUME TypeInv, NEW t \in Threads, SetTpID(t) \/ RemoveTpID(t) \/ RemoveFriends(t)
  PROVE  Works(t)
<1>1. /\ DOMAIN thread = Threads /\ thread[t] \in ThreadRecord
      /\ DOMAIN bindApp = Users /\ DOMAIN friends = Users
  BY DEF TypeInv, ThreadOK, MemoryOK
<1>2. UNCHANGED <<users, stored, unsaved>>
  BY DEF SetTpID, RemoveTpID, RemoveFriends, process
<1>3. \A u \in Users \ {thread[t].user} : bindApp'[u] = bindApp[u] /\ friends'[u] = friends[u]
  BY <1>1 DEF SetTpID, RemoveTpID, RemoveFriends
<1>4. \A o \in Threads \ {t} : thread'[o] = thread[o]
  BY <1>1 DEF SetTpID, RemoveTpID, RemoveFriends, Goto, Call
<1>5. Busy(t) /\ Busy(t)' /\ thread'[t].user = thread[t].user
  <2>1. CASE SetTpID(t)
    BY <1>1, <2>1 DEF SetTpID, Call, ThreadRecord, Busy
  <2>2. CASE RemoveTpID(t)
    BY <1>1, <2>2 DEF RemoveTpID, Goto, ThreadRecord, Busy
  <2>3. CASE RemoveFriends(t)
    BY <1>1, <2>3 DEF RemoveFriends, Call, ThreadRecord, Busy
  <2> QED
    BY <2>1, <2>2, <2>3
<1> QED
  BY <1>2, <1>3, <1>4, <1>5 DEF Works

LEMMA StoreUserWorks ==
  ASSUME TypeInv, NEW t \in Threads, StoreUser(t)
  PROVE  Works(t)
<1> DEFINE s == thread[t]
           account == [bindApp |-> bindApp[s.user], friends |-> friends[s.user]]
<1>1. DOMAIN thread = Threads /\ DOMAIN stored = Users
  BY DEF TypeInv, MemoryOK
<1>2. s.at = "store" /\ s.user \in Users
  BY ActiveUser DEF StoreUser
<1>3. /\ UNCHANGED <<users, bindApp, friends>>
      /\ \/ stored' = [stored EXCEPT ![s.user] = account] /\ unsaved' = unsaved \ {s.user}
         \/ stored' = stored /\ unsaved' = unsaved \cup {s.user}
  BY DEF StoreUser, Saved, NotSaved, memory
<1>4. \A o \in Threads \ {t} : thread'[o] = thread[o]
  BY <1>1 DEF StoreUser
<1>5. /\ stored'[s.user] = account \/ s.user \in unsaved'
      /\ \A u \in Users \ {s.user} : stored'[u] = stored[u] /\ (u \in unsaved => u \in unsaved')
  BY <1>1, <1>2, <1>3
<1> QED
  BY <1>2, <1>3, <1>4, <1>5 DEF Works, Busy

LEMMA CheckWorks ==
  ASSUME TypeInv, GetJerryTpID \/ CheckFriend
  PROVE  Works(Checker)
<1>1. /\ DOMAIN thread = Threads /\ Checker \in Threads /\ thread[Checker] \in ThreadRecord
      /\ DOMAIN friends = Users
  BY DEF TypeInv, ThreadOK, MemoryOK, Threads
<1>2. UNCHANGED <<users, bindApp, stored, unsaved>>
  BY DEF GetJerryTpID, CheckFriend, memory, process
<1>3. \A u \in Users \ {thread[Checker].user} : friends'[u] = friends[u]
  BY <1>1 DEF GetJerryTpID, CheckFriend, LinkJerry, memory
<1>4. \A o \in Threads \ {Checker} : thread'[o] = thread[o]
  BY <1>1 DEF GetJerryTpID, CheckFriend, Goto
<1>5. Busy(Checker) /\ Busy(Checker)' /\ thread'[Checker].user = thread[Checker].user
  BY <1>1 DEF GetJerryTpID, CheckFriend, Goto, ThreadRecord, Busy
<1> QED
  BY <1>2, <1>3, <1>4, <1>5 DEF Works

LEMMA StepWorks ==
  ASSUME TypeInv, NEW t \in Threads, Step(t)
  PROVE  Works(t)
BY ListWorks, FriendCallWorks, CheckExistsWorks, ContactWorks, BindingWorks, StoreUserWorks DEF Step

LEMMA WorksStored ==
  ASSUME TypeInv, StoreInv, NEW t \in Threads, Works(t)
  PROVE  StoreInv'
<1> SUFFICES ASSUME NEW u \in users'
             PROVE  IsStored(u)' \/ u \in unsaved' \/ \E o \in Threads : Busy(o)' /\ thread'[o].user = u
  BY DEF StoreInv
<1>1. u \in users /\ u \in Users
  BY DEF Works, TypeInv, MemoryOK
<1>2. CASE u = thread[t].user
  BY <1>2 DEF Works, IsStored
<1>3. CASE u # thread[t].user
  <2>1. /\ bindApp'[u] = bindApp[u] /\ friends'[u] = friends[u] /\ stored'[u] = stored[u]
        /\ u \in unsaved => u \in unsaved'
    BY <1>1, <1>3 DEF Works
  <2>2. CASE IsStored(u)
    BY <2>1, <2>2 DEF IsStored
  <2>3. ASSUME NEW o \in Threads, Busy(o), thread[o].user = u
        PROVE  Busy(o)' /\ thread'[o].user = u
    <3>1. thread'[o] = thread[o]
      BY <1>3, <2>3 DEF Works
    <3> QED
      BY <2>3, <3>1 DEF Busy
  <2> QED
    BY <1>1, <2>1, <2>2, <2>3 DEF StoreInv
<1> QED
  BY <1>2, <1>3

\* A thread that begins has a user of its own to store at the end.
LEMMA BeginStored ==
  ASSUME TypeInv, StoreInv, NEW t \in Threads, ~Busy(t),
         \A o \in Threads \ {t} : thread'[o] = thread[o],
         UNCHANGED <<bindApp, friends, stored, unsaved>>,
         users' \subseteq users \cup {u \in Users : Busy(t)' /\ thread'[t].user = u}
  PROVE  StoreInv'
<1> SUFFICES ASSUME NEW u \in users'
             PROVE  IsStored(u)' \/ u \in unsaved' \/ \E o \in Threads : Busy(o)' /\ thread'[o].user = u
  BY DEF StoreInv
<1>1. CASE u \in users
  <2>1. CASE IsStored(u)
    BY <2>1 DEF IsStored
  <2>2. ASSUME NEW o \in Threads, Busy(o), thread[o].user = u
        PROVE  Busy(o)' /\ thread'[o].user = u
    <3>1. thread'[o] = thread[o]
      BY <2>2
    <3> QED
      BY <2>2, <3>1 DEF Busy
  <2> QED
    BY <1>1, <2>1, <2>2 DEF StoreInv
<1>2. CASE u \notin users
  BY <1>2
<1> QED
  BY <1>1, <1>2

LEMMA RestartStored ==
  ASSUME TypeInv, Restart
  PROVE  StoreInv'
<1> SUFFICES ASSUME NEW u \in users'
             PROVE  IsStored(u)'
  BY DEF StoreInv
<1>1. u \in Users /\ stored[u] # Missing /\ stored'[u] = stored[u]
  BY DEF Restart
<1>2. stored[u] \in Account
  BY <1>1 DEF TypeInv, MemoryOK
<1>3. bindApp'[u] = stored[u].bindApp
  BY <1>1 DEF Restart, Bound
<1>4. friends'[u] = stored[u].friends
  BY <1>1 DEF Restart
<1> QED
  BY <1>1, <1>2, <1>3, <1>4 DEF IsStored, Account

LEMMA StoreInvStep == TypeInv /\ StoreInv /\ [Next]_vars => StoreInv'
<1> SUFFICES ASSUME TypeInv, StoreInv, [Next]_vars
             PROVE  StoreInv'
  OBVIOUS
<1>1. DOMAIN thread = Threads /\ \A t \in Threads : thread[t] \in ThreadRecord
  BY DEF TypeInv, ThreadOK
<1>2. ASSUME NEW r \in Requests, StartWork(r)
      PROVE  StoreInv'
  <2>1. r \in Threads /\ input[r].uid \in Users /\ r # Checker
    BY RequestFacts
  <2>2. thread[r].user = input[r].uid
    BY <2>1 DEF TypeInv, ThreadOK, RequestFlow
  <2>3. thread' = [thread EXCEPT ![r].at = "uids", ![r].ret = "append"]
        /\ users' = users \cup {input[r].uid}
    BY <1>2 DEF StartWork, Call
  <2>4. ~Busy(r) /\ Busy(r)' /\ thread'[r].user = input[r].uid
    BY <1>1, <1>2, <2>1, <2>2, <2>3 DEF StartWork, Begins, Busy, ThreadRecord
  <2>5. \A o \in Threads \ {r} : thread'[o] = thread[o]
    BY <1>1, <2>3
  <2>6. users' \subseteq users \cup {u \in Users : Busy(r)' /\ thread'[r].user = u}
    BY <2>1, <2>3, <2>4
  <2> QED
    BY <1>2, <2>1, <2>4, <2>5, <2>6, BeginStored DEF StartWork, process
<1>3. ASSUME NEW r \in Requests, UnbindAccount(r)
      PROVE  StoreInv'
  <2>1. r \in Threads
    BY RequestFacts
  <2>2. ~Busy(r) /\ \A o \in Threads \ {r} : thread'[o] = thread[o]
    BY <1>1, <1>3 DEF UnbindAccount, Begins, Busy, Goto
  <2> QED
    BY <1>3, <2>1, <2>2, BeginStored DEF UnbindAccount, memory, process
<1>4. CASE TakeCheck
  <2>1. Checker \in Threads
    BY DEF Threads
  <2>2. ~Busy(Checker) /\ \A o \in Threads \ {Checker} : thread'[o] = thread[o]
    BY <1>1, <1>4 DEF TakeCheck, Busy
  <2> QED
    BY <1>4, <2>1, <2>2, BeginStored DEF TakeCheck, memory, process
<1>5. ASSUME NEW t \in Threads, Step(t)
      PROVE  StoreInv'
  BY <1>5, StepWorks, WorksStored
<1>6. CASE GetJerryTpID \/ CheckFriend
  BY <1>6, CheckWorks, WorksStored DEF Threads
<1>7. CASE Restart
  BY <1>7, RestartStored
<1>8. CASE UNCHANGED vars
  BY <1>8 DEF StoreInv, IsStored, Busy, vars, memory, process
<1> QED
  BY <1>2, <1>3, <1>4, <1>5, <1>6, <1>7, <1>8 DEF Next, Check, Threads

LEMMA StoreInvAlways == Spec => []StoreInv
<1>1. Init => StoreInv
  BY DEF Init, StoreInv
<1>2. TypeInv /\ StoreInv /\ [Next]_vars => StoreInv'
  BY StoreInvStep
<1> QED
  BY <1>1, <1>2, TypeInvAlways, PTL DEF Spec

\* Once nothing is going on, the database holds every user as it is in memory, but for
\* those whose last store failed (storage.go:73-76), whichever requests and checks wrote it at the same time
\* (relation.go:189, 235, 307).
THEOREM StoredAlwaysWhenQuiet == Spec => []StoredWhenQuiet
<1>1. StoreInv => StoredWhenQuiet
  BY DEF StoreInv, StoredWhenQuiet, Quiet, Busy, IsStored
<1> QED
  BY <1>1, StoreInvAlways, PTL

-----------------------------------------------------------------------------
(* Links. *)

\* A step after which the accounts each user had are those before.
LEMMA LinkStep ==
  ASSUME LinkInv, NEW t \in Threads,
         everBound' = everBound,
         \A o \in Threads \ {t} : thread'[o] = thread[o],
         ThreadLinks(thread'[t], everBound),
         \A u \in Users : UserLinks(u, bindApp'[u], friends'[u], everBound),
         UNCHANGED stored, ChecksOthers'
  PROVE  LinkInv'
<1>1. \A o \in Threads : ThreadLinks(thread'[o], everBound')
  BY DEF LinkInv
<1> QED
  BY <1>1 DEF LinkInv

LEMMA LinkThreadStep ==
  ASSUME LinkInv, NEW t \in Threads,
         UNCHANGED <<bindApp, friends, stored, everBound, checkFriendsChan>>,
         \A o \in Threads \ {t} : thread'[o] = thread[o],
         ThreadLinks(thread'[t], everBound)
  PROVE  LinkInv'
<1>1. ChecksOthers'
  BY DEF LinkInv, ChecksOthers
<1>2. \A u \in Users : UserLinks(u, bindApp'[u], friends'[u], everBound)
  BY DEF LinkInv
<1> QED
  BY <1>1, <1>2, LinkStep

\* The thread keeps what links it knows.
KeepsLinks(t) ==
  /\ thread'[t].user = thread[t].user /\ thread'[t].old = thread[t].old
  /\ thread'[t].readyToMerge = thread[t].readyToMerge
  /\ thread'[t].backCheckUsers \subseteq thread[t].backCheckUsers
  /\ thread'[t].jerry = thread[t].jerry /\ thread'[t].jerryTpID = thread[t].jerryTpID

LEMMA KeptLinks ==
  ASSUME LinkInv, NEW t \in Threads, KeepsLinks(t)
  PROVE  ThreadLinks(thread'[t], everBound)
BY DEF LinkInv, ThreadLinks, KeepsLinks

LEMMA ListLinks ==
  ASSUME TypeInv, LinkInv, NEW t \in Threads,
         \/ GetUIDs(t) \/ MakeUIDs(t) \/ RereadUIDs(t) \/ InTypeUIDMap(t) \/ AppendUID(t) \/ RemoveUID(t)
  PROVE  LinkInv'
<1>1. thread[t] \in ThreadRecord /\ DOMAIN thread = Threads
  BY DEF TypeInv, ThreadOK
<1>2. UNCHANGED <<bindApp, friends, stored, everBound, checkFriendsChan>>
  BY DEF GetUIDs, MakeUIDs, RereadUIDs, InTypeUIDMap, AppendUID, RemoveUID, memory
<1>3. \A o \in Threads \ {t} : thread'[o] = thread[o]
  BY ListWorks DEF Works
<1>4. KeepsLinks(t)
  <2>1. CASE GetUIDs(t)
    BY <1>1, <2>1 DEF GetUIDs, KeepsLinks, ThreadRecord
  <2>2. CASE MakeUIDs(t) \/ AppendUID(t) \/ RemoveUID(t)
    BY <1>1, <2>2 DEF MakeUIDs, AppendUID, RemoveUID, Goto, KeepsLinks, ThreadRecord
  <2>3. CASE RereadUIDs(t)
    BY <1>1, <2>3 DEF RereadUIDs, KeepsLinks, ThreadRecord
  <2>4. CASE InTypeUIDMap(t)
    BY <1>1, <2>4 DEF InTypeUIDMap, KeepsLinks, ThreadRecord
  <2> QED
    BY <2>1, <2>2, <2>3, <2>4
<1> QED
  BY <1>2, <1>3, <1>4, KeptLinks, LinkThreadStep

\* A write of one user's contacts, linked as they should be.
LEMMA WrittenLinks ==
  ASSUME TypeInv, LinkInv, NEW v \in Users, NEW f,
         friends' = [friends EXCEPT ![v] = f], UNCHANGED bindApp,
         f # Missing => TrueLinks(v, f, everBound)
  PROVE  \A u \in Users : UserLinks(u, bindApp'[u], friends'[u], everBound)
<1>1. DOMAIN friends = Users
  BY DEF TypeInv, MemoryOK
<1> SUFFICES ASSUME NEW u \in Users
             PROVE  UserLinks(u, bindApp'[u], friends'[u], everBound)
  OBVIOUS
<1>2. UserLinks(u, bindApp[u], friends[u], everBound)
  BY DEF LinkInv
<1>3. CASE u = v
  BY <1>1, <1>2, <1>3 DEF UserLinks
<1>4. CASE u # v
  BY <1>1, <1>2, <1>4 DEF UserLinks
<1> QED
  BY <1>3, <1>4

\* A thread's contacts are those it read.
LEMMA ReadLinks ==
  ASSUME LinkInv, NEW t \in Threads, NEW f,
         TrueLinks(thread[t].user, f, everBound),
         thread'[t].user = thread[t].user, thread'[t].old = f,
         thread'[t].readyToMerge = thread[t].readyToMerge,
         thread'[t].backCheckUsers = thread[t].backCheckUsers,
         thread'[t].jerry = thread[t].jerry, thread'[t].jerryTpID = thread[t].jerryTpID
  PROVE  ThreadLinks(thread'[t], everBound)
BY DEF LinkInv, ThreadLinks

LEMMA FriendCallLinks ==
  ASSUME TypeInv, LinkInv, NEW t \in Threads,
         GetFriends(t) \/ MakeFriends(t) \/ RereadFriends(t)
  PROVE  LinkInv'
<1> DEFINE s == thread[t]
           f == friends[s.user]
<1>1. s \in ThreadRecord /\ DOMAIN thread = Threads
  BY DEF TypeInv, ThreadOK
<1>2. s.user \in Users
  BY ActiveUser DEF GetFriends, MakeFriends, RereadFriends
<1>3. \A o \in Threads \ {t} : thread'[o] = thread[o]
  BY FriendCallWorks DEF Works
<1>4. f # Missing => TrueLinks(s.user, f, everBound)
  BY <1>2 DEF LinkInv, UserLinks
<1>5. CASE GetFriends(t) /\ f = Missing
  <2>1. KeepsLinks(t)
    BY <1>1, <1>5 DEF GetFriends, KeepsLinks, ThreadRecord
  <2> QED
    BY <1>3, <1>5, <2>1, KeptLinks, LinkThreadStep DEF GetFriends, memory
<1>6. CASE GetFriends(t) /\ f # Missing
  <2>1. ThreadLinks(thread'[t], everBound)
    <3>1. /\ thread'[t].user = s.user /\ thread'[t].old = f
          /\ thread'[t].readyToMerge = s.readyToMerge /\ thread'[t].backCheckUsers = s.backCheckUsers
          /\ thread'[t].jerry = s.jerry /\ thread'[t].jerryTpID = s.jerryTpID
      BY <1>1, <1>6 DEF GetFriends, ThreadRecord
    <3> QED
      BY <1>4, <1>6, <3>1, ReadLinks
  <2> QED
    BY <1>3, <1>6, <2>1, LinkThreadStep DEF GetFriends, memory
<1>7. CASE RereadFriends(t)
  <2> DEFINE g == IF f = Missing THEN <<>> ELSE f
  <2>1. TrueLinks(s.user, g, everBound)
    <3>1. DOMAIN <<>> = {}
      OBVIOUS
    <3> QED
      BY <1>4, <3>1 DEF TrueLinks
  <2>2. ThreadLinks(thread'[t], everBound)
    <3>1. /\ thread'[t].user = s.user /\ thread'[t].old = g
          /\ thread'[t].readyToMerge = s.readyToMerge /\ thread'[t].backCheckUsers = s.backCheckUsers
          /\ thread'[t].jerry = s.jerry /\ thread'[t].jerryTpID = s.jerryTpID
      BY <1>1, <1>7 DEF RereadFriends, ThreadRecord
    <3> HIDE DEF g
    <3> QED
      BY <2>1, <3>1, ReadLinks
  <2> QED
    BY <1>3, <1>7, <2>2, LinkThreadStep DEF RereadFriends, memory
<1>8. CASE MakeFriends(t)
  <2>1. KeepsLinks(t)
    BY <1>1, <1>8 DEF MakeFriends, Goto, KeepsLinks, ThreadRecord
  <2>2. TrueLinks(s.user, <<>>, everBound)
    <3>1. DOMAIN <<>> = {}
      OBVIOUS
    <3> QED
      BY <3>1 DEF TrueLinks
  <2>3. \A u \in Users : UserLinks(u, bindApp'[u], friends'[u], everBound)
    BY <1>2, <1>8, <2>2, WrittenLinks DEF MakeFriends
  <2>4. ChecksOthers'
    BY <1>8 DEF MakeFriends, LinkInv, ChecksOthers
  <2> QED
    BY <1>3, <1>8, <2>1, <2>3, <2>4, KeptLinks, LinkStep DEF MakeFriends
<1> QED
  BY <1>5, <1>6, <1>7, <1>8

LEMMA CheckExistsLinks ==
  ASSUME TypeInv, LinkInv, NEW t \in Threads, CheckExists(t)
  PROVE  LinkInv'
<1> DEFINE s == thread[t]
           item == NewContact(t)
<1>1. s \in ThreadRecord /\ DOMAIN thread = Threads
  BY DEF TypeInv, ThreadOK
<1>2. \A o \in Threads \ {t} : thread'[o] = thread[o]
  BY CheckExistsWorks DEF Works
<1>3. ThreadLinks(s, everBound)
  BY DEF LinkInv
<1>4. PICK merged \in {s.readyToMerge, Append(s.readyToMerge, item)} :
        \E next : Prepared(t, merged, next)
  BY CheckExistsFacts
<1>5. \A k \in DOMAIN merged : merged[k].UID = NoUID
  <2>1. s.readyToMerge \in Seq(Friend) /\ item.UID = NoUID
    BY <1>1 DEF ThreadRecord, NewContact
  <2> HIDE DEF item
  <2> DEFINE ready == s.readyToMerge
             more == Append(ready, item)
  <2>2. \A k \in DOMAIN ready : ready[k].UID = NoUID
    BY <1>3 DEF ThreadLinks
  <2> HIDE DEF ready
  <2>3. \A k \in DOMAIN more : \/ k \in DOMAIN ready /\ more[k] = ready[k]
                               \/ more[k] = item
    BY <2>1 DEF ready
  <2> QED
    BY <1>4, <2>1, <2>2, <2>3 DEF ready
<1>6. /\ thread'[t].user = s.user /\ thread'[t].old = s.old
      /\ thread'[t].readyToMerge = merged /\ thread'[t].backCheckUsers = s.backCheckUsers
      /\ thread'[t].jerry = s.jerry /\ thread'[t].jerryTpID = s.jerryTpID
  BY <1>1, <1>4 DEF Prepared, Preparing, ThreadRecord
<1>7. ThreadLinks(thread'[t], everBound)
  BY <1>3, <1>5, <1>6 DEF ThreadLinks
<1>8. UNCHANGED <<bindApp, friends, stored, everBound, checkFriendsChan>>
  BY CheckExistsFacts DEF memory
<1> QED
  BY <1>2, <1>7, <1>8, LinkThreadStep

LEMMA AppendFriendsLinks ==
  ASSUME TypeInv, LinkInv, NEW t \in Threads, AppendFriends(t)
  PROVE  LinkInv'
<1> DEFINE s == thread[t]
           f == s.old \o s.readyToMerge
<1>1. s \in ThreadRecord /\ DOMAIN thread = Threads /\ s.user \in Users
  BY ActiveUser DEF TypeInv, ThreadOK, AppendFriends
<1>2. \A o \in Threads \ {t} : thread'[o] = thread[o]
  BY ContactWorks DEF Works
<1>3. ThreadLinks(s, everBound)
  BY DEF LinkInv
<1>4. TrueLinks(s.user, f, everBound)
  <2> DEFINE left == s.old
             right == s.readyToMerge
  <2>1. left \in Seq(Friend) /\ right \in Seq(Friend)
    BY <1>1 DEF ThreadRecord
  <2> HIDE DEF left, right
  <2>2. \A k \in DOMAIN (left \o right) :
           \/ k \in DOMAIN left /\ (left \o right)[k] = left[k]
           \/ k - Len(left) \in DOMAIN right /\ (left \o right)[k] = right[k - Len(left)]
    BY <2>1
  <2> QED
    BY <1>3, <2>2 DEF ThreadLinks, TrueLinks, left, right
<1>5. KeepsLinks(t)
  BY <1>1 DEF AppendFriends, Call, KeepsLinks, ThreadRecord
<1>6. friends' = [friends EXCEPT ![s.user] = f] /\ bindApp' = bindApp
  BY DEF AppendFriends
<1> HIDE DEF f
<1>7. \A u \in Users : UserLinks(u, bindApp'[u], friends'[u], everBound)
  BY <1>1, <1>4, <1>6, WrittenLinks
<1>8. ChecksOthers'
  BY DEF AppendFriends, LinkInv, ChecksOthers
<1> QED
  BY <1>2, <1>5, <1>7, <1>8, KeptLinks, LinkStep DEF AppendFriends

LEMMA ScanAllFriendsLinks ==
  ASSUME TypeInv, LinkInv, NEW t \in Threads, ScanAllFriends(t)
  PROVE  LinkInv'
<1> DEFINE s == thread[t]
           f == [k \in DOMAIN s.old |-> Linked(s.user, s.old[k])]
           dues == UNION {{<<k, i, array[typeUID.a][i]>> : i \in Matches(s.user, s.old[k].TpID)}
                          : k \in DOMAIN s.old}
<1>1. s \in ThreadRecord /\ DOMAIN thread = Threads /\ s.user \in Users
  BY ActiveUser DEF TypeInv, ThreadOK, ScanAllFriends
<1>2. \A o \in Threads \ {t} : thread'[o] = thread[o]
  BY ContactWorks DEF Works
<1>3. typeUID # Missing
  BY IsRequest DEF TypeInv, ThreadOK, ScanAllFriends, FriendCalls, ListedLabels, BindLabels, BindReturns
<1>4. ThreadLinks(s, everBound) /\ \A u \in Users : WasBound(u, bindApp[u], everBound)
  BY DEF LinkInv, UserLinks
<1>5. \A k \in DOMAIN s.old : s.old[k] \in Friend
  BY <1>1 DEF ThreadRecord
<1>6. TrueLinks(s.user, f, everBound)
  <2> SUFFICES ASSUME NEW k \in DOMAIN s.old, f[k].UID # NoUID
               PROVE  f[k].UID # s.user /\ WasBound(f[k].UID, f[k].TpID, everBound)
    BY DEF TrueLinks
  <2>1. s.old[k] \in Friend /\ f[k] = Linked(s.user, s.old[k])
    BY <1>5
  <2> HIDE DEF f
  <2>2. f[k] \in Friend /\ f[k].UID # s.user /\ bindApp[f[k].UID] = f[k].TpID
    BY <1>3, <2>1, LinkedFacts
  <2>3. f[k].UID \in Users
    BY <2>2 DEF Friend
  <2> QED
    BY <1>4, <2>2, <2>3 DEF WasBound
<1>7. \A due \in dues : due[3] # s.user
  BY <1>3, MatchesFacts
<1>8. friends' = [friends EXCEPT ![s.user] = f] /\ bindApp' = bindApp
  BY DEF ScanAllFriends, LinkFriends
<1>9. /\ thread'[t].user = s.user /\ thread'[t].old = s.old
      /\ thread'[t].readyToMerge = s.readyToMerge /\ thread'[t].backCheckUsers = dues
      /\ thread'[t].jerry = s.jerry /\ thread'[t].jerryTpID = s.jerryTpID
  BY <1>1 DEF ScanAllFriends, ThreadRecord
<1> HIDE DEF f, dues
<1>10. \A u \in Users : UserLinks(u, bindApp'[u], friends'[u], everBound)
  BY <1>1, <1>6, <1>8, WrittenLinks
<1>11. ThreadLinks(thread'[t], everBound)
  BY <1>4, <1>7, <1>9 DEF ThreadLinks
<1>12. ChecksOthers'
  BY DEF ScanAllFriends, LinkInv, ChecksOthers
<1> QED
  BY <1>2, <1>10, <1>11, <1>12, LinkStep DEF ScanAllFriends

LEMMA SendCheckLinks ==
  ASSUME TypeInv, LinkInv, NEW t \in Threads, SendCheck(t)
  PROVE  LinkInv'
<1> DEFINE s == thread[t]
<1>1. s \in ThreadRecord /\ DOMAIN thread = Threads
  BY DEF TypeInv, ThreadOK
<1>2. \A o \in Threads \ {t} : thread'[o] = thread[o]
  BY ContactWorks DEF Works
<1>3. ThreadLinks(s, everBound)
  BY DEF LinkInv
<1>4. KeepsLinks(t)
  <2>1. CASE Goto(t, "store")
    BY <1>1, <2>1 DEF Goto, KeepsLinks, ThreadRecord
  <2>2. CASE \E due \in s.backCheckUsers : thread' = [thread EXCEPT ![t].backCheckUsers = @ \ {due}]
    BY <1>1, <2>2 DEF KeepsLinks, ThreadRecord
  <2> QED
    BY <2>1, <2>2 DEF SendCheck
<1>5. ChecksOthers'
  <2>1. CASE UNCHANGED checkFriendsChan
    BY <2>1 DEF LinkInv, ChecksOthers
  <2>2. ASSUME NEW due \in s.backCheckUsers,
               checkFriendsChan' = Append(checkFriendsChan, [user |-> due[3], other |-> s.user])
        PROVE  ChecksOthers'
    <3> DEFINE check == [user |-> due[3], other |-> s.user]
    <3>1. check.user # check.other
      BY <1>3 DEF ThreadLinks
    <3>2. checkFriendsChan \in Seq([user : Users, other : Users]) /\ checkFriendsChan' = Append(checkFriendsChan, check)
      BY <2>2 DEF TypeInv, QueueOK
    <3> HIDE DEF check
    <3>3. \A k \in DOMAIN checkFriendsChan' :
            \/ k \in DOMAIN checkFriendsChan /\ checkFriendsChan'[k] = checkFriendsChan[k]
            \/ checkFriendsChan'[k] = check
      BY <3>2
    <3> QED
      BY <3>1, <3>3 DEF LinkInv, ChecksOthers
  <2> QED
    BY <2>1, <2>2 DEF SendCheck
<1>6. \A u \in Users : UserLinks(u, bindApp'[u], friends'[u], everBound)
  BY DEF LinkInv, SendCheck, memory
<1> QED
  BY <1>2, <1>4, <1>5, <1>6, KeptLinks, LinkStep DEF SendCheck

\* A new thread knows no links.
LEMMA RestingLinks ==
  ASSUME NEW l, NEW u, NEW bound
  PROVE  ThreadLinks(Thread(l, u), bound)
<1>1. DOMAIN <<>> = {}
  OBVIOUS
<1> QED
  BY <1>1 DEF ThreadLinks, TrueLinks, Thread

LEMMA StoreUserLinks ==
  ASSUME TypeInv, LinkInv, NEW t \in Threads, StoreUser(t)
  PROVE  LinkInv'
<1> DEFINE v == thread[t].user
           account == [bindApp |-> bindApp[v], friends |-> friends[v]]
<1>1. DOMAIN thread = Threads /\ DOMAIN stored = Users /\ v \in Users
  BY ActiveUser DEF TypeInv, MemoryOK, StoreUser
<1>2. \A o \in Threads : ThreadLinks(thread'[o], everBound)
  <2> SUFFICES ASSUME NEW o \in Threads
               PROVE  ThreadLinks(thread'[o], everBound)
    OBVIOUS
  <2>1. CASE o = t
    BY <1>1, <2>1, RestingLinks DEF StoreUser
  <2>2. CASE o # t
    BY <1>1, <2>2 DEF StoreUser, LinkInv
  <2> QED
    BY <2>1, <2>2
<1>3. /\ UNCHANGED <<bindApp, friends, everBound, checkFriendsChan>>
      /\ stored' = [stored EXCEPT ![v] = account] \/ stored' = stored
  BY DEF StoreUser, Saved, NotSaved, memory
<1>4. \A u \in Users : stored'[u] # Missing => UserLinks(u, stored'[u].bindApp, stored'[u].friends, everBound)
  <2> SUFFICES ASSUME NEW u \in Users, stored'[u] # Missing
               PROVE  UserLinks(u, stored'[u].bindApp, stored'[u].friends, everBound)
    OBVIOUS
  <2>1. CASE u = v
    <3>1. \/ stored'[u] = account /\ account.bindApp = bindApp[u] /\ account.friends = friends[u]
          \/ stored'[u] = stored[u]
      BY <1>1, <1>3, <2>1
    <3> QED
      BY <3>1 DEF LinkInv
  <2>2. CASE u # v
    <3>1. stored'[u] = stored[u]
      BY <1>1, <1>3, <2>2
    <3> QED
      BY <3>1 DEF LinkInv
  <2> QED
    BY <2>1, <2>2
<1>5. ChecksOthers'
  BY <1>3 DEF LinkInv, ChecksOthers
<1> QED
  BY <1>2, <1>3, <1>4, <1>5 DEF LinkInv

LEMMA SetTpIDLinks ==
  ASSUME TypeInv, LinkInv, NEW t \in Threads, SetTpID(t)
  PROVE  LinkInv'
<1> DEFINE v == thread[t].user
           tpID == input[t].tpID
<1>1. /\ thread[t] \in ThreadRecord /\ DOMAIN thread = Threads /\ v \in Users
      /\ DOMAIN bindApp = Users /\ DOMAIN everBound = Users
  BY ActiveUser DEF TypeInv, MemoryOK, ThreadOK, SetTpID
<1>2. \A o \in Threads \ {t} : thread'[o] = thread[o]
  BY BindingWorks DEF Works
<1>3. KeepsLinks(t)
  BY <1>1 DEF SetTpID, Call, KeepsLinks, ThreadRecord
<1>4. UNCHANGED <<friends, stored, checkFriendsChan>>
  BY DEF SetTpID
<1>5. \A u \in Users : everBound[u] \subseteq everBound'[u]
  BY <1>1 DEF SetTpID
<1>6. ASSUME NEW u, NEW f \in Seq(Friend), TrueLinks(u, f, everBound)
      PROVE  TrueLinks(u, f, everBound')
  <2>1. \A k \in DOMAIN f : f[k] \in Friend
    OBVIOUS
  <2>2. \A k \in DOMAIN f : f[k].UID # NoUID => f[k].UID \in Users
    BY <2>1 DEF Friend
  <2> QED
    BY <1>5, <1>6, <2>2 DEF TrueLinks, WasBound
<1>7. ASSUME NEW u \in Users, NEW id, NEW f \in FriendsSet, UserLinks(u, id, f, everBound)
      PROVE  UserLinks(u, id, f, everBound')
  BY <1>5, <1>6, <1>7 DEF UserLinks, WasBound, FriendsSet
<1>8. \A u \in Users : friends[u] \in FriendsSet
  BY DEF TypeInv, MemoryOK
<1>9. \A u \in Users : UserLinks(u, bindApp'[u], friends'[u], everBound')
  <2> SUFFICES ASSUME NEW u \in Users
               PROVE  UserLinks(u, bindApp'[u], friends[u], everBound')
    BY <1>4
  <2>1. UserLinks(u, bindApp[u], friends[u], everBound')
    BY <1>7, <1>8 DEF LinkInv
  <2>2. CASE bindApp'[u] = bindApp[u]
    BY <2>1, <2>2
  <2>3. CASE bindApp'[u] # bindApp[u]
    <3>1. u = v /\ bindApp'[u] = tpID /\ tpID \in everBound'[u]
      BY <1>1, <2>3 DEF SetTpID
    <3> QED
      BY <2>1, <3>1 DEF UserLinks, WasBound
  <2> QED
    BY <2>2, <2>3
<1>10. \A u \in Users : stored'[u] # Missing => UserLinks(u, stored'[u].bindApp, stored'[u].friends, everBound')
  <2> SUFFICES ASSUME NEW u \in Users, stored[u] # Missing
               PROVE  UserLinks(u, stored[u].bindApp, stored[u].friends, everBound')
    BY <1>4
  <2>1. stored[u].friends \in FriendsSet
    BY DEF TypeInv, MemoryOK, Account
  <2> QED
    BY <1>7, <2>1 DEF LinkInv
<1>11. ASSUME NEW o \in Threads
       PROVE  ThreadLinks(thread'[o], everBound')
  <2>1. ThreadLinks(thread[o], everBound) /\ thread[o] \in ThreadRecord
    BY DEF LinkInv, TypeInv, ThreadOK
  <2>2. /\ thread'[o].user = thread[o].user /\ thread'[o].old = thread[o].old
        /\ thread'[o].readyToMerge = thread[o].readyToMerge
        /\ thread'[o].backCheckUsers \subseteq thread[o].backCheckUsers
        /\ thread'[o].jerry = thread[o].jerry /\ thread'[o].jerryTpID = thread[o].jerryTpID
    BY <1>2, <1>3 DEF KeepsLinks
  <2>3. TrueLinks(thread[o].user, thread[o].old, everBound')
    <3>1. thread[o].old \in Seq(Friend)
      BY <2>1 DEF ThreadRecord
    <3> QED
      BY <1>6, <2>1, <3>1 DEF ThreadLinks
  <2> QED
    BY <1>5, <2>1, <2>2, <2>3 DEF ThreadLinks
<1>12. ChecksOthers'
  BY <1>4 DEF LinkInv, ChecksOthers
<1> QED
  BY <1>9, <1>10, <1>11, <1>12 DEF LinkInv

LEMMA UnbindingLinks ==
  ASSUME TypeInv, LinkInv, NEW t \in Threads, RemoveTpID(t) \/ RemoveFriends(t)
  PROVE  LinkInv'
<1> DEFINE v == thread[t].user
<1>1. /\ thread[t] \in ThreadRecord /\ DOMAIN thread = Threads /\ v \in Users
      /\ DOMAIN bindApp = Users /\ DOMAIN friends = Users
  BY ActiveUser DEF TypeInv, MemoryOK, ThreadOK, RemoveTpID, RemoveFriends
<1>2. \A o \in Threads \ {t} : thread'[o] = thread[o]
  BY BindingWorks DEF Works
<1>3. KeepsLinks(t)
  <2>1. CASE RemoveTpID(t)
    BY <1>1, <2>1 DEF RemoveTpID, Goto, KeepsLinks, ThreadRecord
  <2>2. CASE RemoveFriends(t)
    BY <1>1, <2>2 DEF RemoveFriends, Call, KeepsLinks, ThreadRecord
  <2> QED
    BY <2>1, <2>2
<1>4. UNCHANGED <<stored, everBound, checkFriendsChan>>
  BY DEF RemoveTpID, RemoveFriends
<1>5. ASSUME NEW u \in Users
      PROVE  UserLinks(u, bindApp'[u], friends'[u], everBound)
  <2>1. UserLinks(u, bindApp[u], friends[u], everBound)
    BY DEF LinkInv
  <2>2. bindApp'[u] = bindApp[u] \/ bindApp'[u] = NoTpID
    BY <1>1 DEF RemoveTpID, RemoveFriends
  <2>3. friends'[u] = friends[u] \/ friends'[u] = Missing
    BY <1>1 DEF RemoveTpID, RemoveFriends
  <2> QED
    BY <2>1, <2>2, <2>3 DEF UserLinks, WasBound
<1>6. ChecksOthers'
  BY <1>4 DEF LinkInv, ChecksOthers
<1> QED
  BY <1>2, <1>3, <1>4, <1>5, <1>6, KeptLinks, LinkStep

LEMMA BeginLinks ==
  ASSUME TypeInv, LinkInv, NEW r \in Requests, StartWork(r) \/ UnbindAccount(r)
  PROVE  LinkInv'
<1>1. r \in Threads
  BY RequestFacts
<1>2. thread[r] \in ThreadRecord /\ DOMAIN thread = Threads
  BY <1>1 DEF TypeInv, ThreadOK
<1>3. \A o \in Threads \ {r} : thread'[o] = thread[o]
  BY <1>2 DEF StartWork, UnbindAccount, Call, Goto
<1>4. KeepsLinks(r)
  <2>1. CASE StartWork(r)
    BY <1>1, <1>2, <2>1 DEF StartWork, Call, KeepsLinks, ThreadRecord
  <2>2. CASE UnbindAccount(r)
    BY <1>1, <1>2, <2>2 DEF UnbindAccount, Goto, KeepsLinks, ThreadRecord
  <2> QED
    BY <2>1, <2>2
<1>5. UNCHANGED <<bindApp, friends, stored, everBound, checkFriendsChan>>
  BY DEF StartWork, UnbindAccount, memory
<1> QED
  BY <1>1, <1>3, <1>4, <1>5, KeptLinks, LinkThreadStep

LEMMA TakeCheckLinks ==
  ASSUME TypeInv, LinkInv, TakeCheck
  PROVE  LinkInv'
<1> DEFINE check == Head(checkFriendsChan)
           base == Thread("jerry", check.user)
           new == [base EXCEPT !.jerry = check.other]
<1>1. Checker \in Threads /\ DOMAIN thread = Threads
  BY DEF TypeInv, Threads
<1>2. thread' = [thread EXCEPT ![Checker] = new] /\ checkFriendsChan' = Tail(checkFriendsChan)
  BY DEF TakeCheck
<1>3. \A o \in Threads \ {Checker} : thread'[o] = thread[o]
  BY <1>1, <1>2
<1>4. checkFriendsChan \in Seq([user : Users, other : Users]) /\ checkFriendsChan # <<>>
  BY DEF TypeInv, QueueOK, TakeCheck
<1> DEFINE Due == [user : Users, other : Users]
<1>5. checkFriendsChan \in Seq(Due)
  BY <1>4
<1> HIDE DEF Due
<1>6. 1 \in DOMAIN checkFriendsChan /\ check = checkFriendsChan[1]
  BY <1>4, <1>5
<1>7. \A k \in DOMAIN checkFriendsChan' :
        k + 1 \in DOMAIN checkFriendsChan /\ checkFriendsChan'[k] = checkFriendsChan[k + 1]
  BY <1>2, <1>4, <1>5
<1>8. check.user # check.other /\ ChecksOthers'
  BY <1>6, <1>7 DEF LinkInv, ChecksOthers
<1> HIDE DEF check
<1>9. ThreadLinks(new, everBound)
  <2>1. ThreadLinks(base, everBound)
    BY RestingLinks
  <2>2. /\ new.user = base.user /\ new.old = base.old /\ new.readyToMerge = base.readyToMerge
        /\ new.backCheckUsers = base.backCheckUsers /\ new.jerryTpID = NoTpID
        /\ new.jerry = check.other /\ new.user = check.user
    BY DEF Thread
  <2> HIDE DEF new, base
  <2> QED
    BY <1>8, <2>1, <2>2 DEF ThreadLinks
<1> HIDE DEF new
<1>10. ThreadLinks(thread'[Checker], everBound)
  BY <1>1, <1>2, <1>9
<1>11. \A u \in Users : UserLinks(u, bindApp'[u], friends'[u], everBound)
  BY DEF LinkInv, TakeCheck, memory
<1> QED
  BY <1>1, <1>3, <1>8, <1>10, <1>11, LinkStep DEF TakeCheck

LEMMA GetJerryTpIDLinks ==
  ASSUME TypeInv, LinkInv, GetJerryTpID
  PROVE  LinkInv'
<1> DEFINE s == thread[Checker]
<1>1. /\ Checker \in Threads /\ DOMAIN thread = Threads /\ s \in ThreadRecord
      /\ s.jerry \in Users
  BY DEF TypeInv, Threads, ThreadOK, CheckerFlow, GetJerryTpID
<1>2. \A o \in Threads \ {Checker} : thread'[o] = thread[o]
  BY CheckWorks DEF Works
<1>3. ThreadLinks(s, everBound) /\ WasBound(s.jerry, bindApp[s.jerry], everBound)
  BY <1>1 DEF LinkInv, UserLinks
<1>4. /\ thread'[Checker].user = s.user /\ thread'[Checker].old = s.old
      /\ thread'[Checker].readyToMerge = s.readyToMerge
      /\ thread'[Checker].backCheckUsers = s.backCheckUsers
      /\ thread'[Checker].jerry = s.jerry /\ thread'[Checker].jerryTpID = bindApp[s.jerry]
  BY <1>1 DEF GetJerryTpID, ThreadRecord
<1>5. ThreadLinks(thread'[Checker], everBound)
  BY <1>1, <1>3, <1>4 DEF ThreadLinks, WasBound
<1> QED
  BY <1>1, <1>2, <1>5, LinkThreadStep DEF GetJerryTpID, memory

LEMMA CheckFriendLinks ==
  ASSUME TypeInv, LinkInv, CheckFriend
  PROVE  LinkInv'
<1> DEFINE s == thread[Checker]
           LinkedTo(item) == IF item.TpID = s.jerryTpID THEN [item EXCEPT !.UID = s.jerry] ELSE item
           linked == [k \in DOMAIN s.old |-> LinkedTo(s.old[k])]
           f == IF s.jerryTpID = NoTpID THEN <<>> ELSE linked
<1>1. /\ Checker \in Threads /\ DOMAIN thread = Threads /\ s \in ThreadRecord
      /\ s.user \in Users /\ s.jerry \in Users
  BY DEF TypeInv, Threads, ThreadOK, CheckerFlow, CheckFriend
<1>2. \A o \in Threads \ {Checker} : thread'[o] = thread[o]
  BY CheckWorks DEF Works
<1>3. ThreadLinks(s, everBound)
  BY <1>1 DEF LinkInv
<1>4. friends' = [friends EXCEPT ![s.user] = f] /\ bindApp' = bindApp
  BY DEF CheckFriend, LinkJerry
<1>5. TrueLinks(s.user, f, everBound)
  <2>1. CASE s.jerryTpID = NoTpID
    <3>1. f = <<>> /\ DOMAIN <<>> = {}
      BY <2>1
    <3> QED
      BY <3>1 DEF TrueLinks
  <2>2. CASE s.jerryTpID # NoTpID
    <3>1. f = linked
      BY <2>2
    <3>5. s.jerry # NoUID
      BY <1>1, RelationAssumption DEF RelationAssumption
    <3>2. s.jerry # s.user /\ s.jerryTpID \in everBound[s.jerry]
      <4>1. /\ s.jerry # NoUID => s.jerry # s.user
            /\ s.jerryTpID # NoTpID => s.jerryTpID \in everBound[s.jerry]
        BY <1>3, Zenon DEF ThreadLinks
      <4> QED
        BY <2>2, <3>5, <4>1
    <3>3. ASSUME NEW k \in DOMAIN s.old, linked[k].UID # NoUID
          PROVE  linked[k].UID # s.user /\ WasBound(linked[k].UID, linked[k].TpID, everBound)
      <4>1. s.old \in Seq(Friend) /\ s.old[k] \in Friend /\ linked[k] = LinkedTo(s.old[k])
        <5>1. s.old \in Seq(Friend)
          BY <1>1 DEF ThreadRecord
        <5> QED
          BY <5>1
      <4>2. CASE s.old[k].TpID = s.jerryTpID
        <5>1. linked[k].UID = s.jerry /\ linked[k].TpID = s.jerryTpID
          BY <4>1, <4>2 DEF Friend
        <5> HIDE DEF linked
        <5> QED
          BY <3>2, <5>1 DEF WasBound
      <4>3. CASE s.old[k].TpID # s.jerryTpID
        <5>1. linked[k] = s.old[k]
          BY <4>1, <4>3
        <5> HIDE DEF linked
        <5> QED
          BY <1>3, <3>3, <5>1 DEF ThreadLinks, TrueLinks
      <4> QED
        BY <4>2, <4>3
    <3>4. DOMAIN linked = DOMAIN s.old
      OBVIOUS
    <3> HIDE DEF linked
    <3> QED
      BY <3>1, <3>3, <3>4 DEF TrueLinks
  <2> HIDE DEF f, linked
  <2> QED
    BY <2>1, <2>2, Zenon
<1> HIDE DEF linked, f
<1>6. \A u \in Users : UserLinks(u, bindApp'[u], friends'[u], everBound)
  BY <1>1, <1>4, <1>5, WrittenLinks
<1>7. KeepsLinks(Checker)
  BY <1>1 DEF CheckFriend, Goto, KeepsLinks, ThreadRecord
<1>8. ChecksOthers'
  BY DEF CheckFriend, LinkInv, ChecksOthers
<1> QED
  BY <1>1, <1>2, <1>6, <1>7, <1>8, KeptLinks, LinkStep DEF CheckFriend

LEMMA RestartLinks ==
  ASSUME TypeInv, LinkInv, Restart
  PROVE  LinkInv'
<1>1. everBound' = everBound /\ stored' = stored
  BY DEF Restart
<1>2. ASSUME NEW u \in Users
      PROVE  UserLinks(u, bindApp'[u], friends'[u], everBound)
  <2>1. stored[u] # Missing => UserLinks(u, stored[u].bindApp, stored[u].friends, everBound)
    BY DEF LinkInv
  <2>2. bindApp'[u] = IF Bound(u) THEN stored[u].bindApp ELSE NoTpID
    BY DEF Restart
  <2>3. friends'[u] = IF stored[u] # Missing THEN stored[u].friends ELSE Missing
    BY DEF Restart
  <2> QED
    BY <2>1, <2>2, <2>3 DEF UserLinks, WasBound, Bound
<1>3. \A t \in Threads : ThreadLinks(thread'[t], everBound)
  BY RestingLinks DEF Restart
<1>4. ChecksOthers'
  <2>1. checkFriendsChan' = <<>> /\ DOMAIN <<>> = {}
    BY DEF Restart
  <2> QED
    BY <2>1 DEF ChecksOthers
<1> QED
  BY <1>1, <1>2, <1>3, <1>4 DEF LinkInv

LEMMA LinkInvInit == Init => LinkInv
<1> SUFFICES ASSUME Init
             PROVE  LinkInv
  OBVIOUS
<1>1. \A u \in Users : UserLinks(u, bindApp[u], friends[u], everBound)
  BY DEF Init, UserLinks, WasBound
<1>2. \A u \in Users : stored[u] = Missing
  BY DEF Init
<1>3. ChecksOthers
  <2>1. checkFriendsChan = <<>> /\ DOMAIN <<>> = {}
    BY DEF Init
  <2> QED
    BY <2>1 DEF ChecksOthers
<1>4. \A t \in Threads : ThreadLinks(thread[t], everBound)
  BY RestingLinks DEF Init
<1> QED
  BY <1>1, <1>2, <1>3, <1>4 DEF LinkInv

LEMMA LinkInvStep == TypeInv /\ LinkInv /\ [Next]_vars => LinkInv'
<1> SUFFICES ASSUME TypeInv, LinkInv, [Next]_vars
             PROVE  LinkInv'
  OBVIOUS
<1>1. ASSUME NEW t \in Threads, Step(t)
      PROVE  LinkInv'
  BY <1>1, ListLinks, FriendCallLinks, CheckExistsLinks, AppendFriendsLinks, ScanAllFriendsLinks,
     SendCheckLinks, StoreUserLinks, SetTpIDLinks, UnbindingLinks
     DEF Step
<1>2. CASE Check
  BY <1>1, <1>2, TakeCheckLinks, GetJerryTpIDLinks, CheckFriendLinks DEF Check, Threads
<1>3. ASSUME NEW r \in Requests, StartWork(r) \/ UnbindAccount(r) \/ Step(r)
      PROVE  LinkInv'
  BY <1>1, <1>3, BeginLinks DEF Threads
<1>4. CASE Restart
  BY <1>4, RestartLinks
<1>5. CASE UNCHANGED vars
  BY <1>5 DEF LinkInv, ChecksOthers, vars, memory
<1> QED
  BY <1>2, <1>3, <1>4, <1>5 DEF Next

LEMMA LinkInvAlways == Spec => []LinkInv
<1>1. TypeInv /\ LinkInv /\ [Next]_vars => LinkInv'
  BY LinkInvStep
<1> QED
  BY <1>1, LinkInvInit, TypeInvAlways, PTL DEF Spec

\* A contact that has an account is linked only to a user that had this account at some
\* time, and no contact is to its owner, whatever the requests and checks write over each other
\* (relation.go:250-265, 293-295).
THEOREM LinksAlwaysWereTrue == Spec => []LinksWereTrue
<1>1. TypeInv /\ LinkInv => LinksWereTrue
  <2> SUFFICES ASSUME TypeInv, LinkInv, NEW u \in Users, NEW c \in Contacts(u), c.UID # NoUID
               PROVE  c.UID # u /\ (c.TpID # NoTpID => c.TpID \in everBound[c.UID])
    BY DEF LinksWereTrue
  <2>1. friends[u] # Missing /\ TrueLinks(u, friends[u], everBound)
    BY DEF LinkInv, UserLinks, Contacts
  <2>2. PICK k \in DOMAIN friends[u] : c = friends[u][k]
    BY <2>1 DEF Contacts, ToSet
  <2> QED
    BY <2>1, <2>2 DEF TrueLinks, WasBound
<1> QED
  BY <1>1, LinkInvAlways, TypeInvAlways, PTL
-----------------------------------------------------------------------------
(* Requests that wait for each other. *)

\* A reverse check waits or runs.
Checking == Busy(Checker) \/ checkFriendsChan # <<>>

\* No reverse check is of user u.
NotChecked(u) ==
  /\ Busy(Checker) => thread[Checker].user # u
  /\ \A k \in DOMAIN checkFriendsChan : checkFriendsChan[k].user # u

\* One request is at work at most. While there are reverse checks it has done its
\* work, but for sending more of them and storing its user, which they do not touch.
OneAtWork ==
  /\ \A q, r \in Requests : Busy(q) /\ Busy(r) => q = r
  /\ \A r \in Requests : Busy(r) =>
       (Checking => thread[r].at \in {"send", "store"}) /\ NotChecked(thread[r].user)

\* Slice x has user u among its elements, and has each of them once.
Has(arr, x, u) == x # Missing /\ \E i \in 1 .. x.len : arr[x.a][i] = u
Once(arr, x) == x # Missing => \A i, k \in 1 .. x.len : arr[x.a][i] = arr[x.a][k] => i = k

\* What the thread s of a request at work knows of the list x and of its user.
KnowsList(s, arr, x, bound) ==
  /\ s.at = "makeUIDs" => x = Missing
  /\ s.at \in {"in", "append", "remove"} => s.uids = x
  /\ s.at \in {"append", "remove"} => s.in = Has(arr, x, s.user)
  /\ s.at = "bind" => Has(arr, x, s.user)
  /\ Target(s) \in {"forget", "remove"} => bound[s.user] = NoTpID

\* The list has every user with an account, once.
ListInv ==
  /\ Once(array, typeUID)
  /\ \A u \in Users : bindApp[u] # NoTpID => Has(array, typeUID, u)
  /\ \A r \in Requests : KnowsList(thread[r], array, typeUID, bindApp)

\* Each of the contacts f has another account.
TpIDsDiffer(f) == \A i, k \in DOMAIN f : f[i].TpID = f[k].TpID => i = k

\* The accounts of the contacts f are not among those of g.
NoneOf(f, g) == \A i \in DOMAIN f, k \in DOMAIN g : f[i].TpID # g[k].TpID

\* What the thread s of bind request r knows of the contacts g of its user: the ones
\* to merge are of the request's first, and new.
KnowsFriends(r, s, g) ==
  /\ TpIDsDiffer(s.old) /\ TpIDsDiffer(s.readyToMerge)
  /\ \A k \in DOMAIN s.readyToMerge : \E i \in DOMAIN input[r].contacts :
       i < s.i /\ s.readyToMerge[k].TpID = input[r].contacts[i]
  /\ s.at = "rereadFriends" => g = <<>>
  /\ s.at \in {"exists", "merge", "scan"} => s.old = g
  /\ s.at \in {"exists", "merge"} => NoneOf(s.readyToMerge, s.old)
  /\ Target(s) \in {"exists", "merge"} /\ g # Missing => NoneOf(s.readyToMerge, g)

\* Nobody has two contacts with the same account, nor will be given them.
ContactInv ==
  /\ \A u \in Users : friends[u] # Missing => TpIDsDiffer(friends[u])
  /\ \A u \in Users :
       stored[u] # Missing /\ stored[u].friends # Missing => TpIDsDiffer(stored[u].friends)
  /\ TpIDsDiffer(thread[Checker].old)
  /\ \A r \in Requests :
       input[r].op = "bind" => KnowsFriends(r, thread[r], friends[thread[r].user])

\* Every user that is at work on, due a check, or stored, is a known one.
KnownUsers ==
  /\ \A t \in Threads : Busy(t) => thread[t].user \in users
  /\ \A t \in Threads : \A due \in thread[t].backCheckUsers : due[3] \in users
  /\ \A k \in DOMAIN checkFriendsChan : checkFriendsChan[k].user \in users
  /\ \A u \in Users : stored[u] # Missing => u \in users

\* What the checking goroutine's thread s knows of the contacts g of its user, and of
\* jerry's account.
CheckKnows(s, g, bound) ==
  /\ s.at = "rereadFriends" => g = <<>>
  /\ s.at = "link" => s.old = g /\ (g # Missing \/ g = <<>>)
  /\ Target(s) = "link" => s.jerryTpID = bound[s.jerry]

CheckInv == CheckKnows(thread[Checker], friends[thread[Checker].user], bindApp)

\* The thread of a request is going to look for all its user's contacts.
Scans(s) == Target(s) \in {"append", "bind", "exists", "merge", "scan"}

\* Contacts of u that have v's account are going to be linked to v, or left alone: by
\* a scan of either's contacts, or by a reverse check that is to be sent, waits, or runs.
ToScan(u, v) == \E r \in Requests : Scans(thread[r]) /\ thread[r].user \in {u, v}
ToSend(u, v) == \E r \in Requests :
  /\ thread[r].at = "send" /\ thread[r].user = v
  /\ \E due \in thread[r].backCheckUsers : due[3] = u
Waits(u, v) == \E k \in DOMAIN checkFriendsChan : checkFriendsChan[k] = [user |-> u, other |-> v]
Runs(u, v) ==
  /\ thread[Checker].at \notin {"idle", "store"}
  /\ thread[Checker].user = u /\ thread[Checker].jerry = v

Pending(u, v) == ToScan(u, v) \/ ToSend(u, v) \/ Waits(u, v) \/ Runs(u, v)

Known(f, tpID) == f # Missing /\ \E k \in DOMAIN f : f[k].TpID = tpID

\* User u with account a and contacts f has those with account b linked to v, if that
\* is v's, v with contacts g knows u, and nobody else ever had it.
MutualLink(u, v, f, g, a, b, bound) ==
  NoTpID \notin {a, b} /\ f # Missing /\ Known(g, a) /\ (\A w \in Users \ {u, v} : b \notin bound[w]) =>
    \A k \in DOMAIN f : f[k].TpID = b => f[k].UID = v

LinksTo(u, v) == MutualLink(u, v, friends[u], friends[v], bindApp[u], bindApp[v], everBound)

MutualInv == ~interrupted => \A u, v \in users : u # v => Pending(u, v) \/ LinksTo(u, v)

\* A thread goes on with the user it has, or ends.
Continues(t) ==
  /\ \A o \in Threads \ {t} : thread'[o] = thread[o]
  /\ Busy(t)
  /\ Busy(t)' => thread'[t].user = thread[t].user

LEMMA StoreUserEnds ==
  ASSUME TypeInv, NEW t \in Threads, StoreUser(t)
  PROVE  ~Busy(t)'
<1>1. DOMAIN thread = Threads
  BY DEF TypeInv
<1>2. thread'[t] \in {Thread("idle", NoUID), Thread("done", thread[t].user)}
  BY <1>1 DEF StoreUser
<1> QED
  BY <1>2 DEF Busy, Thread

LEMMA UserKept ==
  ASSUME TypeInv, NEW t \in Threads, Step(t), ~StoreUser(t)
  PROVE  thread'[t].user = thread[t].user
<1>1. thread[t] \in ThreadRecord /\ DOMAIN thread = Threads
  BY DEF TypeInv, ThreadOK
<1>2. CASE GetUIDs(t)
  BY <1>1, <1>2 DEF GetUIDs, ThreadRecord
<1>3. CASE MakeUIDs(t) \/ AppendUID(t) \/ RemoveUID(t)
  BY <1>1, <1>3 DEF MakeUIDs, AppendUID, RemoveUID, Goto, ThreadRecord
<1>4. CASE RereadUIDs(t) \/ InTypeUIDMap(t)
  BY <1>1, <1>4 DEF RereadUIDs, InTypeUIDMap, ThreadRecord
<1>5. CASE GetFriends(t)
  BY <1>1, <1>5 DEF GetFriends, ThreadRecord
<1>6. CASE MakeFriends(t) \/ RereadFriends(t)
  BY <1>1, <1>6 DEF MakeFriends, RereadFriends, Goto, ThreadRecord
<1>7. CASE CheckExists(t)
  <2>1. PICK merged, next : Prepared(t, merged, next)
    BY <1>7, CheckExistsFacts
  <2> QED
    BY <1>1, <2>1 DEF Prepared, Preparing, ThreadRecord
<1>8. CASE AppendFriends(t) \/ ScanAllFriends(t)
  BY <1>1, <1>8 DEF AppendFriends, ScanAllFriends, Call, ThreadRecord
<1>9. CASE SendCheck(t)
  BY <1>1, <1>9 DEF SendCheck, Goto, ThreadRecord
<1>10. CASE SetTpID(t)
  BY <1>1, <1>10 DEF SetTpID, Call, ThreadRecord
<1>11. CASE RemoveTpID(t) \/ RemoveFriends(t)
  BY <1>1, <1>11 DEF RemoveTpID, RemoveFriends, Goto, Call, ThreadRecord
<1> QED
  BY <1>2, <1>3, <1>4, <1>5, <1>6, <1>7, <1>8, <1>9, <1>10, <1>11 DEF Step

LEMMA StepContinues ==
  ASSUME TypeInv, NEW t \in Threads, Step(t)
  PROVE  Continues(t)
BY StepWorks, StoreUserEnds, UserKept DEF Works, Continues

LEMMA CheckContinues ==
  ASSUME TypeInv, GetJerryTpID \/ CheckFriend
  PROVE  Continues(Checker) /\ Busy(Checker)'
<1>1. Checker \in Threads /\ thread[Checker] \in ThreadRecord /\ DOMAIN thread = Threads
  BY DEF TypeInv, ThreadOK, Threads
<1>2. thread'[Checker].user = thread[Checker].user /\ Busy(Checker)'
  BY <1>1 DEF GetJerryTpID, CheckFriend, Goto, ThreadRecord, Busy
<1> QED
  BY <1>1, <1>2, CheckWorks DEF Works, Continues

\* A step of a request that sends no check.
LEMMA RequestWorks ==
  ASSUME OneAtWork, NEW r \in Requests, r # Checker, r \in Threads, Checker \in Threads, Continues(r),
         thread[r].at \in {"send", "store"} /\ Busy(r)' => thread'[r].at \in {"send", "store"},
         UNCHANGED checkFriendsChan
  PROVE  OneAtWork'
<1>1. Busy(r) /\ thread'[Checker] = thread[Checker]
  BY DEF Continues
<1>2. \A q \in Requests : Busy(q)' => q = r
  <2> SUFFICES ASSUME NEW q \in Requests, Busy(q)', q # r
               PROVE  FALSE
    OBVIOUS
  <2>1. thread'[q] = thread[q]
    BY DEF Continues, Threads
  <2> QED
    BY <1>1, <2>1 DEF OneAtWork, Busy
<1>3. Checking' <=> Checking
  BY <1>1 DEF Checking, Busy
<1>4. ASSUME Busy(r)'
      PROVE  (Checking' => thread'[r].at \in {"send", "store"}) /\ NotChecked(thread[r].user)'
  <2>1. thread'[r].user = thread[r].user
    BY <1>4 DEF Continues
  <2>2. (Checking => thread[r].at \in {"send", "store"}) /\ NotChecked(thread[r].user)
    BY <1>1 DEF OneAtWork
  <2>3. NotChecked(thread[r].user)'
    BY <1>1, <2>1, <2>2 DEF NotChecked, Busy
  <2> QED
    BY <1>1, <1>3, <1>4, <2>2, <2>3
<1> QED
  BY <1>2, <1>4 DEF OneAtWork

\* A step of the checking goroutine in the course of a check.
LEMMA CheckerWorks ==
  ASSUME OneAtWork, Continues(Checker), UNCHANGED checkFriendsChan, Checker \notin Requests
  PROVE  OneAtWork'
<1>1. \A r \in Requests : thread'[r] = thread[r]
  BY DEF Continues, Threads
<1>2. Checking /\ \A u : NotChecked(u) => NotChecked(u)'
  BY DEF Continues, Checking, NotChecked
<1> QED
  BY <1>1, <1>2 DEF OneAtWork, Busy

LEMMA OnlyStores ==
  ASSUME NEW t, Step(t), thread[t].at \in {"send", "store"}
  PROVE  SendCheck(t) \/ StoreUser(t)
BY CheckExistsFacts DEF Step, GetUIDs, MakeUIDs, RereadUIDs, InTypeUIDMap, AppendUID, RemoveUID, GetFriends,
   MakeFriends, RereadFriends, AppendFriends, ScanAllFriends, SetTpID, RemoveTpID, RemoveFriends

LEMMA QueueKept ==
  ASSUME NEW t, Step(t), ~SendCheck(t)
  PROVE  UNCHANGED checkFriendsChan
BY CheckExistsFacts DEF Step, GetUIDs, MakeUIDs, RereadUIDs, InTypeUIDMap, AppendUID, RemoveUID, GetFriends,
   MakeFriends, RereadFriends, AppendFriends, ScanAllFriends, StoreUser, SetTpID, RemoveTpID, RemoveFriends

\* What is sent is a check of another user.
LEMMA CheckSent ==
  ASSUME TypeInv, LinkInv, NEW r \in Requests, r \in Threads, SendCheck(r)
  PROVE  /\ thread[r].at = "send" /\ thread'[r].at \in {"send", "store"}
         /\ thread'[r].user = thread[r].user
         /\ \A k \in DOMAIN checkFriendsChan' :
              \/ k \in DOMAIN checkFriendsChan /\ checkFriendsChan'[k] = checkFriendsChan[k]
              \/ checkFriendsChan'[k].user # thread[r].user
<1> DEFINE s == thread[r]
<1>1. s \in ThreadRecord /\ DOMAIN thread = Threads /\ ThreadLinks(s, everBound)
  BY DEF TypeInv, ThreadOK, LinkInv
<1>2. s.at = "send" /\ thread'[r].at \in {"send", "store"} /\ thread'[r].user = s.user
  BY <1>1 DEF SendCheck, Goto, ThreadRecord
<1>3. CASE UNCHANGED checkFriendsChan
  BY <1>2, <1>3
<1>4. ASSUME NEW due \in s.backCheckUsers,
             checkFriendsChan' = Append(checkFriendsChan, [user |-> due[3], other |-> s.user])
      PROVE  \A k \in DOMAIN checkFriendsChan' :
               \/ k \in DOMAIN checkFriendsChan /\ checkFriendsChan'[k] = checkFriendsChan[k]
               \/ checkFriendsChan'[k].user # s.user
  <2> DEFINE check == [user |-> due[3], other |-> s.user]
  <2>1. check.user # s.user
    BY <1>1 DEF ThreadLinks
  <2>2. checkFriendsChan \in Seq([user : Users, other : Users]) /\ checkFriendsChan' = Append(checkFriendsChan, check)
    BY <1>4 DEF TypeInv, QueueOK
  <2> HIDE DEF check, s
  <2>3. \A k \in DOMAIN checkFriendsChan' :
          \/ k \in DOMAIN checkFriendsChan /\ checkFriendsChan'[k] = checkFriendsChan[k]
          \/ checkFriendsChan'[k] = check
    BY <2>2
  <2> QED
    BY <2>1, <2>3
<1> QED
  BY <1>2, <1>3, <1>4 DEF SendCheck

LEMMA SendCheckAlone ==
  ASSUME TypeInv, LinkInv, OneAtWork, NEW r \in Requests, SendCheck(r)
  PROVE  OneAtWork'
<1>1. r \in Threads /\ Checker \in Threads /\ r # Checker
  BY RequestFacts DEF Threads
<1>2. /\ thread[r].at = "send" /\ thread'[r].at \in {"send", "store"}
      /\ thread'[r].user = thread[r].user
      /\ \A k \in DOMAIN checkFriendsChan' :
           \/ k \in DOMAIN checkFriendsChan /\ checkFriendsChan'[k] = checkFriendsChan[k]
           \/ checkFriendsChan'[k].user # thread[r].user
  BY <1>1, CheckSent
<1>3. Busy(r) /\ \A o \in Threads \ {r} : thread'[o] = thread[o]
  BY <1>1, <1>2, ContactWorks DEF Works
<1>4. \A q \in Requests : Busy(q)' => q = r
  BY <1>3 DEF OneAtWork, Busy, Threads
<1>5. NotChecked(thread[r].user)
  BY <1>3 DEF OneAtWork
<1>6. NotChecked(thread[r].user)'
  BY <1>1, <1>2, <1>3, <1>5 DEF NotChecked, Busy
<1> QED
  BY <1>2, <1>4, <1>6 DEF OneAtWork

LEMMA BeginAlone ==
  ASSUME Serial, TypeInv, NEW r \in Requests, StartWork(r) \/ UnbindAccount(r)
  PROVE  /\ Quiet /\ ~Checking' /\ checkFriendsChan = <<>>
         /\ \A o \in Threads \ {r} : thread'[o] = thread[o] /\ ~Busy(o) /\ ~Busy(o)'
<1>1. DOMAIN thread = Threads /\ r \in Threads /\ Checker \in Threads /\ r # Checker
  BY RequestFacts DEF TypeInv, Threads
<1>2. Quiet
  BY DEF StartWork, UnbindAccount, Begins
<1>3. \A o \in Threads \ {r} : thread'[o] = thread[o]
  BY <1>1 DEF StartWork, UnbindAccount, Call, Goto
<1>4. checkFriendsChan' = checkFriendsChan
  BY DEF StartWork, UnbindAccount
<1> QED
  BY <1>1, <1>2, <1>3, <1>4 DEF Quiet, Checking, Busy

LEMMA TakeCheckAlone ==
  ASSUME TypeInv, OneAtWork, TakeCheck
  PROVE  OneAtWork'
<1> DEFINE check == Head(checkFriendsChan)
<1>1. Checker \in Threads /\ DOMAIN thread = Threads /\ Checker \notin Requests
  BY RelationAssumption DEF TypeInv, Threads, RelationAssumption
<1>2. \A r \in Requests : thread'[r] = thread[r]
  BY <1>1 DEF TakeCheck, Threads
<1>3. thread'[Checker].user = check.user
  BY <1>1 DEF TakeCheck, Thread
<1> DEFINE Due == [user : Users, other : Users]
<1>4. checkFriendsChan \in Seq(Due) /\ checkFriendsChan # <<>>
  BY DEF TypeInv, QueueOK, TakeCheck
<1>5. checkFriendsChan' = Tail(checkFriendsChan)
  BY DEF TakeCheck
<1> HIDE DEF Due
<1>6. 1 \in DOMAIN checkFriendsChan /\ check = checkFriendsChan[1]
  BY <1>4
<1>7. \A k \in DOMAIN checkFriendsChan' :
        k + 1 \in DOMAIN checkFriendsChan /\ checkFriendsChan'[k] = checkFriendsChan[k + 1]
  BY <1>4, <1>5
<1> HIDE DEF check
<1>8. \A u : NotChecked(u) => NotChecked(u)'
  BY <1>3, <1>6, <1>7 DEF NotChecked
<1>9. Checking
  BY <1>4 DEF Checking
<1> QED
  BY <1>2, <1>8, <1>9 DEF OneAtWork, Busy

LEMMA RestartRests ==
  ASSUME Restart
  PROVE  /\ \A t \in Threads : ~Busy(t)'
         /\ checkFriendsChan' = <<>> /\ DOMAIN checkFriendsChan' = {}
<1>1. \A t \in Threads : thread'[t].at \in {"idle", "done"}
  BY DEF Restart, Thread
<1>2. checkFriendsChan' = <<>>
  BY DEF Restart
<1> QED
  BY <1>1, <1>2 DEF Busy

LEMMA OneAtWorkStep ==
  ASSUME Serial, TypeInv, LinkInv, OneAtWork, [Next]_vars
  PROVE  OneAtWork'
<1>0. Checker \in Threads /\ Checker \notin Requests
  BY RelationAssumption DEF Threads, RelationAssumption
<1>1. ASSUME NEW r \in Requests, Step(r)
      PROVE  OneAtWork'
  <2>1. r \in Threads /\ r # Checker
    BY RequestFacts
  <2>2. CASE SendCheck(r)
    BY <2>2, SendCheckAlone
  <2>3. CASE ~SendCheck(r)
    <3>1. Continues(r) /\ UNCHANGED checkFriendsChan
      BY <1>1, <2>1, <2>3, StepContinues, QueueKept
    <3>2. thread[r].at \in {"send", "store"} => ~Busy(r)'
      BY <1>1, <2>1, <2>3, OnlyStores, StoreUserEnds
    <3> QED
      BY <1>0, <2>1, <3>1, <3>2, RequestWorks
  <2> QED
    BY <2>2, <2>3
<1>2. ASSUME NEW r \in Requests, StartWork(r) \/ UnbindAccount(r)
      PROVE  OneAtWork'
  <2>1. ~Checking' /\ \A o \in Threads \ {r} : ~Busy(o)'
    BY <1>2, BeginAlone
  <2>2. \A q \in Requests : Busy(q)' => q = r
    BY <2>1 DEF Threads
  <2>3. \A u : NotChecked(u)'
    <3>1. ~Busy(Checker)' /\ checkFriendsChan' = <<>>
      BY <2>1 DEF Checking
    <3>2. DOMAIN checkFriendsChan' = {}
      BY <3>1
    <3> QED
      BY <3>1, <3>2 DEF NotChecked
  <2> QED
    BY <2>1, <2>2, <2>3 DEF OneAtWork
<1>3. CASE TakeCheck
  BY <1>3, TakeCheckAlone
<1>4. CASE GetJerryTpID \/ CheckFriend
  BY <1>0, <1>4, CheckContinues, CheckerWorks DEF GetJerryTpID, CheckFriend
<1>5. CASE Step(Checker)
  <2>1. ~SendCheck(Checker)
    BY <1>0 DEF TypeInv, ThreadOK, CheckerFlow, SendCheck, FriendCalls
  <2> QED
    BY <1>0, <1>5, <2>1, StepContinues, QueueKept, CheckerWorks
<1>6. CASE Restart
  BY <1>6, RestartRests DEF OneAtWork, Threads
<1>7. CASE UNCHANGED vars
  BY <1>7 DEF OneAtWork, Checking, NotChecked, Busy, vars
<1> QED
  BY <1>1, <1>2, <1>3, <1>4, <1>5, <1>6, <1>7 DEF Next, Check

\* The elements of an array after one was removed.
LEMMA RemovedElements ==
  ASSUME NEW arr \in Seq(Users), NEW n \in 0 .. Len(arr), NEW k \in 1 .. n, NEW i \in 1 .. Len(arr)
  PROVE  Removed(arr, k, n)[i] = IF k <= i /\ i < n THEN arr[i + 1] ELSE arr[i]
<1> DEFINE before == SubSeq(arr, 1, k - 1)
           after == SubSeq(arr, k + 1, n)
           rest == SubSeq(arr, n, Len(arr))
<1>1. Len(arr) \in Nat /\ \A m \in 1 .. Len(arr) : arr[m] \in Users
  BY ElementOfSeq
<1>2. before \in Seq(Users) /\ Len(before) = k - 1 /\ \A m \in 1 .. k - 1 : before[m] = arr[m]
  BY <1>1, SubSeqProperties
<1>3. after \in Seq(Users) /\ Len(after) = n - k /\ \A m \in 1 .. n - k : after[m] = arr[k + m]
  BY <1>1, SubSeqProperties
<1>4. rest \in Seq(Users) /\ Len(rest) = Len(arr) - n + 1 /\ \A m \in 1 .. Len(rest) : rest[m] = arr[n + m - 1]
  BY <1>1, SubSeqProperties
<1> HIDE DEF before, after, rest
<1>5. PICK left \in Seq(Users) :
        /\ left = before \o after /\ Len(left) = n - 1
        /\ \A m \in 1 .. k - 1 : left[m] = arr[m]
        /\ \A m \in k .. n - 1 : left[m] = arr[m + 1]
  <2>1. before \o after \in Seq(Users) /\ Len(before \o after) = (k - 1) + (n - k)
    <3>1. before \o after \in Seq(Users) /\ Len(before \o after) = Len(before) + Len(after)
      BY <1>2, <1>3, ConcatLen
    <3> QED
      BY <1>2, <1>3, <3>1
  <2>2. (k - 1) + (n - k) = n - 1
    BY <1>1
  <2>3. \A m \in 1 .. k - 1 : (before \o after)[m] = arr[m]
    BY <1>1, <1>2, <1>3
  <2>4. ASSUME NEW m \in k .. n - 1
        PROVE  (before \o after)[m] = arr[m + 1]
    <3>1. m - (k - 1) \in 1 .. n - k /\ k + (m - (k - 1)) = m + 1
      BY <1>1
    <3>2. (before \o after)[m] = after[m - (k - 1)]
      BY <1>1, <1>2, <1>3
    <3> QED
      BY <1>3, <3>1, <3>2
  <2> QED
    BY <2>1, <2>2, <2>3, <2>4
<1>6. CASE i < n
  <2>1. (left \o rest)[i] = left[i]
    BY <1>1, <1>4, <1>5, <1>6
  <2>2. left[i] = IF k <= i THEN arr[i + 1] ELSE arr[i]
    BY <1>1, <1>5, <1>6
  <2> QED
    BY <1>5, <1>6, <2>1, <2>2 DEF Removed, before, after, rest
<1>7. CASE n <= i
  <2>1. i - (n - 1) \in 1 .. Len(rest) /\ n + (i - (n - 1)) - 1 = i
    BY <1>1, <1>4, <1>7
  <2>2. (left \o rest)[i] = rest[i - (n - 1)]
    BY <1>1, <1>4, <1>5, <1>7
  <2>3. (left \o rest)[i] = arr[i]
    BY <1>4, <2>1, <2>2
  <2>4. ~(i < n)
    BY <1>1, <1>7
  <2> QED
    BY <1>5, <2>3, <2>4 DEF Removed, before, after, rest
<1> QED
  BY <1>1, <1>6, <1>7

\* A user that is there once is removed.
LEMMA RemoveLoopOnce ==
  ASSUME NEW arr \in Seq(Users), NEW n \in 0 .. Len(arr), NEW k \in 1 .. n, NEW uid, arr[k] = uid,
         \A i \in 1 .. n : arr[i] = uid => i = k
  PROVE  RemoveLoop(arr, uid, n) = [arr |-> Removed(arr, k, n), removed |-> TRUE]
<1> DEFINE start == [arr |-> arr, removed |-> FALSE]
           end == [arr |-> Removed(arr, k, n), removed |-> TRUE]
           State(i) == IF i < k THEN start ELSE end
<1>1. PICK f : LoopRun(f, arr, uid, n) /\ RemoveLoop(arr, uid, n) = f[n]
  BY RemoveLoopRuns
<1>2. n \in Nat /\ k \in Nat /\ 1 <= k /\ k <= n /\ Len(arr) \in Nat /\ n <= Len(arr)
  OBVIOUS
<1>3. ASSUME NEW i \in 1 .. n
      PROVE  LoopStep(State(i - 1), uid, n, i) = State(i)
  <2>1. CASE i < k
    <3>1. i - 1 < k /\ arr[i] # uid
      BY <1>2, <2>1
    <3> QED
      BY <2>1, <3>1 DEF LoopStep
  <2>2. CASE i = k
    <3>1. i - 1 < k /\ ~(i < k) /\ arr[i] = uid
      BY <1>2, <2>2
    <3> QED
      BY <2>2, <3>1 DEF LoopStep
  <2>3. CASE k < i
    <3>1. ~(i - 1 < k) /\ ~(i < k)
      BY <1>2, <2>3
    <3>2. Removed(arr, k, n)[i] # uid
      <4>1. i \in 1 .. Len(arr)
        BY <1>2
      <4>2. Removed(arr, k, n)[i] = IF k <= i /\ i < n THEN arr[i + 1] ELSE arr[i]
        BY <4>1, RemovedElements
      <4>3. arr[i] # uid
        BY <1>2, <2>3
      <4>4. i < n => arr[i + 1] # uid
        <5>1. i < n => i + 1 \in 1 .. n /\ i + 1 # k
          BY <1>2, <2>3
        <5> QED
          BY <5>1
      <4> QED
        BY <4>2, <4>3, <4>4
    <3> QED
      BY <3>1, <3>2 DEF LoopStep
  <2> QED
    BY <1>2, <2>1, <2>2, <2>3
<1> HIDE DEF State
<1>4. f[n] = State(n)
  <2> DEFINE Bad == {l \in Nat : l <= n /\ f[l] # State(l)}
  <2>1. SUFFICES ASSUME Bad # {}
                 PROVE  FALSE
    BY <1>2
  <2>2. PICK l \in Bad : \A o \in Bad : l <= o
    BY <2>1, Least
  <2>3. l \in Nat /\ l <= n /\ f[l] # State(l)
    OBVIOUS
  <2>4. l # 0
    BY <1>1, <1>2, <2>3 DEF State, LoopRun
  <2>5. l - 1 \in Nat /\ l - 1 <= n /\ l - 1 \notin Bad
    BY <1>2, <2>2, <2>3, <2>4
  <2>6. l \in 1 .. n /\ f[l - 1] = State(l - 1)
    BY <1>2, <2>3, <2>4, <2>5
  <2>7. f[l] = State(l)
    BY <1>1, <1>3, <2>6 DEF LoopRun
  <2> QED
    BY <2>3, <2>7
<1> QED
  BY <1>1, <1>2, <1>4 DEF State

\* The array once an element was appended to its first n.
Longer(arr, uid, n) == SubSeq(arr, 1, n) \o <<uid>> \o SubSeq(arr, n + 2, Len(arr))

LEMMA AppendedElements ==
  ASSUME NEW arr \in Seq(Users), NEW n \in 0 .. Len(arr), NEW uid \in Users
  PROVE  (\A i \in 1 .. n : Longer(arr, uid, n)[i] = arr[i]) /\ Longer(arr, uid, n)[n + 1] = uid
<1> DEFINE before == SubSeq(arr, 1, n)
           rest == SubSeq(arr, n + 2, Len(arr))
<1>1. Len(arr) \in Nat /\ n \in Nat /\ n <= Len(arr) /\ \A m \in 1 .. Len(arr) : arr[m] \in Users
  BY ElementOfSeq
<1>2. before \in Seq(Users) /\ Len(before) = n /\ \A m \in 1 .. n : before[m] = arr[m]
  BY <1>1, SubSeqProperties
<1>3. rest \in Seq(Users)
  BY <1>1, SubSeqProperties
<1> HIDE DEF before, rest
<1>4. PICK left \in Seq(Users) :
        left = before \o <<uid>> /\ Len(left) = n + 1 /\ left[n + 1] = uid /\ \A m \in 1 .. n : left[m] = arr[m]
  <2>1. <<uid>> \in Seq(Users) /\ Len(<<uid>>) = 1 /\ <<uid>>[1] = uid
    OBVIOUS
  <2> DEFINE last == <<uid>>
  <2> HIDE DEF last
  <2>2. before \o last \in Seq(Users) /\ Len(before \o last) = Len(before) + Len(last)
    BY <1>2, <2>1, ConcatLen DEF last
  <2>3. (before \o last)[n + 1] = last[1] /\ \A m \in 1 .. n : (before \o last)[m] = before[m]
    BY <1>1, <1>2, <2>1 DEF last
  <2> QED
    BY <1>2, <2>1, <2>2, <2>3 DEF last
<1>5. \A m \in 1 .. n + 1 : (left \o rest)[m] = left[m]
  BY <1>1, <1>3, <1>4
<1>6. n + 1 \in 1 .. n + 1 /\ \A m \in 1 .. n : m \in 1 .. n + 1
  BY <1>1
<1> QED
  BY <1>4, <1>5, <1>6 DEF Longer, before, rest

-----------------------------------------------------------------------------
(* The list of an app's users, one request at a time. *)

LEMMA InElements ==
  ASSUME array \in Seq(Seq(Users)), NEW x \in Slices, InArray(x, array), NEW u
  PROVE  u \in ToSet(Elements(x)) <=> Has(array, x, u)
<1>1. x # Missing /\ x.len \in Nat
  BY RelationAssumption DEF RelationAssumption, Slices
<1>2. array[x.a] \in Seq(Users) /\ x.len <= Len(array[x.a]) /\ Len(array[x.a]) \in Nat
  BY DEF InArray
<1>3. CASE x.len = 0
  BY <1>1, <1>3 DEF Elements, Has, ToSet
<1>4. CASE x.len # 0
  <2> DEFINE part == SubSeq(array[x.a], 1, x.len)
  <2>1. Len(part) = x.len /\ \A i \in 1 .. x.len : part[i] = array[x.a][i]
    BY <1>1, <1>2, SubSeqProperties
  <2>2. part \in Seq(Users) /\ DOMAIN part = 1 .. x.len
    BY <1>1, <1>2, SubSeqProperties
  <2>3. Elements(x) = part
    BY <1>4 DEF Elements
  <2> HIDE DEF part
  <2> QED
    BY <1>1, <2>1, <2>2, <2>3 DEF Has, ToSet
<1> QED
  BY <1>3, <1>4

\* A user that the list does not have is appended.
LEMMA AppendedList ==
  ASSUME NEW arr \in Seq(Seq(Users)), NEW x \in Slices, InArray(x, arr), NEW u \in Users,
         NEW arr2, NEW y, y # Missing, y.a = x.a, y.len = x.len + 1,
         arr2[x.a] = Longer(arr[x.a], u, x.len)
  PROVE  /\ Once(arr, x) /\ ~Has(arr, x, u) => Once(arr2, y)
         /\ \A v : Has(arr, x, v) => Has(arr2, y, v)
         /\ Has(arr2, y, u)
<1> DEFINE old == arr[x.a]
           new == arr2[x.a]
<1>1. x # Missing /\ x.len \in Nat
  BY RelationAssumption DEF RelationAssumption, Slices
<1>2. old \in Seq(Users) /\ x.len \in 0 .. Len(old)
  BY <1>1 DEF InArray
<1>0. new = Longer(old, u, x.len)
  OBVIOUS
<1> HIDE DEF old, new
<1>3. (\A i \in 1 .. x.len : new[i] = old[i]) /\ new[x.len + 1] = u
  BY <1>0, <1>2, AppendedElements
<1>4. y.len = x.len + 1 /\ x.len + 1 \in 1 .. y.len /\ \A i \in 1 .. x.len : i \in 1 .. y.len
  BY <1>1
<1>5. Has(arr2, y, u)
  BY <1>3, <1>4 DEF Has, new
<1>6. ASSUME NEW v, Has(arr, x, v)
      PROVE  Has(arr2, y, v)
  BY <1>3, <1>4, <1>6 DEF Has, old, new
<1>7. ASSUME Once(arr, x), ~Has(arr, x, u)
      PROVE  Once(arr2, y)
  <2>1. \A i \in 1 .. x.len : new[i] # u
    BY <1>1, <1>3, <1>7 DEF Has, old
  <2>2. \A i, k \in 1 .. x.len : new[i] = new[k] => i = k
    BY <1>1, <1>3, <1>7 DEF Once, old
  <2>3. \A i \in 1 .. y.len : i \in 1 .. x.len \/ i = x.len + 1
    BY <1>1, <1>4
  <2>4. \A i, k \in 1 .. y.len : new[i] = new[k] => i = k
    BY <1>3, <2>1, <2>2, <2>3
  <2> QED
    BY <2>4 DEF Once, new
<1> QED
  BY <1>5, <1>6, <1>7

\* A user that the list has once is removed.
LEMMA RemovedList ==
  ASSUME NEW arr \in Seq(Seq(Users)), NEW x \in Slices, InArray(x, arr), NEW u,
         NEW arr2, NEW y, y # Missing, y.a = x.a, y.len = x.len - 1,
         NEW k \in 1 .. x.len, arr[x.a][k] = u, Once(arr, x),
         arr2[x.a] = Removed(arr[x.a], k, x.len)
  PROVE  /\ Once(arr2, y)
         /\ \A v : v # u /\ Has(arr, x, v) => Has(arr2, y, v)
<1> DEFINE old == arr[x.a]
           new == arr2[x.a]
<1>1. x # Missing /\ x.len \in Nat /\ k \in Nat /\ 1 <= k /\ k <= x.len
  BY RelationAssumption DEF RelationAssumption, Slices
<1>2. old \in Seq(Users) /\ x.len \in 0 .. Len(old) /\ Len(old) \in Nat
  BY <1>1 DEF InArray
<1>3. \A i \in 1 .. y.len : i \in 1 .. x.len /\ i + 1 \in 1 .. x.len /\ i < x.len /\ i \in 1 .. Len(old)
  BY <1>1, <1>2
<1>4. \A i \in 1 .. y.len : new[i] = IF k <= i THEN old[i + 1] ELSE old[i]
  <2> SUFFICES ASSUME NEW i \in 1 .. y.len
               PROVE  new[i] = IF k <= i THEN old[i + 1] ELSE old[i]
    OBVIOUS
  <2> HIDE DEF old
  <2>0. i \in 1 .. Len(old)
    BY <1>3
  <2>1. Removed(old, k, x.len)[i] = IF k <= i /\ i < x.len THEN old[i + 1] ELSE old[i]
    BY <1>2, <2>0, RemovedElements
  <2>2. new = Removed(old, k, x.len)
    BY DEF old
  <2> QED
    BY <1>3, <2>1, <2>2
<1>5. \A i, j \in 1 .. x.len : old[i] = old[j] => i = j
  BY <1>1 DEF Once
<1> HIDE DEF old, new
<1>6. Once(arr2, y)
  <2> SUFFICES ASSUME NEW i \in 1 .. y.len, NEW j \in 1 .. y.len, new[i] = new[j]
               PROVE  i = j
    BY DEF Once, new
  <2>1. CASE k <= i /\ k <= j
    <3>1. i + 1 = j + 1
      BY <1>3, <1>4, <1>5, <2>1
    <3> QED
      BY <3>1
  <2>2. CASE ~(k <= i) /\ ~(k <= j)
    BY <1>3, <1>4, <1>5, <2>2
  <2>3. CASE k <= i /\ ~(k <= j)
    <3>1. i + 1 = j
      BY <1>3, <1>4, <1>5, <2>3
    <3> QED
      BY <1>1, <2>3, <3>1
  <2>4. CASE ~(k <= i) /\ k <= j
    <3>1. i = j + 1
      BY <1>3, <1>4, <1>5, <2>4
    <3> QED
      BY <1>1, <2>4, <3>1
  <2> QED
    BY <2>1, <2>2, <2>3, <2>4
<1>7. ASSUME NEW v, v # u, Has(arr, x, v)
      PROVE  Has(arr2, y, v)
  <2>1. PICK i \in 1 .. x.len : old[i] = v
    BY <1>7 DEF Has, old
  <2>2. i # k
    BY <1>7, <2>1 DEF old
  <2>3. CASE i < k
    <3>1. i \in 1 .. y.len /\ ~(k <= i)
      BY <1>1, <2>3
    <3> QED
      BY <1>4, <2>1, <3>1 DEF Has, new
  <2>4. CASE k < i
    <3>1. i - 1 \in 1 .. y.len /\ k <= i - 1 /\ (i - 1) + 1 = i
      BY <1>1, <2>4
    <3> QED
      BY <1>4, <2>1, <3>1 DEF Has, new
  <2> QED
    BY <1>1, <2>2, <2>3, <2>4
<1> QED
  BY <1>6, <1>7

\* What is said of the list is said of threads that look for a user in it, or bind.
LEMMA Elsewhere ==
  ASSUME NEW s, s.at \notin {"makeUIDs", "in", "append", "remove", "bind"},
         Target(s) \notin {"forget", "remove"}, NEW arr, NEW x, NEW bound
  PROVE  KnowsList(s, arr, x, bound)
BY DEF KnowsList

LEMMA RestsElsewhere ==
  ASSUME NEW r, ~Busy(r), NEW arr, NEW x, NEW bound
  PROVE  KnowsList(thread[r], arr, x, bound)
BY DEF KnowsList, Busy, Target, ListCalls, FriendCalls

\* No request but r is at work, and r makes a step.
Alone(r) == \A q \in Requests \ {r} : ~Busy(q) /\ thread'[q] = thread[q]

LEMMA ListStep ==
  ASSUME ListInv, NEW r \in Requests, Alone(r),
         Once(array', typeUID'),
         \A u \in Users : bindApp'[u] # NoTpID => Has(array', typeUID', u),
         KnowsList(thread'[r], array', typeUID', bindApp')
  PROVE  ListInv'
<1>1. ASSUME NEW q \in Requests
      PROVE  KnowsList(thread'[q], array', typeUID', bindApp')
  <2>1. CASE q = r
    BY <2>1
  <2>2. CASE q # r
    <3>1. thread'[q] = thread[q] /\ ~Busy(q)
      BY <2>2 DEF Alone
    <3> QED
      BY <3>1, RestsElsewhere
  <2> QED
    BY <2>1, <2>2
<1> QED
  BY <1>1 DEF ListInv

\* A step that leaves the list and the accounts alone.
LEMMA ListKept ==
  ASSUME ListInv, NEW r \in Requests, Alone(r), UNCHANGED <<array, typeUID, bindApp>>,
         KnowsList(thread'[r], array, typeUID, bindApp)
  PROVE  ListInv'
<1>1. array' = array /\ typeUID' = typeUID /\ bindApp' = bindApp
  OBVIOUS
<1>2. Once(array', typeUID') /\ \A u \in Users : bindApp'[u] # NoTpID => Has(array', typeUID', u)
  BY <1>1 DEF ListInv
<1>3. KnowsList(thread'[r], array', typeUID', bindApp')
  BY <1>1
<1> QED
  BY <1>2, <1>3, ListStep

LEMMA ReadingListed ==
  ASSUME TypeInv, ListInv, NEW r \in Requests, Alone(r), GetUIDs(r) \/ RereadUIDs(r)
  PROVE  ListInv'
<1> DEFINE s == thread[r]
           new == thread'[r]
<1>1. r \in Threads /\ r # Checker /\ s \in ThreadRecord /\ DOMAIN thread = Threads /\ RequestFlow(r, s)
  BY RequestFacts DEF TypeInv, ThreadOK
<1>2. UNCHANGED <<array, typeUID, bindApp>>
  BY DEF GetUIDs, RereadUIDs, list, memory
<1>3. /\ s.at \in {"uids", "rereadUIDs"}
      /\ new.user = s.user /\ new.ret = s.ret
      /\ \/ new.at = "makeUIDs" /\ typeUID = Missing
         \/ new.at = "in" /\ new.uids = typeUID
  BY <1>1 DEF GetUIDs, RereadUIDs, ThreadRecord
<1>4. KnowsList(s, array, typeUID, bindApp)
  BY DEF ListInv
<1> HIDE DEF s, new
<1>5. KnowsList(new, array, typeUID, bindApp)
  BY <1>3, <1>4 DEF KnowsList, Target, ListCalls, FriendCalls
<1> QED
  BY <1>2, <1>5, ListKept DEF new

LEMMA SearchListed ==
  ASSUME TypeInv, ListInv, NEW r \in Requests, Alone(r), InTypeUIDMap(r)
  PROVE  ListInv'
<1> DEFINE s == thread[r]
           new == thread'[r]
<1>1. /\ r \in Threads /\ r # Checker /\ s \in ThreadRecord /\ DOMAIN thread = Threads
      /\ RequestFlow(r, s) /\ s.at = "in" /\ InArray(s.uids, array)
  BY RequestFacts DEF TypeInv, ThreadOK, InTypeUIDMap
<1>2. UNCHANGED <<array, typeUID, bindApp>>
  BY DEF InTypeUIDMap, list, memory
<1>3. /\ new.user = s.user /\ new.at = s.ret /\ new.uids = s.uids
      /\ new.in = (s.user \in ToSet(Elements(s.uids)))
  BY <1>1 DEF InTypeUIDMap, ThreadRecord
<1>4. KnowsList(s, array, typeUID, bindApp)
  BY DEF ListInv
<1>5. s.user \in ToSet(Elements(s.uids)) <=> Has(array, s.uids, s.user)
  <2>1. s.uids \in Slices /\ array \in Seq(Seq(Users))
    BY <1>1 DEF ThreadRecord, TypeInv, ListOK
  <2> QED
    BY <1>1, <2>1, InElements
<1>6. s.ret \in {"append", "remove"}
  BY <1>1 DEF RequestFlow, ListCalls
<1> HIDE DEF s, new
<1>7. s.uids = typeUID /\ new.uids = typeUID /\ new.in = Has(array, typeUID, new.user)
  <2>1. s.uids = typeUID
    BY <1>1, <1>4 DEF KnowsList
  <2>2. (s.user \in ToSet(Elements(s.uids))) = Has(array, typeUID, s.user)
    BY <1>5, <2>1 DEF Has
  <2> QED
    BY <1>3, <2>1, <2>2
<1>8. Target(s) = s.ret /\ Target(new) = s.ret
  BY <1>1, <1>3, <1>6 DEF Target, ListCalls, FriendCalls
<1>9. KnowsList(new, array, typeUID, bindApp)
  BY <1>3, <1>4, <1>6, <1>7, <1>8 DEF KnowsList
<1> QED
  BY <1>2, <1>9, ListKept DEF new

LEMMA MakeUIDsListed ==
  ASSUME TypeInv, ListInv, NEW r \in Requests, Alone(r), MakeUIDs(r)
  PROVE  ListInv'
<1> DEFINE s == thread[r]
           new == thread'[r]
<1>1. r \in Threads /\ s \in ThreadRecord /\ DOMAIN thread = Threads /\ s.at = "makeUIDs"
  BY RequestFacts DEF TypeInv, ThreadOK, MakeUIDs
<1>2. new.at = "rereadUIDs" /\ new.user = s.user /\ new.ret = s.ret
  BY <1>1 DEF MakeUIDs, Goto, ThreadRecord
<1>3. KnowsList(s, array, typeUID, bindApp)
  BY DEF ListInv
<1> HIDE DEF s, new
<1>4. \A u \in Users : bindApp[u] = NoTpID
  BY <1>1, <1>3 DEF KnowsList, ListInv, Has
<1>5. bindApp' = bindApp /\ typeUID'.len = 0
  BY DEF MakeUIDs, memory
<1>6. Once(array', typeUID')
  BY <1>5 DEF Once
<1>7. KnowsList(new, array', typeUID', bindApp')
  BY <1>1, <1>2, <1>3, <1>5 DEF KnowsList, Target, ListCalls, FriendCalls
<1> QED
  BY <1>4, <1>5, <1>6, <1>7, ListStep DEF new

LEMMA AppendUIDListed ==
  ASSUME TypeInv, ListInv, NEW r \in Requests, Alone(r), AppendUID(r)
  PROVE  ListInv'
<1> DEFINE s == thread[r]
           x == s.uids
           new == thread'[r]
<1>1. /\ r \in Threads /\ r # Checker /\ s \in ThreadRecord /\ DOMAIN thread = Threads
      /\ RequestFlow(r, s) /\ s.at = "append" /\ x \in Slices /\ InArray(x, array)
      /\ array \in Seq(Seq(Users))
  BY RequestFacts DEF TypeInv, ThreadOK, AppendUID, ListOK, ThreadRecord
<1>2. new.at = "bind" /\ new.user = s.user
  BY <1>1 DEF AppendUID, Goto, ThreadRecord
<1>3. x = typeUID /\ s.in = Has(array, typeUID, s.user)
  BY <1>1 DEF ListInv, KnowsList
<1>4. bindApp' = bindApp
  BY DEF AppendUID, memory
<1>5. s.user \in Users
  BY <1>1, RequestFacts DEF RequestFlow
<1>6. /\ Once(array', typeUID') /\ Has(array', typeUID', s.user)
      /\ \A u \in Users : Has(array, typeUID, u) => Has(array', typeUID', u)
  <2>1. CASE s.in
    BY <1>3, <2>1 DEF AppendUID, list, ListInv
  <2>2. CASE ~ s.in
    <3> DEFINE y == [x EXCEPT !.len = @ + 1]
    <3>1. array' = [array EXCEPT ![x.a] = Longer(array[x.a], s.user, x.len)] /\ typeUID' = y
      BY <2>2, Zenon DEF AppendUID, ExtendUIDs, Appended, Longer
    <3>2. y \in Slices /\ y.a = x.a /\ y.len = x.len + 1
      <4>1. x \in Slices
        BY <1>1
      <4> HIDE DEF x
      <4> QED
        BY <4>1 DEF Slices
    <3>3. typeUID' # Missing /\ typeUID'.a = x.a /\ typeUID'.len = x.len + 1
      BY <3>1, <3>2, RelationAssumption DEF RelationAssumption, Slices
    <3>4. array'[x.a] = Longer(array[x.a], s.user, x.len)
      BY <1>1, <3>1 DEF InArray
    <3>5. Once(array, x) /\ ~Has(array, x, s.user)
      BY <1>3, <2>2 DEF ListInv
    <3> HIDE DEF s, x, y
    <3> QED
      BY <1>1, <1>3, <1>5, <3>3, <3>4, <3>5, AppendedList
  <2> QED
    BY <2>1, <2>2
<1> HIDE DEF s, x, new
<1>7. KnowsList(new, array', typeUID', bindApp')
  BY <1>2, <1>6 DEF KnowsList, Target, ListCalls, FriendCalls
<1> QED
  BY <1>4, <1>6, <1>7, ListStep DEF new, ListInv

LEMMA RemoveUIDListed ==
  ASSUME TypeInv, ListInv, NEW r \in Requests, Alone(r), RemoveUID(r)
  PROVE  ListInv'
<1> DEFINE s == thread[r]
           x == s.uids
           end == RemoveLoop(array[x.a], s.user, x.len)
           new == thread'[r]
<1>1. /\ r \in Threads /\ r # Checker /\ s \in ThreadRecord /\ DOMAIN thread = Threads
      /\ s.at = "remove" /\ x \in Slices /\ InArray(x, array) /\ array \in Seq(Seq(Users))
  BY RequestFacts DEF TypeInv, ThreadOK, RemoveUID, ListOK, ThreadRecord
<1>2. new.at = "store" /\ new.user = s.user
  BY <1>1 DEF RemoveUID, Goto, ThreadRecord
<1>3. /\ x = typeUID /\ s.in = Has(array, typeUID, s.user) /\ Once(array, x)
      /\ bindApp[s.user] = NoTpID
  BY <1>1 DEF ListInv, KnowsList, Target, ListCalls, FriendCalls
<1>4. bindApp' = bindApp
  BY DEF RemoveUID, memory
<1> HIDE DEF end
<1>5. /\ Once(array', typeUID')
      /\ \A u \in Users \ {s.user} : Has(array, typeUID, u) => Has(array', typeUID', u)
  <2>1. CASE ~(s.in /\ end.removed)
    BY <1>3, <2>1 DEF RemoveUID, list, end
  <2>2. CASE s.in /\ end.removed
    <3> DEFINE old == array[x.a]
               y == [x EXCEPT !.len = @ - 1]
    <3>1. array' = [array EXCEPT ![x.a] = end.arr] /\ typeUID' = y
      BY <2>2 DEF RemoveUID, end
    <3>2. x # Missing /\ x.len \in Nat /\ old \in Seq(Users) /\ x.len \in 0 .. Len(old)
      BY <1>1, RelationAssumption DEF RelationAssumption, Slices, InArray
    <3>3. PICK k \in 1 .. x.len : old[k] = s.user
      BY <1>3, <2>2 DEF Has
    <3>4. \A i \in 1 .. x.len : old[i] = s.user => i = k
      BY <1>3, <3>2, <3>3 DEF Once
    <3>5. k \in Nat /\ 1 <= k /\ k <= x.len
      BY <3>2
    <3>6. end = [arr |-> Removed(old, k, x.len), removed |-> TRUE]
      <4> DEFINE n == x.len
                 uid == s.user
      <4> HIDE DEF old, n, uid
      <4>1. old \in Seq(Users) /\ n \in 0 .. Len(old) /\ k \in 1 .. n /\ old[k] = uid
        BY <3>2, <3>3 DEF n, uid
      <4>2. \A i \in 1 .. n : old[i] = uid => i = k
        BY <3>4 DEF n, uid
      <4>3. RemoveLoop(old, uid, n) = [arr |-> Removed(old, k, n), removed |-> TRUE]
        BY <4>1, <4>2, RemoveLoopOnce
      <4> QED
        BY <4>3 DEF end, old, n, uid
    <3>7. y \in Slices /\ y.a = x.a /\ y.len = x.len - 1
      <4>1. x.len - 1 \in Nat
        BY <3>2, <3>5
      <4> QED
        BY <1>1, <4>1 DEF Slices
    <3>8. typeUID' # Missing /\ typeUID'.a = x.a /\ typeUID'.len = x.len - 1
      BY <3>1, <3>7, RelationAssumption DEF RelationAssumption, Slices
    <3>9. array'[x.a] = Removed(array[x.a], k, x.len)
      BY <1>1, <3>1, <3>6 DEF InArray
    <3>10. array[x.a][k] = s.user
      BY <3>3
    <3> HIDE DEF s, x, y, old
    <3> QED
      BY <1>1, <1>3, <3>3, <3>8, <3>9, <3>10, RemovedList
  <2> QED
    BY <2>1, <2>2
<1> HIDE DEF s, x, new
<1>6. KnowsList(new, array', typeUID', bindApp')
  BY <1>2, Elsewhere DEF Target, ListCalls, FriendCalls
<1>7. \A u \in Users : bindApp'[u] # NoTpID => Has(array', typeUID', u)
  BY <1>3, <1>4, <1>5 DEF ListInv
<1> QED
  BY <1>5, <1>6, <1>7, ListStep DEF new

LEMMA SetTpIDListed ==
  ASSUME TypeInv, ListInv, NEW r \in Requests, Alone(r), SetTpID(r)
  PROVE  ListInv'
<1> DEFINE s == thread[r]
           new == thread'[r]
<1>1. r \in Threads /\ s \in ThreadRecord /\ DOMAIN thread = Threads /\ s.at = "bind"
  BY RequestFacts DEF TypeInv, ThreadOK, SetTpID
<1>2. new.at = "get" /\ new.ret \in {"merge", "exists"}
  BY <1>1 DEF SetTpID, Call, ThreadRecord
<1>3. UNCHANGED <<array, typeUID>>
  BY DEF SetTpID, list
<1>4. \A u \in Users \ {s.user} : bindApp'[u] = bindApp[u]
  BY <1>1, BindingWorks DEF Works
<1>5. Has(array, typeUID, s.user)
  BY <1>1 DEF ListInv, KnowsList
<1> HIDE DEF s, new
<1>6. KnowsList(new, array', typeUID', bindApp')
  BY <1>2, Elsewhere DEF Target, ListCalls, FriendCalls
<1>7. \A u \in Users : bindApp'[u] # NoTpID => Has(array, typeUID, u)
  BY <1>4, <1>5 DEF ListInv
<1>8. Once(array', typeUID') /\ \A u \in Users : bindApp'[u] # NoTpID => Has(array', typeUID', u)
  BY <1>3, <1>7 DEF ListInv
<1> QED
  BY <1>6, <1>8, ListStep DEF new

LEMMA RemoveTpIDListed ==
  ASSUME TypeInv, ListInv, NEW r \in Requests, Alone(r), RemoveTpID(r)
  PROVE  ListInv'
<1> DEFINE s == thread[r]
           new == thread'[r]
<1>1. r \in Threads /\ s \in ThreadRecord /\ DOMAIN thread = Threads /\ s.at = "unbind" /\ s.user \in Users
  BY RequestFacts, ActiveUser DEF TypeInv, ThreadOK, RemoveTpID
<1>2. new.at = "forget" /\ new.user = s.user
  BY <1>1 DEF RemoveTpID, Goto, ThreadRecord
<1>3. UNCHANGED <<array, typeUID>>
  BY DEF RemoveTpID, list
<1>4. bindApp'[s.user] = NoTpID /\ \A u \in Users \ {s.user} : bindApp'[u] = bindApp[u]
  BY <1>1 DEF RemoveTpID, TypeInv, MemoryOK
<1> HIDE DEF s, new
<1>5. KnowsList(new, array', typeUID', bindApp')
  BY <1>2, <1>4 DEF KnowsList
<1>6. \A u \in Users : bindApp'[u] # NoTpID => Has(array, typeUID, u)
  BY <1>4 DEF ListInv
<1>7. Once(array', typeUID') /\ \A u \in Users : bindApp'[u] # NoTpID => Has(array', typeUID', u)
  BY <1>3, <1>6 DEF ListInv
<1> QED
  BY <1>5, <1>7, ListStep DEF new

LEMMA RemoveFriendsListed ==
  ASSUME TypeInv, ListInv, NEW r \in Requests, Alone(r), RemoveFriends(r)
  PROVE  ListInv'
<1> DEFINE s == thread[r]
           new == thread'[r]
<1>1. r \in Threads /\ s \in ThreadRecord /\ DOMAIN thread = Threads /\ s.at = "forget"
  BY RequestFacts DEF TypeInv, ThreadOK, RemoveFriends
<1>2. new.at = "uids" /\ new.ret = "remove" /\ new.user = s.user
  BY <1>1 DEF RemoveFriends, Call, ThreadRecord
<1>3. UNCHANGED <<array, typeUID, bindApp>>
  BY DEF RemoveFriends, list
<1>4. bindApp[s.user] = NoTpID
  BY <1>1 DEF ListInv, KnowsList, Target, ListCalls, FriendCalls
<1> HIDE DEF s, new
<1>5. KnowsList(new, array, typeUID, bindApp)
  BY <1>2, <1>4 DEF KnowsList
<1> QED
  BY <1>3, <1>5, ListKept DEF new

\* A request at its contacts, or that ends, does nothing to the list.
LEMMA ContactsListed ==
  ASSUME TypeInv, ListInv, NEW r \in Requests, Alone(r),
         \/ GetFriends(r) \/ MakeFriends(r) \/ RereadFriends(r) \/ CheckExists(r)
         \/ AppendFriends(r) \/ ScanAllFriends(r) \/ SendCheck(r) \/ StoreUser(r)
  PROVE  ListInv'
<1> DEFINE s == thread[r]
           new == thread'[r]
<1>1. /\ r \in Threads /\ r # Checker /\ s \in ThreadRecord /\ DOMAIN thread = Threads
      /\ RequestFlow(r, s)
  BY RequestFacts DEF TypeInv, ThreadOK
<1>2. UNCHANGED <<array, typeUID, bindApp>>
  BY CheckExistsFacts DEF GetFriends, MakeFriends, RereadFriends, AppendFriends, ScanAllFriends, SendCheck,
     StoreUser, list, memory
<1>3. /\ new.at \in {"get", "makeFriends", "rereadFriends", "exists", "merge", "scan", "send", "store", "done"}
      /\ new.at \in {"get", "makeFriends", "rereadFriends"} => new.ret \in {"exists", "merge", "scan"}
  <2>1. CASE GetFriends(r)
    BY <1>1, <2>1 DEF GetFriends, ThreadRecord, RequestFlow, FriendCalls
  <2>2. CASE MakeFriends(r)
    BY <1>1, <2>2 DEF MakeFriends, Goto, ThreadRecord, RequestFlow, FriendCalls
  <2>3. CASE RereadFriends(r)
    BY <1>1, <2>3 DEF RereadFriends, ThreadRecord, RequestFlow, FriendCalls
  <2>4. CASE CheckExists(r)
    <3>1. PICK merged : Prepared(r, merged, IF s.i < Len(input[r].contacts) THEN "exists" ELSE "merge")
      BY <2>4, CheckExistsFacts
    <3> QED
      BY <1>1, <3>1 DEF Prepared, Preparing, ThreadRecord
  <2>5. CASE AppendFriends(r) \/ ScanAllFriends(r)
    BY <1>1, <2>5 DEF AppendFriends, ScanAllFriends, Call, ThreadRecord
  <2>6. CASE SendCheck(r)
    BY <1>1, <2>6 DEF SendCheck, Goto, ThreadRecord
  <2>7. CASE StoreUser(r)
    BY <1>1, <2>7 DEF StoreUser, Thread
  <2> QED
    BY <2>1, <2>2, <2>3, <2>4, <2>5, <2>6, <2>7
<1> HIDE DEF s, new
<1>4. KnowsList(new, array, typeUID, bindApp)
  BY <1>3, Elsewhere DEF Target, ListCalls, FriendCalls
<1> QED
  BY <1>2, <1>4, ListKept DEF new

LEMMA BeginListed ==
  ASSUME TypeInv, ListInv, NEW r \in Requests, Alone(r), StartWork(r) \/ UnbindAccount(r)
  PROVE  ListInv'
<1> DEFINE s == thread[r]
           new == thread'[r]
<1>1. r \in Threads /\ s \in ThreadRecord /\ DOMAIN thread = Threads
  BY RequestFacts DEF TypeInv, ThreadOK
<1>2. UNCHANGED <<array, typeUID, bindApp>>
  BY DEF StartWork, UnbindAccount, list, memory
<1>3. \/ new.at = "uids" /\ new.ret = "append"
      \/ new.at \in {"unbind", "done"}
  BY <1>1 DEF StartWork, UnbindAccount, Call, Goto, ThreadRecord
<1> HIDE DEF s, new
<1>4. KnowsList(new, array, typeUID, bindApp)
  BY <1>3, Elsewhere DEF Target, ListCalls, FriendCalls
<1> QED
  BY <1>2, <1>4, ListKept DEF new

\* SetToSeq has each element of a finite set once.
LEMMA SetToSeqOnce ==
  ASSUME NEW S, IsFiniteSet(S)
  PROVE  LET uids == SetToSeq(S)
         IN /\ Len(uids) \in Nat
            /\ \A i, k \in 1 .. Len(uids) : uids[i] = uids[k] => i = k
            /\ \A u \in S : \E i \in 1 .. Len(uids) : uids[i] = u
<1> DEFINE n == Cardinality(S)
           uids == SetToSeq(S)
<1>1. n \in Nat /\ ExistsBijection(1 .. n, S)
  BY FS_CardinalityType
<1>2. PICK f \in Bijection(1 .. n, S) : TRUE
  BY <1>1 DEF ExistsBijection
<1>3. f \in [1 .. n -> S] /\ IsInjective(f)
  BY <1>2 DEF Bijection, Injection, IsInjective
<1>4. uids \in [1 .. n -> S] /\ IsInjective(uids)
  BY <1>3 DEF SetToSeq
<1> HIDE DEF uids
<1>5. uids \in Injection(1 .. n, S)
  BY <1>4 DEF Injection, IsInjective
<1>6. IsFiniteSet(1 .. n) /\ Cardinality(1 .. n) = n
  BY <1>1, FS_Interval
<1>7. uids \in Surjection(1 .. n, S)
  BY <1>5, <1>6, FS_Injection
<1>8. Len(uids) = n
  BY <1>1, <1>4
<1>9. \A i, k \in 1 .. n : uids[i] = uids[k] => i = k
  BY <1>4 DEF IsInjective
<1>10. \A u \in S : \E i \in 1 .. n : uids[i] = u
  BY <1>7 DEF Surjection
<1> QED
  BY <1>1, <1>8, <1>9, <1>10 DEF uids

LEMMA RestartListed ==
  ASSUME Restart
  PROVE  ListInv'
<1> DEFINE S == {u \in Users : Bound(u)}
           uids == SetToSeq(S)
<1>1. IsFiniteSet(S)
  BY RelationAssumption, FS_Subset DEF RelationAssumption
<1>2. /\ array' = IF uids = <<>> THEN <<>> ELSE <<uids>>
      /\ typeUID' = IF uids = <<>> THEN Missing ELSE [a |-> 1, len |-> Len(uids)]
      /\ bindApp' = [u \in Users |-> IF Bound(u) THEN stored[u].bindApp ELSE NoTpID]
  BY DEF Restart
<1>3. \A u \in Users : bindApp'[u] # NoTpID => u \in S
  BY <1>2
<1> HIDE DEF S
<1>4. /\ Len(uids) \in Nat
      /\ \A i, k \in 1 .. Len(uids) : uids[i] = uids[k] => i = k
      /\ \A u \in S : \E i \in 1 .. Len(uids) : uids[i] = u
  BY <1>1, SetToSeqOnce
<1> HIDE DEF uids
<1>5. Once(array', typeUID') /\ \A u \in S : Has(array', typeUID', u)
  <2>1. CASE uids = <<>>
    <3>1. S = {}
      BY <1>4, <2>1
    <3> QED
      BY <1>2, <2>1, <3>1 DEF Once
  <2>2. CASE uids # <<>>
    <3>1. /\ array'[1] = uids
          /\ typeUID'.a = 1 /\ typeUID'.len = Len(uids) /\ typeUID' \in Slices
      BY <1>2, <1>4, <2>2 DEF Slices
    <3>2. typeUID' # Missing
      BY <3>1, RelationAssumption DEF RelationAssumption, Slices
    <3> QED
      BY <1>4, <3>1, <3>2 DEF Once, Has
  <2> QED
    BY <2>1, <2>2
<1>6. ASSUME NEW r \in Requests
      PROVE  KnowsList(thread'[r], array', typeUID', bindApp')
  <2>1. thread'[r].at \in {"idle", "done"}
    BY RequestFacts DEF Restart, Thread
  <2> QED
    BY <2>1, Elsewhere DEF Target, ListCalls, FriendCalls
<1> QED
  BY <1>3, <1>5, <1>6 DEF ListInv

LEMMA ListInvInit == Init => ListInv
<1> SUFFICES ASSUME Init
             PROVE  ListInv
  OBVIOUS
<1>1. \A r \in Requests : ~Busy(r)
  BY RequestFacts DEF Init, Thread, Busy
<1>2. \A r \in Requests : KnowsList(thread[r], array, typeUID, bindApp)
  BY <1>1, RestsElsewhere
<1> QED
  BY <1>2 DEF Init, ListInv, Once

\* The checking goroutine only reads contacts and stores users, besides its own actions.
LEMMA CheckerSteps ==
  ASSUME TypeInv, Step(Checker)
  PROVE  GetFriends(Checker) \/ MakeFriends(Checker) \/ RereadFriends(Checker) \/ StoreUser(Checker)
<1>1. thread[Checker].at \in {"idle", "jerry", "link", "store", "get", "makeFriends", "rereadFriends"}
  BY DEF TypeInv, ThreadOK, CheckerFlow, Threads, FriendCalls
<1> QED
  BY <1>1, CheckExistsFacts
     DEF Step, GetUIDs, MakeUIDs, RereadUIDs, InTypeUIDMap, AppendUID, RemoveUID, AppendFriends,
         ScanAllFriends, SendCheck, SetTpID, RemoveTpID, RemoveFriends

LEMMA ListInvStep ==
  ASSUME Serial, TypeInv, OneAtWork, ListInv, [Next]_vars
  PROVE  ListInv'
<1>1. ASSUME NEW r \in Requests, Step(r)
      PROVE  ListInv'
  <2>1. r \in Threads /\ r # Checker
    BY RequestFacts
  <2>2. Alone(r)
    BY <1>1, <2>1, StepContinues DEF Continues, OneAtWork, Alone, Threads
  <2> QED
    BY <1>1, <2>2, ReadingListed, SearchListed, MakeUIDsListed, AppendUIDListed, RemoveUIDListed,
       ContactsListed, SetTpIDListed, RemoveTpIDListed, RemoveFriendsListed DEF Step
<1>2. ASSUME NEW r \in Requests, StartWork(r) \/ UnbindAccount(r)
      PROVE  ListInv'
  <2>1. Alone(r)
    BY <1>2, BeginAlone DEF Alone, Threads
  <2> QED
    BY <1>2, <2>1, BeginListed
<1>3. CASE Check
  <2>1. Checker \in Threads /\ Checker \notin Requests /\ DOMAIN thread = Threads
    BY RelationAssumption DEF Threads, RelationAssumption, TypeInv
  <2>2. \A r \in Requests : thread'[r] = thread[r]
    BY <1>3, <2>1, StepContinues, CheckContinues DEF Check, Continues, TakeCheck, Threads
  <2>3. UNCHANGED <<array, typeUID, bindApp>>
    <3>1. CASE Step(Checker)
      BY <3>1, CheckerSteps DEF GetFriends, MakeFriends, RereadFriends, StoreUser, list, memory
    <3>2. CASE TakeCheck \/ GetJerryTpID \/ CheckFriend
      BY <3>2 DEF TakeCheck, GetJerryTpID, CheckFriend, list, memory
    <3> QED
      BY <1>3, <3>1, <3>2 DEF Check
  <2> QED
    BY <2>2, <2>3 DEF ListInv
<1>4. CASE Restart
  BY <1>4, RestartListed
<1>5. CASE UNCHANGED vars
  BY <1>5 DEF ListInv, vars, list, memory
<1> QED
  BY <1>1, <1>2, <1>3, <1>4, <1>5 DEF Next

LEMMA SerialAlways ==
  ASSUME Serial
  PROVE  Spec => [](TypeInv /\ LinkInv /\ OneAtWork)
<1>1. Init => OneAtWork
  BY RequestFacts DEF Init, OneAtWork, Busy, Thread
<1>2. TypeInv /\ LinkInv /\ OneAtWork /\ [Next]_vars => OneAtWork'
  BY OneAtWorkStep
<1> QED
  BY <1>1, <1>2, TypeInvAlways, LinkInvAlways, PTL DEF Spec

LEMMA ListInvAlways ==
  ASSUME Serial
  PROVE  Spec => []ListInv
<1>1. TypeInv /\ LinkInv /\ OneAtWork /\ ListInv /\ [Next]_vars => ListInv'
  BY ListInvStep
<1> QED
  BY <1>1, ListInvInit, SerialAlways, PTL DEF Spec

\* Of requests made one after the other, with restarts at any point: the list of
\* the app's users has a user with an account, once (relation.go:75-81).
THEOREM ListedAlwaysWhenQuiet ==
  ASSUME Serial
  PROVE  Spec => []ListedWhenQuiet
<1>1. TypeInv /\ ListInv => ListedWhenQuiet
  <2> SUFFICES ASSUME TypeInv, ListInv, NEW u \in users, bindApp[u] # NoTpID
               PROVE  Cardinality({i \in 1 .. typeUID.len : array[typeUID.a][i] = u}) = 1
    BY DEF ListedWhenQuiet
  <2>1. u \in Users
    BY DEF TypeInv, MemoryOK
  <2>2. Has(array, typeUID, u)
    BY <2>1 DEF ListInv
  <2>3. PICK k \in 1 .. typeUID.len : array[typeUID.a][k] = u
    BY <2>2 DEF Has
  <2>4. typeUID # Missing
    BY <2>2 DEF Has
  <2>5. \A i \in 1 .. typeUID.len : array[typeUID.a][i] = u => i = k
    BY <2>3, <2>4 DEF ListInv, Once
  <2>6. {i \in 1 .. typeUID.len : array[typeUID.a][i] = u} = {k}
    BY <2>3, <2>5
  <2> QED
    BY <2>6, FS_Singleton
<1> QED
  BY <1>1, TypeInvAlways, ListInvAlways, PTL

-----------------------------------------------------------------------------
(* The contacts of a user, one request at a time. *)

\* No request names an account twice.
ContactsDiffer ==
  \A r \in Requests : input[r].op = "bind" =>
    \A i, k \in DOMAIN input[r].contacts : input[r].contacts[i] = input[r].contacts[k] => i = k

\* A request at rest knows nothing of its user's contacts.
LEMMA RestsContacts ==
  ASSUME NEW r, NEW g, NEW g2, ~Busy(r), KnowsFriends(r, thread[r], g)
  PROVE  KnowsFriends(r, thread[r], g2)
BY DEF KnowsFriends, Busy, Target, ListCalls, FriendCalls

LEMMA ContactStep ==
  ASSUME ContactInv, NEW r \in Requests, Alone(r), thread'[Checker] = thread[Checker],
         \A u \in Users : friends'[u] # Missing => TpIDsDiffer(friends'[u]),
         \A u \in Users : stored'[u] # Missing /\ stored'[u].friends # Missing =>
           TpIDsDiffer(stored'[u].friends),
         input[r].op = "bind" => KnowsFriends(r, thread'[r], friends'[thread'[r].user])
  PROVE  ContactInv'
<1>1. ASSUME NEW q \in Requests, input[q].op = "bind"
      PROVE  KnowsFriends(q, thread'[q], friends'[thread'[q].user])
  <2>1. CASE q = r
    BY <1>1, <2>1
  <2>2. CASE q # r
    <3>1. thread'[q] = thread[q] /\ ~Busy(q)
      BY <2>2 DEF Alone
    <3>2. KnowsFriends(q, thread[q], friends[thread[q].user])
      BY <1>1 DEF ContactInv
    <3> QED
      BY <3>1, <3>2, RestsContacts
  <2> QED
    BY <2>1, <2>2
<1> QED
  BY <1>1 DEF ContactInv

\* A step of a request that leaves all contacts alone.
LEMMA ContactsKept ==
  ASSUME ContactInv, NEW r \in Requests, Alone(r), thread'[Checker] = thread[Checker],
         UNCHANGED <<friends, stored>>,
         input[r].op = "bind" => KnowsFriends(r, thread'[r], friends[thread'[r].user])
  PROVE  ContactInv'
<1>1. friends' = friends /\ stored' = stored
  OBVIOUS
<1>2. input[r].op = "bind" => KnowsFriends(r, thread'[r], friends'[thread'[r].user])
  BY <1>1
<1>3. \A u \in Users : friends'[u] # Missing => TpIDsDiffer(friends'[u])
  BY <1>1 DEF ContactInv
<1>4. \A u \in Users : stored'[u] # Missing /\ stored'[u].friends # Missing =>
        TpIDsDiffer(stored'[u].friends)
  BY <1>1 DEF ContactInv
<1> QED
  BY <1>2, <1>3, <1>4, ContactStep

\* The thread goes on elsewhere with the contacts it has.
LEMMA NotAtContacts ==
  ASSUME NEW r, NEW s, NEW new, NEW g, NEW g2, KnowsFriends(r, s, g),
         new.old = s.old, new.readyToMerge = s.readyToMerge, new.i = s.i,
         new.at \notin {"rereadFriends", "exists", "merge", "scan"},
         Target(new) \notin {"exists", "merge"}
  PROVE  KnowsFriends(r, new, g2)
BY DEF KnowsFriends

\* A thread as it begins, or ended.
LEMMA NoContacts ==
  ASSUME NEW r, NEW s, NEW g, s.old = <<>>, s.readyToMerge = <<>>,
         s.at \in {"idle", "done"}
  PROVE  KnowsFriends(r, s, g)
BY DEF KnowsFriends, TpIDsDiffer, Target, ListCalls, FriendCalls

LEMMA ListContacts ==
  ASSUME TypeInv, ContactInv, NEW r \in Requests, Alone(r), thread'[Checker] = thread[Checker],
         GetUIDs(r) \/ MakeUIDs(r) \/ RereadUIDs(r) \/ InTypeUIDMap(r) \/ AppendUID(r) \/ RemoveUID(r)
  PROVE  ContactInv'
<1> DEFINE s == thread[r]
           new == thread'[r]
<1>1. r \in Threads /\ r # Checker /\ s \in ThreadRecord /\ DOMAIN thread = Threads /\ RequestFlow(r, s)
  BY RequestFacts DEF TypeInv, ThreadOK
<1>2. UNCHANGED <<friends, stored>>
  BY DEF GetUIDs, MakeUIDs, RereadUIDs, InTypeUIDMap, AppendUID, RemoveUID, memory
<1>3. /\ new.old = s.old /\ new.readyToMerge = s.readyToMerge /\ new.i = s.i
      /\ new.at \in {"makeUIDs", "rereadUIDs", "in", "append", "remove", "bind", "store"}
      /\ new.at \in {"makeUIDs", "rereadUIDs", "in"} => new.ret \in {"append", "remove"}
  <2>1. CASE GetUIDs(r)
    BY <1>1, <2>1 DEF GetUIDs, ThreadRecord, RequestFlow, ListCalls
  <2>2. CASE MakeUIDs(r)
    BY <1>1, <2>2 DEF MakeUIDs, Goto, ThreadRecord, RequestFlow, ListCalls
  <2>3. CASE RereadUIDs(r)
    BY <1>1, <2>3 DEF RereadUIDs, ThreadRecord, RequestFlow, ListCalls
  <2>4. CASE InTypeUIDMap(r)
    BY <1>1, <2>4 DEF InTypeUIDMap, ThreadRecord, RequestFlow, ListCalls
  <2>5. CASE AppendUID(r) \/ RemoveUID(r)
    BY <1>1, <2>5 DEF AppendUID, RemoveUID, Goto, ThreadRecord
  <2> QED
    BY <2>1, <2>2, <2>3, <2>4, <2>5
<1>4. input[r].op = "bind" => KnowsFriends(r, s, friends[s.user])
  BY DEF ContactInv
<1> HIDE DEF s, new
<1>5. new.at \notin {"rereadFriends", "exists", "merge", "scan"} /\ Target(new) \notin {"exists", "merge"}
  BY <1>3 DEF Target, ListCalls, FriendCalls
<1>6. input[r].op = "bind" => KnowsFriends(r, new, friends[new.user])
  BY <1>3, <1>4, <1>5, NotAtContacts
<1> QED
  BY <1>2, <1>6, ContactsKept DEF new

LEMMA ReadingContacts ==
  ASSUME TypeInv, ContactInv, NEW r \in Requests, Alone(r), thread'[Checker] = thread[Checker],
         GetFriends(r) \/ RereadFriends(r)
  PROVE  ContactInv'
<1> DEFINE s == thread[r]
           new == thread'[r]
           g == friends[s.user]
<1>1. r \in Threads /\ r # Checker /\ s \in ThreadRecord /\ DOMAIN thread = Threads /\ RequestFlow(r, s)
  BY RequestFacts DEF TypeInv, ThreadOK
<1>2. UNCHANGED <<friends, stored>>
  BY DEF GetFriends, RereadFriends, memory
<1>3. /\ s.at \in {"get", "rereadFriends"}
      /\ new.readyToMerge = s.readyToMerge /\ new.i = s.i /\ new.user = s.user /\ new.ret = s.ret
      /\ \/ new.at = "makeFriends" /\ g = Missing /\ new.old = s.old
         \/ new.at = s.ret /\ s.at = "get" /\ g # Missing /\ new.old = g
         \/ new.at = s.ret /\ s.at = "rereadFriends" /\ new.old = IF g = Missing THEN <<>> ELSE g
  <2>1. CASE GetFriends(r)
    BY <1>1, <2>1 DEF GetFriends, ThreadRecord
  <2>2. CASE RereadFriends(r)
    BY <1>1, <2>2 DEF RereadFriends, ThreadRecord
  <2> QED
    BY <2>1, <2>2
<1>4. input[r].op = "bind" => KnowsFriends(r, s, g)
  BY DEF ContactInv
<1>5. s.ret \in {"exists", "merge", "scan"} /\ s.user \in Users
  BY <1>1, <1>3, RequestFacts DEF RequestFlow, FriendCalls
<1>6. g # Missing => TpIDsDiffer(g)
  BY <1>5 DEF ContactInv
<1>7. TpIDsDiffer(<<>>) /\ NoneOf(s.readyToMerge, <<>>)
  BY DEF TpIDsDiffer, NoneOf
<1> HIDE DEF s, new, g
<1>8. Target(new) = s.ret /\ Target(s) = s.ret
  BY <1>3, <1>5 DEF Target, ListCalls, FriendCalls
<1>9. ASSUME input[r].op = "bind"
      PROVE  KnowsFriends(r, new, g)
  <2>1. KnowsFriends(r, s, g)
    BY <1>4, <1>9
  <2>2. CASE new.at = "makeFriends" /\ g = Missing /\ new.old = s.old
    BY <1>3, <1>8, <2>1, <2>2 DEF KnowsFriends
  <2>3. CASE new.at = s.ret /\ s.at = "get" /\ g # Missing /\ new.old = g
    BY <1>3, <1>5, <1>6, <1>8, <2>1, <2>3 DEF KnowsFriends
  <2>4. CASE new.at = s.ret /\ s.at = "rereadFriends" /\ new.old = IF g = Missing THEN <<>> ELSE g
    <3>1. g = <<>> /\ new.old = g /\ TpIDsDiffer(new.old) /\ NoneOf(new.readyToMerge, g)
      BY <1>3, <1>6, <1>7, <2>1, <2>4 DEF KnowsFriends
    <3> QED
      BY <1>3, <1>5, <1>8, <2>1, <2>4, <3>1 DEF KnowsFriends
  <2> QED
    BY <1>3, <2>2, <2>3, <2>4
<1>10. input[r].op = "bind" => KnowsFriends(r, new, friends[new.user])
  BY <1>3, <1>9 DEF g
<1> QED
  BY <1>2, <1>10, ContactsKept DEF new

LEMMA MakeFriendsContacts ==
  ASSUME TypeInv, ContactInv, NEW r \in Requests, Alone(r), thread'[Checker] = thread[Checker],
         MakeFriends(r)
  PROVE  ContactInv'
<1> DEFINE s == thread[r]
           new == thread'[r]
<1>1. /\ r \in Threads /\ s \in ThreadRecord /\ DOMAIN thread = Threads /\ DOMAIN friends = Users
      /\ s.user \in Users
  BY RequestFacts, ActiveUser DEF TypeInv, ThreadOK, MemoryOK, MakeFriends
<1>2. friends' = [friends EXCEPT ![s.user] = <<>>] /\ stored' = stored
  BY DEF MakeFriends
<1>3. /\ s.at = "makeFriends" /\ new.at = "rereadFriends" /\ new.ret = s.ret /\ new.user = s.user
      /\ new.old = s.old /\ new.readyToMerge = s.readyToMerge /\ new.i = s.i
  BY <1>1 DEF MakeFriends, Goto, ThreadRecord
<1>4. input[r].op = "bind" => KnowsFriends(r, s, friends[s.user])
  BY DEF ContactInv
<1> HIDE DEF s, new
<1>5. friends'[s.user] = <<>> /\ \A u \in Users \ {s.user} : friends'[u] = friends[u]
  BY <1>1, <1>2
<1>6. TpIDsDiffer(<<>>) /\ \A f : NoneOf(f, <<>>)
  BY DEF TpIDsDiffer, NoneOf
<1>7. \A u \in Users : friends'[u] # Missing => TpIDsDiffer(friends'[u])
  BY <1>5, <1>6 DEF ContactInv
<1>8. \A u \in Users : stored'[u] # Missing /\ stored'[u].friends # Missing =>
        TpIDsDiffer(stored'[u].friends)
  BY <1>2 DEF ContactInv
<1>9. input[r].op = "bind" => KnowsFriends(r, new, <<>>)
  BY <1>3, <1>4, <1>6 DEF KnowsFriends
<1>10. input[r].op = "bind" => KnowsFriends(r, new, friends'[new.user])
  BY <1>3, <1>5, <1>9
<1> QED
  BY <1>7, <1>8, <1>10, ContactStep DEF new

LEMMA SetTpIDContacts ==
  ASSUME TypeInv, ContactInv, NEW r \in Requests, Alone(r), thread'[Checker] = thread[Checker], SetTpID(r)
  PROVE  ContactInv'
<1> DEFINE s == thread[r]
           new == thread'[r]
<1>1. /\ r \in Threads /\ r # Checker /\ s \in ThreadRecord /\ DOMAIN thread = Threads
      /\ RequestFlow(r, s) /\ s.at = "bind"
  BY RequestFacts DEF TypeInv, ThreadOK, SetTpID
<1>2. UNCHANGED <<friends, stored>>
  BY DEF SetTpID
<1>3. /\ new.at = "get" /\ new.old = s.old /\ new.readyToMerge = s.readyToMerge /\ new.i = s.i
  BY <1>1 DEF SetTpID, Call, ThreadRecord
<1>4. s.i = 1
  BY <1>1 DEF RequestFlow, Target, ListCalls, FriendCalls
<1>5. input[r].op = "bind" => KnowsFriends(r, s, friends[s.user])
  BY DEF ContactInv
<1> HIDE DEF s, new
<1>6. ASSUME input[r].op = "bind"
      PROVE  KnowsFriends(r, new, friends[new.user])
  <2>1. DOMAIN input[r].contacts \subseteq Nat \ {0}
    BY <1>6, RequestFacts
  <2>2. DOMAIN s.readyToMerge = {}
    BY <1>4, <1>5, <1>6, <2>1 DEF KnowsFriends
  <2>3. \A g : NoneOf(s.readyToMerge, g)
    BY <2>2 DEF NoneOf
  <2> QED
    BY <1>3, <1>5, <1>6, <2>3 DEF KnowsFriends
<1> QED
  BY <1>2, <1>6, ContactsKept DEF new

\* A contact of the request is to be merged if it is none of those read.
LEMMA CheckExistsMerges ==
  ASSUME NEW t, CheckExists(t)
  PROVE  LET s == thread[t]
             next == IF s.i < Len(input[t].contacts) THEN "exists" ELSE "merge"
         IN \/ Prepared(t, s.readyToMerge, next)
            \/ /\ Prepared(t, Append(s.readyToMerge, NewContact(t)), next)
               /\ \A k \in DOMAIN s.old : s.old[k].TpID # input[t].contacts[s.i]
<1> DEFINE known == \E k \in DOMAIN thread[t].old : thread[t].old[k].TpID = input[t].contacts[thread[t].i]
           merged == IF known THEN thread[t].readyToMerge ELSE Append(thread[t].readyToMerge, NewContact(t))
           next == IF thread[t].i < Len(input[t].contacts) THEN "exists" ELSE "merge"
<1>1. Prepared(t, merged, next)
  BY Zenon DEF CheckExists, Prepared, Preparing, NewContact
<1> HIDE DEF next
<1>2. CASE known
  <2>1. merged = thread[t].readyToMerge
    BY <1>2
  <2> QED
    BY <1>1, <2>1 DEF next
<1>3. CASE ~known
  <2>1. merged = Append(thread[t].readyToMerge, NewContact(t))
    BY <1>3
  <2> QED
    BY <1>1, <1>3, <2>1 DEF next
<1> QED
  BY <1>2, <1>3

\* One more contact to merge.
LEMMA MergesOneMore ==
  ASSUME NEW ready \in Seq(Friend), NEW item, NEW g,
         item.TpID \in TpIDs \cup {NoTpID}, item.UID = NoUID, item \in Friend,
         TpIDsDiffer(ready), NoneOf(ready, g),
         \A k \in DOMAIN ready : ready[k].TpID # item.TpID,
         \A k \in DOMAIN g : g[k].TpID # item.TpID
  PROVE  LET more == Append(ready, item)
         IN /\ TpIDsDiffer(more) /\ NoneOf(more, g)
            /\ \A k \in DOMAIN more : (k \in DOMAIN ready /\ more[k] = ready[k]) \/ more[k] = item
<1> DEFINE more == Append(ready, item)
           n == Len(ready)
<1>1. /\ DOMAIN ready = 1 .. n /\ DOMAIN more = 1 .. n + 1 /\ n \in Nat
      /\ more[n + 1] = item /\ \A k \in 1 .. n : more[k] = ready[k]
  OBVIOUS
<1> HIDE DEF more, n
<1>2. \A k \in DOMAIN more : (k \in DOMAIN ready /\ more[k] = ready[k]) \/ (k = n + 1 /\ more[k] = item)
  <2>1. \A k \in 1 .. n + 1 : k \in 1 .. n \/ k = n + 1
    BY <1>1
  <2> QED
    BY <1>1, <2>1
<1>3. TpIDsDiffer(more)
  BY <1>2 DEF TpIDsDiffer
<1>4. NoneOf(more, g)
  BY <1>2 DEF NoneOf
<1> QED
  BY <1>2, <1>3, <1>4 DEF more

LEMMA CheckExistsContacts ==
  ASSUME ContactsDiffer, TypeInv, ContactInv, NEW r \in Requests, Alone(r),
         thread'[Checker] = thread[Checker], CheckExists(r)
  PROVE  ContactInv'
<1> DEFINE s == thread[r]
           new == thread'[r]
           g == friends[s.user]
           item == NewContact(r)
           contacts == input[r].contacts
<1>1. /\ r \in Threads /\ r # Checker /\ s \in ThreadRecord /\ DOMAIN thread = Threads
      /\ RequestFlow(r, s) /\ s.at = "exists"
  BY RequestFacts, CheckExistsFacts DEF TypeInv, ThreadOK
<1>2. UNCHANGED <<friends, stored>>
  BY CheckExistsFacts DEF memory
<1>3. input[r].op = "bind" /\ s.i \in DOMAIN contacts /\ contacts \in Seq(TpIDs \cup {NoTpID}) /\ s.readyToMerge \in Seq(Friend)
  BY <1>1, RequestFacts DEF RequestFlow, Target, BindLabels, BindReturns, ListCalls, FriendCalls, ThreadRecord
<1>4. KnowsFriends(r, s, g)
  BY <1>3 DEF ContactInv
<1>5. s.old = g /\ NoneOf(s.readyToMerge, g)
  BY <1>1, <1>4 DEF KnowsFriends
<1>6. item = [TpID |-> contacts[s.i], UID |-> NoUID] /\ contacts[s.i] \in TpIDs \cup {NoTpID}
  BY <1>3 DEF NewContact
<1>7. item \in Friend /\ item.TpID = contacts[s.i] /\ item.TpID \in TpIDs \cup {NoTpID} /\ item.UID = NoUID
  BY <1>6 DEF Friend
<1> DEFINE next == IF s.i < Len(contacts) THEN "exists" ELSE "merge"
<1>8. PICK merged :
        /\ Prepared(r, merged, next)
        /\ \/ merged = s.readyToMerge
           \/ /\ merged = Append(s.readyToMerge, item)
              /\ \A k \in DOMAIN s.old : s.old[k].TpID # contacts[s.i]
  BY CheckExistsMerges
<1>9. /\ new.at = "get" /\ new.ret = next /\ new.readyToMerge = merged /\ new.i = s.i + 1
      /\ new.old = s.old /\ new.user = s.user /\ next \in {"exists", "merge"}
  BY <1>1, <1>8 DEF Prepared, Preparing, ThreadRecord
<1>10. s.i \in Nat /\ DOMAIN contacts \subseteq Nat /\ s.i < s.i + 1
  BY <1>3
<1>11. \A i, k \in DOMAIN contacts : contacts[i] = contacts[k] => i = k
  BY <1>3 DEF ContactsDiffer
<1> HIDE DEF s, new, g, item, contacts, next
<1>12. /\ TpIDsDiffer(merged) /\ NoneOf(merged, g)
       /\ \A k \in DOMAIN merged : \E i \in DOMAIN contacts : i < s.i + 1 /\ merged[k].TpID = contacts[i]
  <2>1. \A k \in DOMAIN s.readyToMerge : \E i \in DOMAIN contacts :
          i < s.i /\ s.readyToMerge[k].TpID = contacts[i]
    BY <1>4 DEF KnowsFriends, contacts
  <2>2. CASE merged = s.readyToMerge
    <3>1. \A i \in DOMAIN contacts : i < s.i => i < s.i + 1
      BY <1>10
    <3> QED
      BY <1>4, <1>5, <2>1, <2>2, <3>1 DEF KnowsFriends
  <2>3. CASE merged = Append(s.readyToMerge, item) /\ \A k \in DOMAIN s.old : s.old[k].TpID # contacts[s.i]
    <3>1. \A k \in DOMAIN s.readyToMerge : s.readyToMerge[k].TpID # item.TpID
      BY <1>3, <1>7, <1>10, <1>11, <2>1
    <3>2. \A k \in DOMAIN g : g[k].TpID # item.TpID
      BY <1>5, <1>7, <2>3
    <3>3. TpIDsDiffer(s.readyToMerge)
      BY <1>4 DEF KnowsFriends
    <3>4. TpIDsDiffer(merged) /\ NoneOf(merged, g)
          /\ \A k \in DOMAIN merged :
               (k \in DOMAIN s.readyToMerge /\ merged[k] = s.readyToMerge[k]) \/ merged[k] = item
      <4> DEFINE ready == s.readyToMerge
      <4>1. /\ ready \in Seq(Friend) /\ TpIDsDiffer(ready) /\ NoneOf(ready, g)
            /\ \A k \in DOMAIN ready : ready[k].TpID # item.TpID
        BY <1>3, <1>5, <3>1, <3>3
      <4>2. merged = Append(ready, item)
        BY <2>3
      <4> HIDE DEF ready
      <4>3. TpIDsDiffer(Append(ready, item)) /\ NoneOf(Append(ready, item), g)
            /\ \A k \in DOMAIN Append(ready, item) :
                 (k \in DOMAIN ready /\ Append(ready, item)[k] = ready[k]) \/ Append(ready, item)[k] = item
        BY <1>7, <3>2, <4>1, MergesOneMore
      <4> QED
        BY <4>2, <4>3 DEF ready
    <3>5. \A k \in DOMAIN merged : \E i \in DOMAIN contacts : i < s.i + 1 /\ merged[k].TpID = contacts[i]
      <4>1. \A i \in DOMAIN contacts : i < s.i => i < s.i + 1
        BY <1>10
      <4> QED
        BY <1>3, <1>7, <1>10, <2>1, <3>4, <4>1
    <3> QED
      BY <3>4, <3>5
  <2> QED
    BY <1>8, <2>2, <2>3
<1>13. new.at = "get" /\ Target(new) = next
  BY <1>9 DEF Target, ListCalls, FriendCalls
<1>14. KnowsFriends(r, new, g)
  BY <1>4, <1>9, <1>12, <1>13 DEF KnowsFriends, contacts
<1>15. KnowsFriends(r, new, friends[new.user])
  BY <1>9, <1>14 DEF g
<1> QED
  BY <1>2, <1>15, ContactsKept DEF new

\* Contacts that differ, and others that are none of them.
LEMMA ConcatDiffers ==
  ASSUME NEW f \in Seq(Friend), NEW g \in Seq(Friend), TpIDsDiffer(f), TpIDsDiffer(g), NoneOf(g, f)
  PROVE  TpIDsDiffer(f \o g)
<1> DEFINE h == f \o g
           n == Len(f)
           m == Len(g)
<1>1. n \in Nat /\ m \in Nat /\ DOMAIN f = 1 .. n /\ DOMAIN g = 1 .. m
  OBVIOUS
<1>2. DOMAIN h = 1 .. n + m
  OBVIOUS
<1>3. \A k \in 1 .. n : h[k] = f[k]
  OBVIOUS
<1>4. \A k \in n + 1 .. n + m : h[k] = g[k - n]
  OBVIOUS
<1> HIDE DEF h, n, m
<1>5. \A k \in DOMAIN h : \/ k \in DOMAIN f /\ h[k] = f[k]
                          \/ k - n \in DOMAIN g /\ h[k] = g[k - n] /\ k \in Int
  BY <1>1, <1>2, <1>3, <1>4
<1>6. \A i, k \in Int : i - n = k - n => i = k
  BY <1>1
<1> QED
  BY <1>5, <1>6 DEF TpIDsDiffer, NoneOf, h

LEMMA AppendFriendsContacts ==
  ASSUME TypeInv, ContactInv, NEW r \in Requests, Alone(r), thread'[Checker] = thread[Checker], AppendFriends(r)
  PROVE  ContactInv'
<1> DEFINE s == thread[r]
           new == thread'[r]
           f == s.old \o s.readyToMerge
<1>1. /\ r \in Threads /\ r # Checker /\ s \in ThreadRecord /\ DOMAIN thread = Threads /\ DOMAIN friends = Users
      /\ RequestFlow(r, s) /\ s.at = "merge" /\ s.user \in Users
  BY RequestFacts, ActiveUser DEF TypeInv, ThreadOK, AppendFriends, MemoryOK
<1>2. friends' = [friends EXCEPT ![s.user] = f] /\ stored' = stored
  BY DEF AppendFriends
<1>3. /\ new.at = "get" /\ new.ret = "scan" /\ new.user = s.user
      /\ new.old = s.old /\ new.readyToMerge = s.readyToMerge /\ new.i = s.i
  BY <1>1 DEF AppendFriends, Call, ThreadRecord
<1>4. input[r].op = "bind" /\ KnowsFriends(r, s, friends[s.user])
  BY <1>1 DEF ContactInv, RequestFlow, Target, BindLabels, BindReturns, ListCalls, FriendCalls
<1>5. s.old \in Seq(Friend) /\ s.readyToMerge \in Seq(Friend)
  BY <1>1 DEF ThreadRecord
<1>6. TpIDsDiffer(s.old) /\ TpIDsDiffer(s.readyToMerge) /\ NoneOf(s.readyToMerge, s.old)
  BY <1>1, <1>4 DEF KnowsFriends
<1> HIDE DEF s, new, f
<1>7. TpIDsDiffer(f)
  BY <1>5, <1>6, ConcatDiffers DEF f
<1>8. friends'[s.user] = f /\ \A u \in Users \ {s.user} : friends'[u] = friends[u]
  BY <1>1, <1>2
<1>9. \A u \in Users : friends'[u] # Missing => TpIDsDiffer(friends'[u])
  BY <1>7, <1>8 DEF ContactInv
<1>10. \A u \in Users : stored'[u] # Missing /\ stored'[u].friends # Missing =>
         TpIDsDiffer(stored'[u].friends)
  BY <1>2 DEF ContactInv
<1>11. KnowsFriends(r, new, friends'[new.user])
  <2>1. new.at = "get" /\ Target(new) = "scan"
    BY <1>3 DEF Target, ListCalls, FriendCalls
  <2> QED
    BY <1>3, <1>4, <2>1, NotAtContacts
<1> QED
  BY <1>9, <1>10, <1>11, ContactStep DEF new

\* Contacts with the same accounts, linked or not.
LEMMA SameAccounts ==
  ASSUME NEW f, NEW g, TpIDsDiffer(f), DOMAIN g = DOMAIN f, \A k \in DOMAIN f : g[k].TpID = f[k].TpID
  PROVE  TpIDsDiffer(g)
BY DEF TpIDsDiffer

LEMMA ScanAllFriendsContacts ==
  ASSUME TypeInv, ContactInv, NEW r \in Requests, Alone(r), thread'[Checker] = thread[Checker],
         ScanAllFriends(r)
  PROVE  ContactInv'
<1> DEFINE s == thread[r]
           new == thread'[r]
           f == [k \in DOMAIN s.old |-> Linked(s.user, s.old[k])]
<1>1. /\ r \in Threads /\ r # Checker /\ s \in ThreadRecord /\ DOMAIN thread = Threads /\ DOMAIN friends = Users
      /\ RequestFlow(r, s) /\ s.at = "scan" /\ s.user \in Users /\ typeUID # Missing
  BY RequestFacts, ActiveUser
     DEF TypeInv, ThreadOK, ScanAllFriends, MemoryOK, ListedLabels, BindLabels, BindReturns
<1>2. friends' = [friends EXCEPT ![s.user] = f] /\ stored' = stored
  BY DEF ScanAllFriends, LinkFriends
<1>3. /\ new.at = "send" /\ new.user = s.user
      /\ new.old = s.old /\ new.readyToMerge = s.readyToMerge /\ new.i = s.i
  BY <1>1 DEF ScanAllFriends, ThreadRecord
<1>4. input[r].op = "bind" /\ KnowsFriends(r, s, friends[s.user])
  BY <1>1 DEF ContactInv, RequestFlow, Target, BindLabels, BindReturns, ListCalls, FriendCalls
<1>5. TpIDsDiffer(f)
  <2>1. s.old \in Seq(Friend) /\ TpIDsDiffer(s.old)
    BY <1>1, <1>4 DEF ThreadRecord, KnowsFriends
  <2>2. \A k \in DOMAIN s.old : s.old[k] \in Friend
    BY <2>1
  <2>3. \A k \in DOMAIN s.old : Linked(s.user, s.old[k]).TpID = s.old[k].TpID
    BY <1>1, <2>2, LinkedFacts
  <2>4. DOMAIN f = DOMAIN s.old /\ \A k \in DOMAIN s.old : f[k].TpID = s.old[k].TpID
    BY <2>3
  <2> QED
    BY <2>1, <2>4, SameAccounts
<1> HIDE DEF s, new, f
<1>6. friends'[s.user] = f /\ \A u \in Users \ {s.user} : friends'[u] = friends[u]
  BY <1>1, <1>2
<1>7. \A u \in Users : friends'[u] # Missing => TpIDsDiffer(friends'[u])
  BY <1>5, <1>6 DEF ContactInv
<1>8. \A u \in Users : stored'[u] # Missing /\ stored'[u].friends # Missing =>
        TpIDsDiffer(stored'[u].friends)
  BY <1>2 DEF ContactInv
<1>9. KnowsFriends(r, new, friends'[new.user])
  <2>1. Target(new) = "send"
    BY <1>3 DEF Target, ListCalls, FriendCalls
  <2> QED
    BY <1>3, <1>4, <2>1, NotAtContacts
<1> QED
  BY <1>7, <1>8, <1>9, ContactStep DEF new

\* A request that sends checks, or unbinds, and one that begins.
LEMMA OthersContacts ==
  ASSUME TypeInv, ContactInv, NEW r \in Requests, Alone(r), thread'[Checker] = thread[Checker],
         SendCheck(r) \/ RemoveTpID(r) \/ StartWork(r) \/ UnbindAccount(r)
  PROVE  ContactInv'
<1> DEFINE s == thread[r]
           new == thread'[r]
<1>1. r \in Threads /\ s \in ThreadRecord /\ DOMAIN thread = Threads
  BY RequestFacts DEF TypeInv, ThreadOK
<1>2. UNCHANGED <<friends, stored>>
  BY DEF SendCheck, RemoveTpID, StartWork, UnbindAccount, memory
<1>3. /\ new.old = s.old /\ new.readyToMerge = s.readyToMerge /\ new.i = s.i
      /\ \/ new.at = "uids" /\ new.ret = "append"
         \/ new.at \in {"send", "store", "forget", "unbind", "done"}
  <2>1. CASE SendCheck(r)
    BY <1>1, <2>1 DEF SendCheck, Goto, ThreadRecord
  <2>2. CASE RemoveTpID(r)
    BY <1>1, <2>2 DEF RemoveTpID, Goto, ThreadRecord
  <2>3. CASE StartWork(r)
    BY <1>1, <2>3 DEF StartWork, Call, ThreadRecord
  <2>4. CASE UnbindAccount(r)
    BY <1>1, <2>4 DEF UnbindAccount, Goto, ThreadRecord
  <2> QED
    BY <2>1, <2>2, <2>3, <2>4
<1>4. input[r].op = "bind" => KnowsFriends(r, s, friends[s.user])
  BY DEF ContactInv
<1> HIDE DEF s, new
<1>5. new.at \notin {"rereadFriends", "exists", "merge", "scan"} /\ Target(new) \notin {"exists", "merge"}
  BY <1>3 DEF Target, ListCalls, FriendCalls
<1>6. input[r].op = "bind" => KnowsFriends(r, new, friends[new.user])
  BY <1>3, <1>4, <1>5, NotAtContacts
<1> QED
  BY <1>2, <1>6, ContactsKept DEF new

LEMMA RemoveFriendsContacts ==
  ASSUME TypeInv, ContactInv, NEW r \in Requests, Alone(r), thread'[Checker] = thread[Checker],
         RemoveFriends(r)
  PROVE  ContactInv'
<1> DEFINE s == thread[r]
           new == thread'[r]
<1>1. /\ r \in Threads /\ s \in ThreadRecord /\ DOMAIN thread = Threads /\ DOMAIN friends = Users
      /\ s.user \in Users
  BY RequestFacts, ActiveUser DEF TypeInv, ThreadOK, MemoryOK, RemoveFriends
<1>2. friends' = [friends EXCEPT ![s.user] = Missing] /\ stored' = stored
  BY DEF RemoveFriends
<1>3. /\ new.at = "uids" /\ new.ret = "remove"
      /\ new.old = s.old /\ new.readyToMerge = s.readyToMerge /\ new.i = s.i
  BY <1>1 DEF RemoveFriends, Call, ThreadRecord
<1>4. input[r].op = "bind" => KnowsFriends(r, s, friends[s.user])
  BY DEF ContactInv
<1> HIDE DEF s, new
<1>5. \A u \in Users : friends'[u] # Missing => friends'[u] = friends[u]
  BY <1>1, <1>2
<1>6. \A u \in Users : friends'[u] # Missing => TpIDsDiffer(friends'[u])
  BY <1>5 DEF ContactInv
<1>7. \A u \in Users : stored'[u] # Missing /\ stored'[u].friends # Missing =>
        TpIDsDiffer(stored'[u].friends)
  BY <1>2 DEF ContactInv
<1>8. Target(new) = "remove"
  BY <1>3 DEF Target, ListCalls, FriendCalls
<1>9. input[r].op = "bind" => KnowsFriends(r, new, friends'[new.user])
  BY <1>3, <1>4, <1>8, NotAtContacts
<1> QED
  BY <1>6, <1>7, <1>9, ContactStep DEF new

\* What is stored is what is in memory.
LEMMA StoredContacts ==
  ASSUME TypeInv, ContactInv, NEW t \in Threads, StoreUser(t)
  PROVE  \A u \in Users : stored'[u] # Missing /\ stored'[u].friends # Missing =>
           TpIDsDiffer(stored'[u].friends)
<1> DEFINE v == thread[t].user
           account == [bindApp |-> bindApp[v], friends |-> friends[v]]
<1>1. v \in Users /\ DOMAIN stored = Users
  BY ActiveUser DEF TypeInv, MemoryOK, StoreUser
<1>2. stored' = [stored EXCEPT ![v] = account] \/ stored' = stored
  BY DEF StoreUser, Saved, NotSaved
<1>3. account.friends = friends[v]
  OBVIOUS
<1> HIDE DEF v, account
<1>4. /\ stored'[v] = account \/ stored'[v] = stored[v]
      /\ \A u \in Users \ {v} : stored'[u] = stored[u]
  BY <1>1, <1>2
<1> QED
  BY <1>1, <1>3, <1>4 DEF ContactInv

LEMMA StoreUserContacts ==
  ASSUME TypeInv, ContactInv, NEW r \in Requests, Alone(r), thread'[Checker] = thread[Checker],
         StoreUser(r)
  PROVE  ContactInv'
<1>1. r \in Threads /\ r # Checker /\ DOMAIN thread = Threads
  BY RequestFacts DEF TypeInv
<1>2. friends' = friends
  BY DEF StoreUser, memory
<1>3. thread'[r].old = <<>> /\ thread'[r].readyToMerge = <<>> /\ thread'[r].at = "done"
  BY <1>1 DEF StoreUser, Thread
<1>4. KnowsFriends(r, thread'[r], friends'[thread'[r].user])
  BY <1>3, NoContacts
<1>5. \A u \in Users : friends'[u] # Missing => TpIDsDiffer(friends'[u])
  BY <1>2 DEF ContactInv
<1> QED
  BY <1>1, <1>4, <1>5, StoredContacts, ContactStep

\* The checking goroutine changes the contacts of a user that no request is at work for.
LEMMA CheckerStep ==
  ASSUME OneAtWork, ContactInv, Checker \notin Requests,
         \A r \in Requests : thread'[r] = thread[r],
         friends' = friends \/ Busy(Checker),
         \A u \in Users \ {thread[Checker].user} : friends'[u] = friends[u],
         \A r \in Requests : thread[r].user \in Users,
         \A u \in Users : friends'[u] # Missing => TpIDsDiffer(friends'[u]),
         \A u \in Users : stored'[u] # Missing /\ stored'[u].friends # Missing =>
           TpIDsDiffer(stored'[u].friends),
         TpIDsDiffer(thread'[Checker].old)
  PROVE  ContactInv'
<1>1. ASSUME NEW r \in Requests, input[r].op = "bind"
      PROVE  KnowsFriends(r, thread'[r], friends'[thread'[r].user])
  <2>1. KnowsFriends(r, thread[r], friends[thread[r].user]) /\ thread'[r] = thread[r]
    BY <1>1 DEF ContactInv
  <2>2. CASE ~Busy(r)
    BY <2>1, <2>2, RestsContacts
  <2>3. CASE Busy(r)
    <3>1. friends' = friends \/ thread[Checker].user # thread[r].user
      BY <2>3 DEF OneAtWork, NotChecked
    <3>2. friends'[thread[r].user] = friends[thread[r].user]
      BY <3>1
    <3> QED
      BY <2>1, <3>2
  <2> QED
    BY <2>2, <2>3
<1> QED
  BY <1>1 DEF ContactInv

LEMMA CheckerContacts ==
  ASSUME TypeInv, OneAtWork, ContactInv, Check
  PROVE  ContactInv'
<1> DEFINE s == thread[Checker]
           new == thread'[Checker]
<1>1. /\ Checker \in Threads /\ Checker \notin Requests /\ DOMAIN thread = Threads
      /\ s \in ThreadRecord /\ DOMAIN friends = Users
  BY RelationAssumption DEF Threads, RelationAssumption, TypeInv, ThreadOK, MemoryOK
<1>2. \A r \in Requests : thread'[r] = thread[r]
  BY <1>1, StepContinues, CheckContinues DEF Check, Continues, TakeCheck, Threads
<1>3. \A r \in Requests : thread[r].user \in Users
  BY RequestFacts DEF TypeInv, ThreadOK, RequestFlow
<1>4. \A u \in Users : friends[u] # Missing => TpIDsDiffer(friends[u])
  BY DEF ContactInv
<1>5. \A u \in Users : stored[u] # Missing /\ stored[u].friends # Missing => TpIDsDiffer(stored[u].friends)
  BY DEF ContactInv
<1>6. TpIDsDiffer(s.old) /\ TpIDsDiffer(<<>>)
  BY DEF ContactInv, TpIDsDiffer
<1>7. CASE StoreUser(Checker)
  <2>1. friends' = friends /\ new.old = <<>>
    BY <1>1, <1>7 DEF StoreUser, memory, Thread
  <2> QED
    BY <1>1, <1>2, <1>3, <1>4, <1>6, <1>7, <2>1, StoredContacts, CheckerStep
<1>8. CASE GetFriends(Checker) \/ RereadFriends(Checker)
  <2>1. UNCHANGED <<friends, stored>>
    BY <1>8 DEF GetFriends, RereadFriends, memory
  <2>2. s.user \in Users
    BY <1>1, <1>8, ActiveUser DEF GetFriends, RereadFriends
  <2>3. \/ new.old = s.old
        \/ friends[s.user] # Missing /\ new.old = friends[s.user]
        \/ new.old = IF friends[s.user] = Missing THEN <<>> ELSE friends[s.user]
    <3>1. CASE GetFriends(Checker)
      BY <1>1, <3>1 DEF GetFriends, ThreadRecord
    <3>2. CASE RereadFriends(Checker)
      BY <1>1, <3>2 DEF RereadFriends, ThreadRecord
    <3> QED
      BY <1>8, <3>1, <3>2
  <2>4. TpIDsDiffer(new.old)
    BY <1>4, <1>6, <2>2, <2>3
  <2> QED
    BY <1>1, <1>2, <1>3, <1>4, <1>5, <2>1, <2>4, CheckerStep
<1>9. CASE MakeFriends(Checker)
  <2>1. /\ s.at = "makeFriends" /\ s.user \in Users /\ Busy(Checker)
        /\ friends' = [friends EXCEPT ![s.user] = <<>>] /\ stored' = stored /\ new.old = s.old
    BY <1>1, <1>9, ActiveUser DEF MakeFriends, Goto, ThreadRecord, Busy
  <2>2. friends'[s.user] = <<>> /\ \A u \in Users \ {s.user} : friends'[u] = friends[u]
    BY <1>1, <2>1
  <2>3. \A u \in Users : friends'[u] # Missing => TpIDsDiffer(friends'[u])
    BY <1>4, <1>6, <2>2
  <2> QED
    BY <1>1, <1>2, <1>3, <1>5, <1>6, <2>1, <2>2, <2>3, CheckerStep
<1>10. CASE TakeCheck
  <2>1. UNCHANGED <<friends, stored>> /\ new.old = <<>>
    BY <1>1, <1>10 DEF TakeCheck, memory, Thread
  <2> QED
    BY <1>1, <1>2, <1>3, <1>4, <1>5, <1>6, <2>1, CheckerStep
<1>11. CASE GetJerryTpID
  <2>1. UNCHANGED <<friends, stored>> /\ new.old = s.old
    BY <1>1, <1>11 DEF GetJerryTpID, memory, ThreadRecord
  <2> QED
    BY <1>1, <1>2, <1>3, <1>4, <1>5, <1>6, <2>1, CheckerStep
<1>12. CASE CheckFriend
  <2> DEFINE LinkedTo(item) == IF item.TpID = s.jerryTpID THEN [item EXCEPT !.UID = s.jerry] ELSE item
             linked == [k \in DOMAIN s.old |-> LinkedTo(s.old[k])]
             f == IF s.jerryTpID = NoTpID THEN <<>> ELSE linked
  <2>1. /\ s.at = "link" /\ s.user \in Users /\ Busy(Checker) /\ stored' = stored /\ new.old = s.old
    BY <1>1, <1>12, ActiveUser DEF CheckFriend, Goto, ThreadRecord, Busy
  <2>2. friends' = [friends EXCEPT ![s.user] = f]
    BY <1>12 DEF CheckFriend, LinkJerry
  <2>3. TpIDsDiffer(f)
    <3>1. \A k \in DOMAIN s.old : s.old[k] \in Friend
      BY <1>1 DEF ThreadRecord
    <3>2. \A k \in DOMAIN s.old : LinkedTo(s.old[k]).TpID = s.old[k].TpID
      BY <3>1 DEF Friend
    <3>3. DOMAIN linked = DOMAIN s.old /\ \A k \in DOMAIN s.old : linked[k].TpID = s.old[k].TpID
      BY <3>2
    <3> HIDE DEF linked
    <3>4. TpIDsDiffer(linked)
      BY <1>6, <3>3, SameAccounts
    <3> QED
      BY <1>6, <3>4
  <2> HIDE DEF f
  <2>4. friends'[s.user] = f /\ \A u \in Users \ {s.user} : friends'[u] = friends[u]
    BY <1>1, <2>1, <2>2
  <2>5. \A u \in Users : friends'[u] # Missing => TpIDsDiffer(friends'[u])
    BY <1>4, <2>3, <2>4
  <2> QED
    BY <1>1, <1>2, <1>3, <1>5, <1>6, <2>1, <2>4, <2>5, CheckerStep
<1> QED
  BY <1>7, <1>8, <1>9, <1>10, <1>11, <1>12, CheckerSteps DEF Check

LEMMA RestartContacts ==
  ASSUME TypeInv, ContactInv, Restart
  PROVE  ContactInv'
<1>1. Checker \in Threads /\ Checker \notin Requests
  BY RelationAssumption DEF Threads, RelationAssumption
<1>2. \A u \in Users : friends'[u] # Missing => stored[u] # Missing /\ friends'[u] = stored[u].friends
  BY DEF Restart
<1>3. \A u \in Users : friends'[u] # Missing => TpIDsDiffer(friends'[u])
  BY <1>2 DEF ContactInv
<1>4. stored' = stored
  BY DEF Restart
<1>5. ASSUME NEW t \in Threads
      PROVE  thread'[t].old = <<>> /\ thread'[t].readyToMerge = <<>> /\ thread'[t].at \in {"idle", "done"}
  BY DEF Restart, Thread
<1>6. TpIDsDiffer(<<>>)
  BY DEF TpIDsDiffer
<1>7. \A r \in Requests : KnowsFriends(r, thread'[r], friends'[thread'[r].user])
  BY <1>5, RequestFacts, NoContacts
<1>8. TpIDsDiffer(thread'[Checker].old)
  BY <1>1, <1>5, <1>6
<1> QED
  BY <1>3, <1>4, <1>7, <1>8 DEF ContactInv

LEMMA ContactInvInit == Init => ContactInv
<1> SUFFICES ASSUME Init
             PROVE  ContactInv
  OBVIOUS
<1>1. \A t \in Threads : thread[t].old = <<>> /\ thread[t].readyToMerge = <<>> /\ thread[t].at = "idle"
  BY DEF Init, Thread
<1>2. \A r \in Requests : KnowsFriends(r, thread[r], friends[thread[r].user])
  BY <1>1, RequestFacts, NoContacts
<1>3. TpIDsDiffer(thread[Checker].old)
  BY <1>1 DEF TpIDsDiffer, Threads
<1> QED
  BY <1>2, <1>3 DEF Init, ContactInv

LEMMA ContactInvStep ==
  ASSUME Serial, ContactsDiffer, TypeInv, OneAtWork, ContactInv, [Next]_vars
  PROVE  ContactInv'
<1>0. Checker \in Threads
  BY DEF Threads
<1>1. ASSUME NEW r \in Requests, Step(r)
      PROVE  ContactInv'
  <2>1. r \in Threads /\ r # Checker
    BY RequestFacts
  <2>2. Alone(r) /\ thread'[Checker] = thread[Checker]
    BY <1>0, <1>1, <2>1, StepContinues DEF Continues, OneAtWork, Alone, Threads
  <2> QED
    BY <1>1, <2>2, ListContacts, ReadingContacts, MakeFriendsContacts, SetTpIDContacts, CheckExistsContacts,
       AppendFriendsContacts, ScanAllFriendsContacts, OthersContacts, RemoveFriendsContacts, StoreUserContacts
       DEF Step
<1>2. ASSUME NEW r \in Requests, StartWork(r) \/ UnbindAccount(r)
      PROVE  ContactInv'
  <2>1. Alone(r) /\ thread'[Checker] = thread[Checker]
    BY <1>0, <1>2, BeginAlone, RequestFacts DEF Alone, Threads
  <2> QED
    BY <1>2, <2>1, OthersContacts
<1>3. CASE Check
  BY <1>3, CheckerContacts
<1>4. CASE Restart
  BY <1>4, RestartContacts
<1>5. CASE UNCHANGED vars
  BY <1>5 DEF ContactInv, vars, memory
<1> QED
  BY <1>1, <1>2, <1>3, <1>4, <1>5 DEF Next

\* Nobody has two contacts with one account, at any time, if requests are made one
\* after the other and none names an account twice (relation.go:209).
THEOREM ContactsNeverDouble ==
  ASSUME Serial, ContactsDiffer
  PROVE  Spec => []NoDuplicateContacts
<1>1. TypeInv /\ LinkInv /\ OneAtWork /\ ContactInv /\ [Next]_vars => ContactInv'
  BY ContactInvStep
<1>2. ContactInv => NoDuplicateContacts
  BY DEF ContactInv, NoDuplicateContacts, TpIDsDiffer
<1> QED
  BY <1>1, <1>2, ContactInvInit, SerialAlways, PTL DEF Spec

-----------------------------------------------------------------------------
(* Two users that have each other's account, one request at a time. *)

LEMMA DuesKept ==
  ASSUME TypeInv, NEW t \in Threads, Step(t), ~ScanAllFriends(t)
  PROVE  thread'[t].backCheckUsers \subseteq thread[t].backCheckUsers
<1>1. DOMAIN thread = Threads /\ thread[t] \in ThreadRecord
  BY DEF TypeInv, ThreadOK
<1>2. CASE GetUIDs(t)
  BY <1>1, <1>2 DEF GetUIDs, ThreadRecord
<1>3. CASE MakeUIDs(t)
  BY <1>1, <1>3 DEF MakeUIDs, Goto, ThreadRecord
<1>13. CASE AppendUID(t)
  <2>1. Goto(t, "bind")
    BY <1>13 DEF AppendUID
  <2> QED
    BY <1>1, <2>1 DEF Goto, ThreadRecord
<1>14. CASE RemoveUID(t)
  <2>1. Goto(t, "store")
    BY <1>14 DEF RemoveUID
  <2> QED
    BY <1>1, <2>1 DEF Goto, ThreadRecord
<1>4. CASE RereadUIDs(t) \/ InTypeUIDMap(t)
  BY <1>1, <1>4 DEF RereadUIDs, InTypeUIDMap, ThreadRecord
<1>5. CASE GetFriends(t)
  BY <1>1, <1>5 DEF GetFriends, ThreadRecord
<1>6. CASE MakeFriends(t) \/ RereadFriends(t)
  BY <1>1, <1>6 DEF MakeFriends, RereadFriends, Goto, ThreadRecord
<1>7. CASE CheckExists(t)
  <2>1. PICK merged : Prepared(t, merged, IF thread[t].i < Len(input[t].contacts) THEN "exists" ELSE "merge")
    BY <1>7, CheckExistsFacts
  <2> QED
    BY <1>1, <2>1 DEF Prepared, Preparing, ThreadRecord
<1>8. CASE AppendFriends(t)
  BY <1>1, <1>8 DEF AppendFriends, Call, ThreadRecord
<1>9. CASE SendCheck(t)
  <2>1. CASE Goto(t, "store")
    BY <1>1, <2>1 DEF Goto, ThreadRecord
  <2>2. ASSUME NEW due \in thread[t].backCheckUsers,
               thread' = [thread EXCEPT ![t].backCheckUsers = @ \ {due}]
        PROVE  thread'[t].backCheckUsers \subseteq thread[t].backCheckUsers
    BY <1>1, <2>2 DEF ThreadRecord
  <2> QED
    BY <1>9, <2>1, <2>2 DEF SendCheck
<1>10. CASE StoreUser(t)
  BY <1>1, <1>10 DEF StoreUser, Thread
<1>11. CASE SetTpID(t)
  BY <1>1, <1>11 DEF SetTpID, Call, ThreadRecord
<1>12. CASE RemoveTpID(t) \/ RemoveFriends(t)
  BY <1>1, <1>12 DEF RemoveTpID, RemoveFriends, Goto, Call, ThreadRecord
<1> QED
  BY <1>2, <1>3, <1>4, <1>5, <1>6, <1>7, <1>8, <1>9, <1>10, <1>11, <1>12, <1>13, <1>14 DEF Step

LEMMA KnownStep ==
  ASSUME TypeInv, KnownUsers, NEW t \in Threads, Works(t), Continues(t),
         \A due \in thread'[t].backCheckUsers : due[3] \in users,
         \A k \in DOMAIN checkFriendsChan' : checkFriendsChan'[k].user \in users
  PROVE  KnownUsers'
<1>1. thread[t].user \in users /\ users' = users
  BY DEF KnownUsers, Works
<1>2. \A o \in Threads : Busy(o)' => thread'[o].user \in users
  BY <1>1 DEF KnownUsers, Continues, Busy
<1>3. \A o \in Threads : \A due \in thread'[o].backCheckUsers : due[3] \in users
  BY DEF KnownUsers, Continues
<1>4. \A u \in Users : stored'[u] # Missing => u \in users
  BY <1>1 DEF KnownUsers, Works
<1> QED
  BY <1>1, <1>2, <1>3, <1>4 DEF KnownUsers

LEMMA ScanKnown ==
  ASSUME TypeInv, KnownUsers, NEW t \in Threads, ScanAllFriends(t)
  PROVE  KnownUsers'
<1> DEFINE s == thread[t]
           dues == UNION {{<<k, i, array[typeUID.a][i]>> : i \in Matches(s.user, s.old[k].TpID)}
                          : k \in DOMAIN s.old}
<1>1. DOMAIN thread = Threads /\ s \in ThreadRecord
  BY DEF TypeInv, ThreadOK
<1>2. thread'[t].backCheckUsers = dues
  BY <1>1 DEF ScanAllFriends, ThreadRecord
<1>3. \A due \in dues : due[3] \in users
  BY DEF Matches
<1>4. Works(t) /\ Continues(t)
  BY ContactWorks, StepContinues DEF Step
<1>5. checkFriendsChan' = checkFriendsChan
  BY DEF ScanAllFriends
<1> HIDE DEF dues
<1>6. \A k \in DOMAIN checkFriendsChan' : checkFriendsChan'[k].user \in users
  BY <1>5 DEF KnownUsers
<1>7. \A due \in thread'[t].backCheckUsers : due[3] \in users
  BY <1>2, <1>3
<1> QED
  BY <1>4, <1>6, <1>7, KnownStep

LEMMA SendKnown ==
  ASSUME TypeInv, KnownUsers, NEW t \in Threads, SendCheck(t)
  PROVE  KnownUsers'
<1> DEFINE Due == [user : Users, other : Users]
<1>1. checkFriendsChan \in Seq(Due)
  BY DEF TypeInv, QueueOK
<1>2. \A k \in DOMAIN checkFriendsChan' : checkFriendsChan'[k].user \in users
  <2>1. CASE UNCHANGED checkFriendsChan
    BY <2>1 DEF KnownUsers
  <2>2. ASSUME NEW due \in thread[t].backCheckUsers,
               checkFriendsChan' = Append(checkFriendsChan, [user |-> due[3], other |-> thread[t].user])
        PROVE  \A k \in DOMAIN checkFriendsChan' : checkFriendsChan'[k].user \in users
    <3> DEFINE check == [user |-> due[3], other |-> thread[t].user]
    <3>1. check.user \in users /\ checkFriendsChan' = Append(checkFriendsChan, check)
      BY <2>2 DEF KnownUsers
    <3> HIDE DEF check, Due
    <3>2. \A k \in DOMAIN checkFriendsChan' :
            \/ k \in DOMAIN checkFriendsChan /\ checkFriendsChan'[k] = checkFriendsChan[k]
            \/ checkFriendsChan'[k] = check
      BY <1>1, <3>1
    <3> QED
      BY <3>1, <3>2 DEF KnownUsers
  <2> QED
    BY <2>1, <2>2 DEF SendCheck
<1>3. Works(t) /\ Continues(t)
  BY ContactWorks, StepContinues DEF Step
<1>4. \A due \in thread'[t].backCheckUsers : due[3] \in users
  <2>1. ~ScanAllFriends(t)
    BY DEF SendCheck, ScanAllFriends
  <2> QED
    BY <2>1, DuesKept DEF KnownUsers, Step
<1> QED
  BY <1>2, <1>3, <1>4, KnownStep

LEMMA BeginKnown ==
  ASSUME TypeInv, KnownUsers, NEW r \in Requests, StartWork(r) \/ UnbindAccount(r)
  PROVE  KnownUsers'
<1>1. r \in Threads /\ DOMAIN thread = Threads /\ thread[r] \in ThreadRecord /\ thread[r].user = input[r].uid
  BY RequestFacts DEF TypeInv, ThreadOK, RequestFlow
<1>2. UNCHANGED <<checkFriendsChan, stored>> /\ \A o \in Threads \ {r} : thread'[o] = thread[o]
  BY <1>1 DEF StartWork, UnbindAccount, Call, Goto
<1>3. users \subseteq users'
  BY DEF StartWork, UnbindAccount, memory
<1>4. /\ thread'[r].backCheckUsers = thread[r].backCheckUsers
      /\ Busy(r)' => thread'[r].user \in users'
  <2>1. CASE StartWork(r)
    BY <1>1, <2>1 DEF StartWork, Call, ThreadRecord
  <2>2. CASE UnbindAccount(r)
    <3>1. users' = users /\ thread'[r].user = input[r].uid /\ thread'[r].backCheckUsers = thread[r].backCheckUsers
          /\ thread'[r].at = IF input[r].uid \in users THEN "unbind" ELSE "done"
      BY <1>1, <2>2 DEF UnbindAccount, Goto, ThreadRecord, memory
    <3> QED
      BY <3>1 DEF Busy
  <2> QED
    BY <2>1, <2>2
<1> QED
  BY <1>2, <1>3, <1>4 DEF KnownUsers, Busy

LEMMA TakeKnown ==
  ASSUME TypeInv, KnownUsers, TakeCheck
  PROVE  KnownUsers'
<1> DEFINE Due == [user : Users, other : Users]
           check == Head(checkFriendsChan)
<1>1. Checker \in Threads /\ DOMAIN thread = Threads /\ checkFriendsChan \in Seq(Due) /\ checkFriendsChan # <<>>
  BY DEF TypeInv, QueueOK, TakeCheck, Threads
<1>2. /\ \A o \in Threads \ {Checker} : thread'[o] = thread[o]
      /\ thread'[Checker].user = check.user /\ thread'[Checker].backCheckUsers = {}
      /\ checkFriendsChan' = Tail(checkFriendsChan) /\ users' = users /\ stored' = stored
  BY <1>1 DEF TakeCheck, Thread, memory
<1> HIDE DEF Due
<1>3. 1 \in DOMAIN checkFriendsChan /\ check = checkFriendsChan[1]
  BY <1>1
<1>4. \A k \in DOMAIN checkFriendsChan' :
        k + 1 \in DOMAIN checkFriendsChan /\ checkFriendsChan'[k] = checkFriendsChan[k + 1]
  BY <1>1, <1>2
<1> HIDE DEF check
<1> QED
  BY <1>2, <1>3, <1>4 DEF KnownUsers, Busy

LEMMA RestartKnown ==
  ASSUME Restart
  PROVE  KnownUsers'
<1>1. \A t \in Threads : thread'[t].backCheckUsers = {}
  BY DEF Restart, Thread
<1>2. users' = {u \in Users : stored[u] # Missing} /\ stored' = stored
  BY DEF Restart
<1> QED
  BY <1>1, <1>2, RestartRests DEF KnownUsers

LEMMA KnownUsersStep ==
  ASSUME TypeInv, KnownUsers, [Next]_vars
  PROVE  KnownUsers'
<1>1. ASSUME NEW t \in Threads, Step(t)
      PROVE  KnownUsers'
  <2>1. CASE SendCheck(t) \/ ScanAllFriends(t)
    BY <2>1, SendKnown, ScanKnown
  <2>2. CASE ~SendCheck(t) /\ ~ScanAllFriends(t)
    <3>1. \A due \in thread'[t].backCheckUsers : due[3] \in users
      BY <1>1, <2>2, DuesKept DEF KnownUsers
    <3>2. checkFriendsChan' = checkFriendsChan
      BY <1>1, <2>2, QueueKept
    <3>3. \A k \in DOMAIN checkFriendsChan' : checkFriendsChan'[k].user \in users
      BY <3>2 DEF KnownUsers
    <3> QED
      BY <1>1, <3>1, <3>3, StepWorks, StepContinues, KnownStep
  <2> QED
    BY <2>1, <2>2
<1>2. ASSUME NEW r \in Requests, StartWork(r) \/ UnbindAccount(r) \/ Step(r)
      PROVE  KnownUsers'
  BY <1>1, <1>2, BeginKnown DEF Threads
<1>3. CASE GetJerryTpID \/ CheckFriend
  <2>1. Checker \in Threads /\ DOMAIN thread = Threads /\ thread[Checker] \in ThreadRecord
    BY DEF TypeInv, ThreadOK, Threads
  <2>2. checkFriendsChan' = checkFriendsChan /\ thread'[Checker].backCheckUsers = thread[Checker].backCheckUsers
    BY <1>3, <2>1 DEF GetJerryTpID, CheckFriend, Goto, ThreadRecord
  <2>3. \A k \in DOMAIN checkFriendsChan' : checkFriendsChan'[k].user \in users
    BY <2>2 DEF KnownUsers
  <2>4. \A due \in thread'[Checker].backCheckUsers : due[3] \in users
    BY <2>1, <2>2 DEF KnownUsers
  <2> QED
    BY <1>3, <2>1, <2>3, <2>4, CheckWorks, CheckContinues, KnownStep
<1>4. CASE Check
  BY <1>1, <1>3, <1>4, TakeKnown DEF Check, Threads
<1>5. CASE Restart
  BY <1>5, RestartKnown
<1>6. CASE UNCHANGED vars
  BY <1>6 DEF KnownUsers, Busy, vars, memory
<1> QED
  BY <1>2, <1>4, <1>5, <1>6 DEF Next

\* What the checking goroutine reads stays as it is until it writes: a request at work
\* meanwhile has done its own work.
LEMMA CheckInvStep ==
  ASSUME Serial, TypeInv, OneAtWork, CheckInv, [Next]_vars
  PROVE  CheckInv'
<1> DEFINE s == thread[Checker]
           new == thread'[Checker]
<1>0. /\ Checker \in Threads /\ Checker \notin Requests /\ DOMAIN thread = Threads
      /\ s \in ThreadRecord /\ CheckerFlow(s)
      /\ DOMAIN friends = Users /\ CheckKnows(s, friends[s.user], bindApp)
  BY RelationAssumption DEF Threads, RelationAssumption, TypeInv, ThreadOK, MemoryOK, CheckInv
<1>1. \A g, bound : new.at \in {"idle", "jerry", "store", "done"} => CheckKnows(new, g, bound)
  BY DEF CheckKnows, Target, ListCalls, FriendCalls
<1>2. ASSUME NEW r \in Requests, Step(r)
      PROVE  CheckInv'
  <2>1. r \in Threads /\ r # Checker /\ new = s /\ Busy(r)
    BY <1>0, <1>2, RequestFacts, StepContinues DEF Continues
  <2>2. CASE Busy(Checker)
    <3>1. thread[r].at \in {"send", "store"}
      BY <2>1, <2>2 DEF OneAtWork, Checking
    <3>2. friends' = friends /\ bindApp' = bindApp
      BY <1>2, <3>1, OnlyStores DEF SendCheck, StoreUser, memory
    <3> QED
      BY <1>0, <2>1, <3>2 DEF CheckInv
  <2>3. CASE ~Busy(Checker)
    BY <1>1, <2>1, <2>3 DEF CheckInv, Busy
  <2> QED
    BY <2>2, <2>3
<1>3. ASSUME NEW r \in Requests, StartWork(r) \/ UnbindAccount(r)
      PROVE  CheckInv'
  <2>1. ~Busy(Checker)'
    BY <1>0, <1>3, BeginAlone
  <2> QED
    BY <1>1, <2>1 DEF CheckInv, Busy
<1>4. CASE Check
  <2>1. CASE TakeCheck
    <3>1. new.at = "jerry"
      BY <1>0, <2>1 DEF TakeCheck, Thread
    <3> QED
      BY <1>1, <3>1 DEF CheckInv
  <2>2. CASE GetJerryTpID
    <3>1. /\ new.at = "get" /\ new.ret = "link" /\ new.jerry = s.jerry
          /\ new.jerryTpID = bindApp[s.jerry] /\ bindApp' = bindApp
      BY <1>0, <2>2 DEF GetJerryTpID, ThreadRecord, memory
    <3> HIDE DEF new, s
    <3>2. \A g : CheckKnows(new, g, bindApp')
      BY <3>1 DEF CheckKnows, Target, FriendCalls
    <3> QED
      BY <3>2 DEF CheckInv, new
  <2>3. CASE CheckFriend
    <3>1. new.at = "store"
      BY <1>0, <2>3 DEF CheckFriend, Goto, ThreadRecord
    <3> QED
      BY <1>1, <3>1 DEF CheckInv
  <2>4. CASE GetFriends(Checker)
    <3> DEFINE g == friends[s.user]
    <3>1. /\ s.at = "get" /\ s.ret = "link" /\ new.user = s.user /\ new.ret = s.ret /\ new.jerry = s.jerry
          /\ new.jerryTpID = s.jerryTpID /\ bindApp' = bindApp /\ friends' = friends
          /\ new.at = "makeFriends" \/ (new.at = "link" /\ new.old = g /\ g # Missing)
      BY <1>0, <2>4 DEF GetFriends, ThreadRecord, memory, CheckerFlow, FriendCalls
    <3>2. CheckKnows(s, g, bindApp)
      BY <1>0
    <3> HIDE DEF new, s, g
    <3>3. CheckKnows(new, g, bindApp)
      BY <3>1, <3>2 DEF CheckKnows, Target, FriendCalls, ListCalls
    <3> QED
      BY <3>1, <3>3 DEF CheckInv, new, g
  <2>5. CASE MakeFriends(Checker)
    <3>1. /\ s.at = "makeFriends" /\ s.ret = "link" /\ new.user = s.user /\ new.ret = s.ret
          /\ new.jerry = s.jerry /\ new.jerryTpID = s.jerryTpID /\ bindApp' = bindApp
          /\ friends' = [friends EXCEPT ![s.user] = <<>>] /\ new.at = "rereadFriends" /\ s.user \in Users
      BY <1>0, <2>5 DEF MakeFriends, Goto, ThreadRecord, CheckerFlow, FriendCalls
    <3>2. friends'[s.user] = <<>>
      BY <1>0, <3>1
    <3>3. CheckKnows(s, friends[s.user], bindApp)
      BY <1>0
    <3> HIDE DEF new, s
    <3>4. CheckKnows(new, <<>>, bindApp)
      BY <3>1, <3>3 DEF CheckKnows, Target, FriendCalls, ListCalls
    <3> QED
      BY <3>1, <3>2, <3>4 DEF CheckInv, new
  <2>6. CASE RereadFriends(Checker)
    <3>1. /\ s.at = "rereadFriends" /\ s.ret = "link" /\ new.user = s.user /\ new.ret = s.ret
          /\ new.jerry = s.jerry /\ new.jerryTpID = s.jerryTpID /\ bindApp' = bindApp /\ friends' = friends
          /\ new.at = "link"
          /\ new.old = IF friends[s.user] = Missing THEN <<>> ELSE friends[s.user]
      BY <1>0, <2>6 DEF RereadFriends, ThreadRecord, memory, CheckerFlow, FriendCalls
    <3>2. CheckKnows(s, friends[s.user], bindApp)
      BY <1>0
    <3> HIDE DEF new, s
    <3>3. CheckKnows(new, friends[s.user], bindApp)
      BY <3>1, <3>2 DEF CheckKnows, Target, FriendCalls, ListCalls
    <3> QED
      BY <3>1, <3>3 DEF CheckInv, new
  <2>7. CASE StoreUser(Checker)
    <3>1. ~Busy(Checker)'
      BY <1>0, <2>7, StoreUserEnds
    <3> QED
      BY <1>1, <3>1 DEF CheckInv, Busy
  <2> QED
    BY <1>4, <2>1, <2>2, <2>3, <2>4, <2>5, <2>6, <2>7, CheckerSteps DEF Check
<1>5. CASE Restart
  <2>1. ~Busy(Checker)'
    BY <1>0, <1>5, RestartRests
  <2> QED
    BY <1>1, <2>1 DEF CheckInv, Busy
<1>6. CASE UNCHANGED vars
  BY <1>6 DEF CheckInv, vars, memory
<1> QED
  BY <1>2, <1>3, <1>4, <1>5, <1>6 DEF Next

\* The more accounts users had, the fewer links are wanted.
LEMMA LinksKept ==
  ASSUME NEW u, NEW v, NEW f, NEW g, NEW a, NEW b, NEW bound, NEW bound2,
         MutualLink(u, v, f, g, a, b, bound),
         \A w \in Users : bound[w] \subseteq bound2[w]
  PROVE  MutualLink(u, v, f, g, a, b, bound2)
BY DEF MutualLink

\* A step that leaves all users alone, and what is pending.
LEMMA UsersSame ==
  ASSUME MutualInv, UNCHANGED <<memory, everBound, interrupted>>,
         \A u, v \in users : u # v /\ Pending(u, v) => Pending(u, v)'
  PROVE  MutualInv'
BY DEF MutualInv, LinksTo, memory

\* The request r at work makes a step for user x: the checks that wait and the one that
\* runs stay, and other users are as they were.
ForUser(r, x) ==
  /\ Alone(r) /\ thread[r].user = x
  /\ thread'[Checker] = thread[Checker]
  /\ \A k \in DOMAIN checkFriendsChan : k \in DOMAIN checkFriendsChan' /\ checkFriendsChan'[k] = checkFriendsChan[k]
  /\ UNCHANGED interrupted

LEMMA OtherChecksStay ==
  ASSUME NEW r \in Requests, NEW x, ForUser(r, x), NEW u, NEW v,
         Waits(u, v) \/ Runs(u, v)
  PROVE  Pending(u, v)'
<1>1. CASE Waits(u, v)
  <2>1. PICK k \in DOMAIN checkFriendsChan : checkFriendsChan[k] = [user |-> u, other |-> v]
    BY <1>1 DEF Waits
  <2>2. k \in DOMAIN checkFriendsChan' /\ checkFriendsChan'[k] = checkFriendsChan[k]
    BY <2>1 DEF ForUser
  <2> QED
    BY <2>1, <2>2 DEF Pending, Waits
<1>2. CASE Runs(u, v)
  BY <1>2 DEF Pending, Runs, ForUser
<1> QED
  BY <1>1, <1>2

\* Only the request at work has scans and checks to make.
LEMMA PendingOf ==
  ASSUME NEW r \in Requests, NEW x, ForUser(r, x), NEW u, NEW v, Pending(u, v),
         ~Waits(u, v), ~Runs(u, v)
  PROVE  \/ Scans(thread[r]) /\ x \in {u, v}
         \/ /\ thread[r].at = "send" /\ x = v
            /\ \E due \in thread[r].backCheckUsers : due[3] = u
<1>1. \A q \in Requests : Scans(thread[q]) \/ thread[q].at = "send" => q = r
  BY DEF ForUser, Alone, Busy, Scans, Target, ListCalls, FriendCalls
<1>2. CASE ToScan(u, v)
  BY <1>1, <1>2 DEF ToScan, ForUser
<1>3. CASE ToSend(u, v)
  BY <1>1, <1>3 DEF ToSend, ForUser
<1> QED
  BY <1>2, <1>3 DEF Pending

\* It is enough to look at the pairs of users that x is one of.
LEMMA PairsOf ==
  ASSUME MutualInv, NEW r \in Requests, NEW x, ForUser(r, x),
         users' \subseteq users \cup {x}, users \subseteq Users,
         \A w \in Users \ {x} : friends'[w] = friends[w] /\ bindApp'[w] = bindApp[w],
         \A w \in Users : everBound[w] \subseteq everBound'[w],
         ~interrupted => \A w \in users' \ {x} :
           /\ Pending(x, w)' \/ LinksTo(x, w)'
           /\ Pending(w, x)' \/ LinksTo(w, x)'
  PROVE  MutualInv'
<1> SUFFICES ASSUME ~interrupted, NEW u \in users', NEW v \in users', u # v
             PROVE  Pending(u, v)' \/ LinksTo(u, v)'
  BY DEF MutualInv, ForUser
<1>1. CASE u = x \/ v = x
  BY <1>1
<1>2. CASE u # x /\ v # x
  <2>1. u \in users /\ v \in users /\ u \in Users \ {x} /\ v \in Users \ {x}
    BY <1>2
  <2>2. Pending(u, v) \/ LinksTo(u, v)
    BY <2>1 DEF MutualInv
  <2>3. CASE Pending(u, v)
    <3>1. Waits(u, v) \/ Runs(u, v)
      BY <1>2, <2>3, PendingOf
    <3> QED
      BY <3>1, OtherChecksStay
  <2>4. CASE LinksTo(u, v)
    <3>1. MutualLink(u, v, friends'[u], friends'[v], bindApp'[u], bindApp'[v], everBound)
      BY <2>1, <2>4 DEF LinksTo
    <3>2. MutualLink(u, v, friends'[u], friends'[v], bindApp'[u], bindApp'[v], everBound')
      BY <3>1, LinksKept
    <3> QED
      BY <3>2 DEF LinksTo
  <2> QED
    BY <2>2, <2>3, <2>4
<1> QED
  BY <1>1, <1>2

\* A step of a request that is going to look for all its user's contacts.
LEMMA ScanningPairs ==
  ASSUME MutualInv, NEW r \in Requests, NEW x, ForUser(r, x),
         users' \subseteq users \cup {x}, users \subseteq Users,
         \A w \in Users \ {x} : friends'[w] = friends[w] /\ bindApp'[w] = bindApp[w],
         \A w \in Users : everBound[w] \subseteq everBound'[w],
         Scans(thread'[r]), thread'[r].user = x
  PROVE  MutualInv'
<1>1. \A w : Pending(x, w)' /\ Pending(w, x)'
  BY DEF Pending, ToScan
<1> QED
  BY <1>1, PairsOf

\* A step of a request that leaves all users alone, and sends nothing.
LEMMA QuietPairs ==
  ASSUME MutualInv, NEW r \in Requests, NEW x, ForUser(r, x),
         UNCHANGED <<memory, everBound>>, thread[r].at # "send",
         Scans(thread[r]) => Scans(thread'[r]) /\ thread'[r].user = x
  PROVE  MutualInv'
<1>1. ASSUME NEW u, NEW v, Pending(u, v)
      PROVE  Pending(u, v)'
  <2>1. CASE Waits(u, v) \/ Runs(u, v)
    BY <2>1, OtherChecksStay
  <2>2. CASE ~Waits(u, v) /\ ~Runs(u, v)
    <3>1. Scans(thread[r]) /\ x \in {u, v}
      BY <1>1, <2>2, PendingOf
    <3> QED
      BY <3>1 DEF Pending, ToScan
  <2> QED
    BY <2>1, <2>2
<1>2. UNCHANGED <<memory, everBound, interrupted>>
  BY DEF ForUser
<1> QED
  BY <1>1, <1>2, UsersSame

LEMMA ProcessKept ==
  ASSUME NEW t, Step(t)
  PROVE  UNCHANGED interrupted
BY CheckExistsFacts DEF process, Saved, NotSaved, Step, GetUIDs, MakeUIDs, RereadUIDs, InTypeUIDMap, AppendUID, RemoveUID, GetFriends,
   MakeFriends, RereadFriends, AppendFriends, ScanAllFriends, SendCheck, StoreUser, SetTpID, RemoveTpID,
   RemoveFriends

LEMMA StepForUser ==
  ASSUME TypeInv, OneAtWork, NEW r \in Requests, Step(r)
  PROVE  ForUser(r, thread[r].user)
<1>1. r \in Threads /\ r # Checker /\ Checker \in Threads
  BY RequestFacts DEF Threads
<1>2. Alone(r) /\ thread'[Checker] = thread[Checker]
  BY <1>1, StepContinues DEF Continues, OneAtWork, Alone, Threads
<1>3. \A k \in DOMAIN checkFriendsChan : k \in DOMAIN checkFriendsChan' /\ checkFriendsChan'[k] = checkFriendsChan[k]
  <2>1. CASE UNCHANGED checkFriendsChan
    BY <2>1
  <2>2. CASE SendCheck(r)
    <3> DEFINE Due == [user : Users, other : Users]
    <3>1. checkFriendsChan \in Seq(Due)
      BY DEF TypeInv, QueueOK
    <3>2. UNCHANGED checkFriendsChan \/ \E check : checkFriendsChan' = Append(checkFriendsChan, check)
      BY <2>2 DEF SendCheck
    <3> HIDE DEF Due
    <3> QED
      BY <3>1, <3>2
  <2> QED
    BY <2>1, <2>2, QueueKept
<1> QED
  BY <1>2, <1>3, ProcessKept DEF ForUser

LEMMA BeginForUser ==
  ASSUME Serial, TypeInv, NEW r \in Requests, StartWork(r) \/ UnbindAccount(r)
  PROVE  ForUser(r, thread[r].user)
<1>1. Alone(r) /\ thread'[Checker] = thread[Checker]
  BY BeginAlone, RequestFacts DEF Alone, Threads
<1>2. UNCHANGED checkFriendsChan /\ UNCHANGED interrupted
  BY DEF StartWork, UnbindAccount, process
<1> QED
  BY <1>1, <1>2 DEF ForUser

\* The steps on the list leave all users alone, and so does storing one.
LEMMA ListMutual ==
  ASSUME TypeInv, MutualInv, NEW r \in Requests, ForUser(r, thread[r].user),
         \/ GetUIDs(r) \/ MakeUIDs(r) \/ RereadUIDs(r) \/ InTypeUIDMap(r)
         \/ RemoveUID(r) \/ StoreUser(r) \/ UnbindAccount(r)
  PROVE  MutualInv'
<1> DEFINE s == thread[r]
           new == thread'[r]
           Kept == Scans(s) => Scans(new) /\ new.user = s.user
<1>1. r \in Threads /\ r # Checker /\ s \in ThreadRecord /\ DOMAIN thread = Threads
  BY RequestFacts DEF TypeInv, ThreadOK
<1>2. s.at # "send" /\ UNCHANGED <<memory, everBound>>
  BY DEF GetUIDs, MakeUIDs, RereadUIDs, InTypeUIDMap, RemoveUID, StoreUser, UnbindAccount, Begins
<1>3. CASE GetUIDs(r)
  <2>1. /\ s.at = "uids" /\ new.at \in {"makeUIDs", "in"} /\ new.ret = s.ret /\ new.user = s.user
    BY <1>1, <1>3 DEF GetUIDs, ThreadRecord
  <2> HIDE DEF s, new
  <2>2. Kept
    BY <2>1 DEF Scans, Target, ListCalls
  <2> QED
    BY <1>2, <2>2, QuietPairs DEF s, new
<1>4. CASE MakeUIDs(r)
  <2>1. /\ s.at = "makeUIDs" /\ new.at = "rereadUIDs" /\ new.ret = s.ret /\ new.user = s.user
    BY <1>1, <1>4 DEF MakeUIDs, Goto, ThreadRecord
  <2> HIDE DEF s, new
  <2>2. Kept
    BY <2>1 DEF Scans, Target, ListCalls
  <2> QED
    BY <1>2, <2>2, QuietPairs DEF s, new
<1>5. CASE RereadUIDs(r)
  <2>1. /\ s.at = "rereadUIDs" /\ new.at = "in" /\ new.ret = s.ret /\ new.user = s.user
    BY <1>1, <1>5 DEF RereadUIDs, ThreadRecord
  <2> HIDE DEF s, new
  <2>2. Kept
    BY <2>1 DEF Scans, Target, ListCalls
  <2> QED
    BY <1>2, <2>2, QuietPairs DEF s, new
<1>6. CASE InTypeUIDMap(r)
  <2>1. s.at = "in" /\ s.ret \in {"append", "remove"}
    BY <1>1, <1>6 DEF InTypeUIDMap, TypeInv, ThreadOK, RequestFlow, ListCalls
  <2>2. new.at = s.ret /\ new.user = s.user
    BY <1>1, <1>6 DEF InTypeUIDMap, ThreadRecord
  <2> HIDE DEF s, new
  <2>3. Kept
    BY <2>1, <2>2 DEF Scans, Target, ListCalls, FriendCalls
  <2> QED
    BY <1>2, <2>3, QuietPairs DEF s, new
<1>7. CASE RemoveUID(r) \/ StoreUser(r) \/ UnbindAccount(r)
  <2>1. ~Scans(s)
    BY <1>7 DEF RemoveUID, StoreUser, UnbindAccount, Begins, Scans, Target, ListCalls, FriendCalls
  <2> QED
    BY <1>2, <2>1, QuietPairs
<1> QED
  BY <1>3, <1>4, <1>5, <1>6, <1>7

\* On the way to its scan, a bind request changes its own user only.
LEMMA BindMutual ==
  ASSUME TypeInv, MutualInv, NEW r \in Requests, ForUser(r, thread[r].user),
         \/ StartWork(r) \/ AppendUID(r) \/ SetTpID(r) \/ GetFriends(r) \/ MakeFriends(r) \/ RereadFriends(r)
         \/ CheckExists(r) \/ AppendFriends(r)
  PROVE  MutualInv'
<1> DEFINE s == thread[r]
           new == thread'[r]
           Near == \A w \in Users \ {s.user} : friends'[w] = friends[w] /\ bindApp'[w] = bindApp[w]
           More == \A w \in Users : everBound[w] \subseteq everBound'[w]
<1>1. /\ r \in Threads /\ r # Checker /\ s \in ThreadRecord /\ DOMAIN thread = Threads
      /\ RequestFlow(r, s) /\ DOMAIN friends = Users /\ DOMAIN bindApp = Users /\ DOMAIN everBound = Users
      /\ s.user \in Users /\ users \subseteq Users
  BY RequestFacts DEF TypeInv, ThreadOK, MemoryOK, RequestFlow
<1>2. users' \subseteq users \cup {s.user}
  <2>1. CASE StartWork(r)
    BY <1>1, <2>1 DEF StartWork, RequestFlow
  <2>2. CASE CheckExists(r)
    BY <2>2, CheckExistsFacts DEF memory
  <2>3. CASE ~StartWork(r) /\ ~CheckExists(r)
    BY <2>3 DEF AppendUID, SetTpID, GetFriends, MakeFriends, RereadFriends, AppendFriends, memory
  <2> QED
    BY <2>1, <2>2, <2>3
<1>3. Near /\ More
  <2>1. CASE SetTpID(r)
    <3>1. /\ friends' = friends
          /\ \/ UNCHANGED <<bindApp, everBound>>
             \/ /\ bindApp' = [bindApp EXCEPT ![s.user] = input[r].tpID]
                /\ everBound' = [everBound EXCEPT ![s.user] = @ \cup {input[r].tpID}]
      BY <2>1 DEF SetTpID
    <3> QED
      BY <1>1, <3>1
  <2>2. CASE MakeFriends(r)
    BY <1>1, <2>2 DEF MakeFriends
  <2>3. CASE AppendFriends(r)
    BY <1>1, <2>3 DEF AppendFriends
  <2>4. CASE CheckExists(r)
    BY <2>4, CheckExistsFacts DEF memory
  <2>5. CASE StartWork(r) \/ AppendUID(r) \/ GetFriends(r) \/ RereadFriends(r)
    BY <2>5 DEF StartWork, AppendUID, GetFriends, RereadFriends, memory
  <2> QED
    BY <2>1, <2>2, <2>3, <2>4, <2>5
<1>4. new.user = s.user
  <2>1. CASE StartWork(r)
    BY <1>1, <2>1 DEF StartWork, Call, ThreadRecord
  <2>2. CASE ~StartWork(r)
    <3>1. Step(r)
      BY <2>2 DEF Step
    <3>2. s.at # "store"
      BY <2>2, CheckExistsFacts DEF AppendUID, SetTpID, GetFriends, MakeFriends, RereadFriends, AppendFriends
    <3> QED
      BY <1>1, <3>1, <3>2, UserKept DEF StoreUser
  <2> QED
    BY <2>1, <2>2
<1>5. Scans(new)
  <2>1. CASE StartWork(r)
    <3>1. new.at = "uids" /\ new.ret = "append"
      BY <1>1, <2>1 DEF StartWork, Call, ThreadRecord
    <3> QED
      BY <3>1 DEF Scans, Target, ListCalls
  <2>2. CASE AppendUID(r)
    <3>1. new.at = "bind"
      BY <1>1, <2>2 DEF AppendUID, Goto, ThreadRecord
    <3> QED
      BY <3>1 DEF Scans, Target, ListCalls, FriendCalls
  <2>3. CASE SetTpID(r)
    <3>1. new.at = "get" /\ new.ret \in {"exists", "merge"}
      BY <1>1, <2>3 DEF SetTpID, Call, ThreadRecord
    <3> QED
      BY <3>1 DEF Scans, Target, FriendCalls
  <2>4. CASE GetFriends(r)
    <3>1. s.at = "get" /\ s.ret \in {"exists", "merge", "scan"}
      BY <1>1, <2>4 DEF GetFriends, RequestFlow, FriendCalls
    <3>2. new.at = s.ret \/ (new.at = "makeFriends" /\ new.ret = s.ret)
      BY <1>1, <2>4 DEF GetFriends, ThreadRecord
    <3> HIDE DEF s, new
    <3> QED
      BY <3>1, <3>2 DEF Scans, Target, FriendCalls, ListCalls
  <2>5. CASE MakeFriends(r)
    <3>1. s.at = "makeFriends" /\ s.ret \in {"exists", "merge", "scan"}
      BY <1>1, <2>5 DEF MakeFriends, RequestFlow, FriendCalls
    <3>2. new.at = "rereadFriends" /\ new.ret = s.ret
      BY <1>1, <2>5 DEF MakeFriends, Goto, ThreadRecord
    <3> HIDE DEF s, new
    <3> QED
      BY <3>1, <3>2 DEF Scans, Target, FriendCalls, ListCalls
  <2>6. CASE RereadFriends(r)
    <3>1. s.at = "rereadFriends" /\ s.ret \in {"exists", "merge", "scan"}
      BY <1>1, <2>6 DEF RereadFriends, RequestFlow, FriendCalls
    <3>2. new.at = s.ret
      BY <1>1, <2>6 DEF RereadFriends, ThreadRecord
    <3> HIDE DEF s, new
    <3> QED
      BY <3>1, <3>2 DEF Scans, Target, FriendCalls, ListCalls
  <2>7. CASE CheckExists(r)
    <3>1. PICK merged : Prepared(r, merged, IF s.i < Len(input[r].contacts) THEN "exists" ELSE "merge")
      BY <2>7, CheckExistsFacts
    <3>2. new.at = "get" /\ new.ret \in {"exists", "merge"}
      BY <1>1, <3>1 DEF Prepared, Preparing, ThreadRecord
    <3> QED
      BY <3>2 DEF Scans, Target, FriendCalls
  <2>8. CASE AppendFriends(r)
    <3>1. new.at = "get" /\ new.ret = "scan"
      BY <1>1, <2>8 DEF AppendFriends, Call, ThreadRecord
    <3> QED
      BY <3>1 DEF Scans, Target, FriendCalls
  <2> QED
    BY <2>1, <2>2, <2>3, <2>4, <2>5, <2>6, <2>7, <2>8
<1> HIDE DEF s, new
<1> QED
  BY <1>1, <1>2, <1>3, <1>4, <1>5, ScanningPairs DEF s, new

LEMMA NothingKnown ==
  ASSUME NEW u, NEW v, NEW f, NEW g, NEW a, NEW b, NEW bound, ~Known(g, a)
  PROVE  MutualLink(u, v, f, g, a, b, bound)
BY DEF MutualLink

LEMMA NothingToLink ==
  ASSUME NEW u, NEW v, NEW f, NEW g, NEW a, NEW b, NEW bound, f = Missing \/ ~Known(f, b)
  PROVE  MutualLink(u, v, f, g, a, b, bound)
BY DEF MutualLink, Known

LEMMA NoAccountToLink ==
  ASSUME NEW u, NEW v, NEW f, NEW g, NEW a, NEW b, NEW bound, a = NoTpID \/ b = NoTpID
  PROVE  MutualLink(u, v, f, g, a, b, bound)
BY DEF MutualLink

\* Without an account, or without contacts, a user has no links to make.
LEMMA UnbindingMutual ==
  ASSUME TypeInv, MutualInv, NEW r \in Requests, ForUser(r, thread[r].user), RemoveTpID(r) \/ RemoveFriends(r)
  PROVE  MutualInv'
<1>0. PICK x : x = thread[r].user
  OBVIOUS
<1>1. /\ x \in Users /\ users \subseteq Users /\ DOMAIN friends = Users /\ DOMAIN bindApp = Users
      /\ friends \in [Users -> FriendsSet] /\ ForUser(r, x)
  BY <1>0, RequestFacts DEF TypeInv, ThreadOK, MemoryOK, RequestFlow
<1>2. users' = users /\ everBound' = everBound
  BY DEF RemoveTpID, RemoveFriends
<1>4. /\ \A w \in Users \ {x} : friends'[w] = friends[w] /\ bindApp'[w] = bindApp[w]
      /\ \A w \in Users : LinksTo(x, w)' /\ LinksTo(w, x)'
  <2>1. CASE RemoveTpID(r)
    <3>1. bindApp' = [bindApp EXCEPT ![x] = NoTpID] /\ friends' = friends
      BY <1>0, <2>1 DEF RemoveTpID
    <3>2. bindApp'[x] = NoTpID /\ \A w \in Users \ {x} : bindApp'[w] = bindApp[w]
      BY <1>1, <3>1
    <3>3. ASSUME NEW w \in Users
          PROVE  LinksTo(x, w)' /\ LinksTo(w, x)'
      <4>1. MutualLink(x, w, friends'[x], friends'[w], bindApp'[x], bindApp'[w], everBound')
        BY <3>2, NoAccountToLink
      <4>2. MutualLink(w, x, friends'[w], friends'[x], bindApp'[w], bindApp'[x], everBound')
        BY <3>2, NoAccountToLink
      <4> QED
        BY <4>1, <4>2 DEF LinksTo
    <3> QED
      BY <3>1, <3>2, <3>3
  <2>2. CASE RemoveFriends(r)
    <3>1. friends' = [friends EXCEPT ![x] = Missing] /\ bindApp' = bindApp
      BY <1>0, <2>2 DEF RemoveFriends
    <3>2. friends'[x] = Missing /\ \A w \in Users \ {x} : friends'[w] = friends[w]
      BY <1>1, <3>1
    <3>3. ASSUME NEW w \in Users
          PROVE  LinksTo(x, w)' /\ LinksTo(w, x)'
      <4>1. ~Known(friends'[x], bindApp'[w])
        BY <3>2 DEF Known
      <4>2. MutualLink(x, w, friends'[x], friends'[w], bindApp'[x], bindApp'[w], everBound')
        BY <3>2, NothingToLink
      <4>3. MutualLink(w, x, friends'[w], friends'[x], bindApp'[w], bindApp'[x], everBound')
        BY <4>1, NothingKnown
      <4> QED
        BY <4>2, <4>3 DEF LinksTo
    <3> QED
      BY <3>1, <3>2, <3>3
  <2> QED
    BY <2>1, <2>2
<1>5. users' \subseteq users \cup {x} /\ \A w \in users' \ {x} : LinksTo(x, w)' /\ LinksTo(w, x)'
  BY <1>1, <1>2, <1>4
<1>6. \A w \in Users : everBound[w] \subseteq everBound'[w]
  BY <1>2
<1> QED
  BY <1>1, <1>4, <1>5, <1>6, PairsOf

\* A user with an account is among the matches of it for others.
LEMMA ListedMatches ==
  ASSUME TypeInv, ListInv, NEW x, NEW v \in users, v # x, bindApp[v] # NoTpID
  PROVE  typeUID # Missing /\ \E i \in Matches(x, bindApp[v]) : array[typeUID.a][i] = v
<1>1. Has(array, typeUID, v)
  BY DEF ListInv, TypeInv, MemoryOK
<1> QED
  BY <1>1 DEF Has, Matches

\* The scan links a contact to the one user that ever had its account.
LEMMA LinkedToOwner ==
  ASSUME TypeInv, LinkInv, ListInv, NEW x \in Users, NEW v \in users, v # x,
         NEW item \in Friend, item.TpID = bindApp[v], bindApp[v] # NoTpID,
         \A w \in Users \ {x, v} : bindApp[v] \notin everBound[w]
  PROVE  Linked(x, item).UID = v
<1> DEFINE found == Matches(x, item.TpID)
           w == array[typeUID.a][Max(found)]
<1>1. bindApp[v] # NoTpID
  OBVIOUS
<1>2. typeUID # Missing /\ found # {}
  BY <1>1, ListedMatches
<1>3. /\ typeUID.len \in Nat /\ found \subseteq 1 .. typeUID.len
      /\ \A i \in found : /\ array[typeUID.a][i] \in Users /\ array[typeUID.a][i] # x
                          /\ bindApp[array[typeUID.a][i]] = item.TpID
  BY <1>2, MatchesFacts
<1>4. Linked(x, item).UID = w
  BY <1>2 DEF Linked, Friend
<1> HIDE DEF found
<1>5. Max(found) \in found
  BY <1>2, <1>3, MaxIsOne
<1>6. w \in Users /\ w # x /\ bindApp[w] = bindApp[v]
  BY <1>3, <1>5
<1>7. bindApp[v] \in everBound[w]
  BY <1>1, <1>6 DEF LinkInv, UserLinks, WasBound
<1> QED
  BY <1>4, <1>6, <1>7

\* The scan links the contacts of its user, and makes the matches due a check of theirs.
LEMMA ScanMutual ==
  ASSUME TypeInv, LinkInv, ListInv, MutualInv, NEW r \in Requests, ForUser(r, thread[r].user),
         ScanAllFriends(r)
  PROVE  MutualInv'
<1>0. PICK x : x = thread[r].user
  OBVIOUS
<1> DEFINE s == thread[r]
           f == [k \in DOMAIN s.old |-> Linked(x, s.old[k])]
           dues == UNION {{<<k, i, array[typeUID.a][i]>> : i \in Matches(x, s.old[k].TpID)}
                          : k \in DOMAIN s.old}
<1>1. /\ r \in Threads /\ DOMAIN thread = Threads /\ s \in ThreadRecord /\ x \in Users /\ users \subseteq Users
      /\ DOMAIN friends = Users /\ s.at = "scan" /\ typeUID # Missing /\ ForUser(r, x)
  BY <1>0, RequestFacts DEF TypeInv, ThreadOK, MemoryOK, RequestFlow, ScanAllFriends, ListedLabels, BindLabels,
     BindReturns
<1>2. /\ friends' = [friends EXCEPT ![x] = f]
      /\ UNCHANGED <<users, bindApp, everBound>>
  BY <1>0 DEF ScanAllFriends, LinkFriends
<1>3. thread'[r].at = "send" /\ thread'[r].user = x /\ thread'[r].backCheckUsers = dues
  BY <1>0, <1>1 DEF ScanAllFriends, ThreadRecord
<1>4. \A k \in DOMAIN s.old : s.old[k] \in Friend
  BY <1>1 DEF ThreadRecord
<1>5. friends'[x] = f /\ \A w \in Users \ {x} : friends'[w] = friends[w]
  BY <1>1, <1>2
<1>6. DOMAIN f = DOMAIN s.old /\ \A k \in DOMAIN s.old : f[k] = Linked(x, s.old[k])
  OBVIOUS
<1>7. \A k \in DOMAIN s.old : f[k].TpID = s.old[k].TpID
  BY <1>1, <1>4, <1>6, LinkedFacts
<1> HIDE DEF f
<1>8. ASSUME NEW w \in users \ {x}
      PROVE  LinksTo(x, w)'
  <2>1. ASSUME \A o \in Users \ {x, w} : bindApp[w] \notin everBound[o],
               bindApp[w] # NoTpID, NEW k \in DOMAIN s.old, f[k].TpID = bindApp[w]
        PROVE  f[k].UID = w
    <3>1. s.old[k] \in Friend /\ s.old[k].TpID = bindApp[w]
      BY <1>4, <1>7, <2>1
    <3>2. Linked(x, s.old[k]).UID = w
      BY <1>1, <2>1, <3>1, LinkedToOwner
    <3> QED
      BY <1>6, <3>2
  <2>2. MutualLink(x, w, f, friends'[w], bindApp[x], bindApp[w], everBound)
    BY <1>6, <2>1 DEF MutualLink
  <2>3. MutualLink(x, w, friends'[x], friends'[w], bindApp'[x], bindApp'[w], everBound')
    BY <1>2, <1>5, <2>2
  <2> QED
    BY <2>3 DEF LinksTo
<1>9. ASSUME NEW w \in users \ {x}
      PROVE  Pending(w, x)' \/ LinksTo(w, x)'
  <2>1. CASE Known(f, bindApp[w]) /\ bindApp[w] # NoTpID
    <3>1. PICK k \in DOMAIN s.old : s.old[k].TpID = bindApp[w]
      BY <1>6, <1>7, <2>1 DEF Known
    <3>3. PICK i \in Matches(x, bindApp[w]) : array[typeUID.a][i] = w
      BY <2>1, ListedMatches
    <3>4. <<k, i, w>> \in dues
      BY <3>1, <3>3
    <3> HIDE DEF dues
    <3>5. \E due \in thread'[r].backCheckUsers : due[3] = w
      BY <1>3, <3>4
    <3> QED
      BY <1>3, <3>5 DEF Pending, ToSend
  <2>2. CASE ~Known(f, bindApp[w])
    <3>1. ~Known(friends'[x], bindApp'[w])
      BY <1>2, <1>5, <2>2
    <3>2. MutualLink(w, x, friends'[w], friends'[x], bindApp'[w], bindApp'[x], everBound')
      BY <3>1, NothingKnown
    <3> QED
      BY <3>2 DEF LinksTo
  <2>3. CASE bindApp[w] = NoTpID
    <3>1. MutualLink(w, x, friends'[w], friends'[x], bindApp'[w], bindApp'[x], everBound')
      BY <1>2, <2>3, NoAccountToLink
    <3> QED
      BY <3>1 DEF LinksTo
  <2> QED
    BY <2>1, <2>2, <2>3
<1>10. /\ users' \subseteq users \cup {x}
       /\ \A w \in Users \ {x} : friends'[w] = friends[w] /\ bindApp'[w] = bindApp[w]
       /\ \A w \in Users : everBound[w] \subseteq everBound'[w]
  BY <1>2, <1>5
<1>11. \A w \in users' \ {x} : /\ Pending(x, w)' \/ LinksTo(x, w)'
                               /\ Pending(w, x)' \/ LinksTo(w, x)'
  BY <1>2, <1>8, <1>9
<1> QED
  BY <1>1, <1>10, <1>11, PairsOf

\* A check that is sent waits.
LEMMA SendMutual ==
  ASSUME TypeInv, MutualInv, NEW r \in Requests, ForUser(r, thread[r].user), SendCheck(r)
  PROVE  MutualInv'
<1>0. PICK x : x = thread[r].user
  OBVIOUS
<1> DEFINE s == thread[r]
           Due == [user : Users, other : Users]
<1>1. /\ r \in Threads /\ DOMAIN thread = Threads /\ s \in ThreadRecord /\ ForUser(r, x)
      /\ checkFriendsChan \in Seq(Due) /\ s.at = "send"
  BY <1>0, RequestFacts DEF TypeInv, ThreadOK, QueueOK, SendCheck
<1>2. UNCHANGED <<memory, everBound, interrupted>>
  BY DEF SendCheck, process
<1>3. ASSUME NEW u, NEW due \in s.backCheckUsers, due[3] = u
      PROVE  Pending(u, x)'
  <2>1. PICK sent \in s.backCheckUsers :
          /\ checkFriendsChan' = Append(checkFriendsChan, [user |-> sent[3], other |-> x])
          /\ thread' = [thread EXCEPT ![r].backCheckUsers = @ \ {sent}]
    BY <1>0, <1>3 DEF SendCheck
  <2>2. CASE sent = due
    <3> DEFINE check == [user |-> u, other |-> x]
    <3>1. checkFriendsChan' = Append(checkFriendsChan, check)
      BY <1>3, <2>1, <2>2
    <3> HIDE DEF Due, check
    <3>2. Len(checkFriendsChan) + 1 \in DOMAIN checkFriendsChan'
          /\ checkFriendsChan'[Len(checkFriendsChan) + 1] = check
      BY <1>1, <3>1
    <3>3. Waits(u, x)'
      BY <3>2 DEF Waits, check
    <3> QED
      BY <3>3 DEF Pending
  <2>3. CASE sent # due
    <3>1. /\ thread'[r].at = "send" /\ thread'[r].user = x
          /\ thread'[r].backCheckUsers = s.backCheckUsers \ {sent}
      BY <1>0, <1>1, <2>1 DEF ThreadRecord
    <3>2. \E other \in thread'[r].backCheckUsers : other[3] = u
      BY <1>3, <2>3, <3>1
    <3>3. ToSend(u, x)'
      BY <3>1, <3>2 DEF ToSend
    <3> QED
      BY <3>3 DEF Pending
  <2> QED
    BY <2>2, <2>3
<1>4. ASSUME NEW u, NEW v, Pending(u, v)
      PROVE  Pending(u, v)'
  <2>1. CASE Waits(u, v) \/ Runs(u, v)
    BY <1>1, <2>1, OtherChecksStay
  <2>2. CASE ~Waits(u, v) /\ ~Runs(u, v)
    <3>1. ~Scans(s)
      BY <1>1 DEF Scans, Target, ListCalls, FriendCalls
    <3>2. v = x /\ \E due \in s.backCheckUsers : due[3] = u
      BY <1>1, <1>4, <2>2, <3>1, PendingOf
    <3> QED
      BY <1>3, <3>2
  <2> QED
    BY <2>1, <2>2
<1> QED
  BY <1>2, <1>4, UsersSame

\* A step of the checking goroutine is no step of a request.
LEMMA CheckerPending ==
  ASSUME \A r \in Requests : thread'[r] = thread[r], NEW u, NEW v, Pending(u, v),
         Waits(u, v) => Waits(u, v)' \/ Runs(u, v)',
         Runs(u, v) => Runs(u, v)'
  PROVE  Pending(u, v)'
<1>1. CASE ToScan(u, v)
  <2>1. ToScan(u, v)'
    BY <1>1 DEF ToScan
  <2> QED
    BY <2>1 DEF Pending
<1>2. CASE ToSend(u, v)
  <2>1. ToSend(u, v)'
    BY <1>2 DEF ToSend
  <2> QED
    BY <2>1 DEF Pending
<1>3. CASE Waits(u, v) \/ Runs(u, v)
  BY <1>3 DEF Pending
<1> QED
  BY <1>1, <1>2, <1>3 DEF Pending

LEMMA TakeMutual ==
  ASSUME TypeInv, MutualInv, TakeCheck
  PROVE  MutualInv'
<1> DEFINE Due == [user : Users, other : Users]
           check == Head(checkFriendsChan)
<1>1. /\ Checker \in Threads /\ Checker \notin Requests /\ DOMAIN thread = Threads
      /\ checkFriendsChan \in Seq(Due) /\ checkFriendsChan # <<>> /\ thread[Checker].at = "idle"
  BY RelationAssumption DEF Threads, RelationAssumption, TypeInv, QueueOK, TakeCheck
<1>2. /\ thread'[Checker].at = "jerry" /\ thread'[Checker].user = check.user
      /\ thread'[Checker].jerry = check.other /\ checkFriendsChan' = Tail(checkFriendsChan)
      /\ \A r \in Requests : thread'[r] = thread[r]
  BY <1>1 DEF TakeCheck, Thread, Threads
<1>3. UNCHANGED <<memory, everBound, interrupted>>
  BY DEF TakeCheck, process
<1>4. ASSUME NEW u, NEW v, Waits(u, v)
      PROVE  Waits(u, v)' \/ Runs(u, v)'
  <2> DEFINE want == [user |-> u, other |-> v]
  <2>1. PICK k \in DOMAIN checkFriendsChan : checkFriendsChan[k] = want
    BY <1>4 DEF Waits
  <2>2. CASE k = 1
    <3> HIDE DEF Due
    <3>1. check = want
      BY <1>1, <2>1, <2>2
    <3> QED
      BY <1>2, <3>1 DEF Runs
  <2>3. CASE k # 1
    <3> HIDE DEF Due, want
    <3>1. k - 1 \in DOMAIN checkFriendsChan' /\ checkFriendsChan'[k - 1] = want
      BY <1>1, <1>2, <2>1, <2>3
    <3> QED
      BY <3>1 DEF Waits, want
  <2> QED
    BY <2>2, <2>3
<1>5. \A u, v : ~Runs(u, v)
  BY <1>1 DEF Runs
<1>6. \A u, v : Pending(u, v) => Pending(u, v)'
  BY <1>2, <1>4, <1>5, CheckerPending
<1> QED
  BY <1>3, <1>6, UsersSame

\* The reads of a check, and the storing of the user checked.
LEMMA CheckReadsMutual ==
  ASSUME TypeInv, MutualInv,
         GetJerryTpID \/ GetFriends(Checker) \/ RereadFriends(Checker) \/ StoreUser(Checker)
  PROVE  MutualInv'
<1> DEFINE s == thread[Checker]
           new == thread'[Checker]
<1>1. /\ Checker \in Threads /\ Checker \notin Requests /\ DOMAIN thread = Threads /\ s \in ThreadRecord
      /\ CheckerFlow(s)
  BY RelationAssumption DEF Threads, RelationAssumption, TypeInv, ThreadOK
<1>2. \A r \in Requests : thread'[r] = thread[r]
  BY <1>1, StepContinues, CheckContinues DEF Step, Continues, Threads
<1>3. UNCHANGED <<memory, everBound, interrupted>> /\ checkFriendsChan' = checkFriendsChan
  BY DEF GetJerryTpID, GetFriends, RereadFriends, StoreUser, process
<1>4. \/ s.at = "store"
      \/ new.at \notin {"idle", "store"} /\ new.user = s.user /\ new.jerry = s.jerry
  <2>1. CASE GetJerryTpID
    BY <1>1, <2>1 DEF GetJerryTpID, ThreadRecord
  <2>2. CASE GetFriends(Checker)
    BY <1>1, <2>2 DEF GetFriends, ThreadRecord, CheckerFlow, FriendCalls
  <2>3. CASE RereadFriends(Checker)
    BY <1>1, <2>3 DEF RereadFriends, ThreadRecord, CheckerFlow, FriendCalls
  <2>4. CASE StoreUser(Checker)
    BY <2>4 DEF StoreUser
  <2> QED
    BY <2>1, <2>2, <2>3, <2>4
<1>5. \A u, v : (Runs(u, v) => Runs(u, v)') /\ (Waits(u, v) => Waits(u, v)')
  BY <1>3, <1>4 DEF Runs, Waits
<1>6. \A u, v : Pending(u, v) => Pending(u, v)'
  BY <1>2, <1>5, CheckerPending
<1> QED
  BY <1>3, <1>6, UsersSame

\* A check writes the contacts of its user y only.
LEMMA CheckPairs ==
  ASSUME MutualInv, NEW y, UNCHANGED <<users, bindApp, everBound, interrupted>>,
         users \subseteq Users, \A w \in Users \ {y} : friends'[w] = friends[w],
         \A u, v \in users : u # v /\ u # y /\ Pending(u, v) => Pending(u, v)',
         \A w \in users \ {y} : LinksTo(w, y) => LinksTo(w, y)',
         ~interrupted /\ y \in users => \A w \in users \ {y} : Pending(y, w)' \/ LinksTo(y, w)'
  PROVE  MutualInv'
<1> SUFFICES ASSUME ~interrupted, NEW u \in users, NEW v \in users, u # v
             PROVE  Pending(u, v)' \/ LinksTo(u, v)'
  BY DEF MutualInv
<1>1. CASE u = y
  BY <1>1
<1>2. CASE u # y
  <2>1. Pending(u, v) \/ LinksTo(u, v)
    BY DEF MutualInv
  <2>2. CASE v = y
    BY <1>2, <2>1, <2>2
  <2>3. CASE v # y
    <3>1. u \in Users \ {y} /\ v \in Users \ {y}
      BY <1>2, <2>3
    <3>2. LinksTo(u, v) => LinksTo(u, v)'
      BY <3>1 DEF LinksTo
    <3> QED
      BY <1>2, <2>1, <3>2
  <2> QED
    BY <2>2, <2>3
<1> QED
  BY <1>1, <1>2

LEMMA CheckMakesMutual ==
  ASSUME TypeInv, MutualInv, MakeFriends(Checker)
  PROVE  MutualInv'
<1> DEFINE s == thread[Checker]
           new == thread'[Checker]
<1>0. PICK y : y = s.user
  OBVIOUS
<1>1. /\ Checker \in Threads /\ Checker \notin Requests /\ DOMAIN thread = Threads /\ s \in ThreadRecord
      /\ DOMAIN friends = Users /\ users \subseteq Users
  BY RelationAssumption DEF Threads, RelationAssumption, TypeInv, ThreadOK, MemoryOK
<1>2. y \in Users
  BY <1>0, <1>1, ActiveUser DEF MakeFriends
<1>3. \A r \in Requests : thread'[r] = thread[r]
  BY <1>1, StepContinues DEF Step, Continues, Threads
<1>4. /\ friends' = [friends EXCEPT ![y] = <<>>]
      /\ UNCHANGED <<users, bindApp, everBound, interrupted>> /\ checkFriendsChan' = checkFriendsChan
  BY <1>0 DEF MakeFriends, process
<1>5. new.at = "rereadFriends" /\ new.user = s.user /\ new.jerry = s.jerry
  BY <1>1 DEF MakeFriends, Goto, ThreadRecord
<1>6. \A u, v : (Runs(u, v) => Runs(u, v)') /\ (Waits(u, v) => Waits(u, v)')
  BY <1>4, <1>5 DEF Runs, Waits
<1>7. \A u, v : Pending(u, v) => Pending(u, v)'
  BY <1>3, <1>6, CheckerPending
<1>8. friends'[y] = <<>> /\ \A w \in Users \ {y} : friends'[w] = friends[w]
  BY <1>1, <1>2, <1>4
<1>9. ASSUME NEW w
      PROVE  LinksTo(y, w)' /\ LinksTo(w, y)'
  <2>1. \A a : ~Known(friends'[y], a)
    BY <1>8 DEF Known
  <2>2. MutualLink(y, w, friends'[y], friends'[w], bindApp'[y], bindApp'[w], everBound')
    BY <2>1, NothingToLink
  <2>3. MutualLink(w, y, friends'[w], friends'[y], bindApp'[w], bindApp'[y], everBound')
    BY <2>1, NothingKnown
  <2> QED
    BY <2>2, <2>3 DEF LinksTo
<1> QED
  BY <1>1, <1>4, <1>7, <1>8, <1>9, CheckPairs

\* The check links the contacts with jerry's account, and no others.
LEMMA CheckFriendMutual ==
  ASSUME TypeInv, LinkInv, CheckInv, MutualInv, CheckFriend
  PROVE  MutualInv'
<1> DEFINE s == thread[Checker]
           new == thread'[Checker]
           LinkedTo(item) == IF item.TpID = s.jerryTpID THEN [item EXCEPT !.UID = s.jerry] ELSE item
           linked == [k \in DOMAIN s.old |-> LinkedTo(s.old[k])]
<1>0. PICK y, z, f : y = s.user /\ z = s.jerry /\ f = IF s.jerryTpID = NoTpID THEN <<>> ELSE linked
  OBVIOUS
<1>1. /\ Checker \in Threads /\ Checker \notin Requests /\ DOMAIN thread = Threads /\ s \in ThreadRecord
      /\ DOMAIN friends = Users /\ users \subseteq Users /\ s.at = "link" /\ CheckerFlow(s)
      /\ ThreadLinks(s, everBound) /\ CheckKnows(s, friends[s.user], bindApp)
  BY RelationAssumption DEF Threads, RelationAssumption, TypeInv, ThreadOK, MemoryOK, CheckFriend, LinkInv,
     CheckInv
<1>2. y \in Users /\ z \in Users /\ z # y
  <2>1. s.user \in Users /\ s.jerry \in Users
    BY <1>1 DEF CheckerFlow
  <2>2. s.jerry # NoUID => s.jerry # s.user
    BY <1>1 DEF ThreadLinks
  <2> QED
    BY <1>0, <2>1, <2>2, RelationAssumption DEF RelationAssumption
<1>3. \A r \in Requests : thread'[r] = thread[r]
  BY <1>1, CheckContinues DEF Continues, Threads
<1>4. /\ friends' = [friends EXCEPT ![y] = f]
      /\ UNCHANGED <<users, bindApp, everBound, interrupted>> /\ checkFriendsChan' = checkFriendsChan
  BY <1>0 DEF CheckFriend, LinkJerry, process
<1>5. friends'[y] = f /\ \A w \in Users \ {y} : friends'[w] = friends[w]
  BY <1>1, <1>2, <1>4
<1>6. /\ s.old = friends[y] /\ (friends[y] # Missing \/ friends[y] = <<>>)
      /\ s.jerryTpID = bindApp[z]
      /\ s.jerryTpID # NoTpID => s.jerryTpID \in everBound[z]
  BY <1>0, <1>1 DEF CheckKnows, Target, ThreadLinks, ListCalls, FriendCalls
<1>7. \A k \in DOMAIN s.old : s.old[k] \in Friend
  BY <1>1 DEF ThreadRecord
<1>8. /\ DOMAIN linked = DOMAIN s.old
      /\ \A k \in DOMAIN s.old : linked[k] = LinkedTo(s.old[k])
  OBVIOUS
<1>9. \A k \in DOMAIN s.old : linked[k].TpID = s.old[k].TpID
  BY <1>7, <1>8 DEF Friend
<1>10. \A k \in DOMAIN s.old :
         /\ s.old[k].TpID = bindApp[z] => linked[k].UID = z
         /\ s.old[k].TpID # bindApp[z] => linked[k].UID = s.old[k].UID
  BY <1>0, <1>6, <1>7, <1>8 DEF Friend
<1> HIDE DEF linked
\* What f has, the contacts before had, with as many accounts.
<1>11. \A k \in DOMAIN f :
         /\ k \in DOMAIN friends[y] /\ friends[y] # Missing /\ f[k].TpID = friends[y][k].TpID
         /\ bindApp[z] # NoTpID /\ f[k].TpID = bindApp[z] => f[k].UID = z
         /\ f[k].TpID # bindApp[z] => f[k].UID = friends[y][k].UID
  <2>1. CASE s.jerryTpID = NoTpID
    BY <1>0, <2>1
  <2>2. CASE s.jerryTpID # NoTpID
    <3>1. f = linked
      BY <1>0, <2>2
    <3>2. ASSUME NEW k \in DOMAIN f
          PROVE  friends[y] # Missing
      <4>1. k \in DOMAIN s.old
        BY <1>8, <3>1
      <4> QED
        BY <1>6, <4>1
    <3> QED
      BY <1>6, <1>8, <1>9, <1>10, <3>1, <3>2
  <2> QED
    BY <2>1, <2>2
<1>12. \A u, v : u # y \/ v # z => ~Runs(u, v)
  BY <1>0 DEF Runs
<1>13. \A u, v : Waits(u, v) => Waits(u, v)'
  BY <1>4 DEF Waits
<1>14. \A u, v : (u # y \/ v # z) /\ Pending(u, v) => Pending(u, v)'
  BY <1>3, <1>12, <1>13, CheckerPending
<1>16. LinksTo(y, z)'
  <2>1. MutualLink(y, z, f, friends'[z], bindApp'[y], bindApp[z], everBound')
    BY <1>11 DEF MutualLink
  <2>2. MutualLink(y, z, friends'[y], friends'[z], bindApp'[y], bindApp'[z], everBound')
    BY <1>4, <1>5, <2>1
  <2> QED
    BY <2>2 DEF LinksTo
<1>17. ASSUME NEW w \in users \ {y}, w # z, LinksTo(y, w)
       PROVE  LinksTo(y, w)'
  <2>1. MutualLink(y, w, friends[y], friends[w], bindApp[y], bindApp[w], everBound)
    BY <1>17 DEF LinksTo
  <2>2. ASSUME Known(friends[w], bindApp[y]), \A o \in Users \ {y, w} : bindApp[w] \notin everBound[o],
               NoTpID \notin {bindApp[y], bindApp[w]}, NEW k \in DOMAIN f, f[k].TpID = bindApp[w]
        PROVE  f[k].UID = w
    <3>1. f[k].TpID # bindApp[z]
      BY <1>2, <1>6, <1>17, <2>2
    <3>2. k \in DOMAIN friends[y] /\ friends[y] # Missing /\ friends[y][k].TpID = bindApp[w]
          /\ f[k].UID = friends[y][k].UID
      BY <1>11, <2>2, <3>1
    <3> QED
      BY <2>1, <2>2, <3>2 DEF MutualLink
  <2>3. MutualLink(y, w, f, friends[w], bindApp[y], bindApp[w], everBound)
    BY <2>2 DEF MutualLink
  <2>4. w \in Users \ {y}
    BY <1>1
  <2>5. MutualLink(y, w, friends'[y], friends'[w], bindApp'[y], bindApp'[w], everBound')
    BY <1>4, <1>5, <2>3, <2>4
  <2> QED
    BY <2>5 DEF LinksTo
<1>18. ASSUME NEW w \in users \ {y}, LinksTo(w, y)
       PROVE  LinksTo(w, y)'
  <2>1. MutualLink(w, y, friends[w], friends[y], bindApp[w], bindApp[y], everBound)
    BY <1>18 DEF LinksTo
  <2>2. Known(f, bindApp[w]) => Known(friends[y], bindApp[w])
    BY <1>11 DEF Known
  <2>3. MutualLink(w, y, friends[w], f, bindApp[w], bindApp[y], everBound)
    BY <2>1, <2>2 DEF MutualLink
  <2>4. w \in Users \ {y}
    BY <1>1
  <2>5. MutualLink(w, y, friends'[w], friends'[y], bindApp'[w], bindApp'[y], everBound')
    BY <1>4, <1>5, <2>3, <2>4
  <2> QED
    BY <2>5 DEF LinksTo
<1>19. ASSUME ~interrupted, NEW w \in users \ {y}, y \in users
       PROVE  Pending(y, w)' \/ LinksTo(y, w)'
  <2>1. CASE w = z
    BY <1>16, <2>1
  <2>2. CASE w # z
    <3>1. Pending(y, w) \/ LinksTo(y, w)
      BY <1>19 DEF MutualInv
    <3> QED
      BY <1>14, <1>17, <2>2, <3>1
  <2> QED
    BY <2>1, <2>2
<1> QED
  BY <1>1, <1>4, <1>5, <1>14, <1>18, <1>19, CheckPairs

LEMMA QuietEnds ==
  ASSUME TypeInv, Quiet, NEW u, NEW v
  PROVE  ~Pending(u, v)
<1>1. \A r \in Requests : thread[r].at \in {"idle", "done"}
  BY DEF Quiet, Threads
<1>2. ~ToScan(u, v) /\ ~ToSend(u, v)
  BY <1>1 DEF ToScan, ToSend, Scans, Target, ListCalls, FriendCalls
<1>3. checkFriendsChan = <<>> /\ DOMAIN <<>> = {}
  BY DEF Quiet
<1>4. thread[Checker].at = "idle"
  BY DEF Quiet, TypeInv, ThreadOK, CheckerFlow, Threads, FriendCalls
<1> QED
  BY <1>2, <1>3, <1>4 DEF Pending, Waits, Runs

\* A restart when nothing goes on reads what was in memory.
LEMMA RestartMutual ==
  ASSUME TypeInv, StoreInv, KnownUsers, MutualInv, Restart
  PROVE  MutualInv'
<1> SUFFICES ASSUME ~interrupted', NEW u \in users', NEW v \in users', u # v
             PROVE  LinksTo(u, v)'
  BY DEF MutualInv
<1>1. ~interrupted /\ Quiet /\ unsaved = {} /\ everBound' = everBound
  BY DEF Restart
<1>2. /\ users' = {w \in Users : stored[w] # Missing}
      /\ bindApp' = [w \in Users |-> IF Bound(w) THEN stored[w].bindApp ELSE NoTpID]
      /\ friends' = [w \in Users |-> IF w \in users' THEN stored[w].friends ELSE Missing]
  BY DEF Restart
<1>3. ASSUME NEW w \in users'
      PROVE  w \in users /\ bindApp'[w] = bindApp[w] /\ friends'[w] = friends[w]
  <2>1. w \in Users /\ stored[w] # Missing
    BY <1>2
  <2>2. w \in users
    BY <2>1 DEF KnownUsers
  <2>3. IsStored(w)
    BY <1>1, <2>2 DEF StoreInv, Busy, Quiet
  <2>4. stored[w].bindApp = bindApp[w] /\ stored[w].friends = friends[w]
    BY <2>3 DEF IsStored
  <2>5. bindApp'[w] = bindApp[w]
    BY <1>2, <2>1, <2>4 DEF Bound
  <2>6. friends'[w] = friends[w]
    BY <1>2, <2>1, <2>4
  <2> QED
    BY <2>2, <2>5, <2>6
<1>4. LinksTo(u, v)
  BY <1>1, <1>3, QuietEnds DEF MutualInv
<1> QED
  BY <1>1, <1>3, <1>4 DEF LinksTo

LEMMA MutualInvStep ==
  ASSUME Serial, TypeInv, LinkInv, OneAtWork, ListInv, StoreInv, KnownUsers, CheckInv, MutualInv, [Next]_vars
  PROVE  MutualInv'
<1>1. ASSUME NEW r \in Requests, Step(r)
      PROVE  MutualInv'
  <2>1. ForUser(r, thread[r].user)
    BY <1>1, StepForUser
  <2> QED
    BY <1>1, <2>1, ListMutual, BindMutual, UnbindingMutual, ScanMutual, SendMutual DEF Step
<1>2. ASSUME NEW r \in Requests, StartWork(r) \/ UnbindAccount(r)
      PROVE  MutualInv'
  <2>1. ForUser(r, thread[r].user)
    BY <1>2, BeginForUser
  <2> QED
    BY <1>2, <2>1, ListMutual, BindMutual
<1>3. CASE Check
  BY <1>3, CheckerSteps, TakeMutual, CheckReadsMutual, CheckMakesMutual, CheckFriendMutual DEF Check
<1>4. CASE Restart
  BY <1>4, RestartMutual
<1>5. CASE UNCHANGED vars
  <2>1. \A u, v : Pending(u, v) => Pending(u, v)'
    BY <1>5 DEF vars, Pending, ToScan, ToSend, Waits, Runs
  <2>2. UNCHANGED <<memory, everBound, interrupted>>
    BY <1>5 DEF vars, process
  <2> QED
    BY <2>1, <2>2, UsersSame
<1> QED
  BY <1>1, <1>2, <1>3, <1>4, <1>5 DEF Next

LEMMA MutualInvInit == Init => KnownUsers /\ CheckInv /\ MutualInv
<1> SUFFICES ASSUME Init
             PROVE  KnownUsers /\ CheckInv /\ MutualInv
  OBVIOUS
<1>1. /\ \A t \in Threads : thread[t].at = "idle" /\ thread[t].backCheckUsers = {}
      /\ users = {} /\ checkFriendsChan = <<>> /\ \A u \in Users : stored[u] = Missing
  BY DEF Init, Thread
<1>2. KnownUsers
  BY <1>1 DEF KnownUsers, Busy
<1>3. CheckInv
  BY <1>1 DEF CheckInv, CheckKnows, Target, ListCalls, FriendCalls, Threads
<1>4. MutualInv
  BY <1>1 DEF MutualInv
<1> QED
  BY <1>2, <1>3, <1>4

\* Of two users that have each other's account among their contacts, each is linked to
\* the other once nothing goes on, if requests are made one after the other, nobody else
\* ever had the account and no restart cut something short (relation.go:254-265,
\* 274-278, 293-295).
THEOREM MutualContactsAlwaysLinked ==
  ASSUME Serial
  PROVE  Spec => []MutualContactsAreLinked
<1>1. TypeInv /\ KnownUsers /\ [Next]_vars => KnownUsers'
  BY KnownUsersStep
<1>2. TypeInv /\ OneAtWork /\ CheckInv /\ [Next]_vars => CheckInv'
  BY CheckInvStep
<1>3. /\ TypeInv /\ LinkInv /\ OneAtWork /\ ListInv /\ StoreInv /\ KnownUsers /\ CheckInv /\ MutualInv
      /\ [Next]_vars
      => MutualInv'
  BY MutualInvStep
<1>4. TypeInv /\ MutualInv => MutualContactsAreLinked
  <2> SUFFICES ASSUME TypeInv, MutualInv, Quiet, ~interrupted, NEW u \in users, NEW v \in users,
                      NEW c \in Contacts(u), NEW d \in Contacts(v),
                      u # v, c.TpID = bindApp[v], d.TpID = bindApp[u], NoTpID \notin {c.TpID, d.TpID},
                      \A w \in Users \ {u, v} : c.TpID \notin everBound[w]
               PROVE  c.UID = v
    BY DEF MutualContactsAreLinked
  <2>1. LinksTo(u, v)
    BY QuietEnds DEF MutualInv
  <2>2. friends[u] # Missing /\ \E k \in DOMAIN friends[u] : c = friends[u][k]
    BY DEF Contacts, ToSet
  <2>3. friends[v] # Missing /\ \E k \in DOMAIN friends[v] : d = friends[v][k]
    BY DEF Contacts, ToSet
  <2>4. Known(friends[v], bindApp[u])
    BY <2>3 DEF Known
  <2> QED
    BY <2>1, <2>2, <2>4 DEF LinksTo, MutualLink
<1> QED
  BY <1>1, <1>2, <1>3, <1>4, MutualInvInit, SerialAlways, ListInvAlways, StoreInvAlways, PTL DEF Spec
=============================================================================
