--------------------------- MODULE ResourceProofs ---------------------------
(***************************************************************************)
(* The properties of Resource, for any jobs and buckets and batches of any *)
(* length: IInv is inductive.  A step of a job changes what IInv says of   *)
(* that job only, and adds objects to the buckets; no object ever goes,    *)
(* and that is all the other jobs rely on.                                 *)
(***************************************************************************)
EXTENDS Resource, SequenceTheorems, TLAPS

Places == {"waiting", "make", "node", "range", "wait", "result", "store",
           "callback", "done", "failed", "dropped"}

\* The places between MakeTree and getResult's call.
Walks == {"node", "range", "wait"}

Requests(j) == {items[j][i] : i \in DOMAIN items[j]}

\* A result has bits for some of the buckets.
Bits == {1, 2, 4, 8, 16}
Results == UNION {[B -> SUBSET Bits] : B \in SUBSET Buckets}

Answers(j) == [DOMAIN items[j] -> [request : Requests(j), result : Results]]

\* The buckets of a request that bucketPool knows.
Known(req) == {req.FromBucket, req.ToBucket} \cap Buckets

-----------------------------------------------------------------------------
(* What holds of a handler's state s, of a result and of an answer. *)

JobRecord(j) ==
  [at : Places, item : DOMAIN items[j], retry : 0 .. MaxRetry, results : Seq(Results),
   node : Nat, outFile : SUBSET Nat, resultMap : SUBSET (Nat \X Buckets),
   range : SUBSET UNION {{r.FromBucket, r.ToBucket} : r \in Requests(j)},
   uploading : SUBSET Buckets, errChan : SUBSET Buckets]

\* The request s is at.
Req(j, s) == items[j][s.item]

\* Where the handler is in its batch: one result for each item it is done with.
BatchOK(j, s) ==
  /\ Len(s.results) = IF s.at \in {"store", "callback", "done"} THEN s.item ELSE s.item - 1
  /\ s.at = "waiting" => s.item = 1
  /\ s.at \in {"callback", "done"} => s.item = Len(items[j])
  /\ s.at \notin {"waiting", "dropped"} => s.retry < MaxRetry

\* Where it is in the tree: a walk begins with nothing done, and visits nodes of
\* the tree of an item that comes from a known bucket.
TreeOK(j, s) ==
  /\ s.at \in {"waiting", "make"} =>
       s.node = 1 /\ s.outFile = {} /\ s.resultMap = {} /\ s.uploading = {}
  /\ s.at \in Walks => s.node \in DOMAIN Tree(Req(j, s).Type) /\ Req(j, s).FromBucket \in Buckets
  /\ s.outFile \subseteq DOMAIN Tree(Req(j, s).Type)
  /\ s.resultMap \subseteq (DOMAIN Tree(Req(j, s).Type)) \X Buckets
  /\ s.uploading # {} => s.at \in {"range", "wait"}

\* No bucket has node n's file, or all the known ones have.
AllOrNone(j, s, n) ==
  (\E b \in Buckets : <<n, b>> \in s.resultMap) =>
    \A b \in Known(Req(j, s)) : <<n, b>> \in s.resultMap

\* The derived files: those behind the walk are in both buckets or in none, those
\* ahead of it in none, and the one it is at may yet fail.
NodesOK(j, s) ==
  s.at \in Walks \cup {"result"} =>
    /\ \A n \in DOMAIN Tree(Req(j, s).Type) \ {1} :
         /\ s.at = "result" \/ n < s.node => AllOrNone(j, s, n)
         /\ n > s.node \/ (n = s.node /\ s.at = "node") =>
              \A b \in Buckets : <<n, b>> \notin s.resultMap
    /\ s.at \in {"range", "wait"} =>
         \A b \in Known(Req(j, s)) :
           b \in s.range \cup s.uploading \cup s.errChan \/ <<s.node, b>> \in s.resultMap
    /\ s.at = "wait" => s.range = {}

\* What resultMap says is among the objects, apart from the source.
MapOK(j, s, objects) ==
  \A p \in s.resultMap \ {Source(Req(j, s))} :
    <<Req(j, s).Key, Tree(Req(j, s).Type)[p[1]].suffix, p[2]>> \in objects

\* A result claims what is there, and a derived file in all known buckets.
Present(req, result, objects) ==
  \A p \in Claimed(req, result) \ {Source(req)} :
    <<req.Key, Tree(req.Type)[p[1]].suffix, p[2]>> \in objects

Whole(req, result) ==
  \A p \in Claimed(req, result) : p[1] > 1 =>
    \A b \in Known(req) : <<p[1], b>> \in Claimed(req, result)

ResultOK(req, result, objects) == Present(req, result, objects) /\ Whole(req, result)

ResultsOK(j, s, objects) ==
  \A i \in 1 .. Len(s.results) : ResultOK(items[j][i], s.results[i], objects)

HandlerOK(j, s, objects) ==
  /\ s \in JobRecord(j)
  /\ BatchOK(j, s) /\ TreeOK(j, s) /\ NodesOK(j, s)
  /\ MapOK(j, s, objects) /\ ResultsOK(j, s, objects)

CallbackOK(j, s, answers, objects) ==
  /\ answers \in Seq(Answers(j))
  /\ Len(answers) = IF s.at = "done" THEN 1 ELSE 0
  /\ \A c \in DOMAIN answers : \A i \in DOMAIN items[j] :
       /\ ResultOK(items[j][i], answers[c][i].result, objects)
       /\ answers[c][i].request = Last(items[j])

\* A row is of an item of its key, and true of that one.
RowOK(k, row, objects) ==
  \E j \in Jobs : \E i \in DOMAIN items[j] :
    /\ row.of = <<j, i>> /\ items[j][i].Key = k
    /\ Present(items[j][i], row.result, objects)

JobOK(j) ==
  /\ HandlerOK(j, job[j], remote)
  /\ CallbackOK(j, job[j], callback[j], remote)

IInv ==
  /\ DOMAIN job = Jobs /\ DOMAIN callback = Jobs
  /\ \A j \in Jobs : JobOK(j)
  /\ \A k \in DOMAIN stored : RowOK(k, stored[k], remote)
  /\ crashed \in BOOLEAN

-----------------------------------------------------------------------------
(* Trees, results, and what grows with the buckets. *)

JobNodes == [suffix : {NoSuffix, "cover", "blur", "webp", "thumb"}, parent : Nat, bit : Bits]

LEMMA Nodes4 ==
  ASSUME NEW n1 \in JobNodes, NEW n2 \in JobNodes, NEW n3 \in JobNodes, NEW n4 \in JobNodes
  PROVE  /\ <<n1>> \in Seq(JobNodes) /\ <<n1, n2>> \in Seq(JobNodes)
         /\ <<n1, n2, n3>> \in Seq(JobNodes) /\ <<n1, n2, n3, n4>> \in Seq(JobNodes)
OBVIOUS

\* The trees there are; a node is known by its bit.
LEMMA Trees ==
  ASSUME NEW type
  PROVE  /\ Tree(type) \in Seq(JobNodes)
         /\ \A m, n \in DOMAIN Tree(type) : Tree(type)[m].bit = Tree(type)[n].bit => m = n
<1> DEFINE Shape(tree) ==
             /\ tree \in Seq(JobNodes)
             /\ \A m, n \in DOMAIN tree : tree[m].bit = tree[n].bit => m = n
           IsNode(n) == n \in JobNodes
<1>1. \/ Tree(type) = <<Node(NoSuffix, 0, 8), Node("cover", 1, 1), Node("blur", 2, 2), Node("webp", 1, 4)>>
      \/ Tree(type) = <<Node(NoSuffix, 0, 8), Node("cover", 1, 1), Node("blur", 2, 2)>>
      \/ Tree(type) = <<Node(NoSuffix, 0, 1), Node("thumb", 1, 2)>>
      \/ Tree(type) = <<Node(NoSuffix, 0, 8)>> \/ Tree(type) = <<Node(NoSuffix, 0, 16)>>
      \/ Tree(type) = <<Node(NoSuffix, 0, 4)>> \/ Tree(type) = <<>>
  BY DEF Tree
<1>0. ASSUME NEW suffix \in {NoSuffix, "cover", "blur", "webp", "thumb"}, NEW parent \in Nat, NEW bit \in Bits
      PROVE  IsNode(Node(suffix, parent, bit)) /\ Node(suffix, parent, bit).bit = bit
  BY DEF Node, JobNodes
<1>2. /\ IsNode(Node(NoSuffix, 0, 8)) /\ IsNode(Node("cover", 1, 1)) /\ IsNode(Node("blur", 2, 2))
      /\ IsNode(Node("webp", 1, 4)) /\ IsNode(Node(NoSuffix, 0, 1)) /\ IsNode(Node("thumb", 1, 2))
      /\ IsNode(Node(NoSuffix, 0, 16)) /\ IsNode(Node(NoSuffix, 0, 4))
  <2>2. 1 \in Bits /\ 2 \in Bits /\ 4 \in Bits /\ 8 \in Bits /\ 16 \in Bits
    BY DEF Bits
  <2> HIDE DEF IsNode
  <2>3. IsNode(Node(NoSuffix, 0, 8)) /\ IsNode(Node("cover", 1, 1)) /\ IsNode(Node("blur", 2, 2))
    BY <1>0, <2>2
  <2>4. IsNode(Node("webp", 1, 4)) /\ IsNode(Node(NoSuffix, 0, 1)) /\ IsNode(Node("thumb", 1, 2))
    BY <1>0, <2>2
  <2>5. IsNode(Node(NoSuffix, 0, 16)) /\ IsNode(Node(NoSuffix, 0, 4))
    BY <1>0, <2>2
  <2> QED
    BY <2>3, <2>4, <2>5
<1>3. /\ Node(NoSuffix, 0, 8).bit = 8 /\ Node("cover", 1, 1).bit = 1 /\ Node("blur", 2, 2).bit = 2
      /\ Node("webp", 1, 4).bit = 4 /\ Node(NoSuffix, 0, 1).bit = 1 /\ Node("thumb", 1, 2).bit = 2
  BY DEF Node
<1>4. ASSUME NEW n1 \in JobNodes, NEW n2 \in JobNodes, NEW n3 \in JobNodes, NEW n4 \in JobNodes,
             n1.bit = 8, n2.bit = 1, n3.bit = 2, n4.bit = 4
      PROVE  Shape(<<n1, n2, n3, n4>>) /\ Shape(<<n1, n2, n3>>)
  <2>1. DOMAIN <<n1, n2, n3, n4>> = 1 .. 4 /\ DOMAIN <<n1, n2, n3>> = 1 .. 3
    OBVIOUS
  <2>2. \A n \in 1 .. 4 : n = 1 \/ n = 2 \/ n = 3 \/ n = 4
    OBVIOUS
  <2>3. \A m, n \in 1 .. 4 : <<n1, n2, n3, n4>>[m].bit = <<n1, n2, n3, n4>>[n].bit => m = n
    BY <1>4, <2>2
  <2>4. \A m, n \in 1 .. 3 : <<n1, n2, n3>>[m].bit = <<n1, n2, n3>>[n].bit => m = n
    BY <1>4, <2>2
  <2> QED
    BY <2>1, <2>3, <2>4, Nodes4
<1>5. ASSUME NEW n1 \in JobNodes, NEW n2 \in JobNodes, n1.bit # n2.bit
      PROVE  Shape(<<n1, n2>>) /\ Shape(<<n1>>)
  <2>1. DOMAIN <<n1, n2>> = 1 .. 2 /\ DOMAIN <<n1>> = 1 .. 1
    OBVIOUS
  <2>2. \A m, n \in 1 .. 2 : <<n1, n2>>[m].bit = <<n1, n2>>[n].bit => m = n
    BY <1>5
  <2> QED
    BY <2>1, <2>2, Nodes4
<1>6. Shape(<<>>)
  OBVIOUS
<1>7. ASSUME NEW n \in JobNodes
      PROVE  Shape(<<n>>)
  BY Nodes4
<1> HIDE DEF Shape
<1>8. Shape(Tree(type))
  <2>1. /\ Shape(<<Node(NoSuffix, 0, 8), Node("cover", 1, 1), Node("blur", 2, 2), Node("webp", 1, 4)>>)
        /\ Shape(<<Node(NoSuffix, 0, 8), Node("cover", 1, 1), Node("blur", 2, 2)>>)
    <3> DEFINE n1 == Node(NoSuffix, 0, 8)
               n2 == Node("cover", 1, 1)
               n3 == Node("blur", 2, 2)
               n4 == Node("webp", 1, 4)
    <3>1. /\ n1 \in JobNodes /\ n2 \in JobNodes /\ n3 \in JobNodes /\ n4 \in JobNodes
          /\ n1.bit = 8 /\ n2.bit = 1 /\ n3.bit = 2 /\ n4.bit = 4
      BY <1>2, <1>3
    <3> HIDE DEF n1, n2, n3, n4
    <3>2. Shape(<<n1, n2, n3, n4>>) /\ Shape(<<n1, n2, n3>>)
      BY <1>4, <3>1
    <3> QED
      BY <3>2 DEF n1, n2, n3, n4
  <2>2. Shape(<<Node(NoSuffix, 0, 1), Node("thumb", 1, 2)>>)
    <3> DEFINE n1 == Node(NoSuffix, 0, 1)
               n2 == Node("thumb", 1, 2)
    <3>1. n1 \in JobNodes /\ n2 \in JobNodes /\ n1.bit # n2.bit
      BY <1>2, <1>3
    <3> HIDE DEF n1, n2
    <3>2. Shape(<<n1, n2>>)
      BY <1>5, <3>1
    <3> QED
      BY <3>2 DEF n1, n2
  <2>3. Shape(<<Node(NoSuffix, 0, 8)>>) /\ Shape(<<Node(NoSuffix, 0, 16)>>) /\ Shape(<<Node(NoSuffix, 0, 4)>>)
    BY <1>2, <1>7
  <2> QED
    BY <1>1, <1>6, <2>1, <2>2, <2>3
<1> QED
  BY <1>8 DEF Shape

LEMMA FirstNode ==
  ASSUME NEW type, Tree(type) # <<>>
  PROVE  /\ Len(Tree(type)) \in Nat /\ DOMAIN Tree(type) = 1 .. Len(Tree(type))
         /\ 1 \in DOMAIN Tree(type)
BY Trees

LEMMA NothingClaimed ==
  ASSUME NEW req
  PROVE  NoResult \in Results /\ Claimed(req, NoResult) = {}
<1>1. DOMAIN NoResult = {}
  BY DEF NoResult
<1>2. NoResult \in [{} -> SUBSET Bits]
  BY <1>1 DEF NoResult
<1>3. {} \in SUBSET Buckets
  OBVIOUS
<1> QED
  BY <1>1, <1>2, <1>3 DEF Results, Claimed

\* getResult claims what is true in resultMap, and no more.
LEMMA GetResult ==
  ASSUME NEW j \in Jobs, job[j].resultMap \subseteq (DOMAIN Nodes(j)) \X Buckets
  PROVE  getResult(j) \in Results /\ Claimed(Item(j), getResult(j)) = job[j].resultMap
<1> DEFINE map == job[j].resultMap
           tree == Tree(Item(j).Type)
           trues == {p[2] : p \in map}
           bits(b) == {tree[p[1]].bit : p \in {q \in map : q[2] = b}}
<1>1. /\ map \subseteq (DOMAIN tree) \X Buckets
      /\ \A n \in DOMAIN tree : tree[n].bit \in Bits
      /\ \A m, n \in DOMAIN tree : tree[m].bit = tree[n].bit => m = n
  <2>1. \A n \in DOMAIN tree : tree[n].bit \in Bits
    <3>1. tree \in Seq(JobNodes)
      BY Trees
    <3> HIDE DEF tree
    <3>2. DOMAIN tree = 1 .. Len(tree)
      BY <3>1
    <3>3. \A n \in DOMAIN tree : tree[n] \in JobNodes
      BY <3>1, <3>2, ElementOfSeq
    <3> QED
      BY <3>3 DEF JobNodes
  <2> QED
    BY <2>1, Trees DEF Nodes
<1>2. getResult(j) = [b \in trues |-> bits(b)]
  BY DEF getResult, Nodes
<1>3. Claimed(Item(j), getResult(j)) =
        {p \in (DOMAIN tree) \X DOMAIN getResult(j) : tree[p[1]].bit \in getResult(j)[p[2]]}
  BY DEF Claimed
<1> HIDE DEF map, tree
<1>4. trues \subseteq Buckets
  BY <1>1
<1>5. \A b \in trues : bits(b) \in SUBSET Bits
  BY <1>1
<1>6. getResult(j) \in [trues -> SUBSET Bits]
  BY <1>2, <1>5
<1>7. getResult(j) \in Results
  BY <1>4, <1>6 DEF Results
<1>8. ASSUME NEW p \in map
      PROVE  p \in Claimed(Item(j), getResult(j))
  <2>1. p[2] \in trues /\ tree[p[1]].bit \in bits(p[2])
    OBVIOUS
  <2>2. p \in (DOMAIN tree) \X trues
    BY <1>1
  <2> QED
    BY <1>2, <1>3, <2>1, <2>2
<1>9. ASSUME NEW p \in Claimed(Item(j), getResult(j))
      PROVE  p \in map
  <2>1. p \in (DOMAIN tree) \X trues /\ tree[p[1]].bit \in bits(p[2])
    BY <1>2, <1>3
  <2>2. PICK q \in map : q[2] = p[2] /\ tree[q[1]].bit = tree[p[1]].bit
    BY <2>1
  <2>3. q \in (DOMAIN tree) \X Buckets
    BY <1>1
  <2>4. q[1] = p[1]
    BY <1>1, <2>1, <2>2, <2>3
  <2>5. p = <<p[1], p[2]>> /\ q = <<q[1], q[2]>>
    BY <2>1, <2>3
  <2> QED
    BY <2>2, <2>4, <2>5
<1> QED
  BY <1>7, <1>8, <1>9 DEF map

LEMMA MoreObjects ==
  ASSUME NEW objects, NEW more, objects \subseteq more
  PROVE  /\ \A req, result : Present(req, result, objects) => Present(req, result, more)
         /\ \A req, result : ResultOK(req, result, objects) => ResultOK(req, result, more)
         /\ \A j, s : MapOK(j, s, objects) => MapOK(j, s, more)
         /\ \A j, s : ResultsOK(j, s, objects) => ResultsOK(j, s, more)
         /\ \A j, s : HandlerOK(j, s, objects) => HandlerOK(j, s, more)
         /\ \A j, s, answers : CallbackOK(j, s, answers, objects) => CallbackOK(j, s, answers, more)
         /\ \A k, result : RowOK(k, result, objects) => RowOK(k, result, more)
<1>1. \A req, result : Present(req, result, objects) => Present(req, result, more)
  BY DEF Present
<1>2. \A req, result : ResultOK(req, result, objects) => ResultOK(req, result, more)
  BY <1>1 DEF ResultOK
<1>3. \A j, s : MapOK(j, s, objects) => MapOK(j, s, more)
  BY DEF MapOK
<1>4. \A j, s : ResultsOK(j, s, objects) => ResultsOK(j, s, more)
  BY <1>2 DEF ResultsOK
<1>5. \A j, s : HandlerOK(j, s, objects) => HandlerOK(j, s, more)
  BY <1>3, <1>4 DEF HandlerOK
<1>6. \A j, s, answers : CallbackOK(j, s, answers, objects) => CallbackOK(j, s, answers, more)
  BY <1>2 DEF CallbackOK
<1>7. \A k, result : RowOK(k, result, objects) => RowOK(k, result, more)
  BY <1>1 DEF RowOK
<1> QED
  BY <1>1, <1>2, <1>3, <1>4, <1>5, <1>6, <1>7

-----------------------------------------------------------------------------
(* Steps. *)

\* What a step of job j may do to the others' state, and keeps of its own.
StepOf(j) ==
  /\ DOMAIN job' = Jobs /\ DOMAIN callback' = Jobs
  /\ \A k \in Jobs \ {j} : job'[k] = job[k] /\ callback'[k] = callback[k]
  /\ remote \subseteq remote'
  /\ HandlerOK(j, job'[j], remote')
  /\ CallbackOK(j, job'[j], callback'[j], remote')
  /\ \A k \in DOMAIN stored' : RowOK(k, stored'[k], remote')
  /\ crashed' \in BOOLEAN

LEMMA StepKeeps ==
  ASSUME IInv, NEW j \in Jobs, StepOf(j)
  PROVE  IInv'
<1>1. ASSUME NEW k \in Jobs
      PROVE  HandlerOK(k, job'[k], remote') /\ CallbackOK(k, job'[k], callback'[k], remote')
  <2>1. CASE k = j
    BY <2>1 DEF StepOf
  <2>2. CASE k # j
    <3>1. job'[k] = job[k] /\ callback'[k] = callback[k] /\ remote \subseteq remote'
      BY <2>2 DEF StepOf
    <3>2. HandlerOK(k, job[k], remote) /\ CallbackOK(k, job[k], callback[k], remote)
      BY DEF IInv, JobOK
    <3> QED
      BY <3>1, <3>2, MoreObjects
  <2> QED
    BY <2>1, <2>2
<1> QED
  BY <1>1 DEF IInv, JobOK, StepOf

\* The fields of a handler's state, and what is known of them.
LEMMA Fields ==
  ASSUME IInv, NEW j \in Jobs
  PROVE  /\ job[j] \in JobRecord(j)
         /\ Item(j) = Req(j, job[j]) /\ Nodes(j) = Tree(Req(j, job[j]).Type)
         /\ BatchOK(j, job[j]) /\ TreeOK(j, job[j]) /\ NodesOK(j, job[j])
         /\ MapOK(j, job[j], remote) /\ ResultsOK(j, job[j], remote)
         /\ CallbackOK(j, job[j], callback[j], remote)
BY DEF IInv, JobOK, HandlerOK, Item, Nodes, Req

LEMMA Batches ==
  ASSUME NEW j \in Jobs
  PROVE  /\ Len(items[j]) \in Nat \ {0} /\ DOMAIN items[j] = 1 .. Len(items[j])
         /\ items[j] \in Seq(Requests(j))
<1>1. Len(items[j]) > 0 /\ items[j] \in Seq(Requests(j))
  BY ResourceAssumption DEF ResourceAssumption, Requests
<1> QED
  BY <1>1

\* A step that posts and stores nothing, and neither leaves nor reaches "done".
LEMMA QuietStep ==
  ASSUME IInv, NEW j \in Jobs,
         DOMAIN job' = Jobs, \A k \in Jobs \ {j} : job'[k] = job[k],
         remote \subseteq remote', HandlerOK(j, job'[j], remote'),
         job[j].at # "done", job'[j].at # "done",
         callback' = callback, stored' = stored, crashed' \in BOOLEAN
  PROVE  StepOf(j)
<1>1. CallbackOK(j, job'[j], callback[j], remote)
  BY Fields DEF CallbackOK
<1>2. CallbackOK(j, job'[j], callback'[j], remote')
  BY <1>1, MoreObjects
<1>3. \A k \in DOMAIN stored' : RowOK(k, stored'[k], remote')
  BY MoreObjects DEF IInv
<1> QED
  BY <1>2, <1>3 DEF StepOf, IInv

-----------------------------------------------------------------------------
(* The steps of the handler. *)

\* A step that only goes on to another place.
LEMMA GotoFields ==
  ASSUME IInv, NEW j \in Jobs, NEW at \in Places, Goto(j, at)
  PROVE  /\ DOMAIN job' = Jobs /\ \A k \in Jobs \ {j} : job'[k] = job[k]
         /\ job'[j] \in JobRecord(j)
         /\ job'[j].at = at
         /\ job'[j].item = job[j].item /\ job'[j].retry = job[j].retry
         /\ job'[j].results = job[j].results /\ job'[j].node = job[j].node
         /\ job'[j].outFile = job[j].outFile /\ job'[j].resultMap = job[j].resultMap
         /\ job'[j].range = job[j].range /\ job'[j].uploading = job[j].uploading
         /\ job'[j].errChan = job[j].errChan
<1>1. DOMAIN job = Jobs /\ job[j] \in JobRecord(j)
  BY Fields DEF IInv
<1>2. job' = [job EXCEPT ![j] = [job[j] EXCEPT !.at = at]]
  BY DEF Goto
<1>3. [job[j] EXCEPT !.at = at] \in JobRecord(j)
  BY <1>1 DEF JobRecord
<1> QED
  BY <1>1, <1>2, <1>3 DEF JobRecord

\* The steps that begin at or go to a place where the tree does not matter.
LEMMA GotoKeeps ==
  ASSUME IInv, NEW j \in Jobs, NEW at \in {"make", "dropped", "failed", "callback"},
         Goto(j, at), ~crashed,
         at \in {"make", "dropped"} => job[j].at = "waiting",
         at = "make" => job[j].retry < MaxRetry,
         at = "failed" => job[j].at = "make",
         at = "callback" => job[j].at = "store" /\ job[j].item = Len(items[j])
  PROVE  HandlerOK(j, job'[j], remote)
<1> DEFINE s == job[j]
           t == job'[j]
<1>1. at \in Places
  BY DEF Places
<1>2. /\ t \in JobRecord(j) /\ t.at = at
      /\ t.item = s.item /\ t.retry = s.retry /\ t.results = s.results /\ t.node = s.node
      /\ t.outFile = s.outFile /\ t.resultMap = s.resultMap
      /\ t.uploading = s.uploading
  BY <1>1, GotoFields
<1>3. BatchOK(j, s) /\ TreeOK(j, s) /\ MapOK(j, s, remote) /\ ResultsOK(j, s, remote)
  BY Fields
<1> HIDE DEF s, t
<1>4. BatchOK(j, t)
  BY <1>2, <1>3 DEF BatchOK, s
<1>5. Req(j, t) = Req(j, s)
  BY <1>2 DEF Req
<1>6. TreeOK(j, t)
  BY <1>2, <1>3, <1>5 DEF TreeOK, s, Walks
<1>7. NodesOK(j, t)
  BY <1>2 DEF NodesOK, Walks
<1>8. MapOK(j, t, remote)
  BY <1>2, <1>3, <1>5 DEF MapOK
<1>9. ResultsOK(j, t, remote)
  BY <1>2, <1>3 DEF ResultsOK
<1> QED
  BY <1>2, <1>4, <1>6, <1>7, <1>8, <1>9 DEF HandlerOK, t

LEMMA HandleStep ==
  ASSUME IInv, NEW j \in Jobs, Handle(j)
  PROVE  StepOf(j)
<1>1. PICK at \in {"make", "dropped"} :
        Goto(j, at) /\ job[j].at = "waiting" /\ (at = "make" => job[j].retry < MaxRetry)
  BY DEF Handle, At
<1>2. ~crashed /\ remote' = remote /\ stored' = stored /\ callback' = callback /\ crashed' = crashed
  BY DEF Handle, At
<1>3. HandlerOK(j, job'[j], remote)
  BY <1>1, <1>2, GotoKeeps
<1>4. at \in Places
  BY DEF Places
<1>5. DOMAIN job' = Jobs /\ (\A k \in Jobs \ {j} : job'[k] = job[k]) /\ job'[j].at = at
  BY <1>1, <1>4, GotoFields
<1> QED
  BY <1>1, <1>2, <1>3, <1>5, QuietStep DEF IInv

LEMMA NoSuchTypeStep ==
  ASSUME IInv, NEW j \in Jobs, NoSuchType(j)
  PROVE  StepOf(j)
<1>1. Goto(j, "failed") /\ job[j].at = "make"
  BY DEF NoSuchType, At
<1>2. ~crashed /\ remote' = remote /\ stored' = stored /\ callback' = callback /\ crashed' = crashed
  BY DEF NoSuchType, At
<1>3. HandlerOK(j, job'[j], remote)
  BY <1>1, <1>2, GotoKeeps
<1>4. "failed" \in Places
  BY DEF Places
<1>5. DOMAIN job' = Jobs /\ (\A k \in Jobs \ {j} : job'[k] = job[k]) /\ job'[j].at = "failed"
  BY <1>1, <1>4, GotoFields
<1> QED
  BY <1>1, <1>2, <1>3, <1>5, QuietStep DEF IInv

\* The results with one more.
LEMMA OneMoreResult ==
  ASSUME NEW j \in Jobs, NEW s, NEW objects, NEW result \in Results,
         s.results \in Seq(Results), ResultsOK(j, s, objects),
         Len(s.results) = s.item - 1, s.item \in DOMAIN items[j],
         ResultOK(Req(j, s), result, objects)
  PROVE  /\ Append(s.results, result) \in Seq(Results)
         /\ Len(Append(s.results, result)) = s.item
         /\ Append(s.results, result)[s.item] = result
         /\ \A i \in 1 .. s.item : ResultOK(items[j][i], Append(s.results, result)[i], objects)
<1>1. s.item \in Nat \ {0}
  BY Batches
<1>2. /\ Append(s.results, result) \in Seq(Results)
      /\ Len(Append(s.results, result)) = s.item
      /\ Append(s.results, result)[s.item] = result
      /\ \A i \in 1 .. Len(s.results) : Append(s.results, result)[i] = s.results[i]
  BY <1>1
<1>3. ASSUME NEW i \in 1 .. s.item
      PROVE  ResultOK(items[j][i], Append(s.results, result)[i], objects)
  <2>1. CASE i = s.item
    BY <1>2, <2>1 DEF Req
  <2>2. CASE i # s.item
    BY <1>1, <1>2, <2>2 DEF ResultsOK
  <2> QED
    BY <2>1, <2>2
<1> QED
  BY <1>2, <1>3

\* The step to "store" with a result that is right.
LEMMA StoreNext ==
  ASSUME IInv, NEW j \in Jobs, NEW result \in Results, ~crashed, crashed' \in BOOLEAN,
         job[j].at \in {"make", "result"}, ResultOK(Item(j), result, remote),
         job' = [job EXCEPT ![j].at = "store", ![j].results = Append(@, result)],
         remote' = remote, stored' = stored, callback' = callback
  PROVE  StepOf(j)
<1> DEFINE s == job[j]
           t == job'[j]
           results == Append(s.results, result)
           new == [s EXCEPT !.at = "store", !.results = results]
<1>1. /\ s \in JobRecord(j) /\ Item(j) = Req(j, s)
      /\ BatchOK(j, s) /\ TreeOK(j, s) /\ MapOK(j, s, remote) /\ ResultsOK(j, s, remote)
  BY Fields
<1>2. s.results \in Seq(Results) /\ s.item \in DOMAIN items[j] /\ Len(s.results) = s.item - 1
  BY <1>1 DEF JobRecord, BatchOK
<1>3. /\ results \in Seq(Results) /\ Len(results) = s.item
      /\ \A i \in 1 .. s.item : ResultOK(items[j][i], results[i], remote)
  BY <1>1, <1>2, OneMoreResult
<1> HIDE DEF results
<1>4. new \in JobRecord(j)
  BY <1>1, <1>3 DEF JobRecord, Places
<1>5. job' = [job EXCEPT ![j] = new]
  BY <1>1 DEF JobRecord, results
<1>6. DOMAIN job' = Jobs /\ (\A k \in Jobs \ {j} : job'[k] = job[k]) /\ t = new
  BY <1>5 DEF IInv
<1>7. /\ t \in JobRecord(j) /\ t.at = "store"
      /\ t.item = s.item /\ t.retry = s.retry /\ t.results = results /\ t.node = s.node
      /\ t.outFile = s.outFile /\ t.resultMap = s.resultMap
      /\ t.uploading = s.uploading
  BY <1>1, <1>4, <1>6 DEF JobRecord
<1>8. s.at \in {"make", "result"} /\ s.at # "done"
  OBVIOUS
<1> HIDE DEF s, t, new
<1>9. BatchOK(j, t)
  BY <1>1, <1>3, <1>7, <1>8 DEF BatchOK
<1>10. Req(j, t) = Req(j, s)
  BY <1>7 DEF Req
<1>11. TreeOK(j, t)
  BY <1>1, <1>7, <1>8, <1>10 DEF TreeOK, Walks
<1>12. NodesOK(j, t)
  BY <1>7 DEF NodesOK, Walks
<1>13. MapOK(j, t, remote)
  BY <1>1, <1>7, <1>10 DEF MapOK
<1>14. ResultsOK(j, t, remote)
  BY <1>3, <1>7 DEF ResultsOK
<1>15. HandlerOK(j, t, remote)
  BY <1>7, <1>9, <1>11, <1>12, <1>13, <1>14 DEF HandlerOK
<1> QED
  BY <1>6, <1>7, <1>8, <1>15, QuietStep DEF s, t

LEMMA NoSuchBucketStep ==
  ASSUME IInv, NEW j \in Jobs, NoSuchBucket(j)
  PROVE  StepOf(j)
<1>1. /\ ~crashed /\ job[j].at = "make" /\ Nodes(j) # <<>>
      /\ remote' = remote /\ stored' = stored /\ callback' = callback
  BY DEF NoSuchBucket, At
<1>2. CASE crashed' = TRUE /\ job' = job
  <2>1. HandlerOK(j, job'[j], remote') /\ DOMAIN job' = Jobs
    BY <1>1, <1>2 DEF IInv, JobOK
  <2> QED
    BY <1>1, <1>2, <2>1, QuietStep
<1>3. CASE /\ job' = [job EXCEPT ![j].at = "store", ![j].results = Append(@, NoResult)]
           /\ crashed' = crashed
  <2>1. ResultOK(Item(j), NoResult, remote) /\ NoResult \in Results
    BY NothingClaimed DEF ResultOK, Present, Whole
  <2> QED
    BY <1>1, <1>3, <2>1, StoreNext DEF IInv
<1> QED
  BY <1>2, <1>3 DEF NoSuchBucket

LEMMA ResultStep ==
  ASSUME IInv, NEW j \in Jobs, Result(j)
  PROVE  StepOf(j)
<1> DEFINE s == job[j]
           req == Req(j, s)
           tree == Tree(req.Type)
<1>1. /\ ~crashed /\ s.at = "result" /\ remote' = remote /\ stored' = stored
      /\ callback' = callback /\ crashed' = crashed
      /\ job' = [job EXCEPT ![j].at = "store", ![j].results = Append(@, getResult(j))]
  BY DEF Result, At
<1>2. Item(j) = req /\ Nodes(j) = tree /\ TreeOK(j, s) /\ NodesOK(j, s) /\ MapOK(j, s, remote)
  BY Fields
<1>3. s.resultMap \subseteq (DOMAIN tree) \X Buckets
  BY <1>2 DEF TreeOK
<1>4. getResult(j) \in Results /\ Claimed(req, getResult(j)) = s.resultMap
  BY <1>2, <1>3, GetResult
<1>5. Present(req, getResult(j), remote)
  BY <1>2, <1>4 DEF Present, MapOK
<1>6. \A n \in DOMAIN tree \ {1} : AllOrNone(j, s, n)
  BY <1>1, <1>2 DEF NodesOK
<1>7. ASSUME NEW p \in s.resultMap, p[1] > 1
      PROVE  \A b \in Known(req) : <<p[1], b>> \in s.resultMap
  <2>1. p \in (DOMAIN tree) \X Buckets
    BY <1>3
  <2>2. p[1] \in DOMAIN tree \ {1} /\ p[2] \in Buckets /\ <<p[1], p[2]>> \in s.resultMap
    BY <1>7, <2>1
  <2> QED
    BY <1>6, <2>2 DEF AllOrNone
<1>8. Whole(req, getResult(j))
  BY <1>4, <1>7 DEF Whole
<1> QED
  BY <1>1, <1>2, <1>4, <1>5, <1>8, StoreNext DEF ResultOK, IInv

LEMMA MakeTreeStep ==
  ASSUME IInv, NEW j \in Jobs, MakeTree(j)
  PROVE  StepOf(j)
<1> DEFINE s == job[j]
           t == job'[j]
           req == Req(j, s)
           source == {<<1, req.FromBucket>>}
           new == [s EXCEPT !.at = "node", !.resultMap = source]
<1>1. /\ s \in JobRecord(j) /\ Item(j) = req /\ Nodes(j) = Tree(req.Type)
      /\ BatchOK(j, s) /\ TreeOK(j, s) /\ ResultsOK(j, s, remote)
  BY Fields
<1>2. /\ ~crashed /\ s.at = "make" /\ remote' = remote /\ stored' = stored
      /\ callback' = callback /\ crashed' = crashed
      /\ Tree(req.Type) # <<>> /\ req.FromBucket \in Buckets
      /\ job' = [job EXCEPT ![j].at = "node", ![j].resultMap = source]
  BY <1>1 DEF MakeTree, At
<1>3. 1 \in DOMAIN Tree(req.Type)
  BY <1>2, FirstNode
<1>4. source \in SUBSET (Nat \X Buckets)
  BY <1>2
<1>5. \A p \in source : p = Source(req)
  BY DEF Source
<1>6. source \subseteq (DOMAIN Tree(req.Type)) \X Buckets
  BY <1>2, <1>3
<1>7. \A n, b : <<n, b>> \in source => n = 1
  OBVIOUS
<1>8. job' = [job EXCEPT ![j] = new]
  BY <1>2
<1> HIDE DEF source
<1>9. new \in JobRecord(j)
  BY <1>1, <1>4 DEF JobRecord, Places
<1>10. DOMAIN job' = Jobs /\ (\A k \in Jobs \ {j} : job'[k] = job[k]) /\ t = new
  BY <1>8 DEF IInv
<1>11. /\ t \in JobRecord(j) /\ t.at = "node"
       /\ t.item = s.item /\ t.retry = s.retry /\ t.results = s.results /\ t.node = s.node
       /\ t.outFile = s.outFile /\ t.resultMap = source
       /\ t.uploading = s.uploading
  BY <1>1, <1>9, <1>10 DEF JobRecord
<1>12. Req(j, t) = req
  BY <1>11 DEF Req
<1> HIDE DEF s, t, new, req
<1>13. BatchOK(j, t)
  BY <1>1, <1>2, <1>11 DEF BatchOK
<1>14. t.node = 1 /\ t.outFile = {} /\ t.uploading = {}
  BY <1>1, <1>2, <1>11 DEF TreeOK
<1>15. TreeOK(j, t)
  BY <1>2, <1>3, <1>6, <1>11, <1>12, <1>14 DEF TreeOK, Walks
<1>16. Len(Tree(req.Type)) \in Nat /\ DOMAIN Tree(req.Type) = 1 .. Len(Tree(req.Type))
  BY <1>2, FirstNode
<1>17. NodesOK(j, t)
  BY <1>7, <1>11, <1>12, <1>14, <1>16 DEF NodesOK, AllOrNone
<1>18. MapOK(j, t, remote)
  BY <1>5, <1>11, <1>12 DEF MapOK
<1>19. ResultsOK(j, t, remote)
  BY <1>1, <1>11 DEF ResultsOK
<1>20. HandlerOK(j, t, remote)
  BY <1>11, <1>13, <1>15, <1>17, <1>18, <1>19 DEF HandlerOK
<1> QED
  BY <1>2, <1>10, <1>11, <1>20, QuietStep DEF s, t, IInv

-----------------------------------------------------------------------------
(* The steps of doJob. *)

\* The known buckets all have the file of a node whose uploads went well, and
\* none has that of a node that was not made.
LEMMA NodeIsAllOrNone ==
  ASSUME IInv, NEW j \in Jobs, job[j].node # 1,
         \/ job[j].at = "node"
         \/ job[j].at = "wait" /\ job[j].uploading = {} /\ job[j].errChan = {}
  PROVE  AllOrNone(j, job[j], job[j].node)
<1> DEFINE s == job[j]
<1>1. s \in JobRecord(j) /\ TreeOK(j, s) /\ NodesOK(j, s)
  BY Fields
<1>2. CASE s.at = "node"
  <2>1. s.node \in DOMAIN Tree(Req(j, s).Type) \ {1}
    BY <1>1, <1>2 DEF TreeOK, Walks
  <2>2. \A b \in Buckets : <<s.node, b>> \notin s.resultMap
    BY <1>1, <1>2, <2>1 DEF NodesOK, Walks
  <2> QED
    BY <2>2 DEF AllOrNone
<1>3. CASE s.at = "wait" /\ s.uploading = {} /\ s.errChan = {}
  BY <1>1, <1>3 DEF NodesOK, Walks, AllOrNone
<1> QED
  BY <1>2, <1>3

LEMMA NodeDoneStep ==
  ASSUME IInv, NEW j \in Jobs, NodeDone(j), ~crashed,
         \/ job[j].at = "node"
         \/ job[j].at = "wait" /\ job[j].uploading = {} /\ job[j].errChan = {},
         UNCHANGED <<remote, stored, callback, crashed>>
  PROVE  StepOf(j)
<1> DEFINE s == job[j]
           t == job'[j]
           req == Req(j, s)
           last == s.node = Len(Tree(req.Type))
           new == IF last THEN [s EXCEPT !.at = "result"]
                  ELSE [s EXCEPT !.at = "node", !.node = s.node + 1]
<1>1. /\ s \in JobRecord(j) /\ Item(j) = req /\ Nodes(j) = Tree(req.Type)
      /\ BatchOK(j, s) /\ TreeOK(j, s) /\ NodesOK(j, s)
      /\ MapOK(j, s, remote) /\ ResultsOK(j, s, remote)
  BY Fields
<1>2. job' = [job EXCEPT ![j] = new]
  BY <1>1 DEF NodeDone
<1>3. s.node \in Nat
  BY <1>1 DEF JobRecord
<1>4. new \in JobRecord(j)
  <2>1. [s EXCEPT !.at = "result"] \in JobRecord(j)
    BY <1>1 DEF JobRecord, Places
  <2>2. [s EXCEPT !.at = "node", !.node = s.node + 1] \in JobRecord(j)
    <3>1. PICK next \in Nat : next = s.node + 1
      BY <1>3
    <3>2. [s EXCEPT !.at = "node", !.node = next] \in JobRecord(j)
      BY <1>1 DEF JobRecord, Places
    <3> QED
      BY <3>1, <3>2
  <2> QED
    BY <2>1, <2>2
<1>5. DOMAIN job' = Jobs /\ (\A k \in Jobs \ {j} : job'[k] = job[k]) /\ t = new
  BY <1>2 DEF IInv
<1>6. /\ t \in JobRecord(j)
      /\ t.at = IF last THEN "result" ELSE "node"
      /\ t.node = IF last THEN s.node ELSE s.node + 1
      /\ t.item = s.item /\ t.retry = s.retry /\ t.results = s.results
      /\ t.outFile = s.outFile /\ t.resultMap = s.resultMap
      /\ t.uploading = s.uploading
  BY <1>1, <1>4, <1>5 DEF JobRecord
<1>7. s.at \in {"node", "wait"} /\ s.uploading = {}
  BY <1>1 DEF TreeOK
<1>8. s.node # 1 => AllOrNone(j, s, s.node)
  BY NodeIsAllOrNone
<1>9. s.node \in DOMAIN Tree(req.Type) /\ req.FromBucket \in Buckets
  BY <1>1, <1>7 DEF TreeOK, Walks
<1>10. /\ Len(Tree(req.Type)) \in Nat
       /\ DOMAIN Tree(req.Type) = 1 .. Len(Tree(req.Type))
  BY Trees
<1>11. Req(j, t) = req
  BY <1>6 DEF Req
<1>12. \A n : AllOrNone(j, t, n) <=> AllOrNone(j, s, n)
  BY <1>6, <1>11 DEF AllOrNone
<1>13. ASSUME NEW n \in DOMAIN Tree(req.Type) \ {1}
       PROVE  /\ n <= s.node => AllOrNone(j, s, n)
              /\ n > s.node => \A b \in Buckets : <<n, b>> \notin s.resultMap
  <2>1. /\ n < s.node => AllOrNone(j, s, n)
        /\ n > s.node => \A b \in Buckets : <<n, b>> \notin s.resultMap
    BY <1>1, <1>7 DEF NodesOK, Walks
  <2> QED
    BY <1>3, <1>8, <1>10, <2>1
<1> HIDE DEF s, t, new, req
<1>14. BatchOK(j, t)
  BY <1>1, <1>6, <1>7 DEF BatchOK
<1>15. TreeOK(j, t)
  <2>1. ~last => s.node + 1 \in DOMAIN Tree(req.Type)
    BY <1>3, <1>9, <1>10
  <2>2. t.at \in Walks => t.node \in DOMAIN Tree(req.Type)
    BY <1>6, <1>9, <2>1
  <2> QED
    BY <1>1, <1>6, <1>7, <1>9, <1>11, <2>2 DEF TreeOK, Walks, req
<1>16. NodesOK(j, t)
  <2>1. ASSUME NEW n \in DOMAIN Tree(req.Type) \ {1}
        PROVE  /\ t.at = "result" \/ n < t.node => AllOrNone(j, t, n)
               /\ n > t.node \/ (n = t.node /\ t.at = "node") =>
                    \A b \in Buckets : <<n, b>> \notin t.resultMap
    <3>1. n \in 1 .. Len(Tree(req.Type))
      BY <1>10
    <3>2. CASE last
      BY <1>3, <1>6, <1>10, <1>12, <1>13, <3>1, <3>2
    <3>3. CASE ~last
      BY <1>3, <1>6, <1>10, <1>12, <1>13, <3>1, <3>3
    <3> QED
      BY <3>2, <3>3
  <2>2. t.at \notin {"range", "wait"}
    BY <1>6
  <2> QED
    BY <1>11, <2>1, <2>2 DEF NodesOK
<1>17. MapOK(j, t, remote)
  BY <1>1, <1>6, <1>11 DEF MapOK, req
<1>18. ResultsOK(j, t, remote)
  BY <1>1, <1>6 DEF ResultsOK
<1>19. HandlerOK(j, t, remote)
  BY <1>6, <1>14, <1>15, <1>16, <1>17, <1>18 DEF HandlerOK
<1> QED
  BY <1>5, <1>6, <1>7, <1>19, QuietStep DEF s, t, IInv

LEMMA CreateFileStep ==
  ASSUME IInv, NEW j \in Jobs, CreateFile(j)
  PROVE  StepOf(j)
<1> DEFINE s == job[j]
           t == job'[j]
           req == Req(j, s)
<1>1. /\ s \in JobRecord(j) /\ Item(j) = req /\ Nodes(j) = Tree(req.Type)
      /\ BatchOK(j, s) /\ TreeOK(j, s) /\ NodesOK(j, s)
      /\ MapOK(j, s, remote) /\ ResultsOK(j, s, remote)
  BY Fields
<1>2. /\ ~crashed /\ s.at = "node" /\ remote' = remote /\ stored' = stored
      /\ callback' = callback /\ crashed' = crashed
  BY DEF CreateFile, At
<1>3. PICK files \in SUBSET {s.node} :
        job' = [job EXCEPT ![j].at = "range", ![j].outFile = @ \cup files, ![j].errChan = {},
                           ![j].range = {req.FromBucket, req.ToBucket}]
  BY <1>1 DEF CreateFile
<1> DEFINE out == s.outFile \cup files
           both == {req.FromBucket, req.ToBucket}
           new == [s EXCEPT !.at = "range", !.outFile = out, !.errChan = {}, !.range = both]
<1>4. job' = [job EXCEPT ![j] = new]
  BY <1>3
<1>5. s.node \in DOMAIN Tree(req.Type) /\ req.FromBucket \in Buckets
  BY <1>1, <1>2 DEF TreeOK, Walks
<1>6. /\ out \in SUBSET Nat /\ out \subseteq DOMAIN Tree(req.Type)
      /\ both \in SUBSET UNION {{r.FromBucket, r.ToBucket} : r \in Requests(j)}
  <2>1. s.outFile \in SUBSET Nat /\ s.node \in Nat /\ s.item \in DOMAIN items[j]
    BY <1>1 DEF JobRecord
  <2>2. s.outFile \subseteq DOMAIN Tree(req.Type)
    BY <1>1 DEF TreeOK
  <2>3. req \in Requests(j)
    BY <2>1 DEF Req, Requests
  <2> QED
    BY <1>5, <2>1, <2>2, <2>3
<1> HIDE DEF out, both
<1>7. new \in JobRecord(j)
  BY <1>1, <1>6 DEF JobRecord, Places
<1>8. DOMAIN job' = Jobs /\ (\A k \in Jobs \ {j} : job'[k] = job[k]) /\ t = new
  BY <1>4 DEF IInv
<1>9. /\ t \in JobRecord(j) /\ t.at = "range" /\ t.outFile = out /\ t.range = both
      /\ t.item = s.item /\ t.retry = s.retry /\ t.results = s.results /\ t.node = s.node
      /\ t.resultMap = s.resultMap /\ t.uploading = s.uploading
  BY <1>1, <1>7, <1>8 DEF JobRecord
<1>10. Req(j, t) = req
  BY <1>9 DEF Req
<1>11. \A n : AllOrNone(j, t, n) <=> AllOrNone(j, s, n)
  BY <1>9, <1>10 DEF AllOrNone
<1>12. s.uploading = {}
  BY <1>1, <1>2 DEF TreeOK
<1> HIDE DEF s, t, new, req
<1>13. BatchOK(j, t)
  BY <1>1, <1>2, <1>9 DEF BatchOK
<1>14. TreeOK(j, t)
  BY <1>1, <1>5, <1>6, <1>9, <1>10, <1>12 DEF TreeOK, Walks, req
<1>15. NodesOK(j, t)
  <2>1. \A n \in DOMAIN Tree(req.Type) \ {1} :
          /\ n < t.node => AllOrNone(j, t, n)
          /\ n > t.node => \A b \in Buckets : <<n, b>> \notin t.resultMap
    BY <1>1, <1>2, <1>9, <1>11 DEF NodesOK, Walks, req
  <2>2. \A b \in Known(req) : b \in t.range
    BY <1>9 DEF Known, both
  <2>3. s.node \in Nat
    BY <1>1 DEF JobRecord
  <2> QED
    BY <1>9, <1>10, <2>1, <2>2 DEF NodesOK
<1>16. MapOK(j, t, remote)
  BY <1>1, <1>9, <1>10 DEF MapOK, req
<1>17. ResultsOK(j, t, remote)
  BY <1>1, <1>9 DEF ResultsOK
<1>18. HandlerOK(j, t, remote)
  BY <1>9, <1>13, <1>14, <1>15, <1>16, <1>17 DEF HandlerOK
<1> QED
  BY <1>2, <1>8, <1>9, <1>18, QuietStep DEF s, t, IInv

LEMMA SkipNodeStep ==
  ASSUME IInv, NEW j \in Jobs, SkipNode(j) \/ CreateFileFails(j)
  PROVE  StepOf(j)
BY NodeDoneStep DEF SkipNode, CreateFileFails, At

LEMMA RangeVisitsStep ==
  ASSUME IInv, NEW j \in Jobs, RangeVisits(j)
  PROVE  StepOf(j)
<1> DEFINE s == job[j]
           t == job'[j]
           req == Req(j, s)
<1>1. /\ s \in JobRecord(j) /\ Item(j) = req /\ Nodes(j) = Tree(req.Type)
      /\ BatchOK(j, s) /\ TreeOK(j, s) /\ NodesOK(j, s)
      /\ MapOK(j, s, remote) /\ ResultsOK(j, s, remote)
  BY Fields
<1>2. /\ ~crashed /\ s.at = "range" /\ remote' = remote /\ stored' = stored
      /\ callback' = callback /\ crashed' = crashed
  BY DEF RangeVisits, At
<1>3. PICK b \in s.range :
        job' = [job EXCEPT ![j].range = @ \ {b},
                  ![j].uploading = IF <<s.node, b>> \in s.resultMap \/ b \notin Buckets
                                   THEN @ ELSE @ \cup {b}]
  BY DEF RangeVisits
<1> DEFINE rest == s.range \ {b}
           running == IF <<s.node, b>> \in s.resultMap \/ b \notin Buckets
                      THEN s.uploading ELSE s.uploading \cup {b}
           new == [s EXCEPT !.range = rest, !.uploading = running]
<1>4. job' = [job EXCEPT ![j] = new]
  BY <1>3
<1>5. running \subseteq Buckets
  BY <1>1 DEF JobRecord
<1>6. \A c \in Buckets : c \in s.range => c \in rest \cup running \/ <<s.node, c>> \in s.resultMap
  OBVIOUS
<1>7. s.uploading \subseteq running
  OBVIOUS
<1> HIDE DEF running
<1>8. new \in JobRecord(j)
  BY <1>1, <1>5 DEF JobRecord
<1>9. DOMAIN job' = Jobs /\ (\A k \in Jobs \ {j} : job'[k] = job[k]) /\ t = new
  BY <1>4 DEF IInv
<1>10. /\ t \in JobRecord(j) /\ t.at = "range" /\ t.range = rest /\ t.uploading = running
       /\ t.item = s.item /\ t.retry = s.retry /\ t.results = s.results /\ t.node = s.node
       /\ t.outFile = s.outFile /\ t.resultMap = s.resultMap /\ t.errChan = s.errChan
  BY <1>1, <1>2, <1>8, <1>9 DEF JobRecord
<1>11. Req(j, t) = req
  BY <1>10 DEF Req
<1>12. \A n : AllOrNone(j, t, n) <=> AllOrNone(j, s, n)
  BY <1>10, <1>11 DEF AllOrNone
<1> HIDE DEF s, t, new, req, rest
<1>13. BatchOK(j, t)
  BY <1>1, <1>2, <1>10 DEF BatchOK
<1>14. TreeOK(j, t)
  BY <1>1, <1>2, <1>10, <1>11 DEF TreeOK, Walks, req
<1>15. NodesOK(j, t)
  <2>1. \A n \in DOMAIN Tree(req.Type) \ {1} :
          /\ n < t.node => AllOrNone(j, t, n)
          /\ n > t.node => \A c \in Buckets : <<n, c>> \notin t.resultMap
    BY <1>1, <1>2, <1>10, <1>12 DEF NodesOK, Walks, req
  <2>2. \A c \in Known(req) :
          c \in t.range \cup t.uploading \cup t.errChan \/ <<t.node, c>> \in t.resultMap
    <3>1. \A c \in Known(req) :
            c \in s.range \cup s.uploading \cup s.errChan \/ <<s.node, c>> \in s.resultMap
      BY <1>1, <1>2 DEF NodesOK, Walks, req
    <3>2. Known(req) \subseteq Buckets
      BY DEF Known
    <3> QED
      BY <1>6, <1>7, <1>10, <3>1, <3>2
  <2> QED
    BY <1>10, <1>11, <2>1, <2>2 DEF NodesOK
<1>16. MapOK(j, t, remote)
  BY <1>1, <1>10, <1>11 DEF MapOK, req
<1>17. ResultsOK(j, t, remote)
  BY <1>1, <1>10 DEF ResultsOK
<1>18. HandlerOK(j, t, remote)
  BY <1>10, <1>13, <1>14, <1>15, <1>16, <1>17 DEF HandlerOK
<1> QED
  BY <1>2, <1>9, <1>10, <1>18, QuietStep DEF s, t, IInv

LEMMA RangeEndsStep ==
  ASSUME IInv, NEW j \in Jobs, RangeEnds(j)
  PROVE  StepOf(j)
<1> DEFINE s == job[j]
           t == job'[j]
           req == Req(j, s)
<1>1. /\ s \in JobRecord(j) /\ BatchOK(j, s) /\ TreeOK(j, s) /\ NodesOK(j, s)
      /\ MapOK(j, s, remote) /\ ResultsOK(j, s, remote)
  BY Fields
<1>2. /\ ~crashed /\ s.at = "range" /\ s.range = {} /\ Goto(j, "wait")
      /\ remote' = remote /\ stored' = stored /\ callback' = callback /\ crashed' = crashed
  BY DEF RangeEnds, At
<1>3. "wait" \in Places
  BY DEF Places
<1>4. /\ DOMAIN job' = Jobs /\ \A k \in Jobs \ {j} : job'[k] = job[k]
      /\ t \in JobRecord(j) /\ t.at = "wait"
      /\ t.item = s.item /\ t.retry = s.retry /\ t.results = s.results /\ t.node = s.node
      /\ t.outFile = s.outFile /\ t.resultMap = s.resultMap
      /\ t.range = s.range /\ t.uploading = s.uploading /\ t.errChan = s.errChan
  BY <1>2, <1>3, GotoFields
<1>5. Req(j, t) = req
  BY <1>4 DEF Req
<1>6. \A n : AllOrNone(j, t, n) <=> AllOrNone(j, s, n)
  BY <1>4, <1>5 DEF AllOrNone
<1> HIDE DEF s, t, req
<1>7. BatchOK(j, t)
  BY <1>1, <1>2, <1>4 DEF BatchOK
<1>8. TreeOK(j, t)
  BY <1>1, <1>2, <1>4, <1>5 DEF TreeOK, Walks, req
<1>9. NodesOK(j, t)
  <2>1. \A n \in DOMAIN Tree(req.Type) \ {1} :
          /\ n < t.node => AllOrNone(j, t, n)
          /\ n > t.node => \A c \in Buckets : <<n, c>> \notin t.resultMap
    BY <1>1, <1>2, <1>4, <1>6 DEF NodesOK, Walks, req
  <2>2. \A c \in Known(req) :
          c \in t.range \cup t.uploading \cup t.errChan \/ <<t.node, c>> \in t.resultMap
    BY <1>1, <1>2, <1>4 DEF NodesOK, Walks, req
  <2> QED
    BY <1>2, <1>4, <1>5, <2>1, <2>2 DEF NodesOK
<1>10. MapOK(j, t, remote)
  BY <1>1, <1>4, <1>5 DEF MapOK, req
<1>11. ResultsOK(j, t, remote)
  BY <1>1, <1>4 DEF ResultsOK
<1>12. HandlerOK(j, t, remote)
  BY <1>4, <1>7, <1>8, <1>9, <1>10, <1>11 DEF HandlerOK
<1> QED
  BY <1>2, <1>4, <1>12, QuietStep DEF s, t, IInv

\* A handler that begins with an item has done nothing of it.
LEMMA HandlerFields ==
  ASSUME NEW at, NEW item, NEW retry, NEW results, NEW s, s = Handler(at, item, retry, results)
  PROVE  /\ s.at = at /\ s.item = item /\ s.retry = retry /\ s.results = results
         /\ s.node = 1 /\ s.outFile = {} /\ s.resultMap = {} /\ s.range = {}
         /\ s.uploading = {} /\ s.errChan = {}
         /\ s = [at |-> at, item |-> item, retry |-> retry, results |-> results, node |-> 1,
                 outFile |-> {}, resultMap |-> {}, range |-> {}, uploading |-> {}, errChan |-> {}]
BY DEF Handler

LEMMA NewHandler ==
  ASSUME NEW j \in Jobs, NEW objects, NEW at \in {"waiting", "make"}, NEW item \in DOMAIN items[j],
         NEW retry \in 0 .. MaxRetry, NEW results \in Seq(Results),
         at = "waiting" => item = 1, at = "make" => retry < MaxRetry,
         Len(results) = item - 1,
         \A i \in 1 .. Len(results) : ResultOK(items[j][i], results[i], objects)
  PROVE  HandlerOK(j, Handler(at, item, retry, results), objects)
<1>1. PICK s : s = Handler(at, item, retry, results)
  OBVIOUS
<1>2. /\ s.at = at /\ s.item = item /\ s.retry = retry /\ s.results = results
      /\ s.node = 1 /\ s.outFile = {} /\ s.resultMap = {} /\ s.range = {}
      /\ s.uploading = {} /\ s.errChan = {}
      /\ s = [at |-> at, item |-> item, retry |-> retry, results |-> results, node |-> 1,
              outFile |-> {}, resultMap |-> {}, range |-> {}, uploading |-> {}, errChan |-> {}]
  BY <1>1, HandlerFields
<1>3. s \in JobRecord(j)
  <2>1. at \in Places
    BY DEF Places
  <2> QED
    BY <1>2, <2>1 DEF JobRecord
<1>4. BatchOK(j, s) /\ TreeOK(j, s) /\ NodesOK(j, s)
  BY <1>2 DEF BatchOK, TreeOK, NodesOK, Walks
<1>5. MapOK(j, s, objects) /\ ResultsOK(j, s, objects)
  BY <1>2 DEF MapOK, ResultsOK
<1> QED
  BY <1>1, <1>3, <1>4, <1>5 DEF HandlerOK

LEMMA FirstHandler ==
  ASSUME NEW j \in Jobs, NEW objects, NEW retry \in 0 .. MaxRetry
  PROVE  HandlerOK(j, Handler("waiting", 1, retry, <<>>), objects)
<1>1. <<>> \in Seq(Results) /\ Len(<<>>) = 0
  OBVIOUS
<1>2. PICK none \in Seq(Results) : none = <<>>
  BY <1>1
<1>3. Len(none) = 1 - 1 /\ \A i \in 1 .. Len(none) : ResultOK(items[j][i], none[i], objects)
  BY <1>1, <1>2
<1>4. 1 \in DOMAIN items[j]
  BY Batches
<1>5. HandlerOK(j, Handler("waiting", 1, retry, none), objects)
  BY <1>3, <1>4, NewHandler
<1> QED
  BY <1>2, <1>5

LEMMA WaitStep ==
  ASSUME IInv, NEW j \in Jobs, Wait(j)
  PROVE  StepOf(j)
<1> DEFINE s == job[j]
           new == Handler("waiting", 1, s.retry + 1, <<>>)
<1>1. /\ ~crashed /\ s.at = "wait" /\ s.uploading = {} /\ remote' = remote /\ stored' = stored
      /\ callback' = callback /\ crashed' = crashed
  BY DEF Wait, At
<1>2. CASE s.errChan = {}
  BY <1>1, <1>2, NodeDoneStep DEF Wait
<1>3. CASE s.errChan # {}
  <2>1. job' = [job EXCEPT ![j] = new]
    BY <1>3 DEF Wait
  <2>2. DOMAIN job' = Jobs /\ (\A k \in Jobs \ {j} : job'[k] = job[k]) /\ job'[j] = new
    BY <2>1 DEF IInv
  <2>3. s.retry + 1 \in 0 .. MaxRetry
    <3>1. s.retry \in 0 .. MaxRetry /\ s.retry < MaxRetry
      BY <1>1, Fields DEF JobRecord, BatchOK
    <3> QED
      BY <3>1, ResourceAssumption DEF ResourceAssumption
  <2>4. HandlerOK(j, new, remote)
    BY <2>3, FirstHandler
  <2>5. new.at = "waiting"
    BY HandlerFields
  <2> QED
    BY <1>1, <2>2, <2>4, <2>5, QuietStep DEF IInv
<1> QED
  BY <1>2, <1>3

-----------------------------------------------------------------------------
(* The goroutines that upload. *)

\* A running upload: its handler is in the loop or waits, at a node of the tree.
LEMMA Uploading ==
  ASSUME IInv, NEW j \in Jobs, NEW b \in Buckets, b \in job[j].uploading
  PROVE  /\ job[j].at \in {"range", "wait"}
         /\ job[j].node \in DOMAIN Tree(Req(j, job[j]).Type) /\ job[j].node \in Nat
BY Fields DEF TreeOK, Walks, JobRecord

\* What an upload that ended leaves: its bucket is in resultMap, or in errChan, and
\* the object is there in the first case.
LEMMA UploadEnds ==
  ASSUME IInv, NEW j \in Jobs, NEW b \in Buckets, b \in job[j].uploading, ~crashed,
         NEW map, NEW errors,
         \/ errors = {} /\ map = {<<job[j].node, b>>} /\ Object(j, b) \in remote'
         \/ errors = {b} /\ map = {},
         job' = [job EXCEPT ![j].uploading = @ \ {b}, ![j].resultMap = @ \cup map,
                            ![j].errChan = @ \cup errors],
         remote \subseteq remote', UNCHANGED <<stored, callback, crashed>>
  PROVE  StepOf(j)
<1> DEFINE s == job[j]
           t == job'[j]
           req == Req(j, s)
           running == s.uploading \ {b}
           maps == s.resultMap \cup map
           errs == s.errChan \cup errors
           new == [s EXCEPT !.uploading = running, !.resultMap = maps, !.errChan = errs]
<1>1. /\ s \in JobRecord(j) /\ Item(j) = req /\ Nodes(j) = Tree(req.Type)
      /\ BatchOK(j, s) /\ TreeOK(j, s) /\ NodesOK(j, s)
  BY Fields
<1>2. MapOK(j, s, remote') /\ ResultsOK(j, s, remote')
  BY Fields, MoreObjects
<1>3. s.at \in {"range", "wait"} /\ s.node \in DOMAIN Tree(req.Type) /\ s.node \in Nat
  BY Uploading
<1>4. \A n, c : <<n, c>> \in map => n = s.node
  OBVIOUS
<1>5. job' = [job EXCEPT ![j] = new]
  OBVIOUS
<1>6. /\ running \subseteq Buckets /\ errs \subseteq Buckets
      /\ maps \subseteq Nat \X Buckets
  <2>1. s.uploading \subseteq Buckets /\ s.errChan \subseteq Buckets /\ s.resultMap \subseteq Nat \X Buckets
    BY <1>1 DEF JobRecord
  <2> QED
    BY <1>3, <2>1
<1>7. maps \subseteq (DOMAIN Tree(req.Type)) \X Buckets
  <2>1. s.resultMap \subseteq (DOMAIN Tree(req.Type)) \X Buckets
    BY <1>1 DEF TreeOK
  <2> QED
    BY <1>3, <2>1
<1>8. \A p \in maps : p \in s.resultMap
        \/ (p = <<s.node, b>> /\ <<req.Key, Tree(req.Type)[s.node].suffix, b>> \in remote')
  BY <1>1 DEF Object
<1>9. \A c \in s.uploading : c \in running \cup errs \/ <<s.node, c>> \in maps
  OBVIOUS
<1>10. s.errChan \subseteq errs /\ s.resultMap \subseteq maps
  OBVIOUS
<1>11. \A n, c : <<n, c>> \in maps /\ n # s.node => <<n, c>> \in s.resultMap
  BY <1>4
<1> HIDE DEF running, maps, errs
<1>12. new \in JobRecord(j)
  BY <1>1, <1>6 DEF JobRecord
<1>13. DOMAIN job' = Jobs /\ (\A k \in Jobs \ {j} : job'[k] = job[k]) /\ t = new
  BY <1>5 DEF IInv
<1>14. /\ t \in JobRecord(j) /\ t.at = s.at /\ t.range = s.range /\ t.uploading = running
       /\ t.item = s.item /\ t.retry = s.retry /\ t.results = s.results /\ t.node = s.node
       /\ t.outFile = s.outFile /\ t.resultMap = maps /\ t.errChan = errs
  BY <1>1, <1>12, <1>13 DEF JobRecord
<1>15. Req(j, t) = req
  BY <1>14 DEF Req
<1>16. \A n : n # s.node /\ AllOrNone(j, s, n) => AllOrNone(j, t, n)
  BY <1>10, <1>11, <1>14, <1>15 DEF AllOrNone
<1> HIDE DEF s, t, new, req
<1>17. BatchOK(j, t)
  BY <1>1, <1>14 DEF BatchOK
<1>18. TreeOK(j, t)
  BY <1>1, <1>3, <1>7, <1>14, <1>15 DEF TreeOK, Walks, req
<1>19. NodesOK(j, t)
  <2>1. ASSUME NEW n \in DOMAIN Tree(req.Type) \ {1}
        PROVE  /\ n < t.node => AllOrNone(j, t, n)
               /\ n > t.node => \A c \in Buckets : <<n, c>> \notin t.resultMap
    <3>1. /\ n < s.node => AllOrNone(j, s, n)
          /\ n > s.node => \A c \in Buckets : <<n, c>> \notin s.resultMap
      BY <1>1, <1>3 DEF NodesOK, Walks, req
    <3>2. n \in Nat
      BY Trees
    <3> QED
      BY <1>3, <1>11, <1>14, <1>16, <3>1, <3>2
  <2>2. \A c \in Known(req) :
          c \in t.range \cup t.uploading \cup t.errChan \/ <<t.node, c>> \in t.resultMap
    <3>1. \A c \in Known(req) :
            c \in s.range \cup s.uploading \cup s.errChan \/ <<s.node, c>> \in s.resultMap
      BY <1>1, <1>3 DEF NodesOK, Walks, req
    <3> QED
      BY <1>9, <1>10, <1>14, <3>1
  <2>3. s.at = "wait" => s.range = {}
    BY <1>1 DEF NodesOK, Walks
  <2> QED
    BY <1>3, <1>14, <1>15, <2>1, <2>2, <2>3 DEF NodesOK
<1>20. MapOK(j, t, remote')
  <2>1. \A p \in s.resultMap \ {Source(req)} :
          <<req.Key, Tree(req.Type)[p[1]].suffix, p[2]>> \in remote'
    BY <1>2 DEF MapOK, req
  <2>2. ASSUME NEW p \in maps \ {Source(req)}
        PROVE  <<req.Key, Tree(req.Type)[p[1]].suffix, p[2]>> \in remote'
    BY <1>8, <2>1
  <2> QED
    BY <1>14, <1>15, <2>2 DEF MapOK
<1>21. ResultsOK(j, t, remote')
  BY <1>2, <1>14 DEF ResultsOK
<1>22. HandlerOK(j, t, remote')
  BY <1>14, <1>17, <1>18, <1>19, <1>20, <1>21 DEF HandlerOK
<1> QED
  BY <1>3, <1>13, <1>14, <1>22, QuietStep DEF s, t, IInv

LEMMA UploadedStep ==
  ASSUME IInv, NEW j \in Jobs, NEW b \in Buckets, Uploaded(j, b)
  PROVE  StepOf(j)
<1>1. /\ ~crashed /\ b \in job[j].uploading /\ remote' = remote \cup {Object(j, b)}
      /\ stored' = stored /\ callback' = callback
  BY DEF Uploaded
<1>2. CASE /\ job' = [job EXCEPT ![j].uploading = @ \ {b},
                                 ![j].resultMap = @ \cup {<<job[j].node, b>>}]
           /\ crashed' = crashed
  <2> DEFINE s == job[j]
             running == s.uploading \ {b}
             maps == s.resultMap \cup {<<s.node, b>>}
  <2>1. s.errChan \cup {} = s.errChan
    OBVIOUS
  <2>2. s \in JobRecord(j)
    BY Fields
  <2>3. [s EXCEPT !.uploading = running, !.resultMap = maps]
          = [s EXCEPT !.uploading = running, !.resultMap = maps, !.errChan = s.errChan]
    BY <2>2 DEF JobRecord
  <2>4. job' = [job EXCEPT ![j].uploading = @ \ {b}, ![j].resultMap = @ \cup {<<job[j].node, b>>},
                           ![j].errChan = @ \cup {}]
    BY <1>2, <2>1, <2>3
  <2> QED
    BY <1>1, <1>2, <2>4, UploadEnds
<1>3. CASE crashed' = TRUE /\ job' = job
  <2>1. HandlerOK(j, job[j], remote')
    BY <1>1, MoreObjects DEF IInv, JobOK
  <2>2. job[j].at # "done"
    BY <1>1, Uploading
  <2> QED
    BY <1>1, <1>3, <2>1, <2>2, QuietStep DEF IInv
<1> QED
  BY <1>2, <1>3 DEF Uploaded

LEMMA UploadFailsStep ==
  ASSUME IInv, NEW j \in Jobs, NEW b \in Buckets, UploadFails(j, b)
  PROVE  StepOf(j)
<1> DEFINE s == job[j]
           running == s.uploading \ {b}
           errs == s.errChan \cup {b}
<1>1. /\ ~crashed /\ b \in s.uploading /\ remote \subseteq remote'
      /\ stored' = stored /\ callback' = callback /\ crashed' = crashed
      /\ job' = [job EXCEPT ![j].uploading = @ \ {b}, ![j].errChan = @ \cup {b}]
  BY DEF UploadFails
<1>2. s.resultMap \cup {} = s.resultMap
  OBVIOUS
<1>3. s \in JobRecord(j)
  BY Fields
<1>4. [s EXCEPT !.uploading = running, !.errChan = errs]
        = [s EXCEPT !.uploading = running, !.resultMap = s.resultMap, !.errChan = errs]
  BY <1>3 DEF JobRecord
<1>5. job' = [job EXCEPT ![j].uploading = @ \ {b}, ![j].resultMap = @ \cup {},
                         ![j].errChan = @ \cup {b}]
  BY <1>1, <1>2, <1>4
<1> QED
  BY <1>1, <1>5, UploadEnds

-----------------------------------------------------------------------------
(* The end of an item, and of the job. *)

\* A step that posts nothing, and stores what is true.
LEMMA StoringStep ==
  ASSUME IInv, NEW j \in Jobs,
         DOMAIN job' = Jobs, \A k \in Jobs \ {j} : job'[k] = job[k],
         HandlerOK(j, job'[j], remote), job[j].at # "done", job'[j].at # "done",
         UNCHANGED <<remote, callback, crashed>>,
         \A k \in DOMAIN stored' : RowOK(k, stored'[k], remote)
  PROVE  StepOf(j)
<1>1. CallbackOK(j, job'[j], callback[j], remote)
  BY Fields DEF CallbackOK
<1> QED
  BY <1>1 DEF StepOf, IInv

LEMMA RowsStored ==
  ASSUME IInv, NEW j \in Jobs, Store(j)
  PROVE  \A k \in DOMAIN stored' : RowOK(k, stored'[k], remote)
<1> DEFINE s == job[j]
<1>1. /\ s.at = "store" /\ s.item \in DOMAIN items[j] /\ s.results \in Seq(Results)
      /\ Len(s.results) = s.item
      /\ \A i \in 1 .. Len(s.results) : Present(items[j][i], s.results[i], remote)
  BY Fields DEF Store, At, JobRecord, BatchOK, ResultsOK, ResultOK
<1>2. Last(s.results) = s.results[s.item]
  BY <1>1 DEF Last
<1>3. s.item \in 1 .. Len(s.results)
  BY <1>1, Batches
<1> DEFINE row == [of |-> <<j, s.item>>, result |-> Last(s.results)]
<1>4. RowOK(Item(j).Key, row, remote)
  BY <1>1, <1>2, <1>3 DEF RowOK, Item
<1>5. CASE stored' = stored
  BY <1>5 DEF IInv
<1>6. CASE stored' = [k \in DOMAIN stored \cup {Item(j).Key} |->
                       IF k = Item(j).Key THEN row ELSE stored[k]]
  BY <1>4, <1>6 DEF IInv
<1> QED
  BY <1>5, <1>6 DEF Store

LEMMA StoreStep ==
  ASSUME IInv, NEW j \in Jobs, Store(j)
  PROVE  StepOf(j)
<1> DEFINE s == job[j]
           new == Handler("make", s.item + 1, s.retry, s.results)
<1>1. ~crashed /\ s.at = "store" /\ remote' = remote /\ callback' = callback /\ crashed' = crashed
  BY DEF Store, At
<1>2. CASE s.item = Len(items[j])
  <2>1. Goto(j, "callback")
    BY <1>2 DEF Store
  <2>2. HandlerOK(j, job'[j], remote)
    BY <1>1, <1>2, <2>1, GotoKeeps
  <2>3. "callback" \in Places
    BY DEF Places
  <2>4. DOMAIN job' = Jobs /\ (\A k \in Jobs \ {j} : job'[k] = job[k]) /\ job'[j].at = "callback"
    BY <2>1, <2>3, GotoFields
  <2> QED
    BY <1>1, <2>2, <2>4, RowsStored, StoringStep
<1>3. CASE s.item # Len(items[j])
  <2>1. job' = [job EXCEPT ![j] = new]
    BY <1>3 DEF Store
  <2>2. DOMAIN job' = Jobs /\ (\A k \in Jobs \ {j} : job'[k] = job[k]) /\ job'[j] = new
    BY <2>1 DEF IInv
  <2>3. /\ s.item \in DOMAIN items[j] /\ s.results \in Seq(Results) /\ s.retry \in 0 .. MaxRetry
        /\ s.retry < MaxRetry /\ Len(s.results) = s.item
        /\ \A i \in 1 .. Len(s.results) : ResultOK(items[j][i], s.results[i], remote)
    BY <1>1, Fields DEF JobRecord, BatchOK, ResultsOK
  <2>4. s.item + 1 \in DOMAIN items[j] /\ Len(s.results) = (s.item + 1) - 1
    BY <1>3, <2>3, Batches
  <2>5. HandlerOK(j, new, remote)
    BY <2>3, <2>4, NewHandler
  <2>6. new.at = "make"
    BY HandlerFields
  <2> QED
    BY <1>1, <2>2, <2>5, <2>6, RowsStored, StoringStep
<1> QED
  BY <1>2, <1>3

LEMMA CallbackStep ==
  ASSUME IInv, NEW j \in Jobs, Callback(j)
  PROVE  StepOf(j)
<1> DEFINE s == job[j]
           t == job'[j]
           answers == callback[j]
           answer == [i \in DOMAIN items[j] |-> [request |-> Last(items[j]), result |-> s.results[i]]]
<1>1. /\ ~crashed /\ s.at = "callback" /\ remote' = remote /\ stored' = stored
      /\ crashed' = crashed /\ Goto(j, "done")
      /\ callback' = [callback EXCEPT ![j] = Append(answers, answer)]
  BY DEF Callback, At
<1>2. /\ s \in JobRecord(j) /\ BatchOK(j, s) /\ TreeOK(j, s)
      /\ MapOK(j, s, remote) /\ ResultsOK(j, s, remote) /\ CallbackOK(j, s, answers, remote)
  BY Fields
<1>3. "done" \in Places
  BY DEF Places
<1>4. /\ DOMAIN job' = Jobs /\ \A k \in Jobs \ {j} : job'[k] = job[k]
      /\ t \in JobRecord(j) /\ t.at = "done"
      /\ t.item = s.item /\ t.retry = s.retry /\ t.results = s.results /\ t.node = s.node
      /\ t.outFile = s.outFile /\ t.resultMap = s.resultMap /\ t.uploading = s.uploading
  BY <1>1, <1>3, GotoFields
<1>5. /\ s.results \in Seq(Results) /\ Len(s.results) = Len(items[j])
      /\ \A i \in DOMAIN items[j] : ResultOK(items[j][i], s.results[i], remote)
  <2>1. s.results \in Seq(Results) /\ Len(s.results) = Len(items[j])
    BY <1>1, <1>2 DEF JobRecord, BatchOK
  <2>2. DOMAIN items[j] = 1 .. Len(items[j])
    BY Batches
  <2> QED
    BY <1>2, <2>1, <2>2 DEF ResultsOK
<1>6. answer \in Answers(j)
  <2>1. /\ items[j] \in Seq(Requests(j)) /\ Len(items[j]) \in Nat \ {0}
        /\ DOMAIN items[j] = 1 .. Len(items[j])
    BY Batches
  <2>2. Last(items[j]) \in Requests(j)
    <3>1. Last(items[j]) = items[j][Len(items[j])]
      BY DEF Last
    <3> QED
      BY <2>1, <3>1 DEF Requests
  <2>3. \A i \in DOMAIN items[j] : s.results[i] \in Results
    BY <1>5, <2>1, ElementOfSeq
  <2>4. \A i \in DOMAIN items[j] :
          [request |-> Last(items[j]), result |-> s.results[i]] \in [request : Requests(j), result : Results]
    BY <2>2, <2>3
  <2> QED
    BY <2>4 DEF Answers
<1>7. answers \in Seq(Answers(j)) /\ Len(answers) = 0
  BY <1>1, <1>2 DEF CallbackOK
<1>8. \A i \in DOMAIN items[j] : answer[i].result = s.results[i] /\ answer[i].request = Last(items[j])
  OBVIOUS
<1>9. DOMAIN callback' = Jobs /\ (\A k \in Jobs \ {j} : callback'[k] = callback[k])
      /\ callback'[j] = Append(answers, answer)
  BY <1>1 DEF IInv
<1> HIDE DEF s, t, answers, answer
<1>10. /\ Append(answers, answer) \in Seq(Answers(j)) /\ Len(Append(answers, answer)) = 1
       /\ DOMAIN Append(answers, answer) = {1} /\ Append(answers, answer)[1] = answer
  BY <1>6, <1>7
<1>11. CallbackOK(j, t, callback'[j], remote)
  BY <1>4, <1>5, <1>8, <1>9, <1>10 DEF CallbackOK
<1>12. Req(j, t) = Req(j, s)
  BY <1>4 DEF Req
<1>13. BatchOK(j, t)
  BY <1>1, <1>2, <1>4 DEF BatchOK
<1>14. TreeOK(j, t)
  BY <1>1, <1>2, <1>4, <1>12 DEF TreeOK, Walks
<1>15. NodesOK(j, t)
  BY <1>4 DEF NodesOK, Walks
<1>16. MapOK(j, t, remote) /\ ResultsOK(j, t, remote)
  BY <1>2, <1>4, <1>12 DEF MapOK, ResultsOK
<1>17. HandlerOK(j, t, remote)
  BY <1>4, <1>13, <1>14, <1>15, <1>16 DEF HandlerOK
<1> QED
  BY <1>1, <1>4, <1>9, <1>11, <1>17 DEF StepOf, IInv, t

-----------------------------------------------------------------------------
(* The invariant. *)

LEMMA InitHolds == Init => IInv
<1> SUFFICES ASSUME Init
             PROVE  IInv
  OBVIOUS
<1>1. /\ DOMAIN job = Jobs /\ DOMAIN callback = Jobs /\ remote = {} /\ crashed = FALSE
      /\ \A j \in Jobs : job[j] = Handler("waiting", 1, 0, <<>>) /\ callback[j] = <<>>
  BY DEF Init
<1>2. 0 \in 0 .. MaxRetry
  BY ResourceAssumption DEF ResourceAssumption
<1>3. ASSUME NEW j \in Jobs
      PROVE  JobOK(j)
  <2>1. HandlerOK(j, job[j], remote)
    BY <1>1, <1>2, FirstHandler
  <2>2. job[j].at = "waiting"
    BY <1>1, HandlerFields
  <2>3. <<>> \in Seq(Answers(j)) /\ Len(<<>>) = 0 /\ DOMAIN <<>> = {}
    OBVIOUS
  <2> HIDE DEF IInv
  <2>4. CallbackOK(j, job[j], callback[j], remote)
    BY <1>1, <2>2, <2>3 DEF CallbackOK
  <2> QED
    BY <2>1, <2>4 DEF JobOK
<1>4. DOMAIN stored = {}
  BY DEF Init
<1> QED
  BY <1>1, <1>3, <1>4 DEF IInv

LEMMA NextHolds == IInv /\ [Next]_vars => IInv'
<1> SUFFICES ASSUME IInv, [Next]_vars
             PROVE  IInv'
  OBVIOUS
<1>1. CASE UNCHANGED vars
  BY <1>1 DEF vars, IInv, JobOK
<1>2. ASSUME NEW j \in Jobs, Run(j)
      PROVE  IInv'
  <2>1. CASE Handle(j)
    BY <2>1, HandleStep, StepKeeps
  <2>2. CASE NoSuchType(j)
    BY <2>2, NoSuchTypeStep, StepKeeps
  <2>3. CASE NoSuchBucket(j)
    BY <2>3, NoSuchBucketStep, StepKeeps
  <2>4. CASE MakeTree(j)
    BY <2>4, MakeTreeStep, StepKeeps
  <2>5. CASE SkipNode(j) \/ CreateFileFails(j)
    BY <2>5, SkipNodeStep, StepKeeps
  <2>6. CASE CreateFile(j)
    BY <2>6, CreateFileStep, StepKeeps
  <2>7. CASE RangeVisits(j)
    BY <2>7, RangeVisitsStep, StepKeeps
  <2>8. CASE RangeEnds(j)
    BY <2>8, RangeEndsStep, StepKeeps
  <2>9. CASE Wait(j)
    BY <2>9, WaitStep, StepKeeps
  <2>10. CASE Result(j)
    BY <2>10, ResultStep, StepKeeps
  <2>11. CASE Store(j)
    BY <2>11, StoreStep, StepKeeps
  <2>12. CASE Callback(j)
    BY <2>12, CallbackStep, StepKeeps
  <2> QED
    BY <1>2, <2>1, <2>2, <2>3, <2>4, <2>5, <2>6, <2>7, <2>8, <2>9, <2>10, <2>11, <2>12
    DEF Run, MakeJobs, DoJob
<1>3. ASSUME NEW j \in Jobs, NEW b \in Buckets, Goroutine(j, b)
      PROVE  IInv'
  BY <1>3, UploadedStep, UploadFailsStep, StepKeeps DEF Goroutine
<1> QED
  BY <1>1, <1>2, <1>3 DEF Next

\* IInv holds in every state.
LEMMA Invariance == Spec => []IInv
BY InitHolds, NextHolds, PTL DEF Spec

-----------------------------------------------------------------------------
(* The properties. *)

LEMMA PresentIsAllPresent ==
  ASSUME NEW req, NEW result
  PROVE  Present(req, result, remote) <=> AllPresent(req, result)
BY DEF Present, AllPresent

LEMMA WholeIsBoth ==
  ASSUME NEW req, NEW result, Whole(req, result)
  PROVE  \A p \in Claimed(req, result) : p[1] > 1 =>
           \A b \in {req.FromBucket, req.ToBucket} \cap Buckets : <<p[1], b>> \in Claimed(req, result)
BY DEF Whole, Known

\* The state keeps its types: a job's nodes are those of its item's tree, its
\* uploads go to known buckets, and Handle is called for at most MaxRetry retries,
\* for any jobs (job.go:33-49, 125, worker.go:84).
THEOREM TypeCorrect == Spec => []TypeOK
<1>1. IInv => TypeOK
  <2> SUFFICES ASSUME IInv
               PROVE  TypeOK
    OBVIOUS
  <2>1. ASSUME NEW j \in Jobs
        PROVE  /\ job[j].at \in {"waiting", "make", "node", "range", "wait", "result", "store",
                                 "callback", "done", "failed", "dropped"}
               /\ job[j].item \in DOMAIN items[j]
               /\ job[j].retry \in 0 .. MaxRetry
               /\ job[j].outFile \subseteq DOMAIN Nodes(j)
               /\ job[j].uploading \cup job[j].errChan \subseteq Buckets
    <3>1. job[j] \in JobRecord(j) /\ job[j].outFile \subseteq DOMAIN Nodes(j)
      BY Fields DEF TreeOK
    <3> QED
      BY <3>1 DEF JobRecord, Places
  <2>2. ASSUME NEW k \in DOMAIN stored
        PROVE  k \in UNION {{items[j][i].Key : i \in DOMAIN items[j]} : j \in Jobs}
    <3>1. PICK j \in Jobs : \E i \in DOMAIN items[j] : items[j][i].Key = k
      BY DEF IInv, RowOK
    <3>2. k \in {items[j][i].Key : i \in DOMAIN items[j]}
      BY <3>1
    <3> QED
      BY <3>2
  <2>3. crashed \in BOOLEAN
    BY DEF IInv
  <2> QED
    BY <2>1, <2>2, <2>3 DEF TypeOK
<1> QED
  BY <1>1, Invariance, PTL

\* No upload outlives the call of doJob that started it, whatever fails and however
\* the jobs' goroutines interleave (job.go:120-123, 163).
THEOREM UploadsAlwaysEndFirst == Spec => []UploadsEndFirst
<1>1. IInv => UploadsEndFirst
  BY Fields DEF UploadsEndFirst, TreeOK
<1> QED
  BY <1>1, Invariance, PTL

\* A job is answered by at most one callback, and only when it is done, however
\* often it was retried (request.go:99-101, 140-142, 153-159).
THEOREM AnsweredAtMostOnce == Spec => []AnsweredOnce
<1>1. IInv => AnsweredOnce
  BY Fields DEF AnsweredOnce, CallbackOK
<1> QED
  BY <1>1, Invariance, PTL

\* Every result posted or stored is true of the item it was made of, for batches of
\* any length, over all retries and beside any other jobs on the same keys; a pair
\* of a request and a result as it is posted is so in the last entry
\* (job.go:118-170, request.go:104-109, 145-153).
THEOREM ClaimsAreAlwaysTrue == Spec => []ClaimsAreTrue
<1>1. IInv => ClaimsAreTrue
  <2> SUFFICES ASSUME IInv
               PROVE  ClaimsAreTrue
    OBVIOUS
  <2>1. ASSUME NEW j \in Jobs, NEW c \in DOMAIN callback[j]
        PROVE  /\ \A i \in DOMAIN items[j] : AllPresent(items[j][i], callback[j][c][i].result)
               /\ AllPresent(callback[j][c][Len(items[j])].request,
                             callback[j][c][Len(items[j])].result)
    <3>1. ASSUME NEW i \in DOMAIN items[j]
          PROVE  AllPresent(items[j][i], callback[j][c][i].result)
      BY Fields, PresentIsAllPresent DEF CallbackOK, ResultOK
    <3>2. Len(items[j]) \in DOMAIN items[j]
      BY Batches
    <3>3. callback[j][c][Len(items[j])].request = items[j][Len(items[j])]
      BY <3>2, Fields DEF CallbackOK, Last
    <3> QED
      BY <3>1, <3>2, <3>3
  <2>2. ASSUME NEW k \in DOMAIN stored
        PROVE  LET of == stored[k].of
                   req == items[of[1]][of[2]]
               IN req.Key = k /\ AllPresent(req, stored[k].result)
    <3>1. PICK j \in Jobs : \E i \in DOMAIN items[j] :
                 /\ stored[k].of = <<j, i>> /\ items[j][i].Key = k
                 /\ Present(items[j][i], stored[k].result, remote)
      BY DEF IInv, RowOK
    <3> QED
      BY <3>1, PresentIsAllPresent
  <2> QED
    BY <2>1, <2>2 DEF ClaimsAreTrue
<1> QED
  BY <1>1, Invariance, PTL

\* A posted result is complete: a derived file claimed in one of the two buckets is
\* claimed in both that are known (job.go:165-168, request.go:99-101).
THEOREM ClaimsAreAlwaysWhole == Spec => []ClaimsAreWhole
<1>1. IInv => ClaimsAreWhole
  <2> SUFFICES ASSUME IInv, NEW j \in Jobs, NEW c \in DOMAIN callback[j], NEW i \in DOMAIN items[j]
               PROVE  LET req == items[j][i]
                          claimed == Claimed(req, callback[j][c][i].result)
                      IN \A p \in claimed : p[1] > 1 =>
                           \A b \in {req.FromBucket, req.ToBucket} \cap Buckets :
                             <<p[1], b>> \in claimed
    BY DEF ClaimsAreWhole
  <2>1. Whole(items[j][i], callback[j][c][i].result)
    BY Fields DEF CallbackOK, ResultOK
  <2> QED
    BY <2>1, WholeIsBoth
<1> QED
  BY <1>1, Invariance, PTL
=============================================================================
