--------------------------- MODULE RelationWorker ---------------------------
(***************************************************************************)
(* worker/relation: bind and unbind requests keep each user's account and  *)
(* contacts in an app, and find out which contacts are users.  Every bind  *)
(* request is handled by a goroutine of its own (an asynchronous worker's  *)
(* handle), every unbind request by its HTTP handler, and one more         *)
(* goroutine does the reverse checks.  They share users and the list of an *)
(* app's users, under locks that cover single reads and writes only.       *)
(*                                                                         *)
(* One app (a tp_type) is modelled: apps share no list.  A section under a *)
(* lock is one step, and so is a read under a read lock.  The slice of an  *)
(* app's users is modelled with its backing array, which append and remove *)
(* write in place; its capacity of ten and the thousand places of          *)
(* checkFriendsChan are not reached by the requests checked.  Two things   *)
(* are coarser than the code: a scan reads the accounts of all other users *)
(* in one step, and an unlocked read of a map yields its entry, where the  *)
(* runtime may also stop the program (container.go:48, relation.go:159).   *)
(***************************************************************************)
EXTENDS Naturals, Sequences, FiniteSets, SequencesExt

CONSTANTS
  Users,     \* the UIDs
  TpIDs,     \* the account ids in the app
  Requests,  \* the requests made
  input,     \* what each request asks for
  Missing,   \* an entry a map does not have
  Serial,    \* TRUE when each request waits for the effects of the last
  MaxRestarts, \* how often the process is restarted
  MaxUnsaved   \* how many users have a store that failed, at a time

NoTpID == "no tp_id"
NoUID == "no uid"

\* A bind request with its account, possibly none, and its contacts, possibly
\* without an account either; or an unbind request.
InputRequest ==
  [op : {"bind"}, uid : Users, tpID : TpIDs \cup {NoTpID}, contacts : Seq(TpIDs \cup {NoTpID})]
    \cup [op : {"unbind"}, uid : Users]

Checker == "checker"
Threads == Requests \cup {Checker}

ASSUME RelationAssumption ==
  /\ IsFiniteSet(Users)
  /\ NoTpID \notin TpIDs /\ NoUID \notin Users /\ Checker \notin Requests
  /\ Missing \notin [a : Nat, len : Nat]
  /\ input \in [Requests -> InputRequest]
  /\ Serial \in BOOLEAN
  /\ MaxRestarts \in Nat /\ MaxUnsaved \in Nat

VARIABLES
  users,      \* usersContainer: the users that exist
  bindApp,    \* per user: BindApp[tpType]
  friends,    \* per user: Friends[tpType], missing from the map at first
  array,      \* the backing arrays of the slices of typeUIDMap
  typeUID,    \* typeUID[tpType]: an array and a length, missing at first
  checkFriendsChan,  \* the queue of reverse checks
  stored,     \* per user: what the database holds
  thread,     \* per request and for the checking goroutine: where it is
  everBound,  \* history: per user, the accounts it ever had
  unsaved,    \* history: the users whose last store failed
  restarts,   \* how often the process was restarted
  interrupted \* history: a restart cut something short, or lost something unsaved

memory == <<users, bindApp, friends>>
list == <<array, typeUID>>
process == <<unsaved, restarts, interrupted>>
vars == <<memory, list, checkFriendsChan, stored, thread, everBound, process>>

\* A thread's program counter, the label its call of getUIDs or
\* getFriendsByType returns to, and its local variables.
Thread(at, user) ==
  [at |-> at, ret |-> "none", user |-> user, uids |-> [a |-> 0, len |-> 0], in |-> FALSE,
   old |-> <<>>, i |-> 1, readyToMerge |-> <<>>, backCheckUsers |-> {}, jerry |-> NoUID, jerryTpID |-> NoTpID]

Init ==
  /\ users = {}
  /\ bindApp = [u \in Users |-> NoTpID]
  /\ friends = [u \in Users |-> Missing]
  /\ array = <<>>
  /\ typeUID = Missing
  /\ checkFriendsChan = <<>>
  /\ stored = [u \in Users |-> Missing]
  /\ thread = [t \in Threads |-> Thread("idle", IF t = Checker THEN NoUID ELSE input[t].uid)]
  /\ everBound = [u \in Users |-> {}]
  /\ unsaved = {}
  /\ restarts = 0
  /\ interrupted = FALSE

\* Thread t goes on at label at, with the given changes to its locals.
Goto(t, at) == thread' = [thread EXCEPT ![t].at = at]
Call(t, at, ret) == thread' = [thread EXCEPT ![t].at = at, ![t].ret = ret]

\* No request is being handled and no reverse check is waiting or running.
Quiet ==
  /\ \A t \in Threads : thread[t].at \in {"idle", "done"}
  /\ checkFriendsChan = <<>>

-----------------------------------------------------------------------------
(* The slices of typeUIDMap. *)

\* The elements of a slice.
Elements(s) == IF s.len = 0 THEN <<>> ELSE SubSeq(array[s.a], 1, s.len)

\* append(s, uid) in place: the array is written beyond the slice's length.
Appended(s, uid) ==
  [array EXCEPT ![s.a] = SubSeq(@, 1, s.len) \o <<uid>> \o SubSeq(@, s.len + 2, Len(@))]

\* The array once remove(i, s) moved the elements after i forward, in place.
Removed(arr, i, n) == SubSeq(arr, 1, i - 1) \o SubSeq(arr, i + 1, n) \o SubSeq(arr, n, Len(arr))

\* getUIDs: a missing slice is made, without looking again.
GetUIDs(t) ==
  /\ thread[t].at = "uids"
  /\ thread' = IF typeUID = Missing THEN [thread EXCEPT ![t].at = "makeUIDs"]
               ELSE [thread EXCEPT ![t].at = "in", ![t].uids = typeUID]
  /\ UNCHANGED <<memory, list, checkFriendsChan, stored, everBound, process>>

MakeUIDs(t) ==
  /\ thread[t].at = "makeUIDs"
  /\ array' = Append(array, <<>>)
  /\ typeUID' = [a |-> Len(array) + 1, len |-> 0]
  /\ Goto(t, "rereadUIDs")
  /\ UNCHANGED <<memory, checkFriendsChan, stored, everBound, process>>

\* The read of line 48, which takes no lock.
RereadUIDs(t) ==
  /\ thread[t].at = "rereadUIDs"
  /\ thread' = [thread EXCEPT ![t].at = "in", ![t].uids = typeUID]
  /\ UNCHANGED <<memory, list, checkFriendsChan, stored, everBound, process>>

\* inTypeUIDMap's search of the slice it read, under no lock.
InTypeUIDMap(t) ==
  /\ thread[t].at = "in"
  /\ thread' = [thread EXCEPT ![t].at = thread[t].ret,
                              ![t].in = thread[t].user \in ToSet(Elements(thread[t].uids))]
  /\ UNCHANGED <<memory, list, checkFriendsChan, stored, everBound, process>>

ExtendUIDs(t) ==
  /\ array' = Appended(thread[t].uids, thread[t].user)
  /\ typeUID' = [thread[t].uids EXCEPT !.len = @ + 1]

\* Mutant: the user is appended without the test of line 53.
AppendUIDAlways(t) ==
  /\ thread[t].at = "append"
  /\ ExtendUIDs(t)
  /\ Goto(t, "bind")
  /\ UNCHANGED <<memory, checkFriendsChan, stored, everBound, process>>

\* appendUID after its search: the slice that was read is extended.
AppendUID(t) ==
  /\ thread[t].at = "append"
  /\ IF thread[t].in THEN UNCHANGED list ELSE ExtendUIDs(t)
  /\ Goto(t, "bind")
  /\ UNCHANGED <<memory, checkFriendsChan, stored, everBound, process>>

\* The loop of removeUID over a slice of length n: the array once i elements were
\* compared, each as the removals before left it, and whether one was removed.
RemoveLoop(arr, uid, n) ==
  LET After[i \in 0 .. n] ==
        IF i = 0 THEN [arr |-> arr, removed |-> FALSE]
        ELSE IF After[i - 1].arr[i] = uid
             THEN [arr |-> Removed(After[i - 1].arr, i, n), removed |-> TRUE]
             ELSE After[i - 1]
  IN After[n]

\* removeUID after its search, on the slice that was read.
RemoveUID(t) ==
  /\ thread[t].at = "remove"
  /\ LET s == thread[t].uids
         end == RemoveLoop(array[s.a], thread[t].user, s.len)
     IN IF thread[t].in /\ end.removed
        THEN /\ array' = [array EXCEPT ![s.a] = end.arr]
             /\ typeUID' = [s EXCEPT !.len = @ - 1]
        ELSE UNCHANGED list
  /\ Goto(t, "store")
  /\ UNCHANGED <<memory, checkFriendsChan, stored, everBound, process>>

-----------------------------------------------------------------------------
(* A user's contacts. *)

\* getFriendsByType: a missing entry is made, without looking again.
GetFriends(t) ==
  /\ thread[t].at = "get"
  /\ LET f == friends[thread[t].user]
     IN thread' = IF f = Missing THEN [thread EXCEPT ![t].at = "makeFriends"]
                  ELSE [thread EXCEPT ![t].at = thread[t].ret, ![t].old = f]
  /\ UNCHANGED <<memory, list, checkFriendsChan, stored, everBound, process>>

MakeFriends(t) ==
  /\ thread[t].at = "makeFriends"
  /\ friends' = [friends EXCEPT ![thread[t].user] = <<>>]
  /\ Goto(t, "rereadFriends")
  /\ UNCHANGED <<users, bindApp, list, checkFriendsChan, stored, everBound, process>>

\* The read of line 159, which takes no lock; a missing entry reads as nil.
RereadFriends(t) ==
  /\ thread[t].at = "rereadFriends"
  /\ LET f == friends[thread[t].user]
     IN thread' = [thread EXCEPT ![t].at = thread[t].ret,
                                 ![t].old = IF f = Missing THEN <<>> ELSE f]
  /\ UNCHANGED <<memory, list, checkFriendsChan, stored, everBound, process>>

\* Mutant: only the first contact read is compared with.
CheckExistsFirst(t) ==
  /\ thread[t].at = "exists"
  /\ LET contacts == input[t].contacts
         i == thread[t].i
         known == thread[t].old # <<>> /\ Head(thread[t].old).TpID = contacts[i]
     IN thread' = [thread EXCEPT
          ![t].readyToMerge = IF known THEN @ ELSE Append(@, [TpID |-> contacts[i], UID |-> NoUID]),
          ![t].i = i + 1, ![t].at = "get",
          ![t].ret = IF i < Len(contacts) THEN "exists" ELSE "merge"]
  /\ UNCHANGED <<memory, list, checkFriendsChan, stored, everBound, process>>

\* handleInput's test of its next contact against those read.
CheckExists(t) ==
  /\ thread[t].at = "exists"
  /\ LET contacts == input[t].contacts
         i == thread[t].i
         known == \E k \in DOMAIN thread[t].old : thread[t].old[k].TpID = contacts[i]
     IN thread' = [thread EXCEPT
          ![t].readyToMerge = IF known THEN @ ELSE Append(@, [TpID |-> contacts[i], UID |-> NoUID]),
          ![t].i = i + 1, ![t].at = "get",
          ![t].ret = IF i < Len(contacts) THEN "exists" ELSE "merge"]
  /\ UNCHANGED <<memory, list, checkFriendsChan, stored, everBound, process>>

\* appendFriends after its read: the contacts read are extended.
AppendFriends(t) ==
  /\ thread[t].at = "merge"
  /\ friends' = [friends EXCEPT ![thread[t].user] = thread[t].old \o thread[t].readyToMerge]
  /\ Call(t, "get", "scan")
  /\ UNCHANGED <<users, bindApp, list, checkFriendsChan, stored, everBound, process>>

\* Mutant: a user listed without an account matches too.
MatchesUnset(u, tpID) ==
  {i \in 1 .. typeUID.len : LET v == array[typeUID.a][i]
                             IN v # u /\ v \in users /\ bindApp[v] \in {tpID, NoTpID}}

\* The places in the list of the users of the app other than u with account tpID.
Matches(u, tpID) ==
  {i \in 1 .. typeUID.len : LET v == array[typeUID.a][i]
                             IN v # u /\ v \in users /\ bindApp[v] = tpID}

\* The contact given the last user that matches it.
Linked(u, item) ==
  LET found == Matches(u, item.TpID)
  IN [item EXCEPT !.UID = IF found = {} THEN NoUID ELSE array[typeUID.a][Max(found)]]

\* scanAllFriends after its read: the contacts read are written back, linked.
LinkFriends(t) ==
  LET u == thread[t].user
      old == thread[t].old
  IN friends' = [friends EXCEPT ![u] = [k \in DOMAIN old |-> Linked(u, old[k])]]

\* Mutant: the matches are not told to check in turn.
ScanWithoutBackCheck(t) ==
  /\ thread[t].at = "scan"
  /\ LinkFriends(t)
  /\ Goto(t, "send")
  /\ UNCHANGED <<users, bindApp, list, checkFriendsChan, stored, everBound, process>>

\* Every match of every contact is due a reverse check, in the order of both.
ScanAllFriends(t) ==
  /\ thread[t].at = "scan"
  /\ LinkFriends(t)
  /\ LET old == thread[t].old
     IN thread' = [thread EXCEPT ![t].at = "send",
          ![t].backCheckUsers =
            UNION {{<<k, i, array[typeUID.a][i]>> : i \in Matches(thread[t].user, old[k].TpID)}
                   : k \in DOMAIN old}]
  /\ UNCHANGED <<users, bindApp, list, checkFriendsChan, stored, everBound, process>>

SendCheck(t) ==
  /\ thread[t].at = "send"
  /\ \/ /\ thread[t].backCheckUsers = {}
        /\ Goto(t, "store")
        /\ UNCHANGED checkFriendsChan
     \/ \E due \in thread[t].backCheckUsers :
          /\ \A other \in thread[t].backCheckUsers :
               due[1] < other[1] \/ (due[1] = other[1] /\ due[2] <= other[2])
          /\ checkFriendsChan' =
               Append(checkFriendsChan, [user |-> due[3], other |-> thread[t].user])
          /\ thread' = [thread EXCEPT ![t].backCheckUsers = @ \ {due}]
  /\ UNCHANGED <<memory, list, stored, everBound, process>>

Saved(u) ==
  /\ stored' = [stored EXCEPT ![u] = [bindApp |-> bindApp[u], friends |-> friends[u]]]
  /\ unsaved' = unsaved \ {u}

\* The database refuses the write, as it does while it is closed and opened again;
\* the error is logged, and nothing else.
NotSaved(u) ==
  /\ Cardinality(unsaved \ {u}) < MaxUnsaved
  /\ unsaved' = unsaved \cup {u}
  /\ UNCHANGED stored

\* storeUser writes the user as it is in memory.
StoreUser(t) ==
  /\ thread[t].at = "store"
  /\ Saved(thread[t].user) \/ NotSaved(thread[t].user)
  /\ thread' = [thread EXCEPT ![t] = IF t = Checker THEN Thread("idle", NoUID)
                                     ELSE Thread("done", thread[t].user)]
  /\ UNCHANGED <<memory, list, checkFriendsChan, everBound, restarts, interrupted>>

-----------------------------------------------------------------------------
(* The requests. *)

Begins(t) == thread[t].at = "idle" /\ (Serial => Quiet)

\* startWork: the user is found, or made under createUserLock.
StartWork(t) ==
  /\ Begins(t) /\ input[t].op = "bind"
  /\ users' = users \cup {input[t].uid}
  /\ Call(t, "uids", "append")
  /\ UNCHANGED <<bindApp, friends, list, checkFriendsChan, stored, everBound, process>>

\* Mutant: an input without an account sets it all the same.
SetTpIDAlways(t) ==
  /\ thread[t].at = "bind"
  /\ bindApp' = [bindApp EXCEPT ![thread[t].user] = input[t].tpID]
  /\ everBound' = [everBound EXCEPT ![thread[t].user] = @ \cup {input[t].tpID}]
  /\ Call(t, "get", IF input[t].contacts = <<>> THEN "merge" ELSE "exists")
  /\ UNCHANGED <<users, friends, list, checkFriendsChan, stored, process>>

\* handleInput: an input may leave the account as it is.
SetTpID(t) ==
  /\ thread[t].at = "bind"
  /\ LET u == thread[t].user
         tpID == input[t].tpID
     IN IF tpID = NoTpID THEN UNCHANGED <<bindApp, everBound>>
        ELSE /\ bindApp' = [bindApp EXCEPT ![u] = tpID]
             /\ everBound' = [everBound EXCEPT ![u] = @ \cup {tpID}]
  /\ Call(t, "get", IF input[t].contacts = <<>> THEN "merge" ELSE "exists")
  /\ UNCHANGED <<users, friends, list, checkFriendsChan, stored, process>>

\* unbindAccount: an unknown user is an error.
UnbindAccount(t) ==
  /\ Begins(t) /\ input[t].op = "unbind"
  /\ Goto(t, IF input[t].uid \in users THEN "unbind" ELSE "done")
  /\ UNCHANGED <<memory, list, checkFriendsChan, stored, everBound, process>>

RemoveTpID(t) ==
  /\ thread[t].at = "unbind"
  /\ bindApp' = [bindApp EXCEPT ![thread[t].user] = NoTpID]
  /\ Goto(t, "forget")
  /\ UNCHANGED <<users, friends, list, checkFriendsChan, stored, everBound, process>>

RemoveFriends(t) ==
  /\ thread[t].at = "forget"
  /\ friends' = [friends EXCEPT ![thread[t].user] = Missing]
  /\ Call(t, "uids", "remove")
  /\ UNCHANGED <<users, bindApp, list, checkFriendsChan, stored, everBound, process>>

-----------------------------------------------------------------------------
(* The goroutine of startCheckFriends. *)

TakeCheck ==
  /\ thread[Checker].at = "idle"
  /\ checkFriendsChan # <<>>
  /\ thread' = [thread EXCEPT ![Checker] =
       [Thread("jerry", Head(checkFriendsChan).user) EXCEPT !.jerry = Head(checkFriendsChan).other]]
  /\ checkFriendsChan' = Tail(checkFriendsChan)
  /\ UNCHANGED <<memory, list, stored, everBound, process>>

GetJerryTpID ==
  /\ thread[Checker].at = "jerry"
  /\ thread' = [thread EXCEPT ![Checker].jerryTpID = bindApp[thread[Checker].jerry],
                              ![Checker].at = "get", ![Checker].ret = "link"]
  /\ UNCHANGED <<memory, list, checkFriendsChan, stored, everBound, process>>

\* The contacts read are written back, those with jerry's account linked to
\* jerry; none are when jerry has no account any more.
LinkJerry ==
  LET me == thread[Checker]
      LinkedTo(item) == IF item.TpID = me.jerryTpID THEN [item EXCEPT !.UID = me.jerry] ELSE item
  IN friends' = [friends EXCEPT ![me.user] =
       IF me.jerryTpID = NoTpID THEN <<>> ELSE [k \in DOMAIN me.old |-> LinkedTo(me.old[k])]]

\* Mutant: the user checked is not stored.
CheckFriendUnstored ==
  /\ thread[Checker].at = "link"
  /\ LinkJerry
  /\ thread' = [thread EXCEPT ![Checker] = Thread("idle", NoUID)]
  /\ UNCHANGED <<users, bindApp, list, checkFriendsChan, stored, everBound, process>>

\* checkFriend after its reads.
CheckFriend ==
  /\ thread[Checker].at = "link"
  /\ LinkJerry
  /\ Goto(Checker, "store")
  /\ UNCHANGED <<users, bindApp, list, checkFriendsChan, stored, everBound, process>>

-----------------------------------------------------------------------------
(* The process ends, at any time, and openAndRestore reads the database. *)

Bound(u) == stored[u] # Missing /\ stored[u].bindApp # NoTpID

\* What was in progress or is unsaved is lost; appendUID lists the users in the order of the
\* database's keys.
Restart ==
  /\ restarts < MaxRestarts
  /\ restarts' = restarts + 1
  /\ interrupted' = (interrupted \/ ~Quiet \/ unsaved # {})
  /\ unsaved' = {}
  /\ users' = {u \in Users : stored[u] # Missing}
  /\ bindApp' = [u \in Users |-> IF Bound(u) THEN stored[u].bindApp ELSE NoTpID]
  /\ friends' = [u \in Users |-> IF u \in users' THEN stored[u].friends ELSE Missing]
  /\ LET uids == SetToSeq({u \in Users : Bound(u)})
     IN /\ array' = IF uids = <<>> THEN <<>> ELSE <<uids>>
        /\ typeUID' = IF uids = <<>> THEN Missing ELSE [a |-> 1, len |-> Len(uids)]
  /\ checkFriendsChan' = <<>>
  /\ thread' = [t \in Threads |->
       Thread(IF t = Checker \/ thread[t].at = "idle" THEN "idle" ELSE "done",
              IF t = Checker THEN NoUID ELSE input[t].uid)]
  /\ UNCHANGED <<stored, everBound>>

-----------------------------------------------------------------------------
Step(t) ==
  \/ GetUIDs(t) \/ MakeUIDs(t) \/ RereadUIDs(t) \/ InTypeUIDMap(t) \/ AppendUID(t) \/ RemoveUID(t)
  \/ GetFriends(t) \/ MakeFriends(t) \/ RereadFriends(t)
  \/ CheckExists(t) \/ AppendFriends(t) \/ ScanAllFriends(t) \/ SendCheck(t) \/ StoreUser(t)
  \/ SetTpID(t) \/ RemoveTpID(t) \/ RemoveFriends(t)

Check == TakeCheck \/ GetJerryTpID \/ CheckFriend \/ Step(Checker)

Next ==
  \/ \E r \in Requests : StartWork(r) \/ UnbindAccount(r) \/ Step(r)
  \/ Check
  \/ Restart

Spec == Init /\ [][Next]_vars

-----------------------------------------------------------------------------
(* Properties. *)

Friend == [TpID : TpIDs \cup {NoTpID}, UID : Users \cup {NoUID}]
FriendsOrMissing(f) == f = Missing \/ f \in Seq(Friend)

\* The types of users, the lists and the database; a slice lies within its
\* backing array (container.go:28-78), and only real accounts are ever bound
\* (relation.go:194-196).
TypeOK ==
  /\ users \subseteq Users
  /\ bindApp \in [Users -> TpIDs \cup {NoTpID}]
  /\ \A u \in Users : FriendsOrMissing(friends[u])
  /\ \A a \in DOMAIN array : array[a] \in Seq(Users)
  /\ typeUID # Missing => typeUID.a \in DOMAIN array /\ typeUID.len \in 0 .. Len(array[typeUID.a])
  /\ checkFriendsChan \in Seq([user : Users, other : Users])
  /\ \A u \in Users : stored[u] # Missing =>
       stored[u].bindApp \in TpIDs \cup {NoTpID} /\ FriendsOrMissing(stored[u].friends)
  /\ everBound \in [Users -> SUBSET TpIDs]
  /\ unsaved \subseteq Users
  /\ restarts \in 0 .. MaxRestarts

Contacts(u) == IF friends[u] = Missing THEN {} ELSE ToSet(friends[u])

\* Once nothing is going on, the database holds every user as it is in memory,
\* but for those whose last store failed: each change is followed by a storeUser
\* of the user changed (relation.go:189, 235, 307), whoever else writes it
\* meanwhile. A failed store is only logged (storage.go:66-76): what it was to
\* write is lost in a restart, unless the user is stored again before.
StoredWhenQuiet ==
  Quiet => \A u \in users \ unsaved :
             stored[u] = [bindApp |-> bindApp[u], friends |-> friends[u]]

\* A contact that has an account is linked only to a user that had this account
\* at some time, and no contact is to its owner's own UID (relation.go:250-265,
\* 293-295).  A contact with an empty tp_id is linked to any other user that is
\* listed and has no account: getTpID gives its account as empty too (119, 254).
LinksWereTrue ==
  \A u \in Users : \A c \in Contacts(u) : c.UID # NoUID =>
    /\ c.UID # u
    /\ c.TpID # NoTpID => c.TpID \in everBound[c.UID]

\* The steps of relation.go:75-81 for requests made one after the other: a user
\* with an account is listed, once.
ListedWhenQuiet ==
  Quiet => \A u \in users :
    bindApp[u] # NoTpID => Cardinality({i \in 1 .. typeUID.len : array[typeUID.a][i] = u}) = 1

\* relation.go:209: "check if already exists".
NoDuplicateContacts ==
  \A u \in Users : friends[u] # Missing =>
    \A i, k \in DOMAIN friends[u] : friends[u][i].TpID = friends[u][k].TpID => i = k

\* Of two users that have each other's account among their contacts, each is
\* linked to the other, whoever came first and whoever unbound and came back, if
\* nobody else ever had the account and no restart lost a reverse check or what
\* was unsaved (relation.go:254-265, 274-278, 293-295).  When another had it too, the link may
\* stay at that one also once it has the account no more.
MutualContactsAreLinked ==
  Quiet /\ ~interrupted => \A u, v \in users : \A c \in Contacts(u), d \in Contacts(v) :
    /\ u # v /\ c.TpID = bindApp[v] /\ d.TpID = bindApp[u] /\ NoTpID \notin {c.TpID, d.TpID}
    /\ \A w \in Users \ {u, v} : c.TpID \notin everBound[w]
    => c.UID = v
=============================================================================
