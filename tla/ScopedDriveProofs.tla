------------------------- MODULE ScopedDriveProofs -------------------------
(* Theorems of ScopedDrive, for every number of tasks, items and locations, *)
(* every window TTL and every Drive.                                        *)
EXTENDS ScopedDrive, SequenceTheorems, TLAPS

---------------------------------------------------------------------------
(* Lemmas about the operators.                                             *)

\* Following more pairs reaches at least as much.
LEMMA ReachMonotone ==
  ASSUME NEW E, NEW F, E \subseteq F
  PROVE  Reach(E) \subseteq Reach(F)
BY DEF Reach, Closed

\* A map names folders, whatever it was made from.
LEMMA ReachType ==
  ASSUME NEW E
  PROVE  Reach(E) \in SUBSET (Folders \cup {Root})
BY DEF Reach

\* A waiter that leaves the queue leaves a queue.
LEMMA RemoveAtType ==
  ASSUME NEW S, NEW s \in Seq(S), NEW k \in 1..Len(s)
  PROVE  RemoveAt(s, k) \in Seq(S)
BY DEF RemoveAt

\* The locals an item read leaves are those of a task again.
LEMMA NoTaskType == ScopeAssumption => NoTask \in Task
BY DEF ScopeAssumption, NoTask, Task, Unread, Time

\* Drive's answers are answers.
LEMMA AnswerTypes ==
  ASSUME NEW t \in Task
  PROVE  /\ \A x \in Metadata \cup {None} : [t EXCEPT !.reply = x] \in Task
         /\ \A x \in [Below -> Metadata \cup {None}] : [t EXCEPT !.scan = x] \in Task
BY DEF Task

---------------------------------------------------------------------------
(* Type correctness.  The steps of _folder_map come first, since several    *)
(* actions end in them.                                                     *)

LEMMA EnumerateType ==
  ASSUME ScopeAssumption, TypeOK, NEW r \in Tasks, NEW t \in Task,
         NEW q \in Seq(Tasks), now' \in Time, Enumerate(r, t, q)
  PROVE  holder' \in Tasks \cup {None} /\ queue' \in Seq(Tasks) /\ task' \in [Tasks -> Task]
BY DEF Enumerate, EnumerationStart, TypeOK, Task

LEMMA AskLockType ==
  ASSUME ScopeAssumption, TypeOK, NEW r \in Tasks, NEW t \in Task,
         NEW h \in Tasks \cup {None}, NEW q \in Seq(Tasks),
         now' \in Time, generation' \in Nat, AskLock(r, t, h, q)
  PROVE  holder' \in Tasks \cup {None} /\ queue' \in Seq(Tasks) /\ task' \in [Tasks -> Task]
<1> DEFINE asking == [t EXCEPT !.reply = None, !.scan = Unread, !.seen = generation']
<1>1. asking \in Task
  BY DEF Task, Unread
<1>2. CASE Enumerate(r, asking, q)
  BY <1>1, <1>2, EnumerateType
<1>3. CASE /\ holder' = h /\ queue' = Append(q, r)
           /\ task' = [task EXCEPT ![r] = [asking EXCEPT !.pc = "queued"]]
  <2> HIDE DEF asking
  <2>1. [asking EXCEPT !.pc = "queued"] \in Task
    BY <1>1 DEF Task
  <2>2. QED
    BY <1>3, <2>1, AppendProperties DEF TypeOK
<1>4. QED
  BY <1>2, <1>3 DEF AskLock

LEMMA ReturnType ==
  ASSUME ScopeAssumption, TypeOK, NEW r \in Tasks, NEW t \in Task, now' \in Time,
         NEW result \in {"none", "allowed", "refused"},
         NEW record \in {"none", "allow"} \cup Reasons,
         Return(r, t, result, record)
  PROVE  task' \in [Tasks -> Task]
<1>1. [t EXCEPT !.pc = "idle", !.reply = None, !.scan = Unread, !.retry = FALSE,
                !.seen = 0, !.started = 0, !.result = result, !.record = record,
                !.at = now'] \in Task
  <2>1. 0 \in Time
    BY DEF Time, ScopeAssumption
  <2>2. QED
    BY <2>1 DEF Task, Unread
<1>2. QED
  BY <1>1 DEF Return, TypeOK

LEMMA EndType ==
  ASSUME ScopeAssumption, TypeOK, NEW r \in Tasks, End(r)
  PROVE  task' \in [Tasks -> Task]
BY NoTaskType DEF End, TypeOK

LEMMA AskForHitsType ==
  ASSUME ScopeAssumption, TypeOK, NEW r \in Tasks, NEW t \in Task,
         NEW m \in SUBSET (Folders \cup {Root}), now' \in Time, AskForHits(r, t, m)
  PROVE  task' \in [Tasks -> Task]
<1>1. [t EXCEPT !.pc = "hits", !.reply = None, !.scan = Unread, !.seen = 0,
                !.started = 0, !.known = m, !.at = now'] \in Task
  <2>1. 0 \in Time
    BY DEF Time, ScopeAssumption
  <2>2. QED
    BY <2>1 DEF Task, Unread
<1>2. QED
  BY <1>1 DEF AskForHits, TypeOK

LEMMA UseMapType ==
  ASSUME ScopeAssumption, TypeOK, NEW r \in Tasks, NEW t \in Task,
         NEW m \in SUBSET (Folders \cup {Root}),
         NEW h \in Tasks \cup {None}, NEW q \in Seq(Tasks),
         now' \in Time, generation' \in Nat, UseMap(r, t, m, h, q)
  PROVE  holder' \in Tasks \cup {None} /\ queue' \in Seq(Tasks) /\ task' \in [Tasks -> Task]
<1>1. CASE End(r) /\ holder' = h /\ queue' = q
  BY <1>1, EndType
<1>2. CASE Return(r, t, AllowedResult(t), "allow") /\ holder' = h /\ queue' = q
  <2>1. AllowedResult(t) \in {"none", "allowed", "refused"}
    BY DEF AllowedResult
  <2>2. QED
    BY <1>2, <2>1, ReturnType
<1>3. CASE AskLock(r, [t EXCEPT !.retry = FALSE], h, q)
  <2>1. [t EXCEPT !.retry = FALSE] \in Task
    BY DEF Task
  <2>2. QED
    BY <1>3, <2>1, AskLockType
<1>4. CASE Return(r, t, "refused", "outside_subtree") /\ holder' = h /\ queue' = q
  BY <1>4, ReturnType DEF Reasons
<1>5. CASE AskForHits(r, t, m) /\ holder' = h /\ queue' = q
  BY <1>5, AskForHitsType
<1>6. QED
  BY <1>1, <1>2, <1>3, <1>4, <1>5 DEF UseMap

LEMMA RefuseType ==
  ASSUME ScopeAssumption, TypeOK, NEW r \in Tasks, NEW t \in Task, now' \in Time,
         NEW why \in {"unmeasured"} \cup Reasons, Refuse(r, t, why)
  PROVE  task' \in [Tasks -> Task]
<1>1. CASE End(r)
  BY <1>1, EndType
<1>2. CASE why \in Reasons /\ Return(r, t, "refused", why)
  BY <1>2, ReturnType
<1>3. QED
  BY <1>1, <1>2 DEF Refuse

\* What the checks can say.
LEMMA RefusalTypes ==
  ASSUME NEW i, NEW m
  PROVE  /\ LiveRefusal(i, m) \in {"none", "unmeasured"} \cup Reasons
         /\ RootRefusal(m) \in {"none", "unmeasured"} \cup Reasons
         /\ ItemRefusal(i, m) \in {"none", "unmeasured"} \cup Reasons
BY DEF LiveRefusal, RootRefusal, ItemRefusal, Reasons

\* An item that passes its checks was read from one folder, which is the
\* parent the map is asked for.
LEMMA PassedItem ==
  ASSUME NEW i, i # Root, NEW m \in Metadata, ItemRefusal(i, m) = "none"
  PROVE  /\ FirstParent(m) \in Folders /\ m.parents = {FirstParent(m)}
         /\ location # None /\ m.location = location /\ ~m.trashed
BY DEF ItemRefusal, LiveRefusal, FirstParent

LEMMA FreshType ==
  ASSUME ScopeAssumption, TypeOK, NEW o \in Ops, NEW i \in Items
  PROVE  Fresh(o, i) \in Task
<1>1. LockFree(holder, queue) \in BOOLEAN
  BY DEF LockFree
<1>2. QED
  BY <1>1, NoTaskType DEF Fresh, Task, TypeOK

LEMMA LookUpType ==
  ASSUME ScopeAssumption, TypeOK, NEW r \in Tasks, NEW t \in Task,
         generation' = generation, LookUp(r, t)
  PROVE  /\ holder' \in Tasks \cup {None} /\ queue' \in Seq(Tasks)
         /\ task' \in [Tasks -> Task] /\ now' \in Time
<1> DEFINE u == [t EXCEPT !.retry = TRUE]
<1>0. /\ u \in Task /\ generation' \in Nat
      /\ holder \in Tasks \cup {None} /\ queue \in Seq(Tasks) /\ now \in Time
      /\ folderMap \in SUBSET (Folders \cup {Root})
  BY DEF Task, TypeOK
<1> HIDE DEF u
<1>1. CASE now' = now /\ UseMap(r, u, folderMap, holder, queue)
  BY <1>0, <1>1, UseMapType
<1>2. CASE now' = now /\ AskLock(r, t, holder, queue)
  BY <1>0, <1>2, AskLockType
<1>3. CASE now + 1 \in Time /\ now' = now + 1 /\ AskLock(r, u, holder, queue)
  BY <1>0, <1>3, AskLockType
<1>4. QED
  BY <1>1, <1>2, <1>3 DEF LookUp, u

---------------------------------------------------------------------------

LEMMA InitType == ScopeAssumption /\ Init => TypeOK
<1> SUFFICES ASSUME ScopeAssumption, Init PROVE TypeOK
  OBVIOUS
<1>1. /\ drive \in [Items -> Metadata] /\ now \in Time
      /\ changes \in 0..MaxChanges /\ calls \in 0..MaxCalls
  BY DEF Init, ScopeAssumption, Time
<1>2. task \in [Tasks -> Task]
  BY NoTaskType DEF Init
<1>3. QED
  BY <1>1, <1>2 DEF Init, TypeOK

LEMMA NextType == ScopeAssumption /\ TypeOK /\ [Next]_vars => TypeOK'
<1> SUFFICES ASSUME ScopeAssumption, TypeOK, [Next]_vars
             PROVE  TypeOK'
  OBVIOUS
<1> DEFINE LocksAndTasks == /\ holder' \in Tasks \cup {None} /\ queue' \in Seq(Tasks)
                            /\ task' \in [Tasks -> Task]
<1>1. ASSUME NEW r \in Tasks, NEW o \in Ops, NEW i \in Items, CallItem(r, o, i)
      PROVE  TypeOK'
  <2>1. [Fresh(o, i) EXCEPT !.pc = "item"] \in Task
    BY FreshType DEF Task
  <2>2. task' \in [Tasks -> Task] /\ calls' \in 0..MaxCalls
    BY <1>1, <2>1 DEF CallItem, TypeOK, ScopeAssumption
  <2>3. QED
    BY <1>1, <2>2 DEF CallItem, TypeOK, scope, lock
<1>2. ASSUME NEW r \in Tasks, NEW o \in MapOps, CallFolderMap(r, o)
      PROVE  TypeOK'
  <2> DEFINE t == Fresh(o, Root)
  <2>1. t \in Task /\ now' = now /\ generation' = generation
    BY <1>2, FreshType DEF CallFolderMap, ScopeAssumption, scope
  <2>2. LocksAndTasks
    <3>1. UseMap(r, t, folderMap, holder, queue) \/ AskLock(r, t, holder, queue)
      BY <1>2 DEF CallFolderMap
    <3> HIDE DEF t
    <3>2. QED
      BY <2>1, <3>1, UseMapType, AskLockType DEF TypeOK
  <2>3. calls' \in 0..MaxCalls
    BY <1>2 DEF CallFolderMap, TypeOK, ScopeAssumption
  <2>4. QED
    BY <1>2, <2>2, <2>3 DEF CallFolderMap, TypeOK, scope
<1>3. ASSUME NEW r \in Tasks, DriveAnswers(r)
      PROVE  TypeOK'
  <2>1. drive[IF task[r].pc = "item" THEN task[r].item ELSE Root] \in Metadata
    BY DEF TypeOK, Task, ScopeAssumption
  <2>2. task' \in [Tasks -> Task]
    BY <1>3, <2>1, AnswerTypes DEF DriveAnswers, TypeOK
  <2>3. QED
    BY <1>3, <2>2 DEF DriveAnswers, TypeOK, scope, lock
<1>4. ASSUME NEW r \in Tasks, DriveServesPage(r)
      PROVE  TypeOK'
  <2>1. PICK page \in SUBSET Below :
          task' = [task EXCEPT ![r].scan =
                     [f \in Below |-> IF f \in page THEN drive[f] ELSE task[r].scan[f]]]
    BY <1>4 DEF DriveServesPage
  <2>2. [f \in Below |-> IF f \in page THEN drive[f] ELSE task[r].scan[f]]
          \in [Below -> Metadata \cup {None}]
    BY DEF TypeOK, Task, Below, ScopeAssumption
  <2>3. task' \in [Tasks -> Task]
    BY <2>1, <2>2, AnswerTypes DEF TypeOK
  <2>4. QED
    BY <1>4, <2>3 DEF DriveServesPage, TypeOK, scope, lock
<1>5. ASSUME NEW r \in Tasks, Initialize(r)
      PROVE  TypeOK'
  <2>1. task[r].reply \in Metadata /\ task[r] \in Task
    BY <1>5 DEF Initialize, TypeOK, Task
  <2>2. now' \in Time
    BY <1>5 DEF Initialize, TypeOK
  <2>3. task' \in [Tasks -> Task] /\ location' \in Locations \cup {None}
    BY <1>5, <2>1, <2>2, EndType, ReturnType DEF Initialize, TypeOK, Metadata
  <2>4. QED
    BY <1>5, <2>3 DEF Initialize, TypeOK, lock
<1>6. ASSUME NEW r \in Tasks, Authorize(r)
      PROVE  TypeOK'
  <2> DEFINE i == task[r].item
             m == task[r].reply
  <2>1. m \in Metadata /\ i \in Items /\ task[r] \in Task /\ generation' = generation
    BY <1>6 DEF Authorize, TypeOK, Task, scope
  <2>2. LocksAndTasks /\ now' \in Time
    <3>1. CASE /\ ItemRefusal(i, m) # "none" /\ UNCHANGED <<now, lock>>
               /\ Refuse(r, task[r], ItemRefusal(i, m))
      <4>1. now' \in Time /\ ItemRefusal(i, m) \in {"unmeasured"} \cup Reasons
        BY <3>1, RefusalTypes DEF TypeOK
      <4>2. QED
        BY <2>1, <3>1, <4>1, RefuseType DEF TypeOK, lock
    <3>2. CASE /\ UNCHANGED <<now, lock>>
               /\ Return(r, task[r], AllowedResult(task[r]), "allow")
      <4>1. AllowedResult(task[r]) \in {"none", "allowed", "refused"} /\ now' \in Time
        BY <3>2 DEF AllowedResult, TypeOK
      <4>2. QED
        BY <2>1, <3>2, <4>1, ReturnType DEF TypeOK, lock
    <3>3. CASE /\ ItemRefusal(i, m) = "none" /\ i # Root
               /\ LookUp(r, [task[r] EXCEPT !.parent = FirstParent(m)])
      <4>1. [task[r] EXCEPT !.parent = FirstParent(m)] \in Task
        BY <2>1, <3>3, PassedItem DEF Task
      <4>2. QED
        BY <2>1, <3>3, <4>1, LookUpType
    <3>4. QED
      BY <1>6, <3>1, <3>2, <3>3 DEF Authorize
  <2>3. QED
    BY <1>6, <2>2 DEF Authorize, TypeOK, scope
<1>7. ASSUME NEW r \in Tasks, TakeLock(r)
      PROVE  TypeOK'
  <2>1. /\ task[r] \in Task /\ now' \in Time /\ generation' \in Nat
        /\ Tail(queue) \in Seq(Tasks) /\ folderMap \in SUBSET (Folders \cup {Root})
    BY <1>7, HeadTailProperties DEF TakeLock, TypeOK, scope
  <2>2. LocksAndTasks
    BY <1>7, <2>1, UseMapType, EnumerateType DEF TakeLock
  <2>3. QED
    BY <1>7, <2>2 DEF TakeLock, TypeOK, scope
<1>8. ASSUME NEW r \in Tasks, CheckRoot(r)
      PROVE  TypeOK'
  <2>1. task[r] \in Task /\ now' \in Time
    BY <1>8 DEF CheckRoot, TypeOK
  <2>2. task' \in [Tasks -> Task] /\ holder' \in Tasks \cup {None}
    <3>1. CASE /\ RootRefusal(task[r].reply) # "none" /\ holder' = Released(r)
               /\ Refuse(r, task[r], RootRefusal(task[r].reply))
      <4>1. RootRefusal(task[r].reply) \in {"unmeasured"} \cup Reasons
        BY <3>1, RefusalTypes
      <4>2. QED
        BY <2>1, <3>1, <4>1, RefuseType DEF Released, TypeOK
    <3>2. CASE /\ task' = [task EXCEPT ![r].pc = "folders", ![r].reply = None]
               /\ UNCHANGED holder
      BY <2>1, <3>2 DEF TypeOK, Task
    <3>3. QED
      BY <1>8, <3>1, <3>2 DEF CheckRoot
  <2>3. QED
    BY <1>8, <2>2 DEF CheckRoot, TypeOK, scope
<1>9. ASSUME NEW r \in Tasks, FinishEnumeration(r)
      PROVE  TypeOK'
  <2>1. task[r] \in Task /\ now' \in Time /\ generation' \in Nat
    BY <1>9 DEF FinishEnumeration, TypeOK
  <2>2. LocksAndTasks
    BY <1>9, <2>1, UseMapType, ReachType DEF FinishEnumeration, TypeOK
  <2>3. folderMap' \in SUBSET (Folders \cup {Root}) /\ expiry' \in Nat
    <3>1. Reach(ScanEdges(task[r].scan)) \in SUBSET (Folders \cup {Root})
      BY ReachType
    <3>2. ExpiryOf(task[r]) \in Nat
      BY <2>1 DEF ExpiryOf, Task, Time, ScopeAssumption
    <3>3. QED
      BY <1>9, <3>1, <3>2 DEF FinishEnumeration, TypeOK
  <2>4. QED
    BY <1>9, <2>1, <2>2, <2>3 DEF FinishEnumeration, TypeOK
<1>10. ASSUME NEW r \in Tasks, Fail(r)
       PROVE  TypeOK'
  <2>1. task' \in [Tasks -> Task]
    BY <1>10, EndType DEF Fail
  <2>2. QED
    BY <1>10, <2>1 DEF Fail, Released, TypeOK, scope
<1>11. ASSUME NEW r \in Tasks, CancelWaiter(r)
       PROVE  TypeOK'
  <2>1. task' \in [Tasks -> Task]
    BY <1>11, EndType DEF CancelWaiter
  <2>2. queue' \in Seq(Tasks)
    BY <1>11, RemoveAtType DEF CancelWaiter, TypeOK
  <2>3. QED
    BY <1>11, <2>1, <2>2 DEF CancelWaiter, TypeOK, scope
<1>12. ASSUME NEW move \in Moves, ChangeDrive(move[1], move[2])
       PROVE  TypeOK'
  <2>1. move[1] \in Items /\ move[2] \in Metadata
    BY DEF ScopeAssumption
  <2>2. drive' \in [Items -> Metadata] /\ changes' \in 0..MaxChanges
    BY <1>12, <2>1 DEF ChangeDrive, TypeOK, ScopeAssumption
  <2>3. ended' \in [Places -> Time \cup {-1}]
    <3>1. \A e \in Places : LastPlaced(e[1], e[2], e[3]) \in Time \cup {-1}
      BY DEF TypeOK, LastPlaced, Places
    <3>2. QED
      BY <1>12, <3>1 DEF ChangeDrive
  <2>4. QED
    BY <1>12, <2>2, <2>3 DEF ChangeDrive, TypeOK, scope, lock
<1>13. CASE Tick
  BY <1>13 DEF Tick, TypeOK, scope, lock, Time, ScopeAssumption
<1>14. ASSUME NEW r \in Tasks, DriveFinds(r)
       PROVE  TypeOK'
  <2>1. PICK i \in Items : /\ drive[i] \in Metadata
                           /\ task' = [task EXCEPT ![r].item = i, ![r].reply = drive[i]]
    BY <1>14 DEF DriveFinds, TypeOK, ScopeAssumption
  <2>2. [task[r] EXCEPT !.item = i, !.reply = drive[i]] \in Task
    <3>1. task[r] \in Task
      BY DEF TypeOK
    <3>2. QED
      BY <2>1, <3>1 DEF Task
  <2>3. task' = [task EXCEPT ![r] = [task[r] EXCEPT !.item = i, !.reply = drive[i]]]
    BY <2>1 DEF TypeOK
  <2>4. task' \in [Tasks -> Task]
    BY <2>2, <2>3 DEF TypeOK
  <2>5. QED
    BY <1>14, <2>4 DEF DriveFinds, TypeOK, scope, lock
<1>15. ASSUME NEW r \in Tasks, ShowHits(r)
       PROVE  TypeOK'
  <2>1. task' \in [Tasks -> Task]
    <3>1. CASE End(r)
      BY <3>1, EndType
    <3>2. CASE /\ SafeHit(task[r].reply, task[r].known)
               /\ task' = [task EXCEPT ![r] = [task[r] EXCEPT !.pc = "idle", !.reply = None,
                             !.known = {}, !.parent = FirstParent(task[r].reply),
                             !.result = "allowed"]]
      <4>1. FirstParent(task[r].reply) \in Folders
        BY <3>2 DEF SafeHit, Placed, FirstParent
      <4>2. [task[r] EXCEPT !.pc = "idle", !.reply = None, !.known = {},
               !.parent = FirstParent(task[r].reply), !.result = "allowed"] \in Task
        <5>1. task[r] \in Task
          BY DEF TypeOK
        <5> DEFINE p == FirstParent(task[r].reply)
        <5>2. p \in Folders
          BY <4>1
        <5> HIDE DEF p
        <5>3. [task[r] EXCEPT !.pc = "idle", !.reply = None, !.known = {}, !.parent = p,
                 !.result = "allowed"] \in Task
          BY <5>1, <5>2 DEF Task
        <5>4. QED
          BY <5>3 DEF p
      <4>3. QED
        BY <3>2, <4>2 DEF TypeOK
    <3>3. QED
      BY <1>15, <3>1, <3>2 DEF ShowHits
  <2>2. QED
    BY <1>15, <2>1 DEF ShowHits, TypeOK, scope, lock
<1>16. CASE UNCHANGED vars
  BY <1>16 DEF vars, TypeOK
<1>17. QED
  BY <1>1, <1>2, <1>3, <1>4, <1>5, <1>6, <1>7, <1>8, <1>9, <1>10, <1>11, <1>12,
     <1>13, <1>14, <1>15, <1>16 DEF Next

\* In every reachable state each variable holds what the code can put there;
\* in particular a waiting task is one task, and a call's parent one folder.
THEOREM TypeCorrect == Spec => []TypeOK
<1>1. Init => TypeOK
  BY InitType, ScopeAssumption
<1>2. TypeOK /\ [Next]_vars => TypeOK'
  BY NextType, ScopeAssumption
<1>3. QED
  BY <1>1, <1>2, PTL DEF Spec

---------------------------------------------------------------------------
(* What a step that ends in _folder_map can leave of the call that makes    *)
(* it: it was given a map, and returned or searches in it; it waits; or it  *)
(* enumerates.                                                              *)

Same(u, t) == /\ u.op = t.op /\ u.item = t.item /\ u.parent = t.parent
              /\ u.begun = t.begun

Returned(u, t, m, n) ==
  u.pc = "idle" /\ (u.result = "allowed" =>
    Same(u, t) /\ u.at = n /\ t.op \notin MapOps /\ t.parent \in m)

Searching(u, t, m, n) ==
  /\ u.pc = "hits" /\ u.op = "search" /\ Same(u, t) /\ u.result = t.result
  /\ u.reply = None /\ u.known = m /\ u.at = n

Given(u, t, m, n) == Returned(u, t, m, n) \/ Searching(u, t, m, n)

Queued(u, t) ==
  u.pc = "queued" /\ Same(u, t) /\ u.result = t.result /\ u.scan = Unread

Entered(u, t, n) ==
  u.pc = "root" /\ u.started = n /\ Same(u, t) /\ u.result = t.result /\ u.scan = Unread

Others(r) == \A s \in Tasks \ {r} : task'[s] = task[s]

LEMMA EnumerateEffect ==
  ASSUME TypeOK, NEW r \in Tasks, NEW t \in Task, NEW q, Enumerate(r, t, q)
  PROVE  /\ holder' = r /\ Others(r) /\ task'[r].pc = "root"
         /\ t.scan = Unread => Entered(task'[r], t, now')
BY DEF Enumerate, EnumerationStart, Others, Entered, Same, TypeOK, Task

LEMMA AskLockEffect ==
  ASSUME TypeOK, NEW r \in Tasks, NEW t \in Task, NEW h, NEW q, AskLock(r, t, h, q)
  PROVE  /\ Others(r)
         /\ \/ h = None /\ holder' = r /\ Entered(task'[r], t, now')
            \/ holder' = h /\ Queued(task'[r], t)
<1> DEFINE asking == [t EXCEPT !.reply = None, !.scan = Unread, !.seen = generation']
<1>1. CASE LockFree(h, q) /\ Enumerate(r, asking, q)
  BY <1>1 DEF LockFree, Enumerate, EnumerationStart, Others, Entered, Same, TypeOK, Task
<1>2. CASE /\ holder' = h
           /\ task' = [task EXCEPT ![r] = [asking EXCEPT !.pc = "queued"]]
  BY <1>2 DEF Others, Queued, Same, TypeOK, Task
<1>3. QED
  BY <1>1, <1>2 DEF AskLock

LEMMA ReturnEffect ==
  ASSUME TypeOK, NEW r \in Tasks, NEW t \in Task, NEW result, NEW record,
         Return(r, t, result, record)
  PROVE  /\ Others(r) /\ task'[r].pc = "idle" /\ task'[r].result = result
         /\ Same(task'[r], t) /\ task'[r].at = now'
BY DEF Return, Others, Same, TypeOK, Task

LEMMA EndEffect ==
  ASSUME TypeOK, NEW r \in Tasks, End(r)
  PROVE  Others(r) /\ task'[r] = NoTask
BY DEF End, Others, TypeOK

LEMMA AskForHitsEffect ==
  ASSUME TypeOK, NEW r \in Tasks, NEW t \in Task, t.op = "search", NEW m, AskForHits(r, t, m)
  PROVE  Others(r) /\ Searching(task'[r], t, m, now')
BY DEF AskForHits, Others, Searching, Same, TypeOK, Task

LEMMA ShownEffect ==
  ASSUME TypeOK, NEW r \in Tasks, ShowHits(r)
  PROVE  Others(r) /\ task'[r].pc = "idle"
<1>1. CASE End(r)
  BY <1>1, EndEffect DEF NoTask
<1>2. ASSUME NEW m, NEW p,
             task' = [task EXCEPT ![r] = [task[r] EXCEPT !.pc = "idle", !.reply = None,
                        !.known = m, !.parent = p, !.result = "allowed"]]
      PROVE  Others(r) /\ task'[r].pc = "idle"
  BY <1>2 DEF Others, TypeOK, Task
<1>3. QED
  BY <1>1, <1>2 DEF ShowHits

LEMMA UseMapEffect ==
  ASSUME TypeOK, NEW r \in Tasks, NEW t \in Task, NEW m, NEW h, NEW q,
         UseMap(r, t, m, h, q)
  PROVE  /\ Others(r)
         /\ \/ h = None /\ holder' = r /\ Entered(task'[r], t, now')
            \/ holder' = h /\ Queued(task'[r], t)
            \/ holder' = h /\ Given(task'[r], t, m, now')
<1>1. CASE End(r) /\ holder' = h
  BY <1>1, EndEffect DEF Given, Returned, Searching, NoTask
<1>2. CASE /\ t.op \notin MapOps /\ t.parent \in m /\ holder' = h
           /\ Return(r, t, AllowedResult(t), "allow")
  BY <1>2, ReturnEffect DEF Given, Returned, Searching
<1>3. CASE AskLock(r, [t EXCEPT !.retry = FALSE], h, q)
  <2> DEFINE u == [t EXCEPT !.retry = FALSE]
  <2>1. u \in Task /\ Same(u, t) /\ u.result = t.result
    BY DEF Same, Task
  <2>2. AskLock(r, u, h, q)
    BY <1>3
  <2> HIDE DEF u
  <2>3. /\ Others(r)
        /\ \/ h = None /\ holder' = r /\ Entered(task'[r], u, now')
           \/ holder' = h /\ Queued(task'[r], u)
    BY <2>1, <2>2, AskLockEffect
  <2>4. QED
    BY <2>1, <2>3 DEF Entered, Queued, Same
<1>4. CASE Return(r, t, "refused", "outside_subtree") /\ holder' = h
  BY <1>4, ReturnEffect DEF Given, Returned
<1>5. CASE t.op = "search" /\ AskForHits(r, t, m) /\ holder' = h
  BY <1>5, AskForHitsEffect DEF Given
<1>6. QED
  BY <1>1, <1>2, <1>3, <1>4, <1>5 DEF UseMap

LEMMA LookUpEffect ==
  ASSUME TypeOK, NEW r \in Tasks, NEW t \in Task, LookUp(r, t)
  PROVE  /\ Others(r) /\ now' \in {now, now + 1}
         /\ \/ holder = None /\ holder' = r /\ Entered(task'[r], t, now')
            \/ holder' = holder /\ Queued(task'[r], t)
            \/ /\ holder' = holder /\ MapValid(now) /\ now' = now
               /\ Given(task'[r], t, folderMap, now')
<1> DEFINE u == [t EXCEPT !.retry = TRUE]
<1>0. u \in Task /\ Same(u, t) /\ u.result = t.result
  BY DEF Same, Task
<1>1. CASE now' = now /\ MapValid(now) /\ UseMap(r, u, folderMap, holder, queue)
  <2> HIDE DEF u
  <2>1. /\ Others(r)
        /\ \/ holder = None /\ holder' = r /\ Entered(task'[r], u, now')
           \/ holder' = holder /\ Queued(task'[r], u)
           \/ holder' = holder /\ Given(task'[r], u, folderMap, now')
    BY <1>0, <1>1, UseMapEffect
  <2>2. QED
    BY <1>0, <1>1, <2>1 DEF Entered, Queued, Given, Returned, Searching, Same
<1>2. CASE now' = now /\ AskLock(r, t, holder, queue)
  BY <1>2, AskLockEffect
<1>3. CASE now' = now + 1 /\ AskLock(r, u, holder, queue)
  <2> HIDE DEF u
  <2>1. /\ Others(r)
        /\ \/ holder = None /\ holder' = r /\ Entered(task'[r], u, now')
           \/ holder' = holder /\ Queued(task'[r], u)
    BY <1>0, <1>3, AskLockEffect
  <2>2. QED
    BY <1>0, <1>3, <2>1 DEF Entered, Queued, Same
<1>4. QED
  BY <1>1, <1>2, <1>3 DEF LookUp

---------------------------------------------------------------------------
(* Mutual exclusion.                                                        *)

LEMMA InitOneEnumeration == ScopeAssumption /\ Init => OneEnumeration
BY DEF ScopeAssumption, Init, OneEnumeration, NoTask

LEMMA NextOneEnumeration ==
  ScopeAssumption /\ TypeOK /\ OneEnumeration /\ [Next]_vars => OneEnumeration'
<1> SUFFICES ASSUME ScopeAssumption, TypeOK, OneEnumeration, [Next]_vars
             PROVE  OneEnumeration'
  OBVIOUS
<1>0. None \notin Tasks
  BY DEF ScopeAssumption
\* It is enough that the step is right about the one task that makes it.
<1>1. ASSUME NEW r \in Tasks, Others(r),
             task'[r].pc \in {"root", "folders"} <=> holder' = r,
             holder' = holder \/ (holder \in {r, None} /\ holder' \in {r, None})
      PROVE  OneEnumeration'
  BY <1>0, <1>1 DEF OneEnumeration, Others
<1>2. ASSUME NEW r \in Tasks, NEW o \in Ops, NEW i \in Items, CallItem(r, o, i)
      PROVE  OneEnumeration'
  <2>1. Others(r) /\ task'[r].pc = "item" /\ holder' = holder /\ task[r].pc = "idle"
    BY <1>2 DEF CallItem, Others, TypeOK, Fresh, NoTask, lock
  <2>2. QED
    BY <2>1, <1>1 DEF OneEnumeration
<1>3. ASSUME NEW r \in Tasks, NEW o \in MapOps, CallFolderMap(r, o)
      PROVE  OneEnumeration'
  <2> DEFINE t == Fresh(o, Root)
  <2>1. t \in Task
    BY <1>3, FreshType DEF CallFolderMap, ScopeAssumption
  <2>2. UseMap(r, t, folderMap, holder, queue) \/ AskLock(r, t, holder, queue)
    BY <1>3 DEF CallFolderMap
  <2>3. task[r].pc = "idle"
    BY <1>3 DEF CallFolderMap
  <2> HIDE DEF t
  <2>4. /\ Others(r)
        /\ \/ holder = None /\ holder' = r /\ Entered(task'[r], t, now')
           \/ holder' = holder /\ Queued(task'[r], t)
           \/ holder' = holder /\ Given(task'[r], t, folderMap, now')
    BY <2>1, <2>2, UseMapEffect, AskLockEffect
  <2>5. QED
    BY <2>3, <2>4, <1>1 DEF OneEnumeration, Entered, Queued, Given, Returned, Searching
<1>4. ASSUME NEW r \in Tasks, DriveAnswers(r) \/ DriveServesPage(r) \/ DriveFinds(r)
      PROVE  OneEnumeration'
  <2>1. CASE DriveAnswers(r) \/ DriveServesPage(r)
    <3>1. Others(r) /\ task'[r].pc = task[r].pc /\ holder' = holder
      BY <2>1 DEF DriveAnswers, DriveServesPage, Others, TypeOK, Task, lock
    <3>2. QED
      BY <3>1, <1>1 DEF OneEnumeration
  <2>2. CASE DriveFinds(r)
    <3>1. PICK i : task' = [task EXCEPT ![r].item = i, ![r].reply = drive[i]]
      BY <2>2 DEF DriveFinds
    <3>2. Others(r) /\ task'[r].pc = task[r].pc
      BY <3>1 DEF Others, TypeOK, Task
    <3>3. QED
      BY <2>2, <3>2, <1>1 DEF DriveFinds, lock, OneEnumeration
  <2>3. QED
    BY <1>4, <2>1, <2>2
<1>5. ASSUME NEW r \in Tasks, Initialize(r)
      PROVE  OneEnumeration'
  <2>1. End(r) \/ Return(r, task[r], "refused", "none")
    BY <1>5 DEF Initialize
  <2>2. Others(r) /\ task'[r].pc = "idle"
    BY <2>1, EndEffect, ReturnEffect DEF TypeOK, NoTask
  <2>3. holder' = holder /\ task[r].pc = "item"
    BY <1>5 DEF Initialize, lock
  <2>4. QED
    BY <2>2, <2>3, <1>1 DEF OneEnumeration
<1>6. ASSUME NEW r \in Tasks, Authorize(r)
      PROVE  OneEnumeration'
  <2>1. task[r].pc = "item" /\ task[r] \in Task /\ holder # r
    BY <1>6 DEF Authorize, TypeOK, OneEnumeration
  <2>2. CASE /\ UNCHANGED lock
             /\ \/ Refuse(r, task[r], ItemRefusal(task[r].item, task[r].reply))
                \/ Return(r, task[r], AllowedResult(task[r]), "allow")
    <3>1. Others(r) /\ task'[r].pc = "idle"
      BY <2>1, <2>2, EndEffect, ReturnEffect DEF Refuse, NoTask
    <3>2. QED
      BY <2>1, <2>2, <3>1, <1>1 DEF lock
  <2>3. CASE /\ ItemRefusal(task[r].item, task[r].reply) = "none" /\ task[r].item # Root
             /\ LookUp(r, [task[r] EXCEPT !.parent = FirstParent(task[r].reply)])
    <3> DEFINE t == [task[r] EXCEPT !.parent = FirstParent(task[r].reply)]
    <3>1. t \in Task
      BY <1>6, <2>1, <2>3, PassedItem DEF Authorize, Task
    <3>2. LookUp(r, t)
      BY <2>3
    <3> HIDE DEF t
    <3>3. /\ Others(r)
          /\ \/ holder = None /\ holder' = r /\ Entered(task'[r], t, now')
             \/ holder' = holder /\ Queued(task'[r], t)
             \/ holder' = holder /\ Given(task'[r], t, folderMap, now')
      BY <3>1, <3>2, LookUpEffect
    <3>4. QED
      BY <2>1, <3>3, <1>1 DEF Entered, Queued, Given, Returned, Searching
  <2>4. QED
    BY <1>6, <2>2, <2>3 DEF Authorize
<1>7. ASSUME NEW r \in Tasks, TakeLock(r)
      PROVE  OneEnumeration'
  <2>1. task[r] \in Task /\ holder = None
    BY <1>7 DEF TakeLock, TypeOK
  <2>2. UseMap(r, task[r], folderMap, None, Tail(queue)) \/ Enumerate(r, task[r], Tail(queue))
    BY <1>7 DEF TakeLock
  <2>3. /\ Others(r)
        /\ \/ holder' = r /\ task'[r].pc = "root"
           \/ holder' = None /\ Queued(task'[r], task[r])
           \/ holder' = None /\ Given(task'[r], task[r], folderMap, now')
    BY <2>1, <2>2, UseMapEffect, EnumerateEffect DEF Entered
  <2>4. QED
    BY <1>0, <2>1, <2>3, <1>1 DEF Entered, Queued, Given, Returned, Searching
<1>8. ASSUME NEW r \in Tasks, CheckRoot(r)
      PROVE  OneEnumeration'
  <2>1. task[r] \in Task /\ holder = r
    BY <1>8 DEF CheckRoot, TypeOK, OneEnumeration
  <2>2. CASE /\ Refuse(r, task[r], RootRefusal(task[r].reply)) /\ holder' = Released(r)
    <3>1. Others(r) /\ task'[r].pc = "idle"
      BY <2>1, <2>2, EndEffect, ReturnEffect DEF Refuse, NoTask
    <3>2. QED
      BY <1>0, <2>1, <2>2, <3>1, <1>1 DEF Released
  <2>3. CASE /\ task' = [task EXCEPT ![r].pc = "folders", ![r].reply = None]
             /\ UNCHANGED holder
    <3>1. Others(r) /\ task'[r].pc = "folders"
      BY <2>1, <2>3 DEF Others, TypeOK, Task
    <3>2. QED
      BY <2>1, <2>3, <3>1, <1>1
  <2>4. QED
    BY <1>8, <2>2, <2>3 DEF CheckRoot
<1>9. ASSUME NEW r \in Tasks, FinishEnumeration(r)
      PROVE  OneEnumeration'
  <2>1. task[r] \in Task /\ holder = r
    BY <1>9 DEF FinishEnumeration, TypeOK, OneEnumeration
  <2>2. PICK m : UseMap(r, task[r], m, None, queue)
    BY <1>9 DEF FinishEnumeration
  <2>3. /\ Others(r)
        /\ \/ holder' = r /\ Entered(task'[r], task[r], now')
           \/ holder' = None /\ Queued(task'[r], task[r])
           \/ holder' = None /\ Given(task'[r], task[r], m, now')
    BY <2>1, <2>2, UseMapEffect
  <2>4. QED
    BY <1>0, <2>1, <2>3, <1>1 DEF Entered, Queued, Given, Returned, Searching
<1>10. ASSUME NEW r \in Tasks, Fail(r)
       PROVE  OneEnumeration'
  <2>1. Others(r) /\ task'[r].pc = "idle"
    BY <1>10, EndEffect DEF Fail, NoTask
  <2>2. QED
    BY <1>0, <1>10, <2>1, <1>1 DEF Fail, Released
<1>11. ASSUME NEW r \in Tasks, CancelWaiter(r)
       PROVE  OneEnumeration'
  <2>1. Others(r) /\ task'[r].pc = "idle" /\ holder' = holder /\ holder # r
    BY <1>11, EndEffect DEF CancelWaiter, NoTask, OneEnumeration
  <2>2. QED
    BY <2>1, <1>1
<1>12. CASE \/ \E move \in Moves : ChangeDrive(move[1], move[2])
            \/ Tick \/ UNCHANGED vars
  BY <1>12 DEF ChangeDrive, Tick, vars, lock, OneEnumeration
<1>13. ASSUME NEW r \in Tasks, ShowHits(r)
       PROVE  OneEnumeration'
  <2>1. Others(r) /\ task'[r].pc = "idle"
    BY <1>13, ShownEffect
  <2>2. holder' = holder /\ holder # r
    BY <1>13 DEF ShowHits, lock, OneEnumeration
  <2>3. QED
    BY <2>1, <2>2, <1>1
<1>14. QED
  BY <1>2, <1>3, <1>4, <1>5, <1>6, <1>7, <1>8, <1>9, <1>10, <1>11, <1>12, <1>13 DEF Next

\* At most one folder enumeration is under way, by the task that holds
\* _refresh_lock, whatever fails or is cancelled.
THEOREM MutualExclusion == Spec => []OneEnumeration
<1>1. Init => TypeOK /\ OneEnumeration
  BY InitType, InitOneEnumeration, ScopeAssumption
<1>2. TypeOK /\ OneEnumeration /\ [Next]_vars => TypeOK' /\ OneEnumeration'
  BY NextType, NextOneEnumeration, ScopeAssumption
<1>3. QED
  BY <1>1, <1>2, PTL DEF Spec

---------------------------------------------------------------------------
(* Bounded staleness.  L stands for the history: for every item, folder and *)
(* location the last instant at which the item was there.  It only grows,   *)
(* so what was true of a chain of folders since T stays true.               *)

Latest == [e \in Places |-> LastPlaced(e[1], e[2], e[3])]
Histories == [Places -> Int]
Later(L, M) == \A e \in Places : L[e] <= M[e]
Held(L, T, l) == {e \in Below \X Folders : L[<<e[1], e[2], l>>] >= T}

\* The live read of t's item found it in its parent during the call.
ItemHeld(t, loc, L) ==
  /\ t.item \in Items \ {Root} /\ t.parent \in Folders /\ loc \in Locations
  /\ L[<<t.item, t.parent, loc>>] >= t.begun

Rests(t, loc, L) ==
  /\ ItemHeld(t, loc, L)
  /\ \E T \in Time : /\ T >= t.begun \/ T + TTL > t.at
                     /\ t.parent \in Reach(Held(L, T, loc))

\* The map a search goes by.
Known(t, loc, L) ==
  /\ loc \in Locations
  /\ \E T \in Time : /\ T >= t.begun \/ T + TTL > t.at
                     /\ t.known \subseteq Reach(Held(L, T, loc))

TaskInv(t, n, loc, L) ==
  /\ t.pc # "idle" => t.begun <= n /\ t.result = "none"
  /\ t.pc = "hits" => t.op = "search" /\ Known(t, loc, L)
  /\ t.pc \in {"item", "hits"} /\ t.reply # None =>
       \A p \in Folders, l \in Locations :
         Placed(t.reply, p, l) => L[<<t.item, p, l>>] >= t.begun
  /\ t.pc \in {"queued", "root", "folders"} /\ t.op \notin MapOps => ItemHeld(t, loc, L)
  /\ t.pc \in {"queued", "root"} => t.scan = Unread
  /\ t.pc \in {"root", "folders"} => t.begun <= t.started /\ t.started <= n
  /\ t.pc = "folders" =>
       /\ loc \in Locations
       /\ \A f \in Below, p \in Folders, l \in Locations :
            t.scan[f] # None /\ Placed(t.scan[f], p, l) => L[<<f, p, l>>] >= t.started
  /\ t.result = "allowed" /\ t.item # Root => Rests(t, loc, L)

\* The stored map is the walk over what held since its enumeration began.
MapInv(m, e, loc, L) ==
  m # {} => /\ loc \in Locations /\ e - TTL \in Time
            /\ m \subseteq Reach(Held(L, e - TTL, loc))

\* At most one initialize() is in flight, and none once the root is measured.
Initializing(r) == task[r].pc = "item" /\ task[r].op = "initialize"
InitializedOnce ==
  \A r \in Tasks : Initializing(r) =>
    location = None /\ \A s \in Tasks : Initializing(s) => s = r

HistoryInv == \A e \in Places : ended[e] <= now

IInv == /\ TypeOK /\ InitializedOnce /\ HistoryInv
        /\ \A r \in Tasks : TaskInv(task[r], now, location, Latest)
        /\ MapInv(folderMap, expiry, location, Latest)

LEMMA HeldMonotone ==
  ASSUME NEW L \in Histories, NEW M \in Histories, Later(L, M), NEW T \in Int,
         NEW l \in Locations, ScopeAssumption
  PROVE  Reach(Held(L, T, l)) \subseteq Reach(Held(M, T, l))
<1>1. Held(L, T, l) \subseteq Held(M, T, l)
  <2> SUFFICES ASSUME NEW e \in Below \X Folders, L[<<e[1], e[2], l>>] >= T
               PROVE  M[<<e[1], e[2], l>>] >= T
    BY DEF Held
  <2>1. <<e[1], e[2], l>> \in Places
    BY DEF Places, Below, ScopeAssumption
  <2>2. QED
    BY <2>1 DEF Histories, Later
<1>2. QED
  BY <1>1, ReachMonotone

\* A task that does not move keeps its part of the invariant while time
\* passes and Drive changes, and when the location is measured.
LEMMA TaskInvStable ==
  ASSUME ScopeAssumption, NEW t \in Task, NEW n \in Time, NEW k \in Time, n <= k,
         NEW L \in Histories, NEW M \in Histories, Later(L, M),
         NEW loc, NEW where, where = loc \/ loc \notin Locations,
         TaskInv(t, n, loc, L)
  PROVE  TaskInv(t, k, where, M)
<1>1. \A e \in Places : \A x \in Int : L[e] >= x => M[e] >= x
  BY DEF Histories, Later
<1>2. t.begun \in Int /\ t.started \in Int /\ n \in Int /\ k \in Int
  BY DEF Task, Time, ScopeAssumption
<1>3. ItemHeld(t, loc, L) => ItemHeld(t, where, M)
  BY <1>1, <1>2 DEF ItemHeld, Places
<1>4. Rests(t, loc, L) => Rests(t, where, M)
  <2> SUFFICES ASSUME Rests(t, loc, L)
               PROVE  Rests(t, where, M)
    OBVIOUS
  <2>1. PICK T \in Time : /\ T >= t.begun \/ T + TTL > t.at
                          /\ t.parent \in Reach(Held(L, T, loc))
    BY DEF Rests
  <2>2. loc \in Locations /\ where = loc
    BY DEF Rests, ItemHeld
  <2>3. t.parent \in Reach(Held(M, T, where))
    BY <2>1, <2>2, HeldMonotone DEF Time
  <2>4. QED
    BY <2>1, <2>3, <1>3 DEF Rests
<1>5. t.pc \in {"item", "hits"} /\ t.reply # None =>
       \A p \in Folders, l \in Locations :
         Placed(t.reply, p, l) => M[<<t.item, p, l>>] >= t.begun
  BY <1>1, <1>2 DEF TaskInv, Places, Task
<1>6. t.pc = "folders" =>
       /\ where \in Locations
       /\ \A f \in Below, p \in Folders, l \in Locations :
            t.scan[f] # None /\ Placed(t.scan[f], p, l) => M[<<f, p, l>>] >= t.started
  BY <1>1, <1>2 DEF TaskInv, Places, Below, ScopeAssumption
<1>7. Known(t, loc, L) => Known(t, where, M)
  <2> SUFFICES ASSUME Known(t, loc, L)
               PROVE  Known(t, where, M)
    OBVIOUS
  <2>1. PICK T \in Time : /\ T >= t.begun \/ T + TTL > t.at
                          /\ t.known \subseteq Reach(Held(L, T, loc))
    BY DEF Known
  <2>2. loc \in Locations /\ where = loc
    BY DEF Known
  <2>3. t.known \subseteq Reach(Held(M, T, where))
    BY <2>1, <2>2, HeldMonotone DEF Time
  <2>4. QED
    BY <2>1, <2>2, <2>3 DEF Known
<1>8. QED
  BY <1>2, <1>3, <1>4, <1>5, <1>6, <1>7 DEF TaskInv

\* A call whose item was found in its parent keeps the invariant when it goes
\* on to wait for the lock or to enumerate.
LEMMA LockAsked ==
  ASSUME ScopeAssumption, NEW t \in Task, NEW u \in Task, NEW n \in Time, NEW loc,
         NEW L \in Histories,
         t.begun <= n, t.result = "none", t.op \notin MapOps => ItemHeld(t, loc, L),
         Entered(u, t, n) \/ Queued(u, t)
  PROVE  TaskInv(u, n, loc, L)
<1>1. t.op \notin MapOps => ItemHeld(u, loc, L)
  BY DEF Entered, Queued, Same, ItemHeld
<1>2. QED
  BY <1>1 DEF Entered, Queued, Same, TaskInv, Time, Task

\* And when it returns with what a map that rests on an instant T told it, or
\* begins to search in that map.
LEMMA MapUsed ==
  ASSUME ScopeAssumption, NEW t \in Task, NEW u \in Task, NEW n \in Time,
         NEW loc \in Locations, t.begun <= n, t.result = "none",
         NEW L \in Histories, NEW m, NEW T \in Time,
         t.op \notin MapOps => ItemHeld(t, loc, L),
         Given(u, t, m, n), T >= t.begun \/ T + TTL > n,
         m \subseteq Reach(Held(L, T, loc))
  PROVE  TaskInv(u, n, loc, L)
<1>1. ASSUME u.result = "allowed"
      PROVE  Rests(u, loc, L)
  <2>1. Same(u, t) /\ u.at = n /\ t.op \notin MapOps /\ t.parent \in m
    BY <1>1 DEF Given, Returned, Searching
  <2>2. ItemHeld(u, loc, L)
    BY <2>1 DEF Same, ItemHeld
  <2>3. QED
    BY <2>1, <2>2 DEF Rests, Same
<1>2. CASE Returned(u, t, m, n)
  <2>1. u.pc = "idle"
    BY <1>2 DEF Returned
  <2>2. QED
    BY <1>1, <2>1 DEF TaskInv
<1>3. CASE Searching(u, t, m, n)
  <2>1. Known(u, loc, L)
    BY <1>3 DEF Searching, Same, Known
  <2>2. QED
    BY <1>3, <2>1 DEF Searching, Same, TaskInv
<1>4. QED
  BY <1>2, <1>3 DEF Given

---------------------------------------------------------------------------

LEMMA LastType == ScopeAssumption /\ TypeOK => Latest \in Histories
BY DEF ScopeAssumption, TypeOK, Latest, Histories, LastPlaced, Places, Time

\* What every step does to the clock, the history and the location.
LEMMA StepHistory ==
  ASSUME ScopeAssumption, ~Reinitializes, IInv, Next, TypeOK'
  PROVE  /\ now <= now' /\ Later(Latest, Latest') /\ HistoryInv'
         /\ location' = location \/ location \notin Locations
<1>1. \A e \in Places : /\ ended[e] <= now /\ ended[e] \in Int /\ now \in Int /\ now' \in Int
                        /\ LastPlaced(e[1], e[2], e[3]) <= now
                        /\ LastPlaced(e[1], e[2], e[3]) \in Int
                        /\ e = <<e[1], e[2], e[3]>>
  BY DEF IInv, HistoryInv, TypeOK, LastPlaced, Places, Time, ScopeAssumption
<1>2. CASE drive' = drive /\ ended' = ended /\ now' \in {now, now + 1}
  <2>1. now <= now'
    BY <1>2 DEF IInv, TypeOK, Time, ScopeAssumption
  <2>2. ASSUME NEW e \in Places
        PROVE  LastPlaced(e[1], e[2], e[3]) <= LastPlaced(e[1], e[2], e[3])'
    BY <1>1, <1>2, <2>1 DEF LastPlaced, Placed
  <2>3. Later(Latest, Latest') /\ HistoryInv'
    BY <1>1, <1>2, <2>1, <2>2 DEF Later, Latest, HistoryInv
  <2>4. location' = location \/ location \notin Locations
    <3>1. ASSUME NEW r \in Tasks, Initialize(r)
          PROVE  location = None
      BY <3>1 DEF Initialize, IInv, InitializedOnce, Initializing
    <3>2. QED
      BY <3>1 DEF Next, CallItem, CallFolderMap, DriveAnswers, DriveServesPage, Authorize,
         TakeLock, CheckRoot, FinishEnumeration, DriveFinds, ShowHits, Fail, CancelWaiter,
         ChangeDrive, Tick, scope, ScopeAssumption
  <2>5. QED
    BY <2>1, <2>3, <2>4
<1>3. CASE /\ now' = now /\ location' = location
           /\ ended' = [e \in Places |-> LastPlaced(e[1], e[2], e[3])]
  <2>1. \A e \in Places : ended'[e] = LastPlaced(e[1], e[2], e[3])
    BY <1>3
  <2>2. ASSUME NEW e \in Places
        PROVE  LastPlaced(e[1], e[2], e[3]) <= LastPlaced(e[1], e[2], e[3])'
    <3>1. LastPlaced(e[1], e[2], e[3])' \in {now', ended'[<<e[1], e[2], e[3]>>]}
      BY DEF LastPlaced
    <3>2. QED
      BY <1>1, <1>3, <2>1, <3>1
  <2>3. HistoryInv'
    BY <1>1, <1>3, <2>1 DEF HistoryInv
  <2>4. Later(Latest, Latest')
    BY <2>2 DEF Later, Latest
  <2>5. now <= now'
    BY <1>3 DEF IInv, TypeOK, Time, ScopeAssumption
  <2>6. QED
    BY <1>3, <2>3, <2>4, <2>5
<1>4. QED
  <2>1. ASSUME NEW r \in Tasks, Authorize(r)
        PROVE  now' \in {now, now + 1}
    BY <2>1 DEF Authorize, LookUp
  <2>2. QED
    BY <1>2, <1>3, <2>1 DEF Next, CallItem, CallFolderMap, DriveAnswers, DriveServesPage,
       Initialize, Authorize, TakeLock, CheckRoot, FinishEnumeration, DriveFinds, ShowHits,
       Fail, CancelWaiter, ChangeDrive, Tick, scope

LEMMA InitIInv == ScopeAssumption /\ Init => IInv
<1> SUFFICES ASSUME ScopeAssumption, Init PROVE IInv
  OBVIOUS
<1>1. TypeOK
  BY InitType
<1>2. \A r \in Tasks : TaskInv(task[r], now, location, Latest)
  BY DEF Init, TaskInv, NoTask
<1>3. HistoryInv
  BY DEF Init, HistoryInv
<1>4. InitializedOnce /\ MapInv(folderMap, expiry, location, Latest)
  BY DEF Init, InitializedOnce, Initializing, NoTask, MapInv
<1>5. QED
  BY <1>1, <1>2, <1>3, <1>4 DEF IInv

\* It is enough that the step is right about the task that makes it and
\* about the map.
LEMMA StepIInv ==
  ASSUME ScopeAssumption, ~Reinitializes, IInv, Next, TypeOK',
         NEW r \in Tasks, Others(r), TaskInv(task'[r], now', location', Latest'),
         Initializing(r)' => location' = None /\ \A s \in Tasks \ {r} : ~Initializing(s),
         location' = location \/ Initializing(r),
         (folderMap' = folderMap /\ expiry' = expiry) \/ MapInv(folderMap', expiry', location', Latest')
  PROVE  IInv'
<1>1. /\ now <= now' /\ Later(Latest, Latest') /\ HistoryInv'
      /\ location' = location \/ location \notin Locations
  BY StepHistory
<1>2. /\ Latest \in Histories /\ Latest' \in Histories /\ now \in Time /\ now' \in Time
  BY LastType DEF IInv, TypeOK, Latest, Histories, LastPlaced, Places, Time, ScopeAssumption
<1>3. ASSUME NEW s \in Tasks \ {r}
      PROVE  TaskInv(task'[s], now', location', Latest')
  <2>1. task'[s] = task[s] /\ task[s] \in Task /\ TaskInv(task[s], now, location, Latest)
    BY <1>3 DEF Others, IInv, TypeOK
  <2>2. QED
    BY <1>1, <1>2, <2>1, TaskInvStable
<1>4. MapInv(folderMap', expiry', location', Latest')
  <2>1. CASE folderMap' = folderMap /\ expiry' = expiry /\ folderMap # {}
    <3>1. /\ location \in Locations /\ location' = location /\ expiry - TTL \in Time
          /\ folderMap \subseteq Reach(Held(Latest, expiry - TTL, location))
      BY <1>1, <2>1 DEF IInv, MapInv
    <3>2. QED
      BY <1>1, <1>2, <2>1, <3>1, HeldMonotone DEF MapInv, Time
  <2>2. QED
    BY <2>1 DEF MapInv
<1>5. InitializedOnce'
  <2> SUFFICES ASSUME NEW s \in Tasks, Initializing(s)'
               PROVE  location' = None /\ \A q \in Tasks : Initializing(q)' => q = s
    BY DEF InitializedOnce
  <2>1. \A q \in Tasks \ {r} : Initializing(q)' = Initializing(q)
    BY DEF Others, Initializing
  <2>2. CASE s = r
    BY <2>1, <2>2
  <2>3. CASE s # r
    BY <2>1, <2>3 DEF IInv, InitializedOnce
  <2>4. QED
    BY <2>2, <2>3
<1>6. QED
  BY <1>1, <1>3, <1>4, <1>5 DEF IInv

\* A valid map rests on an instant less than TTL ago.
LEMMA ValidMapRests ==
  ASSUME ScopeAssumption, TypeOK, MapInv(folderMap, expiry, location, Latest), MapValid(now)
  PROVE  /\ location \in Locations
         /\ \E T \in Time : T + TTL > now /\ folderMap \subseteq Reach(Held(Latest, T, location))
<1>1. location \in Locations /\ expiry - TTL \in Time /\ folderMap \subseteq Reach(Held(Latest, expiry - TTL, location))
  BY DEF MapValid, MapInv
<1>2. (expiry - TTL) + TTL > now
  BY DEF MapValid, TypeOK, Time, ScopeAssumption
<1>3. QED
  BY <1>1, <1>2

LEMMA NextIInv ==
  ASSUME ScopeAssumption, ~Reinitializes, IInv, Next
  PROVE  IInv'
<1>1. TypeOK /\ TypeOK' /\ [Next]_vars
  BY NextType DEF IInv
<1>2. /\ Latest \in Histories /\ Latest' \in Histories /\ now \in Time /\ now' \in Time
  BY <1>1, LastType DEF TypeOK, Latest, Histories, LastPlaced, Places, Time, ScopeAssumption
<1>3. /\ now <= now' /\ Later(Latest, Latest') /\ HistoryInv'
      /\ location' = location \/ location \notin Locations
  BY <1>1, StepHistory
<1>4. \A r \in Tasks : /\ task[r] \in Task /\ task'[r] \in Task
                       /\ TaskInv(task[r], now, location, Latest)
                       /\ TaskInv(task[r], now', location', Latest')
  BY <1>1, <1>2, <1>3, TaskInvStable DEF IInv, TypeOK
<1>5. ASSUME NEW r \in Tasks, NEW o \in Ops, NEW i \in Items, CallItem(r, o, i)
      PROVE  IInv'
  <2>1. Others(r) /\ task'[r] = [Fresh(o, i) EXCEPT !.pc = "item"] /\ now' = now
    BY <1>1, <1>5 DEF CallItem, Others, TypeOK
  <2>2. /\ task'[r].pc = "item" /\ task'[r].op = o /\ task'[r].reply = None
        /\ task'[r].begun = now /\ task'[r].result = "none"
    BY <2>1 DEF Fresh, NoTask
  <2>3. TaskInv(task'[r], now', location', Latest')
    BY <1>2, <2>1, <2>2 DEF TaskInv, Time
  <2>4. Initializing(r)' => location' = None /\ \A s \in Tasks \ {r} : ~Initializing(s)
    BY <1>5, <2>2 DEF CallItem, MayInitialize, Initializing, scope
  <2>5. location' = location /\ folderMap' = folderMap /\ expiry' = expiry
    BY <1>5 DEF CallItem, scope
  <2>6. QED
    BY <1>1, <2>1, <2>3, <2>4, <2>5, StepIInv
<1>6. ASSUME NEW r \in Tasks, NEW o \in MapOps, CallFolderMap(r, o)
      PROVE  IInv'
  <2> DEFINE t == Fresh(o, Root)
  <2>1. /\ t \in Task /\ UNCHANGED <<now, location, folderMap, expiry>>
        /\ Latest' = Latest
    BY <1>1, <1>6, FreshType DEF CallFolderMap, ScopeAssumption, scope, Latest, LastPlaced
  <2>2. t.op \in MapOps /\ t.begun = now /\ t.result = "none"
    BY <1>6 DEF Fresh, NoTask
  <2>3. \/ MapValid(now) /\ UseMap(r, t, folderMap, holder, queue)
        \/ AskLock(r, t, holder, queue)
    BY <1>6 DEF CallFolderMap
  <2> HIDE DEF t
  <2>4. /\ Others(r)
        /\ \/ Entered(task'[r], t, now') \/ Queued(task'[r], t)
           \/ MapValid(now) /\ Given(task'[r], t, folderMap, now')
    BY <1>1, <2>1, <2>3, UseMapEffect, AskLockEffect
  <2>5. TaskInv(task'[r], now', location', Latest')
    <3>1. CASE Entered(task'[r], t, now') \/ Queued(task'[r], t)
      BY <1>2, <1>4, <2>1, <2>2, <3>1, LockAsked DEF Time
    <3>2. CASE MapValid(now) /\ Given(task'[r], t, folderMap, now')
      <4>1. /\ location \in Locations
            /\ \E T \in Time : /\ T + TTL > now
                               /\ folderMap \subseteq Reach(Held(Latest, T, location))
        BY <1>1, <3>2, ValidMapRests DEF IInv
      <4>2. t.begun <= now'
        BY <1>2, <2>1, <2>2 DEF Time
      <4>3. QED
        BY <1>2, <1>4, <2>1, <2>2, <3>2, <4>1, <4>2, MapUsed
    <3>3. QED
      BY <2>4, <3>1, <3>2
  <2>6. ~Initializing(r)'
    BY <2>4 DEF Initializing, Entered, Queued, Given, Returned, Searching
  <2>7. QED
    BY <1>1, <2>1, <2>4, <2>5, <2>6, StepIInv
<1>7. ASSUME NEW r \in Tasks, DriveAnswers(r)
      PROVE  IInv'
  <2> DEFINE i == IF task[r].pc = "item" THEN task[r].item ELSE Root
  <2>1. /\ Others(r) /\ task'[r] = [task[r] EXCEPT !.reply = drive[i]]
        /\ UNCHANGED <<drive, now, location, folderMap, expiry, ended>> /\ Latest' = Latest
        /\ task[r].pc \in {"item", "root"}
    BY <1>1, <1>7 DEF DriveAnswers, Others, TypeOK, scope, Latest, LastPlaced
  <2>2. \A p \in Folders, l \in Locations :
          task[r].pc = "item" /\ Placed(drive[i], p, l) => Latest[<<task[r].item, p, l>>] = now
    BY <1>4 DEF Latest, LastPlaced, Places, Task
  <2>3. TaskInv(task'[r], now', location', Latest')
    BY <1>2, <1>4, <2>1, <2>2 DEF TaskInv, Task, ItemHeld, Rests, Time
  <2>4. Initializing(r)' => Initializing(r)
    BY <1>4, <2>1 DEF Initializing, Task
  <2>5. Initializing(r)' => location' = None /\ \A s \in Tasks \ {r} : ~Initializing(s)
    BY <2>1, <2>4 DEF IInv, InitializedOnce
  <2>6. QED
    BY <1>1, <2>1, <2>3, <2>5, StepIInv
<1>8. ASSUME NEW r \in Tasks, DriveServesPage(r)
      PROVE  IInv'
  <2>1. PICK page \in SUBSET Below :
          task' = [task EXCEPT ![r].scan =
                     [f \in Below |-> IF f \in page THEN drive[f] ELSE task[r].scan[f]]]
    BY <1>8 DEF DriveServesPage
  <2> DEFINE scan == [f \in Below |-> IF f \in page THEN drive[f] ELSE task[r].scan[f]]
  <2>2. /\ Others(r) /\ task'[r] = [task[r] EXCEPT !.scan = scan] /\ task[r].pc = "folders"
        /\ UNCHANGED <<drive, now, location, folderMap, expiry, ended>> /\ Latest' = Latest
    BY <1>1, <1>8, <2>1 DEF DriveServesPage, Others, TypeOK, scope, Latest, LastPlaced
  <2>3. ASSUME NEW f \in Below, NEW p \in Folders, NEW l \in Locations,
               scan[f] # None, Placed(scan[f], p, l)
        PROVE  Latest[<<f, p, l>>] >= task[r].started
    <3>1. CASE f \in page
      <4>1. Latest[<<f, p, l>>] = now
        BY <2>3, <3>1 DEF Latest, LastPlaced, Places, Below, ScopeAssumption
      <4>2. QED
        BY <1>2, <1>4, <2>2, <4>1 DEF TaskInv, Time, Task
    <3>2. CASE f \notin page
      BY <1>4, <2>2, <2>3, <3>2 DEF TaskInv
    <3>3. QED
      BY <3>1, <3>2
  <2> HIDE DEF scan
  <2>4. TaskInv(task'[r], now', location', Latest')
    BY <1>4, <2>2, <2>3 DEF TaskInv, Task, ItemHeld, Rests
  <2>5. ~Initializing(r)'
    BY <1>4, <2>2 DEF Initializing, Task
  <2>6. QED
    BY <1>1, <2>2, <2>4, <2>5, StepIInv
<1>9. ASSUME NEW r \in Tasks, Initialize(r)
      PROVE  IInv'
  <2>1. End(r) \/ Return(r, task[r], "refused", "none")
    BY <1>9 DEF Initialize
  <2>2. Others(r) /\ task'[r].pc = "idle" /\ task'[r].result # "allowed"
    BY <1>1, <1>4, <2>1, EndEffect, ReturnEffect DEF NoTask
  <2>3. TaskInv(task'[r], now', location', Latest') /\ ~Initializing(r)'
    BY <2>2 DEF TaskInv, Initializing
  <2>4. Initializing(r) /\ folderMap' = folderMap /\ expiry' = expiry
    BY <1>9 DEF Initialize, Initializing
  <2>5. QED
    BY <1>1, <2>2, <2>3, <2>4, StepIInv
<1>10. ASSUME NEW r \in Tasks, Authorize(r)
       PROVE  IInv'
  <2> DEFINE m == task[r].reply
             t == [task[r] EXCEPT !.parent = FirstParent(m)]
  <2>1. /\ task[r].pc = "item" /\ m # None /\ task[r].op # "initialize" /\ m \in Metadata
        /\ UNCHANGED <<drive, location, folderMap, expiry, ended>>
    BY <1>4, <1>10 DEF Authorize, scope, Task
  <2>2. CASE /\ now' = now
             /\ \/ Refuse(r, task[r], ItemRefusal(task[r].item, m))
                \/ /\ task[r].item = Root
                   /\ Return(r, task[r], AllowedResult(task[r]), "allow")
    <3>1. /\ Others(r) /\ task'[r].pc = "idle"
          /\ task'[r].result = "allowed" => task'[r].item = Root
      BY <1>1, <1>4, <2>2, EndEffect, ReturnEffect DEF Refuse, NoTask, Same
    <3>2. TaskInv(task'[r], now', location', Latest') /\ ~Initializing(r)'
      BY <3>1 DEF TaskInv, Initializing
    <3>3. QED
      BY <1>1, <2>1, <3>1, <3>2, StepIInv
  <2>3. CASE /\ ItemRefusal(task[r].item, m) = "none" /\ task[r].item # Root
             /\ LookUp(r, t)
    <3>1. /\ FirstParent(m) \in Folders /\ Placed(m, FirstParent(m), location)
          /\ location # None
      BY <2>1, <2>3, PassedItem DEF Placed
    <3>2. location \in Locations
      BY <1>1, <3>1 DEF TypeOK
    <3>3. Latest[<<task[r].item, FirstParent(m), location>>] >= task[r].begun
      BY <1>4, <2>1, <3>1, <3>2 DEF TaskInv
    <3>4. /\ t \in Task /\ t.item = task[r].item /\ t.begun = task[r].begun
          /\ t.op = task[r].op /\ t.result = task[r].result /\ t.parent = FirstParent(m)
      BY <1>4, <3>1 DEF Task
    <3> HIDE DEF t, m
    <3>5. ItemHeld(t, location, Latest)
      BY <1>4, <2>3, <3>1, <3>2, <3>3, <3>4 DEF ItemHeld, Task
    <3>6. ItemHeld(t, location', Latest')
      <4>1. <<t.item, t.parent, location>> \in Places
        BY <3>5 DEF ItemHeld, Places
      <4>2. t.begun \in Int
        BY <3>4 DEF Task, Time, ScopeAssumption
      <4>3. QED
        BY <1>2, <1>3, <2>1, <3>5, <4>1, <4>2 DEF ItemHeld, Later, Histories
    <3>7. t.begun <= now' /\ t.result = "none"
      BY <1>2, <1>3, <1>4, <2>1, <3>4 DEF TaskInv, Time, Task
    <3>8. /\ Others(r)
          /\ \/ Entered(task'[r], t, now') \/ Queued(task'[r], t)
             \/ MapValid(now) /\ now' = now /\ Given(task'[r], t, folderMap, now')
      BY <1>1, <2>3, <3>4, LookUpEffect
    <3>9. ASSUME Entered(task'[r], t, now') \/ Queued(task'[r], t)
          PROVE  TaskInv(task'[r], now', location', Latest')
      BY <1>2, <1>4, <3>4, <3>6, <3>7, <3>9, LockAsked
    <3>10. ASSUME MapValid(now), now' = now, Given(task'[r], t, folderMap, now')
           PROVE  TaskInv(task'[r], now', location', Latest')
      <4>1. PICK T \in Time : /\ T + TTL > now
                              /\ folderMap \subseteq Reach(Held(Latest, T, location))
        BY <1>1, <3>10, ValidMapRests DEF IInv
      <4>2. folderMap \subseteq Reach(Held(Latest', T, location')) /\ location' \in Locations
        BY <1>2, <1>3, <2>1, <3>2, <4>1, HeldMonotone DEF Time
      <4>3. QED
        BY <1>2, <1>4, <3>4, <3>6, <3>7, <3>10, <4>1, <4>2, MapUsed
    <3>11. TaskInv(task'[r], now', location', Latest')
      BY <3>8, <3>9, <3>10
    <3>12. ~Initializing(r)'
      BY <3>8 DEF Initializing, Entered, Queued, Given, Returned, Searching
    <3>13. QED
      BY <1>1, <2>1, <3>8, <3>11, <3>12, StepIInv
  <2>4. QED
    BY <1>10, <2>2, <2>3 DEF Authorize
<1>11. ASSUME NEW r \in Tasks, TakeLock(r)
       PROVE  IInv'
  <2>1. /\ UNCHANGED <<now, location, folderMap, expiry>> /\ Latest' = Latest
        /\ task[r].pc = "queued"
    BY <1>11 DEF TakeLock, scope, Latest, LastPlaced
  <2>2. /\ task[r].begun <= now /\ task[r].result = "none" /\ task[r].scan = Unread
        /\ task[r].op \notin MapOps => ItemHeld(task[r], location, Latest)
    BY <1>4, <2>1 DEF TaskInv
  <2>3. \/ MapValid(now) /\ UseMap(r, task[r], folderMap, None, Tail(queue))
        \/ Enumerate(r, task[r], Tail(queue))
    BY <1>11 DEF TakeLock, Coalesces
  <2>4. /\ Others(r)
        /\ \/ Entered(task'[r], task[r], now') \/ Queued(task'[r], task[r])
           \/ MapValid(now) /\ Given(task'[r], task[r], folderMap, now')
    BY <1>1, <1>4, <2>2, <2>3, UseMapEffect, EnumerateEffect
  <2>5. ASSUME Entered(task'[r], task[r], now') \/ Queued(task'[r], task[r])
        PROVE  TaskInv(task'[r], now', location', Latest')
    BY <1>2, <1>4, <2>1, <2>2, <2>5, LockAsked
  <2>6. ASSUME MapValid(now), Given(task'[r], task[r], folderMap, now')
        PROVE  TaskInv(task'[r], now', location', Latest')
    <3>1. PICK T \in Time : /\ T + TTL > now
                            /\ folderMap \subseteq Reach(Held(Latest, T, location))
      BY <1>1, <2>6, ValidMapRests DEF IInv
    <3>2. location \in Locations
      BY <1>1, <2>6, ValidMapRests DEF IInv
    <3>3. QED
      BY <1>2, <1>4, <2>1, <2>2, <2>6, <3>1, <3>2, MapUsed
  <2>7. TaskInv(task'[r], now', location', Latest') /\ ~Initializing(r)'
    BY <2>4, <2>5, <2>6 DEF Initializing, Entered, Queued, Given, Returned, Searching
  <2>8. QED
    BY <1>1, <2>1, <2>4, <2>7, StepIInv
<1>12. ASSUME NEW r \in Tasks, CheckRoot(r)
       PROVE  IInv'
  <2>1. /\ UNCHANGED <<now, location, folderMap, expiry>> /\ Latest' = Latest
        /\ task[r].pc = "root"
    BY <1>12 DEF CheckRoot, scope, Latest, LastPlaced
  <2>2. CASE Refuse(r, task[r], RootRefusal(task[r].reply))
    <3>1. Others(r) /\ task'[r].pc = "idle" /\ task'[r].result # "allowed"
      BY <1>1, <1>4, <2>2, EndEffect, ReturnEffect DEF Refuse, NoTask
    <3>2. TaskInv(task'[r], now', location', Latest') /\ ~Initializing(r)'
      BY <3>1 DEF TaskInv, Initializing
    <3>3. QED
      BY <1>1, <2>1, <3>1, <3>2, StepIInv
  <2>3. CASE /\ RootRefusal(task[r].reply) = "none"
             /\ task' = [task EXCEPT ![r].pc = "folders", ![r].reply = None]
    <3>1. /\ Others(r) /\ task'[r] = [task[r] EXCEPT !.pc = "folders", !.reply = None]
      BY <1>1, <2>3 DEF Others, TypeOK
    <3>2. location' \in Locations
      BY <1>1, <2>1, <2>3 DEF RootRefusal, LiveRefusal, TypeOK
    <3>3. /\ task'[r].pc = "folders" /\ task'[r].scan = Unread /\ task'[r].result = "none"
          /\ task'[r].started = task[r].started /\ Same(task'[r], task[r])
      BY <1>4, <2>1, <3>1 DEF TaskInv, Task, Same
    <3>4. task'[r].op \notin MapOps => ItemHeld(task'[r], location', Latest')
      BY <1>4, <2>1, <3>3 DEF TaskInv, ItemHeld, Same
    <3>5. TaskInv(task'[r], now', location', Latest')
      BY <1>4, <2>1, <3>2, <3>3, <3>4 DEF TaskInv, Same, Unread
    <3>6. ~Initializing(r)'
      BY <3>3 DEF Initializing
    <3>7. QED
      BY <1>1, <2>1, <3>1, <3>5, <3>6, StepIInv
  <2>4. QED
    BY <1>12, <2>2, <2>3 DEF CheckRoot
<1>13. ASSUME NEW r \in Tasks, FinishEnumeration(r)
       PROVE  IInv'
  <2> DEFINE t == task[r]
             paths == Reach(ScanEdges(t.scan))
  <2>1. /\ UNCHANGED <<now, location>> /\ Latest' = Latest /\ t.pc = "folders"
        /\ UseMap(r, t, paths, None, queue)
        /\ \/ folderMap' = paths /\ expiry' = t.started + TTL
           \/ folderMap' = folderMap /\ expiry' = expiry
    BY <1>13 DEF FinishEnumeration, Latest, LastPlaced, ExpiryOf
  <2>2. /\ t.begun <= t.started /\ t.started <= now /\ t.begun <= now /\ t.result = "none"
        /\ location \in Locations
        /\ t.op \notin MapOps => ItemHeld(t, location, Latest)
    BY <1>4, <2>1 DEF TaskInv
  <2>3. ScanEdges(t.scan) \subseteq Held(Latest, t.started, location)
    <3> SUFFICES ASSUME NEW e \in ScanEdges(t.scan)
                 PROVE  e \in Held(Latest, t.started, location)
      OBVIOUS
    <3>1. /\ e[1] \in Below /\ e[2] \in Folders /\ e \in Below \X Folders
          /\ t.scan[e[1]] # None /\ Placed(t.scan[e[1]], e[2], location)
      BY DEF ScanEdges
    <3>2. QED
      BY <1>4, <2>1, <2>2, <3>1 DEF TaskInv, Held
  <2>4. paths \subseteq Reach(Held(Latest, t.started, location))
    BY <2>3, ReachMonotone
  <2>5. /\ t.started \in Time /\ t.started \in Int /\ TTL \in Int
        /\ (t.started + TTL) - TTL = t.started
    BY <1>4 DEF Task, Time, ScopeAssumption
  <2>6. MapInv(paths, t.started + TTL, location, Latest)
    BY <2>2, <2>4, <2>5 DEF MapInv
  <2> HIDE DEF paths
  <2>7. /\ Others(r)
        /\ \/ Entered(task'[r], t, now') \/ Queued(task'[r], t)
           \/ Given(task'[r], t, paths, now')
    BY <1>1, <1>4, <2>1, UseMapEffect
  <2>8. TaskInv(task'[r], now', location', Latest')
    <3>1. CASE Entered(task'[r], t, now') \/ Queued(task'[r], t)
      BY <1>2, <1>4, <2>1, <2>2, <3>1, LockAsked
    <3>2. CASE Given(task'[r], t, paths, now')
      BY <1>2, <1>4, <2>1, <2>2, <2>4, <2>5, <3>2, MapUsed
    <3>3. QED
      BY <2>7, <3>1, <3>2
  <2>9. ~Initializing(r)'
    BY <2>7 DEF Initializing, Entered, Queued, Given, Returned, Searching
  <2>10. QED
    BY <1>1, <2>1, <2>6, <2>7, <2>8, <2>9, StepIInv
<1>14. ASSUME NEW r \in Tasks, Fail(r) \/ CancelWaiter(r)
       PROVE  IInv'
  <2>1. UNCHANGED <<now, location, folderMap, expiry>> /\ End(r)
    BY <1>14 DEF Fail, CancelWaiter, scope
  <2>2. Others(r) /\ task'[r] = NoTask
    BY <1>1, <2>1, EndEffect
  <2>3. TaskInv(task'[r], now', location', Latest') /\ ~Initializing(r)'
    BY <2>2 DEF TaskInv, NoTask, Initializing
  <2>4. QED
    BY <1>1, <2>1, <2>2, <2>3, StepIInv
<1>15. CASE \/ \E move \in Moves : ChangeDrive(move[1], move[2])
            \/ Tick
  <2>1. UNCHANGED <<task, location, folderMap, expiry>>
    BY <1>15 DEF ChangeDrive, Tick, scope
  <2>2. MapInv(folderMap, expiry, location, Latest')
    BY <1>2, <1>3, HeldMonotone DEF IInv, MapInv, Time
  <2>3. \A r \in Tasks : TaskInv(task'[r], now', location', Latest')
    BY <1>4, <2>1
  <2>4. InitializedOnce'
    BY <2>1 DEF IInv, InitializedOnce, Initializing
  <2>5. QED
    BY <1>1, <1>3, <2>1, <2>2, <2>3, <2>4 DEF IInv
<1>16. ASSUME NEW r \in Tasks, DriveFinds(r)
       PROVE  IInv'
  <2>1. PICK i \in Items :
          task' = [task EXCEPT ![r].item = i, ![r].reply = drive[i]]
    BY <1>16 DEF DriveFinds, ScopeAssumption
  <2>2. /\ Others(r) /\ task[r].pc = "hits"
        /\ task'[r] = [task[r] EXCEPT !.item = i, !.reply = drive[i]]
        /\ UNCHANGED <<drive, now, location, folderMap, expiry, ended>> /\ Latest' = Latest
    BY <1>1, <1>16, <2>1 DEF DriveFinds, Others, TypeOK, scope, Latest, LastPlaced
  <2>3. /\ task'[r].pc = "hits" /\ task'[r].op = task[r].op /\ task'[r].item = i
        /\ task'[r].reply = drive[i] /\ task'[r].begun = task[r].begun
        /\ task'[r].at = task[r].at /\ task'[r].known = task[r].known
        /\ task'[r].result = task[r].result
    BY <1>4, <2>2 DEF Task
  <2>4. \A p \in Folders, l \in Locations :
          Placed(drive[i], p, l) => Latest[<<i, p, l>>] = now
    BY DEF Latest, LastPlaced, Places
  <2>5. TaskInv(task'[r], now', location', Latest')
    BY <1>2, <1>4, <2>2, <2>3, <2>4 DEF TaskInv, Known, Time
  <2>6. ~Initializing(r)'
    BY <2>3 DEF Initializing
  <2>7. QED
    BY <1>1, <2>2, <2>5, <2>6, StepIInv
<1>17. ASSUME NEW r \in Tasks, ShowHits(r)
       PROVE  IInv'
  <2>1. /\ UNCHANGED <<now, location, folderMap, expiry>> /\ Latest' = Latest
        /\ task[r].pc = "hits" /\ ~Initializing(r)
    BY <1>17 DEF ShowHits, scope, Latest, LastPlaced, Initializing
  <2>2. CASE End(r)
    <3>1. Others(r) /\ task'[r] = NoTask
      BY <1>1, <2>2, EndEffect
    <3>2. TaskInv(task'[r], now', location', Latest') /\ ~Initializing(r)'
      BY <3>1 DEF TaskInv, NoTask, Initializing
    <3>3. QED
      BY <1>1, <2>1, <3>1, <3>2, StepIInv
  <2>3. CASE /\ task[r].reply # None /\ SafeHit(task[r].reply, task[r].known)
             /\ task' = [task EXCEPT ![r] = [task[r] EXCEPT !.pc = "idle", !.reply = None,
                           !.known = {}, !.parent = FirstParent(task[r].reply),
                           !.result = "allowed"]]
    <3> DEFINE t == task[r]
               u == task'[r]
    <3>1. /\ Others(r) /\ u.pc = "idle" /\ u.item = t.item /\ u.begun = t.begun
          /\ u.at = t.at /\ u.parent = FirstParent(t.reply)
      BY <1>1, <1>4, <2>3 DEF Others, TypeOK, Task
    <3>2. PICK p \in t.known \cap Folders : Placed(t.reply, p, location)
      BY <2>3 DEF SafeHit
    <3>3. u.parent = p
      BY <3>1, <3>2 DEF Placed, FirstParent
    <3>4. Known(t, location, Latest) /\ Latest[<<t.item, p, location>>] >= t.begun
      BY <1>4, <2>1, <2>3, <3>2 DEF TaskInv, Known
    <3> HIDE DEF t, u
    <3>5. ASSUME u.item # Root
          PROVE  Rests(u, location, Latest)
      <4>1. ItemHeld(u, location, Latest)
        <5>1. t.item \in Items /\ location \in Locations
          BY <1>4, <3>4 DEF Task, Known, t
        <5>2. QED
          BY <3>1, <3>2, <3>3, <3>4, <3>5, <5>1 DEF ItemHeld
      <4>2. QED
        BY <3>1, <3>2, <3>3, <3>4, <4>1 DEF Rests, Known
    <3>6. TaskInv(u, now', location', Latest')
      BY <2>1, <3>1, <3>5 DEF TaskInv
    <3>7. ~Initializing(r)'
      BY <3>1 DEF Initializing, u
    <3>8. QED
      BY <1>1, <2>1, <3>1, <3>6, <3>7, StepIInv DEF u
  <2>4. QED
    BY <1>17, <2>2, <2>3 DEF ShowHits
<1>18. QED
  BY <1>5, <1>6, <1>7, <1>8, <1>9, <1>10, <1>11, <1>12, <1>13, <1>14, <1>15, <1>16, <1>17
     DEF Next

\* What the invariant says of an allowed call is what the property asks.
LEMMA RestsIsBounded == ScopeAssumption /\ IInv => BoundedStaleness
<1> SUFFICES ASSUME ScopeAssumption, IInv, NEW r \in Tasks,
                    task[r].result = "allowed", task[r].item # Root
             PROVE  \E l \in Locations, T \in Time :
                      /\ LastPlaced(task[r].item, task[r].parent, l) >= task[r].begun
                      /\ T >= task[r].begun \/ T + TTL > task[r].at
                      /\ ChainHeldSince(task[r], T, l)
  BY DEF BoundedStaleness
<1>1. Rests(task[r], location, Latest)
  BY DEF IInv, TaskInv
<1>2. PICK T \in Time : /\ T >= task[r].begun \/ T + TTL > task[r].at
                        /\ task[r].parent \in Reach(Held(Latest, T, location))
  BY <1>1 DEF Rests
<1>3. /\ location \in Locations /\ <<task[r].item, task[r].parent, location>> \in Places
      /\ Latest[<<task[r].item, task[r].parent, location>>] >= task[r].begun
  BY <1>1 DEF Rests, ItemHeld, Places
<1>4. Held(Latest, T, location) = HeldSince(T, location)
  <2>1. \A e \in Below \X Folders : /\ <<e[1], e[2], location>> \in Places
                                    /\ Latest[<<e[1], e[2], location>>] =
                                         LastPlaced(e[1], e[2], location)
    BY <1>3 DEF Latest, Places, Below, ScopeAssumption
  <2>2. QED
    BY <2>1 DEF Held, HeldSince
<1>5. QED
  BY <1>2, <1>3, <1>4 DEF Latest, ChainHeldSince

\* Where the root is measured once, an item is allowed only if it was in its
\* folder during the call and every folder above it was in its parent during
\* the call or less than TTL before the answer, all in one Drive location:
\* the bound ADR 0005 promises, however calls interleave and Drive changes.
THEOREM StalenessBound == ~Reinitializes => (Spec => []BoundedStaleness)
<1> SUFFICES ASSUME ~Reinitializes
             PROVE  Spec => []BoundedStaleness
  OBVIOUS
<1>1. Init => IInv
  BY InitIInv, ScopeAssumption
<1>2. IInv /\ [Next]_vars => IInv'
  <2> SUFFICES ASSUME IInv, [Next]_vars
               PROVE  IInv'
    OBVIOUS
  <2>1. CASE Next
    BY <2>1, NextIInv, ScopeAssumption
  <2>2. CASE UNCHANGED vars
    BY <2>2 DEF vars, IInv, TypeOK, InitializedOnce, Initializing, HistoryInv, Latest, LastPlaced
  <2>3. QED
    BY <2>1, <2>2
<1>3. IInv => BoundedStaleness
  BY RestsIsBounded, ScopeAssumption
<1>4. QED
  BY <1>1, <1>2, <1>3, PTL DEF Spec

---------------------------------------------------------------------------
(***************************************************************************)
(* What the folder map does over time: it only gets younger, and is read     *)
(* anew only when it cannot answer, though calls enumerate for as long as    *)
(* they like, fail, are cancelled or come back.                             *)
(***************************************************************************)

Enumerating(t) == t.pc \in {"root", "folders"}

\* The map in store began to be read before the enumeration under way did.
AgeInv ==
  /\ TypeOK /\ OneEnumeration
  /\ expiry <= now + TTL
  /\ \A r \in Tasks : Enumerating(task[r]) =>
       task[r].started <= now /\ expiry <= task[r].started + TTL

LEMMA InitAgeInv == ScopeAssumption /\ Init => AgeInv
<1> SUFFICES ASSUME ScopeAssumption, Init PROVE AgeInv
  OBVIOUS
<1>1. TypeOK /\ OneEnumeration
  BY InitType, InitOneEnumeration
<1>2. QED
  BY <1>1 DEF Init, AgeInv, Enumerating, NoTask, ScopeAssumption

\* The task that makes the step does not enumerate after it, or has just
\* begun to, or goes on.
Continues(r) == \/ ~Enumerating(task'[r])
                \/ task'[r].started = now'
                \/ Enumerating(task[r]) /\ task'[r].started = task[r].started

LEMMA StepAge ==
  ASSUME ScopeAssumption, AgeInv, TypeOK', OneEnumeration', NEW r \in Tasks, Others(r),
         now' \in {now, now + 1}, expiry' = expiry, Continues(r)
  PROVE  AgeInv'
<1>0. TypeOK /\ TypeOK'
  BY DEF AgeInv
<1>1. now \in Int /\ expiry \in Int /\ TTL \in Int
  BY <1>0 DEF TypeOK, Time, ScopeAssumption
<1>2. \A s \in Tasks : task[s].started \in Int /\ task'[s].started \in Int
  <2>1. \A s \in Tasks : task[s] \in Task
    BY <1>0 DEF TypeOK
  <2>2. \A s \in Tasks : task'[s] \in Task
    BY <1>0 DEF TypeOK
  <2>3. QED
    BY <2>1, <2>2 DEF Task, Time, ScopeAssumption
<1>3. now' \in Int /\ now <= now'
  BY <1>1
<1>4. expiry' <= now' + TTL
  <2>1. expiry <= now + TTL
    BY DEF AgeInv
  <2>2. \A e, m, n, w \in Int : e <= m + w /\ m <= n => e <= n + w
    OBVIOUS
  <2>3. QED
    BY <1>1, <1>3, <2>1, <2>2
<1>5. ASSUME NEW s \in Tasks, Enumerating(task'[s])
      PROVE  task'[s].started <= now' /\ expiry' <= task'[s].started + TTL
  <2>1. CASE s = r
    BY <1>1, <1>2, <1>3, <1>4, <1>5, <2>1 DEF AgeInv, Continues
  <2>2. CASE s # r
    BY <1>1, <1>2, <1>3, <1>5, <2>2 DEF AgeInv, Others
  <2>3. QED
    BY <2>1, <2>2
<1>6. QED
  BY <1>4, <1>5 DEF AgeInv

\* What a call that asks for the map, or was given one, does next.
LEMMA EffectContinues ==
  ASSUME NEW r \in Tasks, NEW t, NEW m,
         Entered(task'[r], t, now') \/ Queued(task'[r], t) \/ Given(task'[r], t, m, now')
  PROVE  Continues(r)
BY DEF Entered, Queued, Given, Returned, Searching, Continues, Enumerating

LEMMA NextAgeInv ==
  ScopeAssumption /\ AgeInv /\ [Next]_vars =>
    AgeInv' /\ (folderMap # {} => expiry' >= expiry)
<1> SUFFICES ASSUME ScopeAssumption, AgeInv, [Next]_vars
             PROVE  AgeInv' /\ expiry' >= expiry
  OBVIOUS
<1>1. TypeOK /\ OneEnumeration /\ TypeOK' /\ OneEnumeration'
  BY NextType, NextOneEnumeration DEF AgeInv
<1>2. now \in Int /\ expiry \in Int /\ \A r \in Tasks : task[r] \in Task
  BY <1>1 DEF TypeOK, Time, ScopeAssumption
<1>3. ASSUME NEW r \in Tasks, Others(r), now' \in {now, now + 1}, expiry' = expiry, Continues(r)
      PROVE  AgeInv' /\ expiry' >= expiry
  BY <1>1, <1>2, <1>3, StepAge
<1>4. ASSUME NEW r \in Tasks, NEW o \in Ops, NEW i \in Items, CallItem(r, o, i)
      PROVE  AgeInv' /\ expiry' >= expiry
  <2>1. Others(r) /\ now' = now /\ expiry' = expiry /\ task'[r].pc = "item"
    BY <1>1, <1>4 DEF CallItem, scope, Others, TypeOK, Fresh, NoTask
  <2>2. QED
    BY <1>3, <2>1 DEF Continues, Enumerating
<1>5. ASSUME NEW r \in Tasks, NEW o \in MapOps, CallFolderMap(r, o)
      PROVE  AgeInv' /\ expiry' >= expiry
  <2> DEFINE t == Fresh(o, Root)
  <2>1. t \in Task /\ now' = now /\ expiry' = expiry
    BY <1>1, <1>5, FreshType DEF CallFolderMap, ScopeAssumption, scope
  <2>2. UseMap(r, t, folderMap, holder, queue) \/ AskLock(r, t, holder, queue)
    BY <1>5 DEF CallFolderMap
  <2> HIDE DEF t
  <2>3. /\ Others(r)
        /\ Entered(task'[r], t, now') \/ Queued(task'[r], t)
             \/ Given(task'[r], t, folderMap, now')
    BY <1>1, <2>1, <2>2, UseMapEffect, AskLockEffect
  <2>4. QED
    BY <1>3, <2>1, <2>3, EffectContinues
<1>6. ASSUME NEW r \in Tasks, DriveAnswers(r) \/ DriveServesPage(r)
      PROVE  AgeInv' /\ expiry' >= expiry
  <2>1. now' = now /\ expiry' = expiry
    BY <1>6 DEF DriveAnswers, DriveServesPage, scope
  <2>2. /\ Others(r)
        /\ task'[r].pc = task[r].pc /\ task'[r].started = task[r].started
    <3>1. CASE DriveAnswers(r)
      BY <1>1, <1>2, <3>1 DEF DriveAnswers, Others, TypeOK, Task
    <3>2. CASE DriveServesPage(r)
      <4>1. PICK page :
              task' = [task EXCEPT ![r].scan =
                         [f \in Below |-> IF f \in page THEN drive[f] ELSE task[r].scan[f]]]
        BY <3>2 DEF DriveServesPage
      <4>2. QED
        BY <1>1, <1>2, <4>1 DEF Others, TypeOK, Task
    <3>3. QED
      BY <1>6, <3>1, <3>2
  <2>3. QED
    BY <1>3, <2>1, <2>2 DEF Continues, Enumerating
<1>7. ASSUME NEW r \in Tasks, Initialize(r)
      PROVE  AgeInv' /\ expiry' >= expiry
  <2>1. now' = now /\ expiry' = expiry /\ (End(r) \/ Return(r, task[r], "refused", "none"))
    BY <1>7 DEF Initialize
  <2>2. Others(r) /\ task'[r].pc = "idle"
    BY <1>1, <1>2, <2>1, EndEffect, ReturnEffect DEF NoTask
  <2>3. QED
    BY <1>3, <2>1, <2>2 DEF Continues, Enumerating
<1>8. ASSUME NEW r \in Tasks, NEW t \in Task, NEW why, Refuse(r, t, why)
      PROVE  Others(r) /\ task'[r].pc = "idle"
  BY <1>1, <1>8, EndEffect, ReturnEffect DEF Refuse, NoTask
<1>9. ASSUME NEW r \in Tasks, Authorize(r)
      PROVE  AgeInv' /\ expiry' >= expiry
  <2> DEFINE t == [task[r] EXCEPT !.parent = FirstParent(task[r].reply)]
  <2>1. expiry' = expiry
    BY <1>9 DEF Authorize, scope
  <2>2. CASE now' = now /\ \E why : Refuse(r, task[r], why)
    BY <1>2, <1>3, <1>8, <2>1, <2>2 DEF Continues, Enumerating
  <2>3. CASE now' = now /\ Return(r, task[r], AllowedResult(task[r]), "allow")
    <3>1. Others(r) /\ task'[r].pc = "idle"
      BY <1>1, <1>2, <2>3, ReturnEffect
    <3>2. QED
      BY <1>3, <2>1, <2>3, <3>1 DEF Continues, Enumerating
  <2>4. CASE /\ LookUp(r, t)
             /\ ItemRefusal(task[r].item, task[r].reply) = "none" /\ task[r].item # Root
             /\ task[r].reply # None
    <3>1. t \in Task
      <4>1. task[r].reply \in Metadata /\ task[r].item # Root
        BY <1>2, <2>4 DEF Task
      <4>2. FirstParent(task[r].reply) \in Folders
        BY <2>4, <4>1, PassedItem
      <4>3. QED
        BY <1>2, <4>2 DEF Task
    <3> HIDE DEF t
    <3>2. /\ Others(r) /\ now' \in {now, now + 1}
          /\ Entered(task'[r], t, now') \/ Queued(task'[r], t)
               \/ Given(task'[r], t, folderMap, now')
      BY <1>1, <2>4, <3>1, LookUpEffect
    <3>3. QED
      BY <1>3, <2>1, <3>2, EffectContinues
  <2>5. QED
    BY <1>9, <2>2, <2>3, <2>4 DEF Authorize
<1>10. ASSUME NEW r \in Tasks, TakeLock(r)
       PROVE  AgeInv' /\ expiry' >= expiry
  <2>1. now' = now /\ expiry' = expiry
    BY <1>10 DEF TakeLock, scope
  <2>2. CASE UseMap(r, task[r], folderMap, None, Tail(queue))
    <3>1. /\ Others(r)
          /\ Entered(task'[r], task[r], now') \/ Queued(task'[r], task[r])
               \/ Given(task'[r], task[r], folderMap, now')
      BY <1>1, <1>2, <2>2, UseMapEffect
    <3>2. QED
      BY <1>3, <2>1, <3>1, EffectContinues
  <2>3. CASE Enumerate(r, task[r], Tail(queue))
    <3>1. Others(r) /\ task'[r].started = now'
      BY <1>1, <1>2, <2>3 DEF Enumerate, EnumerationStart, Others, TypeOK, Task
    <3>2. QED
      BY <1>3, <2>1, <3>1 DEF Continues
  <2>4. QED
    BY <1>10, <2>2, <2>3 DEF TakeLock
<1>11. ASSUME NEW r \in Tasks, CheckRoot(r)
       PROVE  AgeInv' /\ expiry' >= expiry
  <2>1. now' = now /\ expiry' = expiry /\ Enumerating(task[r])
    BY <1>11 DEF CheckRoot, scope, Enumerating
  <2>2. CASE Refuse(r, task[r], RootRefusal(task[r].reply))
    <3>1. Others(r) /\ task'[r].pc = "idle"
      BY <1>2, <1>8, <2>2
    <3>2. QED
      BY <1>3, <2>1, <3>1 DEF Continues, Enumerating
  <2>3. CASE task' = [task EXCEPT ![r].pc = "folders", ![r].reply = None]
    <3>1. Others(r) /\ task'[r].started = task[r].started
      BY <1>1, <1>2, <2>3 DEF Others, TypeOK, Task
    <3>2. QED
      BY <1>3, <2>1, <3>1 DEF Continues
  <2>4. QED
    BY <1>11, <2>2, <2>3 DEF CheckRoot
<1>12. ASSUME NEW r \in Tasks, FinishEnumeration(r)
       PROVE  AgeInv' /\ expiry' >= expiry
  \* Nobody else enumerates, so the new map has only to be no older than the
  \* one in store, which AgeInv says of the task that read it.
  <2> DEFINE paths == Reach(ScanEdges(task[r].scan))
  <2>1. now' = now /\ Enumerating(task[r]) /\ expiry' \in {expiry, task[r].started + TTL}
    BY <1>12 DEF FinishEnumeration, Enumerating, ExpiryOf
  <2>2. UseMap(r, task[r], paths, None, queue)
    BY <1>12 DEF FinishEnumeration
  <2> HIDE DEF paths
  <2>3. /\ Others(r)
        /\ Entered(task'[r], task[r], now') \/ Queued(task'[r], task[r])
             \/ Given(task'[r], task[r], paths, now')
    BY <1>1, <1>2, <2>2, UseMapEffect
  <2>4. /\ task[r].started \in Int /\ TTL \in Int
        /\ task[r].started <= now /\ expiry <= task[r].started + TTL
    BY <1>2, <2>1 DEF AgeInv, Task, Time, ScopeAssumption
  <2>5. expiry' \in Int /\ expiry' >= expiry /\ expiry' <= now + TTL
    BY <1>2, <2>1, <2>4
  <2>6. ASSUME NEW s \in Tasks, Enumerating(task'[s])
        PROVE  task'[s].started <= now' /\ expiry' <= task'[s].started + TTL
    <3>1. s = r
      BY <1>1, <2>1, <2>3, <2>6 DEF OneEnumeration, Enumerating, Others
    <3>2. task'[s].started = now'
      BY <2>3, <2>6, <3>1 DEF Entered, Queued, Given, Returned, Searching, Enumerating
    <3>3. QED
      BY <1>2, <2>1, <2>5, <3>2
  <2>7. QED
    BY <1>1, <2>1, <2>5, <2>6 DEF AgeInv
<1>13. ASSUME NEW r \in Tasks, Fail(r) \/ CancelWaiter(r)
       PROVE  AgeInv' /\ expiry' >= expiry
  <2>1. now' = now /\ expiry' = expiry /\ End(r)
    BY <1>13 DEF Fail, CancelWaiter, scope
  <2>2. Others(r) /\ task'[r].pc = "idle"
    BY <1>1, <2>1, EndEffect DEF NoTask
  <2>3. QED
    BY <1>3, <2>1, <2>2 DEF Continues, Enumerating
<1>14. ASSUME (\E move \in Moves : ChangeDrive(move[1], move[2])) \/ Tick \/ UNCHANGED vars
       PROVE  AgeInv' /\ expiry' >= expiry
  <2>1. task' = task /\ expiry' = expiry /\ now' \in {now, now + 1}
    BY <1>14 DEF ChangeDrive, Tick, scope, vars
  <2>2. TTL \in Int /\ \A r \in Tasks : task[r].started \in Int
    BY <1>2 DEF Task, Time, ScopeAssumption
  <2>3. expiry' >= expiry /\ expiry' <= now' + TTL
    BY <1>2, <2>1, <2>2 DEF AgeInv
  <2>4. ASSUME NEW r \in Tasks, Enumerating(task'[r])
        PROVE  task'[r].started <= now' /\ expiry' <= task'[r].started + TTL
    BY <1>2, <2>1, <2>2, <2>4 DEF AgeInv
  <2>5. QED
    BY <1>1, <2>3, <2>4 DEF AgeInv
<1>15. ASSUME NEW r \in Tasks, DriveFinds(r)
       PROVE  AgeInv' /\ expiry' >= expiry
  <2>1. now' = now /\ expiry' = expiry
    BY <1>15 DEF DriveFinds, scope
  <2>2. PICK i : task' = [task EXCEPT ![r].item = i, ![r].reply = drive[i]]
    BY <1>15 DEF DriveFinds
  <2>3. Others(r) /\ task'[r].pc = task[r].pc /\ task'[r].started = task[r].started
    BY <1>1, <1>2, <2>2 DEF Others, TypeOK, Task
  <2>4. QED
    BY <1>3, <2>1, <2>3 DEF Continues, Enumerating
<1>16. ASSUME NEW r \in Tasks, ShowHits(r)
       PROVE  AgeInv' /\ expiry' >= expiry
  <2>1. now' = now /\ expiry' = expiry
    BY <1>16 DEF ShowHits, scope
  <2>2. Others(r) /\ task'[r].pc = "idle"
    BY <1>1, <1>16, ShownEffect
  <2>3. QED
    BY <1>3, <2>1, <2>2 DEF Continues, Enumerating
<1>17. QED
  BY <1>4, <1>5, <1>6, <1>7, <1>9, <1>10, <1>11, <1>12, <1>13, <1>14, <1>15, <1>16 DEF Next

\* scope.py:345-351: the folder map in store is never replaced by one whose
\* reading began earlier, however long enumerations take.
THEOREM MapOnlyGetsYounger == Spec => MapNeverOlder
<1>1. Init => AgeInv
  BY InitAgeInv, ScopeAssumption
<1>2. AgeInv /\ [Next]_vars => AgeInv' /\ [folderMap # {} => expiry' >= expiry]_vars
  BY NextAgeInv, ScopeAssumption
<1>3. QED
  BY <1>1, <1>2, PTL DEF Spec, MapNeverOlder

---------------------------------------------------------------------------
(* Enumerations for news.                                                   *)

\* The map as it is after the step cannot answer the call u.
Unanswered(u) == MapValid(now)' => u.op \notin MapOps /\ u.parent \notin folderMap'

\* If the call u waits for the lock, or enumerates, it asked when the map was
\* what it is after the step, and that map cannot answer it.
Asked(u) == u.pc \in {"root", "queued"} =>
              Unanswered(u) /\ (u.pc = "queued" => u.seen = generation')

\* A call waits for a map that is new to it: until another enumeration is
\* complete, the one in store is invalid or does not name its parent.
NewsInv ==
  /\ TypeOK
  /\ TTL = 0 => folderMap = {}
  /\ \A r \in Tasks : task[r].pc = "queued" =>
       /\ task[r].seen <= generation
       /\ task[r].seen = generation /\ MapValid(now) =>
            task[r].op \notin MapOps /\ task[r].parent \notin folderMap

News(r) == /\ task[r].pc \notin {"root", "folders"} /\ task'[r].pc = "root" /\ MapValid(now)'
           => task'[r].op \notin MapOps /\ task'[r].parent \notin folderMap'

LEMMA InitNewsInv == ScopeAssumption /\ Init => NewsInv
<1> SUFFICES ASSUME ScopeAssumption, Init PROVE NewsInv
  OBVIOUS
<1>1. TypeOK
  BY InitType
<1>2. QED
  BY <1>1 DEF Init, NewsInv, NoTask

\* The map is the same after the step, or an enumeration is complete.
SameMap == /\ folderMap' = folderMap /\ expiry' = expiry /\ generation' = generation
           /\ now' \in {now, now + 1}
NewMap == generation' = generation + 1 /\ (TTL = 0 => folderMap' = {})

LEMMA ValidBefore ==
  ASSUME TypeOK, SameMap, MapValid(now)'
  PROVE  MapValid(now)
<1>1. now \in Int /\ expiry \in Int
  BY DEF TypeOK, Time
<1>2. QED
  BY <1>1 DEF SameMap, MapValid

LEMMA StepNews ==
  ASSUME NewsInv, TypeOK', SameMap \/ NewMap, NEW r \in Tasks, Others(r),
         task'[r].pc = "queued" => Asked(task'[r])
  PROVE  NewsInv'
<1>1. generation \in Nat /\ \A s \in Tasks : task[s].seen \in Nat
  BY DEF NewsInv, TypeOK, Task
<1>2. TTL = 0 => folderMap' = {}
  BY DEF NewsInv, SameMap, NewMap
<1>3. ASSUME NEW s \in Tasks, task'[s].pc = "queued"
      PROVE  /\ task'[s].seen <= generation'
             /\ task'[s].seen = generation' /\ MapValid(now)' =>
                  task'[s].op \notin MapOps /\ task'[s].parent \notin folderMap'
  <2>1. CASE s = r
    BY <1>1, <1>3, <2>1 DEF Asked, Unanswered, SameMap, NewMap
  <2>2. CASE s # r
    <3>1. task'[s] = task[s] /\ task[s].seen <= generation
      BY <1>3, <2>2 DEF Others, NewsInv
    <3>2. CASE SameMap
      BY <1>3, <3>1, <3>2, ValidBefore DEF NewsInv, SameMap
    <3>3. CASE NewMap
      BY <1>1, <3>1, <3>3 DEF NewMap
    <3>4. QED
      BY <3>2, <3>3
  <2>3. QED
    BY <2>1, <2>2
<1>4. QED
  BY <1>2, <1>3 DEF NewsInv

\* The actions that ask for the lock do so when the map cannot answer.
LEMMA AskLockAsks ==
  ASSUME TypeOK, NEW r \in Tasks, NEW t \in Task, NEW h, NEW q, AskLock(r, t, h, q),
         Unanswered(t)
  PROVE  Others(r) /\ Asked(task'[r])
<1> DEFINE asking == [t EXCEPT !.reply = None, !.scan = Unread, !.seen = generation']
<1>1. CASE Enumerate(r, asking, q)
  BY <1>1 DEF Enumerate, Others, Asked, Unanswered, TypeOK, Task
<1>2. CASE task' = [task EXCEPT ![r] = [asking EXCEPT !.pc = "queued"]]
  BY <1>2 DEF Others, Asked, Unanswered, TypeOK, Task
<1>3. QED
  BY <1>1, <1>2 DEF AskLock

LEMMA UseMapAsks ==
  ASSUME TypeOK, NEW r \in Tasks, NEW t \in Task, NEW m, NEW h, NEW q, UseMap(r, t, m, h, q),
         MapValid(now)' => folderMap' = m
  PROVE  Others(r) /\ Asked(task'[r])
<1>1. CASE t.op \notin MapOps /\ t.parent \notin m /\ AskLock(r, [t EXCEPT !.retry = FALSE], h, q)
  <2> DEFINE u == [t EXCEPT !.retry = FALSE]
  <2>1. u \in Task /\ u.op = t.op /\ u.parent = t.parent
    BY DEF Task
  <2>2. AskLock(r, u, h, q) /\ Unanswered(t)
    BY <1>1 DEF Unanswered
  <2> HIDE DEF u
  <2>3. Unanswered(u)
    BY <2>1, <2>2 DEF Unanswered
  <2>4. QED
    BY <2>1, <2>2, <2>3, AskLockAsks
<1>2. CASE \/ End(r) \/ Return(r, t, AllowedResult(t), "allow")
           \/ Return(r, t, "refused", "outside_subtree")
           \/ t.op = "search" /\ AskForHits(r, t, m)
  <2>1. Others(r) /\ task'[r].pc \notin {"root", "queued"}
    BY <1>2, EndEffect, ReturnEffect, AskForHitsEffect DEF NoTask, Searching
  <2>2. QED
    BY <2>1 DEF Asked
<1>3. QED
  BY <1>1, <1>2 DEF UseMap

LEMMA LookUpAsks ==
  ASSUME TypeOK, NEW r \in Tasks, NEW t \in Task, LookUp(r, t), UNCHANGED <<folderMap, expiry>>
  PROVE  Others(r) /\ Asked(task'[r]) /\ now' \in {now, now + 1}
<1> DEFINE u == [t EXCEPT !.retry = TRUE]
<1>1. u \in Task
  BY DEF Task
<1>2. CASE now' = now /\ UseMap(r, u, folderMap, holder, queue)
  <2> HIDE DEF u
  <2>1. QED
    BY <1>1, <1>2, UseMapAsks
<1>3. CASE now' = now /\ ~MapValid(now) /\ AskLock(r, t, holder, queue)
  <2>1. Unanswered(t)
    BY <1>3 DEF Unanswered, MapValid
  <2>2. QED
    BY <1>3, <2>1, AskLockAsks
<1>4. CASE now' = now + 1 /\ ~MapValid(now + 1) /\ AskLock(r, u, holder, queue)
  <2> HIDE DEF u
  <2>1. Unanswered(u)
    BY <1>4 DEF Unanswered, MapValid
  <2>2. QED
    BY <1>1, <1>4, <2>1, AskLockAsks
<1>5. QED
  BY <1>2, <1>3, <1>4 DEF LookUp

LEMMA NextNews ==
  ScopeAssumption /\ NewsInv /\ [Next]_vars => NewsInv' /\ \A r \in Tasks : News(r)
<1> SUFFICES ASSUME ScopeAssumption, NewsInv, [Next]_vars
             PROVE  NewsInv' /\ \A r \in Tasks : News(r)
  OBVIOUS
<1>1. TypeOK /\ TypeOK' /\ \A r \in Tasks : task[r] \in Task
  BY NextType DEF NewsInv, TypeOK
\* What every case comes to.
<1>2. ASSUME NEW r \in Tasks, Others(r), SameMap \/ NewMap, Asked(task'[r]) \/ task'[r].pc # "queued",
             Asked(task'[r]) \/ task'[r].pc # "root" \/ task[r].pc \in {"root", "folders"}
      PROVE  NewsInv' /\ \A s \in Tasks : News(s)
  <2>1. NewsInv'
    BY <1>1, <1>2, StepNews
  <2>2. ASSUME NEW s \in Tasks
        PROVE  News(s)
    BY <1>2 DEF News, Asked, Unanswered, Others
  <2>3. QED
    BY <2>1, <2>2
<1>3. ASSUME NEW r \in Tasks, NEW o \in Ops, NEW i \in Items, CallItem(r, o, i)
      PROVE  NewsInv' /\ \A s \in Tasks : News(s)
  <2>1. Others(r) /\ SameMap /\ task'[r].pc = "item"
    BY <1>1, <1>3 DEF CallItem, scope, SameMap, Others, TypeOK, Fresh, NoTask
  <2>2. QED
    BY <1>2, <2>1
<1>4. ASSUME NEW r \in Tasks, NEW o \in MapOps, CallFolderMap(r, o)
      PROVE  NewsInv' /\ \A s \in Tasks : News(s)
  <2> DEFINE t == Fresh(o, Root)
  <2>1. t \in Task /\ SameMap
    BY <1>1, <1>4, FreshType DEF CallFolderMap, ScopeAssumption, scope, SameMap
  <2>2. \/ UseMap(r, t, folderMap, holder, queue)
        \/ ~MapValid(now) /\ AskLock(r, t, holder, queue)
    BY <1>4 DEF CallFolderMap
  <2>3. now' = now
    BY <1>4 DEF CallFolderMap
  <2> HIDE DEF t
  <2>4. CASE UseMap(r, t, folderMap, holder, queue)
    BY <1>1, <1>2, <2>1, <2>4, UseMapAsks DEF SameMap
  <2>5. CASE ~MapValid(now) /\ AskLock(r, t, holder, queue)
    <3>1. Unanswered(t)
      BY <2>1, <2>3, <2>5 DEF Unanswered, MapValid, SameMap
    <3>2. QED
      BY <1>1, <1>2, <2>1, <2>5, <3>1, AskLockAsks
  <2>6. QED
    BY <2>2, <2>4, <2>5
<1>5. ASSUME NEW r \in Tasks, DriveAnswers(r) \/ DriveServesPage(r) \/ DriveFinds(r)
      PROVE  NewsInv' /\ \A s \in Tasks : News(s)
  <2>1. SameMap
    BY <1>5 DEF DriveAnswers, DriveServesPage, DriveFinds, scope, SameMap
  <2>2. Others(r) /\ task'[r].pc = task[r].pc /\ task[r].pc # "queued"
    <3>1. CASE DriveAnswers(r)
      BY <1>1, <3>1 DEF DriveAnswers, Others, TypeOK, Task
    <3>2. CASE DriveServesPage(r)
      <4>1. PICK page :
              task' = [task EXCEPT ![r].scan =
                         [f \in Below |-> IF f \in page THEN drive[f] ELSE task[r].scan[f]]]
        BY <3>2 DEF DriveServesPage
      <4>2. QED
        BY <1>1, <3>2, <4>1 DEF DriveServesPage, Others, TypeOK, Task
    <3>3. CASE DriveFinds(r)
      <4>1. PICK i : task' = [task EXCEPT ![r].item = i, ![r].reply = drive[i]]
        BY <3>3 DEF DriveFinds
      <4>2. QED
        BY <1>1, <3>3, <4>1 DEF DriveFinds, Others, TypeOK, Task
    <3>4. QED
      BY <1>5, <3>1, <3>2, <3>3
  <2>3. QED
    BY <1>2, <2>1, <2>2
<1>6. ASSUME NEW r \in Tasks, Others(r), SameMap, task'[r].pc = "idle"
      PROVE  NewsInv' /\ \A s \in Tasks : News(s)
  BY <1>2, <1>6
<1>7. ASSUME NEW r \in Tasks, Initialize(r)
      PROVE  NewsInv' /\ \A s \in Tasks : News(s)
  <2>1. SameMap /\ (End(r) \/ Return(r, task[r], "refused", "none"))
    BY <1>7 DEF Initialize, SameMap
  <2>2. Others(r) /\ task'[r].pc = "idle"
    BY <1>1, <2>1, EndEffect, ReturnEffect DEF NoTask
  <2>3. QED
    BY <1>6, <2>1, <2>2
<1>8. ASSUME NEW r \in Tasks, NEW why, Refuse(r, task[r], why)
      PROVE  Others(r) /\ task'[r].pc = "idle"
  BY <1>1, <1>8, EndEffect, ReturnEffect DEF Refuse, NoTask
<1>9. ASSUME NEW r \in Tasks, Authorize(r)
      PROVE  NewsInv' /\ \A s \in Tasks : News(s)
  <2> DEFINE t == [task[r] EXCEPT !.parent = FirstParent(task[r].reply)]
  <2>1. folderMap' = folderMap /\ expiry' = expiry /\ generation' = generation
    BY <1>9 DEF Authorize, scope
  <2>2. CASE now' = now /\ \E why : Refuse(r, task[r], why)
    BY <1>6, <1>8, <2>1, <2>2 DEF SameMap
  <2>3. CASE now' = now /\ Return(r, task[r], AllowedResult(task[r]), "allow")
    BY <1>1, <1>6, <2>1, <2>3, ReturnEffect DEF SameMap
  <2>4. CASE /\ LookUp(r, t)
             /\ ItemRefusal(task[r].item, task[r].reply) = "none" /\ task[r].item # Root
             /\ task[r].reply # None
    <3>1. t \in Task
      <4>1. task[r].reply \in Metadata /\ task[r].item # Root
        BY <1>1, <2>4 DEF Task
      <4>2. FirstParent(task[r].reply) \in Folders
        BY <2>4, <4>1, PassedItem
      <4>3. QED
        BY <1>1, <4>2 DEF Task
    <3> HIDE DEF t
    <3>2. QED
      BY <1>1, <1>2, <2>1, <2>4, <3>1, LookUpAsks DEF SameMap
  <2>5. QED
    BY <1>9, <2>2, <2>3, <2>4 DEF Authorize
\* A call that waited enumerates for the reason it queued for, unless the map
\* in store is another one now, and then only if that is invalid.
<1>10. ASSUME NEW r \in Tasks, TakeLock(r)
       PROVE  NewsInv' /\ \A s \in Tasks : News(s)
  <2>1. SameMap /\ now' = now /\ task[r].pc = "queued"
    BY <1>10 DEF TakeLock, scope, SameMap
  <2>2. CASE UseMap(r, task[r], folderMap, None, Tail(queue))
    BY <1>1, <1>2, <2>1, <2>2, UseMapAsks DEF SameMap
  <2>3. CASE ~Coalesces(task[r]) /\ Enumerate(r, task[r], Tail(queue))
    <3>1. Unanswered(task[r])
      BY <2>1, <2>3 DEF Unanswered, Coalesces, MapValid, SameMap, NewsInv
    <3>2. /\ Others(r) /\ task'[r].pc = "root"
          /\ task'[r].op = task[r].op /\ task'[r].parent = task[r].parent
      BY <1>1, <2>3 DEF Enumerate, Others, TypeOK, Task
    <3>3. Asked(task'[r])
      BY <3>1, <3>2 DEF Asked, Unanswered
    <3>4. QED
      BY <1>2, <2>1, <3>2, <3>3
  <2>4. QED
    BY <1>10, <2>2, <2>3 DEF TakeLock
<1>11. ASSUME NEW r \in Tasks, CheckRoot(r)
       PROVE  NewsInv' /\ \A s \in Tasks : News(s)
  <2>1. SameMap
    BY <1>11 DEF CheckRoot, scope, SameMap
  <2>2. CASE Refuse(r, task[r], RootRefusal(task[r].reply))
    BY <1>6, <1>8, <2>1, <2>2
  <2>3. CASE task' = [task EXCEPT ![r].pc = "folders", ![r].reply = None]
    <3>1. Others(r) /\ task'[r].pc = "folders"
      BY <1>1, <2>3 DEF Others, TypeOK, Task
    <3>2. QED
      BY <1>2, <2>1, <3>1
  <2>4. QED
    BY <1>11, <2>2, <2>3 DEF CheckRoot
<1>12. ASSUME NEW r \in Tasks, FinishEnumeration(r)
       PROVE  NewsInv' /\ \A s \in Tasks : News(s)
  <2> DEFINE paths == Reach(ScanEdges(task[r].scan))
  <2>1. /\ UseMap(r, task[r], paths, None, queue) /\ task[r].pc = "folders"
        /\ generation' = generation + 1
        /\ IF TTL > 0 THEN folderMap' = paths ELSE UNCHANGED folderMap
    BY <1>12 DEF FinishEnumeration
  <2> HIDE DEF paths
  <2>2. TTL \in Nat /\ (TTL = 0 => folderMap = {})
    BY DEF ScopeAssumption, NewsInv
  <2>3. TTL = 0 => folderMap' = {}
    BY <2>1, <2>2
  <2>4. NewMap
    BY <2>1, <2>3 DEF NewMap
  <2>5. MapValid(now)' => folderMap' = paths
    BY <2>1, <2>2, <2>3 DEF MapValid
  <2>6. QED
    BY <1>1, <1>2, <2>1, <2>4, <2>5, UseMapAsks
<1>13. ASSUME NEW r \in Tasks, Fail(r) \/ CancelWaiter(r)
       PROVE  NewsInv' /\ \A s \in Tasks : News(s)
  <2>1. SameMap /\ End(r)
    BY <1>13 DEF Fail, CancelWaiter, scope, SameMap
  <2>2. Others(r) /\ task'[r].pc = "idle"
    BY <1>1, <2>1, EndEffect DEF NoTask
  <2>3. QED
    BY <1>6, <2>1, <2>2
<1>14. ASSUME NEW r \in Tasks, ShowHits(r)
       PROVE  NewsInv' /\ \A s \in Tasks : News(s)
  <2>1. SameMap
    BY <1>14 DEF ShowHits, scope, SameMap
  <2>2. QED
    BY <1>1, <1>6, <1>14, <2>1, ShownEffect
<1>15. ASSUME (\E move \in Moves : ChangeDrive(move[1], move[2])) \/ Tick \/ UNCHANGED vars
       PROVE  NewsInv' /\ \A s \in Tasks : News(s)
  <2>1. task' = task /\ SameMap
    BY <1>15 DEF ChangeDrive, Tick, scope, vars, SameMap
  <2>2. NewsInv'
    BY <1>1, <2>1, ValidBefore DEF NewsInv, SameMap
  <2>3. QED
    BY <2>1, <2>2 DEF News
<1>16. QED
  BY <1>3, <1>4, <1>5, <1>7, <1>9, <1>10, <1>11, <1>12, <1>13, <1>14, <1>15 DEF Next

\* scope.py:339-344: no call enumerates under a valid map that can answer it,
\* however many wait for the same news.
THEOREM NoIdleEnumeration == Spec => EnumeratesForNews
<1>1. Init => NewsInv
  BY InitNewsInv, ScopeAssumption
<1>2. NewsInv /\ [Next]_vars =>
        NewsInv' /\ [\A r \in Tasks :
          task[r].pc \notin {"root", "folders"} /\ task'[r].pc = "root" /\ MapValid(now)'
            => task'[r].op \notin MapOps /\ task'[r].parent \notin folderMap']_vars
  BY NextNews, ScopeAssumption DEF News
<1>3. QED
  BY <1>1, <1>2, PTL DEF Spec, EnumeratesForNews

---------------------------------------------------------------------------
(***************************************************************************)
(* A denial is true: an item refused as outside the subtree is outside it,  *)
(* unless people changed Drive while the call ran, or an enumeration was     *)
(* under way when it began.                                                 *)
(*                                                                         *)
(* Such a call is undisturbed.  While one is in flight, every page that any  *)
(* enumeration has read is Drive as it is now, and so is every map stored    *)
(* since the call asked for the lock.                                       *)
(***************************************************************************)

\* The live read of t's item is Drive as it is now.
ItemNow(t) == t.item # Root /\ location # None /\ drive[t.item].parents = {t.parent}

TaskNow(r) ==
  LET t == task[r] IN
  /\ t.since <= changes
  /\ t.pc # "idle" => t.record = "none"
  /\ t.quiet /\ t.since = changes =>
       /\ t.pc = "item" /\ t.reply # None => t.reply = drive[t.item]
       /\ t.pc \in {"queued", "root", "folders"} /\ t.op \notin MapOps => ItemNow(t)
       /\ t.pc = "queued" /\ t.seen # generation /\ MapValid(now) => folderMap = SubtreeNow
       /\ t.record = "outside_subtree" => location # None /\ ~InSubtree(t.item)

Undisturbed(r) == task[r].pc # "idle" /\ task[r].quiet /\ task[r].since = changes

ScansNow ==
  \A r, s \in Tasks : Undisturbed(r) /\ Enumerating(task[s]) =>
    \A f \in Below : task[s].scan[f] \in {None, drive[f]}

DenialInv == (\A r \in Tasks : TaskNow(r)) /\ ScansNow

\* What the four invariants say together.
AllInv == IInv /\ OneEnumeration /\ NewsInv /\ DenialInv

LEMMA InitDenialInv == ScopeAssumption /\ Init => DenialInv
BY DEF ScopeAssumption, Init, DenialInv, TaskNow, ScansNow, Undisturbed, NoTask

---------------------------------------------------------------------------
(* Steps that leave Drive alone.                                            *)

Calm == drive' = drive /\ changes' = changes

LEMMA SubtreeStays ==
  ASSUME Calm, location' = location
  PROVE  SubtreeNow' = SubtreeNow /\ \A i : InSubtree(i)' <=> InSubtree(i)
<1>1. SubtreeNow' = SubtreeNow
  BY DEF SubtreeNow, Placed, Calm
<1>2. QED
  BY <1>1 DEF InSubtree, Placed, Calm

\* The map in store and the location stay, or the location is measured before
\* there is a map, or a map of Drive as it is now is stored.
World ==
  \/ SameMap /\ (location' = location \/ (location = None /\ folderMap = {}))
  \/ /\ generation' = generation + 1 /\ location' = location
     /\ \A s \in Tasks : Undisturbed(s) /\ MapValid(now)' => folderMap' = SubtreeNow

LEMMA OtherTasks ==
  ASSUME ScopeAssumption, AllInv, Calm, World, NEW s \in Tasks, task'[s] = task[s]
  PROVE  TaskNow(s)'
<1> DEFINE t == task[s]
<1>1. TaskNow(s) /\ TypeOK /\ generation \in Nat /\ t.seen \in Nat
  BY DEF AllInv, DenialInv, IInv, TypeOK, Task
<1>2. /\ t.since <= changes' /\ (t.pc # "idle" => t.record = "none")
  BY <1>1 DEF TaskNow, Calm
<1>3. ASSUME t.quiet, t.since = changes
      PROVE  /\ t.pc = "item" /\ t.reply # None => t.reply = drive'[t.item]
             /\ t.pc \in {"queued", "root", "folders"} /\ t.op \notin MapOps => ItemNow(t)'
             /\ t.pc = "queued" /\ t.seen # generation' /\ MapValid(now)' =>
                  folderMap' = SubtreeNow'
             /\ t.record = "outside_subtree" => location' # None /\ ~InSubtree(t.item)'
  <2>1. t.pc = "item" /\ t.reply # None => t.reply = drive'[t.item]
    BY <1>1, <1>3 DEF TaskNow, Calm
  <2>2. location # None => location' = location
    BY DEF World
  <2>3. t.pc \in {"queued", "root", "folders"} /\ t.op \notin MapOps => ItemNow(t)'
    BY <1>1, <1>3, <2>2 DEF TaskNow, ItemNow, Calm
  <2>4. ASSUME t.pc = "queued", t.seen # generation', MapValid(now)'
        PROVE  folderMap' = SubtreeNow'
    <3>1. CASE SameMap /\ (location' = location \/ (location = None /\ folderMap = {}))
      <4>1. MapValid(now) /\ folderMap' = folderMap /\ t.seen # generation
        BY <1>1, <2>4, <3>1, ValidBefore DEF SameMap
      <4>2. folderMap # {} /\ location' = location
        BY <3>1, <4>1 DEF MapValid
      <4>3. QED
        BY <1>1, <1>3, <2>4, <4>1, <4>2, SubtreeStays DEF TaskNow
    <3>2. CASE ~(SameMap /\ (location' = location \/ (location = None /\ folderMap = {})))
      BY <1>3, <2>4, <3>2, SubtreeStays DEF World, Undisturbed
    <3>3. QED
      BY <3>1, <3>2
  <2>5. ASSUME t.record = "outside_subtree"
        PROVE  location' # None /\ ~InSubtree(t.item)'
    <3>1. location # None /\ ~InSubtree(t.item)
      BY <1>1, <1>3, <2>5 DEF TaskNow
    <3>2. QED
      BY <2>2, <3>1, SubtreeStays DEF InSubtree
  <2>6. QED
    BY <2>1, <2>3, <2>4, <2>5
<1>4. QED
  BY <1>2, <1>3 DEF TaskNow, Calm

\* The task that makes the step was undisturbed before, or begins when nobody
\* enumerates; what it has read is Drive as it is now, or was read before.
Scanned(r) ==
  /\ task'[r].pc # "idle" /\ task'[r].quiet =>
       \/ holder = None
       \/ task[r].pc # "idle" /\ task[r].quiet /\ task'[r].since = task[r].since
  /\ Enumerating(task'[r]) =>
       \A f \in Below : \/ task'[r].scan[f] \in {None, drive[f]}
                        \/ Enumerating(task[r]) /\ task'[r].scan[f] = task[r].scan[f]

LEMMA StepNow ==
  ASSUME ScopeAssumption, AllInv, Calm, World, NEW r \in Tasks, Others(r), TaskNow(r)',
         Scanned(r)
  PROVE  DenialInv'
<1>1. \A s \in Tasks : TaskNow(s)'
  BY OtherTasks DEF Others
<1>2. ASSUME NEW u \in Tasks, NEW s \in Tasks, Undisturbed(u)', Enumerating(task'[s]),
             NEW f \in Below
      PROVE  task'[s].scan[f] \in {None, drive'[f]}
  <2>1. CASE holder = None /\ u = r
    <3>1. \A v \in Tasks : ~Enumerating(task[v])
      BY <2>1 DEF AllInv, OneEnumeration, Enumerating, ScopeAssumption
    <3>2. s = r
      BY <1>2, <3>1 DEF Others
    <3>3. QED
      BY <1>2, <3>1, <3>2 DEF Scanned, Calm
  <2>2. CASE ~(holder = None /\ u = r)
    <3>1. Undisturbed(u)
      <4>1. CASE u = r
        BY <1>2, <2>2, <4>1 DEF Undisturbed, Scanned, Calm
      <4>2. CASE u # r
        BY <1>2, <4>2 DEF Undisturbed, Others, Calm
      <4>3. QED
        BY <4>1, <4>2
    <3>2. Enumerating(task[s]) => task[s].scan[f] \in {None, drive[f]}
      BY <3>1 DEF AllInv, DenialInv, ScansNow
    <3>3. CASE s = r
      BY <1>2, <3>2, <3>3 DEF Scanned, Calm
    <3>4. CASE s # r
      BY <1>2, <3>2, <3>4 DEF Others, Calm
    <3>5. QED
      BY <3>3, <3>4
  <2>3. QED
    BY <2>1, <2>2
<1>3. ScansNow'
  BY <1>2 DEF ScansNow
<1>4. QED
  BY <1>1, <1>3 DEF DenialInv

---------------------------------------------------------------------------
(* What becomes of a call that was given a map, or asked for the lock.      *)

Kept(u, t) == /\ u.op = t.op /\ u.item = t.item /\ u.parent = t.parent
              /\ u.quiet = t.quiet /\ u.since = t.since

Waits(u, t) == /\ u.pc \in {"queued", "root"} /\ Kept(u, t) /\ u.record = t.record
               /\ u.scan = Unread /\ (u.pc = "queued" => u.seen = generation')

Denied(u, t, m) == /\ u.pc = "idle" /\ Kept(u, t)
                   /\ t.op \notin MapOps /\ t.parent \notin m /\ ~t.retry

Settled(u, t) ==
  /\ u.record # "outside_subtree" /\ u.since \in {0, t.since}
  /\ \/ u.pc = "idle"
     \/ u.pc = "hits" /\ u.quiet = t.quiet /\ u.since = t.since /\ u.record = t.record

LEMMA AskLockLeaves ==
  ASSUME TypeOK, NEW r \in Tasks, NEW t \in Task, NEW h, NEW q, AskLock(r, t, h, q)
  PROVE  Others(r) /\ Waits(task'[r], t)
<1> DEFINE asking == [t EXCEPT !.reply = None, !.scan = Unread, !.seen = generation']
<1>1. CASE Enumerate(r, asking, q)
  BY <1>1 DEF Enumerate, Others, Waits, Kept, TypeOK, Task
<1>2. CASE task' = [task EXCEPT ![r] = [asking EXCEPT !.pc = "queued"]]
  BY <1>2 DEF Others, Waits, Kept, TypeOK, Task
<1>3. QED
  BY <1>1, <1>2 DEF AskLock

LEMMA EndLeaves ==
  ASSUME TypeOK, NEW r \in Tasks, End(r)
  PROVE  Others(r) /\ \A t : Settled(task'[r], t)
BY DEF End, Others, Settled, NoTask, TypeOK

LEMMA ReturnLeaves ==
  ASSUME TypeOK, NEW r \in Tasks, NEW t \in Task, NEW result, NEW record,
         Return(r, t, result, record)
  PROVE  /\ Others(r) /\ task'[r].pc = "idle" /\ task'[r].record = record
         /\ Kept(task'[r], t)
BY DEF Return, Others, Kept, TypeOK, Task

LEMMA UseMapLeaves ==
  ASSUME TypeOK, NEW r \in Tasks, NEW t \in Task, t.record = "none", NEW m, NEW h, NEW q,
         UseMap(r, t, m, h, q)
  PROVE  /\ Others(r)
         /\ Waits(task'[r], t) \/ Denied(task'[r], t, m) \/ Settled(task'[r], t)
<1>1. CASE AskLock(r, [t EXCEPT !.retry = FALSE], h, q)
  <2> DEFINE u == [t EXCEPT !.retry = FALSE]
  <2>1. u \in Task /\ Kept(u, t) /\ u.record = t.record
    BY DEF Task, Kept
  <2>2. AskLock(r, u, h, q)
    BY <1>1
  <2> HIDE DEF u
  <2>3. QED
    BY <2>1, <2>2, AskLockLeaves DEF Waits, Kept
<1>2. CASE End(r)
  BY <1>2, EndLeaves
<1>3. CASE Return(r, t, AllowedResult(t), "allow")
  BY <1>3, ReturnLeaves DEF Settled, Kept
<1>4. CASE /\ Return(r, t, "refused", "outside_subtree")
           /\ t.op \notin MapOps /\ t.parent \notin m /\ ~t.retry
  BY <1>4, ReturnLeaves DEF Denied
<1>5. CASE AskForHits(r, t, m)
  BY <1>5 DEF AskForHits, Others, Settled, TypeOK, Task
<1>6. QED
  BY <1>1, <1>2, <1>3, <1>4, <1>5 DEF UseMap

\* What a live call has to bring along to leave a true denial.
Ready(t) == /\ t.since <= changes /\ t.record = "none"
            /\ t.quiet /\ t.since = changes /\ t.op \notin MapOps => ItemNow(t)

LEMMA LeavesNow ==
  ASSUME ScopeAssumption, AllInv, Calm, location' = location, NEW r \in Tasks, NEW t \in Task,
         Ready(t), NEW m,
         t.quiet /\ t.since = changes /\ t.op \notin MapOps /\ ~t.retry => m = SubtreeNow,
         Waits(task'[r], t) \/ Denied(task'[r], t, m) \/ Settled(task'[r], t)
  PROVE  TaskNow(r)'
<1> DEFINE u == task'[r]
<1>1. changes \in Nat /\ changes' = changes /\ drive' = drive
  BY DEF AllInv, IInv, TypeOK, Calm
<1>2. CASE Waits(u, t)
  BY <1>1, <1>2 DEF Waits, Kept, Ready, ItemNow, TaskNow
<1>3. CASE Settled(u, t)
  BY <1>1, <1>3 DEF Settled, Ready, TaskNow
<1>4. CASE Denied(u, t, m)
  <2>1. ASSUME t.quiet, t.since = changes
        PROVE  location' # None /\ ~InSubtree(t.item)'
    <3>1. ItemNow(t) /\ t.parent \notin SubtreeNow
      BY <1>4, <2>1 DEF Denied, Ready
    <3>2. ~InSubtree(t.item)
      BY <3>1 DEF InSubtree, ItemNow, Placed
    <3>3. QED
      BY <3>1, <3>2, SubtreeStays DEF ItemNow
  <2>2. u.pc = "idle" /\ u.item = t.item /\ u.quiet = t.quiet /\ u.since = t.since
    BY <1>4 DEF Denied, Kept
  <2>3. (~InSubtree(t.item))' => (~InSubtree(task[r].item))'
    BY <2>2 DEF InSubtree
  <2>4. QED
    BY <1>1, <2>1, <2>2, <2>3 DEF Ready, TaskNow
<1>5. QED
  BY <1>2, <1>3, <1>4

\* And what it leaves of its pages.
LEMMA LeavesScanned ==
  ASSUME NEW r \in Tasks, NEW t, NEW m,
         Waits(task'[r], t) \/ Denied(task'[r], t, m) \/ Settled(task'[r], t),
         t.quiet => \/ holder = None
                    \/ task[r].pc # "idle" /\ task[r].quiet /\ t.since = task[r].since
  PROVE  Scanned(r)
BY DEF Waits, Denied, Settled, Kept, Scanned, Enumerating, Unread

\* A call that returned without a denial has nothing left to keep.
LEMMA IdleNow ==
  ASSUME AllInv, Calm, NEW r \in Tasks, task'[r].pc = "idle",
         task'[r].record # "outside_subtree", task'[r].since <= changes
  PROVE  TaskNow(r)' /\ Scanned(r)
BY DEF TaskNow, Calm, Scanned, Enumerating

\* The checks on an item's own metadata never say that it is outside.
LEMMA OtherRefusals ==
  ASSUME NEW i, NEW m
  PROVE  ItemRefusal(i, m) # "outside_subtree" /\ RootRefusal(m) # "outside_subtree"
BY DEF ItemRefusal, RootRefusal, LiveRefusal

LEMMA RefuseLeaves ==
  ASSUME TypeOK, NEW r \in Tasks, NEW why, why # "outside_subtree",
         Refuse(r, task[r], why)
  PROVE  /\ Others(r) /\ task'[r].pc = "idle" /\ task'[r].record # "outside_subtree"
         /\ task'[r].since \in {0, task[r].since}
<1>1. task[r] \in Task
  BY DEF TypeOK
<1>2. CASE End(r)
  BY <1>2, EndEffect DEF NoTask
<1>3. CASE Return(r, task[r], "refused", why)
  BY <1>1, <1>3, ReturnLeaves DEF Kept
<1>4. QED
  BY <1>2, <1>3 DEF Refuse

\* Pages read from Drive as it is now make the map that Drive has now.
LEMMA MapOfNow ==
  ASSUME NEW scan, \A f \in Below : scan[f] = drive[f] /\ scan[f] # None
  PROVE  Reach(ScanEdges(scan)) = SubtreeNow
<1>1. ScanEdges(scan) = {e \in Below \X Folders : Placed(drive[e[1]], e[2], location)}
  BY DEF ScanEdges
<1>2. QED
  BY <1>1 DEF SubtreeNow

---------------------------------------------------------------------------

LEMMA NextDenial ==
  ASSUME ScopeAssumption, ~Reinitializes, AllInv, Next
  PROVE  DenialInv'
<1>1. TypeOK /\ DenialInv /\ IInv
  BY DEF AllInv, IInv
<1>2. /\ \A r \in Tasks : /\ task[r] \in Task /\ TaskNow(r) /\ task[r].since \in Nat
                          /\ task[r].since <= changes /\ 0 <= changes
      /\ changes \in Nat
  <2>1. \A r \in Tasks : task[r] \in Task /\ TaskNow(r)
    BY <1>1 DEF TypeOK, DenialInv
  <2>2. \A r \in Tasks : task[r].since \in Nat /\ task[r].since <= changes
    BY <2>1 DEF Task, TaskNow
  <2>3. changes \in Nat
    BY <1>1 DEF TypeOK
  <2>4. QED
    BY <2>1, <2>2, <2>3
\* A call that ends, and leaves no denial.
<1>3. ASSUME NEW r \in Tasks, Calm, World, Others(r), task'[r].pc = "idle",
             task'[r].record # "outside_subtree", task'[r].since \in {0, task[r].since}
      PROVE  DenialInv'
  <2>1. task'[r].since <= changes
    BY <1>2, <1>3
  <2>2. TaskNow(r)' /\ Scanned(r)
    BY <1>3, <2>1, IdleNow
  <2>3. QED
    BY <1>3, <2>2, StepNow
\* A call that goes on with a map or asks for the lock.
<1>4. ASSUME NEW r \in Tasks, NEW t \in Task, Calm, World, location' = location, Others(r),
             Ready(t), NEW m,
             t.quiet /\ t.since = changes /\ t.op \notin MapOps /\ ~t.retry => m = SubtreeNow,
             Waits(task'[r], t) \/ Denied(task'[r], t, m) \/ Settled(task'[r], t),
             t.quiet => \/ holder = None
                        \/ task[r].pc # "idle" /\ task[r].quiet /\ t.since = task[r].since
      PROVE  DenialInv'
  <2>1. TaskNow(r)'
    BY <1>4, LeavesNow
  <2>2. Scanned(r)
    BY <1>4, LeavesScanned
  <2>3. QED
    BY <1>4, <2>1, <2>2, StepNow
<1>5. ASSUME NEW r \in Tasks, NEW o \in Ops, NEW i \in Items, CallItem(r, o, i)
      PROVE  DenialInv'
  <2>1. Calm /\ World
    BY <1>5 DEF CallItem, scope, Calm, World, SameMap
  <2>2. Others(r) /\ task'[r] = [Fresh(o, i) EXCEPT !.pc = "item"]
    BY <1>1, <1>5 DEF CallItem, Others, TypeOK
  <2>3. /\ task'[r].pc = "item" /\ task'[r].reply = None /\ task'[r].record = "none"
        /\ task'[r].since = changes /\ task'[r].quiet = LockFree(holder, queue)
    BY <2>2 DEF Fresh, NoTask
  <2>4. TaskNow(r)' /\ Scanned(r)
    BY <1>2, <2>1, <2>3 DEF TaskNow, Scanned, Calm, Enumerating, LockFree
  <2>5. QED
    BY <2>1, <2>2, <2>4, StepNow
<1>6. ASSUME NEW r \in Tasks, NEW o \in MapOps, CallFolderMap(r, o)
      PROVE  DenialInv'
  <2> DEFINE t == Fresh(o, Root)
  <2>1. Calm /\ World /\ location' = location /\ t \in Task
    BY <1>1, <1>6, FreshType DEF CallFolderMap, scope, Calm, World, SameMap, ScopeAssumption
  <2>2. /\ t.op \in MapOps /\ t.record = "none" /\ t.since = changes
        /\ t.quiet = LockFree(holder, queue)
    BY DEF Fresh, NoTask
  <2>3. Ready(t) /\ (t.quiet => holder = None)
    BY <1>2, <2>2 DEF Ready, LockFree
  <2>4. \/ UseMap(r, t, folderMap, holder, queue)
        \/ AskLock(r, t, holder, queue)
    BY <1>6 DEF CallFolderMap
  <2> HIDE DEF t
  <2>5. /\ Others(r)
        /\ Waits(task'[r], t) \/ Denied(task'[r], t, folderMap) \/ Settled(task'[r], t)
    BY <1>1, <2>1, <2>2, <2>4, UseMapLeaves, AskLockLeaves
  <2>6. QED
    BY <1>4, <2>1, <2>2, <2>3, <2>5
<1>7. ASSUME NEW r \in Tasks, DriveAnswers(r)
      PROVE  DenialInv'
  <2> DEFINE m == drive[IF task[r].pc = "item" THEN task[r].item ELSE Root]
  <2>1. /\ Calm /\ World /\ location' = location /\ folderMap' = folderMap
        /\ expiry' = expiry /\ generation' = generation /\ now' = now
    BY <1>7 DEF DriveAnswers, scope, Calm, World, SameMap
  <2>2. Others(r) /\ task'[r] = [task[r] EXCEPT !.reply = m] /\ task[r].pc \in {"item", "root"}
    BY <1>1, <1>7 DEF DriveAnswers, Others, TypeOK
  <2>3. /\ Kept(task'[r], task[r]) /\ task'[r].record = task[r].record
        /\ task'[r].pc = task[r].pc /\ task'[r].reply = m /\ task'[r].scan = task[r].scan
    BY <1>2, <2>2 DEF Kept, Task
  <2> HIDE DEF m
  <2>4. TaskNow(r)'
    <3>1. task[r].pc = "item" => m = drive'[task'[r].item]
      BY <2>1, <2>3 DEF m, Kept, Calm
    <3>2. ItemNow(task[r]) => ItemNow(task[r])'
      BY <2>1, <2>3 DEF ItemNow, Kept, Calm
    <3>3. task[r].record = "none"
      BY <1>2, <2>2 DEF TaskNow
    <3>4. QED
      BY <1>2, <2>1, <2>2, <2>3, <3>1, <3>2, <3>3 DEF TaskNow, Kept, Calm
  <2>5. Scanned(r)
    BY <2>2, <2>3 DEF Scanned, Kept, Enumerating
  <2>6. QED
    BY <2>1, <2>2, <2>4, <2>5, StepNow
<1>8. ASSUME NEW r \in Tasks, DriveServesPage(r)
      PROVE  DenialInv'
  <2>1. /\ Calm /\ World /\ location' = location /\ folderMap' = folderMap
        /\ expiry' = expiry /\ generation' = generation /\ now' = now
    BY <1>8 DEF DriveServesPage, scope, Calm, World, SameMap
  <2>2. PICK page :
          task' = [task EXCEPT ![r].scan =
                     [f \in Below |-> IF f \in page THEN drive[f] ELSE task[r].scan[f]]]
    BY <1>8 DEF DriveServesPage
  <2>3. /\ Others(r) /\ Kept(task'[r], task[r]) /\ task'[r].record = task[r].record
        /\ task'[r].pc = task[r].pc /\ task[r].pc = "folders"
        /\ task'[r].scan = [f \in Below |-> IF f \in page THEN drive[f] ELSE task[r].scan[f]]
    BY <1>1, <1>2, <1>8, <2>2 DEF DriveServesPage, Others, Kept, TypeOK, Task
  <2>4. TaskNow(r)'
    <3>1. ItemNow(task[r]) => ItemNow(task[r])'
      BY <2>1, <2>3 DEF ItemNow, Kept, Calm
    <3>2. task[r].record = "none"
      BY <1>2, <2>3 DEF TaskNow
    <3>3. QED
      BY <1>2, <2>1, <2>3, <3>1, <3>2 DEF TaskNow, Kept, Calm
  <2>5. Scanned(r)
    BY <2>3 DEF Scanned, Kept, Enumerating
  <2>6. QED
    BY <2>1, <2>3, <2>4, <2>5, StepNow
<1>9. ASSUME NEW r \in Tasks, DriveFinds(r)
      PROVE  DenialInv'
  <2>1. Calm /\ World
    BY <1>9 DEF DriveFinds, scope, Calm, World, SameMap
  <2>2. PICK i : task' = [task EXCEPT ![r].item = i, ![r].reply = drive[i]]
    BY <1>9 DEF DriveFinds
  <2>3. /\ Others(r) /\ task'[r].pc = "hits" /\ task[r].pc = "hits"
        /\ task'[r].record = task[r].record
        /\ task'[r].since = task[r].since /\ task'[r].quiet = task[r].quiet
    BY <1>1, <1>2, <1>9, <2>2 DEF DriveFinds, Others, TypeOK, Task
  <2>4. TaskNow(r)' /\ Scanned(r)
    BY <1>2, <2>1, <2>3 DEF TaskNow, Scanned, Calm, Enumerating
  <2>5. QED
    BY <2>1, <2>3, <2>4, StepNow
\* The location is measured while there is no map.
<1>10. ASSUME NEW r \in Tasks, Initialize(r)
       PROVE  DenialInv'
  <2>1. location = None /\ folderMap = {}
    <3>1. location = None
      BY <1>1, <1>10 DEF Initialize, IInv, InitializedOnce, Initializing
    <3>2. QED
      BY <1>1, <3>1 DEF IInv, MapInv, ScopeAssumption
  <2>2. Calm /\ World
    BY <1>10, <2>1 DEF Initialize, Calm, World, SameMap
  <2>3. CASE End(r)
    BY <1>1, <1>3, <2>2, <2>3, EndEffect DEF NoTask
  <2>4. CASE Return(r, task[r], "refused", "none")
    BY <1>1, <1>2, <1>3, <2>2, <2>4, ReturnLeaves DEF Kept
  <2>5. QED
    BY <1>10, <2>3, <2>4 DEF Initialize
<1>11. ASSUME NEW r \in Tasks, Authorize(r)
       PROVE  DenialInv'
  <2> DEFINE t == [task[r] EXCEPT !.parent = FirstParent(task[r].reply)]
  <2>1. /\ Calm /\ location' = location /\ task[r].pc = "item" /\ task[r].reply # None
        /\ folderMap' = folderMap /\ expiry' = expiry /\ generation' = generation
    BY <1>11 DEF Authorize, Calm, scope
  <2>2. now' \in {now, now + 1} => World
    BY <2>1 DEF World, SameMap
  <2>3. CASE /\ now' = now /\ ItemRefusal(task[r].item, task[r].reply) # "none"
             /\ Refuse(r, task[r], ItemRefusal(task[r].item, task[r].reply))
    <3>1. /\ Others(r) /\ task'[r].pc = "idle" /\ task'[r].record # "outside_subtree"
          /\ task'[r].since \in {0, task[r].since}
      BY <1>1, <2>3, OtherRefusals, RefuseLeaves
    <3>2. QED
      BY <1>3, <2>1, <2>2, <2>3, <3>1
  <2>4. CASE now' = now /\ Return(r, task[r], AllowedResult(task[r]), "allow")
    BY <1>1, <1>2, <1>3, <2>1, <2>2, <2>4, ReturnLeaves DEF Kept
  <2>5. CASE /\ LookUp(r, t)
             /\ ItemRefusal(task[r].item, task[r].reply) = "none" /\ task[r].item # Root
    <3>1. /\ FirstParent(task[r].reply) \in Folders
          /\ task[r].reply.parents = {FirstParent(task[r].reply)} /\ location # None
      <4>1. task[r].reply \in Metadata
        BY <1>2, <2>1 DEF Task
      <4>2. QED
        BY <2>5, <4>1, PassedItem
    <3>2. /\ t \in Task /\ t.parent = FirstParent(task[r].reply)
          /\ t.op = task[r].op /\ t.item = task[r].item /\ t.record = task[r].record
          /\ t.quiet = task[r].quiet /\ t.since = task[r].since
      BY <1>2, <3>1 DEF Task
    <3>3. ASSUME t.quiet, t.since = changes
          PROVE  ItemNow(t)
      <4>1. task[r].reply = drive[task[r].item]
        BY <1>2, <2>1, <3>2, <3>3 DEF TaskNow
      <4>2. QED
        BY <2>5, <3>1, <3>2, <4>1 DEF ItemNow
    <3> DEFINE u == [t EXCEPT !.retry = TRUE]
    <3> HIDE DEF t
    <3>4. Ready(t)
      BY <1>2, <2>1, <3>2, <3>3 DEF Ready, TaskNow
    <3>5. u \in Task /\ Ready(u) /\ u.retry /\ u.quiet = t.quiet /\ u.since = t.since
      BY <3>2, <3>4 DEF Ready, Task, ItemNow
    <3> HIDE DEF u
    <3>6. CASE now' \in {now, now + 1} /\ \E v \in {t, u} : AskLock(r, v, holder, queue)
      <4>1. PICK v \in {t, u} : AskLock(r, v, holder, queue)
        BY <3>6
      <4>2. /\ v \in Task /\ Ready(v) /\ v.quiet = t.quiet /\ v.since = t.since
        BY <3>2, <3>4, <3>5
      <4>3. Others(r) /\ Waits(task'[r], v)
        BY <1>1, <4>1, <4>2, AskLockLeaves
      <4>4. QED
        BY <1>4, <2>1, <2>2, <3>2, <3>6, <4>2, <4>3
    <3>7. CASE now' = now /\ UseMap(r, u, folderMap, holder, queue)
      <4>1. /\ Others(r)
            /\ Waits(task'[r], u) \/ Denied(task'[r], u, folderMap) \/ Settled(task'[r], u)
        BY <1>1, <3>5, <3>7, UseMapLeaves DEF Ready
      <4>2. QED
        BY <1>4, <2>1, <2>2, <3>2, <3>5, <3>7, <4>1
    <3>8. QED
      BY <2>5, <3>6, <3>7 DEF LookUp, u
  <2>6. QED
    BY <1>11, <2>3, <2>4, <2>5 DEF Authorize
\* The lock is taken: the map of an enumeration that was complete since the
\* call asked is the map of Drive as it is now.
<1>12. ASSUME NEW r \in Tasks, TakeLock(r)
       PROVE  DenialInv'
  <2>1. Calm /\ World /\ location' = location /\ task[r].pc = "queued"
    BY <1>12 DEF TakeLock, scope, Calm, World, SameMap
  <2>2. Ready(task[r]) /\ task[r].record = "none"
    BY <1>2, <2>1 DEF Ready, TaskNow
  <2>3. CASE Coalesces(task[r]) /\ UseMap(r, task[r], folderMap, None, Tail(queue))
    <3>1. task[r].quiet /\ task[r].since = changes => folderMap = SubtreeNow
      BY <1>2, <2>1, <2>3 DEF TaskNow, Coalesces
    <3>2. /\ Others(r)
          /\ \/ Waits(task'[r], task[r]) \/ Denied(task'[r], task[r], folderMap)
             \/ Settled(task'[r], task[r])
      BY <1>1, <1>2, <2>2, <2>3, UseMapLeaves
    <3>3. QED
      BY <1>2, <1>4, <2>1, <2>2, <3>1, <3>2
  <2>4. CASE Enumerate(r, task[r], Tail(queue))
    <3>1. task[r].scan = Unread
      BY <1>1, <2>1 DEF IInv, TaskInv
    <3>2. Others(r) /\ Waits(task'[r], task[r])
      BY <1>1, <1>2, <2>4, <3>1 DEF Enumerate, Others, Waits, Kept, TypeOK, Task
    <3> DEFINE m == SubtreeNow
    <3> HIDE DEF m
    <3>3. m = SubtreeNow
      BY DEF m
    <3>4. QED
      BY <1>2, <1>4, <2>1, <2>2, <3>2, <3>3
  <2>5. QED
    BY <1>12, <2>3, <2>4 DEF TakeLock
<1>13. ASSUME NEW r \in Tasks, CheckRoot(r)
       PROVE  DenialInv'
  <2>1. /\ Calm /\ World /\ location' = location /\ generation' = generation
        /\ task[r].pc = "root"
    BY <1>13 DEF CheckRoot, scope, Calm, World, SameMap
  <2>2. CASE Refuse(r, task[r], RootRefusal(task[r].reply))
    BY <1>1, <1>3, <2>1, <2>2, OtherRefusals, RefuseLeaves
  <2>3. CASE task' = [task EXCEPT ![r].pc = "folders", ![r].reply = None]
    <3>1. /\ Others(r) /\ Kept(task'[r], task[r]) /\ task'[r].record = task[r].record
          /\ task'[r].pc = "folders" /\ task'[r].scan = task[r].scan
      BY <1>1, <1>2, <2>3 DEF Others, Kept, TypeOK, Task
    <3>2. TaskNow(r)'
      <4>1. ItemNow(task[r]) => ItemNow(task[r])'
        BY <2>1, <3>1 DEF ItemNow, Kept, Calm
      <4>2. task[r].record = "none"
        BY <1>2, <2>1 DEF TaskNow
      <4>3. QED
        BY <1>2, <2>1, <3>1, <4>1, <4>2 DEF TaskNow, Kept, Calm
    <3>3. Scanned(r)
      BY <2>1, <3>1 DEF Scanned, Kept, Enumerating
    <3>4. QED
      BY <2>1, <3>1, <3>2, <3>3, StepNow
  <2>4. QED
    BY <1>13, <2>2, <2>3 DEF CheckRoot
\* Every undisturbed call in flight vouches for every page that was read.
<1>14. ASSUME NEW r \in Tasks, FinishEnumeration(r)
       PROVE  DenialInv'
  <2> DEFINE paths == Reach(ScanEdges(task[r].scan))
  <2>1. /\ Calm /\ location' = location /\ task[r].pc = "folders"
        /\ UseMap(r, task[r], paths, None, queue) /\ generation' = generation + 1
        /\ IF TTL > 0 THEN folderMap' = paths ELSE UNCHANGED folderMap
    BY <1>14 DEF FinishEnumeration, Calm
  <2>2. ASSUME NEW s \in Tasks, Undisturbed(s)
        PROVE  paths = SubtreeNow
    <3>1. \A f \in Below : task[r].scan[f] \in {None, drive[f]} /\ task[r].scan[f] # None
      BY <1>1, <1>14, <2>1, <2>2 DEF DenialInv, ScansNow, Enumerating, FinishEnumeration
    <3>2. QED
      BY <3>1, MapOfNow
  <2> HIDE DEF paths
  <2>3. World
    <3>1. TTL = 0 => folderMap = {}
      BY DEF AllInv, NewsInv
    <3>2. TTL \in Nat
      BY DEF ScopeAssumption
    <3>3. MapValid(now)' => folderMap' = paths
      BY <2>1, <3>1, <3>2 DEF MapValid
    <3>4. QED
      BY <2>1, <2>2, <3>3 DEF World
  <2>4. Ready(task[r]) /\ task[r].record = "none"
    BY <1>2, <2>1 DEF Ready, TaskNow
  <2>5. task[r].quiet /\ task[r].since = changes => paths = SubtreeNow
    BY <2>1, <2>2 DEF Undisturbed
  <2>6. /\ Others(r)
        /\ \/ Waits(task'[r], task[r]) \/ Denied(task'[r], task[r], paths)
           \/ Settled(task'[r], task[r])
    BY <1>1, <1>2, <2>1, <2>4, UseMapLeaves
  <2>7. QED
    BY <1>2, <1>4, <2>1, <2>3, <2>4, <2>5, <2>6
<1>15. ASSUME NEW r \in Tasks, ShowHits(r)
       PROVE  DenialInv'
  <2>1. Calm /\ World /\ task[r].pc = "hits"
    BY <1>15 DEF ShowHits, scope, Calm, World, SameMap
  <2>2. CASE End(r)
    BY <1>1, <1>3, <2>1, <2>2, EndEffect DEF NoTask
  <2>3. ASSUME NEW p,
               task' = [task EXCEPT ![r] = [task[r] EXCEPT !.pc = "idle", !.reply = None,
                          !.known = {}, !.parent = p, !.result = "allowed"]]
        PROVE  DenialInv'
    <3>1. /\ Others(r) /\ task'[r].pc = "idle" /\ task'[r].record = task[r].record
          /\ task'[r].since = task[r].since
      BY <1>1, <1>2, <2>3 DEF Others, TypeOK, Task
    <3>2. task[r].record = "none"
      BY <1>2, <2>1 DEF TaskNow
    <3>3. QED
      BY <1>3, <2>1, <3>1, <3>2
  <2>4. QED
    BY <1>15, <2>2, <2>3 DEF ShowHits
<1>16. ASSUME NEW r \in Tasks, Fail(r) \/ CancelWaiter(r)
       PROVE  DenialInv'
  <2>1. Calm /\ World /\ End(r)
    BY <1>16 DEF Fail, CancelWaiter, scope, Calm, World, SameMap
  <2>2. QED
    BY <1>1, <1>3, <2>1, EndEffect DEF NoTask
\* A change to Drive disturbs every call.
<1>17. ASSUME \E move \in Moves : ChangeDrive(move[1], move[2])
       PROVE  DenialInv'
  <2>1. task' = task /\ changes' = changes + 1
    BY <1>17 DEF ChangeDrive
  <2>2. \A r \in Tasks : task[r].since <= changes' /\ task[r].since # changes'
    BY <1>2, <2>1
  <2>3. \A r \in Tasks : task[r].pc # "idle" => task[r].record = "none"
    BY <1>2 DEF TaskNow
  <2>4. QED
    BY <2>1, <2>2, <2>3 DEF DenialInv, TaskNow, ScansNow, Undisturbed
<1>18. CASE Tick
  <2>1. Calm /\ World /\ task' = task
    BY <1>18 DEF Tick, scope, Calm, World, SameMap
  <2>2. \A r \in Tasks : TaskNow(r)'
    BY <2>1, OtherTasks
  <2>3. ScansNow'
    BY <1>1, <2>1 DEF DenialInv, ScansNow, Undisturbed, Calm
  <2>4. QED
    BY <2>2, <2>3 DEF DenialInv
<1>19. QED
  BY <1>5, <1>6, <1>7, <1>8, <1>9, <1>10, <1>11, <1>12, <1>13, <1>14, <1>15, <1>16, <1>17,
     <1>18 DEF Next

\* scope.py:299-303: an item refused as outside the subtree is outside it, for
\* every Drive, window and number of calls, when nobody changed Drive while the
\* call ran and no enumeration was under way when it began.
THEOREM DenialsAreTrue == ~Reinitializes => (Spec => []FreshDenialIsTrue)
<1> SUFFICES ASSUME ~Reinitializes
             PROVE  Spec => []FreshDenialIsTrue
  OBVIOUS
<1>1. Init => AllInv
  BY InitIInv, InitOneEnumeration, InitNewsInv, InitDenialInv, ScopeAssumption DEF AllInv
<1>2. AllInv /\ [Next]_vars => AllInv'
  <2> SUFFICES ASSUME AllInv, [Next]_vars
               PROVE  AllInv'
    OBVIOUS
  <2>1. NewsInv' /\ OneEnumeration'
    BY NextNews, NextOneEnumeration, ScopeAssumption DEF AllInv, NewsInv
  <2>2. CASE Next
    BY <2>1, <2>2, NextIInv, NextDenial, ScopeAssumption DEF AllInv
  <2>3. CASE UNCHANGED vars
    <3>1. IInv'
      BY <2>3 DEF AllInv, vars, IInv, TypeOK, InitializedOnce, Initializing, HistoryInv,
         Latest, LastPlaced
    <3>2. DenialInv'
      BY <2>3 DEF AllInv, vars, DenialInv, TaskNow, ItemNow, ScansNow, Undisturbed, MapValid,
         InSubtree, SubtreeNow
    <3>3. QED
      BY <2>1, <3>1, <3>2 DEF AllInv
  <2>4. QED
    BY <2>2, <2>3
<1>3. AllInv => FreshDenialIsTrue
  BY DEF AllInv, DenialInv, TaskNow, FreshDenialIsTrue, TrueDenial
<1>4. QED
  BY <1>1, <1>2, <1>3, PTL DEF Spec
============================================================================
