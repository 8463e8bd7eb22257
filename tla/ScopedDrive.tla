---------------------------- MODULE ScopedDrive ----------------------------
(***************************************************************************)
(* The folder boundary: class ScopedDrive, run by one asyncio event loop   *)
(* against a Google Drive that other people change at any moment.          *)
(*                                                                         *)
(* A task is one call a host makes.  Code between two awaits is one step.  *)
(* At an await on the gateway Drive reads its state in a step of its own   *)
(* and the coroutine resumes in a later one, so an answer can be out of    *)
(* date when it is used; at the await on _refresh_lock the task queues     *)
(* first in, first out, as asyncio.Lock has it.  The folder query is       *)
(* answered in pages, of any size (Drive may cut a page short), each page  *)
(* a read at an instant of its own, and the clock may move between steps.  *)
(***************************************************************************)
EXTENDS Integers, Sequences, SequencesExt

CONSTANTS
  Tasks,          \* calls that can be in flight at once
  Items,          \* the Drive items of the model
  Folders,        \* the items that are folders
  Shortcuts,      \* the items that are shortcuts
  Undownloadable, \* the items Drive forbids to download
  Root,           \* root_folder_id
  Locations,      \* My Drive and the Shared Drives
  Ops,            \* the operations a host calls
  Targets,        \* the items it names
  Reinitializes,  \* the host may call initialize again once it was measured
  TTL,            \* folder_map_ttl_seconds
  Starts,         \* the Drives a run may begin with
  Moves,          \* the changes people may make: <<item, its new metadata>>
  MaxTime,        \* bound on the clock
  MaxChanges,     \* bound on the number of changes to Drive
  MaxCalls,       \* bound on the number of calls
  None            \* no task, no folder, no answer

\* What get_item and list_folders report of an item.  Its kind is not here:
\* Drive never changes the MIME type of a folder or of a shortcut.
Metadata == [id : Items, parents : SUBSET Folders, location : Locations, trashed : BOOLEAN]

\* The operations that begin with the folder map, and ask for no item first.
MapOps == {"folder_paths", "search"}

ASSUME ScopeAssumption ==
  /\ Folders \subseteq Items /\ Shortcuts \subseteq Items /\ Root \in Items /\ Targets \subseteq Items
  /\ Folders \cap Shortcuts = {}
  /\ Ops \subseteq {"initialize", "get_metadata", "authorize_document"} \cup MapOps
  /\ Reinitializes \in BOOLEAN /\ TTL \in Nat
  /\ MaxTime \in Nat /\ MaxChanges \in Nat /\ MaxCalls \in Nat
  /\ Starts \subseteq [Items -> Metadata]
  /\ Moves \subseteq Items \X Metadata
  /\ None \notin Tasks \cup Items \cup Locations \cup Metadata

VARIABLES
  drive,       \* the metadata of every item, as Drive has it now
  now,         \* clock(), monotonic
  changes,     \* changes made to Drive so far
  calls,       \* calls made so far
  location,    \* _location
  folderMap,   \* _folder_paths: the folders it names; {} before the first map
  expiry,      \* _folder_paths_expiry
  generation,  \* _folder_map_generation
  holder,      \* the task inside _refresh_lock
  queue,       \* the tasks waiting for _refresh_lock
  task,        \* the locals of each call, and what became of it
  ended        \* history: when an item last stopped being where it was

scope == <<location, folderMap, expiry, generation>>
lock == <<holder, queue>>
vars == <<drive, now, changes, calls, location, folderMap, expiry, generation,
          holder, queue, task, ended>>

Time == 0..MaxTime

---------------------------------------------------------------------------
(* Where items are.                                                        *)

\* The metadata puts its item in folder p of drive location l, and in no
\* other folder: exactly one parent, and not in the trash.
Placed(m, p, l) == m.parents = {p} /\ ~m.trashed /\ m.location = l

Places == Items \X Folders \X Locations

\* The last instant at which the item was in that folder (-1: never).
LastPlaced(i, p, l) == IF Placed(drive[i], p, l) THEN now ELSE ended[<<i, p, l>>]

\* The folders whose rows matter to the walk: the root is in the map already,
\* and the row that says where the root itself is changes nothing.
Below == Folders \ {Root}

\* What the breadth-first walk over children_by_parent reaches from the root,
\* given the <<child, parent>> pairs it may follow.
Closed(S, edges) == Root \in S /\ \A e \in edges : e[2] \in S => e[1] \in S
Reach(edges) == {f \in Folders \cup {Root} :
                   \A S \in SUBSET (Folders \cup {Root}) : Closed(S, edges) => f \in S}

\* The <<child, parent>> pairs of folders that held at T or later.
HeldSince(T, l) == {e \in Below \X Folders : LastPlaced(e[1], e[2], l) >= T}

\* The Authorized Subtree of Drive as it is now: its folders.
SubtreeNow == Reach({e \in Below \X Folders : Placed(drive[e[1]], e[2], location)})
InSubtree(i) == i = Root \/ \E p \in SubtreeNow \cap Folders : Placed(drive[i], p, location)

---------------------------------------------------------------------------
(* Calls.                                                                  *)

Unread == [f \in Below |-> None]

Reasons == {"root_mismatch", "wrong_location", "trashed", "shortcut",
            "root_not_a_folder", "ancestry_unprovable", "outside_subtree"}

Task == [pc      : {"idle", "item", "queued", "root", "folders", "hits"},
         op      : Ops \cup {None},
         item    : Items,
         reply   : Metadata \cup {None},   \* Drive's answer, once it has arrived
         parent  : Folders \cup {None},    \* item.parents[0], as read live
         retry   : BOOLEAN,                \* reused_map, until the refresh
         seen    : Nat,                    \* generation, read before the lock
         started : Time,                   \* the clock, read before the query
         scan    : [Below -> Metadata \cup {None}],
         known   : SUBSET (Folders \cup {Root}),  \* folder_paths, in search
         result  : {"none", "allowed", "refused"},
         record  : {"none", "allow"} \cup Reasons,  \* the audit record it wrote
         begun   : Time,                   \* history: when the call began
         since   : 0..MaxChanges,          \* history: changes made before that
         quiet   : BOOLEAN,                \* history: nobody was enumerating then
         at      : Time]                   \* history: when it returned; of a search,
                                           \*   when it was given the map

NoTask == [pc |-> "idle", op |-> None, item |-> Root, reply |-> None, parent |-> None,
           retry |-> FALSE, seen |-> 0, started |-> 0, scan |-> Unread, known |-> {}, result |-> "none",
           record |-> "none", begun |-> 0, since |-> 0, quiet |-> FALSE, at |-> 0]

Init ==
  /\ drive \in Starts
  /\ now = 0 /\ changes = 0 /\ calls = 0
  /\ location = None /\ folderMap = {} /\ expiry = 0 /\ generation = 0
  /\ holder = None /\ queue = <<>>
  /\ task = [r \in Tasks |-> NoTask]
  /\ ended = [e \in Places |-> -1]

\* The call returns or raises ScopeViolation.  Its locals are gone; what it
\* decided stays, with the audit record it left.
Return(r, t, result, record) ==
  task' = [task EXCEPT ![r] = [t EXCEPT !.pc = "idle", !.reply = None, !.scan = Unread,
                                        !.retry = FALSE, !.seen = 0, !.started = 0,
                                        !.result = result, !.record = record, !.at = now']]

\* The call ends and leaves nothing: another exception, or an answer that
\* decides nothing about an item.
End(r) == task' = [task EXCEPT ![r] = NoTask]

\* `async with` gives the lock back however the block is left.
HolderKept(r) == holder
Released(r) == IF holder = r THEN None ELSE holder

\* _refuse records and raises; reading `location` before initialize() only
\* raises, and writes no record.
Refuse(r, t, why) ==
  IF why = "unmeasured" THEN End(r) ELSE Return(r, t, "refused", why)

---------------------------------------------------------------------------
(* The checks on one item, in the order the code makes them.               *)

LiveRefusal(i, m) ==
  IF location = None THEN "unmeasured"
  ELSE IF m.location # location THEN "wrong_location"
  ELSE IF m.trashed THEN "trashed"
  ELSE IF i \in Shortcuts THEN "shortcut"
  ELSE "none"

RootRefusal(m) ==
  IF m.id # Root THEN "root_mismatch"
  ELSE IF LiveRefusal(Root, m) # "none" THEN LiveRefusal(Root, m)
  ELSE IF Root \notin Folders THEN "root_not_a_folder"
  ELSE "none"

ItemRefusal(i, m) ==
  IF i = Root THEN RootRefusal(m)
  ELSE IF LiveRefusal(i, m) # "none" THEN LiveRefusal(i, m)
  ELSE IF ~(\E p \in Folders : m.parents = {p}) THEN "ancestry_unprovable"
  ELSE "none"

AllParents(m) == m.parents
FirstParent(m) == CHOOSE p \in m.parents : TRUE

\* authorize_document goes on to refuse folders and what Drive will not hand
\* out.  It raises without a record of its own: the last one says "allow".
AllowedResult(t) ==
  IF t.op = "authorize_document" /\ t.item \in Folders \cup Undownloadable
  THEN "refused" ELSE "allowed"

---------------------------------------------------------------------------
(* _folder_map.                                                            *)

MapValid(t) == folderMap # {} /\ t < expiry

LockFree(h, q) == h = None /\ q = <<>>

StartedAtCall(t) == t.begun
EnumerationStart(t) == now'

\* The call t enters the block: the clock is read, then the root is asked for.
Enumerate(r, t, q) ==
  /\ holder' = r /\ queue' = q
  /\ task' = [task EXCEPT ![r] = [t EXCEPT !.pc = "root", !.reply = None,
                                           !.started = EnumerationStart(t)]]

\* The call t reads the generation and asks for the lock, which h holds and
\* the tasks of q await.
AskLock(r, t, h, q) ==
  LET asking == [t EXCEPT !.reply = None, !.scan = Unread, !.seen = generation']
  IN  \/ LockFree(h, q) /\ Enumerate(r, asking, q)
      \/ /\ ~LockFree(h, q)
         /\ holder' = h /\ queue' = Append(q, r)
         /\ task' = [task EXCEPT ![r] = [asking EXCEPT !.pc = "queued"]]

\* search asks for what matches in the folders of the map it was given, and
\* goes by that map for as long as its batches take.
AskForHits(r, t, m) ==
  task' = [task EXCEPT ![r] = [t EXCEPT !.pc = "hits", !.reply = None, !.scan = Unread,
                                        !.seen = 0, !.started = 0, !.known = m, !.at = now']]

\* The call t got the map m from _folder_map, and the lock is now as h and q
\* say: search in it, allow, look again in a fresh map if m was reused, or
\* refuse.
UseMap(r, t, m, h, q) ==
  \/ /\ t.op = "folder_paths"
     /\ End(r) /\ holder' = h /\ queue' = q
  \/ /\ t.op = "search"
     /\ AskForHits(r, t, m) /\ holder' = h /\ queue' = q
  \/ /\ t.op \notin MapOps /\ t.parent \in m
     /\ Return(r, t, AllowedResult(t), "allow") /\ holder' = h /\ queue' = q
  \/ /\ t.op \notin MapOps /\ t.parent \notin m /\ t.retry
     /\ AskLock(r, [t EXCEPT !.retry = FALSE], h, q)
  \/ /\ t.op \notin MapOps /\ t.parent \notin m /\ ~t.retry
     /\ Return(r, t, "refused", "outside_subtree") /\ holder' = h /\ queue' = q

---------------------------------------------------------------------------
(* The host and the people who share the Drive.                            *)

\* A call that begins with nothing carried over from the slot's last one.
Fresh(o, i) == [NoTask EXCEPT !.op = o, !.item = i, !.begun = now, !.since = changes,
                              !.quiet = LockFree(holder, queue), !.at = now]

\* ADR 0011: adapters await initialize() once, before serving.
MayInitialize == \/ Reinitializes
                 \/ /\ location = None
                    /\ \A r \in Tasks : ~(task[r].pc = "item" /\ task[r].op = "initialize")

\* initialize, get_metadata or authorize_document: each first reads one item.
CallItem(r, o, i) ==
  /\ task[r].pc = "idle" /\ calls < MaxCalls
  /\ o \in Ops \ MapOps
  /\ \/ o = "initialize" /\ i = Root /\ MayInitialize
     \/ o # "initialize" /\ i \in Targets
  /\ task' = [task EXCEPT ![r] = [Fresh(o, i) EXCEPT !.pc = "item"]]
  /\ calls' = calls + 1
  /\ UNCHANGED <<drive, now, changes, scope, lock, ended>>

\* folder_paths and search go straight to _folder_map.
CallFolderMap(r, o) ==
  /\ task[r].pc = "idle" /\ calls < MaxCalls
  /\ o \in Ops \cap MapOps
  /\ UNCHANGED <<drive, now, changes, scope, ended>>
  /\ calls' = calls + 1
  /\ LET t == Fresh(o, Root) IN
     \/ MapValid(now) /\ UseMap(r, t, folderMap, holder, queue)
     \/ ~MapValid(now) /\ AskLock(r, t, holder, queue)

\* Somebody moves, shares, trashes or restores an item, or creates one.
ChangeDrive(i, m) ==
  /\ changes < MaxChanges
  /\ <<i, m>> \in Moves /\ m # drive[i]
  /\ drive' = [drive EXCEPT ![i] = m]
  /\ changes' = changes + 1
  /\ ended' = [e \in Places |-> LastPlaced(e[1], e[2], e[3])]
  /\ UNCHANGED <<now, calls, scope, lock, task>>

Tick ==
  /\ now < MaxTime
  /\ now' = now + 1
  /\ UNCHANGED <<drive, changes, calls, scope, lock, task, ended>>

---------------------------------------------------------------------------
(* Drive's side of the awaits.                                             *)

\* get_item: of the item itself, or of the root before an enumeration.
DriveAnswers(r) ==
  /\ task[r].pc \in {"item", "root"} /\ task[r].reply = None
  /\ task' = [task EXCEPT ![r].reply =
                drive[IF task[r].pc = "item" THEN task[r].item ELSE Root]]
  /\ UNCHANGED <<drive, now, changes, calls, scope, lock, ended>>

\* One page of the folder query: some of the folders not yet answered for.
DriveServesPage(r) ==
  LET unserved == {f \in Below : task[r].scan[f] = None} IN
  /\ task[r].pc = "folders"
  /\ \E page \in SUBSET unserved :
       /\ page # {}
       /\ task' = [task EXCEPT ![r].scan =
                     [f \in Below |-> IF f \in page THEN drive[f] ELSE task[r].scan[f]]]
  /\ UNCHANGED <<drive, now, changes, calls, scope, lock, ended>>

\* The page of a batch that a hit is on: the query names the folders of the
\* map, so that a match with one of them among its parents is served.
DriveFinds(r) ==
  /\ task[r].pc = "hits" /\ task[r].reply = None
  /\ \E i \in Targets \ (Folders \cup Shortcuts) :
       /\ drive[i].parents \cap task[r].known # {} /\ ~drive[i].trashed
       /\ task' = [task EXCEPT ![r].item = i, ![r].reply = drive[i]]
  /\ UNCHANGED <<drive, now, changes, calls, scope, lock, ended>>

---------------------------------------------------------------------------
(* The coroutine's side.                                                   *)

\* initialize resumes: the root's own metadata decides the location.
Initialize(r) ==
  LET m == task[r].reply IN
  /\ task[r].pc = "item" /\ m # None /\ task[r].op = "initialize"
  /\ UNCHANGED <<drive, now, changes, calls, folderMap, expiry, generation, lock, ended>>
  /\ \/ /\ m.id = Root /\ Root \in Folders /\ ~m.trashed
        /\ location' = m.location /\ End(r)
     \/ /\ ~(m.id = Root /\ Root \in Folders /\ ~m.trashed)
        /\ UNCHANGED location /\ Return(r, task[r], "refused", "none")

\* _authorize, once the live item t read passed its checks.  The clock is read
\* twice, for reused_map and again inside _folder_map: the map can expire in
\* between, and then a miss in the map that replaces it is still retried.
LookUpOnce(r, t) ==
  \/ /\ MapValid(now) /\ UNCHANGED now
     /\ UseMap(r, t, folderMap, holder, queue)
  \/ /\ ~MapValid(now) /\ UNCHANGED now
     /\ AskLock(r, t, holder, queue)

LookUp(r, t) ==
  \/ /\ MapValid(now) /\ UNCHANGED now
     /\ UseMap(r, [t EXCEPT !.retry = TRUE], folderMap, holder, queue)
  \/ /\ ~MapValid(now) /\ UNCHANGED now
     /\ AskLock(r, t, holder, queue)
  \/ /\ MapValid(now) /\ now + 1 \in Time /\ ~MapValid(now + 1) /\ now' = now + 1
     /\ AskLock(r, [t EXCEPT !.retry = TRUE], holder, queue)

\* _authorize resumes with the item's live metadata.
Authorize(r) ==
  LET i == task[r].item
      m == task[r].reply
      why == ItemRefusal(i, m)
  IN  /\ task[r].pc = "item" /\ m # None /\ task[r].op # "initialize"
      /\ UNCHANGED <<drive, changes, calls, scope, ended>>
      /\ \/ /\ why # "none" /\ UNCHANGED <<now, lock>>
            /\ Refuse(r, task[r], why)
         \/ /\ why = "none" /\ i = Root /\ UNCHANGED <<now, lock>>
            /\ Return(r, task[r], AllowedResult(task[r]), "allow")
         \/ /\ why = "none" /\ i # Root
            /\ LookUp(r, [task[r] EXCEPT !.parent = FirstParent(m)])

\* The lock is free and r is first in line.  If somebody completed an
\* enumeration since r asked, and its map is still valid, r takes that one.
NeverCoalesces(t) == FALSE
Coalesces(t) == generation # t.seen /\ MapValid(now)

TakeLock(r) ==
  LET t == task[r] IN
  /\ t.pc = "queued" /\ holder = None /\ queue # <<>> /\ Head(queue) = r
  /\ UNCHANGED <<drive, now, changes, calls, scope, ended>>
  /\ \/ Coalesces(t) /\ UseMap(r, t, folderMap, None, Tail(queue))
     \/ ~Coalesces(t) /\ Enumerate(r, t, Tail(queue))

\* _validated_root inside the enumeration: refuse, or send the folder query.
CheckRoot(r) ==
  LET t == task[r] IN
  /\ t.pc = "root" /\ t.reply # None
  /\ UNCHANGED <<drive, now, changes, calls, scope, queue, ended>>
  /\ \/ /\ RootRefusal(t.reply) # "none"
        /\ Refuse(r, t, RootRefusal(t.reply)) /\ holder' = Released(r)
     \/ /\ RootRefusal(t.reply) = "none"
        /\ task' = [task EXCEPT ![r].pc = "folders", ![r].reply = None]
        /\ UNCHANGED holder

\* The pairs the walk may follow: folders with one parent, in the location,
\* not in the trash.
AnywhereEdges(scan) ==
  {e \in Below \X Folders :
     scan[e[1]] # None /\ scan[e[1]].parents = {e[2]} /\ ~scan[e[1]].trashed}
ScanEdges(scan) ==
  {e \in Below \X Folders : scan[e[1]] # None /\ Placed(scan[e[1]], e[2], location)}

ExpiryFromNow(t) == now + TTL
ExpiryOf(t) == t.started + TTL

\* The last page is in: build the map, store it unless the window is closed,
\* give the lock back and go on with the map.
FinishEnumeration(r) ==
  LET t == task[r]
      paths == Reach(ScanEdges(t.scan))
  IN  /\ t.pc = "folders" /\ \A f \in Below : t.scan[f] # None
      /\ UNCHANGED <<drive, now, changes, calls, location, ended>>
      /\ generation' = generation + 1
      /\ IF TTL > 0 THEN folderMap' = paths /\ expiry' = ExpiryOf(t)
                    ELSE UNCHANGED <<folderMap, expiry>>
      /\ UseMap(r, t, paths, None, queue)

\* _is_safe_search_result.
AnyParent(m, paths) == m.parents \cap paths # {} /\ ~m.trashed /\ m.location = location
SafeHit(m, paths) == \E p \in paths \cap Folders : Placed(m, p, location)

\* The last batch is in: the search shows a hit, or none of the items there are.
ShowHits(r) ==
  LET t == task[r]
      shown == t.reply # None /\ SafeHit(t.reply, t.known)
  IN  /\ t.pc = "hits"
      /\ UNCHANGED <<drive, now, changes, calls, scope, lock, ended>>
      /\ \/ /\ shown
            /\ task' = [task EXCEPT ![r] = [t EXCEPT !.pc = "idle", !.reply = None, !.known = {},
                           !.parent = FirstParent(t.reply), !.result = "allowed"]]
         \/ ~shown /\ End(r)

\* An await on Drive raises: DriveError, or the call is cancelled.
Fail(r) ==
  /\ task[r].pc \in {"item", "root", "folders", "hits"}
  /\ UNCHANGED <<drive, now, changes, calls, scope, queue, ended>>
  /\ End(r)
  /\ holder' = Released(r)

\* The call is cancelled while it waits for the lock.
CancelWaiter(r) ==
  /\ task[r].pc = "queued"
  /\ UNCHANGED <<drive, now, changes, calls, scope, holder, ended>>
  /\ \E k \in 1..Len(queue) : queue[k] = r /\ queue' = RemoveAt(queue, k)
  /\ End(r)

---------------------------------------------------------------------------

\* What the event loop and Drive do for a call that has begun.
Progress(r) == \/ DriveAnswers(r) \/ DriveServesPage(r) \/ DriveFinds(r)
               \/ Initialize(r) \/ Authorize(r) \/ TakeLock(r)
               \/ CheckRoot(r) \/ FinishEnumeration(r) \/ ShowHits(r)

Next ==
  \/ \E r \in Tasks, o \in Ops, i \in Items : CallItem(r, o, i)
  \/ \E r \in Tasks, o \in MapOps : CallFolderMap(r, o)
  \/ \E r \in Tasks : DriveAnswers(r)
  \/ \E r \in Tasks : DriveServesPage(r)
  \/ \E r \in Tasks : DriveFinds(r)
  \/ \E r \in Tasks : Initialize(r)
  \/ \E r \in Tasks : Authorize(r)
  \/ \E r \in Tasks : TakeLock(r)
  \/ \E r \in Tasks : CheckRoot(r)
  \/ \E r \in Tasks : FinishEnumeration(r)
  \/ \E r \in Tasks : ShowHits(r)
  \/ \E r \in Tasks : Fail(r)
  \/ \E r \in Tasks : CancelWaiter(r)
  \/ \E move \in Moves : ChangeDrive(move[1], move[2])
  \/ Tick

Spec == Init /\ [][Next]_vars

\* The loop runs every callback that is ready, and the HTTP timeouts (30 s for
\* metadata) make Drive's silence an exception: no await lasts for ever.
FairSpec == Spec /\ \A r \in Tasks : WF_vars(Progress(r))

---------------------------------------------------------------------------
(* Properties.                                                             *)

\* The state has the shape the code gives it; a call's `parent` in particular
\* is one folder, whatever Drive lists.
TypeOK ==
  /\ drive \in [Items -> Metadata]
  /\ now \in Time /\ changes \in 0..MaxChanges /\ calls \in 0..MaxCalls
  /\ location \in Locations \cup {None}
  /\ folderMap \in SUBSET (Folders \cup {Root})
  /\ expiry \in Nat /\ generation \in Nat
  /\ holder \in Tasks \cup {None} /\ queue \in Seq(Tasks)
  /\ task \in [Tasks -> Task]
  /\ ended \in [Places -> Time \cup {-1}]

\* scope.py:339 and :346: one enumeration at a time, and the lock is held
\* exactly while one runs, however it ends: by a map, a refusal, an error or a
\* cancellation.
OneEnumeration ==
  \A r \in Tasks : task[r].pc \in {"root", "folders"} <=> holder = r

\* scope.py:345-351: a map that took long to read never replaces one whose
\* reading began later.
MapNeverOlder == [][folderMap # {} => expiry' >= expiry]_vars

\* scope.py:220-231, :286-306, ADR 0005: what an allowed item rests on, wherever
\* people move things meanwhile.  The item itself was in its folder during the
\* call; every folder above it was in its parent at some instant during the call
\* or less than TTL before the answer - of a search, before it was given its map,
\* which it keeps while the map expires and is replaced; and all of them were in
\* one Drive location.  (The pages of one query are read at different instants:
\* so may the chain.)
ChainHeldSince(t, T, l) == t.parent \in Reach(HeldSince(T, l))
BoundedStaleness ==
  \A r \in Tasks :
    LET t == task[r] IN
    t.result = "allowed" /\ t.item # Root =>
      \E l \in Locations, T \in Time :
        /\ LastPlaced(t.item, t.parent, l) >= t.begun
        /\ T >= t.begun \/ T + TTL > t.at
        /\ ChainHeldSince(t, T, l)

\* scope.py:299-303: a denial is not a matter of timing.  If nobody changed
\* Drive while the call ran, and no enumeration was under way when it began,
\* an item refused as outside the subtree is outside it.
TrueDenial(t) == t.record = "outside_subtree" /\ changes = t.since => ~InSubtree(t.item)
FreshDenialIsTrue == \A r \in Tasks : task[r].quiet => TrueDenial(task[r])

\* The same without the condition on enumerations under way: what the comment
\* at scope.py:300-302 and ADR 0005 say of a folder created after the map.
EveryDenialIsTrue == \A r \in Tasks : TrueDenial(task[r])

\* scope.py:339-344: the folder query is sent again under a valid map only for
\* an item whose parent that map does not name; waiting tasks share one query.
EnumeratesForNews ==
  [][\A r \in Tasks :
       task[r].pc \notin {"root", "folders"} /\ task'[r].pc = "root" /\ MapValid(now)'
         => task'[r].op \notin MapOps /\ task'[r].parent \notin folderMap']_vars

\* Every call returns or raises, though the lock is taken in turns and calls
\* fail or are cancelled inside it.
EveryCallReturns == \A r \in Tasks : task[r].pc # "idle" ~> task[r].pc = "idle"
============================================================================
