------------------------- MODULE SnapshotRegistry -------------------------
(***************************************************************************)
(* The snapshot subsystem of one connection (src/src/Snapshot.c): the      *)
(* registry array of snapshots sorted by key, guarded by one non-reentrant *)
(* mutex; the application threads that create and close snapshots and     *)
(* add and remove their listeners; and the I/O thread that runs            *)
(* event_listener on every event batch and drives each matching snapshot's *)
(* status machine.                                                         *)
(*                                                                         *)
(* Each step is what one thread does between two points where another      *)
(* thread can observe a difference: a critical section (lock, body,        *)
(* unlock) is one step, and the unlocked search of the listener array in   *)
(* dx_add/remove_snapshot_listener is a step of its own.                   *)
(***************************************************************************)
EXTENDS Integers, Sequences, SequencesExt, FiniteSets, SnapshotKey

CONSTANTS
    Apps,        \* application threads calling the snapshot API
    Params,      \* [kind, rid, symbol, source] tuples the application opens
    Listeners,   \* listener callbacks, as numbers ordered like their addresses
    Keys,        \* canonical (index) keys of event records
    FlagSets,    \* the flag combinations event batches arrive with
    MaxObjects,  \* bound on snapshot allocations (dx_calloc in create)
    MaxCalls,    \* bound on application calls
    MaxBatches,  \* bound on event batches delivered by the I/O thread
    AllocFails,  \* whether dx_calloc may fail while records are copied
    CallsMayFail, \* whether the API calls' allocations and array resizes may fail
    Free,        \* the guard is not held
    NoReq,       \* no call in progress (abstract specifications)
    NoParams     \* parameters of a never allocated snapshot slot

ASSUME MaxObjects \in Nat /\ MaxCalls \in Nat /\ MaxBatches \in Nat
ASSUME AllocFails \in BOOLEAN /\ CallsMayFail \in BOOLEAN

BEGIN == "SNAPSHOT_BEGIN"
END   == "SNAPSHOT_END"
TXP   == "TX_PENDING"

Objs == 1..MaxObjects

(* The guard after dx_mutex_destroy.                                       *)
Destroyed == "destroyed"

VARIABLES
    guard,      \* context->guard: Free, the thread holding it, or Destroyed
    registry,   \* context->snapshots_array: snapshot objects in key order
    snap,       \* snap[o]: the dx_snapshot_data_t object o
    nextObj,    \* the next object dx_calloc hands out
    handles,    \* handles returned to the application and not closed
    app,        \* app[t]: the call thread t is in and its locals
    ret,        \* ret[t]: result of t's last call
    calls,      \* application calls started
    batches,    \* event batches delivered
    attached,   \* Params whose subscription has event_listener attached
    corrupt,    \* an array shift went out of range (memory corruption)
    sawBegin,   \* history: o has absorbed a SNAPSHOT_BEGIN batch
    lastBatch   \* history: flags, records and matching snapshots of the
                \* last batch delivered, and the listener calls it made

vars == <<guard, registry, snap, nextObj, handles, app, ret, calls, batches,
          attached, corrupt, sawBegin, lastBatch>>

Statuses == {"unknown", "begin", "full", "pending"}
Record(src) == [key : Keys, src : src]
Sources == {p.source : p \in Params}

Slot == [params : Params \cup {NoParams}, key : Seq(Int),
         status : Statuses \cup {"none"},
         records : Seq(Record(Sources)), listeners : Seq(Listeners)]

Pcs == {"idle", "create_lock", "close_lock",
        "add_find", "add_lock", "remove_find", "remove_lock"}

EmptySlot == [params |-> NoParams, key |-> <<>>, status |-> "none",
              records |-> <<>>, listeners |-> <<>>]

Idle == [pc |-> "idle", obj |-> 0, lst |-> 0, idx |-> 0]

TypeOK ==
    /\ guard \in Apps \cup {Free, Destroyed}
    /\ registry \in Seq(Objs)
    /\ snap \in [Objs -> Slot]
    /\ nextObj \in 1..MaxObjects + 1
    /\ handles \subseteq Objs
    /\ app \in [Apps -> [pc : Pcs, obj : Objs \cup {0},
                         lst : Listeners \cup {0}, idx : Nat]]
    /\ ret \in [Apps -> {"none", "ok", "exists", "fail"}]
    /\ calls \in 0..MaxCalls /\ batches \in 0..MaxBatches
    /\ attached \subseteq Params
    /\ corrupt \in BOOLEAN
    /\ sawBegin \in [Objs -> BOOLEAN]
    /\ lastBatch \in [flags : SUBSET {BEGIN, END, TXP}, data : Seq(Record(Sources)),
                      to : SUBSET Objs, calls : Seq(Objs \X Listeners)]

-----------------------------------------------------------------------------
(* Helpers of Snapshot.c and of the macros it uses.                        *)

(* DX_ARRAY_SEARCH over an array sorted ascending: a binary search on the  *)
(* half-open range [lo, hi) of 0-based positions.  It yields whether an    *)
(* element comparing equal was met, and its position or else the position *)
(* where the search ended, which is where DX_ARRAY_INSERT is then told to  *)
(* insert.  The macro is not among the sources: modelled from spec 4.5.    *)
RECURSIVE BinarySearch(_, _, _, _)
BinarySearch(ks, x, lo, hi) ==
    IF lo >= hi
    THEN [found |-> FALSE, index |-> lo]
    ELSE LET mid == (lo + hi) \div 2
             c   == KeyCompare(ks[mid + 1], x)
         IN  IF c = 0 THEN [found |-> TRUE, index |-> mid]
             ELSE IF c < 0 THEN BinarySearch(ks, x, mid + 1, hi)
                           ELSE BinarySearch(ks, x, lo, mid)

(* Mutation: the search stops one element short of the end.              *)
ArraySearchShort(ks, x) == BinarySearch(ks, x, 0, Len(ks) - 1)

ArraySearch(ks, x) == BinarySearch(ks, x, 0, Len(ks))

(* dx_snapshot_comparator compares snapshots by key.                       *)
RegistryKeys == [i \in 1..Len(registry) |-> snap[registry[i]].key]

(* dx_snapshot_listener_comparator compares listeners by address.          *)
ListenerKeys(o) == [i \in 1..Len(snap[o].listeners) |-> <<snap[o].listeners[i]>>]

(* dx_free_snapshot_data: listeners, records and the object are released.  *)
FreeSnapshot(s) == [s EXCEPT !.status = "none", !.records = <<>>,
                             !.listeners = <<>>]

(* event_listener's filter: the snapshot's event type and symbol match the *)
(* batch's; the order source is not compared.                              *)
Matches(s, b) == s.params.kind = b.kind /\ s.params.symbol = b.symbol

(* dx_snapshot_add_event_records: deep copies of the batch appended one by *)
(* one; a failing clone or DX_ARRAY_INSERT returns at once, so n copies,   *)
(* the prefix before the failure, are kept.                                *)
BatchRecords(b, n) == [i \in 1..n |-> [key |-> b.data[i], src |-> b.source]]

(* How many of b's records the copy keeps: all of them, or, where dx_calloc *)
(* may fail, any prefix.                                                   *)
CopyCounts(b) == IF AllocFails THEN 0..Len(b.data) ELSE {Len(b.data)}

(* Mutation: the test that skips batches in the unknown status is gone.   *)
AbsorbNoUnknownSkip(s, b, n) ==
    IF BEGIN \in b.flags
         THEN [s EXCEPT !.status = "begin", !.records = BatchRecords(b, n)]
    ELSE IF END \in b.flags
         THEN [s EXCEPT !.status = "full", !.records = @ \o BatchRecords(b, n)]
    ELSE IF TXP \in b.flags
         THEN [s EXCEPT !.status = "pending"]
    ELSE IF s.status = "begin"
         THEN [s EXCEPT !.records = @ \o BatchRecords(b, n)]
    ELSE s

(* The body of event_listener's loop for one matching snapshot: the flag   *)
(* and status tests in the order the code makes them, n of the batch's     *)
(* records copied.  The result of the copy is not tested.  The listeners   *)
(* it calls (Notifies) only read the snapshot.                             *)
Absorb(s, b, n) ==
    IF s.status = "unknown" /\ BEGIN \notin b.flags THEN s
    ELSE IF BEGIN \in b.flags
         THEN [s EXCEPT !.status = "begin", !.records = BatchRecords(b, n)]
    ELSE IF END \in b.flags
         THEN [s EXCEPT !.status = "full", !.records = @ \o BatchRecords(b, n)]
    ELSE IF TXP \in b.flags
         THEN [s EXCEPT !.status = "pending"]
    ELSE IF s.status = "begin"
         THEN [s EXCEPT !.records = @ \o BatchRecords(b, n)]
    ELSE s   \* pending: "TODO: apply update"; full: listeners called again

(* Whether event_listener calls dx_snapshot_call_listeners for a matching *)
(* snapshot: after SNAPSHOT_END, and for a batch without flags in Full.    *)
Notifies(s, b) ==
    /\ ~(s.status = "unknown" /\ BEGIN \notin b.flags)
    /\ BEGIN \notin b.flags
    /\ \/ END \in b.flags
       \/ TXP \notin b.flags /\ s.status = "full"

(* dx_snapshot_call_listeners: each listener of the array, in array order, *)
(* is called with a view of snapshot o.                                   *)
CallListeners(o, ls) == [j \in 1..Len(ls) |-> <<o, ls[j]>>]

(* The event batches the EventBus hands to event_listener: one for a       *)
(* subscription it is attached to, with records of that source.           *)
Batches ==
    {[kind |-> p.kind, symbol |-> p.symbol, source |-> p.source,
      flags |-> f, data |-> d] :
        p \in attached, f \in FlagSets, d \in {<<>>} \cup {<<k>> : k \in Keys}}

-----------------------------------------------------------------------------

Init ==
    /\ guard = Free
    /\ registry = <<>>
    /\ snap = [o \in Objs |-> EmptySlot]
    /\ nextObj = 1
    /\ handles = {}
    /\ app = [t \in Apps |-> Idle]
    /\ ret = [t \in Apps |-> "none"]
    /\ calls = 0
    /\ batches = 0
    /\ attached = {}
    /\ corrupt = FALSE
    /\ sawBegin = [o \in Objs |-> FALSE]
    /\ lastBatch = [flags |-> {}, data |-> <<>>, to |-> {}, calls |-> <<>>]

StartCall(t) ==
    /\ app[t].pc = "idle"
    /\ calls < MaxCalls
    /\ calls' = calls + 1

(* dx_create_snapshot up to the lock: the object is allocated and filled,  *)
(* and event_listener is attached to the subscription (dx_add_listener).   *)
CreateBegin(t, p) ==
    /\ StartCall(t)
    /\ nextObj <= MaxObjects
    /\ snap' = [snap EXCEPT ![nextObj] =
                  [params |-> p, key |-> NewSnapshotKey(p.rid, p.symbol, p.source),
                   status |-> "unknown", records |-> <<>>, listeners |-> <<>>]]
    /\ app' = [app EXCEPT ![t] = [Idle EXCEPT !.pc = "create_lock", !.obj = nextObj]]
    /\ nextObj' = nextObj + 1
    /\ attached' = attached \cup {p}
    /\ UNCHANGED <<guard, registry, handles, ret, batches, corrupt, sawBegin, lastBatch>>

(* dx_create_snapshot returning dx_invalid_snapshot before the lock: the  *)
(* subscription's event types cannot be read, dx_calloc fails, or          *)
(* dx_add_listener fails and the new object is freed at once.              *)
CreateFails(t) ==
    /\ CallsMayFail
    /\ StartCall(t)
    /\ ret' = [ret EXCEPT ![t] = "fail"]
    /\ UNCHANGED <<guard, registry, snap, nextObj, handles, app, batches, attached,
                   corrupt, sawBegin, lastBatch>>

(* Mutation: create does not look for an equal key.                      *)
SnapshotExistsUnchecked(r) == FALSE

(* The duplicate test of dx_create_snapshot: the search only runs on a     *)
(* non-empty array.                                                        *)
SnapshotExists(r) == Len(registry) > 0 /\ r.found

(* Mutation: a failed insert returns without freeing the snapshot.       *)
CreateLockedFailNoFree(t) ==
    /\ app[t].pc = "create_lock"
    /\ guard = Free
    /\ LET o == app[t].obj
           r == ArraySearch(RegistryKeys, snap[o].key)
       IN  \/ /\ SnapshotExists(r)
              /\ snap' = [snap EXCEPT ![o] = FreeSnapshot(@)]
              /\ ret' = [ret EXCEPT ![t] = "exists"]
              /\ UNCHANGED <<registry, handles>>
           \/ /\ ~SnapshotExists(r) /\ CallsMayFail
              /\ ret' = [ret EXCEPT ![t] = "fail"]
              /\ UNCHANGED snap
              /\ UNCHANGED <<registry, handles>>
           \/ /\ ~SnapshotExists(r)
              /\ registry' = InsertAt(registry, r.index + 1, o)
              /\ handles' = handles \cup {o}
              /\ ret' = [ret EXCEPT ![t] = "ok"]
              /\ UNCHANGED snap
    /\ app' = [app EXCEPT ![t] = Idle]
    /\ UNCHANGED <<guard, nextObj, calls, batches, attached, corrupt, sawBegin, lastBatch>>

(* dx_create_snapshot under the guard: an equal key rejects the snapshot   *)
(* (dx_ssec_snapshot_exist), otherwise it is inserted at the position the  *)
(* search ended at; a failed DX_ARRAY_INSERT frees the snapshot.           *)
CreateLocked(t) ==
    /\ app[t].pc = "create_lock"
    /\ guard = Free
    /\ LET o == app[t].obj
           r == ArraySearch(RegistryKeys, snap[o].key)
       IN  \/ /\ SnapshotExists(r)
              /\ snap' = [snap EXCEPT ![o] = FreeSnapshot(@)]
              /\ ret' = [ret EXCEPT ![t] = "exists"]
              /\ UNCHANGED <<registry, handles>>
           \/ /\ ~SnapshotExists(r) /\ CallsMayFail
              /\ snap' = [snap EXCEPT ![o] = FreeSnapshot(@)]
              /\ ret' = [ret EXCEPT ![t] = "fail"]
              /\ UNCHANGED <<registry, handles>>
           \/ /\ ~SnapshotExists(r)
              /\ registry' = InsertAt(registry, r.index + 1, o)
              /\ handles' = handles \cup {o}
              /\ ret' = [ret EXCEPT ![t] = "ok"]
              /\ UNCHANGED snap
    /\ app' = [app EXCEPT ![t] = Idle]
    /\ UNCHANGED <<guard, nextObj, calls, batches, attached, corrupt, sawBegin, lastBatch>>

(* dx_close_snapshot up to the lock.                                       *)
CloseBegin(t, o) ==
    /\ StartCall(t)
    /\ o \in handles
    /\ app' = [app EXCEPT ![t] = [Idle EXCEPT !.pc = "close_lock", !.obj = o]]
    /\ UNCHANGED <<guard, registry, snap, nextObj, handles, ret, batches,
                   attached, corrupt, sawBegin, lastBatch>>

(* dx_close_snapshot under the guard: the snapshot is found by key,        *)
(* deleted from the array and freed, and the function returns without      *)
(* unlocking the guard; a failed DX_ARRAY_DELETE (array left as it was)    *)
(* returns false, also without unlocking and without freeing.  The        *)
(* not-found branch (unlock, dx_ssec_invalid_snapshot_id) has no state to  *)
(* run in: handles holds exactly the registered snapshots, and closing a   *)
(* closed handle reads freed memory before the lock.                      *)
CloseLocked(t) ==
    /\ app[t].pc = "close_lock"
    /\ guard = Free
    /\ LET o == app[t].obj
           r == ArraySearch(RegistryKeys, snap[o].key)
       IN  /\ r.found
           /\ \/ /\ registry' = RemoveAt(registry, r.index + 1)
                 /\ snap' = [snap EXCEPT ![o] = FreeSnapshot(@)]
                 /\ handles' = handles \ {o}
                 /\ ret' = [ret EXCEPT ![t] = "ok"]
              \/ /\ CallsMayFail
                 /\ ret' = [ret EXCEPT ![t] = "fail"]
                 /\ UNCHANGED <<registry, snap, handles>>
    /\ guard' = t
    /\ app' = [app EXCEPT ![t] = Idle]
    /\ UNCHANGED <<nextObj, calls, batches, attached, corrupt, sawBegin, lastBatch>>

(* Entry of dx_add_snapshot_listener / dx_remove_snapshot_listener with a  *)
(* valid handle and a non-NULL listener.                                   *)
ListenerCall(t, o, l, pc) ==
    /\ StartCall(t)
    /\ o \in handles
    /\ app' = [app EXCEPT ![t] = [pc |-> pc, obj |-> o, lst |-> l, idx |-> 0]]
    /\ UNCHANGED <<guard, registry, snap, nextObj, handles, ret, batches,
                   attached, corrupt, sawBegin, lastBatch>>

AddBegin(t, o, l) == ListenerCall(t, o, l, "add_find")
RemoveBegin(t, o, l) == ListenerCall(t, o, l, "remove_find")

(* dx_find_snapshot_listener_in_array, called before the guard is taken.   *)
(* Adding a present listener, or removing an absent one, returns true here. *)
ListenerFind(t, from, to, returnIfFound) ==
    /\ app[t].pc = from
    /\ LET r == ArraySearch(ListenerKeys(app[t].obj), <<app[t].lst>>)
       IN  IF r.found = returnIfFound
           THEN /\ app' = [app EXCEPT ![t] = Idle]
                /\ ret' = [ret EXCEPT ![t] = "ok"]
           ELSE /\ app' = [app EXCEPT ![t].pc = to, ![t].idx = r.index]
                /\ UNCHANGED ret
    /\ UNCHANGED <<guard, registry, snap, nextObj, handles, calls, batches,
                   attached, corrupt, sawBegin, lastBatch>>

AddFind(t) == ListenerFind(t, "add_find", "add_lock", TRUE)
RemoveFind(t) == ListenerFind(t, "remove_find", "remove_lock", FALSE)

(* DX_ARRAY_INSERT / DX_ARRAY_DELETE at the index found before the lock,   *)
(* returning unlock && !failed.  An index beyond the array shifts a        *)
(* negative number of elements.  A failed resize (CallsMayFail) leaves the *)
(* array as it was; the macros are not in src, so that is from spec 4.5.   *)
ListenerLocked(t, pc, inRange(_, _), Shift(_, _, _)) ==
    /\ app[t].pc = pc
    /\ guard = Free
    /\ LET o == app[t].obj
           a == app[t]
       IN  \/ /\ inRange(a.idx, Len(snap[o].listeners))
              /\ snap' = [snap EXCEPT ![o].listeners = Shift(@, a.idx + 1, a.lst)]
              /\ ret' = [ret EXCEPT ![t] = "ok"]
              /\ UNCHANGED corrupt
           \/ /\ inRange(a.idx, Len(snap[o].listeners)) /\ CallsMayFail
              /\ ret' = [ret EXCEPT ![t] = "fail"]
              /\ UNCHANGED <<snap, corrupt>>
           \/ /\ ~inRange(a.idx, Len(snap[o].listeners))
              /\ corrupt' = TRUE
              /\ ret' = [ret EXCEPT ![t] = "ok"]
              /\ UNCHANGED snap
    /\ app' = [app EXCEPT ![t] = Idle]
    /\ UNCHANGED <<guard, registry, nextObj, handles, calls, batches,
                   attached, sawBegin, lastBatch>>

InsertRange(i, n) == i <= n
DeleteRange(i, n) == i < n
(* Mutation: the listener is appended instead of inserted at its index.   *)
InsertListenerAtEnd(s, i, l) == Append(s, l)
(* Mutation: the deleted slot is cleared to NULL instead of shifted out.   *)
DeleteListenerNulling(s, i, l) == [s EXCEPT ![i] = 0]

InsertListener(s, i, l) == InsertAt(s, i, l)
DeleteListener(s, i, l) == RemoveAt(s, i)

AddLocked(t) == ListenerLocked(t, "add_lock", InsertRange, InsertListener)
RemoveLocked(t) == ListenerLocked(t, "remove_lock", DeleteRange, DeleteListener)

(* event_listener: under the guard, every registered snapshot whose event  *)
(* type and symbol match absorbs the batch, copying cnt[o] of its records. *)
EventListener(b) ==
    /\ batches < MaxBatches
    /\ guard = Free
    /\ \E cnt \in [Objs -> CopyCounts(b)] :
       LET hit(o) == o \in Range(registry) /\ Matches(snap[o], b)
           took(o) == hit(o) /\ ~(snap[o].status = "unknown" /\ BEGIN \notin b.flags)
       IN  /\ snap' = [o \in Objs |-> IF hit(o) THEN Absorb(snap[o], b, cnt[o]) ELSE snap[o]]
           /\ sawBegin' = [o \in Objs |-> sawBegin[o] \/ (took(o) /\ BEGIN \in b.flags)]
    /\ lastBatch' = [flags |-> b.flags, data |-> BatchRecords(b, Len(b.data)),
                     to |-> {o \in Range(registry) : Matches(snap[o], b)},
                     calls |-> FlattenSeq(
                        [i \in 1..Len(registry) |->
                           IF Matches(snap[registry[i]], b) /\ Notifies(snap[registry[i]], b)
                           THEN CallListeners(registry[i], snap[registry[i]].listeners)
                           ELSE <<>>])]
    /\ batches' = batches + 1
    /\ UNCHANGED <<guard, registry, nextObj, handles, app, ret, calls, attached, corrupt>>

(* Mutation: the loop over the array stops one element early.             *)
ClearContextShort(k) ==
    /\ snap' = [o \in Objs |-> IF \E i \in 1..k - 1 : registry[i] = o
                               THEN FreeSnapshot(snap[o]) ELSE snap[o]]
    /\ registry' = <<>>
    /\ guard' = Destroyed

(* dx_clear_snapshot_subscription_connection_context: the first k snapshots *)
(* of the array are freed (dx_free_snapshot_data) without the guard, the   *)
(* guard is destroyed and the array and the context are freed.             *)
ClearContext(k) ==
    /\ snap' = [o \in Objs |-> IF \E i \in 1..k : registry[i] = o
                               THEN FreeSnapshot(snap[o]) ELSE snap[o]]
    /\ registry' = <<>>
    /\ guard' = Destroyed

(* The connection's deinit of the snapshot subsystem clears the context.   *)
(* The application closes its connection after its last snapshot call has *)
(* returned (the samples' order: close the snapshot, then the connection). *)
(* Whether the guard is still held, as dx_close_snapshot leaves it, is not *)
(* tested.  The EventBus is taken to deliver no batch after the deinit.    *)
Deinit ==
    /\ guard # Destroyed
    /\ calls = MaxCalls
    /\ \A t \in Apps : app[t].pc = "idle"
    /\ ClearContext(Len(registry))
    /\ UNCHANGED <<nextObj, handles, app, ret, calls, batches, attached, corrupt,
                   sawBegin, lastBatch>>

(* Every call has returned and every bound is reached, or the connection  *)
(* is closed.                                                              *)
Done ==
    /\ \A t \in Apps : app[t].pc = "idle"
    /\ calls = MaxCalls
    /\ batches = MaxBatches \/ guard = Destroyed
    /\ UNCHANGED vars

AppStep(t) ==
    \/ CreateLocked(t) \/ CloseLocked(t)
    \/ AddFind(t) \/ AddLocked(t) \/ RemoveFind(t) \/ RemoveLocked(t)

Next ==
    \/ \E t \in Apps :
          \/ \E p \in Params : CreateBegin(t, p)
          \/ CreateFails(t)
          \/ \E o \in Objs : CloseBegin(t, o)
          \/ \E o \in Objs, l \in Listeners : AddBegin(t, o, l) \/ RemoveBegin(t, o, l)
          \/ AppStep(t)
    \/ \E b \in Batches : EventListener(b)
    \/ Deinit
    \/ Done

(* The operating system runs every thread that can run.                    *)
Fairness == \A t \in Apps : WF_vars(AppStep(t))

Spec == Init /\ [][Next]_vars /\ Fairness

-----------------------------------------------------------------------------
(* The abstract specifications and the refinement mappings to them.        *)

CallOf(a) == IF a.pc = "create_lock" THEN "create" ELSE "close"

SS == INSTANCE SnapshotSet WITH
        open <- {snap[o].params : o \in Range(registry)},
        req  <- [t \in Apps |->
                   IF app[t].pc \in {"create_lock", "close_lock"}
                   THEN [op |-> CallOf(app[t]), p |-> snap[app[t].obj].params]
                   ELSE NoReq],
        ret  <- ret

LS == INSTANCE ListenerSet WITH
        Objs <- Objs,
        lset <- [o \in Objs |-> Range(snap[o].listeners)],
        lret <- ret,
        lreq <- [t \in Apps |->
                   IF app[t].pc \in {"add_find", "add_lock", "remove_find", "remove_lock"}
                   THEN [op  |-> IF app[t].pc \in {"add_find", "add_lock"}
                                 THEN "add" ELSE "remove",
                         obj |-> app[t].obj, lst |-> app[t].lst]
                   ELSE NoReq]

(* The status and buffer each registered snapshot shows its listeners;   *)
(* the code keeps no delta of its own.                                     *)
SST == INSTANCE SnapshotState WITH
        Objs    <- Objs,
        Records <- Record(Sources),
        Batches <- {[flags |-> f, data |-> d, to |-> {}] :
                      f \in FlagSets, d \in {<<>>} \cup {<<r>> : r \in Record(Sources)}},
        st      <- [o \in Objs |->
                      IF o \in Range(registry)
                      THEN [status |-> snap[o].status, records |-> snap[o].records,
                            delta |-> <<>>]
                      ELSE [status |-> "none", records |-> <<>>, delta |-> <<>>]],
        fed     <- [flags |-> lastBatch.flags, data |-> lastBatch.data,
                    to |-> lastBatch.to]

-----------------------------------------------------------------------------
(* Properties.                                                             *)

(* Spec 4.5, I1: create rejects a tuple exactly when a snapshot of that    *)
(* same (record-id, symbol, source) tuple is open, and close removes the   *)
(* closed one, however the application threads' creates and closes and    *)
(* the I/O thread interleave.  dx_create_snapshot decides by comparing     *)
(* dx_new_snapshot_key values.                                             *)
SnapshotSetRefined == SS!Spec

(* Spec 4.2 and P6: every dx_add_snapshot_listener makes the listener a    *)
(* member exactly once and every dx_remove_snapshot_listener makes it not  *)
(* a member, although both search the array before they take the guard.   *)
ListenerSetRefined == LS!Spec

(* Spec 4.5: the registry array stays strictly sorted by key, which the    *)
(* binary searches of create and close rely on, and holds no freed         *)
(* snapshot.                                                               *)
RegistrySorted ==
    /\ IsSorted(RegistryKeys, LAMBDA a, b : KeyCompare(a, b) < 0)
    /\ \A i \in 1..Len(registry) : snap[registry[i]].status # "none"

(* P3: a snapshot that has not absorbed a SNAPSHOT_BEGIN batch since it    *)
(* was created holds no records and has not left the unknown status,       *)
(* whatever batches event_listener delivers to it.                         *)
NoDataBeforeBegin ==
    \A o \in Objs : ~sawBegin[o] => /\ snap[o].records = <<>>
                                    /\ snap[o].status \in {"unknown", "none"}

(* Spec 5: every call of the snapshot API eventually returns; the guard is *)
(* held only for the duration of a call.                                   *)
CallsReturn == \A t \in Apps : app[t].pc # "idle" ~> app[t].pc = "idle"

(* Spec 4.4: every registered snapshot moves through the status table   *)
(* the way the abstract SnapshotState allows: BEGIN replaces the buffer,   *)
(* END sorts and deduplicates it, TX_PENDING buffers a delta that the      *)
(* clearing batch applies, a plain batch in Full updates the buffer, and a *)
(* failed copy in event_listener sends the snapshot to Unknown.            *)
SnapshotStateRefined == SST!Spec

(* Spec 4.2 and P6: an event batch calls each listener of a snapshot once, *)
(* and the listeners of one snapshot in ascending order of their address,  *)
(* the stable fan-out order: dx_snapshot_call_listeners walks the listener *)
(* array, whose order is kept by the inserts at the binary search's index. *)
ListenersCalledInOrder ==
    \A o \in Objs :
        LET cs == SelectSeq(lastBatch.calls, LAMBDA c : c[1] = o)
        IN  \A i \in 1..Len(cs) - 1 : cs[i][2] < cs[i + 1][2]

NoSnapshotLeak ==
    \A o \in 1..nextObj - 1 :
        snap[o].status # "none" =>
            \/ o \in Range(registry)
            \/ \E t \in Apps : app[t].pc = "create_lock" /\ app[t].obj = o

(* Spec 3: a snapshot is the collection of records of one (kind, symbol,   *)
(* source); no record of another order source enters it.                   *)
RecordsOfOwnSource ==
    \A o \in Range(registry) :
        \A i \in 1..Len(snap[o].records) : snap[o].records[i].src = snap[o].params.source

=============================================================================
