---------------------------- MODULE ListenerSet ----------------------------
(***************************************************************************)
(* What a snapshot's listener set promises (spec 4.2): adding a listener   *)
(* makes it a member whether or not it was one, removing it makes it not a *)
(* member whether or not it was one; each call takes effect atomically at  *)
(* its return, or the call fails and changes nothing.  Closing the snapshot, or the connection, empties the set.                      *)
(***************************************************************************)
CONSTANTS Apps,       \* application threads
          Objs,       \* snapshot objects
          Listeners,  \* listener callbacks
          NoReq       \* no call in progress

VARIABLES lset,       \* lset[o]: the listeners of snapshot o
          lreq,       \* lreq[t]: the listener call thread t is in, or NoReq
          lret        \* lret[t]: what t's last call returned

vars == <<lset, lreq, lret>>

Results == {"none", "ok", "exists", "fail"}

Requests == [op : {"add", "remove"}, obj : Objs, lst : Listeners]

TypeOK ==
    /\ lset \in [Objs -> SUBSET Listeners]
    /\ lreq \in [Apps -> Requests \cup {NoReq}]
    /\ lret \in [Apps -> Results]

Init ==
    /\ lset = [o \in Objs |-> {}]
    /\ lreq = [t \in Apps |-> NoReq]
    /\ lret = [t \in Apps |-> "none"]

Call(t, op, o, l) ==
    /\ lreq[t] = NoReq
    /\ lreq' = [lreq EXCEPT ![t] = [op |-> op, obj |-> o, lst |-> l]]
    /\ UNCHANGED <<lset, lret>>

(* A call that returns true has taken effect; one that returns false has  *)
(* changed nothing.                                                        *)
Return(t) ==
    /\ lreq[t] # NoReq
    /\ LET r == lreq[t]
       IN  \/ /\ lset' = [lset EXCEPT ![r.obj] = IF r.op = "add" THEN @ \cup {r.lst}
                                                                ELSE @ \ {r.lst}]
              /\ lret' = [lret EXCEPT ![t] = "ok"]
           \/ /\ lret' = [lret EXCEPT ![t] = "fail"]
              /\ UNCHANGED lset
    /\ lreq' = [lreq EXCEPT ![t] = NoReq]

(* A thread's other calls (create, close) change only its result.         *)
Other(t) ==
    /\ lreq[t] = NoReq
    /\ \E r \in Results \ {"none"} : lret' = [lret EXCEPT ![t] = r]
    /\ UNCHANGED <<lset, lreq>>

(* Thread t closes snapshot o, whose listener array dx_free_snapshot_data *)
(* clears; the close returns true.                                         *)
Dispose(t, o) ==
    /\ lreq[t] = NoReq
    /\ lset' = [lset EXCEPT ![o] = {}]
    /\ lret' = [lret EXCEPT ![t] = "ok"]
    /\ UNCHANGED lreq

(* The connection is closed: every snapshot's listener array is freed.     *)
Release ==
    /\ \A t \in Apps : lreq[t] = NoReq
    /\ lset' = [o \in Objs |-> {}]
    /\ UNCHANGED <<lreq, lret>>

Next ==
    \/ \E t \in Apps, op \in {"add", "remove"}, o \in Objs, l \in Listeners :
          Call(t, op, o, l)
    \/ \E t \in Apps : Return(t) \/ Other(t)
    \/ \E t \in Apps, o \in Objs : Dispose(t, o)
    \/ Release

Spec == Init /\ [][Next]_vars

=============================================================================
