---------------------------- MODULE SnapshotSet ----------------------------
(***************************************************************************)
(* What the snapshot registry promises its callers (spec 4.5, invariant    *)
(* I1): a connection holds at most one open snapshot per (record-id,      *)
(* symbol, source) tuple; create succeeds exactly when the tuple is not    *)
(* open and fails with AlreadyExists when it is, unless it fails with     *)
(* InsufficientMemory and changes nothing; close of an open snapshot     *)
(* succeeds, or fails and leaves it open.  Each call is a request followed by a single atomic return.   *)
(***************************************************************************)
EXTENDS FiniteSets

CONSTANTS Apps,     \* application threads
          Params,   \* the snapshot tuples
          NoReq     \* no call in progress

VARIABLES open,     \* the tuples of the open snapshots
          req,      \* req[t]: the call thread t is in, or NoReq
          ret       \* ret[t]: what t's last call returned

vars == <<open, req, ret>>

Requests == [op : {"create", "close"}, p : Params]

TypeOK ==
    /\ open \subseteq Params
    /\ req \in [Apps -> Requests \cup {NoReq}]
    /\ ret \in [Apps -> {"none", "ok", "exists", "fail"}]

Init ==
    /\ open = {}
    /\ req = [t \in Apps |-> NoReq]
    /\ ret = [t \in Apps |-> "none"]

CallCreate(t, p) ==
    /\ req[t] = NoReq
    /\ req' = [req EXCEPT ![t] = [op |-> "create", p |-> p]]
    /\ UNCHANGED <<open, ret>>

CallClose(t, p) ==
    /\ req[t] = NoReq
    /\ p \in open
    /\ req' = [req EXCEPT ![t] = [op |-> "close", p |-> p]]
    /\ UNCHANGED <<open, ret>>

ReturnCreate(t) ==
    /\ req[t] # NoReq
    /\ req[t].op = "create"
    /\ \/ /\ req[t].p \in open
          /\ ret' = [ret EXCEPT ![t] = "exists"]
          /\ UNCHANGED open
       \/ /\ req[t].p \notin open
          /\ open' = open \cup {req[t].p}
          /\ ret' = [ret EXCEPT ![t] = "ok"]
       \/ /\ ret' = [ret EXCEPT ![t] = "fail"]
          /\ UNCHANGED open
    /\ req' = [req EXCEPT ![t] = NoReq]

(* A call that opens or closes nothing: a create that fails before it     *)
(* does anything observable, or a listener call.                           *)
OtherCall(t) ==
    /\ req[t] = NoReq
    /\ \E r \in {"ok", "fail"} : ret' = [ret EXCEPT ![t] = r]
    /\ UNCHANGED <<open, req>>

ReturnClose(t) ==
    /\ req[t] # NoReq
    /\ req[t].op = "close"
    /\ \/ /\ req[t].p \in open
          /\ open' = open \ {req[t].p}
          /\ ret' = [ret EXCEPT ![t] = "ok"]
       \/ /\ ret' = [ret EXCEPT ![t] = "fail"]
          /\ UNCHANGED open
    /\ req' = [req EXCEPT ![t] = NoReq]

(* The connection is closed with no call in progress: every snapshot is    *)
(* released.                                                               *)
Release ==
    /\ \A t \in Apps : req[t] = NoReq
    /\ open' = {}
    /\ UNCHANGED <<req, ret>>

Next ==
    \/ \E t \in Apps :
          \/ \E p \in Params : CallCreate(t, p) \/ CallClose(t, p)
          \/ ReturnCreate(t)
          \/ ReturnClose(t)
          \/ OtherCall(t)
    \/ Release

Spec == Init /\ [][Next]_vars

=============================================================================
