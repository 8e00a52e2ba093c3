--------------------------- MODULE SnapshotState ---------------------------
(***************************************************************************)
(* What a snapshot promises its listeners (spec 4.4): the status table,    *)
(* the canonical buffer after SNAPSHOT_END, the pending delta of a         *)
(* transaction and its atomic application, and the failure semantics      *)
(* (an allocation failure while absorbing sends the snapshot to Unknown    *)
(* with an empty buffer).  Records are [key, src]; the canonical key is    *)
(* the record key and a later record replaces an earlier one of the same  *)
(* key.  Rows the table leaves open (SNAPSHOT_END outside Begin, TX_PENDING *)
(* in Begin) allow any status and buffer.                                  *)
(***************************************************************************)
EXTENDS Integers, Sequences, SequencesExt, FiniteSets

CONSTANTS Objs,       \* snapshot objects
          Records,    \* the records batches can carry
          Batches     \* [flags, data] of the batches the feed can send

VARIABLES
    st,       \* st[o]: [status, records, delta] of snapshot o
    fed       \* the last batch the feed delivered, and the snapshots it reached

BEGIN == "SNAPSHOT_BEGIN"
END   == "SNAPSHOT_END"
TXP   == "TX_PENDING"

Closed == [status |-> "none", records |-> <<>>, delta |-> <<>>]

(* Sort by key, keeping for every key the last record that carries it.     *)
Canon(s) ==
    LET last(k) == s[Max({i \in DOMAIN s : s[i].key = k})]
    IN  [i \in 1..Cardinality(ToSet([j \in DOMAIN s |-> s[j].key])) |->
            last(SetToSortSeq(ToSet([j \in DOMAIN s |-> s[j].key]), <)[i])]

(* One snapshot absorbing one batch: s2 is the state the table allows     *)
(* after s, ok telling whether copying the batch's records succeeded.      *)
Absorbed(s, s2, b, ok) ==
    LET d       == b.data
        begin   == BEGIN \in b.flags
        ends    == END \in b.flags
        tx      == TXP \in b.flags
        plain   == ~begin /\ ~ends
        set(status, recs, delta) == s2 = [status |-> status, records |-> recs, delta |-> delta]
    IN  CASE s.status = "unknown" /\ ~begin        -> s2 = s
          [] ~ok /\ d # <<>>                        -> set("unknown", <<>>, <<>>)
          [] begin                                  -> set("begin", d, <<>>)
          [] s.status = "begin" /\ ends             -> set("full", Canon(s.records \o d), <<>>)
          [] s.status = "begin" /\ plain /\ ~tx     -> set("begin", s.records \o d, <<>>)
          [] s.status \in {"full", "pending"} /\ plain /\ tx
                                                    -> set("pending", s.records, s.delta \o d)
          [] s.status = "pending" /\ plain /\ ~tx   -> set("full", Canon(s.records \o s.delta \o d), <<>>)
          [] s.status = "full" /\ plain /\ ~tx      -> set("full", Canon(s.records \o d), <<>>)
          [] OTHER -> /\ s2.status \in {"unknown", "begin", "full", "pending"}
                      /\ s2.records \in Seq(Records)
                      /\ s2.delta \in Seq(Records)

Init == /\ st = [o \in Objs |-> Closed]
        /\ fed = [flags |-> {}, data |-> <<>>, to |-> {}]

(* create: a new snapshot starts Unknown with an empty buffer.             *)
Open(o) ==
    /\ st[o].status = "none"
    /\ st' = [st EXCEPT ![o] = [Closed EXCEPT !.status = "unknown"]]
    /\ UNCHANGED fed

(* close: the snapshot and its buffer are released.                        *)
Dispose(o) ==
    /\ st[o].status # "none"
    /\ st' = [st EXCEPT ![o] = Closed]
    /\ UNCHANGED fed

(* The connection is closed: every snapshot is released.                  *)
Release ==
    /\ st' = [o \in Objs |-> Closed]
    /\ UNCHANGED fed

(* EventDispatch: one batch absorbed by the open snapshots S it is for,   *)
(* copying failing for some of them.                                       *)
Deliver(S, b) ==
    /\ \A o \in S : st[o].status # "none"
    /\ \A o \in S : \E ok \in BOOLEAN : Absorbed(st[o], st'[o], b, ok)
    /\ \A o \in Objs \ S : st'[o] = st[o]
    /\ fed' = [b EXCEPT !.to = S]

Next ==
    \/ \E o \in Objs : Open(o) \/ Dispose(o)
    \/ \E S \in SUBSET Objs, b \in Batches : Deliver(S, [b EXCEPT !.to = S])
    \/ Release

Spec == Init /\ [][Next]_<<st, fed>>

=============================================================================
