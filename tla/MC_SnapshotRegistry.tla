------------------------ MODULE MC_SnapshotRegistry ------------------------
(***************************************************************************)
(* Instances of SnapshotRegistry for TLC.  Strings are sequences of code   *)
(* points, so the symbol and source hashes are the ones the library        *)
(* computes.  Record ids are the ones dx_add_or_get_record_id would hand   *)
(* out in some order of registration; only their distinctness matters.    *)
(***************************************************************************)
EXTENDS SnapshotRegistry, TLC

IBM    == <<73, 66, 77>>                    \* "IBM",     hash 72276
EURUSD == <<69, 85, 82, 47, 85, 83, 68>>    \* "EUR/USD", hash 0xD7B4_1379 < 0
NTV    == <<78, 84, 86>>                    \* "NTV"
BYX    == <<66, 89, 88>>                    \* "BYX"

OrderNTV     == [kind |-> "Order", rid |-> 9, symbol |-> IBM, source |-> NTV]
OrderBYX     == [kind |-> "Order", rid |-> 10, symbol |-> IBM, source |-> BYX]
TimeSaleIBM  == [kind |-> "TimeAndSale", rid |-> 6, symbol |-> IBM, source |-> NoSource]
OrderEUR     == [kind |-> "Order", rid |-> 5, symbol |-> EURUSD, source |-> NoSource]
TimeSaleEUR  == [kind |-> "TimeAndSale", rid |-> 6, symbol |-> EURUSD, source |-> NoSource]

(* Two snapshots of different record ids whose keys differ.                *)
ParamsDistinct == {OrderNTV, TimeSaleIBM}
(* Two snapshots of different record ids of a symbol with negative hash.  *)
ParamsNegativeHash == {OrderEUR, TimeSaleEUR}
(* Two order books of one symbol from two sources.                         *)
ParamsTwoSources == {OrderNTV, OrderBYX}
(* One snapshot.                                                           *)
ParamsOne == {OrderNTV}

AllFlags == SUBSET {BEGIN, END, TXP}
(* Batches that open, fill and close a snapshot without transactions.     *)
SnapshotFlags == {{BEGIN}, {}, {END}}

(* lastBatch is a history variable only SnapshotStateRefined and         *)
(* ListenersCalledInOrder read; runs that check neither leave it out of   *)
(* the state fingerprint.                                                  *)
ViewNoHistory == <<guard, registry, snap, nextObj, handles, app, ret, calls,
                   batches, attached, corrupt, sawBegin>>

=============================================================================
