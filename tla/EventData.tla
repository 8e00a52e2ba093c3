----------------------------- MODULE EventData -----------------------------
(***************************************************************************)
(* The event tables and the subscription parameters of src/src/EventData.c.*)
(*                                                                         *)
(* dx_get_event_subscription_params builds, for one event id, the list of  *)
(* (record, subscription type) parameters the connection subscribes to:   *)
(* the per-event helpers call dx_add_subscription_param_to_list once per   *)
(* record, CHECKED_CALL_4 returning false at the first call that fails     *)
(* (no record id, or DX_ARRAY_INSERT out of memory).  Each of those calls  *)
(* is one step here; AttemptsOf lists the calls a request makes in the     *)
(* order the code makes them and whether the helper then returns true.    *)
(*                                                                         *)
(* dx_get_event_data_item maps an event mask to an event id with           *)
(* dx_get_event_id_by_bitmask and indexes g_event_data_navigators with it. *)
(***************************************************************************)
EXTENDS Integers, Sequences, SequencesExt, FiniteSets, Bitwise

CONSTANTS
    Sources,     \* order source suffixes
    MaxSources,  \* bound on order_source->size
    Masks,       \* event masks passed to dx_get_event_data_item
    AddFails,    \* whether dx_add_subscription_param_to_list may fail
    InvalidEid,  \* dx_eid_invalid
    NoReq        \* no call in progress

ASSUME MaxSources \in Nat /\ AddFails \in BOOLEAN /\ Masks \subseteq Nat

(* dx_event_id_t, dx_eid_trade .. dx_eid_spread_order, in the order of     *)
(* g_event_data_sizes and g_event_data_navigators.                         *)
EventNames == <<"trade", "quote", "summary", "profile", "order",
                "time_and_sale", "candle", "trade_eth", "spread_order">>
EventIds == 0..(Len(EventNames) - 1)
Eid(name) == CHOOSE i \in EventIds : EventNames[i + 1] = name

SINGLE_RECORD   == "DX_SUBSCR_FLAG_SINGLE_RECORD"
SR_MARKET_MAKER == "DX_SUBSCR_FLAG_SR_MARKET_MAKER_ORDER"
TIME_SERIES     == "DX_SUBSCR_FLAG_TIME_SERIES"
SubscrFlags == {SINGLE_RECORD, SR_MARKET_MAKER, TIME_SERIES}

(* 'A' and 'Z': the letters the composite-record loops run over.           *)
FirstLetter == 65
LastLetter  == 90

(* The order_source arrays a caller can pass: distinct suffixes.           *)
SourceArrays == {s \in BoundedSeq(Sources, MaxSources) : IsInjective(s)}

Requests == [eid : EventIds \cup {InvalidEid}, flags : SUBSET SubscrFlags,
             src : SourceArrays]

(* A record name is a name and its suffix: none, or the letter or order   *)
(* source copied after a template such as "Quote&" or "Order#".            *)
Param(name, type) == [rec |-> <<name, <<>>>>, type |-> type]
Suffixed(tmpl, x, type) == [rec |-> <<tmpl, <<x>>>>, type |-> type]

(* dx_get_event_id_by_bitmask: the single-bit test, then the loop that     *)
(* shifts the mask right before it tests it and counts the shifts.         *)
IsOnlySingleBitSet(m) == m # 0 /\ (m & (m - 1)) = 0

(* Mutation: the loop tests the mask before it shifts it.                 *)
RECURSIVE ShiftCountTestFirst(_, _)
ShiftCountTestFirst(m, id) ==
    IF m = 0 THEN id ELSE ShiftCountTestFirst(shiftR(m, 1), id + 1)

RECURSIVE ShiftCount(_, _)
ShiftCount(m, id) == IF shiftR(m, 1) = 0 THEN id ELSE ShiftCount(shiftR(m, 1), id + 1)

EventIdByBitmask(m) == IF IsOnlySingleBitSet(m) THEN ShiftCount(m, 0) ELSE InvalidEid

(* Mutation: the letter loops run to ch <= 'Z' + 1.                      *)
LetterLoopPastZ(tmpl) ==
    [i \in 1..(LastLetter - FirstLetter + 2) |->
        Suffixed(tmpl, FirstLetter + i - 1, "ticker")]

(* The Quote&A..Quote&Z style loops: one ticker parameter per letter.      *)
LetterLoop(tmpl) ==
    [i \in 1..(LastLetter - FirstLetter + 1) |->
        Suffixed(tmpl, FirstLetter + i - 1, "ticker")]

(* dx_get_trade/summary/trade_eth_subscription_params.                     *)
FamilyAttempts(base, tmpl) ==
    [adds |-> <<Param(base, "ticker")>> \o LetterLoop(tmpl), ok |-> TRUE]

(* dx_get_single_order_subscription_params.                                *)
SingleOrderAttempts(src, flags) ==
    IF SR_MARKET_MAKER \in flags
    THEN [adds |-> <<Param("MarketMaker", "history")>>, ok |-> TRUE]
    ELSE IF Len(src) > 1 THEN [adds |-> <<>>, ok |-> FALSE]
    ELSE [adds |-> <<Param("Order", "history")>>
                   \o [i \in 1..Len(src) |-> Suffixed("Order#", src[i], "history")],
          ok |-> TRUE]

(* dx_get_order_subscription_params.                                       *)
OrderAttempts(src, flags) ==
    IF SINGLE_RECORD \in flags THEN SingleOrderAttempts(src, flags)
    ELSE [adds |-> <<Param("Quote", "ticker"), Param("MarketMaker", "history"),
                     Param("Order", "history")>>
                   \o [i \in 1..Len(src) |-> Suffixed("Order#", src[i], "history")]
                   \o LetterLoop("Quote&"),
          ok |-> TRUE]

One(rec, type) == [adds |-> <<Param(rec, type)>>, ok |-> TRUE]

(* The switch of dx_get_event_subscription_params; an id no case names   *)
(* adds nothing and leaves result true.                                    *)
AttemptsOf(r) ==
    LET e == IF r.eid = InvalidEid THEN "invalid" ELSE EventNames[r.eid + 1]
    IN  CASE e = "trade"         -> FamilyAttempts("Trade", "Trade&")
          [] e = "quote"         -> One("Quote", "ticker")
          [] e = "summary"       -> FamilyAttempts("Summary", "Summary&")
          [] e = "profile"       -> One("Profile", "ticker")
          [] e = "order"         -> OrderAttempts(r.src, r.flags)
          [] e = "time_and_sale" -> One("TimeAndSale",
                                        IF TIME_SERIES \in r.flags THEN "history" ELSE "stream")
          [] e = "candle"        -> One("Candle", "history")
          [] e = "trade_eth"     -> FamilyAttempts("TradeETH", "TradeETH&")
          [] e = "spread_order"  -> [adds |-> <<Param("SpreadOrder", "history"),
                                               Param("SpreadOrder#ISE", "history")>>,
                                     ok |-> TRUE]
          [] OTHER               -> [adds |-> <<>>, ok |-> TRUE]

-----------------------------------------------------------------------------

VARIABLES
    req,     \* the dx_get_event_subscription_params call in progress, or NoReq
    list,    \* param_list: the parameters added so far
    result,  \* result: FALSE once a helper has failed
    out,     \* the last call, what it returned (*params, the size) and
             \* whether it logged a failure
    nav      \* the mask the last dx_get_event_data_item got, and the
             \* navigator index it used

vars == <<req, list, result, out, nav>>

Idle == req = NoReq /\ list = <<>>

NoOut == [req |-> NoReq, params |-> <<>>, size |-> 0, failed |-> FALSE]
NoNav == [mask |-> 0, id |-> InvalidEid]

Init ==
    /\ req = NoReq
    /\ list = <<>>
    /\ result = TRUE
    /\ out = NoOut
    /\ nav = NoNav

(* A call starts with an empty param_list.  out and nav hold what the last *)
(* call returned only until the thread makes its next call.                *)
Call(r) ==
    /\ Idle /\ result
    /\ req' = r
    /\ out' = NoOut
    /\ nav' = NoNav
    /\ UNCHANGED <<list, result>>

Pending == LET a == AttemptsOf(req) IN Len(list) < Len(a.adds)
NextAttempt == AttemptsOf(req).adds[Len(list) + 1]

(* dx_add_subscription_param_to_list succeeds: the parameter is appended. *)
AddParam ==
    /\ req # NoReq /\ result /\ Pending
    /\ list' = Append(list, NextAttempt)
    /\ UNCHANGED <<req, result, out, nav>>

(* It fails (record_id < 0, or DX_ARRAY_INSERT cannot grow the array):     *)
(* CHECKED_CALL_4 makes the helper return false at once.                  *)
AddParamFails ==
    /\ AddFails
    /\ req # NoReq /\ result /\ Pending
    /\ result' = FALSE
    /\ UNCHANGED <<req, list, out, nav>>

(* The helper returns (true, or false from an early return), the failure  *)
(* is logged, and the list built so far is handed to the caller with its  *)
(* size whatever the result.                                               *)
Return ==
    /\ req # NoReq
    /\ ~result \/ ~Pending
    /\ out' = [req |-> req, params |-> list, size |-> Len(list),
               failed |-> ~result \/ ~AttemptsOf(req).ok]
    /\ req' = NoReq
    /\ list' = <<>>
    /\ result' = TRUE
    /\ UNCHANGED nav

(* dx_get_event_data_item: the navigator of the mask's event id.           *)
GetEventDataItem(mask) ==
    /\ Idle
    /\ nav' = [mask |-> mask, id |-> EventIdByBitmask(mask)]
    /\ out' = NoOut
    /\ UNCHANGED <<req, list, result>>

Next ==
    \/ \E r \in Requests : Call(r)
    \/ AddParam \/ AddParamFails \/ Return
    \/ \E m \in Masks : GetEventDataItem(m)

Spec == Init /\ [][Next]_vars

-----------------------------------------------------------------------------
(* References and properties.                                              *)

Letters == FirstLetter..LastLetter

(* The event id of a mask is the position of its only set bit, and         *)
(* dx_eid_invalid for a mask with no or several bits set; the index        *)
(* dx_get_event_data_item uses lies inside g_event_data_navigators         *)
(* exactly for the masks of the nine event types.                          *)
BitmaskSelectsNavigator ==
    /\ nav.id = IF \E i \in 0..30 : nav.mask = 2^i
                THEN CHOOSE i \in 0..30 : nav.mask = 2^i
                ELSE InvalidEid
    /\ nav.id \in EventIds <=> nav.mask \in {2^i : i \in EventIds}

TypeOK ==
    /\ req \in Requests \cup {NoReq}
    /\ list \in Seq([rec : STRING \X ({<<>>} \cup {<<x>> : x \in Letters \cup Sources}),
                     type : {"ticker", "history", "stream"}])
    /\ result \in BOOLEAN
    /\ nav.id \in EventIds \cup {InvalidEid}

=============================================================================
