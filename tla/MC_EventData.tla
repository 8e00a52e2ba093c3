---------------------------- MODULE MC_EventData ----------------------------
EXTENDS EventData

(* Masks of every event type, and masks with no bit and with two bits set. *)
MasksSample == {0, 3, 2^4 + 2^8} \cup {2^i : i \in EventIds}

=============================================================================
