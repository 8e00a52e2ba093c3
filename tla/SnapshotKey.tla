---------------------------- MODULE SnapshotKey ----------------------------
(***************************************************************************)
(* The composite snapshot key of Snapshot.c (dx_new_snapshot_key) and the  *)
(* symbol hash it is built from.                                           *)
(*                                                                         *)
(* TLC integers are 32-bit, so the 32-bit unsigned hash is kept as two     *)
(* 16-bit halves <<hi, lo>> and the 64-bit key as the tuple of its fields  *)
(* <<bits 56-63, bits 40-55, bits 24-39, bits 0-23>>.  Keys compare as     *)
(* unsigned 64-bit numbers do, which is lexicographic order on that tuple. *)
(***************************************************************************)
EXTENDS Integers, Sequences, SequencesExt, Bitwise

CONSTANT NoSource   \* the NULL order_source of dx_create_snapshot

Half == 2^16

(* One step of the rolling hash h = h * 31 + c, wrapping at 2^32.           *)
HashStep(h, c) ==
    LET lo == h[2] * 31 + c
    IN  << (h[1] * 31 + lo \div Half) % Half, lo % Half >>

(* dx_symbol_name_hasher: the per-code-point rolling hash seeded at 0, as  *)
(* the hash of a string is defined by section 4.3 (the hasher is not       *)
(* among the sources).  A string is a sequence of code points.             *)
SymbolNameHash(s) == FoldLeft(HashStep, <<0, 0>>, s)

(* The hash is a dxf_int_t: a signed 32-bit value, negative when bit 31    *)
(* is set.                                                                 *)
IsNegative(h) == h[1] >= 2^15

(* dx_new_snapshot_key:                                                    *)
(*   ((ulong)record_id << 56) | ((ulong)symbol_hash << 24)                 *)
(*     | (order_source_hash & 0xFFFFFF)                                    *)
(* The cast of the signed symbol hash to dxf_ulong_t sign-extends it, so a *)
(* negative hash sets bits 56-63 to ones and ORs them into the record-id   *)
(* byte.                                                                   *)
NewSnapshotKey(record_id, symbol, order_source) ==
    LET sh   == SymbolNameHash(symbol)
        oh   == IF order_source = NoSource THEN <<0, 0>>
                                           ELSE SymbolNameHash(order_source)
        sext == IF IsNegative(sh) THEN 255 ELSE 0
    IN  << (record_id % 256) | sext, sh[1], sh[2], (oh[1] % 256) * Half + oh[2] >>

(* DX_NUMERIC_COMPARATOR on two keys: -1, 0 or 1.                          *)
RECURSIVE KeyCompare(_, _)
KeyCompare(a, b) ==
    CASE a = <<>>         -> 0
      [] Head(a) < Head(b) -> -1
      [] Head(a) > Head(b) -> 1
      [] OTHER             -> KeyCompare(Tail(a), Tail(b))

=============================================================================
