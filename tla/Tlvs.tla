-------------------------------- MODULE Tlvs --------------------------------
(***************************************************************************)
(* The TLVs of link-state and segment-routing data: a type of n octets, a  *)
(* length of two, a value.  A TLV is [kind, value] when its table names    *)
(* the type, [kind |-> "Unknown", code, value] when it does not; types     *)
(* that are reserved or deprecated are refused.                            *)
(***************************************************************************)
EXTENDS Octets, Iana

\* Octets that the value leaves over are dropped.
ReadTlvOf(n, table, refused, Value(_, _), b) ==
  Bind(ReadTlv(n, b), LAMBDA tlv, rest :
    LET name == TryFrom(table, tlv.type)
    IN CASE name # Undefined ->
              Bind(Value(name[1], tlv.data), LAMBDA v, left :
                Ok([kind |-> name[1], value |-> v], rest))
         [] name = Undefined /\ tlv.type \in refused -> Err("Reserved")
         [] OTHER -> Ok([kind |-> "Unknown", code |-> tlv.type, value |-> tlv.data], rest))

WriteTlvOf(n, table, Value(_), tlv) ==
  IF tlv.kind = "Unknown" THEN WriteTlv(n, tlv.code, W(Len(tlv.value), tlv.value))
  ELSE WriteTlv(n, table[tlv.kind], Value(tlv))
=============================================================================
