----------------------------- MODULE PrefixSid -----------------------------
(***************************************************************************)
(* The BGP Prefix-SID path attribute: TLVs with sub-TLVs with sub-sub-TLVs *)
(* for segment routing over MPLS and IPv6.                                 *)
(***************************************************************************)
EXTENDS Tlvs, Nlri

\* SRv6SIDStructure is six lengths of one octet each.
SRv6ServiceSubSubTlv ==
  [kind : {"SRv6SIDStructure"}, value : {Ramp(6)}]
    \cup [kind : {"Unknown"}, code : {77}, value : {Ramp(3)}]
ReadSubSubTlv(b) ==
  ReadTlvOf(1, BgpSrv6ServiceSubSubTlvType, {0, 255}, LAMBDA kind, data : Take(6, data), b)
WriteSubSubTlv(tlv) ==
  WriteTlvOf(1, BgpSrv6ServiceSubSubTlvType, LAMBDA t : W(6, t.value), tlv)

SRv6ServiceSubTlv ==
  [kind : {"SRv6SIDInformation"},
   value : [reserved1 : {<<1>>}, sid : {Ramp(16)}, service_sid_flags : {<<2>>},
            endpoint_behaviour : {Ones(2)}, reserved2 : {<<3>>},
            subsubtlvs : Lists(SRv6ServiceSubSubTlv)]]
    \cup [kind : {"Unknown"}, code : {77}, value : {Ramp(3)}]
ReadSidInformation(kind, data) ==
  Bind(ReadFields(<<<<"reserved1", 1>>, <<"sid", 16>>, <<"service_sid_flags", 1>>,
                    <<"endpoint_behaviour", 2>>, <<"reserved2", 1>>>>, data), LAMBDA v, rest :
    Bind(ParseTillEmpty(ReadSubSubTlv, rest), LAMBDA tlvs, none :
      Ok(v @@ [subsubtlvs |-> tlvs], none)))
ReadSubTlv(b) == ReadTlvOf(1, BgpSrv6ServiceSubTlvType, {0, 255}, ReadSidInformation, b)
WriteSidInformation(tlv) ==
  LET v == tlv.value
  IN Behind(21, Fields(v, <<"reserved1", "sid", "service_sid_flags", "endpoint_behaviour",
                            "reserved2">>), WriteEach(WriteSubSubTlv, v.subsubtlvs))
WriteSubTlv(tlv) == WriteTlvOf(1, BgpSrv6ServiceSubTlvType, WriteSidInformation, tlv)

SegmentRoutingGlobalBlock == [first_label : MplsLabel, range_size : {Ramp(3)}]
ReadSegmentRoutingGlobalBlock(b) ==
  ReadFields(<<<<"first_label", 3>>, <<"range_size", 3>>>>, b)
WriteSegmentRoutingGlobalBlock(block) == W(6, Fields(block, <<"first_label", "range_size">>))

BgpSidAttribute ==
  [kind : {"LabelIndex"}, value : [flags : {Ramp(2)}, label_index : {Ones(4)}]]
    \cup [kind : {"Originator"},
          value : [flags : {Ramp(2)}, srgbs : Lists(SegmentRoutingGlobalBlock)]]
    \cup [kind : {"SRv6ServiceL3", "SRv6ServiceL2"},
          value : [reserved : {<<9>>}, subtlvs : Lists(SRv6ServiceSubTlv)]]
    \cup [kind : {"Unknown"}, code : {77}, value : {Ramp(3)}]
ReadSidValue(kind, data) ==
  CASE kind = "LabelIndex" ->
         Bind(ReadFields(<<<<"reserved", 1>>, <<"flags", 2>>, <<"label_index", 4>>>>, data),
           LAMBDA v, rest : Ok(Restrict(v, {"flags", "label_index"}), rest))
    [] kind = "Originator" ->
         Bind(Take(2, data), LAMBDA flags, rest :
         Bind(ParseTillEmpty(ReadSegmentRoutingGlobalBlock, rest), LAMBDA srgbs, none :
           Ok([flags |-> flags, srgbs |-> srgbs], none)))
    [] kind \in {"SRv6ServiceL3", "SRv6ServiceL2"} ->
         Bind(Take(1, data), LAMBDA reserved, rest :
         Bind(ParseTillEmpty(ReadSubTlv, rest), LAMBDA tlvs, none :
           Ok([reserved |-> reserved, subtlvs |-> tlvs], none)))
ReadSid(b) == ReadTlvOf(1, BgpSidAttributeType, {0, 2, 255}, ReadSidValue, b)

WriteSidValue(tlv) ==
  LET v == tlv.value
  IN CASE tlv.kind = "LabelIndex" -> W(7, U8(0) \o v.flags \o v.label_index)
       [] tlv.kind = "Originator" ->
            Behind(2, v.flags, WriteEach(WriteSegmentRoutingGlobalBlock, v.srgbs))
       [] OTHER -> Behind(1, v.reserved, WriteEach(WriteSubTlv, v.subtlvs))
\* An unknown TLV repeats its code behind the header, which its length leaves out.
WriteSid(tlv) ==
  IF tlv.kind = "Unknown" THEN WriteTlv(1, tlv.code, W(Len(tlv.value), U8(tlv.code) \o tlv.value))
  ELSE WriteTlvOf(1, BgpSidAttributeType, WriteSidValue, tlv)

PrefixSegmentIdentifier == Lists(BgpSidAttribute)
ReadPrefixSegmentIdentifier(extended, b) ==
  Bind(LengthData(IF extended THEN 2 ELSE 1, b), LAMBDA data, rest :
    Bind(ParseTillEmpty(ReadSid, data), LAMBDA tlvs, none : Ok(tlvs, rest)))
=============================================================================
