------------------------------- MODULE Octets -------------------------------
(***************************************************************************)
(* Reading and writing octets the way the netgauze BGP codec does: a       *)
(* reader takes a buffer and returns a value and what is left of it, an    *)
(* error, or nom's Incomplete; a writer returns the octets of a value and  *)
(* the length its len() announces for them, which the code computes apart  *)
(* from write().                                                           *)
(*                                                                         *)
(* An integer or an address is the sequence of its octets, most            *)
(* significant first; Num gives the value of a short one.                  *)
(***************************************************************************)
EXTENDS Naturals, Sequences, SequencesExt

Octet == 0 .. 255

\* The value of an unsigned integer of at most three octets.
Num(s) == FoldLeft(LAMBDA n, o : 256 * n + o, 0, s)

\* `n as u8`, `n as u16`: what the code writes of a wider length.
U8(n) == <<n % 256>>
U16(n) == <<(n \div 256) % 256, n % 256>>

HasBit(octet, mask) == (octet \div mask) % 2 = 1

-----------------------------------------------------------------------------
(* Readers *)

Ok(v, rest) == [ok |-> TRUE, v |-> v, rest |-> rest]
Err(e) == [ok |-> FALSE, incomplete |-> FALSE, e |-> e]

\* nom::Err::Incomplete: it has no error that could be told from another.
Incomplete == [ok |-> FALSE, incomplete |-> TRUE]

\* The `?` operator: an error ends the reader, a value goes on to K.
Bind(r, K(_, _)) == IF r.ok THEN K(r.v, r.rest) ELSE r

\* parse_into_located: an error becomes one of the whole; Incomplete stays what it is.
MapError(F(_), r) == IF r.ok \/ r.incomplete THEN r ELSE Err(F(r.e))
Within(e, r) == MapError(LAMBDA part : e, r)

Drop(b, n) == SubSeq(b, n + 1, Len(b))

\* nom's complete::take, and be_u8 ... be_u128: n octets or Eof.
Take(n, b) == IF Len(b) < n THEN Err("Eof") ELSE Ok(SubSeq(b, 1, n), Drop(b, n))

\* A length of n octets and as many octets, with complete::take or multi::length_count.
LengthTake(n, b) == Bind(Take(n, b), LAMBDA s, rest : Take(Num(s), rest))

\* nom's multi::length_data: the same, but octets that are missing behind the length make
\* it Incomplete, as if the rest of the message were still to come.
LengthData(n, b) ==
  Bind(Take(n, b), LAMBDA s, rest : IF Len(rest) < Num(s) THEN Incomplete ELSE Take(Num(s), rest))

\* A record of fields of fixed width: layout is a sequence of <<name, width>>.
ReadFields(layout, b) ==
  LET Next(p, field) ==
        Bind(p, LAMBDA v, rest :
          Bind(Take(field[2], rest), LAMBDA s, tail : Ok(v @@ (field[1] :> s), tail)))
  IN FoldLeft(Next, Ok(<<>>, b), layout)

\* The reader of a part applied until its buffer is empty.
ParseTillEmpty(Read(_), b) ==
  LET from[n \in 0 .. Len(b)] ==
        IF n = Len(b) THEN Ok(<<>>, <<>>)
        ELSE Bind(Read(Drop(b, n)), LAMBDA v, rest :
               Bind(from[Len(b) - Len(rest)], LAMBDA vs, tail : Ok(<<v>> \o vs, tail)))
  IN from[0]

\* read_tlv_header: a type of n octets, a length of two, the data, the rest.
ReadTlv(n, b) ==
  Bind(Take(n, b), LAMBDA t, rest :
    Bind(LengthTake(2, rest), LAMBDA data, tail : Ok([type |-> Num(t), data |-> data], tail)))

-----------------------------------------------------------------------------
(* Writers *)

W(len, octets) == [len |-> len, octets |-> octets]

\* The fields of a record, in the order the writer names them.
Fields(v, names) == FoldLeft(LAMBDA s, name : s \o v[name], <<>>, names)

\* Several written parts, one after the other.
WriteAll(ws) ==
  W(FoldLeft(LAMBDA n, w : n + w.len, 0, ws), FoldLeft(LAMBDA s, w : s \o w.octets, <<>>, ws))

\* Every element of a sequence, written by Write.
WriteEach(Write(_), vs) == WriteAll([i \in DOMAIN vs |-> Write(vs[i])])

\* A written part behind base octets that its owner's len() counts.
Behind(base, octets, w) == W(base + w.len, octets \o w.octets)

\* write_tlv_header: the length it writes is len() without the header.
WriteTlv(n, code, w) ==
  W(n + 2 + w.len, (IF n = 1 THEN U8(code) ELSE U16(code)) \o U16(w.len) \o w.octets)

-----------------------------------------------------------------------------
(* Sample values: enough to tell octets and fields from each other *)

\* Two words of n octets: all different, and all ones.
Ramp(n) == [i \in 1 .. n |-> i]
Ones(n) == [i \in 1 .. n |-> 255]
Words(n) == {Ramp(n), Ones(n)}

\* No element, or one.
Lists(S) == {<<>>} \cup {<<x>> : x \in S}
=============================================================================
