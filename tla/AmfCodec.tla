-------------------------------- MODULE AmfCodec --------------------------------
(***************************************************************************)
(* AMF0, the encoding of RTMP commands: AMFAny's encoders and AMFObject's  *)
(* decoder (mmedia/rtmp/amf).                                              *)
(*                                                                         *)
(* A message is a sequence of values; a value is a tuple that starts with  *)
(* its kind.  A byte is a number.  Strings are sequences of bytes.  The 8  *)
(* bytes of a number are its value in halves and zeros: only whether it    *)
(* has a fraction and whether it is 0 matters to the decoder.              *)
(***************************************************************************)
EXTENDS Naturals, Integers, Sequences, SequencesExt

CONSTANTS Values,       \* values a message may hold
          Commands,     \* messages the code writes itself
          MaxValues     \* bound: values of a message made up of Values

VARIABLES message,      \* the values encoded so far
          lost          \* bytes missing at the end of the message
amfVars == <<message, lost>>

\* Type markers (AMFAny.h).
kAMFNumber == 0
kAMFBoolean == 1
kAMFString == 2
kAMFObject == 3
kAMFNull == 5
kAMFUndefined == 6
kAMFEcmaArray == 8
kAMFObjectEnd == 9
kAMStrictArray == 10
kAMFDate == 11
kAMFLongString == 12
ObjectEnd == <<0, 0, 9>>

--------------------------------------------------------------------------------
(* Encoding.                                                               *)

Eight(k) == <<k, 0, 0, 0, 0, 0, 0, 0>>

\* EncodeName: a 16-bit length and the bytes.
EncodeName(name) == <<0, Len(name)>> \o name

\* EncodeNumber, EncodeString, EncodeBoolean; the other kinds are the peer's.
EncodeScalar(v) ==
    CASE v[1] = "number" -> <<kAMFNumber>> \o Eight(v[2])
      [] v[1] = "boolean" -> <<kAMFBoolean, v[2]>>
      [] v[1] = "string" -> <<kAMFString>> \o EncodeName(v[2])
      [] v[1] = "null" -> <<kAMFNull>>
      [] v[1] = "undefined" -> <<kAMFUndefined>>
      [] v[1] = "end" -> <<kAMFObjectEnd>>
      [] v[1] = "date" -> <<kAMFDate>> \o Eight(v[2]) \o <<0, 0>>
      [] v[1] = "long" -> <<kAMFLongString, 0, 0, 0, Len(v[2])>> \o v[2]

\* EncodeNamedNumber, EncodeNamedString, EncodeNamedBoolean, one after another.
EncodeFields(fields) ==
    FlattenSeq([i \in DOMAIN fields |-> EncodeName(fields[i][1]) \o EncodeScalar(fields[i][2])])

EncodeValue(v) ==
    CASE v[1] = "object" -> <<kAMFObject>> \o EncodeFields(v[2]) \o ObjectEnd
      [] v[1] = "ecma" -> <<kAMFEcmaArray, 0, 0, 0, Len(v[2])>> \o EncodeFields(v[2]) \o ObjectEnd
      [] v[1] = "strict" -> <<kAMStrictArray, 0, 0, 0, Len(v[2])>>
                            \o FlattenSeq([i \in DOMAIN v[2] |-> EncodeScalar(v[2][i])])
      [] OTHER -> EncodeScalar(v)

EncodeAll(vs) == FlattenSeq([i \in DOMAIN vs |-> EncodeValue(vs[i])])

--------------------------------------------------------------------------------
(* Decoding: at is the number of bytes before data, size what the caller   *)
(* says is left; a result has the bytes used (-1: error) and the           *)
(* properties, <<name, value>>.                                            *)

ReadUint16T(w, at) == w[at + 1] * 256 + w[at + 2]
Failed == [len |-> -1, props |-> <<>>]

\* ReadUint64T returns an integer: a number loses its fraction.
ReadUint64T(w, at) == w[at + 1] - (w[at + 1] % 2)

\* Decode of AMFNumber, AMFBoolean, AMFString, AMFDate, AMFLongString.
DecodeScalar(w, at, size, type, name) ==
    LET one(len, v) == [len |-> len, props |-> <<<<name, v>>>>]
        long == w[at + 4]
    IN  CASE type = kAMFNumber -> IF size < 8 THEN Failed
                                  ELSE one(8, <<"number", ReadUint64T(w, at)>>)
          [] type = kAMFBoolean -> IF size < 1 THEN Failed ELSE one(1, <<"boolean", w[at + 1]>>)
          [] type = kAMFString ->
               IF size < 2 \/ size < ReadUint16T(w, at) + 2 THEN Failed
               ELSE one(ReadUint16T(w, at) + 2,
                        <<"string", SubSeq(w, at + 3, at + 2 + ReadUint16T(w, at))>>)
          [] type = kAMFDate -> IF size < 10 THEN Failed
                                ELSE one(10, <<"date", ReadUint64T(w, at)>>)
          [] type = kAMFLongString ->
               IF size < 4 \/ size < long + 4 THEN Failed
               ELSE one(long + 4, <<"long", SubSeq(w, at + 5, at + 4 + long)>>)
          [] type = kAMFNull -> [len |-> 0, props |-> <<<<<<>>, <<"null">>>>>>]
          [] OTHER -> [len |-> 0, props |-> <<>>]      \* not supported: skipped

\* DecodeString: a name; an empty one is not skipped by the callers.
NameLen(w, at, has) == IF has /\ ReadUint16T(w, at) > 0 THEN ReadUint16T(w, at) + 2 ELSE 0

RECURSIVE DecodeOnce(_, _, _, _), Decode(_, _, _, _), DecodeArray(_, _, _, _)

\* AMFObject::DecodeOnce, and one round of AMFObject::Decode: one property.
DecodeOnce(w, at, size, has) ==
    LET n == NameLen(w, at, has)
        name == SubSeq(w, at + 3, at + n)
        type == w[at + n + 1]
        body == at + n + 1
        left == size - n - 1
        inner == CASE type = kAMFObject -> Decode(w, body, left, TRUE)
                   [] type = kAMFEcmaArray -> Decode(w, body + 4, left - 4, TRUE)
                   [] type = kAMStrictArray -> DecodeArray(w, body + 4, left - 4, w[body + 4])
                   [] OTHER -> DecodeScalar(w, body, left, type, name)
        skipped == n + 1 + (IF type \in {kAMFEcmaArray, kAMStrictArray} THEN 4 ELSE 0)
    IN  CASE inner.len = -1 -> Failed
          [] inner.len # -1 /\ type \in {kAMFObject, kAMFEcmaArray, kAMStrictArray} ->
               [len |-> skipped + inner.len, props |-> <<<<name, <<"object", inner.props>>>>>>]
          [] OTHER -> [len |-> skipped + inner.len, props |-> inner.props]

\* The elements of a strict array, read as if they had names.
DecodeArray(w, at, size, count) ==
    IF count = 0 THEN [len |-> 0, props |-> <<>>]
    ELSE LET first == DecodeOnce(w, at, size, TRUE)
             rest == DecodeArray(w, at + first.len, size - first.len, count - 1)
         IN  IF first.len = -1 \/ rest.len = -1 THEN Failed
             ELSE [len |-> first.len + rest.len, props |-> first.props \o rest.props]

\* AMFObject::Decode: property after property, up to the end mark, a value that is
\* the mark's last byte alone, or until fewer than three bytes are left.
Decode(w, at, size, has) ==
    CASE size < 3 -> [len |-> 0, props |-> <<>>]
      [] size >= 3 /\ SubSeq(w, at + 1, at + 3) = ObjectEnd -> [len |-> 3, props |-> <<>>]
      [] OTHER ->
           LET first == DecodeOnce(w, at, size, has)
               rest == IF w[at + NameLen(w, at, has) + 1] = kAMFObjectEnd THEN [len |-> 0, props |-> <<>>]
                       ELSE Decode(w, at + first.len, size - first.len, has)
           IN  IF first.len = -1 \/ rest.len = -1 THEN Failed
               ELSE [len |-> first.len + rest.len, props |-> first.props \o rest.props]

\* A plausible slip: only the message's own values are looked at.
PropertyTop(props, name) ==
    LET named == SelectSeq(props, LAMBDA p : p[1] = name)
    IN  IF named = <<>> THEN <<"none">> ELSE named[1][2]

\* AMFObject::Property by name: depth first, the first of that name.
RECURSIVE PropertyOf(_, _)
PropertyOf(props, name) ==
    IF props = <<>> THEN <<"none">>
    ELSE LET p == Head(props)
             inside == IF p[2][1] = "object" THEN PropertyOf(p[2][2], name) ELSE <<"none">>
         IN  CASE p[1] = name -> p[2]
               [] p[1] # name /\ inside # <<"none">> -> inside
               [] OTHER -> PropertyOf(Tail(props), name)

--------------------------------------------------------------------------------

Wire == LET all == EncodeAll(message) IN SubSeq(all, 1, Len(all) - lost)

AmfInit == message \in {<<>>} \cup Commands /\ lost = 0

\* The peer writes one more value.
AddValue(v) ==
    /\ Len(message) < MaxValues /\ lost = 0
    /\ message' = Append(message, v)
    /\ UNCHANGED lost

\* The message ends within its last value, a plain one.
CutShort ==
    /\ message # <<>> /\ message \notin Commands
    /\ message[Len(message)][1] \in {"number", "boolean", "string", "date", "long"}
    /\ lost + 1 < Len(EncodeScalar(message[Len(message)]))
    /\ lost' = lost + 1
    /\ UNCHANGED message

AmfNext == (\E v \in Values : AddValue(v)) \/ CutShort

--------------------------------------------------------------------------------
(* What a message means, for the property.                                 *)

\* A value as the decoder reports it: an undefined one not at all, a number
\* without its fraction, an array as an object.
Whole(v) == IF v[1] \in {"number", "date"} THEN <<v[1], v[2] - (v[2] % 2)>> ELSE v
Meaning(v) ==
    CASE v[1] \in {"undefined", "end"} -> <<>>
      [] v[1] \in {"object", "ecma"} ->
           <<<<<<>>, <<"object", [i \in DOMAIN v[2] |-> <<v[2][i][1], Whole(v[2][i][2])>>]>>>>>>
      [] v[1] = "strict" ->
           <<<<<<>>, <<"object", [i \in DOMAIN v[2] |-> <<<<>>, Whole(v[2][i])>>]>>>>>>
      [] OTHER -> <<<<<<>>, Whole(v)>>>>
Meanings(vs) == FlattenSeq([i \in DOMAIN vs |-> Meaning(vs[i])])

\* Values at the end that take less than three bytes together are not read, nor is
\* anything after a lone end marker.
Reported(vs) ==
    LET read == {k \in DOMAIN vs : /\ Len(EncodeAll(SubSeq(vs, k, Len(vs)))) >= 3
                                   /\ \A j \in 1 .. k - 1 : vs[j][1] # "end"}
    IN  IF read = {} THEN <<>> ELSE SubSeq(vs, 1, CHOOSE k \in read : \A j \in read : j <= k)

\* The fields of all objects of the message, in order.
Fields(vs) == FlattenSeq([i \in DOMAIN vs |-> IF vs[i][1] \in {"object", "ecma"} THEN vs[i][2] ELSE <<>>])
FirstField(fields, name) ==
    LET named == {i \in DOMAIN fields : fields[i][1] = name}
    IN  IF named = {} THEN <<"none">>
        ELSE Whole(fields[CHOOSE i \in named : \A j \in named : i <= j][2])

\* What AMFObject::Decode reports is what was encoded, value by value, up to a
\* tail of less than three bytes or a lone end marker, and Property finds the first field of a name;
\* of a message cut short it reports an error or a beginning of it.
CommandsDecode ==
    LET d == Decode(Wire, 0, Len(Wire), FALSE)
    IN  IF lost = 0
        THEN /\ d.len = Len(EncodeAll(Reported(message)))
             /\ d.props = Meanings(Reported(message))
             /\ \A i \in DOMAIN Fields(Reported(message)) :
                  LET name == Fields(Reported(message))[i][1]
                  IN  PropertyOf(d.props, name) = FirstField(Fields(Reported(message)), name)
        ELSE \/ d = Failed
             \/ IsPrefix(d.props, Meanings(Front(message)))
================================================================================
