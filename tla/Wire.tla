-------------------------------- MODULE Wire --------------------------------
(***************************************************************************)
(* The bytes of the protocol: numbers in big-endian two's complement       *)
(* (serializer.hpp, deserializer.hpp), fields at offsets of a buffer       *)
(* (byte_utils.hpp), lists with a count before them (list.hpp) and the     *)
(* frames of requests, responses and errors (frames/parser.hpp, motor.hpp, *)
(* models.hpp).  A double or a float stands for its bits, a small integer. *)
(* What the code reports by an exception is the value Thrown here; a read  *)
(* or write outside the buffer, which the code does not check everywhere,  *)
(* is the value Outside: undefined behaviour, whatever it does.            *)
(***************************************************************************)
EXTENDS Integers, SequencesExt

CONSTANTS Thrown, Outside

-----------------------------------------------------------------------------
Byte == 0..255

Bytes == Seq(Byte)

(* Numbers.  Floor division makes the digits of a negative number its two's complement. *)

Digits[width \in Nat] ==
    [v \in Int |-> IF width = 0 THEN <<>> ELSE Append(Digits[width - 1][v \div 256], v % 256)]

(* 2^30: a size no buffer holds, an id nobody has. *)
Huge == 1073741824

(* What is read back as it was written: ids, and signed numbers. *)
IdNumbers == 0..(Huge - 1)
Numbers   == (-Huge)..(Huge - 1)

(* Horner's rule.  Saturates: what is beyond Huge is Huge. *)
Accumulate(start, bytes) ==
    LET upTo[k \in 0..Len(bytes)] ==
            IF k = 0 THEN start
            ELSE LET n == upTo[k - 1] IN IF n >= Huge \div 256 THEN Huge ELSE 256 * n + bytes[k]
    IN upTo[Len(bytes)]

Value(bytes) == Accumulate(0, bytes)

SignedValue(bytes) == Accumulate(IF Head(bytes) >= 128 THEN -1 ELSE 0, bytes)

(* The bytes of a field; the code compares without overflow and throws. *)
Slice(bytes, offset, width) ==
    IF Len(bytes) - offset < width THEN Thrown ELSE SubSeq(bytes, offset + 1, offset + width)

Read(bytes, offset, width) ==
    LET field == Slice(bytes, offset, width) IN IF field = Thrown THEN Thrown ELSE Value(field)

ReadSigned(bytes, offset, width) ==
    LET field == Slice(bytes, offset, width) IN IF field = Thrown THEN Thrown ELSE SignedValue(field)

(* payload[offset]: no check. *)
At(bytes, offset) == IF offset < Len(bytes) THEN bytes[offset + 1] ELSE Outside

ReadBool(bytes, offset) ==
    CASE At(bytes, offset) = Outside -> Outside
      [] At(bytes, offset) = 1       -> TRUE
      [] At(bytes, offset) = 0       -> FALSE
      [] OTHER                       -> Thrown

Zeros(size) == [i \in 1..size |-> 0]

(* append_bytes into an array at an offset. *)
Put(buffer, offset, bytes) ==
    IF buffer = Outside \/ offset + Len(bytes) > Len(buffer) THEN Outside
    ELSE SubSeq(buffer, 1, offset) \o bytes \o SubSeq(buffer, offset + Len(bytes) + 1, Len(buffer))

(* A field is <<offset, bytes>>; the fields are written in their order. *)
PutAll(buffer, fields) ==
    LET put[k \in 0..Len(fields)] ==
            IF k = 0 THEN buffer ELSE Put(put[k - 1], fields[k][1], fields[k][2])
    IN put[Len(fields)]

-----------------------------------------------------------------------------
(* Lists: a count of two bytes and elements of one size. *)

MaxListSize == 65535

(* The blocks are the elements, each serialised. *)
SerializeList(blocks, size) ==
    IF \/ Len(blocks) > MaxListSize
       \/ \E i \in 1..Len(blocks) : blocks[i] = Thrown \/ Len(blocks[i]) # size
    THEN Thrown
    ELSE Digits[2][Len(blocks)] \o FlattenSeq(blocks)

(* Where the elements of a list begin. *)
DeserializeList(bytes, size, offset) ==
    LET count == Read(bytes, offset, 2)
    IN IF count = Thrown \/ Len(bytes) - offset < 2 + count * size THEN Thrown
       ELSE [i \in 1..count |-> (i - 1) * size + offset + 2]

-----------------------------------------------------------------------------
(* The codes of the contract, and where a header ends. *)

TypeCode        == [Request |-> 1, Error |-> 2, Response |-> 3]
OperationCode   == [SEE |-> 1, WANT |-> 2, ERASE |-> 3, CREATE |-> 4, CYCLE |-> 5]
ResourceCode    == [CREATURE |-> 1, EMBRYO |-> 2, SOIL |-> 3, CORPSE |-> 4, EGG |-> 5, TERRITORY |-> 6]
TargetCode      == [ONE |-> 1, ALL |-> 2]
ErrorCode       == [CREATURE_WAS_NOT_FOUND |-> 1, CORPSE_WAS_NOT_FOUND |-> 2]
ResponseCode    == [CREATURE |-> 0, CORPSE |-> 1, NONE |-> 3, SOIL |-> 4, TERRITORY |-> 5]
CardinalityCode == [ONE |-> 1, ALL |-> 2]
CodesOf         == [Request |-> OperationCode, Error |-> ErrorCode, Response |-> ResponseCode]

(* The name of a code; the validators and the frame models throw on any other value. *)
Named(codes, code) ==
    IF \E name \in DOMAIN codes : codes[name] = code
    THEN CHOOSE name \in DOMAIN codes : codes[name] = code ELSE Thrown

SizeEnd == 4
TypeEnd == 5
SubTypeEnd == 6
IdEnd == 14

HeaderSize(type, sub) ==
    CASE type = "Request"  -> IF sub = "SEE" THEN IdEnd + 2 ELSE IdEnd + 1
      [] type = "Response" -> IdEnd + 1
      [] type = "Error"    -> IdEnd

DeclaredSize(type, sub, payloadSize) == HeaderSize(type, sub) - SizeEnd + payloadSize

-----------------------------------------------------------------------------
(* Frame values: what the constructors of the frame models accept. *)

RequestFrames ==
    [type : {"Request"}, sub : DOMAIN OperationCode, id : Nat, resource : DOMAIN ResourceCode,
     target : DOMAIN TargetCode \cup {"NoTarget"}, payload : Bytes]

ResponseFrames ==
    [type : {"Response"}, sub : DOMAIN ResponseCode, id : Nat, cardinality : DOMAIN CardinalityCode, payload : Bytes]

(* An exception is neither bytes nor what they say. *)
Names ==
    {"NO", "INCOMPLETE", "YES", "NoTarget"} \cup DOMAIN TypeCode \cup DOMAIN OperationCode \cup DOMAIN ResourceCode
    \cup DOMAIN TargetCode \cup DOMAIN ErrorCode \cup DOMAIN ResponseCode \cup DOMAIN CardinalityCode

ASSUME ThrownAssumption == Thrown \notin Names \cup Int \cup Bytes \cup Seq(Int) \cup RequestFrames \cup ResponseFrames

ASSUME OutsideAssumption == Outside \notin Int \cup Bytes \cup Seq(Int) \cup {Thrown}

ValidRequest(f) ==
    \/ f.sub # "SEE" /\ f.target = "NoTarget"
    \/ f.sub = "SEE" /\ f.target \in DOMAIN TargetCode /\ (f.resource = "TERRITORY" => f.target = "ONE")

ValidResponse(f) ==
    /\ f.cardinality \in DOMAIN CardinalityCode
    /\ f.sub \in {"NONE", "TERRITORY"} => f.cardinality = "ONE"

Valid(f) ==
    CASE f.type = "Request"  -> ValidRequest(f)
      [] f.type = "Response" -> ValidResponse(f)
      [] f.type = "Error"    -> TRUE

(* make_request_raw_bytes and make_response_raw_bytes. *)
RawBytes(f) ==
    IF ~Valid(f) THEN Thrown
    ELSE Digits[4][DeclaredSize(f.type, f.sub, Len(f.payload))]
         \o <<TypeCode[f.type], CodesOf[f.type][f.sub]>>
         \o Digits[8][f.id]
         \o (CASE f.type = "Request"  -> <<ResourceCode[f.resource]>>
                                         \o (IF f.sub = "SEE" THEN <<TargetCode[f.target]>> ELSE <<>>)
               [] f.type = "Response" -> <<CardinalityCode[f.cardinality]>>
               [] f.type = "Error"    -> <<>>)
         \o f.payload

-----------------------------------------------------------------------------
(* The parser.  Its operations per kind of request differ in the header only. *)

GetType(bytes) == LET code == Read(bytes, SizeEnd, 1)
                  IN IF code = Thrown THEN Thrown ELSE Named(TypeCode, code)

GetSubType(bytes) ==
    LET type == GetType(bytes)
        code == Read(bytes, TypeEnd, 1)
    IN IF type = Thrown \/ code = Thrown THEN Thrown ELSE Named(CodesOf[type], code)

(* NO, INCOMPLETE or YES; throws on a declared size below the header's. *)
HasFrame(bytes) ==
    IF Len(bytes) = 0 THEN "NO"
    ELSE IF Len(bytes) < SubTypeEnd THEN "INCOMPLETE"
    ELSE LET type     == GetType(bytes)
             sub      == GetSubType(bytes)
             declared == Read(bytes, 0, 4)
         IN IF sub = Thrown THEN Thrown
            ELSE IF declared < DeclaredSize(type, sub, 0) THEN Thrown
            ELSE IF Len(bytes) >= SizeEnd + declared THEN "YES" ELSE "INCOMPLETE"

FrameSize(bytes) == SizeEnd + Read(bytes, 0, 4)

GetFrame(bytes) == IF HasFrame(bytes) = "YES" THEN SubSeq(bytes, 1, FrameSize(bytes)) ELSE Thrown

(* Mutant: the declared size is taken for the end of the payload. *)
GetPayload_Short(bytes) == SubSeq(bytes, HeaderSize(GetType(bytes), GetSubType(bytes)) + 1, Read(bytes, 0, 4))

(* The payload is copied from the header on, as long as the declared size says: on a whole
   frame only, so that the copy stays inside the bytes. *)
GetPayload(bytes) ==
    LET type == GetType(bytes)
        sub  == GetSubType(bytes)
        size == Read(bytes, 0, 4) - DeclaredSize(type, sub, 0)
    IN IF size < 0 THEN Thrown
       ELSE IF HeaderSize(type, sub) + size > Len(bytes) THEN Outside
       ELSE SubSeq(bytes, HeaderSize(type, sub) + 1, HeaderSize(type, sub) + size)

ParseRequest(bytes) ==
    LET sub == GetSubType(bytes)
        f   == [type |-> "Request", sub |-> sub, id |-> Read(bytes, SubTypeEnd, 8),
                resource |-> Named(ResourceCode, Read(bytes, IdEnd, 1)),
                target   |-> IF sub = "SEE" THEN Named(TargetCode, Read(bytes, IdEnd + 1, 1)) ELSE "NoTarget",
                payload  |-> GetPayload(bytes)]
    IN IF GetType(bytes) # "Request" \/ (\E k \in DOMAIN f : f[k] = Thrown) \/ ~Valid(f) THEN Thrown ELSE f

ParseResponse(bytes) ==
    LET f == [type |-> "Response", sub |-> GetSubType(bytes), id |-> Read(bytes, SubTypeEnd, 8),
              cardinality |-> Named(CardinalityCode, Read(bytes, IdEnd, 1)),
              payload |-> GetPayload(bytes)]
    IN IF (\E k \in DOMAIN f : f[k] = Thrown) \/ ~Valid(f) THEN Thrown ELSE f

ParseError(bytes) ==
    LET f == [type |-> "Error", sub |-> GetSubType(bytes), id |-> Read(bytes, SubTypeEnd, 8),
              payload |-> GetPayload(bytes)]
    IN IF \E k \in DOMAIN f : f[k] = Thrown THEN Thrown ELSE f

ParseFrame(bytes) ==
    CASE GetType(bytes) = "Request"  -> ParseRequest(bytes)
      [] GetType(bytes) = "Response" -> ParseResponse(bytes)
      [] GetType(bytes) = "Error"    -> ParseError(bytes)
      [] GetType(bytes) = Thrown     -> Thrown
=============================================================================
