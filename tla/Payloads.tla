------------------------------ MODULE Payloads ------------------------------
(***************************************************************************)
(* What the payloads of the frames hold (binary/interpreters): creatures,  *)
(* corpses, soil pieces, the territory, and the requests about        *)
(* them, each with the reader of the other side.  A layout is a list of    *)
(* fields at the offsets the layouts of the code add up to.                *)
(***************************************************************************)
EXTENDS Wire, Terrain

-----------------------------------------------------------------------------
(* The enums as the simulation numbers them: what the readers cast to. *)

GenderValue   == [MALE |-> 0, FEMALE |-> 1]
SpecieValue   == [CRAB |-> 0, FISH |-> 1, CROCODILE |-> 2, HIPPOPOTAMUS |-> 3]
SoilTypeValue == [SAND |-> 0, ROCK |-> 1, DIRT |-> 2, WATER |-> 3]
PropertyValue == [DANGEROUS |-> 0]
MoveValue     == [WALK |-> 0, SWIMM |-> 1]

(* The bytes serialize_gender and serialize_property write. *)
GenderByte   == [FEMALE |-> 1, MALE |-> 2]
PropertyByte == [DANGEROUS |-> 1]

(* Neither an exception nor a read beyond the buffer is what a field says. *)
Words ==
    DOMAIN GenderValue \cup DOMAIN SpecieValue \cup DOMAIN SoilTypeValue \cup DOMAIN PropertyValue \cup DOMAIN MoveValue

ASSUME WordsAssumption == \A x \in {Thrown, Outside} : x \notin Words \cup Seq(Words) \cup {Nothing}

MaxNameSize == 64

(* Any field that cannot be read makes the whole reading throw, or undefined. *)
Complete(value) ==
    IF \E k \in DOMAIN value : value[k] = Outside THEN Outside
    ELSE IF \E k \in DOMAIN value : value[k] = Thrown THEN Thrown ELSE value

NamedAt(codes, bytes, offset) ==
    IF At(bytes, offset) = Outside THEN Outside ELSE Named(codes, At(bytes, offset))

SerializeVec(x, y) == Digits[8][x] \o Digits[8][y]

SerializeSize(width, height) == Digits[8][width] \o Digits[8][height]

(* Either length may be Thrown. *)
ReadSize(bytes, offset) ==
    [width |-> ReadSigned(bytes, offset, 8), height |-> ReadSigned(bytes, offset + 8, 8)]

ReadId(bytes, offset) == Read(bytes, offset, 8)

(* A capability: the kind, of which there is one (0, a way to move), and which of it. *)
SerializeCapability(capability) == <<0, MoveValue[capability]>>

FromRaw(kind, raw) == IF kind = 0 THEN Named(MoveValue, raw) ELSE Thrown

ReadCapability(bytes, offset) == FromRaw(Read(bytes, offset, 1), Read(bytes, offset + 1, 1))

-----------------------------------------------------------------------------
(* Creatures: gender 0, specie 1, position 2 and 10, name 18, id 83. *)

CreatureSize == 91

SerializeName(name) == IF Len(name) > MaxNameSize THEN Thrown ELSE <<Len(name)>> \o name

(* Mutant: the layout of the comment in creature.hpp, one byte short. *)
SerializeCreature_IdInName(c) ==
    PutAll(Zeros(CreatureSize),
           << <<0, <<GenderByte[c.gender]>> >>, <<1, <<SpecieValue[c.specie]>> >>,
              <<2, SerializeVec(c.x, c.y)>>, <<18, SerializeName(c.name)>>, <<82, Digits[8][c.id]>> >>)

SerializeCreature(c) ==
    IF SerializeName(c.name) = Thrown THEN Thrown
    ELSE PutAll(Zeros(CreatureSize),
                << <<0, <<GenderByte[c.gender]>> >>, <<1, <<SpecieValue[c.specie]>> >>,
                   <<2, SerializeVec(c.x, c.y)>>, <<18, SerializeName(c.name)>>, <<83, Digits[8][c.id]>> >>)

ReadName(bytes, offset) ==
    LET size == Read(bytes, offset, 1) IN IF size = Thrown THEN Thrown ELSE Slice(bytes, offset + 1, size)

ReadCreature(bytes, offset) ==
    LET c == [gender |-> NamedAt(GenderValue, bytes, offset), specie |-> NamedAt(SpecieValue, bytes, offset + 1),
              x |-> ReadSigned(bytes, offset + 2, 8), y |-> ReadSigned(bytes, offset + 10, 8),
              name |-> ReadName(bytes, offset + 18), id |-> ReadId(bytes, offset + 83)]
    IN Complete(c)

(* The request to create a creature: each part has a byte before it that says whether it is
   there.  The name's size shares its byte with the name and its flag is never set; the rest
   of the array is not initialised, so that it holds whatever byte it held. *)
CreateSize == 64

(* Mutant: the flag is written only when there is a value. *)
Flag_OnlySet(v, held) == IF v = Nothing THEN held ELSE 1

Flag(v, held) == IF v = Nothing THEN 0 ELSE 1

MakeCreate(gender, specie, position, name, held) ==
    LET flag(v)  == <<Flag(v, held)>>
        parts(v, offset, bytes) == IF v = Nothing THEN <<>> ELSE << <<offset, bytes>> >>
    IN IF name # Nothing /\ Len(name) > MaxNameSize THEN Thrown
       ELSE PutAll([i \in 1..CreateSize |-> held],
                << <<0, flag(gender)>> >> \o parts(gender, 1, <<IF gender = Nothing THEN 0 ELSE GenderByte[gender]>>)
             \o << <<2, flag(specie)>> >> \o parts(specie, 3, <<IF specie = Nothing THEN 0 ELSE SpecieValue[specie]>>)
             \o << <<4, flag(position)>> >>
             \o parts(position, 5, IF position = Nothing THEN <<>> ELSE SerializeVec(position[1], position[2]))
             \o << <<21, <<0>> >> >>
             \o parts(name, 22, IF name = Nothing THEN <<>> ELSE <<Len(name)>>)
             \o parts(name, 22, IF name = Nothing THEN <<>> ELSE name))

ReadCreate(bytes) ==
    LET part(flagAt, value) ==
            CASE ReadBool(bytes, flagAt) = TRUE  -> value
              [] ReadBool(bytes, flagAt) = FALSE -> Nothing
              [] OTHER -> ReadBool(bytes, flagAt)
        vec == <<ReadSigned(bytes, 5, 8), ReadSigned(bytes, 13, 8)>>
        b == [gender |-> part(0, NamedAt(GenderValue, bytes, 1)), specie |-> part(2, NamedAt(SpecieValue, bytes, 3)),
              position |-> part(4, vec), name |-> part(21, ReadName(bytes, 22))]
    IN Complete(b)

-----------------------------------------------------------------------------
(* Corpses and the territory. *)

CorpseSize == 44

SerializeCorpse(c) ==
    PutAll(Zeros(CorpseSize),
           << <<0, Digits[8][c.id]>>, <<8, Digits[4][c.rawMeat]>>, <<12, SerializeVec(c.x, c.y)>>,
              <<28, SerializeSize(c.width, c.height)>> >>)

ReadCorpse(bytes, offset) ==
    LET c == [id |-> ReadId(bytes, offset), rawMeat |-> ReadSigned(bytes, offset + 8, 4),
              x |-> ReadSigned(bytes, offset + 12, 8), y |-> ReadSigned(bytes, offset + 20, 8),
              width |-> ReadSize(bytes, offset + 28).width, height |-> ReadSize(bytes, offset + 28).height]
    IN Complete(c)

SerializeTerritory(t) == SerializeSize(t.width, t.height)

ReadTerritory(bytes, offset) == Complete(ReadSize(bytes, offset))

-----------------------------------------------------------------------------
(* Soil pieces: type 0, properties 1, required capabilities 10, damage 21, movement cost 26,
   radius 31, position 39 (24 bytes, 16 of them used), id 63.  The loop over the properties
   starts with the second; what it writes for DANGEROUS is 1, what is read as DANGEROUS is 0. *)

SoilSize == 71

(* The loop begins behind the first property, so that its byte stays zero. *)
SerializeProperties(properties) ==
    LET rest == IF properties = <<>> THEN <<>> ELSE Tail(properties)
    IN  PutAll(Zeros(9), << <<0, <<Len(properties)>> >> >>
                         \o [i \in 1..Len(rest) |-> <<i, <<PropertyByte[rest[i]]>> >>])

SerializeRequired(required) ==
    IF Len(required) > 11 THEN Thrown
    ELSE PutAll(Zeros(11), << <<0, <<Len(required)>> >> >>
                           \o [i \in 1..Len(required) |-> <<2 * i - 1, SerializeCapability(required[i])>>])

SerializeOptional(v) == IF v = Nothing THEN Zeros(5) ELSE <<1>> \o Digits[4][v]

SerializeSoil(s) ==
    IF Len(s.properties) > 9 \/ SerializeRequired(s.required) = Thrown THEN Thrown
    ELSE PutAll(Zeros(SoilSize),
                << <<0, <<SoilTypeValue[s.type]>> >>, <<1, SerializeProperties(s.properties)>>,
                   <<10, SerializeRequired(s.required)>>, <<21, SerializeOptional(s.damage)>>,
                   <<26, SerializeOptional(s.movementCost)>>, <<31, Digits[8][s.radius]>>,
                   <<39, SerializeVec(s.x, s.y)>>, <<63, Digits[8][s.id]>> >>)

ReadOptional(bytes, offset) ==
    CASE ReadBool(bytes, offset) = TRUE  -> ReadSigned(bytes, offset + 1, 4)
      [] ReadBool(bytes, offset) = FALSE -> Nothing
      [] OTHER -> ReadBool(bytes, offset)

(* An enum cast of a byte that names no property: any such value is kept as Outside. *)
ReadProperties(bytes, offset) ==
    LET count == Read(bytes, offset, 1)
    IN IF count = Thrown \/ count * 2 > 9 THEN Thrown
       ELSE [i \in 1..count |-> IF At(bytes, offset + i) = PropertyValue["DANGEROUS"] THEN "DANGEROUS" ELSE Outside]

ReadRequired(bytes, offset) ==
    LET count == Read(bytes, offset, 1)
        required == [i \in 1..count |-> ReadCapability(bytes, offset + 2 * i - 1)]
    IN IF count = Thrown \/ (\E i \in 1..count : required[i] = Thrown) THEN Thrown ELSE required

ReadSoil(bytes, offset) ==
    LET s == [damage |-> ReadOptional(bytes, offset + 21), movementCost |-> ReadOptional(bytes, offset + 26),
              id |-> ReadId(bytes, offset + 63), radius |-> ReadSigned(bytes, offset + 31, 8),
              x |-> ReadSigned(bytes, offset + 39, 8), y |-> ReadSigned(bytes, offset + 47, 8),
              type |-> Named(SoilTypeValue, Read(bytes, offset, 1)), properties |-> ReadProperties(bytes, offset + 1),
              required |-> ReadRequired(bytes, offset + 10)]
    IN Complete(s)

=============================================================================
