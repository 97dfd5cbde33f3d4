------------------------------- MODULE HbbsCodec -------------------------------
(***************************************************************************)
(* What the live query writes to and reads from hbbs: frames with a header *)
(* of one to four bytes around protobuf messages.  Bytes are numbers.      *)
(* Reading gives a record with `kind': "failed" where the code raises      *)
(* RustDeskLiveStatusError.                                                *)
(***************************************************************************)
EXTENDS Integers, Sequences, FiniteSetsExt, SequencesExt

Failed == [kind |-> "failed"]

-----------------------------------------------------------------------------
(* Frames: the two low bits of the first byte say how long the header is,   *)
(* the rest of it, low byte first, how long the payload.                    *)

MaxPayload == 2 ^ 30 - 1
MaxReply   == 10 * 1024 * 1024
Weight     == <<1, 256, 65536, 16777216>>

HeaderSize(n) == IF n <= 63 THEN 1 ELSE IF n <= 16383 THEN 2 ELSE IF n <= 4194303 THEN 3 ELSE 4

Header(n) == [i \in 1..HeaderSize(n) |-> ((4 * n + HeaderSize(n) - 1) \div Weight[i]) % 256]

Frame(payload) == Header(Len(payload)) \o payload

HeadLength(first) == (first % 4) + 1

LittleEndian(bytes) ==
    bytes[1] + (IF Len(bytes) > 1 THEN 256 * bytes[2] ELSE 0)
             + (IF Len(bytes) > 2 THEN 65536 * bytes[3] ELSE 0)
             + (IF Len(bytes) > 3 THEN 16777216 * bytes[4] ELSE 0)

PayloadLength(header) == LittleEndian(header) \div 4

(* What is read of a connection that delivers `stream' and is closed. *)
ReadFrame(stream) ==
    LET size == HeadLength(stream[1])
        n    == PayloadLength(SubSeq(stream, 1, size))
    IN IF stream = << >> \/ Len(stream) < size THEN Failed
       ELSE IF n > MaxReply \/ Len(stream) < size + n THEN Failed
       ELSE [kind |-> "frame", payload |-> SubSeq(stream, size + 1, size + n)]

-----------------------------------------------------------------------------
(* Protobuf: numbers in groups of seven bits, low group first, fields with  *)
(* a key of number and wire type.                                           *)

Varint(value) ==
    LET groups[n \in Nat] == IF n < 128 THEN <<n>> ELSE <<128 + (n % 128)>> \o groups[n \div 128]
    IN  groups[value]

(* No more than ten groups: shift may reach 63. *)
ReadVarint(data, pos) ==
    LET ends == {i \in pos..Min({Len(data), pos + 9}) : data[i] < 128}
    IN IF ends = {} THEN Failed
       ELSE [kind  |-> "varint",
             value |-> FoldRight(LAMBDA b, high : (b % 128) + 128 * high,
                                 SubSeq(data, pos, Min(ends)), 0),
             next  |-> Min(ends) + 1]

Key(field, wire) == Varint(8 * field + wire)

Bytes(field, data) == Key(field, 2) \o Varint(Len(data)) \o data

(* _build_online_request *)
OnlineRequest(requester, ids) ==
    Bytes(23, (IF requester = << >> THEN << >> ELSE Bytes(1, requester))
                  \o FlattenSeq([i \in DOMAIN ids |-> Bytes(2, ids[i])]))

(* One field of `data' at `pos': its value is from..(next - 1). *)
FieldAt(data, pos) ==
    LET key   == ReadVarint(data, pos)
        wire  == key.value % 8
        value == ReadVarint(data, key.next)
        field(from, next) ==
            IF next > Len(data) + 1 THEN Failed
            ELSE [kind |-> "field", number |-> key.value \div 8, wire |-> wire,
                  from |-> from, next |-> next]
    IN IF key = Failed THEN Failed
       ELSE CASE wire = 0 -> IF value = Failed THEN Failed ELSE field(key.next, value.next)
              [] wire = 1 -> field(key.next, key.next + 8)
              [] wire = 2 -> IF value = Failed THEN Failed
                             ELSE field(value.next, value.next + value.value)
              [] wire = 5 -> field(key.next, key.next + 4)
              [] OTHER    -> Failed

None == [kind |-> "none"]

(* The first answer that `In' gives for a field `number' of bytes; fields    *)
(* behind it are not looked at, and not found to be malformed.               *)
FirstIn(data, number, In(_)) ==
    LET after[pos \in 1..(Len(data) + 1)] ==
            LET f == FieldAt(data, pos)
                found == In(SubSeq(data, f.from, f.next - 1))
            IN IF pos > Len(data) THEN None
               ELSE IF f = Failed THEN Failed
               ELSE IF f.number = number /\ f.wire = 2 /\ found # None THEN found
               ELSE after[f.next]
    IN  after[1]

(* _extract_online_response_states *)
ResponseStates(payload) ==
    FirstIn(payload, 24, LAMBDA response :
        FirstIn(response, 1, LAMBDA bytes : [kind |-> "states", states |-> bytes]))

=============================================================================
