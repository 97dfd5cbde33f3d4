------------------------------ MODULE MCDevices ------------------------------
(* Devices on small instances.                                              *)
EXTENDS Devices, HbbsCodec

CONSTANTS p1, p2, p3, servers, office

Symmetry == Permutations(Peers) \cup Permutations({servers, office})

\* What hbbs encodes is what the client decodes, across the first byte
\* boundary (query_hbbs_online_status), and a reply cut short means offline.
ASSUME AnswersDecode ==
    \A n \in 0 .. 9 : \A present \in SUBSET (1 .. n) :
        LET ids == [i \in 1 .. n |-> i] IN
        /\ Decoded(ids, Answer(ids, present)) = present
        /\ Decoded(ids, SubSeq(Answer(ids, present), 1, 1)) = present \cap 1 .. 8

-----------------------------------------------------------------------------
\* A header is read as the length it was written for, at the edges of its
\* four sizes and of what the client accepts (_encode_frame, _read_frame).
ASSUME HeadersAreRead ==
    \A n \in {0, 1, 62, 63, 64, 65, 16383, 16384, 4194303, 4194304, MaxReply, MaxReply + 1} :
        /\ HeadLength(Header(n)[1]) = HeaderSize(n)
        /\ PayloadLength(Header(n)) = n

Payloads == {[i \in 1 .. n |-> i % 256] : n \in {0, 1, 63, 64, 65, 300}}

\* A frame gives its payload back whatever follows it on the connection, and
\* an error if the connection ends anywhere in it (_recv_exact).
ASSUME FramesAreRead ==
    \A p \in Payloads :
        /\ ReadFrame(Frame(p) \o <<7, 7>>) = [kind |-> "frame", payload |-> p]
        /\ \A n \in 0 .. Len(Frame(p)) - 1 : ReadFrame(SubSeq(Frame(p), 1, n)) = Failed

\* A number is read as it was written, wherever it stands, and not at all
\* if it is cut short or has more than ten groups (_pb_varint and
\* _pb_read_varint).
ASSUME VarintsAreRead ==
    /\ \A n \in 0 .. 300 \cup {16383, 16384, 2097151, 2097152, 268435455} :
           LET v == Varint(n) IN
           /\ ReadVarint(<<200>> \o v \o <<5>>, 2)
                  = [kind |-> "varint", value |-> n, next |-> Len(v) + 2]
           /\ \A i \in 0 .. Len(v) - 1 : ReadVarint(SubSeq(v, 1, i), 1) = Failed
    /\ ReadVarint([i \in 1 .. 9 |-> 128] \o <<0>>, 1).next = 11
    /\ ReadVarint([i \in 1 .. 10 |-> 128] \o <<0>>, 1) = Failed

\* What hbbs sends as field 1 of field 24, and fields that may stand around it.
Response(states) == Bytes(24, Bytes(1, states))
Others == {<< >>, Key(3, 0) \o Varint(300), Key(24, 0) \o <<1>>, Bytes(24, Bytes(2, <<9>>)),
           Key(2, 1) \o [i \in 1 .. 8 |-> 24], Key(2, 5) \o [i \in 1 .. 4 |-> 24]}

\* The states are found behind any other fields, a response without them is
\* told from a broken one, and one that is cut short is never taken for a
\* shorter answer (_extract_online_response_states, _pb_iter_fields).
ASSUME ResponsesAreRead ==
    \A states \in {<< >>, <<128>>, <<255, 1, 24>>} : \A a, b \in Others :
        LET whole == a \o b \o Response(states) IN
        /\ ResponseStates(whole) = [kind |-> "states", states |-> states]
        /\ ResponseStates(a \o b) = None
        /\ \A n \in Len(a \o b) + 1 .. Len(whole) - 1 :
               ResponseStates(SubSeq(whole, 1, n)) = Failed

\* Whatever hbbs answers, reading ends, with states, without them or with the
\* error that the code knows.
ASSUME AnyAnswerIsRead ==
    \A data \in SeqOf({0, 1, 2, 4, 5, 10, 128, 194}, 4) :
        ResponseStates(data).kind \in {"states", "none", "failed"}

\* The request is one field 23 with the requester, if any, and every id in
\* order (_build_online_request).
ASSUME RequestIsOneField ==
    LET ids == << <<49, 50>>, <<51>> >>
        inner == Bytes(2, ids[1]) \o Bytes(2, ids[2]) IN
    /\ OnlineRequest(<< >>, ids) = Bytes(23, inner)
    /\ OnlineRequest(<<82>>, ids) = Bytes(23, Bytes(1, <<82>>) \o inner)
=============================================================================
