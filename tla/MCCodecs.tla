------------------------------- MODULE MCCodecs -------------------------------
(***************************************************************************)
(* Instance of Codecs: frame sizes around the ends of TS packets (188      *)
(* bytes) and RTP packets (1400 bytes), times around the limit of 100 ms,  *)
(* a small buffer, the commands the server and its clients send, two HTTP  *)
(* messages cut into reads anywhere and a socket that holds three bytes.   *)
(***************************************************************************)
EXTENDS Codecs

Nal(type, size) == [type |-> type, size |-> size]
One(type, size) == <<Nal(type, size)>>

\* Sizes that leave no, one, two or many bytes of stuffing in the last packet.
EdgeSizes == {1, 161, 162, 163, 1388, 2775}
MCPackets ==
    {VideoHeader("s1", 3, "no"), VideoHeader("s2", 3, "no"), VideoHeader("s2", 3, "pps"),
     VideoFrame(TRUE, One(IDR, 120), FALSE, 0, "no"),
     VideoFrame(TRUE, <<Nal(AUD, 2), Nal(SPS, 9), Nal(PPS, 9), Nal(IDR, 1389)>>, FALSE, 2, "no"),
     VideoFrame(FALSE, <<Nal(Slice, 1400), Nal(Slice, 20)>>, FALSE, 0, "no"),
     VideoFrame(FALSE, One(Slice, 40), TRUE, 3, "no"),
     VideoFrame(FALSE, One(Slice, 40), FALSE, 0, "cut"),
     VideoFrame(FALSE, One(Slice, 300), FALSE, 0, "cut"),   \* its length reads 00 00 01 2c
     AudioPacket("aac", TRUE, 2), AudioPacket("aac", FALSE, 163),
     AudioPacket("aac", FALSE, 8184), AudioPacket("aac", FALSE, 8192),
     AudioPacket("mp3", FALSE, 170)}
    \cup {VideoFrame(FALSE, One(Slice, n), FALSE, 0, "no") : n \in EdgeSizes}
    \cup {VideoHeader("s1", 0, "no"), VideoFrame(FALSE, One(Slice, 130), FALSE, 0, "no")}

MCTimes == {0, 30, 95, 900, 960, 1000}

a == <<97>>
b == <<98>>
MCValues ==
    {<<"number", 2>>, <<"number", 3>>, <<"boolean", 1>>, <<"string", <<>>>>, <<"string", a \o b>>,
     <<"null">>, <<"undefined">>, <<"end">>, <<"date", 4>>, <<"long", a>>,
     <<"object", <<<<a, <<"string", b>>>>, <<b, <<"number", 2>>>>>>>>,
     <<"ecma", <<<<b, <<"boolean", 1>>>>>>>>, <<"object", <<>>>>,
     <<"strict", <<<<"number", 0>>, <<"number", 0>>>>>>}

\* createStream; play or publish; onStatus; connect.
MCCommands ==
    {<<<<"string", a>>, <<"number", 4>>, <<"null">>>>,
     <<<<"string", a>>, <<"number", 4>>, <<"null">>, <<"string", b>>>>,
     <<<<"string", a>>, <<"number", 2>>, <<"null">>,
       <<"object", <<<<a, <<"string", b>>>>, <<b, <<"string", a>>>>>>>>>>,
     <<<<"string", a>>, <<"number", 2>>,
       <<"object", <<<<a, <<"string", b>>>>, <<a \o b, <<"boolean", 0>>>>, <<b, <<"number", 31>>>>>>>>>>}

Message(req, get, code, head, length, size, chunks, ask) ==
  [request |-> req, get |-> get, code |-> code, head |-> head, length |-> length,
   size |-> size, chunks |-> chunks, ask |-> ask]

Get(ask) == Message(TRUE, TRUE, 0, 6, NoLength, 0, None, ask)

MCMessages ==
  {Get(ask) : ask \in {"text", "packet", "chunks", "stream", "flv", "gone"}}
  \cup {Message(TRUE, FALSE, 0, 6, 2, 2, None, "text"),           \* POST with a body
        Message(TRUE, FALSE, 0, 6, NoLength, 0, <<1, 2>>, "gone"), \* POST in chunks
        Message(TRUE, FALSE, 0, 6, NoLength, 9, None, "gone"),     \* POST of a stream
        Message(TRUE, TRUE, 0, 6, BadLength, 0, None, "text"),
        Message(TRUE, TRUE, 0, 12, NoLength, 0, None, "text"),     \* too long a header
        Message(FALSE, FALSE, 200, 6, 3, 3, None, "none"),
        Message(FALSE, FALSE, 404, 6, NoLength, 0, None, "none"),
        Message(FALSE, FALSE, 200, 6, NoLength, 0, <<2>>, "none")}
================================================================================
