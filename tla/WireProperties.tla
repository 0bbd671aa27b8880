--------------------------- MODULE WireProperties ---------------------------
(***************************************************************************)
(* What a connection of the UPS server should keep of the messages.         *)
(***************************************************************************)
EXTENDS Wire

Bytes == 0 .. 255

\* What is on the wire is bytes, and the message object holds fields its class has, of
\* the last frame the stream gave: between two frames it is empty unless one was refused.
WireTypeOK ==
    /\ link \in Links /\ patient \in BOOLEAN
    /\ ToSet(greeting) \subseteq Greetings[link.greeting]
    /\ ToSet(sent) \subseteq Frames[link.frames]
    /\ ToSet(wire) \subseteq Bytes /\ ToSet(istream) \subseteq Bytes
    /\ phase \in {"connecting", "listening", "failed", "astray"}
    /\ DOMAIN message \subseteq
           {"unknown"} \cup DOMAIN Kinds[IF phase = "listening" THEN link.frames ELSE link.greeting]
    /\ Len(handed) =< Len(sent)

\* The numbers of the repeated field f in one stretch, as a peer with packed fields
\* writes them: behind the rest of the message.
PackedApart(type, m, f) ==
    LET number == CHOOSE k \in 1 .. 15 : \E w \in ToSet(Writes[type]) : w.name = f /\ w.number = k
        numbers == FlattenSeq([i \in DOMAIN m[f] |-> Varint(m[f][i])])
        rest == [g \in DOMAIN m \ {f} |-> m[g]]
    IN  Serialize(type, rest) \o <<8 * number + 2>> \o Varint(Len(numbers)) \o numbers

\* One class writes what it says it will and reads back what it wrote: ByteSizeLong, which
\* sendMesgTo puts before the message, counts the bytes _InternalSerialize writes, and
\* _InternalParse makes of them the fields that were set, in whichever of
\* its two forms a repeated number comes.
Agrees(type, m) ==
    LET bytes == Serialize(type, m)
        read == Parse(type, bytes, NoFields)
    IN  /\ Len(bytes) = ByteSize(type, m)
        /\ read.ok /\ read.message = m
        /\ \A f \in DOMAIN m : f # "unknown" /\ IsRepeated(type, f) /\ Kinds[type][f] = "int64" =>
               Parse(type, PackedApart(type, m, f), NoFields).message = m

\* Whatever is sent over one of the four links, its size and its bytes agree.  Were the
\* size one byte off, every frame after it would be read askew.
FramesAgree ==
    /\ \A i \in DOMAIN greeting : Agrees(link.greeting, greeting[i])
    /\ \A i \in DOMAIN sent : Agrees(link.frames, sent[i])

\* The frames that reach a handler: not the empty ones, and none from the first that lacks a
\* required field (the object it was merged into lacks it ever after).
Taking(frames) ==
    LET full == SelectSeq(frames, LAMBDA m : m # NoFields)
        broken == SelectInSeq(full, LAMBDA m : ~IsInitialized(link.frames, m))
    IN  IF broken = 0 THEN full ELSE SubSeq(full, 1, broken - 1)

\* Whether the reader waits for bytes and none are on their way.
AtRest == greeting # <<>> /\ wire = <<>> /\ FrameLength(istream) = 0

\* However the socket cuts the stream, the handlers' threads get whole frames, each
\* as it was sent and in that order, with nothing of an earlier one merged into
\* it and nothing skipped.  Only the frames sent before the connection was greeted may
\* be missing, and none when the peer has waited: connect_amazon's and connect_world's
\* streams take what they have read ahead with them.  A peer that waits is heard: when its
\* bytes have been read it is connected, if its greeting says so, and all has been handed over.
HandedInOrder ==
    /\ \E lost \in 0 .. Len(sent) :
           /\ patient => lost = 0
           /\ IsPrefix(handed, Taking(After(sent, lost)))
    /\ link.incoming /\ patient /\ AtRest =>
           /\ phase = (CASE Connected(Last(greeting)) -> "listening"
                         [] link.greeting = "UConnected" -> "failed"
                         [] OTHER -> "connecting")
           /\ handed = Taking(sent)
=============================================================================
