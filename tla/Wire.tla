-------------------------------- MODULE Wire --------------------------------
(***************************************************************************)
(* A connection of the UPS server as the bytes cross it: frames of a varint  *)
(* size and a message (sendMesgTo), read back by recvMesgFrom through a       *)
(* FileInputStream that takes what the socket has.  connect_world and         *)
(* connect_amazon read the greeting with a stream of their own, the listening *)
(* thread then starts another; the message it reads into is cleared only      *)
(* after a frame that was taken.                                             *)
(*                                                                         *)
(* The peers are external: they send whole frames.  Of what this server      *)
(* sends, only the bytes are followed here.                                  *)
(***************************************************************************)
EXTENDS Messages

CONSTANTS
    Links,      \* [greeting, frames: message classes, incoming: BOOLEAN]
    Greetings,  \* for each class of greeting, the messages sent
    Frames,     \* for each class of frames, the messages sent
    Block,      \* bytes a FileInputStream asks for at once
    MaxFrames   \* bound on the frames after the greeting

VARIABLES
    link,
    patient,    \* the peer waits for the connection before it sends frames
    greeting,   \* history: the greetings sent
    sent,       \* history: the frames sent after it
    wire,       \* bytes on their way
    istream,    \* bytes the current stream has read and nobody has taken
    phase,      \* connecting, listening, failed, or astray
    message,    \* the message object read into
    handed      \* history: the messages given to a handler's thread

vars == <<link, patient, greeting, sent, wire, istream, phase, message, handed>>

Init ==
    /\ link \in Links
    /\ patient \in BOOLEAN
    /\ greeting = <<>> /\ sent = <<>>
    /\ wire = <<>> /\ istream = <<>>
    /\ phase = "connecting"
    /\ message = NoFields
    /\ handed = <<>>
-----------------------------------------------------------------------------
\* sendMesgTo
Frame(type, m) == Varint(ByteSize(type, m)) \o Serialize(type, m)

\* "connected!"
Welcome == <<99, 111, 110, 110, 101, 99, 116, 101, 100, 33>>

\* What the two connecting functions look for.  A field that is not set reads as its default.
Connected(m) ==
    IF link.greeting = "UConnected" THEN Get(m, "result") = Welcome
    ELSE "success" \in DOMAIN m /\ m.success

\* The greeting; Amazon may say once that it has not connected yet.
Greet(m) ==
    /\ sent = <<>> /\ phase = "connecting"
    /\ greeting # <<>> =>
           link.greeting = "AUconnectedWorld" /\ ~Connected(Last(greeting)) /\ Last(greeting) # m
    /\ greeting' = Append(greeting, m)
    /\ wire' = wire \o Frame(link.greeting, m)
    /\ UNCHANGED <<link, patient, sent, istream, phase, message, handed>>

\* A peer sends frames once it has greeted, one that is patient when the connection is
\* listened to.
Send(m) ==
    /\ greeting # <<>> /\ Len(sent) < MaxFrames
    /\ link.incoming => Connected(Last(greeting)) /\ (patient => phase = "listening")
    /\ sent' = Append(sent, m)
    /\ wire' = wire \o Frame(link.frames, m)
    /\ UNCHANGED <<link, patient, greeting, istream, phase, message, handed>>

\* The bytes of the frame at the head of the stream, 0 while some are missing.
FrameLength(bytes) ==
    LET head == VarintLength(bytes)
        whole == head + VarintValue(bytes)
    IN  IF head = 0 \/ whole > Len(bytes) THEN 0 ELSE whole

\* recvMesgFrom waits for more bytes: one read, of what the socket has.
ReadSocket ==
    /\ link.incoming /\ phase \in {"connecting", "listening"}
    /\ wire # <<>> /\ FrameLength(istream) = 0
    /\ \E n \in 1 .. Block :
        /\ n =< Len(wire)
        /\ istream' = istream \o SubSeq(wire, 1, n)
        /\ wire' = After(wire, n)
    /\ UNCHANGED <<link, patient, greeting, sent, phase, message, handed>>

\* What recvMesgFrom makes of the frame: the fields are merged into the message
\* object, and the call succeeds when nothing required is missing.
Received(type) ==
    LET body == SubSeq(istream, VarintLength(istream) + 1, FrameLength(istream))
        parsed == Parse(type, body, message)
    IN  [ok |-> parsed.ok /\ IsInitialized(type, parsed.message), message |-> parsed.message]

\* Whether bytes are whole frames.
RECURSIVE Aligned(_)
Aligned(bytes) == bytes = <<>> \/ (FrameLength(bytes) > 0 /\ Aligned(After(bytes, FrameLength(bytes))))

\* connect_world reads once and throws when the answer is another one;
\* connect_amazon reads until it is told that Amazon is there.  The stream goes
\* away with what it has read beyond the greeting; when that is part of a frame, the
\* listening thread starts in the middle of it, and is not followed there.
Connect ==
    LET received == Received(link.greeting)
        rest == After(istream, FrameLength(istream))
    IN
    /\ phase = "connecting" /\ FrameLength(istream) > 0
    /\ IF received.ok /\ Connected(received.message)
       THEN /\ phase' = IF Aligned(rest) THEN "listening" ELSE "astray"
            /\ istream' = <<>> /\ message' = NoFields
       ELSE /\ phase' = IF link.greeting = "UConnected" THEN "failed" ELSE "connecting"
            /\ istream' = rest /\ message' = received.message
    /\ UNCHANGED <<link, patient, greeting, sent, wire, handed>>

\* Mutant of Taken: the message is not cleared.
KeptForNext(m) == m

\* The message after a frame that was taken.
Taken(m) == NoFields

\* keep_listen_amazon and keep_listen_world: a message goes to a thread of its own and
\* is cleared; an empty one is passed over; one that is refused stays in the object.
Listen ==
    LET received == Received(link.frames) IN
    /\ phase = "listening" /\ FrameLength(istream) > 0
    /\ istream' = After(istream, FrameLength(istream))
    /\ IF received.ok /\ ByteSize(link.frames, received.message) > 0
       THEN handed' = Append(handed, received.message) /\ message' = Taken(received.message)
       ELSE handed' = handed /\ message' = received.message
    /\ UNCHANGED <<link, patient, greeting, sent, wire, phase>>

Next ==
    \/ \E m \in Greetings[link.greeting] : Greet(m)
    \/ \E m \in Frames[link.frames] : Send(m)
    \/ ReadSocket
    \/ Connect
    \/ Listen

Spec == Init /\ [][Next]_vars
=============================================================================
