-------------------------------- MODULE Frames --------------------------------
(***************************************************************************)
(* Length-prefixed frames on one byte stream: WriteFrame and ReadFrame of  *)
(* internal/codec, with ConnWriter.Send of internal/mux on the writing     *)
(* end, where several goroutines share the stream.  A write puts bytes on  *)
(* the wire one after the other and the stream may break between any two;  *)
(* a read takes them in pieces of any size.                                *)
(*                                                                         *)
(* Both ends of a connection use this framing.  WriteLimit is the largest  *)
(* payload the writing end sends: MaxFrameSize for the gateway, whatever a *)
(* client was built with otherwise.                                        *)
(***************************************************************************)
EXTENDS Naturals, Sequences

CONSTANTS
    Go,              \* goroutines that send
    None,
    Radix,           \* values of a byte
    PrefixSize,      \* lengthPrefixSize
    MaxFrameSize,
    WriteLimit,
    MaxFrames        \* bound: frames sent

\* n >> 8k, for the shifts that leave something of a length.
ShiftRight(n, k) ==
    LET v[i \in 0..PrefixSize] == IF i = 0 THEN n ELSE v[i - 1] \div Radix
    IN  v[k]

\* A prefix has room for the length of every payload sent.
ASSUME FrameConfig ==
    /\ {Radix, PrefixSize, MaxFrameSize, WriteLimit} \subseteq Nat \ {0}
    /\ MaxFrames \in Nat
    /\ ShiftRight(WriteLimit, PrefixSize) = 0
    /\ None \notin Go

Byte == 0..(Radix - 1)

VARIABLES
    owner,     \* who holds c.mu
    rest,      \* what its Write has yet to put on the wire
    sent,      \* payloads of the frames begun, in the order of the lock
    wire,      \* bytes written and not read
    broken,    \* the writing end is closed
    torn,      \* ... and with only a part of a frame written
    header,    \* the bytes of the length prefix read so far
    need,      \* payload bytes ReadFrame still waits for
    payload,   \* the payload bytes read so far
    rcvd,      \* payloads ReadFrame returned
    result     \* nil, or the error that ended the reading

frameVars == <<owner, rest, sent, wire, broken, torn, header, need, payload, rcvd, result>>

Payload(n) == UNION {[1..k -> Byte] : k \in 0..n}

\* Only payloads of at most MaxFrameSize bytes are ever allocated and delivered
\* by ReadFrame, and the bytes on the wire are bytes.
FramesTypeOK ==
    /\ owner \in Go \cup {None}
    /\ {rest, wire, header, payload} \subseteq Seq(Byte)
    /\ Len(header) <= PrefixSize
    /\ {sent, rcvd} \subseteq Seq(Payload(WriteLimit))
    /\ need + Len(payload) \in 0..MaxFrameSize
    /\ {broken, torn} \subseteq BOOLEAN
    /\ result \in {"nil", "EOF", "UnexpectedEOF", "TooLarge"}

FramesInit ==
    /\ owner = None /\ rest = <<>> /\ sent = <<>>
    /\ wire = <<>> /\ broken = FALSE /\ torn = FALSE
    /\ header = <<>> /\ need = 0 /\ payload = <<>>
    /\ rcvd = <<>> /\ result = "nil"

\* binary.BigEndian.PutUint32
PutUint(n) == [i \in 1..PrefixSize |-> ShiftRight(n, PrefixSize - i) % Radix]

\* binary.BigEndian.Uint32
Uint(h) ==
    LET v[i \in 0..Len(h)] == IF i = 0 THEN 0 ELSE v[i - 1] * Radix + h[i]
    IN  v[Len(h)]

TooLarge(n) == n > MaxFrameSize

\* Seeded fault: Send does not take the lock.
SendUnlocked(g, p) ==
    /\ ~broken
    /\ Len(sent) < MaxFrames /\ Len(p) <= WriteLimit
    /\ owner' = g
    /\ rest' = PutUint(Len(p)) \o p
    /\ sent' = Append(sent, p)
    /\ UNCHANGED <<wire, broken, torn, header, need, payload, rcvd, result>>

\* Send takes the lock and WriteFrame begins to write; a payload above the limit
\* is refused before that, and on a broken stream nothing is written.
Send(g, p) ==
    /\ owner = None /\ ~broken
    /\ Len(sent) < MaxFrames /\ Len(p) <= WriteLimit
    /\ owner' = g
    /\ rest' = PutUint(Len(p)) \o p
    /\ sent' = Append(sent, p)
    /\ UNCHANGED <<wire, broken, torn, header, need, payload, rcvd, result>>

WriteByte ==
    /\ rest # <<>>
    /\ wire' = Append(wire, Head(rest))
    /\ rest' = Tail(rest)
    /\ owner' = IF Len(rest) = 1 THEN None ELSE owner
    /\ UNCHANGED <<sent, broken, torn, header, need, payload, rcvd, result>>

\* The connection ends, possibly within a frame.
Break ==
    /\ ~broken
    /\ broken' = TRUE
    /\ torn' = (rest # <<>> /\ Len(rest) < PrefixSize + Len(sent[Len(sent)]))
    /\ owner' = None /\ rest' = <<>>
    /\ UNCHANGED <<sent, wire, header, need, payload, rcvd, result>>

\* io.ReadFull of the prefix, and what follows once it is complete: too large,
\* no payload, or a payload to wait for.
ReadHeader ==
    /\ result = "nil" /\ need = 0 /\ wire # <<>>
    /\ wire' = Tail(wire)
    /\ LET h == Append(header, Head(wire))
           n == Uint(h)
       IN  \/ /\ Len(h) < PrefixSize
              /\ header' = h
              /\ UNCHANGED <<need, rcvd, result>>
           \/ /\ Len(h) = PrefixSize
              /\ header' = <<>>
              /\ result' = IF TooLarge(n) THEN "TooLarge" ELSE "nil"
              /\ need' = IF TooLarge(n) THEN 0 ELSE n
              /\ rcvd' = IF n = 0 THEN Append(rcvd, <<>>) ELSE rcvd
    /\ UNCHANGED <<owner, rest, sent, broken, torn, payload>>

\* io.ReadFull of the payload.
ReadPayload ==
    /\ result = "nil" /\ need > 0 /\ wire # <<>>
    /\ wire' = Tail(wire)
    /\ need' = need - 1
    /\ LET p == Append(payload, Head(wire))
       IN  IF need = 1 THEN payload' = <<>> /\ rcvd' = Append(rcvd, p)
                       ELSE payload' = p /\ UNCHANGED rcvd
    /\ UNCHANGED <<owner, rest, sent, broken, torn, header, result>>

\* Seeded fault: the end of the stream within a payload is not told apart.
ReadEndClean ==
    /\ result = "nil" /\ wire = <<>> /\ broken
    /\ result' = IF header = <<>> THEN "EOF" ELSE "UnexpectedEOF"
    /\ UNCHANGED <<owner, rest, sent, wire, broken, torn, header, need, payload, rcvd>>

\* ReadFull fails: EOF before the first byte of a frame, ErrUnexpectedEOF after.
ReadEnd ==
    /\ result = "nil" /\ wire = <<>> /\ broken
    /\ result' = IF header = <<>> /\ need = 0 THEN "EOF" ELSE "UnexpectedEOF"
    /\ UNCHANGED <<owner, rest, sent, wire, broken, torn, header, need, payload, rcvd>>

FramesNext ==
    \/ \E g \in Go, p \in Payload(WriteLimit) : Send(g, p)
    \/ WriteByte \/ Break
    \/ ReadHeader \/ ReadPayload \/ ReadEnd

FramesSpec == FramesInit /\ [][FramesNext]_frameVars

-----------------------------------------------------------------------------
(* Properties                                                              *)

\* Frames of concurrent senders never mix: ReadFrame returns the payloads sent,
\* each whole, in the order in which Send took the lock.
FramesIntact == Len(rcvd) <= Len(sent) /\ rcvd = SubSeq(sent, 1, Len(rcvd))

\* ReadFrame tells the ends of a stream apart: EOF only when nothing of a frame was
\* lost, ErrUnexpectedEOF only when a frame was cut, and in both cases every frame
\* written whole was returned before; ErrFrameTooLarge exactly for a frame above the
\* limit, of which no byte of the payload is waited for.
VerdictExact ==
    LET next == Len(rcvd) + 1
    IN  /\ result = "EOF" => ~torn
        /\ result = "UnexpectedEOF" => torn
        /\ result \in {"EOF", "UnexpectedEOF"} => Len(sent) <= next
        /\ need + Len(payload) <= MaxFrameSize
        /\ result = "TooLarge" => next <= Len(sent) /\ Len(sent[next]) > MaxFrameSize

=============================================================================
