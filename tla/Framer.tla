------------------------------- MODULE Framer --------------------------------
(***************************************************************************)
(* A TCP session (internal/backend: tcpSession, StreamFramer): datagrams   *)
(* as length-prefixed frames of a byte stream, one direction.              *)
(*                                                                         *)
(* A byte is its position in the stream, a payload the range of positions  *)
(* it occupies, so equal ranges are equal contents.  The receiver has read *)
(* the first `read` bytes and consumed the first `taken` of them; what is  *)
(* between is StreamFramer.buf.  A header says how long its payload is;    *)
(* Header bytes at any other place could say anything.                     *)
(***************************************************************************)
EXTENDS Integers, Sequences

CONSTANTS Header,       \* frameHeader (4)
          MaxFrame,     \* maxFrame (1 MiB)
          Chunk,        \* the buffer of one Read (64 KiB)
          MaxBytes      \* bound: length of the stream

ASSUME FramerAssumption ==
    /\ Header \in Nat \ {0} /\ MaxFrame \in Nat
    /\ Chunk \in Nat \ {0} /\ MaxBytes \in Nat

VARIABLES sent,     \* payloads of the frames in the stream
          got,      \* payloads Recv returned
          link,     \* the connection: "open", "closed" (FIN) or "broken"
          over,     \* Recv has returned an error
          read, taken

vars == <<sent, got, link, over, read, taken>>

Position == 0 .. MaxBytes
Payload == [from : Position, to : Position]

Init == /\ sent = <<>> /\ got = <<>>
        /\ link = "open" /\ over = FALSE
        /\ read = 0 /\ taken = 0

(* Bytes in the stream.                                                     *)
Written == IF sent = <<>> THEN 0 ELSE sent[Len(sent)].to

-----------------------------------------------------------------------------
(* The sender                                                               *)

(* Send: header and payload in one write.  EncodeFrame refuses what is      *)
(* longer than MaxFrame.                                                    *)
Send ==
    /\ link = "open"
    /\ \E size \in 0 .. MaxFrame :
          /\ Written + Header + size <= MaxBytes
          /\ sent' = Append(sent, [from |-> Written + Header, to |-> Written + Header + size])
    /\ UNCHANGED <<got, link, over, read, taken>>

Close == /\ link = "open" /\ link' = "closed"
         /\ UNCHANGED <<sent, got, over, read, taken>>

(* The connection is lost, or either end is closed with bytes under way.    *)
Break == /\ link # "broken" /\ link' = "broken"
         /\ UNCHANGED <<sent, got, over, read, taken>>

-----------------------------------------------------------------------------
(* The receiver                                                             *)

(* What the Header bytes at position p say.                                 *)
Lengths(p) ==
    LET headed == {i \in 1 .. Len(sent) : sent[i].from = p + Header} IN
    IF headed = {} THEN 0 .. MaxFrame
    ELSE {sent[i].to - sent[i].from : i \in headed}

(* Fault of Complete: the header is not counted.                            *)
CompletePayload(n) == n \in Lengths(taken) /\ read - taken >= n

(* Fault of Complete: off by one.                                           *)
CompleteLate(n) == n \in Lengths(taken) /\ read - taken > Header + n

(* peek: a frame of n bytes is at the front of the buffer.                  *)
Complete(n) ==
    /\ read - taken >= Header
    /\ n \in Lengths(taken)
    /\ read - taken >= Header + n

(* Fault of HasFrame: Recv reads without looking into the buffer.           *)
HasFrameNever == FALSE

HasFrame == \E n \in 0 .. MaxFrame : Complete(n)

(* Recv returns the first frame of the buffer ...                           *)
NextFrame ==
    /\ ~over
    /\ \E n \in 0 .. MaxFrame :
          /\ Complete(n)
          /\ got' = Append(got, [from |-> taken + Header, to |-> taken + Header + n])
          /\ taken' = taken + Header + n
    /\ UNCHANGED <<sent, link, over, read>>

(* ... or reads on; a deadline that expires meanwhile changes nothing.      *)
Read ==
    /\ ~over /\ ~HasFrame
    /\ \E k \in 1 .. Chunk : read + k <= Written /\ read' = read + k
    /\ UNCHANGED <<sent, got, link, over, taken>>

(* ... or meets the end of the stream or a broken connection.               *)
Fail ==
    /\ ~over /\ ~HasFrame
    /\ link = "broken" \/ (link = "closed" /\ read = Written)
    /\ over' = TRUE
    /\ UNCHANGED <<sent, got, link, read, taken>>

Recv == NextFrame \/ Read \/ Fail

Next == Send \/ Close \/ Break \/ Recv

Spec == Init /\ [][Next]_vars

(* readLoop calls Recv until it fails; TCP delivers what is written.        *)
FairSpec == Spec /\ WF_vars(Recv)

-----------------------------------------------------------------------------
(* Properties                                                               *)

(* Nothing is consumed before it is read or read before it is written.      *)
TypeOK ==
    /\ sent \in Seq(Payload) /\ got \in Seq(Payload)
    /\ link \in {"open", "closed", "broken"} /\ over \in BOOLEAN
    /\ taken \in Position /\ read \in Position
    /\ taken <= read /\ read <= Written

(* The framer's buffer stays below one frame and one read, although it only *)
(* grows by append: Recv empties it of frames before it reads again.        *)
BufferBounded == read - taken < Header + MaxFrame + Chunk

(* However the stream is cut into reads, the session is the channel of      *)
(* whole datagrams that module Datagrams specifies: Recv never returns a    *)
(* part or a mix of datagrams, and an orderly close loses none.             *)
Channel == INSTANCE Datagrams WITH Datagram <- Payload

ImplementsDatagrams == Channel!Spec

(* Every datagram is received unless the connection breaks, without waiting *)
(* for a later one to push it out of the buffer.                            *)
EventuallyReceived ==
    \A i \in 1 .. MaxBytes :
        (Len(sent) >= i) ~> (Len(got) >= i \/ link = "broken")
=============================================================================
