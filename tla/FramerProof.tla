----------------------------- MODULE FramerProof -----------------------------
(***************************************************************************)
(* A framed TCP session is a channel of whole datagrams, for every header  *)
(* length, frame limit and read size.                                      *)
(***************************************************************************)
EXTENDS Framer, TLAPS

(* Frames follow one another without a gap: each payload is preceded by its *)
(* header, and the stream ends with the last one.                           *)
Contiguous ==
    /\ \A i \in 1 .. Len(sent) : /\ sent[i].from <= sent[i].to
                                 /\ sent[i].to <= sent[i].from + MaxFrame
                                 /\ sent[i].to <= Written
    /\ \A i, j \in 1 .. Len(sent) : i < j => sent[i].to + Header <= sent[j].from
    /\ \A i \in 1 .. Len(sent) :
          sent[i].from = Header + IF i = 1 THEN 0 ELSE sent[i - 1].to

(* What was returned is what was sent, and the buffer starts where the last *)
(* frame returned ends: at a header.                                        *)
Aligned ==
    /\ Len(got) <= Len(sent)
    /\ \A i \in 1 .. Len(got) : got[i] = sent[i]
    /\ taken = IF Len(got) = 0 THEN 0 ELSE sent[Len(got)].to

IInv == TypeOK /\ Contiguous /\ Aligned /\ BufferBounded

USE FramerAssumption

LEMMA WrittenType == ASSUME TypeOK PROVE Written \in Position
<1>1. CASE sent = <<>>
  BY <1>1 DEF Written, Position
<1>2. CASE sent # <<>>
  <2>1. Len(sent) \in 1 .. Len(sent)
    BY <1>2 DEF TypeOK
  <2>2. sent[Len(sent)] \in Payload
    BY <2>1 DEF TypeOK
  <2> QED BY <1>2, <2>2 DEF Written, Payload
<1> QED BY <1>1, <1>2

LEMMA SentType ==
    ASSUME TypeOK, NEW i \in 1 .. Len(sent)
    PROVE  /\ sent[i] \in Payload
           /\ sent[i].from \in Nat /\ sent[i].to \in Nat
<1>1. sent[i] \in Payload
  BY DEF TypeOK
<1> QED BY <1>1 DEF Payload, Position

(* The front of the buffer: either everything sent has been returned, or    *)
(* the next payload's header is there, and says how long that payload is.   *)
LEMMA Front ==
    ASSUME IInv
    PROVE  /\ Len(got) = Len(sent) => taken = Written
           /\ Len(got) # Len(sent) =>
                LET next == sent[Len(got) + 1] IN
                /\ Len(got) + 1 \in 1 .. Len(sent)
                /\ next.from = taken + Header
                /\ Lengths(taken) = {next.to - next.from}
                /\ next.to - next.from \in 0 .. MaxFrame
<1> USE DEF IInv
<1>1. Len(got) \in Nat /\ Len(sent) \in Nat /\ taken \in Int
  BY DEF TypeOK, Position
<1>2. Len(got) = Len(sent) => taken = Written
  BY <1>1 DEF TypeOK, Aligned, Written
<1>3. ASSUME Len(got) # Len(sent)
      PROVE  LET next == sent[Len(got) + 1] IN
             /\ Len(got) + 1 \in 1 .. Len(sent)
             /\ next.from = taken + Header
             /\ Lengths(taken) = {next.to - next.from}
             /\ next.to - next.from \in 0 .. MaxFrame
  <2> DEFINE g == Len(got) + 1
  <2>1. g \in 1 .. Len(sent)
    BY <1>1, <1>3 DEF Aligned
  <2>2. \A i \in 1 .. Len(sent) : sent[i].from \in Int /\ sent[i].to \in Int
    BY SentType
  <2>3. sent[g].from = taken + Header
    BY <1>1, <2>1, <2>2 DEF Contiguous, Aligned
  <2>4. ASSUME NEW i \in 1 .. Len(sent), sent[i].from = taken + Header
        PROVE  i = g
    <3> HIDE DEF g
    <3>0. /\ i < g => sent[i].to + Header <= sent[g].from
          /\ g < i => sent[g].to + Header <= sent[i].from
          /\ sent[i].from <= sent[i].to /\ sent[g].from <= sent[g].to
      BY <2>1 DEF Contiguous
    <3>1. CASE i < g
      BY <2>1, <2>2, <2>3, <2>4, <3>0, <3>1
    <3>2. CASE g < i
      BY <2>1, <2>2, <2>3, <2>4, <3>0, <3>2
    <3> QED BY <2>1, <3>1, <3>2
  <2> HIDE DEF g
  <2>5. {i \in 1 .. Len(sent) : sent[i].from = taken + Header} = {g}
    BY <2>1, <2>3, <2>4
  <2>6. Lengths(taken) = {sent[g].to - sent[g].from}
    BY <2>5 DEF Lengths
  <2>7. sent[g].to - sent[g].from \in 0 .. MaxFrame
    BY <2>1, <2>2 DEF Contiguous
  <2> QED BY <2>1, <2>3, <2>6, <2>7 DEF g
<1> QED BY <1>2, <1>3

(* A complete frame at the front is the next one sent.                      *)
LEMMA CompleteIsNext ==
    ASSUME IInv, NEW n \in 0 .. MaxFrame, Complete(n)
    PROVE  /\ Len(got) + 1 \in 1 .. Len(sent)
           /\ sent[Len(got) + 1] = [from |-> taken + Header, to |-> taken + Header + n]
<1> USE DEF IInv
<1>1. read \in Int /\ taken \in Int /\ read <= Written /\ Written \in Int
  BY WrittenType DEF TypeOK, Position
<1>2. Len(got) # Len(sent)
  BY <1>1, Front DEF Complete
<1>3. Len(got) + 1 \in 1 .. Len(sent)
  BY <1>2, Front
<1>4. sent[Len(got) + 1] \in Payload
  BY <1>3 DEF TypeOK
<1>5. /\ sent[Len(got) + 1].from = taken + Header
      /\ n = sent[Len(got) + 1].to - sent[Len(got) + 1].from
  BY <1>2, Front DEF Complete
<1> QED BY <1>1, <1>3, <1>4, <1>5 DEF Payload, Position

(* Nothing complete is left at the end of the stream only if all came out.  *)
LEMMA NothingLeft ==
    ASSUME IInv, ~HasFrame, read = Written
    PROVE  Len(got) = Len(sent)
<1> USE DEF IInv
<1> SUFFICES ASSUME Len(got) # Len(sent) PROVE HasFrame
  OBVIOUS
<1> DEFINE next == sent[Len(got) + 1]
<1>1. /\ Len(got) + 1 \in 1 .. Len(sent)
      /\ next.from = taken + Header
      /\ Lengths(taken) = {next.to - next.from}
      /\ next.to - next.from \in 0 .. MaxFrame
  BY Front
<1>2. next \in Payload /\ next.to <= Written
  BY <1>1 DEF TypeOK, Contiguous
<1>3. read \in Int /\ taken \in Int
  BY DEF TypeOK, Position
<1> HIDE DEF next
<1>4. Complete(next.to - next.from)
  BY <1>1, <1>2, <1>3 DEF Complete, Payload, Position
<1> QED BY <1>1, <1>4 DEF HasFrame

(* A buffer that holds the longest possible frame holds a complete one.     *)
LEMMA FullHasFrame ==
    ASSUME IInv, read - taken >= Header + MaxFrame
    PROVE  HasFrame \/ read - taken = 0
<1> USE DEF IInv
<1> DEFINE next == sent[Len(got) + 1]
<1>1. read \in Int /\ taken \in Int /\ read <= Written /\ Written \in Int
  BY WrittenType DEF TypeOK, Position
<1>2. Len(got) # Len(sent)
  BY <1>1, Front
<1>3. /\ Lengths(taken) = {next.to - next.from}
      /\ next.to - next.from \in 0 .. MaxFrame
  BY <1>2, Front
<1> HIDE DEF next
<1>4. Complete(next.to - next.from)
  BY <1>1, <1>3 DEF Complete
<1> QED BY <1>3, <1>4 DEF HasFrame

LEMMA InitIInv == Init => IInv
<1> SUFFICES ASSUME Init PROVE IInv
  OBVIOUS
<1>1. sent = <<>> /\ got = <<>> /\ Len(sent) = 0 /\ Len(got) = 0
  BY DEF Init
<1>2. sent \in Seq(Payload) /\ got \in Seq(Payload)
  BY <1>1
<1>3. TypeOK
  <2>1. Written = 0 /\ 0 \in Position
    BY <1>1 DEF Written, Position
  <2>2. read = 0 /\ taken = 0 /\ link = "open" /\ over = FALSE
    BY DEF Init
  <2>3. read \in Position /\ taken \in Position /\ taken <= read /\ read <= Written
    BY <2>1, <2>2
  <2>4. link \in {"open", "closed", "broken"} /\ over \in BOOLEAN
    BY <2>2
  <2> QED BY <1>2, <2>3, <2>4 DEF TypeOK
<1>4. Contiguous /\ Aligned
  BY <1>1 DEF Init, Contiguous, Aligned
<1>5. BufferBounded
  BY DEF Init, BufferBounded
<1> QED BY <1>3, <1>4, <1>5 DEF IInv

LEMMA SendIInv == ASSUME IInv, Send PROVE IInv'
<1> USE DEF IInv
<1>1. PICK size \in 0 .. MaxFrame :
        /\ Written + Header + size <= MaxBytes
        /\ sent' = Append(sent, [from |-> Written + Header, to |-> Written + Header + size])
  BY DEF Send
<1> DEFINE d == [from |-> Written + Header, to |-> Written + Header + size]
<1>2. UNCHANGED <<got, link, over, read, taken>>
  BY DEF Send
<1>3. Written \in Position
  BY WrittenType
<1>4. d \in Payload /\ d.from = Written + Header /\ d.to = Written + Header + size
  BY <1>1, <1>3 DEF Payload, Position
<1> HIDE DEF d
<1>5. sent \in Seq(Payload) /\ Len(sent) \in Nat
  BY DEF TypeOK
<1>6. /\ sent' \in Seq(Payload)
      /\ Len(sent') = Len(sent) + 1
      /\ \A i \in 1 .. Len(sent) : sent'[i] = sent[i]
      /\ sent'[Len(sent) + 1] = d
  BY <1>1, <1>4, <1>5 DEF d
<1>7. Written' = d.to
  <2>1. sent' # <<>>
    BY <1>5, <1>6
  <2> QED BY <1>6, <2>1 DEF Written
<1>8. \A i \in 1 .. Len(sent) : /\ sent[i].from \in Nat /\ sent[i].to \in Nat
                                /\ sent[i].to <= Written
  BY SentType DEF Contiguous
<1>9. TypeOK'
  BY <1>2, <1>3, <1>4, <1>6, <1>7 DEF TypeOK, Position
<1>10. Contiguous'
  <2>1. ASSUME NEW i \in 1 .. Len(sent')
        PROVE  /\ sent'[i].from <= sent'[i].to
               /\ sent'[i].to <= sent'[i].from + MaxFrame
               /\ sent'[i].to <= Written'
    <3>1. CASE i \in 1 .. Len(sent)
      <4>1. sent'[i] = sent[i] /\ Written <= d.to
        BY <1>3, <1>4, <1>6, <3>1 DEF Position
      <4>2. /\ sent[i].from <= sent[i].to
            /\ sent[i].to <= sent[i].from + MaxFrame
        BY <3>1 DEF Contiguous
      <4> QED BY <1>3, <1>4, <1>7, <1>8, <3>1, <4>1, <4>2 DEF Position
    <3>2. CASE i = Len(sent) + 1
      BY <1>3, <1>4, <1>6, <1>7, <3>2 DEF Position
    <3> QED BY <1>5, <1>6, <3>1, <3>2
  <2>2. ASSUME NEW i \in 1 .. Len(sent'), NEW j \in 1 .. Len(sent'), i < j
        PROVE  sent'[i].to + Header <= sent'[j].from
    <3>1. i \in 1 .. Len(sent) /\ sent'[i] = sent[i]
      BY <1>5, <1>6, <2>2
    <3>2. CASE j \in 1 .. Len(sent)
      BY <1>6, <2>2, <3>1, <3>2 DEF Contiguous
    <3>3. CASE j = Len(sent) + 1
      BY <1>3, <1>4, <1>6, <1>8, <3>1, <3>3 DEF Position
    <3> QED BY <1>5, <1>6, <3>2, <3>3
  <2>3. ASSUME NEW i \in 1 .. Len(sent')
        PROVE  sent'[i].from = Header + IF i = 1 THEN 0 ELSE sent'[i - 1].to
    <3>1. CASE i \in 1 .. Len(sent)
      <4>1. i # 1 => i - 1 \in 1 .. Len(sent)
        BY <3>1, <1>5
      <4> QED BY <1>6, <3>1, <4>1 DEF Contiguous
    <3>2. CASE i = Len(sent) + 1
      <4>1. CASE Len(sent) = 0
        BY <1>3, <1>4, <1>5, <1>6, <3>2, <4>1 DEF Written, Position
      <4>2. CASE Len(sent) # 0
        <5>1. Len(sent) \in 1 .. Len(sent) /\ Written = sent[Len(sent)].to
          BY <1>5, <4>2 DEF Written
        <5> QED BY <1>3, <1>4, <1>5, <1>6, <3>2, <4>2, <5>1 DEF Position
      <4> QED BY <4>1, <4>2
    <3> QED BY <1>5, <1>6, <3>1, <3>2
  <2> QED BY <2>1, <2>2, <2>3 DEF Contiguous
<1>11. Aligned'
  <2>1. Len(got) \in Nat
    BY DEF TypeOK
  <2> QED BY <1>2, <1>5, <1>6, <2>1 DEF Aligned
<1>12. BufferBounded'
  BY <1>2 DEF BufferBounded
<1> QED BY <1>9, <1>10, <1>11, <1>12

LEMMA NextFrameIInv ==
    ASSUME IInv, NextFrame
    PROVE  /\ IInv'
           /\ Len(got) < Len(sent) /\ got' = Append(got, sent[Len(got) + 1])
<1> USE DEF IInv
<1>1. PICK n \in 0 .. MaxFrame :
        /\ Complete(n)
        /\ got' = Append(got, [from |-> taken + Header, to |-> taken + Header + n])
        /\ taken' = taken + Header + n
  BY DEF NextFrame
<1> DEFINE g == Len(got) + 1
<1>2. g \in 1 .. Len(sent)
      /\ sent[g] = [from |-> taken + Header, to |-> taken + Header + n]
  BY <1>1, CompleteIsNext
<1>3. UNCHANGED <<sent, link, over, read>>
  BY DEF NextFrame
<1>4. /\ got \in Seq(Payload) /\ sent \in Seq(Payload) /\ Len(got) \in Nat
      /\ read \in Int /\ taken \in Int
  BY DEF TypeOK, Position
<1>5. sent[g] \in Payload /\ sent[g].to = taken' /\ got' = Append(got, sent[g])
  BY <1>1, <1>2, <1>4
<1>6. /\ got' \in Seq(Payload) /\ Len(got') = g
      /\ \A i \in 1 .. Len(got) : got'[i] = got[i]
      /\ got'[g] = sent[g]
  BY <1>4, <1>5
<1>7. taken' \in Position /\ taken' <= read /\ read - taken' <= read - taken
  BY <1>1, <1>4, <1>5 DEF Complete, Payload, Position
<1>8. Written' = Written
  BY <1>3 DEF Written
<1>9. TypeOK'
  BY <1>3, <1>6, <1>7, <1>8 DEF TypeOK
<1>10. Contiguous'
  BY <1>3, <1>8 DEF Contiguous
<1>11. Aligned'
  <2>1. \A i \in 1 .. Len(got') : got'[i] = sent[i]
    BY <1>4, <1>6 DEF Aligned
  <2> QED BY <1>2, <1>3, <1>4, <1>5, <1>6, <2>1 DEF Aligned
<1>12. BufferBounded'
  <2>1. read - taken < Header + MaxFrame + Chunk
    BY DEF BufferBounded
  <2> HIDE DEF IInv
  <2>2. taken' \in Int /\ read - taken' <= read - taken
    BY <1>7 DEF Position
  <2>3. read - taken' < Header + MaxFrame + Chunk
    <3> DEFINE bound == Header + MaxFrame + Chunk
    <3>1. bound \in Int /\ read - taken \in Int /\ read - taken' \in Int
      BY <1>4, <2>2
    <3> HIDE DEF bound
    <3> DEFINE new == read - taken'
    <3>2. new \in Int /\ new <= read - taken /\ read - taken < bound
      BY <2>1, <2>2, <3>1 DEF bound
    <3> HIDE DEF new
    <3>3. new < bound
      BY <3>1, <3>2
    <3> QED BY <3>3 DEF bound, new
  <2> QED BY <1>3, <2>3 DEF BufferBounded
<1> QED BY <1>2, <1>4, <1>5, <1>9, <1>10, <1>11, <1>12

LEMMA ReadIInv == ASSUME IInv, Read PROVE IInv'
<1> USE DEF IInv
<1>1. PICK k \in 1 .. Chunk : read + k <= Written /\ read' = read + k
  BY DEF Read
<1>2. UNCHANGED <<sent, got, link, over, taken>> /\ ~HasFrame
  BY DEF Read
<1>3. read \in Nat /\ taken \in Nat /\ Written \in Position
  BY WrittenType DEF TypeOK, Position
<1>4. Written' = Written
  BY <1>2 DEF Written
<1>5. read - taken < Header + MaxFrame
  BY <1>2, <1>3, FullHasFrame
<1>6. TypeOK'
  BY <1>1, <1>2, <1>3, <1>4 DEF TypeOK, Position
<1>7. Contiguous' /\ Aligned'
  BY <1>2, <1>4 DEF Contiguous, Aligned
<1>8. BufferBounded'
  BY <1>1, <1>2, <1>3, <1>5 DEF BufferBounded
<1> QED BY <1>6, <1>7, <1>8

LEMMA OtherIInv ==
    ASSUME IInv, Close \/ Break \/ Fail \/ UNCHANGED vars PROVE IInv'
<1> USE DEF IInv
<1>1. UNCHANGED <<sent, got, read, taken>>
  BY DEF Close, Break, Fail, vars
<1>2. link' \in {"open", "closed", "broken"} /\ over' \in BOOLEAN
  BY DEF Close, Break, Fail, vars, TypeOK
<1>3. Written' = Written
  BY <1>1 DEF Written
<1> QED BY <1>1, <1>2, <1>3 DEF TypeOK, Contiguous, Aligned, BufferBounded

THEOREM Inductive == Spec => []IInv
<1>1. IInv /\ [Next]_vars => IInv'
  BY SendIInv, NextFrameIInv, ReadIInv, OtherIInv DEF Next, Recv
<1> QED BY InitIInv, <1>1, PTL DEF Spec

(* For every stream, nothing is consumed before it is read or read before   *)
(* it is written: StreamFramer, tcpSession.Recv.                            *)
THEOREM TypeCorrect == Spec => []TypeOK
<1>1. IInv => TypeOK
  BY DEF IInv
<1> QED BY Inductive, <1>1, PTL

(* For every header length, frame limit and read size the framer's buffer   *)
(* stays below one frame and one read.                                      *)
THEOREM BufferIsBounded == Spec => []BufferBounded
<1>1. IInv => BufferBounded
  BY DEF IInv
<1> QED BY Inductive, <1>1, PTL

(* However the stream is cut into reads, a TCP session is a channel of      *)
(* whole datagrams, in order, of which an orderly close loses none.         *)
THEOREM Refinement == Spec => ImplementsDatagrams
<1>1. Init => Channel!Init
  BY DEF Init, Channel!Init
<1>2. IInv /\ [Next]_vars => [Channel!Next]_Channel!vars
  <2> SUFFICES ASSUME IInv, [Next]_vars PROVE [Channel!Next]_Channel!vars
    OBVIOUS
  <2> USE DEF Channel!vars, Channel!Next
  <2>1. CASE Send
    <3>1. PICK size \in 0 .. MaxFrame :
            /\ Written + Header + size <= MaxBytes
            /\ sent' = Append(sent, [from |-> Written + Header, to |-> Written + Header + size])
      BY <2>1 DEF Send
    <3>2. [from |-> Written + Header, to |-> Written + Header + size] \in Payload
      BY <3>1, WrittenType DEF IInv, Payload, Position
    <3> QED BY <2>1, <3>1, <3>2 DEF Send, Channel!Send
  <2>2. CASE Close
    BY <2>2 DEF Close, Channel!Close
  <2>3. CASE Break
    BY <2>3 DEF Break, Channel!Break
  <2>4. CASE NextFrame
    BY <2>4, NextFrameIInv DEF NextFrame, Channel!Recv
  <2>5. CASE Read
    BY <2>5 DEF Read
  <2>6. CASE Fail
    BY <2>6, NothingLeft DEF Fail, Channel!End
  <2>7. CASE UNCHANGED vars
    BY <2>7 DEF vars
  <2> QED BY <2>1, <2>2, <2>3, <2>4, <2>5, <2>6, <2>7 DEF Next, Recv
<1> QED BY Inductive, <1>1, <1>2, PTL DEF Spec, ImplementsDatagrams, Channel!Spec
=============================================================================
