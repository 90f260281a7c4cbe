----------------------------- MODULE FsciFramer -----------------------------
(***************************************************************************)
(* The framer of the host SDK (protocol/Framer.c, FSCI/FSCIFramer.c): the  *)
(* device thread puts what it reads, in chunks of any size, on the framer's *)
(* message queue and announces each chunk; the framer thread cuts the      *)
(* bytes into FSCI frames with a state machine that stops where the bytes  *)
(* counted at its wake-up end and goes on there at its next one.           *)
(*                                                                         *)
(* A chunk is what is left of a RawFrame behind its iCrtIndex.  The state  *)
(* machine's steps are actions of their own, so that chunks arrive between *)
(* any two of them.                                                        *)
(***************************************************************************)
EXTENDS Integers, Sequences, SequencesExt

CONSTANTS
  Boards,      \* the field sizes a board uses, with the bytes it may send
  MTU,         \* FSCI_MTU
  MaxChunks    \* bound: chunks a stream is read in

Byte    == 0 .. 255
SYNC    == 2
MaxJunk == 32767    \* bound: ReadDataUntilByte doubles its size, a uint16_t, when it is full

ASSUME FramerAssumption ==
  /\ MTU \in Nat /\ MaxChunks \in Nat
  /\ \A b \in Boards :
       /\ b.lengthSize \in {1, 2} /\ b.crcSize \in {1, 2} /\ b.bytes \in Seq(Byte)
       /\ \A i \in 1 .. Len(b.bytes) - MaxJunk :
            \E j \in i .. i + MaxJunk : b.bytes[j] = SYNC

VARIABLES
  board,             \* the board: framer->lengthFieldSize, framer->crcFieldSize
  toRead,            \* what the board has still to send
  chunks, announce,  \* device thread: chunks read, a chunk put but not signalled
  queue, avail,      \* framer->queue: chunks, cAvailableData
  event,             \* framer->queue->sAnnounceData
  running,           \* the framer thread is in StateMachineDispatch
  state,             \* framer->currentState
  frame,             \* response, or NoFrame
  left, saved,       \* cbCrtAvailable, cbSaved
  status,            \* what StateMachineDispatch returned, or "none"
  delivered          \* history: frames handed to NotifyOnEvent

deviceVars == <<board, toRead, chunks, announce>>
machineVars == <<queue, state, frame, left, status, running>>
vars == <<deviceVars, machineVars, avail, event, saved, delivered>>

NoFrame     == [og |-> 0, oc |-> 0, length |-> 0, data |-> <<>>, crc |-> 0, new |-> FALSE]
NewFrame    == [NoFrame EXCEPT !.new = TRUE]
LengthSize  == board.lengthSize
CrcSize     == board.crcSize
HeaderSize  == 3 + LengthSize
MaxCrcSize  == 1                    \* MAX_CRC_SIZE
Uint8(n)    == n % 256
Read16(s)   == s[1] + 256 * s[2]    \* _LITTLE_ENDIAN
Length(s)   == IF LengthSize = 1 THEN s[1] ELSE Read16(s)

XorTable    == [m \in Byte |-> [n \in Byte |->
                  LET Bit(w) == w * ((m \div w + n \div w) % 2)
                  IN Bit(1) + Bit(2) + Bit(4) + Bit(8) + Bit(16) + Bit(32) + Bit(64) + Bit(128)]]
Xor(m, n)   == XorTable[m][n]
CalculateCRC(s) ==
  LET Upto[i \in 0 .. Len(s)] == IF i = 0 THEN 0 ELSE Xor(Upto[i - 1], s[i])
  IN Upto[Len(s)]

Bytes(q) ==
  LET Upto[k \in 0 .. Len(q)] == IF k = 0 THEN <<>> ELSE Upto[k - 1] \o q[k]
  IN Upto[Len(q)]

\* The queue without its first n bytes: some chunks are used up, one in part.
Drop(q, n) ==
  LET Before(k) == Len(Bytes(SubSeq(q, 1, k)))
      used == CHOOSE k \in 0 .. Len(q) : Before(k) <= n /\ (k < Len(q) => n < Before(k + 1))
  IN IF used = Len(q) THEN <<>>
     ELSE <<SubSeq(q[used + 1], n - Before(used) + 1, Len(q[used + 1]))>>
            \o SubSeq(q, used + 2, Len(q))

\* The number of its bytes before the first SYNC.
Junk(q) ==
  LET b == Bytes(q)
  IN CHOOSE n \in 0 .. Len(b) :
       (\A i \in 1 .. n : b[i] # SYNC) /\ (n < Len(b) => b[n + 1] = SYNC)

\* PeekMultiByte: PeekIndex is given the number of bytes copied so far as the
\* index of the node to look at.  What it does not find stays zero.
Peek(q, n) ==
  LET From[k \in 0 .. n] ==
        IF k = n THEN <<>>
        ELSE IF k >= Len(q) THEN [i \in 1 .. n - k |-> 0]
        ELSE IF Len(q[k + 1]) <= n - k THEN q[k + 1] \o From[k + Len(q[k + 1])]
        ELSE SubSeq(q[k + 1], 1, n - k)
  IN From[0]

Init ==
  /\ board \in Boards /\ toRead = board.bytes /\ chunks = 0 /\ announce = FALSE
  /\ queue = <<>> /\ avail = 0 /\ event = 0
  /\ running = FALSE /\ state = "junk" /\ frame = NoFrame
  /\ left = 0 /\ saved = 0 /\ status = "none" /\ delivered = <<>>

-----------------------------------------------------------------------------
(* FramerCallback, on the device thread.                                   *)

PutChunk ==
  /\ toRead # <<>> /\ ~announce /\ announce' = TRUE
  /\ chunks < MaxChunks /\ chunks' = chunks + 1
  /\ \E n \in 1 .. Len(toRead) :
       /\ queue' = Append(queue, SubSeq(toRead, 1, n))
       /\ avail' = avail + n
       /\ toRead' = SubSeq(toRead, n + 1, Len(toRead))
  /\ UNCHANGED <<board, event, running, state, frame, left, saved, status, delivered>>

SignalChunk ==
  /\ announce /\ announce' = FALSE
  /\ event' = event + 1
  /\ UNCHANGED <<board, toRead, chunks, machineVars, avail, saved, delivered>>

-----------------------------------------------------------------------------
(* FramerThreadRoutine.                                                    *)

\* The event is reset and the bytes are counted.  Without bytes the thread goes
\* back to wait; otherwise it enters StateMachineDispatch, with a frame of its
\* own if the last wake-up left one.
Wake ==
  /\ ~running /\ status = "none" /\ event > 0
  /\ event' = event - 1
  /\ IF avail = 0 THEN UNCHANGED <<running, left, saved, frame, state>>
     ELSE /\ running' = TRUE
          /\ left' = avail /\ saved' = avail
          /\ frame' = IF frame.new THEN frame ELSE NewFrame
          /\ state' = IF frame.new THEN state ELSE "junk"
  /\ UNCHANGED <<deviceVars, queue, avail, status, delivered>>

Return(s) == running' = FALSE /\ status' = s
Enough(n) == running /\ left >= n
Consume(n) == queue' = Drop(queue, n) /\ left' = left - n
Field(n)   == SubSeq(Bytes(queue), 1, n)

\* JunkData without the count given back to the caller.
JunkDataUncounted ==
  /\ running /\ state = "junk"
  /\ LET n == Junk(queue) IN
       /\ queue' = Drop(queue, n)
       /\ IF n = 0 THEN state' = "sync" /\ UNCHANGED <<running, status>>
          ELSE state' = "finished" /\ Return("JUNK_DATA")
  /\ UNCHANGED <<deviceVars, avail, event, left, saved, frame, delivered>>

\* ReadDataUntilByte empties the queue up to a SYNC, chunks that came after the
\* count included: left, a uint32_t in the code, goes below zero here.
JunkData ==
  /\ running /\ state = "junk"
  /\ LET n == Junk(queue) IN
       /\ Consume(n)
       /\ IF n = 0 THEN state' = "sync" /\ UNCHANGED <<running, status>>
          ELSE state' = "finished" /\ Return("JUNK_DATA")
  /\ UNCHANGED <<deviceVars, avail, event, saved, frame, delivered>>

\* Too few bytes counted for the field the machine is at.
Needed ==
  CASE state \in {"sync", "og", "oc", "crc"} -> 1
    [] state = "length" -> LengthSize
    [] state = "data"   -> frame.length
    [] OTHER            -> 0
InsufficientData ==
  /\ running /\ state # "junk" /\ left < Needed
  /\ Return("INSUFFICIENT_DATA")
  /\ UNCHANGED <<deviceVars, queue, avail, event, state, frame, left, saved, delivered>>

SyncField ==
  /\ state = "sync" /\ Enough(1) /\ Consume(1) /\ state' = "og"
  /\ UNCHANGED <<deviceVars, avail, event, saved, frame, running, status, delivered>>

OpGroupField ==
  /\ state = "og" /\ Enough(1) /\ Consume(1) /\ state' = "oc"
  /\ frame' = [frame EXCEPT !.og = Field(1)[1]]
  /\ UNCHANGED <<deviceVars, avail, event, saved, running, status, delivered>>

OpCodeField ==
  /\ state = "oc" /\ Enough(1) /\ Consume(1) /\ state' = "length"
  /\ frame' = [frame EXCEPT !.oc = Field(1)[1]]
  /\ UNCHANGED <<deviceVars, avail, event, saved, running, status, delivered>>

\* A length over the MTU sends the machine back to look for a SYNC.
LengthField ==
  /\ state = "length" /\ Enough(LengthSize) /\ Consume(LengthSize)
  /\ frame' = [frame EXCEPT !.length = Length(Field(LengthSize))]
  /\ IF frame'.length > MTU
     THEN state' = "junk" /\ Return("JUNK_DATA")
     ELSE state' = "data" /\ UNCHANGED <<running, status>>
  /\ UNCHANGED <<deviceVars, avail, event, saved, delivered>>

DataField ==
  /\ state = "data" /\ Enough(frame.length) /\ Consume(frame.length)
  /\ state' = "crc"
  /\ frame' = [frame EXCEPT !.data = Field(frame.length)]
  /\ UNCHANGED <<deviceVars, avail, event, saved, running, status, delivered>>

LengthBytes(n) == IF LengthSize = 1 THEN <<n>> ELSE <<n % 256, n \div 256>>
FrameCRC(f) == CalculateCRC(<<f.og, f.oc>> \o LengthBytes(f.length) \o f.data)

CrcField ==
  /\ state = "crc" /\ Enough(1) /\ Consume(1)
  /\ frame' = [frame EXCEPT !.crc = Field(1)[1]]
  /\ IF CrcSize = 2
     THEN /\ state' = "crc2"
          /\ IF left' > 0 THEN UNCHANGED <<running, status>>
             ELSE Return("INSUFFICIENT_DATA")
     ELSE /\ state' = "finished"
          /\ Return(IF frame'.crc = FrameCRC(frame) THEN "VALID_FRAME"
                    ELSE "INVALID_CRC")
  /\ UNCHANGED <<deviceVars, avail, event, saved, delivered>>

\* The two CRC bytes of a frame of a virtual interface add up to the CRC.
SecondCrcField ==
  /\ state = "crc2" /\ Enough(1) /\ Consume(1) /\ state' = "finished"
  /\ Return(IF Xor(frame.crc, FrameCRC(frame)) = Field(1)[1] THEN "VALID_FRAME"
            ELSE "INVALID_CRC")
  /\ UNCHANGED <<deviceVars, avail, event, saved, frame, delivered>>

\* QueueDataVerification, refusing a frame that fills what is left.
QueueDataVerificationStrict ==
  /\ left >= HeaderSize + MaxCrcSize
  /\ LET p == Peek(queue, HeaderSize) IN
       p[1] = SYNC =>
         left > Uint8(HeaderSize + MaxCrcSize
                        + Length(SubSeq(p, 4, HeaderSize)))

\* QueueDataVerification, after a valid frame: are the bytes left likely to hold
\* another one?
QueueDataVerification ==
  /\ left >= HeaderSize + MaxCrcSize
  /\ LET p == Peek(queue, HeaderSize) IN
       p[1] = SYNC =>
         left >= Uint8(HeaderSize + MaxCrcSize
                         + Length(SubSeq(p, 4, HeaderSize)))

\* Going on while there are bytes, too few for the next field or not.
KeepGoingWhileBytes == left # 0
KeepGoing ==
  CASE status = "INSUFFICIENT_DATA" -> FALSE
    [] status = "VALID_FRAME"       -> left # 0 /\ QueueDataVerification
    [] OTHER                        -> left # 0

\* Back in FramerThreadRoutine: the consumed bytes are taken off the count, a
\* valid frame goes to the observers, and the thread wakes itself if it may
\* find more to do.
Handle ==
  /\ status # "none" /\ status' = "none"
  /\ avail' = IF avail < saved - left THEN avail ELSE avail - (saved - left)
  /\ IF status = "VALID_FRAME"
     THEN /\ delivered' = Append(delivered, <<frame.og, frame.oc, frame.data>>)
          /\ frame' = NoFrame
     ELSE UNCHANGED <<delivered, frame>>
  /\ event' = IF KeepGoing THEN event + 1 ELSE event
  /\ state' = IF state = "finished" THEN "junk" ELSE state
  /\ UNCHANGED <<deviceVars, queue, running, left, saved>>

Dispatch ==
  \/ JunkData \/ InsufficientData \/ SyncField \/ OpGroupField \/ OpCodeField
  \/ LengthField \/ DataField \/ CrcField \/ SecondCrcField

Device == PutChunk \/ SignalChunk
Framer == Wake \/ Dispatch \/ Handle
Next   == Device \/ Framer

Spec     == Init /\ [][Next]_vars
FairSpec == Spec /\ WF_vars(SignalChunk) /\ WF_vars(Framer)

-----------------------------------------------------------------------------
(* Correctness.                                                            *)

\* The values each part of the state may have.
TypeOK ==
  /\ board \in Boards /\ IsSuffix(toRead, board.bytes) /\ chunks \in 0 .. MaxChunks
  /\ announce \in BOOLEAN /\ running \in BOOLEAN
  /\ queue \in Seq(Seq(Byte) \ {<<>>}) /\ avail \in Nat /\ event \in Nat
  /\ state \in {"junk", "sync", "og", "oc", "length", "data", "crc", "crc2",
                "finished"}
  /\ frame.og \in Byte /\ frame.oc \in Byte /\ frame.length \in Nat
  /\ frame.data \in Seq(Byte) /\ frame.crc \in Byte /\ frame.new \in BOOLEAN
  /\ left \in Int /\ saved \in Nat
  /\ status \in {"none", "INSUFFICIENT_DATA", "JUNK_DATA", "VALID_FRAME",
                 "INVALID_CRC"}

\* The bytes of board b from i on taken for a frame.
Part(b, i, n)  == SubSeq(b.bytes, i, i + n - 1)
Header(b)      == 3 + b.lengthSize
LengthAt(b, i) == IF b.lengthSize = 1 THEN b.bytes[i + 3] ELSE Read16(Part(b, i + 3, 2))
EndAt(b, i)    == i + Header(b) + LengthAt(b, i) + b.crcSize
FrameAt(b, i)  == <<b.bytes[i + 1], b.bytes[i + 2], Part(b, i + Header(b), LengthAt(b, i))>>
ValidAt(b, i)  == CalculateCRC(Part(b, i + 1, Header(b) - 1 + LengthAt(b, i)))
                    = CalculateCRC(Part(b, i + Header(b) + LengthAt(b, i), b.crcSize))
Overlong(b, g, i) ==
  i + Header(b) <= g + 1 /\ b.bytes[i] = SYNC /\ LengthAt(b, i) > MTU

\* What the first g bytes of b read as from each of them on: the frames, by definition, and
\* whether one has the header of an overlong frame right behind it.  Skip to a SYNC; a length
\* over the MTU or a wrong CRC drops the bytes seen so far.
Nothing == [frames |-> <<>>, halts |-> FALSE]
Read(b, g) ==
  LET From[i \in 1 .. g + 1] ==
        IF i > g THEN Nothing
        ELSE IF b.bytes[i] # SYNC THEN From[i + 1]
        ELSE IF i + Header(b) > g + 1 THEN Nothing
        ELSE IF LengthAt(b, i) > MTU THEN From[i + Header(b)]
        ELSE IF EndAt(b, i) > g + 1 THEN Nothing
        ELSE IF ~ValidAt(b, i) THEN From[EndAt(b, i)]
        ELSE [frames |-> <<FrameAt(b, i)>> \o From[EndAt(b, i)].frames,
              halts  |-> Overlong(b, g, EndAt(b, i)) \/ From[EndAt(b, i)].halts]
  IN From

\* What the bytes received so far read as.
Readings == [b \in Boards |-> [g \in 0 .. Len(b.bytes) |-> Read(b, g)[1]]]
Received == Readings[board][Len(board.bytes) - Len(toRead)]

Idle == ~announce /\ event = 0 /\ ~running /\ status = "none"

\* However the bytes are cut into chunks and whenever the chunks arrive, the
\* observers get the frames of the bytes received, in order, and when both threads
\* wait they have got all of them: no whole frame lies in the queue unannounced, but behind
\* the header of an overlong frame that came right behind a frame.
ParsesStream ==
  /\ IsPrefix(delivered, Received.frames)
  /\ Idle /\ ~Received.halts => delivered = Received.frames

\* cAvailableData is the number of bytes queued, those the running dispatch has
\* taken included: the silent refusal in MessageQueueDecrementSize never happens.
SizeMatches ==
  avail = Len(Bytes(queue))
            + (IF running \/ status # "none" THEN saved - left ELSE 0)

\* The framer thread does not wake itself for ever: it comes to wait for bytes
\* however the last ones end, in the middle of a frame, in junk or in a frame whose
\* data looks like the start of another.
FramerSettles == []<>Idle

=============================================================================
