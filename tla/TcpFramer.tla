----------------------------- MODULE TcpFramer -----------------------------
(***************************************************************************)
(* listener.py, _SyslogTCPFramer and _handle_tcp_client: a connection's    *)
(* bytes arrive in chunks that are cut anywhere and are framed by newlines *)
(* or by octet counts, whichever the first bytes say.  A byte is a digit   *)
(* ("0", "1"), "s" (space), "n" (newline) or "x".                          *)
(***************************************************************************)
EXTENDS Naturals, Sequences, FiniteSets, SequencesExt

CONSTANTS MaxFrame,   \* max_frame_bytes
          MaxDigits,  \* digits an octet count may have (10)
          MaxChunk,   \* bound on a chunk
          MaxStream   \* bound on the bytes of a connection
ASSUME FramerAssumption ==
  MaxFrame \in Nat \ {0} /\ MaxDigits \in Nat \ {0} /\ MaxChunk \in Nat

VARIABLES
  stream,     \* history: all the bytes of the connection so far
  buffer, mode,
  frames,     \* the frames of the feed() that is running
  eof, reading, \* feed(eof=True); the client loop is in recv()
  delivered,  \* frames handed to on_message
  broken      \* _TCPFramingError ended the connection
frameVars == <<stream, buffer, mode, frames, eof, reading, delivered, broken>>

Bytes == {"0", "1", "s", "n", "x"}
Digits == {"0", "1"}
Blank(f) == ToSet(f) \subseteq {"s", "n"}
\* how many bytes precede the first one of C
Until(b, C) == CHOOSE k \in 0..Len(b) : /\ \A i \in 1..k : b[i] \notin C
                                        /\ k < Len(b) => b[k + 1] \in C
\* the number that the digits d spell, and those that b begins with
Spelled(d) ==
  LET value[k \in 0..Len(d)] ==
        IF k = 0 THEN 0 ELSE 10 * value[k - 1] + (IF d[k] = "1" THEN 1 ELSE 0)
  IN value[Len(d)]
Prefix(b) == Until(b, Bytes \ Digits)
Count(b) == Spelled(SubSeq(b, 1, Prefix(b)))
HasCount(b) == /\ Prefix(b) \in 1..MaxDigits /\ b[1] # "0"
               /\ Prefix(b) < Len(b) /\ b[Prefix(b) + 1] = "s"
FirstLine(b) == Until(b, {"n"})
HasLine(b) == FirstLine(b) < Len(b)

FrameInit ==
  /\ stream = <<>> /\ buffer = <<>> /\ mode = "none" /\ frames = <<>>
  /\ eof = FALSE /\ reading = TRUE /\ delivered = <<>> /\ broken = FALSE

\* _select_mode: wait for the end of a number, at most MaxDigits long
UndecidedNever(b, atEnd) == FALSE           \* mutant: decided by the first byte
Undecided(b, atEnd) ==
  /\ b[1] \in Digits /\ ~HasLine(b) /\ ~atEnd
  /\ Prefix(b) = Until(b, {"s"}) /\ Prefix(b) <= MaxDigits
Selected(b, atEnd) ==
  IF mode # "none" \/ b = <<>> THEN mode
  ELSE IF HasCount(b) THEN "octet"
  ELSE IF Undecided(b, atEnd) THEN "none" ELSE "newline"
\* recv() returns a chunk, or none at the end of the connection
Recv ==
  /\ reading /\ ~eof /\ reading' = FALSE
  /\ \E n \in 0..MaxChunk : \E chunk \in [1..n -> Bytes] :
       /\ Len(stream) + n <= MaxStream
       /\ stream' = stream \o chunk /\ buffer' = buffer \o chunk
       /\ eof' = (n = 0) /\ mode' = Selected(buffer', eof')
  /\ UNCHANGED <<frames, delivered, broken>>

Cut(n, m) == /\ frames' = IF Blank(SubSeq(buffer, n, m)) THEN frames
                          ELSE Append(frames, SubSeq(buffer, n, m))
             /\ UNCHANGED <<stream, mode, eof, reading, delivered, broken>>
\* one turn of the octet loop, and of the newline loop
OctetReady == /\ mode = "octet" /\ HasCount(buffer) /\ Count(buffer) <= MaxFrame
              /\ Prefix(buffer) + 1 + Count(buffer) <= Len(buffer)
Octet ==
  LET n == Prefix(buffer) + 2  m == n + Count(buffer) - 1 IN
  /\ ~reading /\ OctetReady
  /\ Cut(n, m) /\ buffer' = SubSeq(buffer, m + 1, Len(buffer))
LineReady == mode = "newline" /\ HasLine(buffer) /\ FirstLine(buffer) <= MaxFrame
Line ==
  LET m == FirstLine(buffer) IN
  /\ ~reading /\ LineReady
  /\ Cut(1, m) /\ buffer' = SubSeq(buffer, m + 2, Len(buffer))
LastReady == /\ mode = "newline" /\ eof /\ ~HasLine(buffer)
             /\ ~Blank(buffer) /\ Len(buffer) <= MaxFrame
LastLine ==
  /\ ~reading /\ LastReady
  /\ Cut(1, Len(buffer)) /\ buffer' = <<>>

OctetError == \/ ~HasCount(buffer) /\ buffer # <<>> /\ (eof \/ Len(buffer) > MaxDigits + 1)
              \/ HasCount(buffer) /\ Count(buffer) > MaxFrame
              \/ HasCount(buffer) /\ eof /\ Prefix(buffer) + 1 + Count(buffer) > Len(buffer)
LineError == FirstLine(buffer) > MaxFrame
Invalid == \/ mode = "octet" /\ OctetError
           \/ mode = "newline" /\ LineError
           \/ mode = "none" /\ Len(buffer) > MaxFrame + MaxDigits + 1
\* _TCPFramingError: the frames of this feed() are lost with it
Break ==
  /\ ~reading /\ Invalid /\ ~broken
  /\ broken' = TRUE
  /\ UNCHANGED <<stream, buffer, mode, frames, eof, reading, delivered>>
\* feed() returns its frames
Return ==
  /\ ~reading /\ ~Invalid /\ ~OctetReady /\ ~LineReady /\ ~LastReady
  /\ delivered' = delivered \o frames /\ frames' = <<>> /\ reading' = TRUE
  /\ UNCHANGED <<stream, buffer, mode, eof, broken>>

FrameNext == Recv \/ Octet \/ Line \/ LastLine \/ Break \/ Return
FrameSpec == FrameInit /\ [][FrameNext]_frameVars

FrameTypeOK ==
  /\ stream \in Seq(Bytes) /\ IsSuffix(buffer, stream)
  /\ reading => Len(buffer) <= MaxFrame + MaxDigits + 1
  /\ mode \in {"none", "octet", "newline"} /\ frames \in Seq(Seq(Bytes))
  /\ delivered \in Seq(Seq(Bytes)) /\ {eof, reading, broken} \subseteq BOOLEAN

\* The reference: the frames of a whole stream, without chunks.
Rest(r, n) == SubSeq(r, n + 1, Len(r))
NonBlank(f) == IF Blank(f) THEN <<>> ELSE <<f>>
Counted(r) == HasCount(r) /\ Count(r) <= MaxFrame /\ Prefix(r) + 1 + Count(r) <= Len(r)
octetFrames[r \in Seq(Bytes)] ==
  IF ~Counted(r) THEN <<>>
  ELSE LET n == Prefix(r) + 1 + Count(r) IN
       NonBlank(SubSeq(r, Prefix(r) + 2, n)) \o octetFrames[Rest(r, n)]
lineFrames[r \in Seq(Bytes)] ==
  IF r = <<>> \/ FirstLine(r) > MaxFrame THEN <<>>
  ELSE NonBlank(SubSeq(r, 1, FirstLine(r))) \o lineFrames[Rest(r, FirstLine(r) + 1)]
Frames(s) == IF HasCount(s) THEN octetFrames[s] ELSE lineFrames[s]

(* However the stream is cut into chunks, what is handed on are its first   *)
(* frames in their order, never a part of one ...                           *)
OnlyFrames == IsPrefix(delivered, Frames(stream))
(* ... and all of them, unless the stream breaks a framing rule.            *)
AllFrames == eof /\ reading => delivered = Frames(stream)
(* Framing does not depend on how the stream is cut.                        *)
FramesExact == OnlyFrames /\ AllFrames
=============================================================================
