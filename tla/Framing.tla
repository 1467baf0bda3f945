------------------------------ MODULE Framing ------------------------------
(***************************************************************************)
(* Cutting a connection into packets (internal/protocol, packet.go:        *)
(* ReadPacketBounded, readLineBounded, discardLine): a packet is a line,   *)
(* and a line that is too long is skipped so that the next one can be      *)
(* read.  The reader hands out slices: up to the end of the line, or as    *)
(* much as its buffer holds.                                               *)
(*                                                                         *)
(* Abstracted: contents.  A line is its length, newline included; a line   *)
(* of length 1 is empty but for its newline.                               *)
(***************************************************************************)
EXTENDS Naturals, Sequences

CONSTANTS
    BufSize,   \* size of the buffer of the bufio.Reader
    LineLimit, \* MaxPacketSize
    MaxLength, \* bound: length of a line
    MaxLines   \* bound: lines of a connection

ASSUME FramingAssumption ==
    /\ BufSize \in Nat \ {0} /\ LineLimit \in Nat
    /\ MaxLength \in Nat /\ MaxLines \in Nat

VARIABLES
    input,     \* lengths of the lines the peer sends
    cut,       \* the last line is cut off: its newline never arrives
    lineNo,    \* line the reader is in
    offset,    \* bytes of that line it has handed out
    lineHeld,  \* length of what readLineBounded has collected
    framingAt, \* "collect", "discard", or "ended"
    packets    \* per packet returned: the line it began in and its length

framingVars == <<input, cut, lineNo, offset, lineHeld, framingAt, packets>>

FramingInit ==
    /\ input \in UNION {[1..n -> 1..MaxLength] : n \in 1..MaxLines}
    /\ cut \in BOOLEAN
    /\ lineNo = 1 /\ offset = 0 /\ lineHeld = 0
    /\ framingAt = "collect" /\ packets = <<>>

-----------------------------------------------------------------------------
(* What ReadSlice returns next: a slice ends at a newline or fills the     *)
(* buffer; there is none when the connection is at its end.                *)
AtEnd     == lineNo > Len(input)
Unread    == input[lineNo] - offset
ChunkSize == IF Unread < BufSize THEN Unread ELSE BufSize
ChunkEnds == offset + ChunkSize = input[lineNo]
Broken    == ChunkEnds /\ cut /\ lineNo = Len(input)

Advance ==
    IF ChunkEnds THEN lineNo' = lineNo + 1 /\ offset' = 0
                 ELSE lineNo' = lineNo /\ offset' = offset + ChunkSize

AfterOversized_Always == "discard"

(* discardLine returns at once when the slice held the newline.            *)
AfterOversized == IF ChunkEnds THEN "collect" ELSE "discard"

(* ReadPacketBounded: a whole line becomes a packet.                       *)
ReturnPacket(size) == packets' = Append(packets, [line |-> lineNo, size |-> size])

(* One round of readLineBounded.                                           *)
Collect ==
    /\ framingAt = "collect" /\ ~AtEnd
    /\ Advance
    /\ IF ChunkSize > LineLimit - lineHeld
       THEN /\ lineHeld' = 0 /\ framingAt' = IF Broken THEN "ended" ELSE AfterOversized
            /\ UNCHANGED packets
       ELSE IF Broken
       THEN lineHeld' = 0 /\ framingAt' = "ended" /\ UNCHANGED packets
       ELSE IF ChunkEnds
       THEN /\ lineHeld' = 0
            /\ ReturnPacket(lineHeld + ChunkSize)
            /\ UNCHANGED framingAt
       ELSE lineHeld' = lineHeld + ChunkSize /\ UNCHANGED <<framingAt, packets>>
    /\ UNCHANGED <<input, cut>>

(* One round of discardLine.                                               *)
Discard ==
    /\ framingAt = "discard" /\ ~AtEnd
    /\ Advance
    /\ framingAt' = IF Broken THEN "ended" ELSE IF ChunkEnds THEN "collect" ELSE "discard"
    /\ UNCHANGED <<input, cut, lineHeld, packets>>

(* The end of the connection.                                              *)
FramingEnds ==
    /\ framingAt # "ended" /\ AtEnd
    /\ framingAt' = "ended"
    /\ UNCHANGED <<input, cut, lineNo, offset, lineHeld, packets>>

FramingNext == Collect \/ Discard \/ FramingEnds

FramingSpec == FramingInit /\ [][FramingNext]_framingVars

-----------------------------------------------------------------------------
(* Properties.                                                             *)

FramingTypeOK ==
    /\ lineNo \in 1..(MaxLines + 1) /\ offset \in 0..MaxLength
    /\ lineHeld \in 0..LineLimit
    /\ framingAt \in {"collect", "discard", "ended"}
    /\ \A i \in DOMAIN packets : packets[i].line \in 1..MaxLines

(* The packets of a connection are exactly its complete lines that are not *)
(* too long, whole and in order, wherever the slices of the reader fall: a *)
(* line that is too long costs no other line, and no part of it is taken   *)
(* for a packet.                                                           *)
FramedLines ==
    LET Whole(n) == input[n] <= LineLimit /\ ~(cut /\ n = Len(input))
        done == {n \in DOMAIN input : n < lineNo}
    IN  /\ {packets[i].line : i \in DOMAIN packets} = {n \in done : Whole(n)}
        /\ \A i \in DOMAIN packets :
            /\ packets[i].size = input[packets[i].line]
            /\ i > 1 => packets[i - 1].line < packets[i].line

=============================================================================
