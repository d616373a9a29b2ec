--------------------------- MODULE WebSocketFrame ---------------------------
(***************************************************************************)
(* QWebSocketFrame, and how QWebSocketPrivate writes frames.               *)
(*                                                                         *)
(* A frame travels as units, each of which readFrame reads at once: the    *)
(* header of two bytes, the extended length, the masking key, and the      *)
(* payload, for all of which it waits.  Sizes are scaled: Short stands for *)
(* 125, the largest length that the header itself can hold, Medium for     *)
(* 65535.  A byte is a letter; "lead" and "trail" are the two bytes of one *)
(* character in UTF-8.                                                     *)
(***************************************************************************)
EXTENDS Naturals, Sequences, SequencesExt

CONSTANTS
  Short,       \* 125
  Medium,      \* 65535
  TopBit,      \* 2^63
  FrameSize,   \* FRAME_SIZE_IN_BYTES, the largest payload that is written
  MaxFrame,    \* MAX_FRAME_SIZE_IN_BYTES, the largest payload that is read
  MaxMessage   \* MAX_MESSAGE_SIZE_IN_BYTES

ASSUME SizesAssumption ==
  /\ Short \in Nat /\ Medium \in Nat /\ TopBit \in Nat
  /\ FrameSize \in Nat \ {0} /\ MaxFrame \in Nat /\ MaxMessage \in Nat
  /\ Short < Medium /\ Medium < TopBit /\ FrameSize <= MaxFrame

OpContinue == 0
OpText == 1
OpBinary == 2
OpClose == 8
OpPing == 9
OpPong == 10

isOpCodeReserved(code) == (code > OpBinary /\ code < OpClose) \/ code > OpPong
isControlFrame(code) == code >= OpClose

(* The close codes that occur here, with their numbers. *)
Number == [low |-> 999, normal |-> 1000, goingAway |-> 1001, protocolError |-> 1002,
           reserved |-> 1004, missing |-> 1005, wrongDatatype |-> 1007,
           tooMuchData |-> 1009, unassigned |-> 1012, private |-> 4000]

isCloseCodeValid(code) ==
  /\ Number[code] > 999 /\ Number[code] < 5000
  /\ Number[code] \notin {1004, 1005, 1006}
  /\ Number[code] >= 3000 \/ Number[code] < 1012
-----------------------------------------------------------------------------
(* The values 126 and 127 of the length field. *)
Extended == Short + 1
Big == Short + 2

lengthField(n) == IF n <= Short THEN n ELSE IF n <= Medium THEN Extended ELSE Big

(* A masking key of zero means that the frame has none. *)
getFrameHeader(opCode, n, key, last) ==
  <<[unit |-> "header", final |-> last, rsv |-> FALSE, opCode |-> opCode,
     length |-> lengthField(n), hasMask |-> key # 0]>>
  \o (IF n <= Short THEN << >> ELSE <<[unit |-> "length", size |-> n]>>)
  \o (IF key = 0 THEN << >> ELSE <<[unit |-> "mask", key |-> key]>>)

Payload(data, key) ==
  IF data = << >> THEN << >> ELSE <<[unit |-> "payload", data |-> data, key |-> key]>>

(* What mask() makes of a masked payload with the key of the frame. *)
Unmasked(payload, key) ==
  IF payload.key = key THEN payload.data ELSE [i \in DOMAIN payload.data |-> "garbage"]

Frame(opCode, data, key, last) ==
  getFrameHeader(opCode, Len(data), key, last) \o Payload(data, key)

numFrames(data) ==
  IF data = << >> THEN 1 ELSE (Len(data) + FrameSize - 1) \div FrameSize

(* The frames of a message; key[i] masks the i-th. *)
Frames(data, isBinary, key) ==
  LET n == numFrames(data)
      Part(i) == SubSeq(data, (i - 1) * FrameSize + 1,
                        IF i = n THEN Len(data) ELSE i * FrameSize)
      opCode(i) == IF i > 1 THEN OpContinue ELSE IF isBinary THEN OpBinary ELSE OpText
  IN FlattenSeq([i \in 1 .. n |-> Frame(opCode(i), Part(i), key[i], i = n)])

(* The frame that close() writes. *)
CloseFrame(code, reason, key) == Frame(OpClose, <<"code", code>> \o reason, key, TRUE)
-----------------------------------------------------------------------------
(***************************************************************************)
(* readFrame.  The state of the reader: where it is, and what it knows of  *)
(* the frame.  A frame with an error is an invalid frame.                  *)
(***************************************************************************)
NewFrame == [at |-> "header", opCode |-> OpContinue, final |-> TRUE, field |-> 0,
             size |-> 0, hasMask |-> FALSE, key |-> 0, payload |-> << >>, error |-> "none"]

setError(code) == [NewFrame EXCEPT !.at = "dispatch", !.error = code]

checkValidity(h) ==
  /\ ~ h.rsv
  /\ ~ isOpCodeReserved(h.opCode)
  /\ isControlFrame(h.opCode) => h.length <= Short /\ h.final

(* Where the reader goes when it knows the length: nothing is read of an   *)
(* empty payload, nor of one that is too large.                            *)
ReadPayloadOf(f) ==
  IF f.size = 0 THEN [f EXCEPT !.at = "dispatch"]
  ELSE IF f.size > MaxFrame THEN setError("tooMuchData")
  ELSE [f EXCEPT !.at = "payload"]

LengthKnown(f) == IF f.hasMask THEN [f EXCEPT !.at = "mask"] ELSE ReadPayloadOf(f)

ReadHeader(h) ==
  LET f == [NewFrame EXCEPT !.opCode = h.opCode, !.final = h.final, !.field = h.length,
                            !.size = h.length, !.hasMask = h.hasMask]
  IN IF ~ checkValidity(h) THEN setError("protocolError")
     ELSE IF h.length > Short THEN [f EXCEPT !.at = "length"]
     ELSE LengthKnown(f)

(* The length must not fit a shorter field, nor have its top bit set. *)
ReadLength(f, u) ==
  IF u.size <= (IF f.field = Extended THEN Short ELSE Medium) \/ u.size >= TopBit
  THEN setError("protocolError")
  ELSE LengthKnown([f EXCEPT !.size = u.size])

ReadUnit(f, u) ==
  IF f.at = "header" THEN ReadHeader(u)
  ELSE IF f.at = "length" THEN ReadLength(f, u)
  ELSE IF f.at = "mask" THEN ReadPayloadOf([f EXCEPT !.key = u.key])
  ELSE [f EXCEPT !.at = "dispatch", !.payload = Unmasked(u, f.key)]
=============================================================================
