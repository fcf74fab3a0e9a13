------------------------------- MODULE RxRing -------------------------------
(***************************************************************************)
(* DLL_aucMessageInputBuffer of dbusdll.c, the ring buffer between the     *)
(* receive interrupt and the presentation layer, as operators on a record. *)
(* A stored message occupies its length byte, its address and its data,    *)
(* rounded up to an even size; it is never split at the end of the buffer: *)
(* what is left there is skipped, marked by a dummy length if there is any.*)
(*                                                                         *)
(* Only the length byte of a message is kept, other bytes are Data.        *)
(***************************************************************************)
EXTENDS Naturals

CONSTANTS
    BufferLength,   \* ucInputBufferLength, 0x32 or 0x50 in dbusdll.h
    ByteMod,        \* values of an uint8_t, 256 in the code
    Lengths         \* length bytes that frames on the bus begin with

ASSUME RxRingAssumption ==
    /\ BufferLength \in Nat /\ BufferLength >= 4 /\ BufferLength % 2 = 0
    /\ ByteMod \in Nat /\ ByteMod > BufferLength + 2
    /\ Lengths \subseteq 2 .. (ByteMod - 2)

Overhead == 2                       \* BUS_MESSAGE_OVERHEAD
Dummy == ByteMod - 1                \* DLL_DUMMY_MESSAGE_MESG_LEN
Data == 0                           \* a byte that is no length
Byte == 0 .. (ByteMod - 1)
Plus(a, b) == (a + b) % ByteMod
Minus(a, b) == (a + ByteMod - b) % ByteMod
Even(n) == n + (n % 2)              \* DLL_ALIGNMENT_BASE

Ring ==
    [cell  : [0 .. (BufferLength - 1) -> Byte],
     count : Byte,                  \* DLL_ucCharactersInRxMessageBuffer
     write : 0 .. BufferLength,     \* DLL_ucRxMessageToWrite
     chars : 0 .. BufferLength,     \* DLL_ucRxCharToWrite
     read  : 0 .. BufferLength,     \* DLL_ucRxNextCharacterToRead
     len   : Byte]                  \* DLL_ucDataLengthOfReceivedMessage

EmptyRing ==
    [cell |-> [i \in 0 .. (BufferLength - 1) |-> Data],
     count |-> 0, write |-> 0, chars |-> 0, read |-> 0, len |-> 0]

-----------------------------------------------------------------------------
(* The receive interrupt writes.                                           *)

Gap(r) == BufferLength - r.write

\* A frame with rxDataLen bytes to come does not fit before the end of the
\* buffer: skip the rest.  Nothing asks whether that rest is occupied.
Wrap(r, rxDataLen) ==
    IF rxDataLen <= Gap(r) THEN r
    ELSE [r EXCEPT !.cell  = IF Gap(r) > 0 THEN [@ EXCEPT ![r.write] = Dummy] ELSE @,
                   !.count = Plus(@, Gap(r)),
                   !.write = 0]

\* The dummy length is written over the length of the oldest unread message.
WrapOverwrites(r, rxDataLen) ==
    rxDataLen > Gap(r) /\ Gap(r) > 0 /\ r.write = r.read /\ r.count = BufferLength

\* Mutant of HasRoom: only the space before the end of the buffer is asked for.
HasRoomAtEnd(r, rxDataLen) == Minus(rxDataLen, Overhead) <= Gap(r)

HasRoom(r, rxDataLen) ==
    /\ r.count <= BufferLength - Overhead
    /\ Minus(rxDataLen, Overhead) <= Gap(r)

\* Length and address of a frame for this node; the second value is FALSE on overflow.
StoreHeader(r, rxDataLen) ==
    LET w == Wrap(r, rxDataLen)
    IN  IF HasRoom(w, rxDataLen)
        THEN <<[w EXCEPT !.cell[w.write] = Minus(rxDataLen, Overhead),
                         !.cell[w.write + 1] = Data, !.chars = 2], TRUE>>
        ELSE <<[w EXCEPT !.chars = 0], FALSE>>

\* Mutant of IsFull: only the first two bytes are checked.
IsFullUnchecked(r) == FALSE

IsFull(r) == r.count + r.chars >= BufferLength
StoreByte(r) ==
    [r EXCEPT !.cell[r.write + r.chars] = Data, !.chars = @ + 1]

\* The frame is complete: it becomes readable.
Commit(r) ==
    [r EXCEPT !.chars = 0, !.count = Plus(@, Even(r.chars)),
              !.write = @ + Even(r.chars)]

-----------------------------------------------------------------------------
(* The presentation layer reads.                                           *)

\* DLL_ptReceiveMessage; HasMessage of the result is FALSE where it returns NULL.
Receive(r) ==
    LET skipped == [r EXCEPT !.count = Minus(@, BufferLength - r.read), !.read = 0]
        n == IF r.count # 0 /\ r.cell[r.read] = Dummy THEN skipped ELSE r
    IN  IF n.count # 0 THEN [n EXCEPT !.len = n.cell[n.read]] ELSE n
HasMessage(r) == r.count # 0

\* DLL_vReleaseDataFromReceivedMessage.
\* Mutant of MessageSize: length and address are forgotten.
MessageSizeOfData(len) == Even(len)
MessageSize(len) == Even(Plus(len, Overhead))
Flushes(r) == r.count < MessageSize(r.len)
Release(r) ==
    IF Flushes(r) THEN [r EXCEPT !.read = 0, !.count = 0]
    ELSE LET next == r.read + MessageSize(r.len)
         IN  [r EXCEPT !.count = @ - MessageSize(r.len),
                       !.read  = IF next >= BufferLength THEN 0 ELSE next]
=============================================================================
