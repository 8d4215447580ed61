----------------------------- MODULE OutputBuffer -----------------------------
(***************************************************************************)
(* output_buffer_data and AP::write_packet: a memory buffer that libavformat *)
(* writes the WAV file to, doubled until a chunk fits.  ptr is kept as its  *)
(* offset in buf; a byte of fresh memory is Garbage.                        *)
(***************************************************************************)
EXTENDS Integers, Sequences

CONSTANTS
    Byte,        \* the bytes of a file
    Garbage,     \* what malloc leaves in memory
    FirstSize    \* output_buffer_size

ASSUME OutputBufferAssumption == FirstSize \in Nat \ {0} /\ Garbage \notin Byte

VARIABLES
    buf, size, offset, room,  \* obd; buf maps 0..size-1 to bytes, offset is ptr - buf
    writing,                  \* the chunk write_packet was called with, <<>> if none
    written                   \* every byte of the chunks written so far (history)

buffer == <<buf, size, offset, room, writing, written>>

Fresh(n) == [k \in 0..n - 1 |-> Garbage]

\* obd { 0 }
BufferInit ==
    /\ buf = Fresh(0) /\ size = 0 /\ offset = 0 /\ room = 0
    /\ writing = <<>> /\ written = <<>>

\* init_output: buf.reset(av_malloc(output_buffer_size)), ptr, size, room.
ResetBuffer ==
    /\ buf' = Fresh(FirstSize)
    /\ size' = FirstSize /\ offset' = 0 /\ room' = FirstSize
    /\ UNCHANGED <<writing, written>>

WritePacket(chunk) ==
    /\ writing = <<>> /\ chunk # <<>>
    /\ writing' = chunk
    /\ UNCHANGED <<buf, size, offset, room, written>>

\* Mutant: the bytes already written are room again.
GrowForgetsOffset ==
    /\ Len(writing) > room
    /\ buf' = [k \in 0 .. 2 * size - 1 |-> IF k < size THEN buf[k] ELSE Garbage]
    /\ size' = 2 * size
    /\ room' = 2 * size
    /\ UNCHANGED <<offset, writing, written>>

\* One round of the while loop.
Grow ==
    /\ Len(writing) > room
    /\ buf' = [k \in 0 .. 2 * size - 1 |-> IF k < size THEN buf[k] ELSE Garbage]
    /\ size' = 2 * size
    /\ room' = 2 * size - offset
    /\ UNCHANGED <<offset, writing, written>>

\* fmin(buf_size, bd->size)
CopyLength == IF Len(writing) < size THEN Len(writing) ELSE size

\* Bytes past the end of buf are not bytes of buf.
Copy ==
    /\ writing # <<>> /\ Len(writing) <= room
    /\ buf' = [k \in DOMAIN buf |->
                  IF k >= offset /\ k < offset + CopyLength THEN writing[k - offset + 1] ELSE buf[k]]
    /\ offset' = offset + CopyLength
    /\ room' = room - CopyLength
    /\ written' = written \o writing
    /\ writing' = <<>>
    /\ UNCHANGED size

\* get_output_content: string(buf, size - room)
OutputContent == [k \in 1..size - room |-> buf[k - 1]]

-----------------------------------------------------------------------------
(* Properties *)

\* Whatever the sizes of the chunks, and however often the buffer has moved,
\* room and ptr agree, and what get_output_content() would return is every byte
\* libavformat has written, once, in order, none of it memory never set.
BufferExact ==
    /\ offset + room = size
    /\ OutputContent = written

=============================================================================
