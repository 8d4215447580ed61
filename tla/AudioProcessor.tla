---------------------------- MODULE AudioProcessor ----------------------------
(***************************************************************************)
(* AudioProcessor, the second audio processor of the repository, which is   *)
(* built with it but called by no handler: execute() with the functions it *)
(* calls from opening the input to the cleanup, and its two I/O callbacks.  *)
(* It decodes to a FIFO of samples and encodes them in frames of a size of  *)
(* its own.                                                                 *)
(*                                                                         *)
(* Samples are numbered in the order of the recording; sample n becomes the *)
(* byte n of the WAV file.  FFmpeg is external and modelled as Transcoder   *)
(* models it: the decoder withholds lag frames; one that withholds more may *)
(* take the next packet or say EAGAIN, but is always told the end; PCM      *)
(* gives a packet for a frame at once; the muxer hands what it buffers to   *)
(* write_packet when it likes, and the rest with the trailer.  Any call may *)
(* fail, for lack of memory if nothing else.                                *)
(***************************************************************************)
EXTENDS OutputBuffer, SequencesExt

CONSTANTS
    Recordings,  \* what is opened: [first, packets, lag]
    FrameSize,   \* output_frame_size
    WavHeader, WavTrailer

\* A packet is one that cannot be decoded, or holds frames of some samples.
Packets == [bad : BOOLEAN, frames : Seq(Nat \ {0})]

ASSUME ProcessorAssumption ==
    /\ FrameSize \in Nat \ {0}
    /\ {WavHeader, WavTrailer} \subseteq Byte
    /\ \A r \in Recordings :
        /\ r.first \in {"audio", "other", "none"}
        /\ r.packets \in Seq(Packets)
        /\ r.lag \in Nat

VARIABLES
    at,         \* where execute() is
    recording,  \* the input
    source,     \* ibd: the packets read_packet has not handed out
    ahead,      \* packets the demuxer has read ahead
    taken,      \* how many samples the packets given to the decoder held
    decoder,    \* the frames it withholds, sequences of samples
    dropped,    \* samples that were received and not stored (history)
    fifo,
    finished,
    pts,        \* the samples encoded so far
    container,  \* bytes the muxer has not handed to write_packet
    open,       \* the contexts that are allocated
    succeeded   \* ret = 0

processor == <<at, recording, source, ahead, taken, decoder, dropped, fifo, finished,
               pts, container, open, succeeded>>
processorVars == <<processor, buffer>>

ProcessorInit ==
    /\ recording \in Recordings
    /\ at = "open_input"
    /\ source = <<>> /\ ahead = <<>> /\ taken = 0
    /\ decoder = <<>> /\ dropped = <<>> /\ fifo = <<>>
    /\ finished = FALSE /\ pts = 0
    /\ container = <<>>
    /\ open = {}
    /\ succeeded = FALSE
    /\ BufferInit

\* execute() is at this place and not inside write_packet.
Is(p) == at = p /\ writing = <<>>
GoesOn(from, to) == Is(from) /\ at' = to

-----------------------------------------------------------------------------
(* Set-up. *)

\* set_input_content and open_input_file.  The loop that looks for an audio
\* stream finds it in vain: stream_number becomes error, which is 0.
OpenInput ==
    /\ recording.first # "none"
    /\ GoesOn("open_input", "open_output")
    /\ source' = recording.packets
    /\ open' = {"input_io", "input_format", "input_codec"}
    /\ UNCHANGED <<recording, ahead, taken, decoder, dropped, fifo, finished, pts, container,
                   succeeded, buffer>>

\* streams[0] of a file without streams is no stream.
OpenInputWithoutStreams ==
    /\ recording.first = "none"
    /\ GoesOn("open_input", "crashed")
    /\ open' = {"input_io", "input_format"}
    /\ UNCHANGED <<recording, source, ahead, taken, decoder, dropped, fifo, finished, pts,
                   container, succeeded, buffer>>

\* The I/O context cannot be had, or something later fails, which closes the
\* format context; the I/O context, which is the caller's, stays.
OpenInputFails ==
    /\ GoesOn("open_input", "cleanup")
    /\ open' \in {{}, {"input_format"}, {"input_io"}}
    /\ UNCHANGED <<recording, source, ahead, taken, decoder, dropped, fifo, finished, pts,
                   container, succeeded, buffer>>

\* open_output_file, with the sample rate of the input.
OpenOutput ==
    /\ recording.first = "audio"
    /\ GoesOn("open_output", "init_resampler")
    /\ open' = open \cup {"output_io", "output_format", "output_codec"}
    /\ ResetBuffer
    /\ UNCHANGED <<recording, source, ahead, taken, decoder, dropped, fifo, finished, pts,
                   container, succeeded>>

\* No encoder opens without a sample rate, which a stream that is not audio
\* does not have.  open_output_file cleans up by avio_closep, which takes the
\* buffer for a URL context when the I/O context is a custom one; without a
\* format context it returns at once.
OpenOutputFails ==
    /\ GoesOn("open_output", "cleanup") \/ GoesOn("open_output", "crashed")
    /\ open' \in {open, open \cup {"output_io"}}
    /\ ResetBuffer
    /\ UNCHANGED <<recording, source, ahead, taken, decoder, dropped, fifo, finished, pts,
                   container, succeeded>>

InitResampler ==
    /\ GoesOn("init_resampler", "init_fifo")
    /\ open' = open \cup {"resample"}
    /\ UNCHANGED <<recording, source, ahead, taken, decoder, dropped, fifo, finished, pts,
                   container, succeeded, buffer>>

InitFifo ==
    /\ GoesOn("init_fifo", "header")
    /\ open' = open \cup {"fifo"}
    /\ UNCHANGED <<recording, source, ahead, taken, decoder, dropped, fifo, finished, pts,
                   container, succeeded, buffer>>

WriteHeader ==
    /\ GoesOn("header", "fill")
    /\ container' = <<WavHeader>>
    /\ UNCHANGED <<recording, source, ahead, taken, decoder, dropped, fifo, finished, pts,
                   open, succeeded, buffer>>

-----------------------------------------------------------------------------
(* The inner while loop: read_decode_convert_and_store. *)

Fills == Is("fill") /\ Len(fifo) < FrameSize /\ ~finished

\* read_packet, called by the demuxer, which reads ahead.
ReadAhead ==
    /\ Fills /\ ahead = <<>>
    /\ \E n \in 1..Len(source) :
        /\ ahead' = SubSeq(source, 1, n)
        /\ source' = SubSeq(source, n + 1, Len(source))
    /\ UNCHANGED <<at, recording, taken, decoder, dropped, fifo, finished, pts, container,
                   open, succeeded, buffer>>

\* The frames of a packet, as samples numbered from taken + 1.
FramesOf(p) ==
    LET before(k) == taken + FoldLeft(+, 0, SubSeq(p.frames, 1, k - 1))
    IN [k \in DOMAIN p.frames |-> [j \in 1..p.frames[k] |-> before(k) + j]]

\* Mutant: a FIFO that has grown is filled from its beginning.
DecodeFramePutsFirst ==
    /\ Fills /\ ahead # <<>>
    /\ ~Head(ahead).bad
    /\ ahead' = Tail(ahead)
    /\ taken' = taken + FoldLeft(+, 0, Head(ahead).frames)
    /\ LET ready == decoder \o FramesOf(Head(ahead))
       IN IF Len(ready) > recording.lag
          THEN decoder' = Tail(ready) /\ fifo' = Head(ready) \o fifo
          ELSE decoder' = ready /\ UNCHANGED fifo
    /\ UNCHANGED <<at, recording, source, dropped, finished, pts, container, open, succeeded,
                   buffer>>

\* av_read_frame gives a packet; one frame is received at most, converted and
\* put into the FIFO, which grows for it.
DecodeFrame ==
    /\ Fills /\ ahead # <<>>
    /\ ~Head(ahead).bad
    /\ ahead' = Tail(ahead)
    /\ taken' = taken + FoldLeft(+, 0, Head(ahead).frames)
    /\ LET ready == decoder \o FramesOf(Head(ahead))
       IN IF Len(ready) > recording.lag
          THEN decoder' = Tail(ready) /\ fifo' = fifo \o Head(ready)
          ELSE decoder' = ready /\ UNCHANGED fifo
    /\ UNCHANGED <<at, recording, source, dropped, finished, pts, container, open, succeeded,
                   buffer>>

\* av_read_frame is at the end: the decoder is told, which it never refuses, and
\* the frame it gives for it, if it withholds one, is freed, because finished is
\* looked at before data_present.
EndOfRecording ==
    /\ Fills /\ ahead = <<>> /\ source = <<>>
    /\ finished' = TRUE
    /\ IF decoder = <<>> THEN UNCHANGED <<decoder, dropped>>
       ELSE dropped' = Head(decoder) /\ decoder' = Tail(decoder)
    /\ UNCHANGED <<at, recording, source, ahead, taken, fifo, pts, container, open, succeeded,
                   buffer>>

Filled ==
    /\ Len(fifo) >= FrameSize \/ finished
    /\ GoesOn("fill", "encode")
    /\ UNCHANGED <<recording, source, ahead, taken, decoder, dropped, fifo, finished, pts,
                   container, open, succeeded, buffer>>

-----------------------------------------------------------------------------
(* Encoding. *)

HasFrame == Len(fifo) >= FrameSize \/ (finished /\ fifo # <<>>)

\* load_encode_and_write and encode_audio_frame: the encoder's packet is there
\* at once and goes to the muxer.
LoadEncodeWrite ==
    /\ Is("encode") /\ HasFrame
    /\ LET n == IF Len(fifo) < FrameSize THEN Len(fifo) ELSE FrameSize
       IN /\ container' = container \o SubSeq(fifo, 1, n)
          /\ fifo' = SubSeq(fifo, n + 1, Len(fifo))
          /\ pts' = pts + n
    /\ UNCHANGED <<at, recording, source, ahead, taken, decoder, dropped, finished, open,
                   succeeded, buffer>>

\* Back to the beginning of the outer loop, or out of it: the encoder has
\* nothing to give when it is flushed.
FifoEncoded ==
    /\ ~HasFrame
    /\ GoesOn("encode", IF finished THEN "trailer" ELSE "fill")
    /\ UNCHANGED <<recording, source, ahead, taken, decoder, dropped, fifo, finished, pts,
                   container, open, succeeded, buffer>>

\* The muxer hands some of its bytes to write_packet.
HandOut ==
    /\ at \notin {"done", "failed", "crashed"}
    /\ \E n \in 1..Len(container) :
        /\ WritePacket(SubSeq(container, 1, n))
        /\ container' = SubSeq(container, n + 1, Len(container))
    /\ UNCHANGED <<at, recording, source, ahead, taken, decoder, dropped, fifo, finished, pts,
                   open, succeeded>>

\* write_packet, which is the one of AP but for its name.
StoreChunk == (Grow \/ Copy) /\ UNCHANGED processor

WriteFileTrailer ==
    /\ GoesOn("trailer", "written")
    /\ container' = Append(container, WavTrailer)
    /\ UNCHANGED <<recording, source, ahead, taken, decoder, dropped, fifo, finished, pts,
                   open, succeeded, buffer>>

\* av_write_trailer returns when the muxer has handed out everything.
TrailerWritten ==
    /\ container = <<>>
    /\ GoesOn("written", "cleanup")
    /\ succeeded' = TRUE
    /\ UNCHANGED <<recording, source, ahead, taken, decoder, dropped, fifo, finished, pts,
                   container, open, buffer>>

-----------------------------------------------------------------------------

\* Mutant: a failure returns instead of going to the label.
StepFailsReturns ==
    /\ at \in {"init_resampler", "init_fifo", "header", "fill", "encode", "trailer"}
    /\ GoesOn(at, "failed")
    /\ UNCHANGED <<recording, source, ahead, taken, decoder, dropped, fifo, finished, pts,
                   container, open, succeeded, buffer>>

\* A step after set-up fails: a packet is bad or not taken yet, a sample
\* cannot be converted, a call gets no memory.
StepFails ==
    /\ at \in {"init_resampler", "init_fifo", "header", "fill", "encode", "trailer"}
    /\ GoesOn(at, "cleanup")
    /\ UNCHANGED <<recording, source, ahead, taken, decoder, dropped, fifo, finished, pts,
                   container, open, succeeded, buffer>>

\* The label cleanup.  execute() returns nothing, and ret is lost.
ProcessorCleanup ==
    /\ GoesOn("cleanup", IF succeeded THEN "done" ELSE "failed")
    /\ open' = open \ {"fifo", "resample", "output_codec", "input_codec", "input_format"}
    /\ UNCHANGED <<recording, source, ahead, taken, decoder, dropped, fifo, finished, pts,
                   container, succeeded, buffer>>

SetUp == OpenInput \/ OpenInputWithoutStreams \/ OpenInputFails \/ OpenOutput \/ OpenOutputFails
         \/ InitResampler \/ InitFifo \/ WriteHeader

Encode == LoadEncodeWrite \/ FifoEncoded \/ WriteFileTrailer \/ TrailerWritten

ProcessorNext ==
    \/ SetUp
    \/ ReadAhead \/ DecodeFrame \/ EndOfRecording \/ Filled
    \/ Encode \/ HandOut \/ StoreChunk
    \/ StepFails \/ ProcessorCleanup

ProcessorSpec == ProcessorInit /\ [][ProcessorNext]_processorVars

-----------------------------------------------------------------------------
(* Properties *)

\* Nothing of the recording is lost, repeated or overtaken while it is encoded.
SamplesConserved ==
    at \in {"fill", "encode", "trailer"} =>
        written \o writing \o container \o fifo \o dropped \o FlattenSeq(decoder)
            = <<WavHeader>> \o [n \in 1..taken |-> n]

\* The timestamp of the next frame is the number of samples in the file.
TimestampExact ==
    at \in {"fill", "encode", "trailer"} => Len(written \o writing \o container) = pts + 1

Withheld == dropped \o FlattenSeq(decoder)

\* A file that was written without an error holds every sample but those of the
\* frames the decoder had not given at the end; these are lag at most when no
\* packet holds more than one.
RecordingComplete ==
    at = "done" =>
        /\ OutputContent = <<WavHeader>> \o [n \in 1..taken - Len(Withheld) |-> n] \o <<WavTrailer>>
        /\ (\A k \in 1..Len(recording.packets) : Len(recording.packets[k].frames) <= 1) =>
            Len(decoder) + (IF dropped = <<>> THEN 0 ELSE 1) <= recording.lag
        /\ source = <<>> /\ ahead = <<>>

\* Whatever the sizes of the decoder's frames and of the frames that are
\* encoded, the samples go through the FIFO once and in order, each with its
\* own timestamp, and the file holds all but what the decoder withheld.
SamplesExact == SamplesConserved /\ TimestampExact /\ RecordingComplete

InputContexts == {"input_format", "input_codec"}
OutputContexts == {"output_format", "output_codec"}

\* Every phase has the contexts it uses, and whatever failed, and where, the
\* cleanup leaves none but the two I/O contexts and the output's format
\* context, which nothing frees.
ContextsHeld ==
    /\ at \in {"open_output", "init_resampler", "init_fifo", "fill"} => InputContexts \subseteq open
    /\ at \in {"init_resampler", "init_fifo", "header", "fill", "encode", "trailer"} =>
        OutputContexts \subseteq open
    /\ at \in {"fill", "encode"} => {"fifo", "resample"} \subseteq open
    /\ at \in {"done", "failed"} => open \subseteq {"input_io", "output_io", "output_format"}
=============================================================================
