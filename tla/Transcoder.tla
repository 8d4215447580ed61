------------------------------ MODULE Transcoder ------------------------------
(***************************************************************************)
(* AP, the audio processor behind the decode and files endpoints: process() *)
(* with init_input, init_output, init_filters, filter_encode_write and      *)
(* encode_write, and its two I/O callbacks.                                 *)
(*                                                                          *)
(* Samples are cut into frames, numbered in the order of the upload; frame  *)
(* n becomes the byte n of the WAV file, between a header and a trailer     *)
(* byte.  FFmpeg is external and modelled by what AP can see of it:         *)
(*   - the demuxer reads ahead through read_packet, one packet per block,   *)
(*     and av_read_frame may fail at any packet;                            *)
(*   - the decoder withholds lag frames; one that withholds more, because a *)
(*     packet held several, may take the next packet or say EAGAIN;         *)
(*   - the filter (anull and what the sink's formats add) may hold frames   *)
(*     back until it is told the end;                                       *)
(*   - the encoder AP opens, PCM, gives a packet for each frame at once;    *)
(*   - the muxer hands what it buffers to write_packet when it likes, and   *)
(*     the rest with the trailer.                                           *)
(***************************************************************************)
EXTENDS OutputBuffer, SequencesExt

CONSTANTS
    Uploads,    \* what is uploaded: [streams, packets, lag]
    BlockSize,  \* avio_ctx_buffer_size, in packets
    Header, Trailer

\* A packet is the number of frames it holds, or Corrupt.
Corrupt == -1

ASSUME TranscoderAssumption ==
    /\ BlockSize \in Nat \ {0}
    /\ Uploads \subseteq [streams : Nat \ {0}, packets : Seq(Nat \cup {Corrupt}), lag : Nat]
    /\ {Header, Trailer} \subseteq Byte

VARIABLES
    phase,    \* where process() is
    upload,   \* the upload being transcoded
    ibd,      \* ibd: the packets read_packet has not handed out
    demux,    \* packets the demuxer has read ahead
    demuxed,  \* how many frames the packets taken from the demuxer held
    dec, frame, filter, enc,  \* frames in the decoder, in process(), in filter and encoder
    ended,    \* the filter has been told the end
    muxer     \* bytes the muxer has not handed to write_packet

tvars == <<phase, upload, ibd, demux, demuxed, dec, frame, filter, enc, ended, muxer>>
vars == <<tvars, buffer>>

Init ==
    /\ upload \in Uploads
    /\ phase = "init_input"
    /\ ibd = <<>> /\ demux = <<>> /\ demuxed = 0
    /\ dec = <<>> /\ frame = <<>> /\ filter = <<>> /\ enc = <<>>
    /\ ended = FALSE
    /\ muxer = <<>>
    /\ BufferInit

\* The thread is not inside write_packet.
Runs(p) == phase = p /\ writing = <<>>

Throw == phase' = "threw"

-----------------------------------------------------------------------------

\* set_input_content and init_input.  Data that holds no audio makes init_input
\* throw, or fails in avformat_open_input already: that frees the context, its
\* result is not looked at, and avformat_find_stream_info is given null.
InitInput ==
    /\ Runs("init_input")
    /\ ibd' = upload.packets
    /\ \/ upload.packets # <<>> /\ phase' = "init_output"
       \/ upload.packets = <<>> /\ (Throw \/ phase' = "crashed")
    /\ UNCHANGED <<upload, demux, demuxed, dec, frame, filter, enc, ended, muxer, buffer>>

\* init_output and init_filters.  A WAV file has one stream, the muxer refuses
\* the header of any other number.
InitOutput ==
    /\ Runs("init_output")
    /\ ResetBuffer
    /\ \/ upload.streams # 1 /\ Throw /\ UNCHANGED muxer
       \/ upload.streams = 1 /\ phase' = "read_frame" /\ muxer' = <<Header>>
    /\ UNCHANGED <<upload, ibd, demux, demuxed, dec, frame, filter, enc, ended>>

\* Called by the demuxer while it wants more: at most a block.
ReadPacket ==
    /\ Runs("read_frame")
    /\ demux = <<>> /\ ibd # <<>>
    /\ LET n == IF Len(ibd) < BlockSize THEN Len(ibd) ELSE BlockSize
       IN  demux' = SubSeq(ibd, 1, n) /\ ibd' = SubSeq(ibd, n + 1, Len(ibd))
    /\ UNCHANGED <<phase, upload, demuxed, dec, frame, filter, enc, ended, muxer, buffer>>

Frames(n) == [k \in 1..n |-> demuxed + k]

\* av_read_frame gives a packet, avcodec_send_packet and avcodec_receive_frame
\* follow: one frame is received at most, whatever the packet held.  EAGAIN of
\* avcodec_send_packet is an error like any other.
Decode ==
    /\ Runs("read_frame") /\ demux # <<>>
    /\ demux' = Tail(demux)
    /\ \/ /\ Head(demux) = Corrupt \/ Len(dec) > upload.lag
          /\ Throw
          /\ UNCHANGED <<demuxed, dec, frame>>
       \/ /\ Head(demux) # Corrupt
          /\ demuxed' = demuxed + Head(demux)
          /\ LET ready == dec \o Frames(Head(demux))
             IN  IF Len(ready) > upload.lag
                 THEN dec' = Tail(ready) /\ frame' = <<Head(ready)>> /\ phase' = "filter"
                 ELSE dec' = ready /\ UNCHANGED <<frame, phase>>
    /\ UNCHANGED <<upload, ibd, filter, enc, ended, muxer, buffer>>

\* Mutant: the filter is not flushed.
EndOfInputFlushesNothing ==
    /\ Runs("read_frame")
    /\ phase' = "trailer"
    /\ UNCHANGED <<upload, ibd, demux, demuxed, dec, frame, filter, enc, ended, muxer, buffer>>

\* av_read_frame fails: at the end of the input, or before it, with any other
\* error (data it cannot parse, no memory), which process() takes for the end.
\* The flush loop begins with filter_encode_write(NULL).
EndOfInput ==
    /\ Runs("read_frame")
    /\ ended' = TRUE
    /\ phase' = "filter"
    /\ UNCHANGED <<upload, ibd, demux, demuxed, dec, frame, filter, enc, muxer, buffer>>

\* filter_encode_write: av_buffersrc_add_frame_flags.
AddFrame ==
    /\ Runs("filter") /\ frame # <<>>
    /\ filter' = filter \o frame
    /\ frame' = <<>>
    /\ UNCHANGED <<phase, upload, ibd, demux, demuxed, dec, enc, ended, muxer, buffer>>

\* av_buffersink_get_frame gives a frame; encode_write: avcodec_send_frame,
\* whose result is not looked at: an encoder that is full loses the frame.
SinkFrame ==
    /\ Runs("filter") /\ frame = <<>> /\ filter # <<>>
    /\ filter' = Tail(filter)
    /\ enc' = IF enc = <<>> THEN <<Head(filter)>> ELSE enc
    /\ phase' = "encode"
    /\ UNCHANGED <<upload, ibd, demux, demuxed, dec, frame, ended, muxer, buffer>>

\* avcodec_receive_packet gives a packet, av_write_frame takes it.
WriteFrame ==
    /\ Runs("encode") /\ enc # <<>>
    /\ muxer' = muxer \o enc
    /\ enc' = <<>>
    /\ UNCHANGED <<phase, upload, ibd, demux, demuxed, dec, frame, filter, ended, buffer>>

\* Mutant: encode_write returns after one packet is sent, received or not.
EncoderEmptyAtOnce ==
    /\ Runs("encode")
    /\ phase' = "filter"
    /\ UNCHANGED <<upload, ibd, demux, demuxed, dec, frame, filter, enc, ended, muxer, buffer>>

\* avcodec_receive_packet says EAGAIN, encode_write returns.
EncoderEmpty ==
    /\ Runs("encode") /\ enc = <<>>
    /\ phase' = "filter"
    /\ UNCHANGED <<upload, ibd, demux, demuxed, dec, frame, filter, enc, ended, muxer, buffer>>

\* Mutant: the encoder AP opens is one with AV_CODEC_CAP_DELAY.
EncoderDelays == TRUE

\* AV_CODEC_CAP_DELAY is not among the capabilities of AV_CODEC_ID_PCM_F32LE.
CapDelay == FALSE

\* av_buffersink_get_frame says EAGAIN or EOF, filter_encode_write returns: to
\* the read loop, or to the flush loop.  There an encoder that delays is asked
\* for its last packets in while (true) encode_write(NULL), which is never left.
\* A filter that has been told the end holds nothing back.
FilterEmpty ==
    /\ Runs("filter") /\ frame = <<>>
    /\ ended => filter = <<>>
    /\ phase' = IF ~ended THEN "read_frame" ELSE IF CapDelay THEN "flush_encoder" ELSE "trailer"
    /\ UNCHANGED <<upload, ibd, demux, demuxed, dec, frame, filter, enc, ended, muxer, buffer>>

\* The muxer hands some of its bytes to write_packet.
Drain ==
    /\ phase \notin {"init_input", "init_output", "done", "threw", "crashed"}
    /\ \E n \in 1..Len(muxer) :
        /\ WritePacket(SubSeq(muxer, 1, n))
        /\ muxer' = SubSeq(muxer, n + 1, Len(muxer))
    /\ UNCHANGED <<phase, upload, ibd, demux, demuxed, dec, frame, filter, enc, ended>>

\* av_write_trailer; it returns when the muxer has handed out everything.
WriteTrailer ==
    /\ Runs("trailer")
    /\ muxer' = Append(muxer, Trailer)
    /\ phase' = "cleanup"
    /\ UNCHANGED <<upload, ibd, demux, demuxed, dec, frame, filter, enc, ended, buffer>>

Cleanup ==
    /\ Runs("cleanup") /\ muxer = <<>>
    /\ phase' = "done"
    /\ UNCHANGED <<upload, ibd, demux, demuxed, dec, frame, filter, enc, ended, muxer, buffer>>

WriteCallback == (Grow \/ Copy) /\ UNCHANGED tvars

Next ==
    \/ InitInput \/ InitOutput \/ ReadPacket \/ Decode \/ EndOfInput
    \/ AddFrame \/ SinkFrame \/ WriteFrame \/ EncoderEmpty \/ FilterEmpty
    \/ Drain \/ WriteTrailer \/ Cleanup \/ WriteCallback

Spec == Init /\ [][Next]_vars

\* process() runs on one thread and waits for nothing.
FairSpec == Spec /\ WF_vars(Next)

-----------------------------------------------------------------------------
(* Properties *)

Over == {"done", "threw", "crashed"}

WithHeader(s) == IF phase \in {"init_input", "init_output"} THEN s ELSE <<Header>> \o s

\* Every frame taken from the upload is in exactly one place, in order: behind
\* the header in the output, in the muxer, the encoder, the filter, the hands
\* of process() or the decoder; no stage drops, repeats or overtakes a frame.
FramesConserved ==
    phase \notin {"cleanup"} \cup Over =>
        written \o writing \o muxer \o enc \o filter \o frame \o dec
            = WithHeader([n \in 1..demuxed |-> n])

PacketsRead == SubSeq(upload.packets, 1, Len(upload.packets) - Len(demux \o ibd))

\* When process() returns, the response holds a header, the frames of the
\* packets that were read, in order, and a trailer; these packets are the first
\* ones of the upload, all of them unless a read error was taken for the end.
\* The only frames of theirs that are missing are the last, those the decoder,
\* which is not flushed, withholds; with a frame to a packet these are no more
\* than its delay.
FinishedIsWhole ==
    phase = "done" =>
        /\ OutputContent = <<Header>> \o [n \in 1..demuxed - Len(dec) |-> n] \o <<Trailer>>
        /\ (\A k \in 1..Len(upload.packets) : upload.packets[k] <= 1) => Len(dec) <= upload.lag
        /\ upload.packets = PacketsRead \o demux \o ibd
        /\ demuxed = FoldLeft(+, 0, PacketsRead)

\* Transcoding ends, with a file, an exception or the end of the process: no
\* worker is held for ever by an upload.
ProcessEnds == <>(phase \in Over)

=============================================================================
