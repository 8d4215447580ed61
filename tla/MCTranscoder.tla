----------------------------- MODULE MCTranscoder -----------------------------
(* AP with uploads of up to MaxPackets packets of up to two frames, some       *)
(* corrupt, for decoders that withhold no frame or one, and one upload with    *)
(* two streams; and AudioProcessor with recordings of up to three packets.     *)
(* Each behaviour is of one of the two processors, the other has ended; they   *)
(* share the module of the output buffer, of which each has one.               *)
EXTENDS Transcoder, AudioProcessor

CONSTANTS MaxPackets, MaxRecorded

MCByte == 0 .. 2 * MaxPackets + 1
MCTrailer == 2 * MaxPackets + 1
MCGarbage == 2 * MaxPackets + 2
MCUploads ==
    [streams : {1}, packets : BoundedSeq(Corrupt..2, MaxPackets), lag : {0, 1}]
    \cup {[streams |-> 2, packets |-> <<1>>, lag |-> 0]}

SomePackets ==
    [bad : {FALSE}, frames : {<<>>, <<1>>, <<2>>, <<1, 1>>}] \cup {[bad |-> TRUE, frames |-> <<>>]}
MCRecordings ==
    [first : {"audio"}, packets : BoundedSeq(SomePackets, MaxRecorded), lag : {0, 1}]
    \cup [first : {"other", "none"}, packets : {<<>>}, lag : {0}]

NoUpload == [streams |-> 1, packets |-> <<>>, lag |-> 0]
TranscoderEnded ==
    /\ phase = "threw" /\ upload = NoUpload
    /\ ibd = <<>> /\ demux = <<>> /\ demuxed = 0
    /\ dec = <<>> /\ frame = <<>> /\ filter = <<>> /\ enc = <<>>
    /\ ended = FALSE /\ muxer = <<>>

NoRecording == [first |-> "audio", packets |-> <<>>, lag |-> 0]
ProcessorEnded ==
    /\ at = "failed" /\ recording = NoRecording
    /\ source = <<>> /\ ahead = <<>> /\ taken = 0
    /\ decoder = <<>> /\ dropped = <<>> /\ fifo = <<>>
    /\ finished = FALSE /\ pts = 0
    /\ container = <<>> /\ open = {} /\ succeeded = FALSE

AudioInit == (Init /\ ProcessorEnded) \/ (ProcessorInit /\ TranscoderEnded)
AudioNext ==
    \/ at = "failed" /\ Next /\ UNCHANGED processor
    \/ phase = "threw" /\ ProcessorNext /\ UNCHANGED tvars
AudioSpec ==
    AudioInit /\ [][AudioNext]_<<tvars, processor, buffer>> /\ WF_<<tvars, processor, buffer>>(AudioNext)
=============================================================================
