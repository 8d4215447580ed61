----------------------------- MODULE AudioProofs -----------------------------
(***************************************************************************)
(* The output buffer of the transcoder is exact, for every upload, every    *)
(* first size of the buffer and every way the muxer cuts the file in        *)
(* chunks.  Flow says that what travels through the stages are sequences of *)
(* numbers and bytes, so that a chunk is one; Exact is BufferExact element  *)
(* by element, with the sizes.                                              *)
(***************************************************************************)
EXTENDS Transcoder, AudioProcessor, SequenceLemmas

\* What the muxer writes, whatever Byte is.
Cell == Nat \cup {Header, Trailer}

Flow ==
    /\ ibd \in Seq(Nat \cup {Corrupt}) /\ demux \in Seq(Nat \cup {Corrupt})
    /\ demuxed \in Nat
    /\ dec \in Seq(Nat) /\ frame \in Seq(Nat) /\ filter \in Seq(Nat) /\ enc \in Seq(Nat)
    /\ muxer \in Seq(Cell)
    /\ upload \in Uploads

\* C is what a file is made of.
Exact(C) ==
    /\ writing \in Seq(C) /\ written \in Seq(C)
    /\ size \in Nat /\ offset \in Nat /\ room \in Nat
    /\ offset + room = size
    /\ buf = [k \in 0 .. size - 1 |-> buf[k]]
    /\ Len(written) = offset
    /\ \A k \in 1..offset : buf[k - 1] = written[k]

\* Before init_output there is no buffer, and nothing is written.
Untouched == phase \in {"init_input", "init_output"} => writing = <<>> /\ written = <<>>

Inv == Flow /\ Exact(Cell) /\ Untouched

LEMMA InitInv == Init => Inv
  <1> SUFFICES ASSUME Init PROVE Inv
    OBVIOUS
  <1>1. Flow
    BY DEF Init, Flow
  <1>2. Exact(Cell)
    BY SMT DEF Init, BufferInit, Fresh, Exact
  <1>3. Untouched
    BY DEF Init, BufferInit, Untouched
  <1> QED
    BY <1>1, <1>2, <1>3 DEF Inv

LEMMA FlowStep == Flow /\ [Next]_vars => Flow'
  <1> SUFFICES ASSUME Flow, [Next]_vars PROVE Flow'
    OBVIOUS
  <1> USE DEF Flow
  <1>1. CASE InitInput
    BY <1>1, TranscoderAssumption DEF InitInput, Throw
  <1>2. CASE InitOutput
    <2>1. <<Header>> \in Seq(Cell)
      BY DEF Cell
    <2>2. muxer' \in Seq(Cell)
      BY <1>2, <2>1 DEF InitOutput
    <2> QED
      BY <1>2, <2>2 DEF InitOutput
  <1>3. CASE ReadPacket
    <2> DEFINE n == IF Len(ibd) < BlockSize THEN Len(ibd) ELSE BlockSize
    <2>1. n \in 1..Len(ibd)
      BY <1>3, TranscoderAssumption DEF ReadPacket
    <2>2. demux' = SubSeq(ibd, 1, n) /\ ibd' = SubSeq(ibd, n + 1, Len(ibd))
      BY <1>3 DEF ReadPacket
    <2> HIDE DEF n
    <2>3. demux' \in Seq(Nat \cup {Corrupt}) /\ ibd' \in Seq(Nat \cup {Corrupt})
      BY <2>1, <2>2, Cut
    <2> QED
      BY <1>3, <2>3 DEF ReadPacket
  <1>4. CASE Decode
    <2>1. demux' \in Seq(Nat \cup {Corrupt})
      BY <1>4 DEF Decode
    <2>2. demuxed' \in Nat /\ dec' \in Seq(Nat) /\ frame' \in Seq(Nat)
      <3>1. CASE UNCHANGED <<demuxed, dec, frame>>
        BY <3>1
      <3>2. CASE ~UNCHANGED <<demuxed, dec, frame>>
        <4> DEFINE h == Head(demux)
                   ready == dec \o Frames(h)
        <4>1. h \in Nat
          BY <1>4, <3>2 DEF Decode
        <4>2. demuxed' = demuxed + h
          BY <1>4, <3>2 DEF Decode
        <4>3. \/ Len(ready) > upload.lag /\ dec' = Tail(ready) /\ frame' = <<Head(ready)>>
              \/ dec' = ready /\ frame' = frame
          BY <1>4, <3>2 DEF Decode
        <4>4. Frames(h) \in Seq(Nat)
          <5>1. Frames(h) \in [1..h -> Nat]
            BY <4>1 DEF Frames
          <5> QED
            BY <4>1, <5>1, FunctionIsSequence
        <4>5. ready \in Seq(Nat)
          BY <4>4
        <4>6. upload.lag \in Nat
          BY TranscoderAssumption
        <4> HIDE DEF ready, h
        <4>7. CASE Len(ready) > upload.lag /\ dec' = Tail(ready) /\ frame' = <<Head(ready)>>
          <5>1. ready # <<>>
            BY <4>5, <4>6, <4>7
          <5>2. Head(ready) \in Nat /\ Tail(ready) \in Seq(Nat)
            BY <4>5, <5>1
          <5> QED
            BY <4>1, <4>2, <4>7, <5>2
        <4>8. CASE dec' = ready /\ frame' = frame
          BY <4>1, <4>2, <4>5, <4>8
        <4> QED
          BY <4>3, <4>7, <4>8
      <3> QED
        BY <3>1, <3>2
    <2> QED
      BY <1>4, <2>1, <2>2 DEF Decode
  <1>5. CASE EndOfInput
    BY <1>5 DEF EndOfInput
  <1>6. CASE AddFrame
    BY <1>6 DEF AddFrame
  <1>7. CASE SinkFrame
    BY <1>7 DEF SinkFrame
  <1>8. CASE WriteFrame
    <2>1. enc \in Seq(Cell)
      BY Widen, Nat \subseteq Cell DEF Cell
    <2>2. muxer \o enc \in Seq(Cell)
      BY <2>1
    <2> QED
      BY <1>8, <2>2 DEF WriteFrame
  <1>9. CASE EncoderEmpty
    BY <1>9 DEF EncoderEmpty
  <1>10. CASE FilterEmpty
    BY <1>10 DEF FilterEmpty
  <1>11. CASE Drain
    <2>1. PICK n \in 1..Len(muxer) : muxer' = SubSeq(muxer, n + 1, Len(muxer))
      BY <1>11 DEF Drain
    <2>2. muxer' \in Seq(Cell)
      BY <2>1, Cut
    <2> QED
      BY <1>11, <2>2 DEF Drain
  <1>12. CASE WriteTrailer
    BY <1>12 DEF WriteTrailer, Cell
  <1>13. CASE Cleanup
    BY <1>13 DEF Cleanup
  <1>14. CASE WriteCallback
    BY <1>14 DEF WriteCallback, tvars
  <1>15. CASE UNCHANGED vars
    BY <1>15 DEF vars, tvars
  <1> QED
    BY <1>1, <1>2, <1>3, <1>4, <1>5, <1>6, <1>7, <1>8, <1>9, <1>10, <1>11, <1>12, <1>13,
       <1>14, <1>15 DEF Next

\* The steps that leave the buffer alone.
LEMMA BufferKept == ASSUME NEW C, Exact(C), UNCHANGED buffer PROVE Exact(C)'
  BY DEF Exact, buffer

LEMMA ResetExact ==
    ASSUME NEW C, Exact(C), writing = <<>>, written = <<>>, ResetBuffer PROVE Exact(C)'
  BY OutputBufferAssumption DEF Exact, ResetBuffer, Fresh

LEMMA WritePacketExact ==
    ASSUME NEW C, Exact(C), NEW chunk \in Seq(C), WritePacket(chunk) PROVE Exact(C)'
  BY DEF Exact, WritePacket

\* Doubling keeps the bytes below the offset, which is at most the old size.
LEMMA GrowExact == ASSUME NEW C, Exact(C), Grow PROVE Exact(C)'
  <1>1. size' = 2 * size /\ room' = 2 * size - offset
        /\ UNCHANGED <<offset, writing, written>>
        /\ buf' = [k \in 0 .. 2 * size - 1 |-> IF k < size THEN buf[k] ELSE Garbage]
    BY DEF Grow
  <1>2. size' \in Nat /\ room' \in Nat /\ offset' + room' = size'
    BY <1>1 DEF Exact
  <1>3. ASSUME NEW k \in 1..offset PROVE buf'[k - 1] = written[k]
    <2>1. k - 1 \in 0 .. 2 * size - 1 /\ k - 1 < size
      BY DEF Exact
    <2>2. buf'[k - 1] = buf[k - 1]
      BY <1>1, <2>1
    <2> QED
      BY <2>2 DEF Exact
  <1>4. buf' = [k \in 0 .. size' - 1 |-> buf'[k]]
    BY <1>1 DEF Exact
  <1> QED
    BY <1>1, <1>2, <1>3, <1>4 DEF Exact

\* The chunk fits, so that CopyLength is its length and the bytes go to
\* offset .. offset + Len(writing) - 1.
LEMMA CopyExact == ASSUME NEW C, Exact(C), Copy PROVE Exact(C)'
  <1> DEFINE m == Len(writing)
  <1>1. m \in Nat /\ m <= room
    BY DEF Exact, Copy
  <1>2. CopyLength = m
    BY <1>1 DEF CopyLength, Exact
  <1>3. /\ offset' = offset + m /\ room' = room - m /\ size' = size
        /\ writing' = <<>> /\ written' = written \o writing
    BY <1>2 DEF Copy
  <1>4. buf' = [k \in 0 .. size - 1 |->
                  IF k >= offset /\ k < offset + m THEN writing[k - offset + 1] ELSE buf[k]]
    <2>1. DOMAIN buf = 0 .. size - 1
      BY DEF Exact
    <2> QED
      BY <1>2, <2>1 DEF Copy
  <1>5. written' \in Seq(C) /\ Len(written') = offset'
    BY <1>3, Joined DEF Exact
  <1>6. ASSUME NEW k \in 1..offset' PROVE buf'[k - 1] = written'[k]
    <2>1. k - 1 \in 0 .. size - 1 /\ k \in Nat
      BY <1>1, <1>3 DEF Exact
    <2>2. CASE k <= offset
      <3>1. buf'[k - 1] = buf[k - 1]
        BY <1>1, <1>4, <2>1, <2>2 DEF Exact
      <3>2. written'[k] = written[k]
        BY <1>3, <2>1, <2>2 DEF Exact
      <3> QED
        BY <2>2, <3>1, <3>2 DEF Exact
    <2>3. CASE k > offset
      <3>1. buf'[k - 1] = writing[k - offset]
        <4>1. k - 1 >= offset /\ k - 1 < offset + m /\ (k - 1) - offset + 1 = k - offset
          BY <1>1, <1>3, <2>1, <2>3, SMTT(30) DEF Exact
        <4> QED
          BY <1>4, <2>1, <4>1
      <3>2. written'[k] = writing[k - offset]
        BY <1>1, <1>3, <2>1, <2>3, SMTT(30) DEF Exact
      <3> QED
        BY <3>1, <3>2
    <2> QED
      BY <2>1, <2>2, <2>3 DEF Exact
  <1>7. buf' = [k \in 0 .. size' - 1 |-> buf'[k]]
    BY <1>3, <1>4 DEF Exact
  <1>8. offset' \in Nat /\ room' \in Nat /\ size' \in Nat /\ offset' + room' = size'
    BY <1>1, <1>3 DEF Exact
  <1>9. writing' \in Seq(C)
    BY <1>3
  <1> HIDE DEF m
  <1> QED
    BY <1>5, <1>6, <1>7, <1>8, <1>9 DEF Exact

LEMMA ExactStep == Inv /\ [Next]_vars => Exact(Cell)'
  <1> SUFFICES ASSUME Inv, [Next]_vars PROVE Exact(Cell)'
    OBVIOUS
  <1>0. Exact(Cell)
    BY DEF Inv
  <1>1. CASE InitOutput
    <2>1. writing = <<>> /\ written = <<>> /\ ResetBuffer
      BY <1>1 DEF InitOutput, Runs, Inv, Untouched
    <2> QED
      BY <1>0, <2>1, ResetExact
  <1>2. CASE Drain
    <2>1. PICK n \in 1..Len(muxer) : WritePacket(SubSeq(muxer, 1, n))
      BY <1>2 DEF Drain
    <2>2. SubSeq(muxer, 1, n) \in Seq(Cell)
      BY Cut DEF Inv, Flow
    <2> QED
      BY <1>0, <2>1, <2>2, WritePacketExact
  <1>3. CASE WriteCallback
    BY <1>0, <1>3, GrowExact, CopyExact DEF WriteCallback
  <1>4. CASE UNCHANGED buffer
    BY <1>0, <1>4, BufferKept
  <1>5. \/ InitOutput \/ Drain \/ WriteCallback \/ UNCHANGED buffer
    BY DEF Next, InitInput, ReadPacket, Decode, EndOfInput, AddFrame, SinkFrame, WriteFrame,
           EncoderEmpty, FilterEmpty, WriteTrailer, Cleanup, vars
  <1> QED
    BY <1>1, <1>2, <1>3, <1>4, <1>5

LEMMA UntouchedStep == Inv /\ [Next]_vars => Untouched'
  <1> SUFFICES ASSUME Inv, [Next]_vars, phase' \in {"init_input", "init_output"}
               PROVE  writing' = <<>> /\ written' = <<>>
    BY DEF Untouched
  <1>0. phase \in {"init_input", "init_output"} => writing = <<>> /\ written = <<>>
    BY DEF Inv, Untouched
  <1>1. CASE InitInput
    BY <1>0, <1>1 DEF InitInput, Runs, buffer
  <1>2. CASE InitOutput
    BY <1>2 DEF InitOutput, Throw
  <1>3. CASE ReadPacket \/ Decode \/ EndOfInput
    BY <1>3 DEF ReadPacket, Decode, EndOfInput, Runs, Throw
  <1>4. CASE AddFrame \/ SinkFrame \/ WriteFrame \/ EncoderEmpty \/ FilterEmpty
    BY <1>4 DEF AddFrame, SinkFrame, WriteFrame, EncoderEmpty, FilterEmpty, Runs
  <1>5. CASE Drain
    BY <1>5 DEF Drain
  <1>6. CASE WriteTrailer \/ Cleanup
    BY <1>6 DEF WriteTrailer, Cleanup
  <1>7. CASE WriteCallback
    BY <1>0, <1>7 DEF WriteCallback, tvars, Grow, Copy, Exact, Inv
  <1>8. CASE UNCHANGED vars
    BY <1>0, <1>8 DEF vars, tvars, buffer
  <1> QED
    BY <1>1, <1>2, <1>3, <1>4, <1>5, <1>6, <1>7, <1>8 DEF Next

\* get_output_content() returns what was written: OutputContent has
\* size - room = offset bytes.
LEMMA ExactContent == ASSUME NEW C, Exact(C) PROVE OutputContent = written
  <1>1. offset + room = size /\ size - room = offset
    BY DEF Exact
  <1>2. written = [k \in 1..offset |-> written[k]]
    BY DEF Exact
  <1> QED
    BY <1>1, <1>2 DEF OutputContent, Exact

LEMMA InvExact == Inv => BufferExact
  BY ExactContent DEF Inv, BufferExact, Exact

\* However libavformat cuts the WAV file into chunks and whatever the first size
\* of the buffer, the content of the response is exactly what was written.
THEOREM ResponseIsWhatWasWritten == Spec => []BufferExact
  <1>1. Inv /\ [Next]_vars => Inv'
    BY FlowStep, ExactStep, UntouchedStep DEF Inv
  <1> QED
    BY InitInv, <1>1, InvExact, PTL DEF Spec

-----------------------------------------------------------------------------
(* The frames.  Stream is the file as far as it has been made, followed by  *)
(* what is on its way to it; Stages tells where frames can be.              *)

Flown == enc \o (filter \o (frame \o dec))
Stream == written \o (writing \o (muxer \o Flown))
Numbers(n) == [k \in 1..n |-> k]

OneEach(s) == \A k \in 1..Len(s) : s[k] <= 1

Phases == {"init_input", "init_output", "read_frame", "filter", "encode", "trailer", "cleanup"} \cup Over

Stages ==
    /\ phase \in Phases
    /\ phase \in {"init_input", "init_output"} =>
        /\ muxer = <<>> /\ enc = <<>> /\ filter = <<>> /\ frame = <<>> /\ dec = <<>>
        /\ demux = <<>> /\ demuxed = 0 /\ ~ended
    /\ frame # <<>> => phase = "filter"
    /\ enc # <<>> => phase = "encode"
    /\ phase \in {"trailer", "cleanup", "done"} => ended /\ filter = <<>>
    /\ phase = "done" => muxer = <<>> /\ writing = <<>>

Kept ==
    /\ phase \in {"read_frame", "filter", "encode", "trailer"} =>
        Stream = <<Header>> \o Numbers(demuxed)
    /\ phase \in {"cleanup", "done"} =>
        written \o (writing \o muxer) = <<Header>> \o Numbers(demuxed - Len(dec)) \o <<Trailer>>

Lagging ==
    /\ Len(dec) <= demuxed
    /\ OneEach(upload.packets) => Len(dec) <= upload.lag /\ OneEach(ibd) /\ OneEach(demux)

\* The frames are those of the first packets, and the rest is still to be read.
Prefix ==
    phase \notin {"init_input", "threw"} =>
        \E read \in Seq(Nat) : upload.packets = read \o (demux \o ibd) /\ demuxed = Sum(read)

FramesInv == Inv /\ Stages /\ Kept /\ Lagging /\ Prefix

LEMMA InitFramesInv == Init => FramesInv
  <1> SUFFICES ASSUME Init PROVE FramesInv
    OBVIOUS
  <1>1. Stages
    BY DEF Init, Stages, Phases
  <1>2. Kept
    BY DEF Init, Kept
  <1>3. upload.lag \in Nat
    BY TranscoderAssumption DEF Init
  <1>4. Lagging
    BY <1>3 DEF Init, Lagging, OneEach
  <1>5. Prefix
    BY DEF Init, Prefix
  <1> QED
    BY <1>1, <1>2, <1>4, <1>5, InitInv DEF FramesInv

LEMMA StagesStep == FramesInv /\ [Next]_vars => Stages'
  <1> SUFFICES ASSUME FramesInv, [Next]_vars PROVE Stages'
    OBVIOUS
  <1> USE DEF FramesInv, Stages, Phases, Over
  <1>1. CASE InitInput
    BY <1>1 DEF InitInput, Throw, Runs
  <1>2. CASE InitOutput
    BY <1>2 DEF InitOutput, Throw, Runs, ResetBuffer
  <1>3. CASE ReadPacket
    BY <1>3 DEF ReadPacket, Runs
  <1>4. CASE Decode
    BY <1>4 DEF Decode, Throw, Runs
  <1>5. CASE EndOfInput
    BY <1>5 DEF EndOfInput, Runs
  <1>6. CASE AddFrame
    BY <1>6 DEF AddFrame, Runs
  <1>7. CASE SinkFrame
    BY <1>7 DEF SinkFrame, Runs
  <1>8. CASE WriteFrame
    BY <1>8 DEF WriteFrame, Runs
  <1>9. CASE EncoderEmpty
    BY <1>9 DEF EncoderEmpty, Runs
  <1>10. CASE FilterEmpty
    BY <1>10 DEF FilterEmpty, Runs, CapDelay
  <1>11. CASE Drain
    BY <1>11 DEF Drain
  <1>12. CASE WriteTrailer
    BY <1>12 DEF WriteTrailer, Runs
  <1>13. CASE Cleanup
    BY <1>13 DEF Cleanup, Runs, buffer
  <1>14. CASE WriteCallback
    BY <1>14 DEF WriteCallback, tvars, Grow, Copy, Inv, Exact
  <1>15. CASE UNCHANGED vars
    BY <1>15 DEF vars, tvars, buffer
  <1> QED
    BY <1>1, <1>2, <1>3, <1>4, <1>5, <1>6, <1>7, <1>8, <1>9, <1>10, <1>11, <1>12, <1>13,
       <1>14, <1>15 DEF Next

LEMMA LaggingStep == FramesInv /\ [Next]_vars => Lagging'
  <1> SUFFICES ASSUME FramesInv, [Next]_vars
               PROVE  /\ Len(dec') <= demuxed'
                      /\ OneEach(upload'.packets) =>
                            Len(dec') <= upload'.lag /\ OneEach(ibd') /\ OneEach(demux')
    BY DEF Lagging, OneEach
  <1>0. upload' = upload /\ upload.lag \in Nat /\ Flow
    <2>1. upload' = upload
      BY DEF Next, InitInput, InitOutput, ReadPacket, Decode, EndOfInput, AddFrame, SinkFrame,
             WriteFrame, EncoderEmpty, FilterEmpty, Drain, WriteTrailer, Cleanup, WriteCallback,
             vars, tvars
    <2> QED
      BY <2>1, TranscoderAssumption DEF FramesInv, Inv, Flow
  <1>1. /\ Len(dec) <= demuxed
        /\ OneEach(upload.packets) => Len(dec) <= upload.lag /\ OneEach(ibd) /\ OneEach(demux)
    BY <1>0 DEF FramesInv, Lagging
  <1>2. CASE InitInput
    BY <1>0, <1>1, <1>2 DEF InitInput
  <1>3. CASE ReadPacket
    <2> DEFINE n == IF Len(ibd) < BlockSize THEN Len(ibd) ELSE BlockSize
    <2>1. n \in 1..Len(ibd)
      BY <1>0, <1>3, TranscoderAssumption DEF ReadPacket, Flow
    <2>2. demux' = SubSeq(ibd, 1, n) /\ ibd' = SubSeq(ibd, n + 1, Len(ibd)) /\ dec' = dec
      BY <1>3 DEF ReadPacket
    <2> HIDE DEF n
    <2>3. OneEach(ibd) => OneEach(demux') /\ OneEach(ibd')
      BY <1>0, <2>1, <2>2 DEF OneEach, Flow
    <2>4. demuxed' = demuxed
      BY <1>3 DEF ReadPacket
    <2> QED
      BY <1>0, <1>1, <2>2, <2>3, <2>4
  <1>4. CASE Decode
    <2>1. demux # <<>> /\ demux' = Tail(demux) /\ ibd' = ibd
      BY <1>4 DEF Decode
    <2>2. OneEach(demux) => OneEach(demux')
      BY <1>0, <2>1 DEF OneEach, Flow
    <2>3. Len(dec') <= demuxed' /\ (OneEach(upload.packets) => Len(dec') <= upload.lag)
      <3>1. CASE UNCHANGED <<dec, demuxed>>
        BY <1>0, <1>1, <3>1
      <3>2. CASE ~UNCHANGED <<dec, demuxed>>
        <4> DEFINE h == Head(demux)
                   ready == dec \o Frames(h)
        <4>1. h \in Nat /\ demuxed' = demuxed + h
          BY <1>0, <1>4, <2>1, <3>2 DEF Decode, Flow
        <4>2. OneEach(upload.packets) => h <= 1 /\ Len(dec) <= upload.lag
          <5>1. OneEach(upload.packets) => Len(dec) <= upload.lag /\ OneEach(demux)
            BY <1>1
          <5>2. 1 \in 1..Len(demux) /\ h = demux[1]
            BY <1>0, <2>1 DEF Flow
          <5> QED
            BY <5>1, <5>2 DEF OneEach
        <4>3. Frames(h) \in Seq(Nat) /\ Len(Frames(h)) = h
          <5>1. Frames(h) \in [1..h -> Nat]
            BY <1>0, <4>1 DEF Frames, Flow
          <5> QED
            BY <4>1, <5>1, FunctionIsSequence DEF Frames
        <4>4. ready \in Seq(Nat) /\ Len(ready) = Len(dec) + h
          BY <1>0, <4>3, Joined DEF Flow
        <4>5. \/ Len(ready) > upload.lag /\ dec' = Tail(ready)
              \/ ~(Len(ready) > upload.lag) /\ dec' = ready
          BY <1>4, <3>2 DEF Decode
        <4> HIDE DEF ready, h
        <4>6. Len(dec) \in Nat /\ demuxed \in Nat /\ upload.lag \in Nat
          BY <1>0 DEF Flow
        <4>7. CASE Len(ready) > upload.lag /\ dec' = Tail(ready)
          <5>1. Len(dec') = Len(ready) - 1
            BY <4>4, <4>6, <4>7
          <5> QED
            BY <1>1, <4>1, <4>2, <4>4, <4>6, <5>1
        <4>8. CASE ~(Len(ready) > upload.lag) /\ dec' = ready
          BY <1>1, <4>1, <4>2, <4>4, <4>6, <4>8
        <4> QED
          BY <4>5, <4>7, <4>8
      <3> QED
        BY <3>1, <3>2
    <2> QED
      BY <1>0, <1>1, <2>1, <2>2, <2>3
  <1>5. CASE UNCHANGED <<dec, ibd, demux, demuxed>>
    BY <1>0, <1>1, <1>5
  <1>6. InitInput \/ ReadPacket \/ Decode \/ UNCHANGED <<dec, ibd, demux, demuxed>>
    BY DEF Next, InitOutput, EndOfInput, AddFrame, SinkFrame,
           WriteFrame, EncoderEmpty, FilterEmpty, Drain, WriteTrailer, Cleanup, WriteCallback,
           vars, tvars
  <1> QED
    BY <1>2, <1>3, <1>4, <1>5, <1>6

LEMMA PrefixStep == FramesInv /\ [Next]_vars => Prefix'
  <1> SUFFICES ASSUME FramesInv, [Next]_vars, phase' \notin {"init_input", "threw"}
               PROVE  \E read \in Seq(Nat) :
                          upload'.packets = read \o (demux' \o ibd') /\ demuxed' = Sum(read)
    BY DEF Prefix
  <1> DEFINE P == Nat \cup {Corrupt}
  <1>0. upload' = upload /\ upload.packets \in Seq(P) /\ demux \in Seq(P) /\ ibd \in Seq(P)
        /\ demuxed \in Nat
    <2>1. upload' = upload
      BY DEF Next, InitInput, InitOutput, ReadPacket, Decode, EndOfInput, AddFrame, SinkFrame,
             WriteFrame, EncoderEmpty, FilterEmpty, Drain, WriteTrailer, Cleanup, WriteCallback,
             vars, tvars
    <2> QED
      BY <2>1, TranscoderAssumption DEF FramesInv, Inv, Flow
  <1>1. CASE InitInput
    <2>1. ibd' = upload.packets /\ demux' = <<>> /\ demuxed' = 0
      BY <1>1 DEF InitInput, Runs, FramesInv, Stages
    <2>2. <<>> \o (<<>> \o upload.packets) = upload.packets
      BY <1>0, ConcatEmptySeq
    <2>3. <<>> \in Seq(Nat) /\ Sum(<<>>) = 0
      BY SumEmpty
    <2> QED
      BY <1>0, <2>1, <2>2, <2>3
  <1>2. CASE ReadPacket
    <2>1. phase = "read_frame" /\ demux = <<>> /\ demuxed' = demuxed /\ demux' \o ibd' = ibd
      <3> DEFINE n == IF Len(ibd) < BlockSize THEN Len(ibd) ELSE BlockSize
      <3>1. n \in 0..Len(ibd)
        BY <1>0, TranscoderAssumption
      <3>2. demux' = SubSeq(ibd, 1, n) /\ ibd' = SubSeq(ibd, n + 1, Len(ibd))
        BY <1>2 DEF ReadPacket
      <3> HIDE DEF n
      <3>3. demux' \o ibd' = ibd
        BY <1>0, <3>1, <3>2, Cut
      <3> QED
        BY <1>2, <3>3 DEF ReadPacket, Runs
    <2>2. <<>> \o ibd = ibd
      BY <1>0, ConcatEmptySeq
    <2>3. \E read \in Seq(Nat) : upload.packets = read \o (demux \o ibd) /\ demuxed = Sum(read)
      BY <2>1 DEF FramesInv, Prefix
    <2> QED
      BY <1>0, <2>1, <2>2, <2>3
  <1>3. CASE Decode
    <2> DEFINE h == Head(demux)
               t == Tail(demux)
    <2>1. demux # <<>> /\ demux' = t /\ ibd' = ibd /\ phase = "read_frame"
          /\ demuxed' = demuxed + h /\ h \in Nat
      BY <1>0, <1>3 DEF Decode, Throw, Runs
    <2>2. h \in P /\ t \in Seq(P) /\ demux = <<h>> \o t /\ <<h>> \in Seq(P)
      BY <1>0, <2>1, HeadTailProperties
    <2>3. PICK read \in Seq(Nat) : upload.packets = read \o (demux \o ibd) /\ demuxed = Sum(read)
      BY <2>1 DEF FramesInv, Prefix
    <2> HIDE DEF h, t
    <2> DEFINE rest == t \o ibd
               more == read \o <<h>>
    <2>4. read \in Seq(P) /\ rest \in Seq(P)
      <3>1. Nat \subseteq P
        OBVIOUS
      <3> HIDE DEF P
      <3> QED
        BY <1>0, <2>2, <3>1, Widen, Closed
    <2>5. demux \o ibd = <<h>> \o rest
      <3> HIDE DEF P
      <3>1. <<h>> \o (t \o ibd) = (<<h>> \o t) \o ibd
        BY <1>0, <2>2, Regroup
      <3> QED
        BY <2>2, <3>1
    <2>6. read \o (<<h>> \o rest) = more \o rest
      <3> HIDE DEF P, rest
      <3> QED
        BY <2>2, <2>4, Regroup
    <2>7. more \in Seq(Nat) /\ Sum(more) = Sum(read) + h
      BY <2>1, SumOfOneMore
    <2> HIDE DEF more, rest, P
    <2>8. upload'.packets = more \o rest /\ demux' \o ibd' = rest /\ demuxed' = Sum(more)
      BY <1>0, <2>1, <2>3, <2>5, <2>6, <2>7 DEF rest
    <2> QED
      BY <2>7, <2>8
  <1>4. CASE UNCHANGED <<ibd, demux, demuxed>> /\ phase \notin {"init_input", "threw"}
    BY <1>0, <1>4 DEF FramesInv, Prefix
  <1>5. InitInput \/ ReadPacket \/ Decode
        \/ (UNCHANGED <<ibd, demux, demuxed>> /\ phase \notin {"init_input", "threw"})
    <2>1. CASE InitOutput \/ EndOfInput \/ AddFrame \/ SinkFrame \/ WriteFrame \/ EncoderEmpty
               \/ FilterEmpty \/ WriteTrailer \/ Cleanup
      BY <2>1 DEF InitOutput, EndOfInput, AddFrame, SinkFrame, WriteFrame, EncoderEmpty,
                  FilterEmpty, WriteTrailer, Cleanup, Runs
    <2>2. CASE Drain \/ WriteCallback \/ UNCHANGED vars
      BY <2>2 DEF Drain, WriteCallback, vars, tvars
    <2> QED
      BY <2>1, <2>2 DEF Next
  <1> QED
    BY <1>1, <1>2, <1>3, <1>4, <1>5

\* All that travels is numbers, all that is written cells.
LEMMA Travels ==
    ASSUME Inv
    PROVE  /\ dec \in Seq(Cell) /\ frame \in Seq(Cell) /\ filter \in Seq(Cell)
           /\ enc \in Seq(Cell) /\ muxer \in Seq(Cell)
           /\ writing \in Seq(Cell) /\ written \in Seq(Cell)
  <1>1. Nat \subseteq Cell
    BY DEF Cell
  <1> QED
    BY <1>1, Widen DEF Inv, Flow, Exact

LEMMA NumbersAreCells ==
    ASSUME NEW n \in Nat
    PROVE  Numbers(n) \in Seq(Cell) /\ Len(Numbers(n)) = n
  <1>1. Numbers(n) \in [1..n -> Cell]
    BY DEF Numbers, Cell
  <1> QED
    BY <1>1, FunctionIsSequence DEF Numbers

\* The next h frames are numbered on.
LEMMA NumbersContinue ==
    ASSUME demuxed \in Nat, NEW h \in Nat
    PROVE  Numbers(demuxed) \o Frames(h) = Numbers(demuxed + h) /\ Frames(h) \in Seq(Cell)
  <1>1. Frames(h) \in Seq(Cell) /\ Len(Frames(h)) = h
    <2>1. Frames(h) \in [1..h -> Cell]
      BY DEF Frames, Cell
    <2> QED
      BY <2>1, FunctionIsSequence DEF Frames
  <1> DEFINE s == Numbers(demuxed)
             t == Frames(h)
             u == Numbers(demuxed + h)
  <1>2. s \in Seq(Cell) /\ Len(s) = demuxed /\ u \in Seq(Cell) /\ Len(u) = demuxed + h
    BY NumbersAreCells
  <1>3. s \o t \in Seq(Cell) /\ Len(s \o t) = demuxed + h
    BY <1>1, <1>2, Joined
  <1>4. ASSUME NEW k \in 1 .. demuxed + h PROVE (s \o t)[k] = u[k]
    <2>1. (s \o t)[k] = IF k <= Len(s) THEN s[k] ELSE t[k - Len(s)]
      BY <1>1, <1>2, ConcatProperties
    <2>2. k <= demuxed => s[k] = k
      BY DEF Numbers
    <2>3. k > demuxed => t[k - demuxed] = k
      BY DEF Frames
    <2>4. u[k] = k
      BY DEF Numbers
    <2> QED
      BY <1>2, <2>1, <2>2, <2>3, <2>4
  <1> HIDE DEF s, t, u
  <1>5. s \o t = u
    BY <1>2, <1>3, <1>4, SeqEqual
  <1> QED
    BY <1>1, <1>5 DEF s, t, u

LEMMA HeaderShortened ==
    ASSUME NEW head, NEW n \in Nat, NEW m \in 0..n
    PROVE  SubSeq(<<head>> \o Numbers(n), 1, m + 1) = <<head>> \o Numbers(m)
  <1> DEFINE C == Nat \cup {head}
             s == <<head>> \o Numbers(n)
             t == <<head>> \o Numbers(m)
  <1>0. /\ Numbers(n) \in Seq(C) /\ Len(Numbers(n)) = n
        /\ Numbers(m) \in Seq(C) /\ Len(Numbers(m)) = m
        /\ <<head>> \in Seq(C)
    <2>1. Numbers(n) \in [1..n -> C] /\ Numbers(m) \in [1..m -> C]
      BY DEF Numbers
    <2> QED
      BY <2>1, FunctionIsSequence DEF Numbers
  <1>1. /\ s \in Seq(C) /\ Len(s) = n + 1
        /\ \A k \in 1 .. n + 1 : s[k] = IF k <= 1 THEN head ELSE Numbers(n)[k - 1]
    BY <1>0, ConcatProperties
  <1>2. /\ t \in Seq(C) /\ Len(t) = m + 1
        /\ \A k \in 1 .. m + 1 : t[k] = IF k <= 1 THEN head ELSE Numbers(m)[k - 1]
    BY <1>0, ConcatProperties
  <1>3. \A k \in 1 .. m + 1 : s[k] = t[k]
    BY <1>1, <1>2 DEF Numbers
  <1> HIDE DEF s, t, C
  <1>4. SubSeq(s, 1, m + 1) \in Seq(C) /\ Len(SubSeq(s, 1, m + 1)) = m + 1
        /\ \A k \in 1 .. m + 1 : SubSeq(s, 1, m + 1)[k] = s[k]
    BY <1>1
  <1>5. SubSeq(s, 1, m + 1) = t
    BY <1>2, <1>3, <1>4, SeqEqual
  <1> QED
    BY <1>5 DEF s, t

LEMMA RegroupCells ==
    ASSUME NEW p \in Seq(Cell), NEW q \in Seq(Cell), NEW r \in Seq(Cell)
    PROVE  p \o (q \o r) = (p \o q) \o r
  BY Regroup, SMTT(30)

\* The callback and the muxer only move bytes on, whatever follows them.
LEMMA BytesMove ==
    ASSUME Inv, Drain \/ WriteCallback, NEW rest \in Seq(Cell)
    PROVE  written' \o (writing' \o (muxer' \o rest)) = written \o (writing \o (muxer \o rest))
  <1>0. muxer \in Seq(Cell) /\ writing \in Seq(Cell) /\ written \in Seq(Cell)
    BY Travels
  <1>1. CASE Drain
    <2>1. PICK n \in 1..Len(muxer) :
            /\ WritePacket(SubSeq(muxer, 1, n))
            /\ muxer' = SubSeq(muxer, n + 1, Len(muxer))
      BY <1>1 DEF Drain
    <2> DEFINE a == SubSeq(muxer, 1, n)
               b == SubSeq(muxer, n + 1, Len(muxer))
    <2>2. writing = <<>> /\ written' = written /\ writing' = a /\ muxer' = b
      BY <2>1 DEF WritePacket
    <2>3. a \in Seq(Cell) /\ b \in Seq(Cell)
      BY <1>0, Cut
    <2>4. a \o b = muxer
      BY <1>0, ConcatAdjacentSubSeq, SubSeqFull
    <2> HIDE DEF a, b
    <2>5. a \o (b \o rest) = muxer \o rest
      BY <2>3, <2>4, RegroupCells
    <2>6. <<>> \o (muxer \o rest) = muxer \o rest
      BY <1>0, Closed, ConcatEmptySeq
    <2> QED
      BY <2>2, <2>5, <2>6
  <1>2. CASE WriteCallback
    <2>1. CASE Grow
      BY <1>2, <2>1 DEF WriteCallback, Grow, tvars
    <2>2. CASE Copy
      <3> DEFINE more == muxer \o rest
      <3>1. written' = written \o writing /\ writing' = <<>> /\ muxer' = muxer
        BY <1>2, <2>2 DEF WriteCallback, Copy, tvars
      <3>2. more \in Seq(Cell)
        BY <1>0, Closed
      <3> HIDE DEF more
      <3>3. written \o (writing \o more) = (written \o writing) \o more
        BY <1>0, <3>2, Regroup, SMTT(30)
      <3>4. <<>> \o more = more
        BY <3>2, ConcatEmptySeq
      <3> QED
        BY <3>1, <3>3, <3>4 DEF more
    <2> QED
      BY <1>2, <2>1, <2>2 DEF WriteCallback
  <1> QED
    BY <1>1, <1>2

\* The other steps move frames on.
LEMMA AddFrameMoves == Inv /\ AddFrame => Stream' = Stream
  <1> SUFFICES ASSUME Inv, AddFrame PROVE Stream' = Stream
    OBVIOUS
  <1>1. filter \in Seq(Cell) /\ frame \in Seq(Cell) /\ dec \in Seq(Cell)
    BY Travels
  <1>2. filter' = filter \o frame /\ frame' = <<>> /\ UNCHANGED <<enc, dec, muxer, writing, written>>
    BY DEF AddFrame, buffer
  <1>3. (filter \o frame) \o dec = filter \o (frame \o dec)
    BY <1>1, Regroup
  <1>4. <<>> \o dec = dec
    BY <1>1, ConcatEmptySeq
  <1> QED
    BY <1>2, <1>3, <1>4 DEF Stream, Flown

LEMMA SinkFrameMoves == Inv /\ Stages /\ SinkFrame => Stream' = Stream
  <1> SUFFICES ASSUME Inv, Stages, SinkFrame PROVE Stream' = Stream
    OBVIOUS
  <1>1. filter \in Seq(Cell) /\ filter # <<>> /\ dec \in Seq(Cell)
    BY Travels DEF SinkFrame
  <1>2. enc = <<>> /\ frame = <<>>
    BY DEF Stages, SinkFrame, Runs
  <1>3. enc' = <<Head(filter)>> /\ filter' = Tail(filter)
        /\ UNCHANGED <<frame, dec, muxer, writing, written>>
    BY <1>2 DEF SinkFrame, buffer
  <1> DEFINE h == <<Head(filter)>>
             t == Tail(filter)
  <1>4. h \o t = filter /\ h \in Seq(Cell) /\ t \in Seq(Cell)
    BY <1>1
  <1> HIDE DEF h, t
  <1>5. h \o (t \o dec) = filter \o dec
    <2>1. h \o (t \o dec) = (h \o t) \o dec
      BY <1>1, <1>4, RegroupCells, ZenonT(30)
    <2> QED
      BY <1>4, <2>1
  <1>6. <<>> \o dec = dec /\ <<>> \o (filter \o dec) = filter \o dec
    BY <1>1, Closed, ConcatEmptySeq
  <1> QED
    BY <1>2, <1>3, <1>5, <1>6 DEF Stream, Flown, h, t

LEMMA WriteFrameMoves == Inv /\ WriteFrame => Stream' = Stream
  <1> SUFFICES ASSUME Inv, WriteFrame PROVE Stream' = Stream
    OBVIOUS
  <1> DEFINE rest == filter \o (frame \o dec)
  <1>1. muxer \in Seq(Cell) /\ enc \in Seq(Cell) /\ rest \in Seq(Cell)
    BY Travels, Closed
  <1>2. muxer' = muxer \o enc /\ enc' = <<>> /\ rest' = rest /\ UNCHANGED <<writing, written>>
    BY DEF WriteFrame, buffer
  <1>3. Flown = enc \o rest /\ Flown' = enc' \o rest'
    BY DEF Flown
  <1> HIDE DEF rest
  <1>4. (muxer \o enc) \o rest = muxer \o (enc \o rest)
    BY <1>1, Regroup, SMTT(30)
  <1>5. <<>> \o rest = rest
    BY <1>1, ConcatEmptySeq
  <1> QED
    BY <1>2, <1>3, <1>4, <1>5 DEF Stream

\* Decoding puts the numbers of the packet's frames behind those before.
LEMMA DecodeMoves ==
    ASSUME Inv, Stages, Decode, phase' # "threw"
    PROVE  \E h \in Nat : demuxed' = demuxed + h /\ Stream' = Stream \o Frames(h)
  <1> DEFINE h == Head(demux)
             more == Frames(h)
             ready == dec \o more
  <1>1. h \in Nat /\ demuxed' = demuxed + h /\ demuxed \in Nat
    BY DEF Decode, Throw, Inv, Flow
  <1>2. /\ enc = <<>> /\ frame = <<>> /\ writing = <<>>
        /\ UNCHANGED <<enc, filter, muxer, writing, written>>
    BY DEF Stages, Decode, Runs, buffer
  <1>3. dec \in Seq(Cell) /\ filter \in Seq(Cell) /\ muxer \in Seq(Cell) /\ written \in Seq(Cell)
    BY Travels
  <1>4. more \in Seq(Cell)
    BY <1>1, NumbersContinue
  <1> HIDE DEF more
  <1>5. ready \in Seq(Cell)
    BY <1>3, <1>4, Closed
  <1>6. \/ Len(ready) > upload.lag /\ dec' = Tail(ready) /\ frame' = <<Head(ready)>>
        \/ dec' = ready /\ frame' = <<>>
    BY <1>2 DEF Decode, Throw, more
  <1> HIDE DEF ready
  <1>7. frame' \o dec' = ready
    <2>1. upload.lag \in Nat
      BY TranscoderAssumption DEF Inv, Flow
    <2>2. CASE Len(ready) > upload.lag /\ dec' = Tail(ready) /\ frame' = <<Head(ready)>>
      <3>1. ready # <<>>
        BY <1>5, <2>1, <2>2
      <3> QED
        BY <1>5, <2>2, <3>1, HeadTailProperties
    <2>3. CASE dec' = ready /\ frame' = <<>>
      BY <1>5, <2>3, ConcatEmptySeq
    <2> QED
      BY <1>6, <2>2, <2>3
  <1> DEFINE before == filter \o dec
             out == muxer \o before
  <1>8. before \in Seq(Cell)
    BY <1>3, Closed
  <1>9. filter \o ready = before \o more
    <2>1. dec \in Seq(Cell) /\ filter \in Seq(Cell)
      BY <1>3
    <2>2. filter \o (dec \o more) = (filter \o dec) \o more
      BY <1>4, <2>1, RegroupCells
    <2> QED
      BY <2>2 DEF ready
  <1>10. Flown = before /\ Flown' = filter \o ready
    BY <1>2, <1>3, <1>5, <1>7, <1>8, Closed, ConcatEmptySeq DEF Flown
  <1> HIDE DEF before
  <1>11. out \in Seq(Cell)
    BY <1>3, <1>8, Closed
  <1>12. muxer \o (before \o more) = out \o more
    <2>1. muxer \in Seq(Cell)
      BY <1>3
    <2> QED
      BY <2>1, <1>4, <1>8, Regroup
  <1>13. Stream = written \o (<<>> \o out) /\ Stream' = written \o (<<>> \o (out \o more))
    BY <1>2, <1>9, <1>10, <1>12 DEF Stream
  <1> HIDE DEF out
  <1>14. <<>> \o out = out /\ <<>> \o (out \o more) = out \o more
    BY <1>4, <1>11, Closed, ConcatEmptySeq
  <1>15. written \o (out \o more) = (written \o out) \o more
    BY <1>3, <1>4, <1>11, RegroupCells, SMTT(30)
  <1> QED
    BY <1>1, <1>13, <1>14, <1>15 DEF more

LEMMA KeptStep == FramesInv /\ [Next]_vars => Kept'
  <1> SUFFICES ASSUME FramesInv, [Next]_vars PROVE Kept'
    OBVIOUS
  <1> USE DEF FramesInv
  <1>0. demuxed \in Nat /\ Flow /\ Inv /\ Stages
    BY DEF Inv, Flow
  <1>1. CASE InitOutput
    <2>1. muxer' = <<Header>> \/ phase' = "threw"
      BY <1>1 DEF InitOutput, Throw
    <2>2. /\ enc = <<>> /\ filter = <<>> /\ frame = <<>> /\ dec = <<>> /\ demuxed = 0
          /\ UNCHANGED <<enc, filter, frame, dec, demuxed, writing, written>>
          /\ writing = <<>> /\ written = <<>>
          /\ phase' \in {"read_frame", "threw"}
      BY <1>1, <1>0 DEF InitOutput, Throw, Runs, Stages, ResetBuffer, Inv, Untouched
    <2>3. Numbers(0) = <<>>
      BY DEF Numbers
    <2>4. <<Header>> \o <<>> = <<Header>> /\ <<>> \o <<Header>> = <<Header>>
          /\ <<>> \o <<>> = <<>>
      OBVIOUS
    <2>5. CASE phase' = "threw"
      BY <2>5 DEF Kept
    <2>6. CASE muxer' = <<Header>> /\ phase' = "read_frame"
      <3>1. Flown' = <<>>
        BY <2>2, <2>4 DEF Flown
      <3>2. Stream' = <<Header>>
        BY <2>2, <2>4, <2>6, <3>1 DEF Stream
      <3>3. demuxed' = 0
        BY <2>2
      <3>4. Numbers(demuxed)' = <<>>
        BY <2>3, <3>3 DEF Numbers
      <3> QED
        BY <2>4, <2>6, <3>2, <3>4 DEF Kept
    <2> QED
      BY <2>1, <2>2, <2>5, <2>6
  <1>2. CASE Decode
    <2>1. CASE phase' = "threw"
      BY <2>1 DEF Kept
    <2>2. CASE phase' # "threw"
      <3>1. PICK h \in Nat : demuxed' = demuxed + h /\ Stream' = Stream \o Frames(h)
        BY <1>0, <1>2, <2>2, DecodeMoves
      <3>2. phase = "read_frame" /\ phase' \in {"read_frame", "filter"}
        BY <1>2, <2>2 DEF Decode, Runs, Throw
      <3>3. Stream = <<Header>> \o Numbers(demuxed)
        BY <3>2 DEF Kept
      <3>4. /\ Numbers(demuxed) \in Seq(Cell) /\ Frames(h) \in Seq(Cell)
            /\ Numbers(demuxed) \o Frames(h) = Numbers(demuxed + h)
        BY <1>0, NumbersAreCells, NumbersContinue
      <3> DEFINE s == Numbers(demuxed)
                 t == Frames(h)
                 head == <<Header>>
      <3>5. head \in Seq(Cell) /\ s \in Seq(Cell) /\ t \in Seq(Cell)
        BY <3>4 DEF Cell
      <3> HIDE DEF s, t, head
      <3>6. (head \o s) \o t = head \o (s \o t)
        BY <3>5, Regroup
      <3> QED
        BY <3>1, <3>2, <3>3, <3>4, <3>6 DEF Kept, s, t, head
    <2> QED
      BY <2>1, <2>2
  <1>3. CASE AddFrame \/ SinkFrame \/ WriteFrame
    <2>1. Stream' = Stream
      BY <1>0, <1>3, AddFrameMoves, SinkFrameMoves, WriteFrameMoves
    <2>2. demuxed' = demuxed /\ phase \in {"filter", "encode"} /\ phase' \in {"filter", "encode"}
      BY <1>3 DEF AddFrame, SinkFrame, WriteFrame, Runs
    <2> QED
      BY <2>1, <2>2 DEF Kept
  <1>4. CASE Drain \/ WriteCallback
    <2>1. UNCHANGED <<phase, demuxed, dec, enc, filter, frame>>
      BY <1>4 DEF Drain, WriteCallback, tvars
    <2>2. Flown \in Seq(Cell) /\ Flown' = Flown
      BY <2>1, <1>0, Travels, Closed DEF Flown
    <2>3. Stream' = Stream
      BY <1>0, <1>4, <2>2, BytesMove DEF Stream
    <2>4. written' \o (writing' \o muxer') = written \o (writing \o muxer)
      <3>1. <<>> \in Seq(Cell)
        OBVIOUS
      <3>2. written' \o (writing' \o (muxer' \o <<>>)) = written \o (writing \o (muxer \o <<>>))
        BY <1>0, <1>4, <3>1, BytesMove
      <3>3. muxer \o <<>> = muxer /\ muxer' \o <<>> = muxer'
        BY <1>0, FlowStep, ConcatEmptySeq DEF Flow
      <3> QED
        BY <3>2, <3>3
    <2> QED
      BY <2>1, <2>3, <2>4 DEF Kept
  <1>5. CASE WriteTrailer
    <2> DEFINE file == written \o (writing \o muxer)
               head == <<Header>>
               tail == <<Trailer>>
               known == head \o Numbers(demuxed)
               n == demuxed - Len(dec)
    <2>1. /\ enc = <<>> /\ filter = <<>> /\ frame = <<>> /\ writing = <<>>
          /\ UNCHANGED <<writing, written, demuxed, dec>>
          /\ muxer' = muxer \o tail /\ phase = "trailer" /\ phase' = "cleanup"
      <3>1. Append(muxer, Trailer) = muxer \o <<Trailer>>
        BY <1>0, AppendIsConcat DEF Flow, Cell
      <3> QED
        BY <1>5, <1>0, <3>1 DEF WriteTrailer, Runs, Stages, buffer
    <2>2. /\ written \in Seq(Cell) /\ muxer \in Seq(Cell) /\ dec \in Seq(Cell) /\ file \in Seq(Cell)
          /\ tail \in Seq(Cell) /\ head \in Seq(Cell)
      BY <1>0, Travels, Closed DEF Cell
    <2>3. Flown = dec
      BY <2>1, <2>2, ConcatEmptySeq DEF Flown
    <2>4. file = written \o muxer
      BY <2>1, <2>2, ConcatEmptySeq
    <2> HIDE DEF tail, head
    <2>5. Stream = file \o dec
      <3>1. Stream = written \o (muxer \o dec)
        BY <2>1, <2>2, <2>3, Closed, ConcatEmptySeq DEF Stream
      <3>2. written \in Seq(Cell) /\ muxer \in Seq(Cell) /\ dec \in Seq(Cell)
        BY <2>2
      <3>3. written \o (muxer \o dec) = (written \o muxer) \o dec
        BY <3>2, Regroup
      <3> QED
        BY <2>4, <3>1, <3>3
    <2>6. file \o dec = known
      BY <2>1, <2>5 DEF Kept, head
    <2>7. known \in Seq(Cell) /\ Len(known) = demuxed + 1
      BY <1>0, <2>2, NumbersAreCells, ConcatProperties DEF head
    <2> HIDE DEF file
    <2>8. n \in 0..demuxed
      BY <1>0 DEF Lagging, Flow
    <2>9. file = SubSeq(known, 1, Len(known) - Len(dec))
      <3> HIDE DEF known
      <3>1. file \in Seq(Cell) /\ dec \in Seq(Cell) /\ known \in Seq(Cell)
        BY <2>2, <2>7
      <3> QED
        BY <2>6, <3>1, Shortened
    <2>10. file = head \o Numbers(n)
      <3>1. Len(known) - Len(dec) = n + 1
        BY <2>7, <2>8, <1>0 DEF Flow
      <3> HIDE DEF n, known
      <3>2. SubSeq(head \o Numbers(demuxed), 1, n + 1) = head \o Numbers(n)
        BY <1>0, <2>8, HeaderShortened DEF head
      <3> QED
        BY <2>9, <3>1, <3>2 DEF known
    <2>11. written' \o (writing' \o muxer') = file \o tail
      <3>1. <<>> \o (muxer \o tail) = muxer \o tail
        BY <2>2, Closed, ConcatEmptySeq
      <3>2. written \in Seq(Cell) /\ muxer \in Seq(Cell) /\ tail \in Seq(Cell)
        BY <2>2
      <3>3. written \o (muxer \o tail) = (written \o muxer) \o tail
        BY <3>2, Regroup
      <3> QED
        BY <2>1, <2>4, <3>1, <3>3
    <2> QED
      BY <2>1, <2>8, <2>10, <2>11 DEF Kept, head, tail
  <1>6. CASE InitInput
    BY <1>6 DEF InitInput, Throw, Kept
  <1>7. CASE ReadPacket \/ EndOfInput \/ EncoderEmpty \/ FilterEmpty \/ Cleanup \/ UNCHANGED vars
    <2>1. UNCHANGED <<demuxed, written, writing, muxer, dec, enc, filter, frame>>
      BY <1>7 DEF ReadPacket, EndOfInput, EncoderEmpty, FilterEmpty, Cleanup, vars, tvars, buffer
    <2>2. Stream' = Stream
      BY <2>1 DEF Stream, Flown
    <2>3. \/ phase' \in {"read_frame", "filter", "encode", "trailer"}
             /\ phase \in {"read_frame", "filter", "encode", "trailer"}
          \/ phase' \in {"cleanup", "done"} /\ phase \in {"cleanup", "done"}
          \/ phase' = phase
      BY <1>7 DEF ReadPacket, EndOfInput, EncoderEmpty, FilterEmpty, Cleanup, vars, tvars, Runs,
                  CapDelay
    <2> QED
      BY <2>1, <2>2, <2>3 DEF Kept
  <1> QED
    BY <1>1, <1>2, <1>3, <1>4, <1>5, <1>6, <1>7 DEF Next

LEMMA FramesInvStep == FramesInv /\ [Next]_vars => FramesInv'
  <1>1. Inv /\ [Next]_vars => Inv'
    BY FlowStep, ExactStep, UntouchedStep DEF Inv
  <1> QED
    BY <1>1, StagesStep, KeptStep, LaggingStep, PrefixStep DEF FramesInv

\* Stream, written from left to right.
LEMMA FlatStream ==
    Inv => written \o writing \o muxer \o enc \o filter \o frame \o dec = Stream
  <1> SUFFICES ASSUME Inv
               PROVE  written \o writing \o muxer \o enc \o filter \o frame \o dec = Stream
    OBVIOUS
  <1> DEFINE a == written \o writing
             b == a \o muxer
             c == b \o enc
             d == c \o filter
             x == frame \o dec
             y == filter \o x
             z == enc \o y
             u == muxer \o z
  <1>1. /\ a \in Seq(Cell) /\ b \in Seq(Cell) /\ c \in Seq(Cell) /\ d \in Seq(Cell)
        /\ x \in Seq(Cell) /\ y \in Seq(Cell) /\ z \in Seq(Cell) /\ u \in Seq(Cell)
    BY Travels, Closed
  <1>2. Stream = written \o (writing \o u)
    BY DEF Stream, Flown
  <1> HIDE DEF a, b, c, d, x, y, z, u
  <1>3. written \o (writing \o u) = a \o u
    <2>1. written \in Seq(Cell) /\ writing \in Seq(Cell) /\ u \in Seq(Cell)
      BY Travels, <1>1
    <2> QED
      BY <2>1, Regroup DEF a
  <1>4. a \o u = b \o z
    <2>1. a \in Seq(Cell) /\ muxer \in Seq(Cell) /\ z \in Seq(Cell)
      BY Travels, <1>1
    <2> QED
      BY <2>1, Regroup DEF u, b
  <1>5. b \o z = c \o y
    <2>1. b \in Seq(Cell) /\ enc \in Seq(Cell) /\ y \in Seq(Cell)
      BY Travels, <1>1
    <2> QED
      BY <2>1, Regroup DEF z, c
  <1>6. c \o y = d \o x
    <2>1. c \in Seq(Cell) /\ filter \in Seq(Cell) /\ x \in Seq(Cell)
      BY Travels, <1>1
    <2> QED
      BY <2>1, Regroup DEF y, d
  <1>7. d \o x = d \o frame \o dec
    <2>1. d \in Seq(Cell) /\ frame \in Seq(Cell) /\ dec \in Seq(Cell)
      BY Travels, <1>1
    <2> QED
      BY <2>1, Regroup DEF x
  <1> QED
    BY <1>2, <1>3, <1>4, <1>5, <1>6, <1>7 DEF a, b, c, d

LEMMA ConservedFrames == FramesInv => FramesConserved
  <1> SUFFICES ASSUME FramesInv, phase \notin {"cleanup"} \cup Over
               PROVE  written \o writing \o muxer \o enc \o filter \o frame \o dec
                          = WithHeader([n \in 1..demuxed |-> n])
    BY DEF FramesConserved
  <1>1. written \o writing \o muxer \o enc \o filter \o frame \o dec = Stream
    BY FlatStream DEF FramesInv
  <1>2. CASE phase \in {"init_input", "init_output"}
    <2>1. /\ muxer = <<>> /\ enc = <<>> /\ filter = <<>> /\ frame = <<>> /\ dec = <<>>
          /\ writing = <<>> /\ written = <<>> /\ demuxed = 0
      BY <1>2 DEF FramesInv, Stages, Inv, Untouched
    <2>2. Stream = <<>>
      BY <2>1 DEF Stream, Flown
    <2>3. [n \in 1..demuxed |-> n] = <<>>
      BY <2>1
    <2> QED
      BY <1>1, <1>2, <2>2, <2>3 DEF WithHeader
  <1>3. CASE phase \notin {"init_input", "init_output"}
    <2>1. phase \in {"read_frame", "filter", "encode", "trailer"}
      BY <1>3 DEF FramesInv, Stages, Phases
    <2>2. Stream = <<Header>> \o Numbers(demuxed)
      BY <2>1 DEF FramesInv, Kept
    <2> QED
      BY <1>1, <1>3, <2>2 DEF WithHeader, Numbers
  <1> QED
    BY <1>2, <1>3

\* A call that has returned: nothing is left in the muxer, and get_output_content()
\* gives what was written.
LEMMA WholeFile == FramesInv => FinishedIsWhole
  <1> SUFFICES ASSUME FramesInv, phase = "done"
               PROVE  /\ OutputContent = <<Header>> \o Numbers(demuxed - Len(dec)) \o <<Trailer>>
                      /\ OneEach(upload.packets) => Len(dec) <= upload.lag
                      /\ upload.packets = PacketsRead \o demux \o ibd
                      /\ demuxed = Sum(PacketsRead)
    BY DEF FinishedIsWhole, Numbers, OneEach, Sum
  <1>1. OutputContent = written
    BY InvExact DEF FramesInv, BufferExact
  <1>2. written = <<Header>> \o Numbers(demuxed - Len(dec)) \o <<Trailer>>
    <2>1. muxer = <<>> /\ writing = <<>>
      BY DEF FramesInv, Stages
    <2>2. written \o (<<>> \o <<>>) = written
      BY DEF FramesInv, Inv, Exact
    <2> QED
      BY <2>1, <2>2 DEF FramesInv, Kept
  <1>3. OneEach(upload.packets) => Len(dec) <= upload.lag
    BY DEF FramesInv, Lagging
  <1>4. upload.packets = PacketsRead \o demux \o ibd /\ demuxed = Sum(PacketsRead)
    <2> DEFINE P == Nat \cup {Corrupt}
               all == upload.packets
               rest == demux \o ibd
    <2>1. PICK read \in Seq(Nat) : all = read \o rest /\ demuxed = Sum(read)
      BY DEF FramesInv, Prefix
    <2>2. all \in Seq(P) /\ demux \in Seq(P) /\ ibd \in Seq(P)
      BY TranscoderAssumption DEF FramesInv, Inv, Flow
    <2>3. read \in Seq(P) /\ rest \in Seq(P)
      <3>1. Nat \subseteq P
        OBVIOUS
      <3> HIDE DEF P
      <3> QED
        BY <2>2, <3>1, Widen, Closed
    <2> HIDE DEF P
    <2>4. read \o (demux \o ibd) = (read \o demux) \o ibd
      BY <2>2, <2>3, Regroup
    <2>5. PacketsRead = SubSeq(all, 1, Len(all) - Len(rest))
      BY DEF PacketsRead
    <2> HIDE DEF all, rest
    <2>6. read = PacketsRead
      BY <2>1, <2>2, <2>3, <2>5, Shortened
    <2> QED
      BY <2>1, <2>4, <2>6 DEF all, rest
  <1> QED
    BY <1>1, <1>2, <1>3, <1>4

\* For every upload, decoder delay, block size and way the muxer cuts the file:
\* no frame is dropped, repeated or overtaken on its way from the decoder through
\* filter, encoder, muxer and the callback into the output.
THEOREM NoFrameIsLost == Spec => []FramesConserved
  <1> QED
    BY InitFramesInv, FramesInvStep, ConservedFrames, PTL DEF Spec

\* For the same, and wherever av_read_frame fails: the response of a call that has
\* returned is a header, all the frames of the packets that were read but those
\* the decoder withholds, and a trailer, and these packets are the first ones of
\* the upload.
THEOREM ResponseIsWhole == Spec => []FinishedIsWhole
  <1> QED
    BY InitFramesInv, FramesInvStep, WholeFile, PTL DEF Spec

-----------------------------------------------------------------------------
(* AudioProcessor: the contexts.  Held says more than ContextsHeld: a phase *)
(* has what a later one needs, too.                                         *)

Opening == {"open_input", "open_output", "init_resampler", "init_fifo", "header"}
Running == {"fill", "encode", "trailer"}
Contexts ==
    {"input_io", "input_format", "input_codec", "output_io", "output_format", "output_codec",
     "resample", "fifo"}

Held ==
    /\ open \subseteq Contexts
    /\ at \in (Opening \ {"open_input"}) \cup Running => InputContexts \subseteq open
    /\ at \in {"init_resampler", "init_fifo", "header"} \cup Running => OutputContexts \subseteq open
    /\ at \in {"init_fifo", "header"} \cup Running => "resample" \in open
    /\ at \in {"header"} \cup Running => "fifo" \in open
    /\ at \in {"done", "failed"} => open \subseteq {"input_io", "output_io", "output_format"}

LEMMA InitHeld == ProcessorInit => Held
  BY DEF ProcessorInit, Held, Opening, Running

LEMMA HeldStep == Held /\ [ProcessorNext]_processorVars => Held'
  <1> SUFFICES ASSUME Held, [ProcessorNext]_processorVars PROVE Held'
    OBVIOUS
  <1> USE DEF Held, Opening, Running, Contexts, InputContexts, OutputContexts, GoesOn, Is
  <1>1. CASE OpenInput \/ OpenInputWithoutStreams \/ OpenInputFails
    BY <1>1 DEF OpenInput, OpenInputWithoutStreams, OpenInputFails
  <1>2. CASE OpenOutput
    BY <1>2 DEF OpenOutput
  <1>3. CASE OpenOutputFails
    BY <1>3 DEF OpenOutputFails
  <1>4. CASE InitResampler \/ InitFifo \/ WriteHeader
    BY <1>4 DEF InitResampler, InitFifo, WriteHeader
  <1>5. CASE ReadAhead \/ DecodeFrame \/ EndOfRecording \/ Filled
    BY <1>5 DEF ReadAhead, DecodeFrame, EndOfRecording, Filled
  <1>6. CASE Encode
    BY <1>6 DEF Encode, LoadEncodeWrite, FifoEncoded, WriteFileTrailer, TrailerWritten
  <1>7. CASE HandOut \/ StoreChunk
    BY <1>7 DEF HandOut, StoreChunk, processor
  <1>8. CASE StepFails
    BY <1>8 DEF StepFails
  <1>9. CASE ProcessorCleanup
    BY <1>9 DEF ProcessorCleanup
  <1>10. CASE UNCHANGED processorVars
    BY <1>10 DEF processorVars, processor
  <1> QED
    BY <1>1, <1>2, <1>3, <1>4, <1>5, <1>6, <1>7, <1>8, <1>9, <1>10 DEF ProcessorNext, SetUp

\* For every recording and however the calls succeed or fail: a phase of execute()
\* has the contexts it uses, and none but the three that nothing frees is left
\* when it has returned.
THEOREM CleanupLeavesNoOther == ProcessorSpec => []ContextsHeld
  <1>1. Held => ContextsHeld
    BY DEF Held, ContextsHeld, Opening, Running
  <1> QED
    BY InitHeld, HeldStep, <1>1, PTL DEF ProcessorSpec

-----------------------------------------------------------------------------
(* AudioProcessor: the samples.  As for AP, SamplesFlow says what travels,  *)
(* SampleStages where samples can be, SamplesKept that what has been made   *)
(* and what is on its way make up the recording so far.                     *)

Sample == Nat \cup {WavHeader, WavTrailer}

SamplesFlow ==
    /\ recording \in Recordings
    /\ source \in Seq(Packets) /\ ahead \in Seq(Packets)
    /\ taken \in Nat /\ pts \in Nat
    /\ decoder \in Seq(Seq(Nat)) /\ dropped \in Seq(Nat) /\ fifo \in Seq(Nat)
    /\ container \in Seq(Sample)

SampleStages ==
    /\ at \in Opening => /\ container = <<>> /\ writing = <<>> /\ written = <<>>
                         /\ taken = 0 /\ pts = 0 /\ ~finished
                         /\ decoder = <<>> /\ dropped = <<>> /\ fifo = <<>>
    /\ ~finished => dropped = <<>>
    /\ finished => source = <<>> /\ ahead = <<>>
    /\ at \in {"trailer", "written"} => finished /\ fifo = <<>>
    /\ succeeded => /\ at \in {"cleanup", "done"} /\ finished /\ fifo = <<>>
                    /\ container = <<>> /\ writing = <<>>
    /\ at = "done" => succeeded

Carried == written \o (writing \o container)

SamplesKept ==
    /\ at \in Running =>
        /\ Carried \o (fifo \o Withheld) = <<WavHeader>> \o Numbers(taken)
        /\ Len(Carried) = pts + 1
    /\ at = "written" \/ succeeded =>
        /\ Len(Withheld) <= taken
        /\ Carried = <<WavHeader>> \o Numbers(taken - Len(Withheld)) \o <<WavTrailer>>

Single(packets) == \A k \in 1..Len(packets) : Len(packets[k].frames) <= 1

\* How many frames the decoder withholds when no packet holds more than one.
SamplesLag ==
    Single(recording.packets) =>
        /\ Single(source) /\ Single(ahead)
        /\ Len(decoder) + (IF dropped = <<>> THEN 0 ELSE 1) <= recording.lag

SamplesInv == SamplesFlow /\ Exact(Sample) /\ SampleStages /\ SamplesKept /\ SamplesLag

\* The frames of a packet are runs of numbers.
LEMMA FramesAreRuns ==
    ASSUME taken \in Nat, NEW p \in Packets
    PROVE  /\ p.frames \in Seq(Nat)
           /\ FramesOf(p) = NumberedRuns(p.frames, taken)
           /\ FoldLeft(+, 0, p.frames) = Sum(p.frames)
           /\ Sum(p.frames) \in Nat
  <1> DEFINE s == p.frames
  <1>1. s \in Seq(Nat)
    <2>1. s \in Seq(Nat \ {0}) /\ Nat \ {0} \subseteq Nat
      BY DEF Packets
    <2> QED
      BY <2>1, Widen
  <1>2. \A t : FoldLeft(+, 0, t) = Sum(t)
    BY DEF Sum
  <1> HIDE DEF s
  <1>3. ASSUME NEW k \in DOMAIN s
        PROVE  taken + Sum(SubSeq(s, 1, k - 1)) = taken + Adding(s, k - 1)
    <2>1. k - 1 \in 0..Len(s)
      BY <1>1
    <2> QED
      BY <1>1, <2>1, SumOfPart
  <1>4. FramesOf(p) = [k \in DOMAIN s |->
                         [j \in 1..s[k] |-> taken + FoldLeft(+, 0, SubSeq(s, 1, k - 1)) + j]]
    BY DEF FramesOf, s
  <1>5. FramesOf(p) = [k \in DOMAIN s |-> [j \in 1..s[k] |-> taken + Sum(SubSeq(s, 1, k - 1)) + j]]
    BY <1>4 DEF Sum
  <1>6. ASSUME NEW k \in DOMAIN s
        PROVE  [j \in 1..s[k] |-> taken + Sum(SubSeq(s, 1, k - 1)) + j]
                   = NumbersFrom(taken + Adding(s, k - 1), s[k])
    BY <1>3 DEF NumbersFrom
  <1>7. FramesOf(p) = NumberedRuns(s, taken)
    BY <1>5, <1>6 DEF NumberedRuns
  <1>8. Sum(s) \in Nat
    BY <1>1, SumType
  <1> QED
    BY <1>1, <1>2, <1>7, <1>8 DEF s

LEMMA InitSamplesInv == ProcessorInit => SamplesInv
  <1> SUFFICES ASSUME ProcessorInit PROVE SamplesInv
    OBVIOUS
  <1>1. SamplesFlow
    BY DEF ProcessorInit, SamplesFlow
  <1>2. Exact(Sample)
    BY SMT DEF ProcessorInit, BufferInit, Fresh, Exact
  <1>3. SampleStages
    BY DEF ProcessorInit, BufferInit, SampleStages, Opening
  <1>4. SamplesKept
    BY DEF ProcessorInit, SamplesKept, Running
  <1>5. SamplesLag
    <2>1. recording.lag \in Nat
      BY ProcessorAssumption DEF ProcessorInit
    <2> QED
      BY <2>1 DEF ProcessorInit, SamplesLag, Single
  <1> QED
    BY <1>1, <1>2, <1>3, <1>4, <1>5 DEF SamplesInv

LEMMA SamplesFlowStep == SamplesFlow /\ [ProcessorNext]_processorVars => SamplesFlow'
  <1> SUFFICES ASSUME SamplesFlow, [ProcessorNext]_processorVars PROVE SamplesFlow'
    OBVIOUS
  <1> USE DEF SamplesFlow
  <1>1. CASE OpenInput \/ OpenInputWithoutStreams \/ OpenInputFails
    BY <1>1, ProcessorAssumption DEF OpenInput, OpenInputWithoutStreams, OpenInputFails
  <1>2. CASE OpenOutput \/ OpenOutputFails \/ InitResampler \/ InitFifo
    BY <1>2 DEF OpenOutput, OpenOutputFails, InitResampler, InitFifo
  <1>3. CASE WriteHeader
    BY <1>3 DEF WriteHeader, Sample
  <1>4. CASE ReadAhead
    BY <1>4 DEF ReadAhead
  <1>5. CASE DecodeFrame
    <2>1. Head(ahead) \in Packets /\ ahead' \in Seq(Packets)
      <3>1. ahead # <<>> /\ ahead' = Tail(ahead)
        BY <1>5 DEF DecodeFrame
      <3> QED
        BY <3>1, HeadTailProperties
    <2> DEFINE p == Head(ahead)
               ready == decoder \o FramesOf(p)
    <2>2. taken' \in Nat
      <3>1. taken' = taken + FoldLeft(+, 0, p.frames)
        BY <1>5 DEF DecodeFrame
      <3>2. taken' = taken + Sum(p.frames)
        BY <3>1 DEF Sum
      <3>3. p.frames \in Seq(Nat) /\ Sum(p.frames) \in Nat
        BY <2>1, FramesAreRuns
      <3> QED
        BY <3>2, <3>3
    <2>3. FramesOf(p) \in Seq(Seq(Nat))
      <3>1. p.frames \in Seq(Nat) /\ FramesOf(p) = NumberedRuns(p.frames, taken)
        BY <2>1, FramesAreRuns
      <3> QED
        BY <3>1, NumberedRunsType
    <2>4. ready \in Seq(Seq(Nat))
      BY <2>3, Closed
    <2>5. \/ ready # <<>> /\ decoder' = Tail(ready) /\ fifo' = fifo \o Head(ready)
          \/ decoder' = ready /\ fifo' = fifo
      <3>1. recording.lag \in Nat
        BY ProcessorAssumption
      <3>2. \/ Len(ready) > recording.lag /\ decoder' = Tail(ready) /\ fifo' = fifo \o Head(ready)
            \/ decoder' = ready /\ fifo' = fifo
        BY <1>5 DEF DecodeFrame
      <3> HIDE DEF ready
      <3> QED
        BY <2>4, <3>1, <3>2, SMTT(30)
    <2> HIDE DEF ready
    <2>6. decoder' \in Seq(Seq(Nat)) /\ fifo' \in Seq(Nat)
      <3>1. CASE ready # <<>> /\ decoder' = Tail(ready) /\ fifo' = fifo \o Head(ready)
        <4>1. Head(ready) \in Seq(Nat) /\ Tail(ready) \in Seq(Seq(Nat))
          BY <2>4, <3>1, HeadTailProperties
        <4>2. fifo \o Head(ready) \in Seq(Nat)
          BY <4>1, Closed
        <4> QED
          BY <3>1, <4>1, <4>2
      <3> QED
        BY <2>4, <2>5, <3>1
    <2>7. UNCHANGED <<recording, source, pts, dropped, container>>
      BY <1>5 DEF DecodeFrame
    <2> QED
      BY <2>1, <2>2, <2>6, <2>7
  <1>6. CASE EndOfRecording
    <2>1. \/ UNCHANGED <<decoder, dropped>>
          \/ decoder # <<>> /\ dropped' = Head(decoder) /\ decoder' = Tail(decoder)
      BY <1>6 DEF EndOfRecording
    <2>2. dropped' \in Seq(Nat) /\ decoder' \in Seq(Seq(Nat))
      BY <2>1, HeadTailProperties
    <2> QED
      BY <1>6, <2>2 DEF EndOfRecording
  <1>7. CASE LoadEncodeWrite
    <2>1. PICK n : /\ n = IF Len(fifo) < FrameSize THEN Len(fifo) ELSE FrameSize
                   /\ container' = container \o SubSeq(fifo, 1, n)
                   /\ fifo' = SubSeq(fifo, n + 1, Len(fifo))
                   /\ pts' = pts + n
      BY <1>7 DEF LoadEncodeWrite
    <2>2. n \in 0..Len(fifo)
      BY <2>1, ProcessorAssumption
    <2>3. SubSeq(fifo, 1, n) \in Seq(Nat) /\ fifo' \in Seq(Nat)
      BY <2>1, <2>2, Cut
    <2>4. SubSeq(fifo, 1, n) \in Seq(Sample)
      BY <2>3, Widen, Nat \subseteq Sample DEF Sample
    <2>5. container' \in Seq(Sample)
      BY <2>1, <2>4, Closed
    <2>6. UNCHANGED <<recording, source, ahead, taken, decoder, dropped>>
      BY <1>7 DEF LoadEncodeWrite
    <2>7. pts' \in Nat
      BY <2>1, <2>2, SMTT(30)
    <2> QED
      BY <2>3, <2>5, <2>6, <2>7
  <1>8. CASE Filled \/ FifoEncoded \/ TrailerWritten \/ StepFails \/ ProcessorCleanup
    BY <1>8 DEF Filled, FifoEncoded, TrailerWritten, StepFails, ProcessorCleanup
  <1>9. CASE WriteFileTrailer
    BY <1>9 DEF WriteFileTrailer, Sample
  <1>10. CASE HandOut
    BY <1>10 DEF HandOut
  <1>11. CASE StoreChunk \/ UNCHANGED processorVars
    BY <1>11 DEF StoreChunk, processorVars, processor
  <1> QED
    BY <1>1, <1>2, <1>3, <1>4, <1>5, <1>6, <1>7, <1>8, <1>9, <1>10, <1>11
       DEF ProcessorNext, SetUp, Encode

LEMMA SamplesExactStep == SamplesInv /\ [ProcessorNext]_processorVars => Exact(Sample)'
  <1> SUFFICES ASSUME SamplesInv, [ProcessorNext]_processorVars PROVE Exact(Sample)'
    OBVIOUS
  <1>0. Exact(Sample)
    BY DEF SamplesInv
  <1>1. CASE OpenOutput \/ OpenOutputFails
    <2>1. writing = <<>> /\ written = <<>> /\ ResetBuffer
      BY <1>1 DEF OpenOutput, OpenOutputFails, GoesOn, Is, SamplesInv, SampleStages, Opening
    <2> QED
      BY <1>0, <2>1, ResetExact
  <1>2. CASE HandOut
    <2>1. PICK n \in 1..Len(container) : WritePacket(SubSeq(container, 1, n))
      BY <1>2 DEF HandOut
    <2>2. SubSeq(container, 1, n) \in Seq(Sample)
      BY DEF SamplesInv, SamplesFlow
    <2> QED
      BY <1>0, <2>1, <2>2, WritePacketExact
  <1>3. CASE StoreChunk
    BY <1>0, <1>3, GrowExact, CopyExact DEF StoreChunk
  <1>4. CASE UNCHANGED buffer
    BY <1>0, <1>4, BufferKept
  <1>5. \/ OpenOutput \/ OpenOutputFails \/ HandOut \/ StoreChunk \/ UNCHANGED buffer
    BY DEF ProcessorNext, SetUp, OpenInput, OpenInputWithoutStreams, OpenInputFails, InitResampler,
           InitFifo, WriteHeader, ReadAhead, DecodeFrame, EndOfRecording, Filled, Encode,
           LoadEncodeWrite, FifoEncoded, WriteFileTrailer, TrailerWritten, StepFails,
           ProcessorCleanup, processorVars
  <1> QED
    BY <1>1, <1>2, <1>3, <1>4, <1>5

LEMMA SampleStagesStep == SamplesInv /\ [ProcessorNext]_processorVars => SampleStages'
  <1> SUFFICES ASSUME SamplesInv, [ProcessorNext]_processorVars PROVE SampleStages'
    OBVIOUS
  <1>0. SampleStages /\ recording.lag \in Nat /\ decoder \in Seq(Seq(Nat))
    BY ProcessorAssumption DEF SamplesInv, SamplesFlow
  <1> USE DEF SampleStages, Opening, GoesOn, Is
  <1>1. CASE OpenInput \/ OpenInputWithoutStreams \/ OpenInputFails
    BY <1>0, <1>1 DEF OpenInput, OpenInputWithoutStreams, OpenInputFails, buffer
  <1>2. CASE OpenOutput \/ OpenOutputFails
    BY <1>0, <1>2 DEF OpenOutput, OpenOutputFails, ResetBuffer
  <1>3. CASE InitResampler \/ InitFifo \/ WriteHeader
    BY <1>0, <1>3 DEF InitResampler, InitFifo, WriteHeader, buffer
  <1>4. CASE ReadAhead \/ DecodeFrame
    <2>1. /\ at = "fill" /\ ~finished
          /\ UNCHANGED <<at, finished, succeeded, dropped, writing>>
      BY <1>4, Zenon DEF ReadAhead, DecodeFrame, Fills, buffer
    <2>2. ~succeeded
      BY <1>0, <2>1
    <2>3. dropped = <<>>
      BY <1>0, <2>1
    <2> QED
      BY <2>1, <2>2, <2>3
  <1>5. CASE EndOfRecording
    <2>1. at = "fill" /\ ahead = <<>> /\ source = <<>> /\ finished'
          /\ UNCHANGED <<at, source, ahead, succeeded, writing>>
      BY <1>5, Zenon DEF EndOfRecording, Fills, buffer
    <2>2. ~succeeded
      BY <1>0, <2>1
    <2> QED
      BY <2>1, <2>2
  <1>6. CASE Filled \/ LoadEncodeWrite \/ FifoEncoded
    BY <1>0, <1>6 DEF Filled, LoadEncodeWrite, FifoEncoded, HasFrame, buffer
  <1>7. CASE WriteFileTrailer \/ TrailerWritten
    BY <1>0, <1>7 DEF WriteFileTrailer, TrailerWritten, buffer
  <1>8. CASE HandOut
    <2>1. container # <<>>
      BY <1>8 DEF HandOut
    <2>2. ~succeeded /\ at \notin Opening
      BY <1>0, <2>1
    <2> QED
      BY <1>0, <1>8, <2>2 DEF HandOut
  <1>9. CASE StoreChunk
    <2>1. writing # <<>>
      BY <1>9 DEF StoreChunk, Grow, Copy, SamplesInv, Exact
    <2>2. ~succeeded /\ at \notin Opening
      BY <1>0, <2>1
    <2> QED
      BY <1>0, <1>9, <2>2 DEF StoreChunk, processor
  <1>10. CASE StepFails \/ ProcessorCleanup
    BY <1>0, <1>10 DEF StepFails, ProcessorCleanup, buffer
  <1>11. CASE UNCHANGED processorVars
    BY <1>0, <1>11 DEF processorVars, processor, buffer
  <1> QED
    BY <1>1, <1>2, <1>3, <1>4, <1>5, <1>6, <1>7, <1>8, <1>9, <1>10, <1>11
       DEF ProcessorNext, SetUp, Encode

LEMMA SamplesLagStep == SamplesInv /\ [ProcessorNext]_processorVars => SamplesLag'
  <1> SUFFICES ASSUME SamplesInv, [ProcessorNext]_processorVars, Single(recording'.packets)
               PROVE  /\ Single(source') /\ Single(ahead')
                      /\ Len(decoder') + (IF dropped' = <<>> THEN 0 ELSE 1) <= recording'.lag
    BY DEF SamplesLag, Single
  <1>0. /\ recording' = recording /\ recording.lag \in Nat
        /\ decoder \in Seq(Seq(Nat)) /\ source \in Seq(Packets) /\ ahead \in Seq(Packets)
    <2>1. recording' = recording
      BY DEF ProcessorNext, SetUp, OpenInput, OpenInputWithoutStreams, OpenInputFails, OpenOutput,
             OpenOutputFails, InitResampler, InitFifo, WriteHeader, ReadAhead, DecodeFrame,
             EndOfRecording, Filled, Encode, LoadEncodeWrite, FifoEncoded, WriteFileTrailer,
             TrailerWritten, HandOut, StoreChunk, StepFails, ProcessorCleanup, processorVars,
             processor
    <2> QED
      BY <2>1, ProcessorAssumption DEF SamplesInv, SamplesFlow
  <1>1. /\ Single(recording.packets) /\ Single(source) /\ Single(ahead)
        /\ Len(decoder) + (IF dropped = <<>> THEN 0 ELSE 1) <= recording.lag
    BY <1>0 DEF SamplesInv, SamplesLag
  <1>2. CASE OpenInput
    BY <1>0, <1>1, <1>2 DEF OpenInput
  <1>3. CASE ReadAhead
    <2>1. PICK n \in 1..Len(source) :
            /\ ahead' = SubSeq(source, 1, n)
            /\ source' = SubSeq(source, n + 1, Len(source))
      BY <1>3 DEF ReadAhead
    <2>2. UNCHANGED <<decoder, dropped>>
      BY <1>3 DEF ReadAhead
    <2>3. Single(ahead') /\ Single(source')
      BY <1>0, <1>1, <2>1 DEF Single
    <2> QED
      BY <1>0, <1>1, <2>2, <2>3
  <1>4. CASE DecodeFrame
    <2> DEFINE p == Head(ahead)
               more == FramesOf(p)
               ready == decoder \o more
    <2>1. /\ ahead # <<>> /\ ahead' = Tail(ahead) /\ source' = source /\ dropped' = dropped
          /\ ~finished
      BY <1>4 DEF DecodeFrame, Fills
    <2>2. Single(ahead')
      BY <1>0, <1>1, <2>1 DEF Single
    <2>3. dropped = <<>>
      BY <2>1 DEF SamplesInv, SampleStages
    <2>4. p \in Packets /\ Len(p.frames) <= 1
      BY <1>0, <1>1, <2>1 DEF Single
    <2>5. more \in Seq(Seq(Nat)) /\ Len(more) = Len(p.frames) /\ Len(p.frames) \in Nat
      <3>1. taken \in Nat
        BY DEF SamplesInv, SamplesFlow
      <3>2. p.frames \in Seq(Nat) /\ more = NumberedRuns(p.frames, taken)
        BY <2>4, <3>1, FramesAreRuns
      <3> DEFINE f == p.frames
      <3>3. f \in Seq(Nat) /\ more = NumberedRuns(f, taken)
        BY <3>2
      <3> HIDE DEF more, f
      <3>4. more \in Seq(Seq(Nat))
        BY <3>1, <3>3, NumberedRunsType
      <3>5. DOMAIN more = DOMAIN f
        BY <3>3 DEF NumberedRuns
      <3>6. Len(more) = Len(f) /\ Len(f) \in Nat
        BY <3>3, <3>4, <3>5
      <3> QED
        BY <3>4, <3>6 DEF f
    <2>6. ready \in Seq(Seq(Nat)) /\ Len(ready) = Len(decoder) + Len(more)
      <3> HIDE DEF more
      <3> QED
        BY <1>0, <2>5, Joined
    <2>7. \/ Len(ready) > recording.lag /\ decoder' = Tail(ready)
          \/ ~(Len(ready) > recording.lag) /\ decoder' = ready
      BY <1>4 DEF DecodeFrame
    <2> HIDE DEF p, more, ready
    <2>8. Len(ready) <= recording.lag + 1 /\ Len(decoder) \in Nat
      BY <1>0, <1>1, <2>3, <2>4, <2>5, <2>6
    <2>9. Len(decoder') <= recording.lag /\ Len(decoder') \in Nat
      <3>1. CASE Len(ready) > recording.lag /\ decoder' = Tail(ready)
        <4>1. ready # <<>>
          BY <1>0, <2>6, <3>1
        <4>2. Len(decoder') = Len(ready) - 1 /\ Len(ready) \in Nat
          BY <2>6, <3>1, <4>1, HeadTailProperties
        <4> QED
          BY <1>0, <2>8, <3>1, <4>2
      <3>2. CASE ~(Len(ready) > recording.lag) /\ decoder' = ready
        BY <1>0, <2>6, <3>2
      <3> QED
        BY <2>7, <3>1, <3>2
    <2> QED
      BY <1>0, <1>1, <2>1, <2>2, <2>3, <2>9
  <1>5. CASE EndOfRecording
    <2>1. dropped = <<>> /\ UNCHANGED <<source, ahead>>
      BY <1>5 DEF EndOfRecording, Fills, SamplesInv, SampleStages
    <2>2. Len(decoder') + (IF dropped' = <<>> THEN 0 ELSE 1) <= recording.lag
      <3>1. CASE decoder = <<>>
        BY <1>0, <1>1, <1>5, <3>1 DEF EndOfRecording
      <3>2. CASE decoder # <<>>
        <4>1. decoder' = Tail(decoder)
          BY <1>5, <3>2 DEF EndOfRecording
        <4>2. Len(decoder') = Len(decoder) - 1 /\ Len(decoder) \in Nat
          BY <1>0, <3>2, <4>1, HeadTailProperties
        <4> QED
          BY <1>0, <1>1, <2>1, <4>2
      <3> QED
        BY <3>1, <3>2
    <2> QED
      BY <1>0, <1>1, <2>1, <2>2
  <1>6. CASE UNCHANGED <<source, ahead, decoder, dropped>>
    BY <1>0, <1>1, <1>6
  <1>7. OpenInput \/ ReadAhead \/ DecodeFrame \/ EndOfRecording
        \/ UNCHANGED <<source, ahead, decoder, dropped>>
    BY DEF ProcessorNext, SetUp, OpenInputWithoutStreams, OpenInputFails, OpenOutput,
           OpenOutputFails, InitResampler, InitFifo, WriteHeader, Filled, Encode, LoadEncodeWrite,
           FifoEncoded, WriteFileTrailer, TrailerWritten, HandOut, StoreChunk, StepFails,
           ProcessorCleanup, processorVars, processor
  <1> QED
    BY <1>2, <1>3, <1>4, <1>5, <1>6, <1>7

LEMMA RegroupSamples ==
    ASSUME NEW p \in Seq(Sample), NEW q \in Seq(Sample), NEW r \in Seq(Sample)
    PROVE  p \o (q \o r) = (p \o q) \o r
  BY Regroup, SMTT(30)

LEMMA RegroupNumbers ==
    ASSUME NEW p \in Seq(Nat), NEW q \in Seq(Nat), NEW r \in Seq(Nat)
    PROVE  p \o (q \o r) = (p \o q) \o r
  BY Regroup, SMTT(30)

\* The muxer hands a chunk of what it stores to the callback.
LEMMA ChunkMoves ==
    ASSUME NEW C, writing \in Seq(C), written \in Seq(C), NEW store \in Seq(C),
           NEW n \in 1..Len(store), WritePacket(SubSeq(store, 1, n))
    PROVE  written' \o (writing' \o SubSeq(store, n + 1, Len(store)))
               = written \o (writing \o store)
  <1> DEFINE a == SubSeq(store, 1, n)
             b == SubSeq(store, n + 1, Len(store))
  <1>1. writing = <<>> /\ written' = written /\ writing' = a
    BY DEF WritePacket
  <1>2. a \o b = store
    <2>1. n \in 0..Len(store)
      OBVIOUS
    <2> QED
      BY <2>1, Cut
  <1> HIDE DEF a, b
  <1>3. <<>> \o store = store
    BY ConcatEmptySeq
  <1> QED
    BY <1>1, <1>2, <1>3 DEF b

\* The callback stores it.
LEMMA CopyMoves ==
    ASSUME NEW C, writing \in Seq(C), written \in Seq(C), NEW rest \in Seq(C), Copy
    PROVE  written' \o (writing' \o rest) = written \o (writing \o rest)
  <1>1. written' = written \o writing /\ writing' = <<>>
    BY DEF Copy
  <1>2. <<>> \o rest = rest
    BY ConcatEmptySeq
  <1>3. written \o (writing \o rest) = (written \o writing) \o rest
    BY Regroup
  <1> QED
    BY <1>1, <1>2, <1>3

LEMMA SamplesTravel ==
    ASSUME SamplesFlow, Exact(Sample)
    PROVE  /\ writing \in Seq(Sample) /\ written \in Seq(Sample) /\ container \in Seq(Sample)
           /\ Carried \in Seq(Sample)
           /\ fifo \in Seq(Sample) /\ dropped \in Seq(Sample)
           /\ FlattenSeq(decoder) \in Seq(Nat)
           /\ Withheld \in Seq(Nat) /\ Withheld \in Seq(Sample)
  <1>1. Nat \subseteq Sample
    BY DEF Sample
  <1>2. writing \in Seq(Sample) /\ written \in Seq(Sample) /\ container \in Seq(Sample)
    BY DEF SamplesFlow, Exact
  <1>3. Carried \in Seq(Sample)
    BY <1>2, Closed DEF Carried
  <1>4. fifo \in Seq(Sample) /\ dropped \in Seq(Sample)
    BY <1>1, Widen DEF SamplesFlow
  <1>5. FlattenSeq(decoder) \in Seq(Nat)
    BY FlattenType DEF SamplesFlow
  <1>6. Withheld \in Seq(Nat)
    BY <1>5, Closed DEF Withheld, SamplesFlow
  <1>7. Withheld \in Seq(Sample)
    BY <1>1, <1>6, Widen
  <1> QED
    BY <1>2, <1>3, <1>4, <1>5, <1>6, <1>7

\* The muxer and the callback only move bytes on.
LEMMA CarriedMoves ==
    ASSUME SamplesFlow, Exact(Sample), HandOut \/ StoreChunk
    PROVE  Carried' = Carried /\ UNCHANGED <<at, taken, decoder, dropped, fifo, pts, succeeded>>
  <1>0. writing \in Seq(Sample) /\ written \in Seq(Sample) /\ container \in Seq(Sample)
    BY SamplesTravel
  <1>1. CASE HandOut
    <2>1. PICK n \in 1..Len(container) :
            /\ WritePacket(SubSeq(container, 1, n))
            /\ container' = SubSeq(container, n + 1, Len(container))
      BY <1>1 DEF HandOut
    <2>2. written' \o (writing' \o container') = written \o (writing \o container)
      BY <1>0, <2>1, ChunkMoves
    <2> QED
      BY <1>1, <2>2 DEF Carried, HandOut
  <1>2. CASE StoreChunk
    <2>1. UNCHANGED <<at, taken, decoder, dropped, fifo, pts, succeeded, container>>
      BY <1>2 DEF StoreChunk, processor
    <2>2. CASE Grow
      BY <2>1, <2>2 DEF Grow, Carried
    <2>3. CASE Copy
      <3>1. written' \o (writing' \o container) = written \o (writing \o container)
        BY <1>0, <2>3, CopyMoves
      <3> QED
        BY <2>1, <3>1 DEF Carried
    <2> QED
      BY <1>2, <2>2, <2>3 DEF StoreChunk
  <1> QED
    BY <1>1, <1>2

\* A packet: its samples are numbered on, and one frame goes to the FIFO at most.
LEMMA DecodeFrameMoves ==
    ASSUME SamplesInv, DecodeFrame
    PROVE  /\ at = "fill" /\ UNCHANGED <<at, pts, succeeded>> /\ Carried' = Carried
           /\ Carried' \o (fifo' \o Withheld') = <<WavHeader>> \o Numbers(taken')
  <1>0. SamplesFlow /\ Exact(Sample) /\ SampleStages /\ SamplesKept
    BY DEF SamplesInv
  <1>1. at = "fill" /\ UNCHANGED <<at, pts, succeeded, dropped, container, writing, written>>
        /\ ~finished
    BY Zenon DEF DecodeFrame, Fills, Is, buffer
  <1>2. dropped = <<>>
    BY <1>0, <1>1 DEF SampleStages
  <1> DEFINE p == Head(ahead)
             n == Sum(p.frames)
             more == FramesOf(p)
             ready == decoder \o more
             run == NumbersFrom(taken, n)
             d == FlattenSeq(decoder)
  <1>3. p \in Packets
    BY <1>0, HeadTailProperties DEF SamplesFlow, DecodeFrame
  <1>4. p.frames \in Seq(Nat) /\ more = NumberedRuns(p.frames, taken) /\ n \in Nat
    BY <1>0, <1>3, FramesAreRuns DEF SamplesFlow
  <1>5. taken' = taken + n /\ taken \in Nat
    BY <1>0 DEF DecodeFrame, Sum, SamplesFlow
  <1>6. more \in Seq(Seq(Nat)) /\ FlattenSeq(more) = run /\ run \in Seq(Nat)
    <2>1. more \in Seq(Seq(Nat))
      BY <1>4, <1>5, NumberedRunsType
    <2>2. FlattenSeq(more) = NumbersFrom(taken, n)
      BY <1>4, <1>5, NumberedRunsFlatten
    <2>3. NumbersFrom(taken, n) \in Seq(Nat)
      BY <1>4, <1>5, NumbersFromType
    <2> QED
      BY <2>1, <2>2, <2>3
  <1>7. decoder \in Seq(Seq(Nat)) /\ fifo \in Seq(Nat) /\ d \in Seq(Nat) /\ recording.lag \in Nat
    BY <1>0, SamplesTravel, ProcessorAssumption DEF SamplesFlow
  <1>8. ready \in Seq(Seq(Nat)) /\ FlattenSeq(ready) = d \o run
    <2> HIDE DEF more
    <2>1. FlattenSeq(ready) = FlattenSeq(decoder) \o FlattenSeq(more)
      BY <1>6, <1>7, FlattenConcat
    <2>2. ready \in Seq(Seq(Nat))
      BY <1>6, <1>7, Closed
    <2> QED
      BY <1>6, <2>1, <2>2
  <1>9. \/ Len(ready) > recording.lag /\ decoder' = Tail(ready) /\ fifo' = fifo \o Head(ready)
        \/ decoder' = ready /\ fifo' = fifo
    BY DEF DecodeFrame
  <1> HIDE DEF p, n, more, ready, run, d
  <1>10. fifo' \o FlattenSeq(decoder') = fifo \o (d \o run)
    <2>1. CASE Len(ready) > recording.lag /\ decoder' = Tail(ready) /\ fifo' = fifo \o Head(ready)
      <3> DEFINE h == Head(ready)
                 t == Tail(ready)
                 f == FlattenSeq(t)
      <3>1. ready # <<>>
        BY <1>7, <1>8, <2>1
      <3>2. h \in Seq(Nat) /\ t \in Seq(Seq(Nat)) /\ ready = <<h>> \o t /\ <<h>> \in Seq(Seq(Nat))
        BY <1>8, <3>1, HeadTailProperties
      <3> HIDE DEF h, t
      <3>3. FlattenSeq(ready) = FlattenSeq(<<h>>) \o f
        BY <3>2, FlattenConcat
      <3>4. FlattenSeq(<<h>>) = h
        BY <3>2, FlattenOne
      <3>5. f \in Seq(Nat)
        BY <3>2, FlattenType
      <3> HIDE DEF f
      <3>6. fifo \o (h \o f) = (fifo \o h) \o f
        <4>1. fifo \in Seq(Nat) /\ h \in Seq(Nat) /\ f \in Seq(Nat)
          BY <1>7, <3>2, <3>5
        <4> QED
          BY <4>1, RegroupNumbers
      <3> QED
        BY <1>8, <2>1, <3>3, <3>4, <3>6 DEF h, t, f
    <2>2. CASE decoder' = ready /\ fifo' = fifo
      BY <1>8, <2>2
    <2> QED
      BY <1>9, <2>1, <2>2
  <1>11. Withheld' = FlattenSeq(decoder') /\ Withheld = d
    <2>1. Withheld' = dropped' \o FlattenSeq(decoder') /\ Withheld = dropped \o d
      BY DEF Withheld, d
    <2>2. <<>> \o d = d
      BY <1>7, ConcatEmptySeq
    <2>3. <<>> \o FlattenSeq(decoder') = FlattenSeq(decoder')
      <3>1. SamplesFlow'
        BY <1>0, SamplesFlowStep DEF ProcessorNext
      <3>2. decoder' \in Seq(Seq(Nat))
        BY <3>1 DEF SamplesFlow
      <3>3. FlattenSeq(decoder') \in Seq(Nat)
        BY <3>2, FlattenType
      <3> QED
        BY <3>3, ConcatEmptySeq
    <2> QED
      BY <1>1, <1>2, <2>1, <2>2, <2>3
  <1>12. Carried' = Carried
    BY <1>1 DEF Carried
  <1>13. Carried \o (fifo \o d) = <<WavHeader>> \o Numbers(taken)
    BY <1>0, <1>1, <1>11 DEF SamplesKept, Running
  <1> DEFINE all == fifo \o d
  <1>14. /\ Carried \in Seq(Sample) /\ all \in Seq(Sample) /\ run \in Seq(Sample)
         /\ fifo \in Seq(Sample) /\ d \in Seq(Sample)
    <2>1. Nat \subseteq Sample
      BY DEF Sample
    <2>2. d \in Seq(Sample) /\ fifo \in Seq(Sample) /\ run \in Seq(Sample)
      BY <1>6, <1>7, <2>1, Widen
    <2>3. all \in Seq(Sample)
      BY <2>2, Closed
    <2> QED
      BY <1>0, <2>2, <2>3, SamplesTravel
  <1>15. fifo \o (d \o run) = all \o run
    BY <1>14, RegroupSamples
  <1> HIDE DEF all
  <1>16. Carried \o (all \o run) = (Carried \o all) \o run
    BY <1>14, RegroupSamples, SMTT(30)
  <1>17. (<<WavHeader>> \o Numbers(taken)) \o run = <<WavHeader>> \o Numbers(taken + n)
    <2>1. Numbers(taken) = NumbersFrom(0, taken) /\ Numbers(taken + n) = NumbersFrom(0, taken + n)
      BY <1>4, <1>5 DEF Numbers, NumbersFrom
    <2>2. NumbersFrom(0, taken) \o run = NumbersFrom(0, taken + n)
      <3>1. 0 \in Nat /\ 0 + taken = taken
        BY <1>5
      <3>2. NumbersFrom(0, taken) \o NumbersFrom(0 + taken, n) = NumbersFrom(0, taken + n)
        BY <1>4, <1>5, <3>1, NumbersFromConcat
      <3> QED
        BY <3>1, <3>2 DEF run
    <2>3. Numbers(taken) \in Seq(Sample) /\ <<WavHeader>> \in Seq(Sample)
      <3>1. NumbersFrom(0, taken) \in Seq(Nat) /\ Nat \subseteq Sample
        BY <1>5, NumbersFromType DEF Sample
      <3> QED
        BY <2>1, <3>1, Widen DEF Sample
    <2>4. <<WavHeader>> \o (Numbers(taken) \o run) = (<<WavHeader>> \o Numbers(taken)) \o run
      BY <1>14, <2>3, RegroupSamples, SMTT(30)
    <2> QED
      BY <2>1, <2>2, <2>4
  <1> QED
    BY <1>1, <1>5, <1>10, <1>11, <1>12, <1>13, <1>15, <1>16, <1>17 DEF all

\* The end: the frame that is freed comes before those that are still withheld.
LEMMA EndOfRecordingMoves ==
    ASSUME SamplesInv, EndOfRecording
    PROVE  /\ UNCHANGED <<at, taken, fifo, pts, succeeded>> /\ Carried' = Carried
           /\ Withheld' = Withheld /\ at = "fill"
  <1>0. SamplesFlow /\ Exact(Sample) /\ SampleStages
    BY DEF SamplesInv
  <1>1. /\ UNCHANGED <<at, taken, fifo, pts, succeeded, container, writing, written>>
        /\ at = "fill" /\ ~finished
    BY Zenon DEF EndOfRecording, Fills, Is, buffer
  <1>2. Carried' = Carried
    BY <1>1 DEF Carried
  <1>3. Withheld' = Withheld
    <2>1. CASE decoder = <<>>
      BY <2>1 DEF EndOfRecording, Withheld
    <2>2. CASE decoder # <<>>
      <3> DEFINE h == Head(decoder)
                 t == Tail(decoder)
      <3>1. dropped = <<>> /\ dropped' = h /\ decoder' = t
        BY <1>0, <1>1, <2>2 DEF EndOfRecording, SampleStages
      <3>2. h \in Seq(Nat) /\ t \in Seq(Seq(Nat)) /\ decoder = <<h>> \o t /\ <<h>> \in Seq(Seq(Nat))
        BY <1>0, <2>2, HeadTailProperties DEF SamplesFlow
      <3> HIDE DEF h, t
      <3>3. FlattenSeq(decoder) = FlattenSeq(<<h>>) \o FlattenSeq(t)
        BY <3>2, FlattenConcat
      <3>4. FlattenSeq(<<h>>) = h
        BY <3>2, FlattenOne
      <3>5. <<>> \o FlattenSeq(decoder) = FlattenSeq(decoder)
        BY <1>0, SamplesTravel, ConcatEmptySeq
      <3> QED
        BY <3>1, <3>3, <3>4, <3>5 DEF Withheld
    <2> QED
      BY <2>1, <2>2
  <1> QED
    BY <1>1, <1>2, <1>3

\* A frame of samples goes from the FIFO to the muxer.
LEMMA LoadEncodeWriteMoves ==
    ASSUME SamplesInv, LoadEncodeWrite
    PROVE  /\ at = "encode" /\ UNCHANGED <<at, taken, succeeded, Withheld>>
           /\ Carried' \o (fifo' \o Withheld') = Carried \o (fifo \o Withheld)
           /\ Len(Carried') = Len(Carried) + (pts' - pts)
  <1>0. SamplesFlow /\ Exact(Sample)
    BY DEF SamplesInv
  <1>1. at = "encode" /\ UNCHANGED <<at, taken, succeeded, dropped, decoder, writing, written>>
    BY Zenon DEF LoadEncodeWrite, Is, buffer
  <1>2. Withheld' = Withheld
    BY <1>1 DEF Withheld
  <1>3. PICK n : /\ n = IF Len(fifo) < FrameSize THEN Len(fifo) ELSE FrameSize
                 /\ container' = container \o SubSeq(fifo, 1, n)
                 /\ fifo' = SubSeq(fifo, n + 1, Len(fifo))
                 /\ pts' = pts + n
    BY DEF LoadEncodeWrite
  <1>4. n \in 0..Len(fifo) /\ pts \in Nat /\ fifo \in Seq(Sample)
    BY <1>0, <1>3, ProcessorAssumption, SamplesTravel DEF SamplesFlow
  <1> DEFINE a == SubSeq(fifo, 1, n)
             b == SubSeq(fifo, n + 1, Len(fifo))
  <1>5. a \in Seq(Sample) /\ b \in Seq(Sample) /\ a \o b = fifo /\ Len(a) = n
    BY <1>4, Cut
  <1> HIDE DEF a, b
  <1>6. Carried' = Carried \o a
    <2> DEFINE x == writing \o container
    <2>1. writing \in Seq(Sample) /\ container \in Seq(Sample) /\ written \in Seq(Sample)
      BY <1>0, SamplesTravel
    <2>2. x \in Seq(Sample)
      BY <2>1, Closed
    <2>3. writing \o (container \o a) = x \o a
      BY <1>5, <2>1, RegroupSamples, SMTT(30)
    <2> HIDE DEF x
    <2>4. written \o (x \o a) = (written \o x) \o a
      <3>1. written \in Seq(Sample) /\ x \in Seq(Sample) /\ a \in Seq(Sample)
        BY <1>5, <2>1, <2>2
      <3> QED
        BY <3>1, RegroupSamples
    <2>5. Carried' = written \o (writing \o (container \o a))
      BY <1>1, <1>3 DEF Carried, a
    <2> QED
      BY <2>3, <2>4, <2>5 DEF Carried, x
  <1>7. Withheld \in Seq(Sample) /\ Carried \in Seq(Sample)
    BY <1>0, SamplesTravel
  <1>8. Carried' \o (b \o Withheld) = Carried \o (fifo \o Withheld)
    <2> DEFINE w == Withheld
               c == Carried
               r == b \o w
    <2>1. w \in Seq(Sample) /\ c \in Seq(Sample) /\ r \in Seq(Sample)
      BY <1>5, <1>7, Closed
    <2>2. a \o r = (a \o b) \o w
      <3> HIDE DEF w, c
      <3> QED
        BY <1>5, <2>1, RegroupSamples
    <2> HIDE DEF w, c, r
    <2>3. c \o (a \o r) = (c \o a) \o r
      BY <1>5, <2>1, RegroupSamples, SMTT(30)
    <2> QED
      BY <1>5, <1>6, <2>2, <2>3 DEF w, c, r
  <1>9. Len(Carried') = Len(Carried) + n
    BY <1>5, <1>6, <1>7, Joined
  <1>10. pts' - pts = n
    BY <1>3, <1>4
  <1> QED
    BY <1>1, <1>2, <1>3, <1>8, <1>9, <1>10 DEF b

\* The trailer closes what is there, which is the recording without what the
\* decoder withheld.
LEMMA WriteFileTrailerMoves ==
    ASSUME SamplesInv, WriteFileTrailer
    PROVE  /\ at' = "written" /\ UNCHANGED <<taken, succeeded, Withheld>>
           /\ Len(Withheld) <= taken
           /\ Carried' = <<WavHeader>> \o Numbers(taken - Len(Withheld)) \o <<WavTrailer>>
  <1>0. SamplesFlow /\ Exact(Sample) /\ SampleStages /\ SamplesKept
    BY DEF SamplesInv
  <1>1. /\ at = "trailer" /\ at' = "written"
        /\ UNCHANGED <<taken, succeeded, dropped, decoder, writing, written>>
        /\ container' = Append(container, WavTrailer)
    BY Zenon DEF WriteFileTrailer, GoesOn, Is, buffer
  <1>2. Withheld' = Withheld /\ fifo = <<>>
    BY <1>0, <1>1 DEF Withheld, SampleStages
  <1> DEFINE w == Withheld
             c == Carried
             t == <<WavTrailer>>
             u == <<WavHeader>> \o Numbers(taken)
             m == taken - Len(w)
  <1>3. w \in Seq(Sample) /\ c \in Seq(Sample) /\ t \in Seq(Sample) /\ taken \in Nat /\ pts \in Nat
    BY <1>0, SamplesTravel DEF Sample, SamplesFlow
  <1>4. c \o w = u /\ Len(c) = pts + 1
    <2>1. c \o (<<>> \o w) = u /\ Len(c) = pts + 1
      BY <1>0, <1>1, <1>2 DEF SamplesKept, Running
    <2>2. <<>> \o w = w
      BY <1>3, ConcatEmptySeq
    <2> QED
      BY <2>1, <2>2
  <1>5. u \in Seq(Sample) /\ Len(u) = taken + 1
    <2>1. Numbers(taken) \in [1..taken -> Sample] /\ <<WavHeader>> \in Seq(Sample)
      BY DEF Numbers, Sample
    <2>2. Numbers(taken) \in Seq(Sample) /\ Len(Numbers(taken)) = taken
      BY <1>3, <2>1, FunctionIsSequence
    <2> QED
      BY <2>1, <2>2, Joined
  <1> HIDE DEF w, c, u
  <1>6. Len(w) <= Len(u) /\ c = SubSeq(u, 1, Len(u) - Len(w)) /\ Len(u) = Len(c) + Len(w)
    BY <1>3, <1>4, <1>5, Shortened, Joined
  <1>7. m \in 0..taken /\ Len(u) - Len(w) = m + 1
    BY <1>3, <1>4, <1>5, <1>6
  <1>8. c = <<WavHeader>> \o Numbers(m)
    BY <1>3, <1>6, <1>7, HeaderShortened DEF u
  <1>9. Carried' = c \o t
    <2> DEFINE x == writing \o container
    <2>1. writing \in Seq(Sample) /\ container \in Seq(Sample) /\ written \in Seq(Sample)
      BY <1>0, SamplesTravel
    <2>2. x \in Seq(Sample) /\ container' = container \o t
      BY <1>1, <2>1, Closed, AppendIsConcat
    <2> HIDE DEF t
    <2>6. t \in Seq(Sample)
      BY <1>3
    <2>3. writing \o (container \o t) = x \o t
      BY <2>1, <2>6, RegroupSamples
    <2> HIDE DEF x
    <2>4. written \o (x \o t) = (written \o x) \o t
      <3>1. x \in Seq(Sample)
        BY <2>2
      <3> QED
        BY <2>1, <2>6, <3>1, RegroupSamples, SMTT(30)
    <2>5. Carried' = written \o (writing \o (container \o t))
      BY <1>1, <2>2 DEF Carried
    <2> QED
      BY <2>3, <2>4, <2>5 DEF Carried, x, c
  <1> QED
    BY <1>1, <1>2, <1>3, <1>7, <1>8, <1>9 DEF w

LEMMA SamplesKeptStep == SamplesInv /\ [ProcessorNext]_processorVars => SamplesKept'
  <1> SUFFICES ASSUME SamplesInv, [ProcessorNext]_processorVars PROVE SamplesKept'
    OBVIOUS
  <1>0. SamplesFlow /\ Exact(Sample) /\ SampleStages /\ SamplesKept
    BY DEF SamplesInv
  <1>1. CASE OpenInput \/ OpenInputWithoutStreams \/ OpenInputFails \/ OpenOutput
             \/ OpenOutputFails \/ InitResampler \/ InitFifo
    <2>1. at \in Opening /\ at' \notin Running \cup {"written"} /\ succeeded' = succeeded
      BY <1>1 DEF OpenInput, OpenInputWithoutStreams, OpenInputFails, OpenOutput, OpenOutputFails,
                  InitResampler, InitFifo, GoesOn, Is, Opening, Running
    <2>2. ~succeeded
      BY <1>0, <2>1 DEF SampleStages, Opening
    <2> QED
      BY <2>1, <2>2 DEF SamplesKept
  <1>2. CASE WriteHeader
    <2>1. at = "header" /\ at' = "fill" /\ container' = <<WavHeader>>
          /\ UNCHANGED <<taken, decoder, dropped, fifo, pts, succeeded, writing, written>>
      BY <1>2 DEF WriteHeader, GoesOn, Is, buffer
    <2>2. /\ writing = <<>> /\ written = <<>> /\ taken = 0 /\ pts = 0
          /\ decoder = <<>> /\ dropped = <<>> /\ fifo = <<>> /\ ~succeeded
      BY <1>0, <2>1 DEF SampleStages, Opening
    <2> DEFINE h == <<WavHeader>>
               e == <<>>
    <2>3. h \in Seq(Sample) /\ e \in Seq(Sample) /\ Len(h) = 1
      BY DEF Sample
    <2>4. Withheld' = e \o e /\ Numbers(taken') = e
      BY <2>1, <2>2, FlattenEmpty DEF Withheld, Numbers
    <2>5. Carried' = e \o (e \o h)
      BY <2>1, <2>2 DEF Carried
    <2>6. fifo' = e /\ taken' = 0 /\ pts' = 0 /\ ~succeeded'
      BY <2>1, <2>2
    <2> HIDE DEF h
    <2>7. e \o e = e /\ e \o h = h /\ h \o e = h
      BY <2>3, ConcatEmptySeq
    <2> HIDE DEF e
    <2>8. Carried' = h /\ fifo' \o Withheld' = e
      BY <2>4, <2>5, <2>6, <2>7
    <2>9. Carried' \o (fifo' \o Withheld') = h \o Numbers(taken') /\ Len(Carried') = pts' + 1
      BY <2>3, <2>4, <2>6, <2>8
    <2> QED
      BY <2>1, <2>6, <2>9 DEF SamplesKept, h
  <1>3. CASE DecodeFrame
    <2>1. /\ at = "fill" /\ UNCHANGED <<at, pts, succeeded>> /\ Carried' = Carried
          /\ Carried' \o (fifo' \o Withheld') = <<WavHeader>> \o Numbers(taken')
      BY <1>3, DecodeFrameMoves
    <2>2. ~succeeded /\ Len(Carried) = pts + 1
      BY <1>0, <2>1 DEF SampleStages, SamplesKept, Running
    <2> QED
      BY <2>1, <2>2 DEF SamplesKept
  <1>4. CASE LoadEncodeWrite
    <2>1. /\ at = "encode" /\ UNCHANGED <<at, taken, succeeded, Withheld>>
          /\ Carried' \o (fifo' \o Withheld') = Carried \o (fifo \o Withheld)
          /\ Len(Carried') = Len(Carried) + (pts' - pts)
      BY <1>4, LoadEncodeWriteMoves
    <2>2. ~succeeded /\ Len(Carried) = pts + 1
          /\ Carried \o (fifo \o Withheld) = <<WavHeader>> \o Numbers(taken)
      BY <1>0, <2>1 DEF SampleStages, SamplesKept, Running
    <2>3. pts \in Nat /\ pts' \in Nat
      BY <1>0, <1>4, SamplesFlowStep DEF SamplesFlow, ProcessorNext, Encode
    <2>4. Len(Carried') = pts' + 1
      BY <2>1, <2>2, <2>3
    <2>5. Carried' \o (fifo' \o Withheld') = <<WavHeader>> \o Numbers(taken')
      BY <2>1, <2>2
    <2> QED
      BY <2>1, <2>2, <2>4, <2>5 DEF SamplesKept
  <1>5. CASE WriteFileTrailer
    <2>1. /\ at' = "written" /\ UNCHANGED <<taken, succeeded, Withheld>>
          /\ Len(Withheld) <= taken
          /\ Carried' = <<WavHeader>> \o Numbers(taken - Len(Withheld)) \o <<WavTrailer>>
      BY <1>5, WriteFileTrailerMoves
    <2> QED
      BY <2>1 DEF SamplesKept, Running
  <1>6. CASE ReadAhead \/ EndOfRecording \/ Filled \/ FifoEncoded \/ HandOut \/ StoreChunk
             \/ UNCHANGED processorVars
    <2>1. /\ UNCHANGED <<taken, fifo, pts, succeeded, Carried, Withheld>>
          /\ at' \in Running => at \in Running
          /\ at' = "written" => at = "written"
      <3>1. CASE ReadAhead \/ Filled \/ FifoEncoded \/ UNCHANGED processorVars
        <4>1. /\ UNCHANGED <<taken, fifo, pts, succeeded, container, writing, written,
                             dropped, decoder>>
              /\ at' \in Running => at \in Running
              /\ at' = "written" => at = "written"
          BY <3>1 DEF ReadAhead, Filled, FifoEncoded, GoesOn, Is, Fills, Running, buffer,
                      processorVars, processor
        <4> QED
          BY <4>1 DEF Carried, Withheld
      <3>2. CASE EndOfRecording
        BY <3>2, EndOfRecordingMoves
      <3>3. CASE HandOut \/ StoreChunk
        <4>1. Carried' = Carried /\ UNCHANGED <<at, taken, decoder, dropped, fifo, pts, succeeded>>
          BY <1>0, <3>3, CarriedMoves
        <4> QED
          BY <4>1 DEF Withheld
      <3> QED
        BY <1>6, <3>1, <3>2, <3>3
    <2> QED
      BY <1>0, <2>1 DEF SamplesKept
  <1>7. CASE TrailerWritten \/ StepFails \/ ProcessorCleanup
    <2>1. /\ UNCHANGED <<taken, container, writing, written, dropped, decoder>>
          /\ at' \notin Running \cup {"written"}
      BY <1>7 DEF TrailerWritten, StepFails, ProcessorCleanup, GoesOn, Is, Running, buffer
    <2>2. succeeded' => at = "written" \/ succeeded
      BY <1>7 DEF TrailerWritten, StepFails, ProcessorCleanup, GoesOn, Is
    <2>3. UNCHANGED <<taken, Carried, Withheld>>
      BY <2>1 DEF Carried, Withheld
    <2> QED
      BY <1>0, <2>1, <2>2, <2>3 DEF SamplesKept
  <1> QED
    BY <1>1, <1>2, <1>3, <1>4, <1>5, <1>6, <1>7 DEF ProcessorNext, SetUp, Encode

LEMMA SamplesInvStep == SamplesInv /\ [ProcessorNext]_processorVars => SamplesInv'
  <1>1. SamplesFlow /\ [ProcessorNext]_processorVars => SamplesFlow'
    BY SamplesFlowStep
  <1> QED
    BY <1>1, SamplesExactStep, SampleStagesStep, SamplesKeptStep, SamplesLagStep DEF SamplesInv

\* What was written, from left to right.
LEMMA FlatCarried ==
    ASSUME SamplesFlow, Exact(Sample)
    PROVE  /\ written \o writing \o container = Carried
           /\ written \o writing \o container \o fifo \o dropped \o FlattenSeq(decoder)
                  = Carried \o (fifo \o Withheld)
  <1> DEFINE d == FlattenSeq(decoder)
             c == Carried
             w == dropped \o d
  <1>1. /\ written \in Seq(Sample) /\ writing \in Seq(Sample) /\ container \in Seq(Sample)
        /\ fifo \in Seq(Sample) /\ dropped \in Seq(Sample) /\ c \in Seq(Sample)
    BY SamplesTravel
  <1>2. d \in Seq(Sample)
    <2>1. d \in Seq(Nat) /\ Nat \subseteq Sample
      BY SamplesTravel DEF Sample
    <2> QED
      BY <2>1, Widen
  <1> HIDE DEF d
  <1>3. written \o (writing \o container) = (written \o writing) \o container
    BY <1>1, RegroupSamples, SMTT(30)
  <1>4. c = (written \o writing) \o container
    BY <1>3 DEF Carried
  <1> HIDE DEF c
  <1>5. c \o fifo \in Seq(Sample) /\ w \in Seq(Sample)
    BY <1>1, <1>2, Closed
  <1> DEFINE f == c \o fifo
  <1>6. f \o (dropped \o d) = (f \o dropped) \o d
    <2>1. f \in Seq(Sample)
      BY <1>5
    <2> HIDE DEF f
    <2> QED
      BY <1>1, <1>2, <2>1, RegroupSamples, ZenonT(30)
  <1> HIDE DEF w
  <1>7. c \o (fifo \o w) = f \o w
    BY <1>1, <1>5, RegroupSamples, SMTT(30)
  <1>8. c \o fifo \o dropped \o d = c \o (fifo \o w)
    BY <1>6, <1>7 DEF w
  <1>9. Withheld = w
    BY DEF Withheld, w, d
  <1> HIDE DEF f
  <1> QED
    BY <1>4, <1>8, <1>9 DEF c, d

LEMMA ExactSamples == SamplesInv => SamplesExact
  <1> SUFFICES ASSUME SamplesInv PROVE SamplesExact
    OBVIOUS
  <1>0. SamplesFlow /\ Exact(Sample) /\ SampleStages /\ SamplesKept
    BY DEF SamplesInv
  <1>1. SamplesConserved
    <2>1. at \in Running => Carried \o (fifo \o Withheld) = <<WavHeader>> \o Numbers(taken)
      BY <1>0 DEF SamplesKept
    <2> QED
      BY <1>0, <2>1, FlatCarried DEF SamplesConserved, Numbers, Running
  <1>2. TimestampExact
    <2>1. at \in Running => Len(Carried) = pts + 1
      BY <1>0 DEF SamplesKept
    <2> QED
      BY <1>0, <2>1, FlatCarried DEF TimestampExact, Running
  <1>3. RecordingComplete
    <2> SUFFICES ASSUME at = "done"
                 PROVE  /\ OutputContent = <<WavHeader>> \o Numbers(taken - Len(Withheld)) \o <<WavTrailer>>
                        /\ Single(recording.packets) =>
                              Len(decoder) + (IF dropped = <<>> THEN 0 ELSE 1) <= recording.lag
                        /\ source = <<>> /\ ahead = <<>>
      BY DEF RecordingComplete, Numbers, Single
    <2>1. succeeded /\ finished /\ container = <<>> /\ writing = <<>>
      BY <1>0 DEF SampleStages
    <2>2. Carried = written
      <3>1. written \o (<<>> \o <<>>) = written
        BY <1>0 DEF Exact
      <3> QED
        BY <2>1, <3>1 DEF Carried
    <2>3. OutputContent = written
      BY <1>0, ExactContent
    <2> QED
      BY <1>0, <2>1, <2>2, <2>3 DEF SamplesKept, SampleStages, SamplesInv, SamplesLag
  <1> QED
    BY <1>1, <1>2, <1>3 DEF SamplesExact

\* For every recording, decoder delay and size of the encoder's frames: no sample
\* is lost, repeated or overtaken on its way through the FIFO, each frame has the
\* timestamp of its first sample, and a file written without an error holds all
\* samples but those the decoder had not given.
THEOREM NoSampleIsLost == ProcessorSpec => []SamplesExact
  <1> QED
    BY InitSamplesInv, SamplesInvStep, ExactSamples, PTL DEF ProcessorSpec

\* The output buffer of AudioProcessor is exact as that of AP is.
THEOREM FileIsWhatWasWritten == ProcessorSpec => []BufferExact
  <1>1. SamplesInv => BufferExact
    BY ExactContent DEF SamplesInv, BufferExact, Exact
  <1> QED
    BY InitSamplesInv, SamplesInvStep, <1>1, PTL DEF ProcessorSpec

=============================================================================
