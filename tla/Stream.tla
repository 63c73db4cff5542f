------------------------------- MODULE Stream -------------------------------
(***************************************************************************)
(* data/stream/stream.c: one run of stream_handler, which saves frames of  *)
(* a camera's stream as images or cuts it into video files.                *)
(*                                                                         *)
(* Most of the code acquires resources one after the other and must give   *)
(* all of them back wherever it fails: each chain below lists what its     *)
(* successive steps acquire. live is what is allocated, ptr the local      *)
(* variables that are not NULL, which the cleanup blocks go by. "ref" is   *)
(* the payload of the packet, which av_read_frame fills and av_packet_     *)
(* unref or the muxer takes back.                                          *)
(*                                                                         *)
(* FFmpeg is external: every call of it may succeed or fail, and           *)
(* av_read_frame may discover streams that were not there when the input   *)
(* was opened. Its allocations that the code does not test are assumed to  *)
(* succeed. Integers wrap at INT_MAX.                                      *)
(***************************************************************************)
EXTENDS Integers, Sequences, FiniteSets

CONSTANTS
  Jobs,       \* the property names of a twin
  Counts,     \* frameCount of the stream's configuration
  Segments,   \* videoNum
  Inputs,     \* the streams of an input as it is opened
  Late,       \* the streams that may appear while it is read
  IntMax,     \* INT_MAX
  MaxFaults   \* bound on the outcomes that no loop of the code counts

ASSUME StreamAssumption ==
  /\ Jobs \subseteq {"SaveFrame", "SaveVideo", "other"}
  /\ Counts \subseteq Int /\ Segments \subseteq Int
  /\ Inputs \subseteq Seq({"media", "data"}) /\ Late \in Seq({"media", "data"})
  /\ IntMax \in Nat \ {0} /\ MaxFaults \in Nat

VARIABLES
  req,       \* job, frameCount, videoNum, AVFMT_NOFILE of the output format
  pc, at,    \* the next statement; the step of the chain it is in
  live, ptr,
  ret,       \* the result: "ok" is 0, "err" anything below
  frames, failures,     \* frame_num and failure_num
  streams,   \* the kinds of the input's streams
  size, map, \* stream_mapping_size; stream_mapping, 0 where C has -1
  outs,      \* the input stream each output stream was created for
  segment,   \* idx: video files finished
  packets,   \* written_frames of this file
  packet,    \* stream of the packet just read
  faults,
  files,     \* history: images, or packets of all video files, on disk
  excused,   \* history: an encoder or a read failed without a trace in ret
  sent       \* history: input and output stream of the last packet muxed

frameVars == <<frames, failures>>
videoVars == <<size, map, outs, segment, packets, sent>>
dataVars  == <<streams, packet, faults, files, excused>>
vars == <<req, pc, at, live, ptr, ret, frameVars, videoVars, dataVars>>

Wrap(n) ==     \* n as a two's-complement integer
  ((n + IntMax + 1) % (2 * IntMax + 2)) - IntMax - 1

File == IF req.noFile THEN {} ELSE {"file"}
ImageFile == IF req.noFile THEN {} ELSE {"img_file"}

FrameChain ==     \* stream_save_frame up to its loop
  <<{"input"}, {}, {}, {}, {"codec"}, {}, {}, {"frame", "frame_rgb"},
    {"buffer"}, {"sws"}, {"packet"}>>

VideoChain == <<{"input"}, {}, {"mapping"}, {"packet"}>>

SegmentChain == <<{"name"}, {"output"}, {}, File, {}>>

ImageChain ==     \* save_frame_to_image up to the encoding
  <<{"img_name"}, {"img_output"}, {}, ImageFile, {}, {"img_codec"}, {}, {}, {}>>

MutImageFrees ==  \* mutant: the codec of a failed header is forgotten
  LET a == {"img_name"}  b == a \cup {"img_output"}
      c == b \cup ImageFile  d == c \cup {"img_codec"}
  IN  <<{}, a, b, b, c, d, d, d, c>>

ImageFrees ==     \* what the error path of each of its steps releases
  LET a == {"img_name"}  b == a \cup {"img_output"}
      c == b \cup ImageFile  d == c \cup {"img_codec"}
  IN  <<{}, a, b, b, c, d, d, d, d>>

Chain == CASE pc = "frame" -> FrameChain [] pc = "video" -> VideoChain
           [] pc = "segment" -> SegmentChain [] OTHER -> ImageChain

Init ==
  /\ req \in [job : Jobs, count : Counts, segs : Segments, noFile : BOOLEAN]
  /\ streams \in Inputs
  /\ pc = "handler" /\ at = 1
  /\ live = {} /\ ptr = {}
  /\ ret = "ok"
  /\ frames = 0 /\ failures = 0
  /\ size = 0 /\ map = <<>> /\ outs = <<>>
  /\ segment = 0 /\ packets = 0 /\ packet = 0
  /\ faults = 0 /\ files = 0 /\ excused = FALSE
  /\ sent = <<0, 0>>

Goto(p) == pc' = p /\ at' = 1
Acquire(R) == live' = live \cup R
Release(R) == live' = live \ R
Fail(p) == ret' = "err" /\ Goto(p)
Fault == faults < MaxFaults /\ faults' = faults + 1
DataFrame == UNCHANGED <<req, dataVars>>
CallFrame == DataFrame /\ UNCHANGED <<frameVars, videoVars>>

-----------------------------------------------------------------------------
(* stream_handler.                                                         *)

HandlerStarts ==
  /\ pc = "handler"
  /\ \/ Acquire({"device_data"}) /\ Goto("config") /\ UNCHANGED ret
     \/ Fail("done") /\ UNCHANGED live       \* no property name, no URI
  /\ UNCHANGED ptr /\ CallFrame

ConfigParsed ==
  /\ pc = "config"
  /\ \/ /\ Acquire({"config"})
        /\ \/ req.job = "SaveFrame" /\ Goto("frame") /\ UNCHANGED ret
           \/ req.job = "SaveVideo" /\ Goto("video") /\ UNCHANGED ret
           \/ req.job = "other" /\ Fail("finish")
     \/ Release({"device_data"}) /\ Fail("done")
  /\ UNCHANGED ptr /\ CallFrame

HandlerFinishes ==
  /\ pc = "finish"
  /\ Release({"config", "device_data"}) /\ Goto("done")
  /\ UNCHANGED <<ptr, ret>> /\ CallFrame

-----------------------------------------------------------------------------
(* The chains. The cleanup blocks release what their pointers show.        *)

StepSucceeds ==
  /\ pc \in {"frame", "video"} /\ at <= Len(Chain)
  /\ Acquire(Chain[at]) /\ ptr' = ptr \cup Chain[at]
  /\ at' = at + 1
  /\ size' = IF pc = "video" /\ at = 3 THEN Len(streams) ELSE size
  /\ map' = IF pc = "video" /\ at = 3 THEN [i \in 1 .. Len(streams) |-> 0]
                                      ELSE map
  /\ UNCHANGED <<pc, ret, frameVars, outs, segment, packets, sent>>
  /\ DataFrame

StepFails ==        \* of two frames one may have been allocated
  /\ pc \in {"frame", "video"} /\ at <= Len(Chain)
  /\ \E R \in SUBSET Chain[at] :
       /\ R # Chain[at] \/ R = {}
       /\ Acquire(R) /\ ptr' = ptr \cup R
  /\ Fail(IF at = 1 THEN "finish" ELSE "cleanup")
  /\ CallFrame

ChainEnds ==
  /\ pc \in {"frame", "video"} /\ at > Len(Chain)
  /\ Goto(IF pc = "frame" THEN "loop" ELSE "next")
  /\ UNCHANGED <<live, ptr, ret>> /\ CallFrame

Cleanup ==
  /\ pc = "cleanup"
  /\ Release(ptr \cup (IF "output" \in ptr THEN File ELSE {}))
  /\ ptr' = {}
  /\ Goto("finish")
  /\ UNCHANGED ret /\ CallFrame

-----------------------------------------------------------------------------
(* stream_save_frame: the loop over packets.                               *)

Limit == Wrap(5 * req.count)      \* failure_count
Loops == frames < req.count /\ failures < Limit
LoopFrame == UNCHANGED <<req, ptr, ret, videoVars>>

MutLoopEnds ==      \* mutant: > instead of >=
  /\ pc = "loop" /\ ~Loops
  /\ Goto("cleanup")
  /\ ret' = IF failures > Limit THEN "err" ELSE "ok"
  /\ UNCHANGED <<live, frameVars, req, ptr, videoVars, dataVars>>

LoopEnds ==
  /\ pc = "loop" /\ ~Loops
  /\ Goto("cleanup")
  /\ ret' = IF failures >= Limit THEN "err" ELSE "ok"
  /\ UNCHANGED <<live, frameVars, req, ptr, videoVars, dataVars>>

ReadFails ==        \* after which the thread sleeps for a second
  /\ pc = "loop" /\ Loops
  /\ failures' = failures + 1
  /\ UNCHANGED <<pc, at, live, frames, dataVars>> /\ LoopFrame

Reads ==
  /\ pc = "loop" /\ Loops
  /\ Acquire({"ref"}) /\ Goto("decode")
  /\ UNCHANGED <<frameVars, dataVars>> /\ LoopFrame

MutDecodeFails ==   \* mutant: a packet of another stream is not counted
  /\ pc = "decode"
  /\ Release({"ref"}) /\ Goto("loop")
  /\ UNCHANGED <<frameVars, dataVars>> /\ LoopFrame

DecodeFails ==      \* another stream's packet, or the decoder has no frame
  /\ pc = "decode"
  /\ failures' = failures + 1
  /\ Release({"ref"}) /\ Goto("loop")
  /\ UNCHANGED <<frames, dataVars>> /\ LoopFrame

Decodes ==
  /\ pc = "decode"
  /\ Goto("image")
  /\ UNCHANGED <<live, frameVars, dataVars>> /\ LoopFrame

(* save_frame_to_image; a frame that is not saved is not counted at all.   *)

ImageStep ==
  /\ pc = "image" /\ at <= Len(Chain)
  /\ Acquire(Chain[at]) /\ at' = at + 1
  /\ UNCHANGED <<pc, frameVars, dataVars>> /\ LoopFrame

ImageFails ==
  /\ pc = "image" /\ at <= Len(Chain) /\ ~(at = 4 /\ req.noFile)
  /\ Fault
  /\ Release(ImageFrees[at]) /\ Goto("unref")
  /\ UNCHANGED <<frameVars, streams, packet, files, excused>> /\ LoopFrame

ImageEncoded ==     \* 0 is returned whether or not anything was written
  /\ pc = "image" /\ at > Len(Chain)
  /\ \/ files' = files + 1 /\ UNCHANGED <<faults, excused>>
     \/ Fault /\ excused' = TRUE /\ UNCHANGED files
  /\ frames' = frames + 1
  /\ Release({"img_name", "img_output", "img_codec"} \cup ImageFile)
  /\ Goto("unref")
  /\ UNCHANGED <<failures, streams, packet>> /\ LoopFrame

Unref ==
  /\ pc = "unref"
  /\ Release({"ref"}) /\ Goto("loop")
  /\ UNCHANGED <<frameVars, dataVars>> /\ LoopFrame

-----------------------------------------------------------------------------
(* stream_save_video: one file after the other.                            *)

SegmentFrame == UNCHANGED <<req, frameVars, size, sent>>

MutNextSegment ==   \* mutant: idx <= video_num
  /\ pc = "next" /\ segment <= req.segs
  /\ packets' = 0
  /\ Goto("segment")
  /\ UNCHANGED <<live, ptr, ret, map, outs, segment, dataVars>>
  /\ SegmentFrame

NextSegment ==
  /\ pc = "next" /\ segment < req.segs
  /\ packets' = 0
  /\ Goto("segment")
  /\ UNCHANGED <<live, ptr, ret, map, outs, segment, dataVars>>
  /\ SegmentFrame

VideoEnds ==
  /\ pc = "next" /\ segment >= req.segs
  /\ ret' = "ok" /\ Goto("cleanup")
  /\ UNCHANGED <<live, ptr, map, outs, segment, packets, dataVars>>
  /\ SegmentFrame

Media == {i \in DOMAIN streams : streams[i] = "media"}
Rank(i) == Cardinality({j \in Media : j <= i})     \* stream_index after i

(* The mapping is written for every stream there is now, though it has     *)
(* room for those of the beginning: beyond them the memory of others is    *)
(* overwritten, and the process may be aborted for it.                     *)
MapStreams ==
  /\ map' = [i \in DOMAIN streams |-> IF i \in Media THEN Rank(i) ELSE 0]
  /\ outs' = [k \in 1 .. Cardinality(Media) |->
                CHOOSE i \in Media : Rank(i) = k]

SegmentStep ==
  /\ pc = "segment" /\ at <= Len(Chain)
  /\ Acquire(Chain[at]) /\ ptr' = ptr \cup (Chain[at] \cap {"output"})
  /\ at' = at + 1
  /\ IF at = 3 THEN MapStreams ELSE UNCHANGED <<map, outs>>
  /\ UNCHANGED <<pc, ret, segment, packets, dataVars>>
  /\ SegmentFrame

Overrun ==          \* heap corruption is noticed by the allocator
  /\ pc = "segment" /\ at = 3
  /\ Len(streams) > size
  /\ Goto("aborted")
  /\ UNCHANGED <<live, ptr, ret, map, outs, segment, packets, dataVars>>
  /\ SegmentFrame

SegmentFails ==
  /\ pc = "segment" /\ at <= Len(Chain) /\ ~(at = 4 /\ req.noFile)
  /\ Release({"name"}) /\ Fail("cleanup")
  /\ UNCHANGED <<ptr, map, outs, segment, packets, dataVars>>
  /\ SegmentFrame

SegmentOpen ==
  /\ pc = "segment" /\ at > Len(Chain)
  /\ Goto("copy")
  /\ UNCHANGED <<live, ptr, ret, map, outs, segment, packets, dataVars>>
  /\ SegmentFrame

CopyFrame == UNCHANGED <<req, ptr, ret, frameVars, size, map, outs, segment>>

MutMapped == packet > Len(map) \/ map[packet] # 0    \* mutant: no bound

Mapped == packet <= size /\ map[packet] # 0

CopyReads ==        \* a packet of a stream that may be new
  /\ pc = "copy" /\ packets < req.count
  /\ Acquire({"ref"}) /\ Goto("mux")
  /\ CopyFrame
  /\ \/ packet' \in DOMAIN streams /\ UNCHANGED streams
     \/ /\ Len(streams) < size + Len(Late)
        /\ streams' = Append(streams, Late[Len(streams) - size + 1])
        /\ packet' = Len(streams')
  /\ IF Mapped' THEN UNCHANGED faults ELSE Fault
  /\ UNCHANGED <<packets, sent, files, excused>>

CopyReadFails ==    \* the file is finished as it is
  /\ pc = "copy" /\ packets < req.count
  /\ excused' = TRUE
  /\ Goto("close")
  /\ UNCHANGED <<live, packets, sent, streams, packet, faults, files>>
  /\ CopyFrame

CopyEnds ==
  /\ pc = "copy" /\ packets >= req.count
  /\ Goto("close")
  /\ UNCHANGED <<live, packets, sent, dataVars>> /\ CopyFrame

Skips ==            \* not counted
  /\ pc = "mux" /\ ~Mapped
  /\ Release({"ref"}) /\ Goto("copy")
  /\ UNCHANGED <<packets, sent, dataVars>> /\ CopyFrame

Muxes ==
  /\ pc = "mux" /\ Mapped
  /\ sent' = <<packet, IF packet \in DOMAIN map THEN map[packet] ELSE 0>>
  /\ packets' = packets + 1 /\ files' = files + 1
  /\ Release({"ref"}) /\ Goto("copy")
  /\ UNCHANGED <<streams, packet, faults, excused>> /\ CopyFrame

MuxFails ==         \* not counted either
  /\ pc = "mux" /\ Mapped
  /\ Fault
  /\ Release({"ref"}) /\ Goto("copy")
  /\ UNCHANGED <<packets, sent, streams, packet, files, excused>>
  /\ CopyFrame

MutSegmentEnds ==   \* mutant: output_fmt_ctx keeps its value
  /\ pc = "close"
  /\ Release({"output", "name"} \cup File)
  /\ segment' = segment + 1
  /\ Goto("next")
  /\ UNCHANGED <<ptr, ret, map, outs, packets, dataVars>> /\ SegmentFrame

SegmentEnds ==
  /\ pc = "close"
  /\ Release({"output", "name"} \cup File)
  /\ ptr' = ptr \ {"output"}
  /\ segment' = segment + 1
  /\ Goto("next")
  /\ UNCHANGED <<ret, map, outs, packets, dataVars>> /\ SegmentFrame

-----------------------------------------------------------------------------
SaveFrameStep ==
  \/ LoopEnds \/ ReadFails \/ Reads \/ DecodeFails \/ Decodes
  \/ ImageStep \/ ImageFails \/ ImageEncoded \/ Unref

SaveVideoStep ==
  \/ NextSegment \/ VideoEnds \/ SegmentStep \/ Overrun \/ SegmentFails
  \/ SegmentOpen \/ CopyReads \/ CopyReadFails \/ CopyEnds
  \/ Skips \/ Muxes \/ MuxFails \/ SegmentEnds

Next ==
  \/ HandlerStarts \/ ConfigParsed \/ HandlerFinishes
  \/ StepSucceeds \/ StepFails \/ ChainEnds \/ Cleanup
  \/ SaveFrameStep \/ SaveVideoStep

Spec == Init /\ [][Next]_vars
FairSpec == Spec /\ WF_vars(Next)    \* FFmpeg's calls return (stimeout)

Over == pc \in {"done", "aborted"}

Chained == {"input", "codec", "frame", "frame_rgb", "buffer", "sws", "packet",
            "mapping", "output"}      \* what the cleanup blocks go by
Resources == Chained \cup {"device_data", "config", "file", "name", "ref",
             "img_name", "img_output", "img_file", "img_codec"}

Upto(n) == 0 .. IF n < 0 THEN 0 ELSE n

(* Types; no loop goes past its bound.                                     *)
TypeOK ==
  /\ req \in [job : Jobs, count : Counts, segs : Segments, noFile : BOOLEAN]
  /\ pc \in {"handler", "config", "frame", "video", "loop", "decode", "image",
            "unref", "next", "segment", "copy", "mux", "close", "cleanup",
            "finish", "done", "aborted"}
  /\ live \subseteq Resources /\ ptr \subseteq Chained
  /\ ret \in {"ok", "err"}
  /\ frames \in Upto(req.count) /\ failures \in Upto(Limit)
  /\ streams \in Seq({"media", "data"})
  /\ DOMAIN map \subseteq DOMAIN streams /\ size \in 0 .. Len(streams)
  /\ segment \in Upto(req.segs) /\ packets \in Upto(req.count)
  /\ packet \in 0 .. Len(streams)
  /\ faults \in 0 .. MaxFaults /\ files \in Nat /\ excused \in BOOLEAN

(* The cleanup blocks free whatever pointer is not NULL. None of them may  *)
(* dangle, wherever a chain broke and however many files were closed       *)
(* before; and a packet is empty when av_read_frame fills it.              *)
NothingFreedTwice ==
  /\ ptr \subseteq live
  /\ pc \in {"loop", "copy"} => "ref" \notin live

(* When stream_handler returns, everything it and the functions it called  *)
(* have allocated is released, on each of their error paths.               *)
NothingLeaked ==
  pc = "done" => live = {}

(* A packet is written to the output stream that was created for its input *)
(* stream, although the mapping is as old as the file, streams may have    *)
(* appeared since, and the array is as long as when the input was opened.  *)
PacketsStayInTheirStream ==
  sent # <<0, 0>> => /\ sent[2] \in DOMAIN outs
                     /\ outs[sent[2]] = sent[1]

Asked == req.count * (IF req.job = "SaveFrame" THEN 1 ELSE req.segs)

(* The result is true. Unless an encoder or a read failed (which the code  *)
(* drops: see the README), 0 means that all images or packets asked for    *)
(* are on disk; and stream_save_frame gives up after exactly five failures *)
(* per frame asked for, if that number fits into an int.                   *)
ResultIsTrue ==
  pc = "done" =>
    /\ ret = "ok" /\ ~excused /\ req.count > 0 /\ req.segs > 0
         => files = Asked
    /\ ret = "err" /\ failures > 0 /\ Limit = 5 * req.count
         => failures = Limit /\ frames < req.count

(* stream_handler returns (or the process is aborted), even if every read  *)
(* of the stream fails, as long as the outcomes no loop counts are finite. *)
HandlerEnds == <>Over
=============================================================================
