---------------------------- MODULE StreamProofs ----------------------------
(* Proofs about Stream, for every input, configuration and sequence of     *)
(* failures: types and loop bounds, the resources of every error path, and *)
(* the mapping from input streams to output streams.                       *)
EXTENDS Stream, FiniteSetTheorems, TLAPS

-----------------------------------------------------------------------------
(* The chains.                                                             *)

LEMMA WrapType == \A n \in Int : Wrap(n) \in Int
  BY StreamAssumption DEF Wrap

LEMMA LimitType == TypeOK => Limit \in Int /\ req.count \in Int /\ req.segs \in Int
<1> SUFFICES ASSUME TypeOK PROVE Limit \in Int /\ req.count \in Int /\ req.segs \in Int
  OBVIOUS
<1>1. req.count \in Int /\ req.segs \in Int
  BY StreamAssumption DEF TypeOK
<1>2. 5 * req.count \in Int
  BY <1>1
<1>3. Limit \in Int
  BY <1>2, WrapType DEF Limit
<1>4. QED
  BY <1>1, <1>3

(* The chains of the two functions acquire what the cleanup blocks go by,  *)
(* but never an output, which belongs to a video file.                     *)
LEMMA Chains ==
  /\ pc = "frame" => Len(Chain) = 11
  /\ pc = "video" => Len(Chain) = 4
  /\ pc \in {"frame", "video"} /\ at \in 1 .. Len(Chain)
       => Chain[at] \subseteq Chained \ {"output"}
<1>1. ASSUME pc = "frame" PROVE Len(Chain) = 11
  BY <1>1 DEF Chain, FrameChain
<1>2. ASSUME pc = "video" PROVE Len(Chain) = 4
  BY <1>2 DEF Chain, VideoChain
<1>3. ASSUME pc = "frame", at \in 1 .. 11
      PROVE  Chain[at] \subseteq Chained \ {"output"}
  <2>1. at \in {1, 2, 3, 4, 5, 6, 7, 8, 9, 10, 11}
    BY <1>3
  <2>2. QED
    BY <1>3, <2>1 DEF Chain, FrameChain, Chained
<1>4. ASSUME pc = "video", at \in 1 .. 4
      PROVE  Chain[at] \subseteq Chained \ {"output"}
  <2>1. at \in {1, 2, 3, 4}
    BY <1>4
  <2>2. QED
    BY <1>4, <2>1 DEF Chain, VideoChain, Chained
<1>5. QED
  BY <1>1, <1>2, <1>3, <1>4

(* What a video file has acquired before each step of its chain, beyond    *)
(* the output context, and what an image has.                              *)
SegmentHeld == <<{}, {"name"}, {"name"}, {"name"}, {"name"} \cup File,
                 {"name"} \cup File>>

ImageHeld ==
  LET a == {"img_name"}  b == a \cup {"img_output"}
      c == b \cup ImageFile  d == c \cup {"img_codec"}
  IN  <<{}, a, b, b, c, c, d, d, d, d>>

LEMMA SegmentChainHolds ==
  ASSUME pc = "segment"
  PROVE  /\ Len(Chain) = 5
         /\ \A n \in 1 .. 5 :
              SegmentHeld[n] \cup Chain[n]
                = SegmentHeld[n + 1] \cup (Chain[n] \cap {"output"})
         /\ \A n \in 1 .. 5 : "output" \in Chain[n] <=> n = 2
<1>1. Chain = SegmentChain
  BY DEF Chain
<1>2. Len(Chain) = 5
  BY <1>1 DEF SegmentChain
<1>3. ASSUME NEW n \in 1 .. 5
      PROVE /\ SegmentHeld[n] \cup Chain[n]
                 = SegmentHeld[n + 1] \cup (Chain[n] \cap {"output"})
            /\ "output" \in Chain[n] <=> n = 2
  <2>1. n \in {1, 2, 3, 4, 5}
    OBVIOUS
  <2>2. QED
    BY <1>1, <2>1 DEF SegmentChain, SegmentHeld, File
<1>4. QED
  BY <1>2, <1>3

LEMMA ImageChainHolds ==
  ASSUME pc = "image"
  PROVE  /\ Len(Chain) = 9
         /\ \A n \in 1 .. 9 : ImageHeld[n] \cup Chain[n] = ImageHeld[n + 1]
         /\ \A n \in 1 .. 9 : ImageHeld[n] \ ImageFrees[n] = {}
<1>1. Chain = ImageChain
  BY DEF Chain
<1>2. Len(Chain) = 9
  BY <1>1 DEF ImageChain
<1>3. ASSUME NEW n \in 1 .. 9
      PROVE /\ ImageHeld[n] \cup Chain[n] = ImageHeld[n + 1]
            /\ ImageHeld[n] \ ImageFrees[n] = {}
  <2>1. n \in {1, 2, 3, 4, 5, 6, 7, 8, 9}
    OBVIOUS
  <2>2. ImageHeld[n] \cup Chain[n] = ImageHeld[n + 1]
    BY <1>1, <2>1 DEF ImageChain, ImageHeld
  <2>3. ImageHeld[n] \ ImageFrees[n] = {}
    BY <2>1 DEF ImageFrees, ImageHeld
  <2>4. QED
    BY <2>2, <2>3
<1>4. QED
  BY <1>2, <1>3

-----------------------------------------------------------------------------
(* Types and loop bounds. A counter stays below its bound between the test *)
(* of the loop and the end of its body.                                    *)

LoopInv ==
  /\ at \in Nat \ {0}
  /\ pc \in {"decode", "image"} => Loops
  /\ pc \in {"segment", "copy", "mux", "close"} => segment < req.segs
  /\ pc = "mux" => packets < req.count

TypeInv == TypeOK /\ LoopInv

LEMMA ChainTyped ==
  ASSUME pc \in {"frame", "video", "segment", "image"},
         at \in Nat \ {0}, at <= Len(Chain)
  PROVE  Chain[at] \subseteq Resources
<1>1. at \in 1 .. Len(Chain)
  <2>1. Len(Chain) \in {11, 4, 5, 9}
    BY Chains, SegmentChainHolds, ImageChainHolds
  <2>2. QED
    BY <2>1
<1>2. CASE pc \in {"frame", "video"}
  BY <1>1, <1>2, Chains DEF Resources
<1>3. CASE pc = "segment"
  <2>1. Chain = SegmentChain
    BY <1>3 DEF Chain
  <2>2. Len(Chain) = 5
    BY <1>3, SegmentChainHolds
  <2>3. at \in {1, 2, 3, 4, 5}
    BY <1>1, <2>2
  <2>4. QED
    BY <2>1, <2>3 DEF SegmentChain, File, Resources, Chained
<1>4. CASE pc = "image"
  <2>1. Chain = ImageChain
    BY <1>4 DEF Chain
  <2>2. Len(Chain) = 9
    BY <1>4, ImageChainHolds
  <2>3. at \in {1, 2, 3, 4, 5, 6, 7, 8, 9}
    BY <1>1, <2>2
  <2>4. QED
    BY <2>1, <2>3 DEF ImageChain, ImageFile, Resources, Chained
<1>5. QED
  BY <1>2, <1>3, <1>4

LEMMA InitTyped == Init => TypeInv
<1> SUFFICES ASSUME Init PROVE TypeInv
  OBVIOUS
<1>1. req.count \in Int /\ req.segs \in Int /\ Limit \in Int
  <2>1. req.count \in Int /\ req.segs \in Int
    BY StreamAssumption DEF Init
  <2>2. QED
    BY <2>1, WrapType DEF Limit
<1>2. 0 \in Upto(req.count) /\ 0 \in Upto(req.segs) /\ 0 \in Upto(Limit)
  BY <1>1 DEF Upto
<1>3. /\ DOMAIN map \subseteq DOMAIN streams /\ size \in 0 .. Len(streams)
      /\ packet \in 0 .. Len(streams)
      /\ streams \in Seq({"media", "data"})
  <2>1. streams \in Seq({"media", "data"})
    BY StreamAssumption DEF Init
  <2>2. Len(streams) \in Nat
    BY <2>1
  <2>3. QED
    BY <2>1, <2>2 DEF Init
<1>4. LoopInv
  BY DEF Init, LoopInv
<1>5. faults \in 0 .. MaxFaults /\ files \in Nat /\ excused \in BOOLEAN
  <2>1. faults = 0 /\ files = 0
    BY DEF Init
  <2>2. faults \in 0 .. MaxFaults /\ files \in Nat
    BY <2>1, StreamAssumption
  <2>3. excused \in BOOLEAN
    BY DEF Init
  <2>4. QED
    BY <2>2, <2>3
<1>6. live \subseteq Resources /\ ptr \subseteq Chained
  BY DEF Init
<1>7. QED
  BY <1>2, <1>3, <1>4, <1>5, <1>6 DEF Init, TypeInv, TypeOK

LEMMA NextTyped == TypeInv /\ [Next]_vars => TypeInv'
<1> SUFFICES ASSUME TypeInv, [Next]_vars PROVE TypeInv'
  OBVIOUS
<1>1. req.count \in Int /\ req.segs \in Int /\ Limit \in Int
  BY LimitType DEF TypeInv
<1> USE <1>1, StreamAssumption DEF TypeInv, TypeOK, LoopInv, Upto, Goto, Fail, Acquire,
                 Release, Fault, frameVars, videoVars, dataVars, Loops, Limit
<1>2. CASE HandlerStarts
  BY <1>2, ChainTyped DEF HandlerStarts, Resources, CallFrame, DataFrame
<1>3. CASE ConfigParsed
  BY <1>3, ChainTyped DEF ConfigParsed, Resources, CallFrame, DataFrame
<1>4. CASE HandlerFinishes
  BY <1>4, ChainTyped DEF HandlerFinishes, CallFrame, DataFrame
<1>5. CASE StepSucceeds
  <2>1. Chain[at] \subseteq Resources /\ Chain[at] \subseteq Chained
    <3>1. at \in 1 .. Len(Chain)
      BY <1>5, Chains DEF StepSucceeds
    <3>2. QED
      BY <1>5, <3>1, Chains, ChainTyped DEF StepSucceeds
  <2>2. live' \subseteq Resources /\ ptr' \subseteq Chained
    BY <1>5, <2>1 DEF StepSucceeds
  <2>3. /\ DOMAIN map' \subseteq DOMAIN streams' /\ size' \in 0 .. Len(streams')
        /\ streams' = streams
    BY <1>5 DEF StepSucceeds, DataFrame
  <2>4. QED
    BY <1>5, <2>2, <2>3 DEF StepSucceeds, DataFrame
<1>6. CASE StepFails
  <2>1. Chain[at] \subseteq Resources /\ Chain[at] \subseteq Chained
    <3>1. at \in 1 .. Len(Chain)
      BY <1>6, Chains DEF StepFails
    <3>2. QED
      BY <1>6, <3>1, Chains, ChainTyped DEF StepFails
  <2>2. live' \subseteq Resources /\ ptr' \subseteq Chained
    BY <1>6, <2>1 DEF StepFails
  <2>3. QED
    BY <1>6, <2>2 DEF StepFails, CallFrame, DataFrame
<1>7. CASE ChainEnds
  BY <1>7, ChainTyped DEF ChainEnds, CallFrame, DataFrame
<1>8. CASE Cleanup
  BY <1>8, ChainTyped DEF Cleanup, CallFrame, DataFrame
<1>9. CASE LoopEnds
  BY <1>9, ChainTyped DEF LoopEnds, LoopFrame
<1>10. CASE ReadFails
  BY <1>10, ChainTyped DEF ReadFails, LoopFrame
<1>11. CASE Reads
  BY <1>11, ChainTyped DEF Reads, Resources, LoopFrame
<1>12. CASE DecodeFails
  BY <1>12, ChainTyped DEF DecodeFails, LoopFrame
<1>13. CASE Decodes
  BY <1>13, ChainTyped DEF Decodes, LoopFrame
<1>14. CASE ImageStep
  BY <1>14, ChainTyped DEF ImageStep, LoopFrame
<1>15. CASE ImageFails
  BY <1>15, ChainTyped DEF ImageFails, LoopFrame
<1>16. CASE ImageEncoded
  <2>1. frames' \in Upto(req'.count) /\ failures' \in Upto(Limit')
    BY <1>16 DEF ImageEncoded, LoopFrame
  <2>2. faults' \in 0 .. MaxFaults /\ files' \in Nat
    <3>1. CASE files' = files + 1 /\ faults' = faults
      BY <3>1
    <3>2. CASE Fault /\ files' = files
      BY <3>2
    <3>3. QED
      BY <1>16, <3>1, <3>2 DEF ImageEncoded, dataVars
  <2>3. excused' \in BOOLEAN
    BY <1>16 DEF ImageEncoded
  <2>4. QED
    BY <1>16, <2>1, <2>2, <2>3 DEF ImageEncoded, LoopFrame
<1>17. CASE Unref
  BY <1>17, ChainTyped DEF Unref, LoopFrame
<1>18. CASE NextSegment
  BY <1>18, ChainTyped DEF NextSegment, SegmentFrame
<1>19. CASE VideoEnds
  BY <1>19, ChainTyped DEF VideoEnds, SegmentFrame
<1>20. CASE SegmentStep
  <2>1. Chain[at] \subseteq Resources
    BY <1>20, ChainTyped DEF SegmentStep
  <2>2. live' \subseteq Resources /\ ptr' \subseteq Chained
    BY <1>20, <2>1 DEF SegmentStep, Chained
  <2>3. DOMAIN map' \subseteq DOMAIN streams'
    BY <1>20 DEF SegmentStep, MapStreams
  <2>4. QED
    BY <1>20, <2>2, <2>3 DEF SegmentStep, SegmentFrame
<1>21. CASE Overrun
  BY <1>21, ChainTyped DEF Overrun, SegmentFrame
<1>22. CASE SegmentFails
  BY <1>22, ChainTyped DEF SegmentFails, SegmentFrame
<1>23. CASE SegmentOpen
  BY <1>23, ChainTyped DEF SegmentOpen, SegmentFrame
<1>24. CASE CopyReads
  <2>1. /\ streams' \in Seq({"media", "data"})
        /\ DOMAIN streams \subseteq DOMAIN streams'
        /\ Len(streams) <= Len(streams')
        /\ packet' \in 0 .. Len(streams')
    <3>1. CASE packet' \in DOMAIN streams /\ UNCHANGED streams
      BY <3>1
    <3>2. CASE /\ Len(streams) < size + Len(Late)
               /\ streams' = Append(streams, Late[Len(streams) - size + 1])
               /\ packet' = Len(streams')
      <4>1. Len(streams) - size + 1 \in 1 .. Len(Late)
        BY <3>2
      <4>2. Late[Len(streams) - size + 1] \in {"media", "data"}
        BY <4>1
      <4>3. QED
        BY <3>2, <4>2
    <3>3. QED
      BY <1>24, <3>1, <3>2 DEF CopyReads
  <2>2. live' \subseteq Resources
    BY <1>24 DEF CopyReads, Resources
  <2>3. faults' \in 0 .. MaxFaults
    BY <1>24 DEF CopyReads
  <2>4. /\ DOMAIN map' \subseteq DOMAIN streams'
        /\ size' \in 0 .. Len(streams')
    BY <1>24, <2>1 DEF CopyReads, CopyFrame
  <2>5. QED
    BY <1>24, <2>1, <2>2, <2>3, <2>4 DEF CopyReads, CopyFrame
<1>25. CASE CopyReadFails
  BY <1>25, ChainTyped DEF CopyReadFails, CopyFrame
<1>26. CASE CopyEnds
  BY <1>26, ChainTyped DEF CopyEnds, CopyFrame
<1>27. CASE Skips
  BY <1>27, ChainTyped DEF Skips, CopyFrame
<1>28. CASE Muxes
  BY <1>28, ChainTyped DEF Muxes, CopyFrame
<1>29. CASE MuxFails
  BY <1>29, ChainTyped DEF MuxFails, CopyFrame
<1>30. CASE SegmentEnds
  BY <1>30, ChainTyped DEF SegmentEnds, SegmentFrame
<1>31. CASE UNCHANGED vars
  BY <1>31 DEF vars
<1>32. QED
  BY <1>2, <1>3, <1>4, <1>5, <1>6, <1>7, <1>8, <1>9, <1>10, <1>11, <1>12, <1>13, <1>14, <1>15, <1>16, <1>17, <1>18, <1>19, <1>20, <1>21, <1>22, <1>23, <1>24, <1>25, <1>26, <1>27, <1>28, <1>29, <1>30, <1>31
     DEF Next, SaveFrameStep, SaveVideoStep

-----------------------------------------------------------------------------
(* Resources. Everywhere, what is allocated is what the handler holds, what *)
(* the pointers show, and what belongs to the packet, image or file under  *)
(* work.                                                                   *)

Base == {"device_data", "config"}

PtrInv ==
  /\ pc \in {"handler", "config", "finish", "done"} => ptr = {}
  /\ pc \in {"frame", "video", "loop", "decode", "image", "unref", "next"}
       => "output" \notin ptr
  /\ pc \in {"frame", "video"} /\ at = 1 => ptr = {}
  /\ pc = "segment" => ("output" \in ptr <=> at > 2)
  /\ pc \in {"copy", "mux", "close"} => "output" \in ptr

LiveInv ==
  /\ pc \in {"handler", "done"} => live = {}
  /\ pc = "config" => live = {"device_data"}
  /\ pc = "finish" => live = Base
  /\ pc \in {"frame", "video", "loop", "next"} => live = Base \cup ptr
  /\ pc \in {"decode", "unref"} => live = Base \cup ptr \cup {"ref"}
  /\ pc = "image" => /\ at \in 1 .. 10
                     /\ live = Base \cup ptr \cup {"ref"} \cup ImageHeld[at]
  /\ pc = "segment" => /\ at \in 1 .. 6
                       /\ live = Base \cup ptr \cup SegmentHeld[at]
  /\ pc \in {"copy", "close"} => live = Base \cup ptr \cup {"name"} \cup File
  /\ pc = "mux" => live = Base \cup ptr \cup {"name", "ref"} \cup File
  /\ pc = "cleanup" => \/ live = Base \cup ptr
                       \/ "output" \in ptr /\ live = Base \cup ptr \cup File
  /\ pc = "aborted" => ptr \subseteq live

ResourceInv == PtrInv /\ LiveInv

LEMMA InitHeld == Init => ResourceInv
  BY DEF Init, ResourceInv, PtrInv, LiveInv

LEMMA NextHeld == TypeInv /\ ResourceInv /\ [Next]_vars => ResourceInv'
<1> SUFFICES ASSUME TypeInv, ResourceInv, [Next]_vars PROVE ResourceInv'
  OBVIOUS
<1>1. ptr \subseteq Chained /\ at \in Nat \ {0}
  BY DEF TypeInv, TypeOK, LoopInv
<1> USE <1>1 DEF ResourceInv, PtrInv, LiveInv, Goto, Fail, Acquire, Release, Base,
                 Chained, frameVars, videoVars, dataVars
<1>2. CASE HandlerStarts
  BY <1>2 DEF HandlerStarts, File, CallFrame, DataFrame
<1>3. CASE ConfigParsed
  BY <1>3 DEF ConfigParsed, File, CallFrame, DataFrame
<1>4. CASE HandlerFinishes
  BY <1>4 DEF HandlerFinishes, File, CallFrame, DataFrame
<1>5. CASE StepSucceeds
  <2>1. at \in 1 .. Len(Chain)
    BY <1>5, Chains DEF StepSucceeds
  <2>2. Chain[at] \subseteq Chained \ {"output"}
    BY <1>5, <2>1, Chains DEF StepSucceeds
  <2>3. /\ live' = Base \cup ptr' \/ ~ pc \in {"frame", "video"}
        /\ "output" \notin ptr'
    BY <1>5, <2>2 DEF StepSucceeds
  <2>4. QED
    BY <1>5, <2>3 DEF StepSucceeds
<1>6. CASE StepFails
  <2>1. PICK R \in SUBSET Chain[at] :
          live' = live \cup R /\ ptr' = ptr \cup R /\ (R # Chain[at] \/ R = {})
    BY <1>6 DEF StepFails
  <2>2. at \in 1 .. Len(Chain) /\ Chain[at] \subseteq Chained \ {"output"}
    BY <1>6, Chains DEF StepFails
  <2>3. live' = Base \cup ptr'
    BY <1>6, <2>1 DEF StepFails
  <2>4. at = 1 => R = {} /\ ptr = {}
    <3>1. at = 1 => Chain[at] = {"input"}
      BY <1>6 DEF StepFails, Chain, FrameChain, VideoChain
    <3>2. at = 1 => R \subseteq {"input"} /\ (R # {"input"} \/ R = {})
      BY <2>1, <3>1
    <3>3. at = 1 => R = {}
      BY <3>2
    <3>4. at = 1 => ptr = {}
      BY <1>6 DEF StepFails
    <3>5. QED
      BY <3>3, <3>4
  <2>5. pc' = IF at = 1 THEN "finish" ELSE "cleanup"
    BY <1>6 DEF StepFails
  <2>6. at = 1 => ptr' = {} /\ live' = Base
    BY <2>1, <2>3, <2>4
  <2>7. CASE at = 1
    BY <2>5, <2>6, <2>7
  <2>8. CASE at # 1
    BY <2>3, <2>5, <2>8
  <2>9. QED
    BY <2>7, <2>8
<1>7. CASE ChainEnds
  BY <1>7 DEF ChainEnds, File, CallFrame, DataFrame
<1>8. CASE Cleanup
  BY <1>8 DEF Cleanup, File, CallFrame, DataFrame
<1>9. CASE LoopEnds
  <2>1. pc' = "cleanup" /\ live' = Base \cup ptr'
    BY <1>9 DEF LoopEnds
  <2>2. PtrInv' /\ LiveInv'
    BY <2>1 DEF PtrInv, LiveInv
  <2>3. QED
    BY <2>2 DEF ResourceInv
<1>10. CASE ReadFails
  BY <1>10 DEF ReadFails, File, LoopFrame
<1>11. CASE Reads
  BY <1>11 DEF Reads, File, LoopFrame
<1>12. CASE DecodeFails
  BY <1>12 DEF DecodeFails, File, LoopFrame
<1>13. CASE Decodes
  <2>1. /\ pc' = "image" /\ at' = 1 /\ live' = live /\ ptr' = ptr
        /\ live = Base \cup ptr \cup {"ref"} /\ "output" \notin ptr
    BY <1>13 DEF Decodes, LoopFrame
  <2>2. ImageHeld'[1] = {}
    BY DEF ImageHeld
  <2>3. QED
    BY <2>1, <2>2
<1>14. CASE ImageStep
  <2>1. at \in 1 .. 9 /\ ImageHeld[at] \cup Chain[at] = ImageHeld[at + 1]
    <3>1. pc = "image" /\ at <= Len(Chain)
      BY <1>14 DEF ImageStep
    <3>2. Len(Chain) = 9
      BY <3>1, ImageChainHolds
    <3>3. at \in 1 .. 9
      BY <3>1, <3>2
    <3>4. QED
      BY <3>1, <3>3, ImageChainHolds
  <2>2. /\ pc' = "image" /\ pc = "image" /\ at' = at + 1 /\ ptr' = ptr
        /\ live' = live \cup Chain[at] /\ req' = req
    BY <1>14 DEF ImageStep, LoopFrame
  <2>3. ImageHeld' = ImageHeld
    BY <2>2 DEF ImageHeld, ImageFile
  <2>4. live' = Base \cup ptr' \cup {"ref"} \cup ImageHeld'[at']
    BY <2>1, <2>2, <2>3
  <2>5. QED
    BY <2>1, <2>2, <2>4
<1>15. CASE ImageFails
  <2>1. at \in 1 .. 9 /\ ImageHeld[at] \ ImageFrees[at] = {}
    <3>1. pc = "image" /\ at <= Len(Chain)
      BY <1>15 DEF ImageFails
    <3>2. Len(Chain) = 9
      BY <3>1, ImageChainHolds
    <3>3. at \in 1 .. 9
      BY <3>1, <3>2
    <3>4. QED
      BY <3>1, <3>3, ImageChainHolds
  <2>2. ImageFrees[at] \cap (Base \cup Chained \cup {"ref"}) = {}
    <3>1. at \in {1, 2, 3, 4, 5, 6, 7, 8, 9}
      BY <2>1
    <3>2. QED
      BY <3>1 DEF ImageFrees, ImageFile
  <2>3. /\ pc' = "unref" /\ pc = "image" /\ ptr' = ptr
        /\ live' = live \ ImageFrees[at]
    BY <1>15 DEF ImageFails, LoopFrame
  <2>4. live' = Base \cup ptr' \cup {"ref"}
    BY <2>1, <2>2, <2>3
  <2>5. QED
    BY <2>3, <2>4
<1>16. CASE ImageEncoded
  <2>1. at = 10 /\ pc = "image"
    <3>1. pc = "image" /\ at > Len(Chain)
      BY <1>16 DEF ImageEncoded
    <3>2. Len(Chain) = 9
      BY <3>1, ImageChainHolds
    <3>3. QED
      BY <3>1, <3>2
  <2>2. ImageHeld[at] = {"img_name", "img_output", "img_codec"} \cup ImageFile
    BY <2>1 DEF ImageHeld
  <2>3. /\ pc' = "unref" /\ ptr' = ptr
        /\ live' = live \ ({"img_name", "img_output", "img_codec"} \cup ImageFile)
    BY <1>16 DEF ImageEncoded, LoopFrame
  <2>4. live' = Base \cup ptr' \cup {"ref"}
    BY <2>1, <2>2, <2>3 DEF ImageFile
  <2>5. QED
    BY <2>1, <2>3, <2>4
<1>17. CASE Unref
  BY <1>17 DEF Unref, File, LoopFrame
<1>18. CASE NextSegment
  <2>1. /\ pc' = "segment" /\ at' = 1 /\ live' = live /\ ptr' = ptr
        /\ live = Base \cup ptr /\ "output" \notin ptr
    BY <1>18 DEF NextSegment
  <2>2. SegmentHeld'[1] = {}
    BY DEF SegmentHeld
  <2>3. QED
    BY <2>1, <2>2
<1>19. CASE VideoEnds
  <2>1. pc' = "cleanup" /\ live' = Base \cup ptr'
    BY <1>19 DEF VideoEnds
  <2>2. PtrInv' /\ LiveInv'
    BY <2>1 DEF PtrInv, LiveInv
  <2>3. QED
    BY <2>2 DEF ResourceInv
<1>20. CASE SegmentStep
  <2>1. /\ at \in 1 .. 5 /\ ("output" \in Chain[at] <=> at = 2)
        /\ SegmentHeld[at] \cup Chain[at]
             = SegmentHeld[at + 1] \cup (Chain[at] \cap {"output"})
    <3>1. pc = "segment" /\ at <= Len(Chain)
      BY <1>20 DEF SegmentStep
    <3>2. Len(Chain) = 5
      BY <3>1, SegmentChainHolds
    <3>3. at \in 1 .. 5
      BY <3>1, <3>2
    <3>4. QED
      BY <3>1, <3>3, SegmentChainHolds
  <2>2. /\ pc = "segment" /\ pc' = "segment" /\ at' = at + 1
        /\ live' = live \cup Chain[at] /\ ptr' = ptr \cup (Chain[at] \cap {"output"})
        /\ req' = req
    BY <1>20 DEF SegmentStep, SegmentFrame
  <2>3. SegmentHeld' = SegmentHeld
    BY <2>2 DEF SegmentHeld, File
  <2>4. live' = Base \cup ptr' \cup SegmentHeld'[at']
    BY <2>1, <2>2, <2>3
  <2>5. "output" \in ptr' <=> at' > 2
    BY <2>1, <2>2
  <2>6. QED
    BY <2>1, <2>2, <2>4, <2>5
<1>21. CASE Overrun
  BY <1>21 DEF Overrun, File, SegmentFrame
<1>22. CASE SegmentFails
  <2>1. /\ pc = "segment" /\ pc' = "cleanup" /\ live' = live \ {"name"}
        /\ ptr' = ptr /\ req' = req /\ at \in 1 .. 5
    <3>1. pc = "segment" /\ at <= Len(Chain)
      BY <1>22 DEF SegmentFails
    <3>2. Len(Chain) = 5
      BY <3>1, SegmentChainHolds
    <3>3. at \in 1 .. 5
      BY <3>1, <3>2
    <3>4. QED
      BY <1>22, <3>1, <3>3 DEF SegmentFails, SegmentFrame
  <2>2. \/ SegmentHeld[at] \ {"name"} = {}
        \/ at = 5 /\ SegmentHeld[at] \ {"name"} = File
    <3>1. at \in {1, 2, 3, 4, 5}
      BY <2>1
    <3>2. QED
      BY <3>1 DEF SegmentHeld, File
  <2>3. \/ live' = Base \cup ptr'
        \/ "output" \in ptr' /\ live' = Base \cup ptr' \cup File
    BY <2>1, <2>2
  <2>4. File' = File
    BY <2>1 DEF File
  <2>5. PtrInv' /\ LiveInv'
    BY <2>1, <2>3, <2>4 DEF PtrInv, LiveInv
  <2>6. QED
    BY <2>5 DEF ResourceInv
<1>23. CASE SegmentOpen
  <2>1. pc = "segment" /\ at = 6
    BY <1>23, SegmentChainHolds DEF SegmentOpen
  <2>2. /\ pc' = "copy" /\ live' = live /\ ptr' = ptr /\ req' = req
    BY <1>23 DEF SegmentOpen, SegmentFrame
  <2>3. SegmentHeld[at] = {"name"} \cup File /\ File' = File
    BY <2>1, <2>2 DEF SegmentHeld, File
  <2>4. QED
    BY <2>1, <2>2, <2>3
<1>24. CASE CopyReads
  BY <1>24 DEF CopyReads, File, CopyFrame
<1>25. CASE CopyReadFails
  BY <1>25 DEF CopyReadFails, File, CopyFrame
<1>26. CASE CopyEnds
  BY <1>26 DEF CopyEnds, File, CopyFrame
<1>27. CASE Skips
  BY <1>27 DEF Skips, File, CopyFrame
<1>28. CASE Muxes
  BY <1>28 DEF Muxes, File, CopyFrame
<1>29. CASE MuxFails
  BY <1>29 DEF MuxFails, File, CopyFrame
<1>30. CASE SegmentEnds
  BY <1>30 DEF SegmentEnds, File, SegmentFrame
<1>31. CASE UNCHANGED vars
  BY <1>31 DEF vars, File, ImageHeld, ImageFile, SegmentHeld
<1>32. QED
  BY <1>2, <1>3, <1>4, <1>5, <1>6, <1>7, <1>8, <1>9, <1>10, <1>11, <1>12, <1>13, <1>14, <1>15, <1>16, <1>17, <1>18, <1>19, <1>20, <1>21, <1>22, <1>23, <1>24, <1>25, <1>26, <1>27, <1>28, <1>29, <1>30, <1>31
     DEF Next, SaveFrameStep, SaveVideoStep

LEMMA ResourcesHeld == Spec => [](TypeInv /\ ResourceInv)
<1>1. Init => TypeInv /\ ResourceInv
  BY InitTyped, InitHeld
<1>2. TypeInv /\ ResourceInv /\ [Next]_vars => (TypeInv /\ ResourceInv)'
  BY NextTyped, NextHeld
<1>3. QED
  BY <1>1, <1>2, PTL DEF Spec

-----------------------------------------------------------------------------
(* No loop of stream.c goes past its bound and no variable loses its type, *)
(* whatever the configuration (negative counts and products that wrap      *)
(* around included), the input and the failures.                           *)
THEOREM TypeCorrect == Spec => []TypeOK
<1>1. TypeInv /\ ResourceInv => TypeOK
  BY DEF TypeInv
<1>2. QED
  BY <1>1, ResourcesHeld, PTL

(* No cleanup block frees what was freed before, and no packet is filled   *)
(* that still has a payload.                                               *)
THEOREM NothingDangles == Spec => []NothingFreedTwice
<1>1. TypeInv /\ ResourceInv => NothingFreedTwice
  <2> SUFFICES ASSUME TypeInv, ResourceInv PROVE NothingFreedTwice
    OBVIOUS
  <2>1. ptr \subseteq Chained
    BY DEF TypeInv, TypeOK
  <2>2. ptr \subseteq live
    BY DEF ResourceInv, PtrInv, LiveInv, TypeInv, TypeOK
  <2>3. pc = "loop" => "ref" \notin live
    BY <2>1 DEF ResourceInv, LiveInv, Base, Chained
  <2>4. pc = "copy" => "ref" \notin live
    <3>1. "ref" \notin File
      BY DEF File
    <3>2. QED
      BY <2>1, <3>1 DEF ResourceInv, LiveInv, Base, Chained
  <2>5. QED
    BY <2>2, <2>3, <2>4 DEF NothingFreedTwice
<1>2. QED
  BY <1>1, ResourcesHeld, PTL

(* Every error path of stream.c releases what was acquired before it.      *)
THEOREM AllReleased == Spec => []NothingLeaked
<1>1. TypeInv /\ ResourceInv => NothingLeaked
  BY DEF ResourceInv, LiveInv, NothingLeaked
<1>2. QED
  BY <1>1, ResourcesHeld, PTL

-----------------------------------------------------------------------------
(* The mapping. An output stream is known by the rank of its input stream  *)
(* among the media streams, which no stream that appears later changes.    *)

LEMMA MediaFinite == TypeOK => IsFiniteSet(Media) /\ Media \subseteq DOMAIN streams
<1> SUFFICES ASSUME TypeOK PROVE IsFiniteSet(Media) /\ Media \subseteq DOMAIN streams
  OBVIOUS
<1>1. Len(streams) \in Nat /\ DOMAIN streams = 1 .. Len(streams)
  BY DEF TypeOK
<1>2. IsFiniteSet(1 .. Len(streams))
  BY <1>1, FS_Interval
<1>3. Media \subseteq 1 .. Len(streams)
  BY <1>1 DEF Media
<1>4. QED
  BY <1>1, <1>2, <1>3, FS_Subset

(* The ranks number the media streams from 1, each with its own.           *)
LEMMA RankRange ==
  ASSUME TypeOK, NEW i \in Media
  PROVE  Rank(i) \in 1 .. Cardinality(Media)
<1> DEFINE M == {j \in Media : j <= i}
<1>1. IsFiniteSet(Media) /\ i \in Nat
  BY MediaFinite DEF TypeOK
<1>2. IsFiniteSet(M) /\ Cardinality(M) <= Cardinality(Media)
  BY <1>1, FS_Subset
<1>3. Cardinality(M) \in Nat /\ Cardinality(Media) \in Nat
  BY <1>1, <1>2, FS_CardinalityType
<1>4. M # {}
  BY <1>1
<1>5. Cardinality(M) # 0
  BY <1>2, <1>4, FS_EmptySet
<1>6. QED
  BY <1>2, <1>3, <1>5 DEF Rank

LEMMA RankInjective ==
  ASSUME TypeOK, NEW i \in Media, NEW j \in Media, Rank(i) = Rank(j)
  PROVE  i = j
<1> DEFINE M(n) == {m \in Media : m <= n}
<1>1. IsFiniteSet(Media) /\ i \in Nat /\ j \in Nat
  BY MediaFinite DEF TypeOK
<1>2. IsFiniteSet(M(i)) /\ IsFiniteSet(M(j))
  BY <1>1, FS_Subset
<1>3. Cardinality(M(i)) = Cardinality(M(j))
  BY DEF Rank
<1>4. CASE i <= j
  <2>1. M(i) \subseteq M(j)
    <3>1. ASSUME NEW m \in Media, m <= i PROVE m <= j
      <4>1. m \in Nat
        BY MediaFinite DEF TypeOK
      <4>2. QED
        BY <1>1, <1>4, <3>1, <4>1
    <3>2. QED
      BY <3>1
  <2>2. M(i) = M(j)
    BY <1>2, <1>3, <2>1, FS_Subset
  <2>3. j \in M(i)
    BY <1>1, <2>2
  <2>4. QED
    BY <1>1, <1>4, <2>3
<1>5. CASE j <= i
  <2>1. M(j) \subseteq M(i)
    <3>1. ASSUME NEW m \in Media, m <= j PROVE m <= i
      <4>1. m \in Nat
        BY MediaFinite DEF TypeOK
      <4>2. QED
        BY <1>1, <1>5, <3>1, <4>1
    <3>2. QED
      BY <3>1
  <2>2. M(i) = M(j)
    BY <1>2, <1>3, <2>1, FS_Subset
  <2>3. i \in M(j)
    BY <1>1, <2>2
  <2>4. QED
    BY <1>1, <1>5, <2>3
<1>6. QED
  BY <1>1, <1>4, <1>5

(* MapStreams records, for each media stream there is, the output stream   *)
(* that is created for it.                                                 *)
LEMMA MapStreamsHolds ==
  ASSUME TypeOK, MapStreams, NEW i \in Media
  PROVE  Rank(i) \in DOMAIN outs' /\ outs'[Rank(i)] = i
<1>1. Rank(i) \in 1 .. Cardinality(Media)
  BY RankRange
<1>2. outs'[Rank(i)] = CHOOSE m \in Media : Rank(m) = Rank(i)
  BY <1>1 DEF MapStreams
<1>3. \A m \in Media : Rank(m) = Rank(i) => m = i
  BY RankInjective
<1>4. QED
  BY <1>1, <1>2, <1>3 DEF MapStreams

(* A stream that appears does not change the rank of those before it.      *)
LEMMA RankStable ==
  ASSUME TypeOK, NEW x \in {"media", "data"}, streams' = Append(streams, x),
         NEW i \in Media
  PROVE  i \in Media' /\ Rank(i)' = Rank(i)
<1>1. /\ streams \in Seq({"media", "data"}) /\ Len(streams) \in Nat
      /\ DOMAIN streams = 1 .. Len(streams)
  BY DEF TypeOK
<1>2. DOMAIN streams' = 1 .. Len(streams) + 1
  BY <1>1
<1>3. \A j \in 1 .. Len(streams) : streams'[j] = streams[j]
  BY <1>1
<1>4. i \in 1 .. Len(streams) /\ i \in Media'
  BY <1>1, <1>2, <1>3 DEF Media
<1>5. {j \in Media' : j <= i} = {j \in Media : j <= i}
  <2>1. ASSUME NEW j PROVE j \in Media' /\ j <= i <=> j \in Media /\ j <= i
    BY <1>1, <1>2, <1>3, <1>4 DEF Media
  <2>2. QED
    BY <2>1
<1>6. QED
  BY <1>4, <1>5 DEF Rank

SizeInv ==
  /\ pc \in {"next", "segment", "copy", "mux", "close"} \/ (pc = "video" /\ at > 3)
       => 1 .. size \subseteq DOMAIN map
  /\ pc = "mux" => packet > 0

MapInv ==
  \A i \in DOMAIN map :
    map[i] # 0 => /\ i \in Media /\ map[i] = Rank(i)
                  /\ map[i] \in DOMAIN outs /\ outs[map[i]] = i

SentInv ==
  sent # <<0, 0>> => /\ sent[1] \in Media /\ sent[2] = Rank(sent[1])
                     /\ sent[2] \in DOMAIN outs /\ outs[sent[2]] = sent[1]

MappingInv == SizeInv /\ MapInv /\ SentInv

LEMMA InitMapped == Init => MappingInv
  BY DEF Init, MappingInv, SizeInv, MapInv, SentInv

(* The steps that touch neither the streams nor the mapping.               *)
LEMMA NextKeepsMapping ==
  ASSUME MapInv, SentInv, UNCHANGED <<streams, map, outs, sent>>
  PROVE  MapInv' /\ SentInv'
<1>1. Media' = Media /\ (\A i : Rank(i)' = Rank(i))
  BY DEF Media, Rank
<1>2. MapInv'
  BY <1>1 DEF MapInv
<1>3. SentInv'
  BY <1>1 DEF SentInv, Rank
<1>4. QED
  BY <1>2, <1>3

LEMMA NextMapped == TypeInv /\ MappingInv /\ [Next]_vars => MappingInv'
<1> SUFFICES ASSUME TypeInv, MappingInv, [Next]_vars PROVE MappingInv'
  OBVIOUS
<1>1. TypeOK /\ SizeInv /\ MapInv /\ SentInv /\ at \in Nat \ {0}
  BY DEF TypeInv, LoopInv, MappingInv
<1> USE <1>1 DEF Goto, Fail, frameVars, videoVars, dataVars
<1>2. CASE HandlerStarts
  <2>1. UNCHANGED <<streams, map, outs, sent, size>>
    BY <1>2 DEF HandlerStarts, CallFrame, DataFrame
  <2>2. SizeInv'
    BY <1>2, <2>1 DEF HandlerStarts, SizeInv
  <2>3. QED
    BY <2>1, <2>2, NextKeepsMapping DEF MappingInv
<1>3. CASE ConfigParsed
  <2>1. UNCHANGED <<streams, map, outs, sent, size>>
    BY <1>3 DEF ConfigParsed, CallFrame, DataFrame
  <2>2. SizeInv'
    BY <1>3, <2>1 DEF ConfigParsed, SizeInv
  <2>3. QED
    BY <2>1, <2>2, NextKeepsMapping DEF MappingInv
<1>4. CASE HandlerFinishes
  <2>1. UNCHANGED <<streams, map, outs, sent, size>>
    BY <1>4 DEF HandlerFinishes, CallFrame, DataFrame
  <2>2. SizeInv'
    BY <1>4, <2>1 DEF HandlerFinishes, SizeInv
  <2>3. QED
    BY <2>1, <2>2, NextKeepsMapping DEF MappingInv
<1>5. CASE StepSucceeds
  <2>1. CASE pc = "video" /\ at = 3
    <3>1. /\ map' = [i \in 1 .. Len(streams) |-> 0] /\ size' = Len(streams)
          /\ UNCHANGED <<streams, outs, sent, pc>>
      BY <1>5, <2>1 DEF StepSucceeds, DataFrame
    <3>2. SizeInv'
      BY <2>1, <3>1 DEF SizeInv
    <3>3. MapInv'
      BY <3>1 DEF MapInv
    <3>4. SentInv'
      BY <3>1 DEF SentInv, Media, Rank
    <3>5. QED
      BY <3>2, <3>3, <3>4 DEF MappingInv
  <2>2. CASE ~(pc = "video" /\ at = 3)
    <3>1. UNCHANGED <<streams, map, outs, sent, size>>
      BY <1>5, <2>2 DEF StepSucceeds, DataFrame
    <3>2. SizeInv'
      BY <1>5, <2>2, <3>1 DEF StepSucceeds, SizeInv
    <3>3. QED
      BY <3>1, <3>2, NextKeepsMapping DEF MappingInv
  <2>3. QED
    BY <2>1, <2>2
<1>6. CASE StepFails
  <2>1. UNCHANGED <<streams, map, outs, sent, size>>
    BY <1>6 DEF StepFails, CallFrame, DataFrame
  <2>2. SizeInv'
    BY <1>6, <2>1 DEF StepFails, SizeInv
  <2>3. QED
    BY <2>1, <2>2, NextKeepsMapping DEF MappingInv
<1>7. CASE ChainEnds
  <2>1. UNCHANGED <<streams, map, outs, sent, size>>
    BY <1>7 DEF ChainEnds, CallFrame, DataFrame
  <2>2. pc = "video" => at > 3
    <3>1. pc = "video" => at > 4
      BY <1>7, Chains DEF ChainEnds
    <3>2. QED
      BY <3>1
  <2>3. SizeInv'
    BY <1>7, <2>1, <2>2 DEF ChainEnds, SizeInv
  <2>4. QED
    BY <2>1, <2>3, NextKeepsMapping DEF MappingInv
<1>8. CASE Cleanup
  <2>1. UNCHANGED <<streams, map, outs, sent, size>>
    BY <1>8 DEF Cleanup, CallFrame, DataFrame
  <2>2. SizeInv'
    BY <1>8, <2>1 DEF Cleanup, SizeInv
  <2>3. QED
    BY <2>1, <2>2, NextKeepsMapping DEF MappingInv
<1>9. CASE LoopEnds
  <2>1. UNCHANGED <<streams, map, outs, sent, size>>
    BY <1>9 DEF LoopEnds, LoopFrame
  <2>2. SizeInv'
    BY <1>9, <2>1 DEF LoopEnds, SizeInv
  <2>3. QED
    BY <2>1, <2>2, NextKeepsMapping DEF MappingInv
<1>10. CASE ReadFails
  <2>1. UNCHANGED <<streams, map, outs, sent, size>>
    BY <1>10 DEF ReadFails, LoopFrame
  <2>2. SizeInv'
    BY <1>10, <2>1 DEF ReadFails, SizeInv
  <2>3. QED
    BY <2>1, <2>2, NextKeepsMapping DEF MappingInv
<1>11. CASE Reads
  <2>1. UNCHANGED <<streams, map, outs, sent, size>>
    BY <1>11 DEF Reads, LoopFrame
  <2>2. SizeInv'
    BY <1>11, <2>1 DEF Reads, SizeInv
  <2>3. QED
    BY <2>1, <2>2, NextKeepsMapping DEF MappingInv
<1>12. CASE DecodeFails
  <2>1. UNCHANGED <<streams, map, outs, sent, size>>
    BY <1>12 DEF DecodeFails, LoopFrame
  <2>2. SizeInv'
    BY <1>12, <2>1 DEF DecodeFails, SizeInv
  <2>3. QED
    BY <2>1, <2>2, NextKeepsMapping DEF MappingInv
<1>13. CASE Decodes
  <2>1. UNCHANGED <<streams, map, outs, sent, size>>
    BY <1>13 DEF Decodes, LoopFrame
  <2>2. SizeInv'
    BY <1>13, <2>1 DEF Decodes, SizeInv
  <2>3. QED
    BY <2>1, <2>2, NextKeepsMapping DEF MappingInv
<1>14. CASE ImageStep
  <2>1. UNCHANGED <<streams, map, outs, sent, size>>
    BY <1>14 DEF ImageStep, LoopFrame
  <2>2. SizeInv'
    BY <1>14, <2>1 DEF ImageStep, SizeInv
  <2>3. QED
    BY <2>1, <2>2, NextKeepsMapping DEF MappingInv
<1>15. CASE ImageFails
  <2>1. UNCHANGED <<streams, map, outs, sent, size>>
    BY <1>15 DEF ImageFails, LoopFrame
  <2>2. SizeInv'
    BY <1>15, <2>1 DEF ImageFails, SizeInv
  <2>3. QED
    BY <2>1, <2>2, NextKeepsMapping DEF MappingInv
<1>16. CASE ImageEncoded
  <2>1. UNCHANGED <<streams, map, outs, sent, size>>
    BY <1>16 DEF ImageEncoded, LoopFrame
  <2>2. SizeInv'
    BY <1>16, <2>1 DEF ImageEncoded, SizeInv
  <2>3. QED
    BY <2>1, <2>2, NextKeepsMapping DEF MappingInv
<1>17. CASE Unref
  <2>1. UNCHANGED <<streams, map, outs, sent, size>>
    BY <1>17 DEF Unref, LoopFrame
  <2>2. SizeInv'
    BY <1>17, <2>1 DEF Unref, SizeInv
  <2>3. QED
    BY <2>1, <2>2, NextKeepsMapping DEF MappingInv
<1>18. CASE NextSegment
  <2>1. UNCHANGED <<streams, map, outs, sent, size>>
    BY <1>18 DEF NextSegment, SegmentFrame
  <2>2. SizeInv'
    BY <1>18, <2>1 DEF NextSegment, SizeInv
  <2>3. QED
    BY <2>1, <2>2, NextKeepsMapping DEF MappingInv
<1>19. CASE VideoEnds
  <2>1. UNCHANGED <<streams, map, outs, sent, size>>
    BY <1>19 DEF VideoEnds, SegmentFrame
  <2>2. SizeInv'
    BY <1>19, <2>1 DEF VideoEnds, SizeInv
  <2>3. QED
    BY <2>1, <2>2, NextKeepsMapping DEF MappingInv
<1>20. CASE SegmentStep
  <2>1. CASE at = 3
    <3>1. MapStreams /\ UNCHANGED <<streams, sent, size, pc>> /\ pc = "segment"
      BY <1>20, <2>1 DEF SegmentStep, SegmentFrame
    <3>2. Media' = Media /\ (\A i : Rank(i)' = Rank(i))
      BY <3>1 DEF Media, Rank
    <3>3. SizeInv'
      <4>1. size \in 0 .. Len(streams) /\ DOMAIN streams = 1 .. Len(streams)
        BY DEF TypeOK
      <4>2. DOMAIN map' = 1 .. Len(streams)
        BY <3>1, <4>1 DEF MapStreams
      <4>3. QED
        BY <3>1, <4>1, <4>2 DEF SizeInv
    <3>4. ASSUME NEW i \in DOMAIN map', map'[i] # 0
          PROVE /\ i \in Media /\ map'[i] = Rank(i)
                /\ map'[i] \in DOMAIN outs' /\ outs'[map'[i]] = i
      <4>1. i \in Media /\ map'[i] = Rank(i)
        BY <3>1, <3>4 DEF MapStreams
      <4>2. QED
        BY <3>1, <4>1, MapStreamsHolds
    <3>5. MapInv'
      BY <3>2, <3>4 DEF MapInv
    <3>6. SentInv'
      <4>1. ASSUME sent # <<0, 0>>
            PROVE  sent[2] \in DOMAIN outs' /\ outs'[sent[2]] = sent[1]
        BY <3>1, <4>1, MapStreamsHolds DEF SentInv
      <4>2. QED
        BY <3>1, <3>2, <4>1 DEF SentInv, Rank
    <3>7. QED
      BY <3>3, <3>5, <3>6 DEF MappingInv
  <2>2. CASE at # 3
    <3>1. UNCHANGED <<streams, map, outs, sent, size>>
      BY <1>20, <2>2 DEF SegmentStep, SegmentFrame
    <3>2. SizeInv'
      BY <1>20, <3>1 DEF SegmentStep, SizeInv
    <3>3. QED
      BY <3>1, <3>2, NextKeepsMapping DEF MappingInv
  <2>3. QED
    BY <2>1, <2>2
<1>21. CASE Overrun
  <2>1. UNCHANGED <<streams, map, outs, sent, size>>
    BY <1>21 DEF Overrun, SegmentFrame
  <2>2. SizeInv'
    BY <1>21, <2>1 DEF Overrun, SizeInv
  <2>3. QED
    BY <2>1, <2>2, NextKeepsMapping DEF MappingInv
<1>22. CASE SegmentFails
  <2>1. UNCHANGED <<streams, map, outs, sent, size>>
    BY <1>22 DEF SegmentFails, SegmentFrame
  <2>2. SizeInv'
    BY <1>22, <2>1 DEF SegmentFails, SizeInv
  <2>3. QED
    BY <2>1, <2>2, NextKeepsMapping DEF MappingInv
<1>23. CASE SegmentOpen
  <2>1. UNCHANGED <<streams, map, outs, sent, size>>
    BY <1>23 DEF SegmentOpen, SegmentFrame
  <2>2. SizeInv'
    BY <1>23, <2>1 DEF SegmentOpen, SizeInv
  <2>3. QED
    BY <2>1, <2>2, NextKeepsMapping DEF MappingInv
<1>24. CASE CopyReads
  <2>1. UNCHANGED <<map, outs, sent, size>> /\ pc = "copy" /\ pc' = "mux"
    BY <1>24 DEF CopyReads, CopyFrame
  <2>2. CASE packet' \in DOMAIN streams /\ UNCHANGED streams
    <3>1. SizeInv'
      BY <2>1, <2>2 DEF SizeInv, TypeOK
    <3>2. QED
      BY <2>1, <2>2, <3>1, NextKeepsMapping DEF MappingInv
  <2>3. CASE /\ Len(streams) < size + Len(Late)
             /\ streams' = Append(streams, Late[Len(streams) - size + 1])
             /\ packet' = Len(streams')
    <3>1. PICK x \in {"media", "data"} : streams' = Append(streams, x)
      <4>1. Len(streams) - size + 1 \in 1 .. Len(Late)
        BY <2>3, StreamAssumption DEF TypeOK
      <4>2. Late[Len(streams) - size + 1] \in {"media", "data"}
        BY <4>1, StreamAssumption
      <4>3. QED
        BY <2>3, <4>2
    <3>2. packet' > 0
      BY <2>3, <3>1 DEF TypeOK
    <3>3. SizeInv'
      BY <2>1, <3>2 DEF SizeInv
    <3>4. \A i \in Media : i \in Media' /\ Rank(i)' = Rank(i)
      BY <3>1, RankStable
    <3>5. MapInv'
      BY <2>1, <3>4 DEF MapInv
    <3>6. SentInv'
      BY <2>1, <3>4 DEF SentInv, Rank
    <3>7. QED
      BY <3>3, <3>5, <3>6 DEF MappingInv
  <2>4. QED
    BY <1>24, <2>2, <2>3 DEF CopyReads
<1>25. CASE CopyReadFails
  <2>1. UNCHANGED <<streams, map, outs, sent, size>>
    BY <1>25 DEF CopyReadFails, CopyFrame
  <2>2. SizeInv'
    BY <1>25, <2>1 DEF CopyReadFails, SizeInv
  <2>3. QED
    BY <2>1, <2>2, NextKeepsMapping DEF MappingInv
<1>26. CASE CopyEnds
  <2>1. UNCHANGED <<streams, map, outs, sent, size>>
    BY <1>26 DEF CopyEnds, CopyFrame
  <2>2. SizeInv'
    BY <1>26, <2>1 DEF CopyEnds, SizeInv
  <2>3. QED
    BY <2>1, <2>2, NextKeepsMapping DEF MappingInv
<1>27. CASE Skips
  <2>1. UNCHANGED <<streams, map, outs, sent, size>>
    BY <1>27 DEF Skips, CopyFrame
  <2>2. SizeInv'
    BY <1>27, <2>1 DEF Skips, SizeInv
  <2>3. QED
    BY <2>1, <2>2, NextKeepsMapping DEF MappingInv
<1>28. CASE Muxes
  <2>1. /\ pc = "mux" /\ pc' = "copy" /\ UNCHANGED <<streams, map, outs, size>>
        /\ sent' = <<packet, IF packet \in DOMAIN map THEN map[packet] ELSE 0>>
        /\ packet <= size /\ map[packet] # 0
    BY <1>28 DEF Muxes, CopyFrame, Mapped
  <2>2. packet \in DOMAIN map
    BY <2>1 DEF SizeInv, TypeOK
  <2>3. sent' = <<packet, map[packet]>> /\ sent'[1] = packet /\ sent'[2] = map[packet]
    BY <2>1, <2>2
  <2>4. Media' = Media /\ (\A i : Rank(i)' = Rank(i))
    BY <2>1 DEF Media, Rank
  <2>5. MapInv'
    BY <2>1, <2>4 DEF MapInv
  <2>6. SizeInv'
    BY <2>1 DEF SizeInv
  <2>7. SentInv'
    <3>1. /\ packet \in Media /\ map[packet] = Rank(packet)
          /\ map[packet] \in DOMAIN outs /\ outs[map[packet]] = packet
      BY <2>1, <2>2 DEF MapInv
    <3>2. QED
      BY <2>1, <2>3, <2>4, <3>1 DEF SentInv, Rank
  <2>8. QED
    BY <2>5, <2>6, <2>7 DEF MappingInv
<1>29. CASE MuxFails
  <2>1. UNCHANGED <<streams, map, outs, sent, size>>
    BY <1>29 DEF MuxFails, CopyFrame
  <2>2. SizeInv'
    BY <1>29, <2>1 DEF MuxFails, SizeInv
  <2>3. QED
    BY <2>1, <2>2, NextKeepsMapping DEF MappingInv
<1>30. CASE SegmentEnds
  <2>1. UNCHANGED <<streams, map, outs, sent, size>>
    BY <1>30 DEF SegmentEnds, SegmentFrame
  <2>2. SizeInv'
    BY <1>30, <2>1 DEF SegmentEnds, SizeInv
  <2>3. QED
    BY <2>1, <2>2, NextKeepsMapping DEF MappingInv
<1>31. CASE UNCHANGED vars
  <2>1. UNCHANGED <<streams, map, outs, sent, size, pc, at, packet>>
    BY <1>31 DEF vars
  <2>2. SizeInv'
    BY <2>1 DEF SizeInv
  <2>3. QED
    BY <2>1, <2>2, NextKeepsMapping DEF MappingInv
<1>32. QED
  BY <1>2, <1>3, <1>4, <1>5, <1>6, <1>7, <1>8, <1>9, <1>10, <1>11, <1>12, <1>13, <1>14, <1>15, <1>16, <1>17, <1>18, <1>19, <1>20, <1>21, <1>22, <1>23, <1>24, <1>25, <1>26, <1>27, <1>28, <1>29, <1>30, <1>31
     DEF Next, SaveFrameStep, SaveVideoStep

(* A packet is written to the output stream created for its input stream,  *)
(* however many streams appear while the files are written.                *)
THEOREM MappingHolds == Spec => []PacketsStayInTheirStream
<1>1. Init => TypeInv /\ MappingInv
  BY InitTyped, InitMapped
<1>2. TypeInv /\ MappingInv /\ [Next]_vars => (TypeInv /\ MappingInv)'
  BY NextTyped, NextMapped
<1>3. TypeInv /\ MappingInv => PacketsStayInTheirStream
  BY DEF MappingInv, SentInv, PacketsStayInTheirStream
<1>4. QED
  BY <1>1, <1>2, <1>3, PTL DEF Spec

-----------------------------------------------------------------------------
(* Results. The two jobs keep apart; what is on disk is counted by frames, *)
(* or by the files finished and the packets of the one under work.         *)

Ending == {"cleanup", "finish", "done"}

JobInv ==
  /\ pc \in {"frame", "loop", "decode", "image", "unref"} => req.job = "SaveFrame"
  /\ pc \in {"video", "next", "segment", "copy", "mux", "close"}
       => req.job = "SaveVideo"
  /\ pc \in Ending /\ ret = "ok" => req.job # "other"

FrameInv ==
  /\ req.job # "SaveFrame" \/ pc \in {"handler", "config", "frame"} => failures = 0
  /\ req.job = "SaveFrame" /\ ~excused => files = frames
  /\ failures > 0 => failures < Limit \/ frames < req.count
  /\ pc \in Ending /\ ret = "ok" /\ req.job = "SaveFrame" => frames >= req.count
  /\ pc \in Ending /\ ret = "err" /\ failures > 0 => failures >= Limit

Written(n) == n * req.count      \* packets of n complete files

LEMMA WrittenOneMore ==
  ASSUME NEW n \in Int, req.count \in Int
  PROVE  /\ Written(n) \in Int /\ Written(0) = 0
         /\ Written(n + 1) = Written(n) + req.count
  BY DEF Written

VideoInv ==
  req.job = "SaveVideo" =>
    /\ pc \in {"handler", "config", "video"} => files = 0 /\ segment = 0
    /\ ~excused /\ req.count > 0 =>
         /\ pc = "next" => files = Written(segment)
         /\ pc = "segment" => packets = 0
         /\ pc \in {"segment", "copy", "mux"} => files = Written(segment) + packets
         /\ pc = "close" => files = Written(segment) + req.count
         /\ pc \in Ending /\ ret = "ok" => files = Written(segment)
    /\ pc \in Ending /\ ret = "ok" => segment >= req.segs

LEMMA InitResult == Init => JobInv /\ FrameInv /\ VideoInv
  BY DEF Init, JobInv, FrameInv, VideoInv, Ending

LEMMA NextJob == TypeOK /\ JobInv /\ [Next]_vars => JobInv'
<1> SUFFICES ASSUME TypeOK, JobInv, [Next]_vars PROVE JobInv'
  OBVIOUS
<1>1. req.job \in {"SaveFrame", "SaveVideo", "other"} /\ ret \in {"ok", "err"}
  BY StreamAssumption DEF TypeOK
<1> USE <1>1 DEF JobInv, Ending, Goto, Fail, frameVars, videoVars, dataVars
<1>2. CASE HandlerStarts
  BY <1>2 DEF HandlerStarts, CallFrame, DataFrame
<1>3. CASE ConfigParsed
  BY <1>3 DEF ConfigParsed, CallFrame, DataFrame
<1>4. CASE HandlerFinishes
  BY <1>4 DEF HandlerFinishes, CallFrame, DataFrame
<1>5. CASE StepSucceeds
  BY <1>5 DEF StepSucceeds, DataFrame
<1>6. CASE StepFails
  BY <1>6 DEF StepFails, CallFrame, DataFrame
<1>7. CASE ChainEnds
  BY <1>7 DEF ChainEnds, CallFrame, DataFrame
<1>8. CASE Cleanup
  BY <1>8 DEF Cleanup, CallFrame, DataFrame
<1>9. CASE LoopEnds
  BY <1>9 DEF LoopEnds, LoopFrame
<1>10. CASE ReadFails
  BY <1>10 DEF ReadFails, LoopFrame
<1>11. CASE Reads
  BY <1>11 DEF Reads, LoopFrame
<1>12. CASE DecodeFails
  BY <1>12 DEF DecodeFails, LoopFrame
<1>13. CASE Decodes
  BY <1>13 DEF Decodes, LoopFrame
<1>14. CASE ImageStep
  BY <1>14 DEF ImageStep, LoopFrame
<1>15. CASE ImageFails
  BY <1>15 DEF ImageFails, LoopFrame
<1>16. CASE ImageEncoded
  BY <1>16 DEF ImageEncoded, LoopFrame
<1>17. CASE Unref
  BY <1>17 DEF Unref, LoopFrame
<1>18. CASE NextSegment
  BY <1>18 DEF NextSegment, SegmentFrame
<1>19. CASE VideoEnds
  BY <1>19 DEF VideoEnds, SegmentFrame
<1>20. CASE SegmentStep
  BY <1>20 DEF SegmentStep, SegmentFrame
<1>21. CASE Overrun
  BY <1>21 DEF Overrun, SegmentFrame
<1>22. CASE SegmentFails
  BY <1>22 DEF SegmentFails, SegmentFrame
<1>23. CASE SegmentOpen
  BY <1>23 DEF SegmentOpen, SegmentFrame
<1>24. CASE CopyReads
  BY <1>24 DEF CopyReads, CopyFrame
<1>25. CASE CopyReadFails
  BY <1>25 DEF CopyReadFails, CopyFrame
<1>26. CASE CopyEnds
  BY <1>26 DEF CopyEnds, CopyFrame
<1>27. CASE Skips
  BY <1>27 DEF Skips, CopyFrame
<1>28. CASE Muxes
  BY <1>28 DEF Muxes, CopyFrame
<1>29. CASE MuxFails
  BY <1>29 DEF MuxFails, CopyFrame
<1>30. CASE SegmentEnds
  BY <1>30 DEF SegmentEnds, SegmentFrame
<1>31. CASE UNCHANGED vars
  BY <1>31 DEF vars
<1>32. QED
  BY <1>2, <1>3, <1>4, <1>5, <1>6, <1>7, <1>8, <1>9, <1>10, <1>11, <1>12, <1>13, <1>14, <1>15, <1>16, <1>17, <1>18, <1>19, <1>20, <1>21, <1>22, <1>23, <1>24, <1>25, <1>26, <1>27, <1>28, <1>29, <1>30, <1>31
     DEF Next, SaveFrameStep, SaveVideoStep

LEMMA NextFrame == TypeInv /\ JobInv /\ FrameInv /\ [Next]_vars => FrameInv'
<1> SUFFICES ASSUME TypeInv, JobInv, FrameInv, [Next]_vars PROVE FrameInv'
  OBVIOUS
<1>1. /\ frames \in Int /\ failures \in Int /\ files \in Nat /\ Limit \in Int
      /\ req.count \in Int /\ ret \in {"ok", "err"}
      /\ pc \in {"decode", "image"} => frames < req.count /\ failures < Limit
  BY LimitType DEF TypeInv, TypeOK, LoopInv, Loops, Upto
<1> USE <1>1 DEF FrameInv, Limit, Loops, JobInv, Ending, Goto, Fail, frameVars, videoVars, dataVars
<1>2. CASE HandlerStarts
  BY <1>2 DEF HandlerStarts, CallFrame, DataFrame
<1>3. CASE ConfigParsed
  BY <1>3 DEF ConfigParsed, CallFrame, DataFrame
<1>4. CASE HandlerFinishes
  BY <1>4 DEF HandlerFinishes, CallFrame, DataFrame
<1>5. CASE StepSucceeds
  BY <1>5 DEF StepSucceeds, DataFrame
<1>6. CASE StepFails
  BY <1>6 DEF StepFails, CallFrame, DataFrame
<1>7. CASE ChainEnds
  BY <1>7 DEF ChainEnds, CallFrame, DataFrame
<1>8. CASE Cleanup
  BY <1>8 DEF Cleanup, CallFrame, DataFrame
<1>9. CASE LoopEnds
  BY <1>9 DEF LoopEnds, LoopFrame
<1>10. CASE ReadFails
  BY <1>10 DEF ReadFails, LoopFrame
<1>11. CASE Reads
  BY <1>11 DEF Reads, LoopFrame
<1>12. CASE DecodeFails
  BY <1>12 DEF DecodeFails, LoopFrame
<1>13. CASE Decodes
  BY <1>13 DEF Decodes, LoopFrame
<1>14. CASE ImageStep
  BY <1>14 DEF ImageStep, LoopFrame
<1>15. CASE ImageFails
  BY <1>15 DEF ImageFails, LoopFrame
<1>16. CASE ImageEncoded
  BY <1>16 DEF ImageEncoded, LoopFrame
<1>17. CASE Unref
  BY <1>17 DEF Unref, LoopFrame
<1>18. CASE NextSegment
  BY <1>18 DEF NextSegment, SegmentFrame
<1>19. CASE VideoEnds
  BY <1>19 DEF VideoEnds, SegmentFrame
<1>20. CASE SegmentStep
  BY <1>20 DEF SegmentStep, SegmentFrame
<1>21. CASE Overrun
  BY <1>21 DEF Overrun, SegmentFrame
<1>22. CASE SegmentFails
  BY <1>22 DEF SegmentFails, SegmentFrame
<1>23. CASE SegmentOpen
  BY <1>23 DEF SegmentOpen, SegmentFrame
<1>24. CASE CopyReads
  BY <1>24 DEF CopyReads, CopyFrame
<1>25. CASE CopyReadFails
  BY <1>25 DEF CopyReadFails, CopyFrame
<1>26. CASE CopyEnds
  BY <1>26 DEF CopyEnds, CopyFrame
<1>27. CASE Skips
  BY <1>27 DEF Skips, CopyFrame
<1>28. CASE Muxes
  BY <1>28 DEF Muxes, CopyFrame
<1>29. CASE MuxFails
  BY <1>29 DEF MuxFails, CopyFrame
<1>30. CASE SegmentEnds
  BY <1>30 DEF SegmentEnds, SegmentFrame
<1>31. CASE UNCHANGED vars
  BY <1>31 DEF vars
<1>32. QED
  BY <1>2, <1>3, <1>4, <1>5, <1>6, <1>7, <1>8, <1>9, <1>10, <1>11, <1>12, <1>13, <1>14, <1>15, <1>16, <1>17, <1>18, <1>19, <1>20, <1>21, <1>22, <1>23, <1>24, <1>25, <1>26, <1>27, <1>28, <1>29, <1>30, <1>31
     DEF Next, SaveFrameStep, SaveVideoStep

LEMMA NextVideo == TypeInv /\ JobInv /\ VideoInv /\ [Next]_vars => VideoInv'
<1> SUFFICES ASSUME TypeInv, JobInv, VideoInv, [Next]_vars PROVE VideoInv'
  OBVIOUS
<1>1. /\ segment \in Int /\ packets \in Int /\ files \in Nat
      /\ req.count \in Int /\ req.segs \in Int /\ ret \in {"ok", "err"}
      /\ req.count > 0 => packets <= req.count
      /\ Written(0) = 0 /\ Written(segment) \in Int
      /\ Written(segment + 1) = Written(segment) + req.count
      /\ req' = req /\ (\A n : Written(n)' = Written(n))
  <2>1. /\ req.count \in Int /\ req.segs \in Int
    BY LimitType DEF TypeInv
  <2>2. segment \in Int /\ packets \in Int /\ (req.count > 0 => packets <= req.count)
    BY <2>1 DEF TypeInv, TypeOK, Upto
  <2>3. req' = req
    BY DEF Next, SaveFrameStep, SaveVideoStep, HandlerStarts, ConfigParsed,
           HandlerFinishes, StepSucceeds, StepFails, ChainEnds, Cleanup, LoopEnds,
           ReadFails, Reads, DecodeFails, Decodes, ImageStep, ImageFails,
           ImageEncoded, Unref, NextSegment, VideoEnds, SegmentStep, Overrun,
           SegmentFails, SegmentOpen, CopyReads, CopyReadFails, CopyEnds, Skips,
           Muxes, MuxFails, SegmentEnds, CallFrame, DataFrame, LoopFrame,
           SegmentFrame, CopyFrame, vars
  <2>4. QED
    BY <2>1, <2>2, <2>3, WrittenOneMore DEF TypeInv, TypeOK, Written
<1> USE <1>1 DEF VideoInv, JobInv, Ending, Goto, Fail, frameVars, videoVars, dataVars
<1>2. CASE HandlerStarts
  BY <1>2 DEF HandlerStarts, CallFrame, DataFrame
<1>3. CASE ConfigParsed
  BY <1>3 DEF ConfigParsed, CallFrame, DataFrame
<1>4. CASE HandlerFinishes
  BY <1>4 DEF HandlerFinishes, CallFrame, DataFrame
<1>5. CASE StepSucceeds
  BY <1>5 DEF StepSucceeds, DataFrame
<1>6. CASE StepFails
  BY <1>6 DEF StepFails, CallFrame, DataFrame
<1>7. CASE ChainEnds
  BY <1>7 DEF ChainEnds, CallFrame, DataFrame
<1>8. CASE Cleanup
  BY <1>8 DEF Cleanup, CallFrame, DataFrame
<1>9. CASE LoopEnds
  BY <1>9 DEF LoopEnds, LoopFrame
<1>10. CASE ReadFails
  BY <1>10 DEF ReadFails, LoopFrame
<1>11. CASE Reads
  BY <1>11 DEF Reads, LoopFrame
<1>12. CASE DecodeFails
  BY <1>12 DEF DecodeFails, LoopFrame
<1>13. CASE Decodes
  BY <1>13 DEF Decodes, LoopFrame
<1>14. CASE ImageStep
  BY <1>14 DEF ImageStep, LoopFrame
<1>15. CASE ImageFails
  BY <1>15 DEF ImageFails, LoopFrame
<1>16. CASE ImageEncoded
  BY <1>16 DEF ImageEncoded, LoopFrame
<1>17. CASE Unref
  BY <1>17 DEF Unref, LoopFrame
<1>18. CASE NextSegment
  BY <1>18 DEF NextSegment, SegmentFrame
<1>19. CASE VideoEnds
  BY <1>19 DEF VideoEnds, SegmentFrame
<1>20. CASE SegmentStep
  BY <1>20 DEF SegmentStep, SegmentFrame
<1>21. CASE Overrun
  BY <1>21 DEF Overrun, SegmentFrame
<1>22. CASE SegmentFails
  BY <1>22 DEF SegmentFails, SegmentFrame
<1>23. CASE SegmentOpen
  BY <1>23 DEF SegmentOpen, SegmentFrame
<1>24. CASE CopyReads
  BY <1>24 DEF CopyReads, CopyFrame
<1>25. CASE CopyReadFails
  BY <1>25 DEF CopyReadFails, CopyFrame
<1>26. CASE CopyEnds
  BY <1>26 DEF CopyEnds, CopyFrame
<1>27. CASE Skips
  BY <1>27 DEF Skips, CopyFrame
<1>28. CASE Muxes
  BY <1>28 DEF Muxes, CopyFrame
<1>29. CASE MuxFails
  BY <1>29 DEF MuxFails, CopyFrame
<1>30. CASE SegmentEnds
  BY <1>30 DEF SegmentEnds, SegmentFrame
<1>31. CASE UNCHANGED vars
  BY <1>31 DEF vars
<1>32. QED
  BY <1>2, <1>3, <1>4, <1>5, <1>6, <1>7, <1>8, <1>9, <1>10, <1>11, <1>12, <1>13, <1>14, <1>15, <1>16, <1>17, <1>18, <1>19, <1>20, <1>21, <1>22, <1>23, <1>24, <1>25, <1>26, <1>27, <1>28, <1>29, <1>30, <1>31
     DEF Next, SaveFrameStep, SaveVideoStep

(* A result of 0 is true, and stream_save_frame gives up after exactly     *)
(* five failures per frame, for every configuration and input.             *)
THEOREM ResultsHold == Spec => []ResultIsTrue
<1> DEFINE I == TypeInv /\ JobInv /\ FrameInv /\ VideoInv
<1>1. Init => I
  BY InitTyped, InitResult
<1>2. I /\ [Next]_vars => I'
  BY NextTyped, NextJob, NextFrame, NextVideo DEF TypeInv
<1>3. I => ResultIsTrue
  <2> SUFFICES ASSUME I, pc = "done" PROVE ResultIsTrue
    BY DEF ResultIsTrue
  <2>1. /\ Limit \in Int /\ req.count \in Int /\ req.segs \in Int
        /\ req.job \in {"SaveFrame", "SaveVideo", "other"}
    BY LimitType, StreamAssumption DEF TypeInv, TypeOK
  <2>2. /\ frames \in Upto(req.count) /\ failures \in Upto(Limit)
        /\ segment \in Upto(req.segs)
    BY DEF TypeInv, TypeOK
  <2>3. ASSUME ret = "ok", ~excused, req.count > 0, req.segs > 0
        PROVE  files = Asked
    <3>1. CASE req.job = "SaveFrame"
      <4>1. files = frames /\ frames >= req.count
        BY <2>3, <3>1 DEF FrameInv, Ending
      <4>2. files = req.count
        BY <2>1, <2>2, <2>3, <4>1 DEF Upto
      <4>3. QED
        BY <2>1, <3>1, <4>2 DEF Asked
    <3>2. CASE req.job = "SaveVideo"
      <4>1. files = Written(segment) /\ segment >= req.segs
        BY <2>3, <3>2 DEF VideoInv, Ending
      <4>2. segment = req.segs
        BY <2>1, <2>2, <2>3, <4>1 DEF Upto
      <4>3. QED
        BY <2>1, <3>2, <4>1, <4>2 DEF Asked, Written
    <3>3. QED
      BY <2>1, <2>3, <3>1, <3>2 DEF JobInv, Ending
  <2>4. ASSUME ret = "err", failures > 0
        PROVE  failures = Limit /\ frames < req.count
    <3>1. failures >= Limit /\ (failures < Limit \/ frames < req.count)
      BY <2>4 DEF FrameInv, Ending
    <3>2. failures = Limit
      BY <2>1, <2>2, <2>4, <3>1 DEF Upto
    <3>3. QED
      BY <2>1, <3>1, <3>2
  <2>5. QED
    BY <2>3, <2>4 DEF ResultIsTrue
<1>4. QED
  BY <1>1, <1>2, <1>3, PTL DEF Spec
=============================================================================
