------------------------- MODULE RenderLoop_proofs -------------------------
(***************************************************************************)
(* For every ring of three slots or more and any number of frames, sizes   *)
(* and failed rebuilds, until a frame goes into a ring that such a rebuild *)
(* left half made: the game samples whole frames, in order, and neither    *)
(* side keeps the other from its slot.  First for the ring alone, then for *)
(* the layer around it.                                                    *)
(*                                                                         *)
(* Then the other two renderers, for any frames, tiles and sizes: a lent   *)
(* frame is alive while it is copied, and a memory surface forgets no tile *)
(* that was painted.                                                       *)
(***************************************************************************)
EXTENDS RenderLoop, TLAPS

-----------------------------------------------------------------------------
(* The next slot to write.                                                 *)

\* Going one or two slots on from a slot either stays below the slot count or
\* wraps once.
LEMMA Wraps ==
  ASSUME NEW w \in Slots, NEW i \in 1..2
  PROVE  (w + i) % kSlotCount = IF w + i < kSlotCount THEN w + i ELSE w + i - kSlotCount
  BY RingAssumption DEF Slots

LEMMA SlotFacts == 0 \in Slots /\ NoSlot \notin Slots
  BY RingAssumption DEF Slots, NoSlot

\* With three slots there is always one to write that is neither published
\* nor held by the game (CompositorMath.h: "a free slot always exists").
LEMMA FreeSlotExists ==
  ASSUME NEW w \in Slots, NEW r \in Slots \cup {NoSlot}
  PROVE  After(w, {w, r}) \in Slots \ {w, r}
<1> DEFINE C == Candidates(w, {w, r})
           Least(i) == i \in C /\ \A j \in C : i <= j
           step == CHOOSE i \in C : \A j \in C : i <= j
<1>1. (w + 1) % kSlotCount \in Slots \ {w}
  BY Wraps, RingAssumption DEF Slots
<1>2. (w + 2) % kSlotCount \in Slots \ {w, (w + 1) % kSlotCount}
  BY Wraps, RingAssumption DEF Slots
<1>3. C \subseteq 1..kSlotCount
  BY DEF Candidates
<1>4. CASE (w + 1) % kSlotCount # r
  <2>1. Least(1)
    BY <1>1, <1>3, <1>4, RingAssumption DEF Candidates
  <2>2. step = 1
    BY <2>1, <1>3
  <2> QED BY <1>1, <1>4, <2>2 DEF After
<1>5. CASE (w + 1) % kSlotCount = r
  <2>1. Least(2)
    BY <1>2, <1>3, <1>5, RingAssumption DEF Candidates
  <2>2. step = 2
    BY <2>1, <1>3
  <2> QED BY <1>2, <1>5, <2>2 DEF After
<1> QED BY <1>4, <1>5

-----------------------------------------------------------------------------
(* The inductive invariant of the ring, in named parts.                    *)

Whole == \A s \in Slots : made[s] = "both"

\* The ring is whole and of the size it claims, or a rebuild has failed and
\* nothing is in use until one succeeds.
Sound ==
  \/ Whole /\ \A s \in Slots : texSize[s] = ringSize
  \/ ~Whole /\ publishedSlot = NoSlot /\ reader = NoSlot /\ producer.at = "idle"

\* The producer works on the slot to write, with the newest frame.
Producing ==
  producer.at # "idle" =>
    producer.slot = writeSlot /\ producer.frame = frames /\ frames > 0

\* That slot is neither published nor held by the game.
Apart == writeSlot # publishedSlot /\ writeSlot # reader

\* Who holds a slot, and by which key it is to be acquired, follows from where
\* the two sides are.
Holds(s) == producer.slot = s /\ producer.at \in {"copying", "copied"}
Keys ==
  \A s \in Slots :
    /\ awaiting[s] => s # reader /\ ~Holds(s)
    /\ key[s] = IF s = reader THEN "game"
                ELSE IF Holds(s) /\ producer.at = "copying" THEN "platform"
                ELSE IF Holds(s) \/ awaiting[s] THEN "1"
                ELSE "0"

\* What the game may sample is whole, and so is what is about to be published.
Contents ==
  /\ \A s \in {publishedSlot, reader} \ {NoSlot} : content[s] \in 1..frames
  /\ producer.at = "copying" => content[producer.slot] = Torn
  /\ producer.at = "copied" => content[producer.slot] = producer.frame

\* The published frame is at least as new as the one on the screen.
Order ==
  /\ shown \in 0..frames
  /\ publishedSlot # NoSlot => shown <= content[publishedSlot]

RingInv == /\ RingTypeOK
           /\ Sound
           /\ Producing
           /\ Apart
           /\ Keys
           /\ Contents
           /\ Order

\* The ring starts empty and whole.
LEMMA RingStarts == RingInit => RingInv
<1> SUFFICES ASSUME RingInit PROVE RingInv
  OBVIOUS
<1>1. RingTypeOK
  BY SlotFacts DEF RingInit, RingTypeOK, Producers, Idle, Blank
<1>2. Sound /\ Producing /\ Apart
  BY RingAssumption
  DEF RingInit, Sound, Whole, Producing, Apart, NoSlot, Idle
<1>3. Keys /\ Contents /\ Order
  BY RingAssumption
  DEF RingInit, Keys, Holds, Contents, Order, Slots, NoSlot, Idle, Blank
<1> QED BY <1>1, <1>2, <1>3 DEF RingInv

-----------------------------------------------------------------------------
(* Every step keeps it.                                                    *)

LEMMA IdleTyped == Idle \in Producers
  BY DEF Idle, Producers, Blank

\* The producer moves on with its slot and its frame.
LEMMA Moves ==
  ASSUME NEW p \in Producers, NEW a \in {"idle", "chosen", "copying", "copied"}
  PROVE  LET q == [p EXCEPT !.at = a]
         IN  q \in Producers /\ q.at = a /\ q.slot = p.slot /\ q.frame = p.frame
  BY DEF Producers

\* A frame that fits a whole ring is given the slot to write.
LEMMA FitsKeeps ==
  ASSUME RingInv, NEW size \in Sizes, FrameFits(size), ~halfUsed'
  PROVE  RingInv'
<1>1. Whole
  BY DEF FrameFits, Whole
<1>2. RingTypeOK'
  <2>1. halfUsed' \in BOOLEAN
    BY DEF FrameFits
  <2> QED
    BY <2>1, SlotFacts
    DEF FrameFits, Offer, Chosen, slots, ring, control, Producers, RingInv, RingTypeOK, Idle
<1>3. (Sound /\ Producing /\ Apart /\ Keys /\ Contents /\ Order)'
  BY <1>1, RingAssumption
  DEF FrameFits, Offer, Mismatch, Chosen, slots, ring, control, Producers,
      RingInv, RingTypeOK, Sound, Whole, Producing, Apart, Keys, Holds,
      Contents, Order, Slots, NoSlot, Idle, Torn
<1> QED BY <1>2, <1>3 DEF RingInv

\* A frame dropped because the game holds a slot changes nothing here.
LEMMA RefusedKeeps ==
  ASSUME RingInv, NEW size \in Sizes, FrameRefused(size)
  PROVE  RingInv'
  BY RingAssumption
  DEF FrameRefused, Offer, Mismatch, slots, ring, control, Producers, RingInv,
      RingTypeOK, Sound, Whole, Producing, Apart, Keys, Holds, Contents,
      Order, Slots, NoSlot, Idle, Torn

\* A new ring is whole, empty and of the frame's size.
LEMMA RebuildsKeeps ==
  ASSUME RingInv, NEW size \in Sizes, FrameRebuilds(size)
  PROVE  RingInv'
<1>1. RingTypeOK'
  <2>1. producer' \in Producers
    BY SlotFacts
    DEF FrameRebuilds, ClearSlots, Offer, Chosen, Blank, RingInv, RingTypeOK,
        Producers, Idle
  <2>2. /\ made' \in [Slots -> {"none", "platform", "mutexes", "both"}]
        /\ texSize' \in [Slots -> Sizes]
        /\ content' \in [Slots -> {Torn} \cup Nat]
        /\ key' \in [Slots -> {"0", "1", "platform", "game"}]
        /\ awaiting' \in [Slots -> BOOLEAN]
    BY SlotFacts
    DEF FrameRebuilds, ClearSlots, Offer, Chosen, Blank, RingInv, RingTypeOK,
        Producers, MadeUpTo
  <2>3. /\ writeSlot' \in Slots /\ publishedSlot' \in Slots \cup {NoSlot}
        /\ reader' \in Slots \cup {NoSlot} /\ ringSize' \in Sizes
    BY SlotFacts
    DEF FrameRebuilds, ClearSlots, Offer, Chosen, Blank, RingInv, RingTypeOK,
        Producing, Producers
  <2>4. rebuild' \in BOOLEAN /\ stop' \in BOOLEAN
    BY DEF FrameRebuilds, ClearSlots, Offer, Chosen, Blank, RingInv, RingTypeOK
  <2>5. /\ frames' \in Nat /\ failures' \in Nat /\ halfUsed' \in BOOLEAN
        /\ shown' \in {Torn} \cup Nat
    BY DEF FrameRebuilds, ClearSlots, Offer, Chosen, Blank, RingInv, RingTypeOK
  <2> QED BY <2>1, <2>2, <2>3, <2>4, <2>5 DEF RingTypeOK
<1>2. Sound'
  BY RingAssumption
  DEF FrameRebuilds, ClearSlots, Offer, Chosen, Blank, RingInv, RingTypeOK,
      Sound, Whole, Slots, NoSlot, Idle, Torn
<1>3. Producing'
  BY RingAssumption
  DEF FrameRebuilds, ClearSlots, Offer, Chosen, Blank, RingInv, RingTypeOK,
      Producing, Slots, NoSlot, Idle, Torn
<1>4. Apart'
  BY RingAssumption
  DEF FrameRebuilds, ClearSlots, Offer, Chosen, Blank, RingInv, RingTypeOK,
      Sound, Producing, Apart, Slots, NoSlot, Idle, Torn
<1>5. Keys'
  BY RingAssumption
  DEF FrameRebuilds, ClearSlots, Offer, Chosen, Blank, RingInv, RingTypeOK,
      Sound, Producing, Apart, Keys, Holds, Slots, NoSlot, Idle, Torn
<1>6. Contents'
  BY RingAssumption
  DEF FrameRebuilds, ClearSlots, Offer, Chosen, Blank, RingInv, RingTypeOK,
      Sound, Producing, Apart, Contents, Slots, NoSlot, Idle, Torn
<1>7. Order'
  BY RingAssumption
  DEF FrameRebuilds, ClearSlots, Offer, Chosen, Blank, RingInv, RingTypeOK,
      Sound, Producing, Apart, Contents, Order, Slots, NoSlot, Idle, Torn
<1> QED BY <1>1, <1>2, <1>3, <1>4, <1>5, <1>6, <1>7 DEF RingInv

\* A failed rebuild leaves a ring nobody uses.
LEMMA RebuildFailsKeeps ==
  ASSUME RingInv, NEW size \in Sizes, RebuildFails(size)
  PROVE  RingInv'
<1>1. RingTypeOK'
  <2>1. producer' \in Producers
    BY SlotFacts
    DEF RebuildFails, ClearSlots, Offer, Blank, control, RingInv, RingTypeOK,
        Producers, Idle
  <2>2. /\ made' \in [Slots -> {"none", "platform", "mutexes", "both"}]
        /\ texSize' \in [Slots -> Sizes]
        /\ content' \in [Slots -> {Torn} \cup Nat]
        /\ key' \in [Slots -> {"0", "1", "platform", "game"}]
        /\ awaiting' \in [Slots -> BOOLEAN]
    BY SlotFacts
    DEF RebuildFails, ClearSlots, Offer, Blank, control, RingInv, RingTypeOK,
        Producers, MadeUpTo
  <2>3. /\ writeSlot' \in Slots /\ publishedSlot' \in Slots \cup {NoSlot}
        /\ reader' \in Slots \cup {NoSlot} /\ ringSize' \in Sizes
    BY SlotFacts
    DEF RebuildFails, ClearSlots, Offer, Blank, control, RingInv, RingTypeOK,
        Producing, Producers
  <2>4. rebuild' \in BOOLEAN /\ stop' \in BOOLEAN
    BY DEF RebuildFails, ClearSlots, Offer, Blank, control, RingInv, RingTypeOK
  <2>5. /\ frames' \in Nat /\ failures' \in Nat /\ halfUsed' \in BOOLEAN
        /\ shown' \in {Torn} \cup Nat
    BY DEF RebuildFails, ClearSlots, Offer, Blank, control, RingInv, RingTypeOK
  <2> QED BY <2>1, <2>2, <2>3, <2>4, <2>5 DEF RingTypeOK
<1>2. Sound'
  <2>1. PICK last \in Slots, half \in {"none", "platform", "mutexes"} : made' = MadeUpTo(last, half)
    BY DEF RebuildFails
  <2>2. made'[last] # "both"
    BY <2>1, SlotFacts DEF MadeUpTo, Slots
  <2>3. ~Whole'
    BY <2>2 DEF Whole
  <2> QED BY <2>3 DEF RebuildFails, ClearSlots, Offer, control, Sound
<1>3. Producing'
  BY RingAssumption
  DEF RebuildFails, ClearSlots, Offer, Blank, control, RingInv, RingTypeOK,
      Producing, Slots, NoSlot, Idle, Torn
<1>4. Apart'
  BY RingAssumption
  DEF RebuildFails, ClearSlots, Offer, Blank, control, RingInv, RingTypeOK,
      Sound, Producing, Apart, Slots, NoSlot, Idle, Torn
<1>5. Keys'
  BY RingAssumption
  DEF RebuildFails, ClearSlots, Offer, Blank, control, RingInv, RingTypeOK,
      Sound, Producing, Apart, Keys, Holds, Slots, NoSlot, Idle, Torn
<1>6. Contents'
  BY RingAssumption
  DEF RebuildFails, ClearSlots, Offer, Blank, control, RingInv, RingTypeOK,
      Sound, Producing, Apart, Contents, Slots, NoSlot, Idle, Torn
<1>7. Order'
  BY RingAssumption
  DEF RebuildFails, ClearSlots, Offer, Blank, control, RingInv, RingTypeOK,
      Sound, Producing, Apart, Contents, Order, Slots, NoSlot, Idle, Torn
<1> QED BY <1>1, <1>2, <1>3, <1>4, <1>5, <1>6, <1>7 DEF RingInv

\* The producer acquires its slot, and begins to copy.
LEMMA AcquiredKeeps ==
  ASSUME RingInv, SlotAcquired
  PROVE  RingInv'
<1> DEFINE s == producer.slot
<1>1. /\ s \in Slots /\ s = writeSlot /\ Whole
      /\ producer.at = "chosen" /\ key[s] = OfferedKey(s) /\ texSize[s] = ringSize
  BY SlotFacts DEF SlotAcquired, OfferedKey, RingInv, RingTypeOK, Sound, Producing, Apart,
                   Keys, Holds, Idle
<1>2. /\ key' = [key EXCEPT ![s] = "platform"]
      /\ awaiting' = [awaiting EXCEPT ![s] = FALSE]
      /\ content' = [content EXCEPT ![s] = Torn]
      /\ producer' = [producer EXCEPT !.at = "copying"]
      /\ UNCHANGED <<made, texSize, ring, control, frames, failures, halfUsed, shown>>
  BY <1>1 DEF SlotAcquired
<1>3. /\ producer' \in Producers
      /\ producer'.at = "copying" /\ producer'.slot = s /\ producer'.frame = producer.frame
  BY <1>1, <1>2, Moves DEF RingInv, RingTypeOK
<1>4. RingTypeOK'
  BY <1>1, <1>2, <1>3 DEF RingInv, RingTypeOK, ring, control
<1>5. Sound'
  BY <1>1, <1>2, <1>3, SlotFacts, RingAssumption
  DEF ring, control, RingInv, RingTypeOK, Sound, Whole, Idle
<1>6. Producing'
  BY <1>1, <1>2, <1>3, SlotFacts, RingAssumption
  DEF ring, control, RingInv, RingTypeOK, Producing, Idle
<1>7. Apart'
  BY <1>1, <1>2, <1>3, SlotFacts, RingAssumption
  DEF ring, control, RingInv, RingTypeOK, Sound, Producing, Apart, Idle
<1>8. Keys'
  BY <1>1, <1>2, <1>3, SlotFacts, RingAssumption
  DEF ring, control, RingInv, RingTypeOK, Sound, Producing, Apart, Keys,
      Holds, Idle
<1>9. Contents'
  BY <1>1, <1>2, <1>3, SlotFacts, RingAssumption
  DEF ring, control, RingInv, RingTypeOK, Sound, Producing, Apart, Contents,
      Idle
<1>10. Order'
  BY <1>1, <1>2, <1>3, SlotFacts, RingAssumption
  DEF ring, control, RingInv, RingTypeOK, Sound, Producing, Apart, Contents,
      Order, Idle
<1> QED BY <1>4, <1>5, <1>6, <1>7, <1>8, <1>9, <1>10 DEF RingInv

\* The copy is complete, or the frame is dropped.
LEMMA CopyEndsKeeps ==
  ASSUME RingInv, NEW complete \in BOOLEAN, CopyEnds(complete)
  PROVE  RingInv'
<1>1. RingTypeOK'
  <2>1. producer' \in Producers
    BY SlotFacts, IdleTyped, Moves
    DEF CopyEnds, HandsOver, ring, control, RingInv, RingTypeOK
  <2>2. /\ made' \in [Slots -> {"none", "platform", "mutexes", "both"}]
        /\ texSize' \in [Slots -> Sizes]
        /\ content' \in [Slots -> {Torn} \cup Nat]
        /\ key' \in [Slots -> {"0", "1", "platform", "game"}]
        /\ awaiting' \in [Slots -> BOOLEAN]
    BY SlotFacts
    DEF CopyEnds, HandsOver, ring, control, RingInv, RingTypeOK, Producers,
        MadeUpTo
  <2>3. /\ writeSlot' \in Slots /\ publishedSlot' \in Slots \cup {NoSlot}
        /\ reader' \in Slots \cup {NoSlot} /\ ringSize' \in Sizes
    BY SlotFacts
    DEF CopyEnds, HandsOver, ring, control, RingInv, RingTypeOK, Producing,
        Producers
  <2>4. rebuild' \in BOOLEAN /\ stop' \in BOOLEAN
    BY DEF CopyEnds, HandsOver, ring, control, RingInv, RingTypeOK
  <2>5. /\ frames' \in Nat /\ failures' \in Nat /\ halfUsed' \in BOOLEAN
        /\ shown' \in {Torn} \cup Nat
    BY DEF CopyEnds, HandsOver, ring, control, RingInv, RingTypeOK
  <2> QED BY <2>1, <2>2, <2>3, <2>4, <2>5 DEF RingTypeOK
<1>2. Sound'
  BY RingAssumption
  DEF CopyEnds, HandsOver, ring, control, RingInv, RingTypeOK, Sound, Whole,
      Slots, NoSlot, Idle, Torn
<1>3. Producing'
  BY RingAssumption
  DEF CopyEnds, HandsOver, ring, control, RingInv, RingTypeOK, Producing,
      Slots, NoSlot, Idle, Torn
<1>4. Apart'
  BY RingAssumption
  DEF CopyEnds, HandsOver, ring, control, RingInv, RingTypeOK, Sound,
      Producing, Apart, Slots, NoSlot, Idle, Torn
<1>5. Keys'
  BY RingAssumption
  DEF CopyEnds, HandsOver, ring, control, RingInv, RingTypeOK, Sound,
      Producing, Apart, Keys, Holds, Slots, NoSlot, Idle, Torn
<1>6. Contents'
  BY RingAssumption
  DEF CopyEnds, HandsOver, ring, control, RingInv, RingTypeOK, Sound,
      Producing, Apart, Contents, Slots, NoSlot, Idle, Torn
<1>7. Order'
  BY RingAssumption
  DEF CopyEnds, HandsOver, ring, control, RingInv, RingTypeOK, Sound,
      Producing, Apart, Contents, Order, Slots, NoSlot, Idle, Torn
<1> QED BY <1>1, <1>2, <1>3, <1>4, <1>5, <1>6, <1>7 DEF RingInv

\* The finished frame is published, and a free slot is next.
LEMMA PublishKeeps ==
  ASSUME RingInv, PublishFrame
  PROVE  RingInv'
<1>1. RingTypeOK'
  <2>1. producer' \in Producers
    BY SlotFacts, IdleTyped
    DEF PublishFrame, Announced, Publish, NextWriteSlot, control, RingInv,
        RingTypeOK
  <2>2. /\ made' \in [Slots -> {"none", "platform", "mutexes", "both"}]
        /\ texSize' \in [Slots -> Sizes]
        /\ content' \in [Slots -> {Torn} \cup Nat]
        /\ key' \in [Slots -> {"0", "1", "platform", "game"}]
        /\ awaiting' \in [Slots -> BOOLEAN]
    BY SlotFacts
    DEF PublishFrame, Announced, Publish, NextWriteSlot, control, RingInv,
        RingTypeOK, Producers, MadeUpTo
  <2>3. /\ writeSlot' \in Slots /\ publishedSlot' \in Slots \cup {NoSlot}
        /\ reader' \in Slots \cup {NoSlot} /\ ringSize' \in Sizes
    BY SlotFacts, FreeSlotExists
    DEF PublishFrame, Announced, Publish, NextWriteSlot, control, RingInv,
        RingTypeOK, Producing, Producers
  <2>4. rebuild' \in BOOLEAN /\ stop' \in BOOLEAN
    BY DEF PublishFrame, Announced, Publish, NextWriteSlot, control, RingInv, RingTypeOK
  <2>5. /\ frames' \in Nat /\ failures' \in Nat /\ halfUsed' \in BOOLEAN
        /\ shown' \in {Torn} \cup Nat
    BY DEF PublishFrame, Announced, Publish, NextWriteSlot, control, RingInv, RingTypeOK
  <2> QED BY <2>1, <2>2, <2>3, <2>4, <2>5 DEF RingTypeOK
<1>2. Sound'
  BY RingAssumption, FreeSlotExists
  DEF PublishFrame, Announced, Publish, NextWriteSlot, control, RingInv,
      RingTypeOK, Sound, Whole, Slots, NoSlot, Idle, Torn
<1>3. Producing'
  BY RingAssumption, FreeSlotExists
  DEF PublishFrame, Announced, Publish, NextWriteSlot, control, RingInv,
      RingTypeOK, Producing, Slots, NoSlot, Idle, Torn
<1>4. Apart'
  BY RingAssumption, FreeSlotExists
  DEF PublishFrame, Announced, Publish, NextWriteSlot, control, RingInv,
      RingTypeOK, Sound, Producing, Apart, Slots, NoSlot, Idle, Torn
<1>5. Keys'
  BY RingAssumption, FreeSlotExists
  DEF PublishFrame, Announced, Publish, NextWriteSlot, control, RingInv,
      RingTypeOK, Sound, Producing, Apart, Keys, Holds, Slots, NoSlot, Idle,
      Torn
<1>6. Contents'
  BY RingAssumption, FreeSlotExists
  DEF PublishFrame, Announced, Publish, NextWriteSlot, control, RingInv,
      RingTypeOK, Sound, Producing, Apart, Contents, Slots, NoSlot, Idle, Torn
<1>7. Order'
  BY RingAssumption, FreeSlotExists
  DEF PublishFrame, Announced, Publish, NextWriteSlot, control, RingInv,
      RingTypeOK, Sound, Producing, Apart, Contents, Order, Slots, NoSlot,
      Idle, Torn
<1> QED BY <1>1, <1>2, <1>3, <1>4, <1>5, <1>6, <1>7 DEF RingInv

\* The game takes the published slot.
LEMMA ConsumeKeeps ==
  ASSUME RingInv, ConsumeSRV
  PROVE  RingInv'
  BY RingAssumption
  DEF ConsumeSRV, Consuming, Consumable, Unmade, PlanConsumerAcquire, control, RingInv,
      RingTypeOK, Sound, Whole, Producing, Apart, Keys, Holds, Contents,
      Order, Slots, NoSlot, Idle, Torn

\* The game gives its slot back.
LEMMA ReleaseKeeps ==
  ASSUME RingInv, ReleaseConsumedFrame
  PROVE  RingInv'
  BY RingAssumption
  DEF ReleaseConsumedFrame, control, RingInv, RingTypeOK, Sound, Whole,
      Producing, Apart, Keys, Holds, Contents, Order, Slots, NoSlot, Idle,
      Torn

\* Calls from other threads.
LEMMA ResizeKeeps ==
  ASSUME RingInv, NEW size \in Sizes, RequestResize(size)
  PROVE  RingInv'
  BY RingAssumption
  DEF RequestResize, slots, ring, control, RingInv, RingTypeOK, Sound, Whole,
      Producing, Apart, Keys, Holds, Contents, Order, Slots, NoSlot, Idle,
      Torn

\* As above.
LEMMA StopKeeps ==
  ASSUME RingInv, RequestStop
  PROVE  RingInv'
  BY RingAssumption
  DEF RequestStop, slots, ring, control, RingInv, RingTypeOK, Sound, Whole,
      Producing, Apart, Keys, Holds, Contents, Order, Slots, NoSlot, Idle,
      Torn

\* As above.
LEMMA StutterKeeps ==
  ASSUME RingInv, UNCHANGED ringVars
  PROVE  RingInv'
  BY RingAssumption
  DEF ringVars, slots, ring, control, RingInv, RingTypeOK, Sound, Whole,
      Producing, Apart, Keys, Holds, Contents, Order, Slots, NoSlot, Idle,
      Torn

-----------------------------------------------------------------------------
(* The theorems.                                                           *)

\* What went into a ring half made stays known.
LEMMA HalfUsedStays == ASSUME [RingNext]_ringVars, halfUsed PROVE halfUsed'
  BY DEF RingNext, ProduceFrame, FrameFits, FrameRefused, FrameRebuilds, RebuildFails, SlotAcquired,
     CopyEnds, PublishFrame, ConsumeSRV, ReleaseConsumedFrame, RequestResize, RequestStop, ringVars

LEMMA RingStepKeeps ==
  ASSUME RingInv, [RingNext]_ringVars, ~halfUsed'
  PROVE  RingInv'
<1>1. CASE UNCHANGED ringVars
  BY <1>1, StutterKeeps
<1>2. CASE ProduceFrame
  <2>1. ASSUME NEW size \in Sizes,
               \/ FrameFits(size) \/ FrameRefused(size)
               \/ FrameRebuilds(size) \/ RebuildFails(size)
        PROVE  RingInv'
    BY <2>1, FitsKeeps, RefusedKeeps, RebuildsKeeps, RebuildFailsKeeps
  <2> QED BY <1>2, <2>1, AcquiredKeeps, CopyEndsKeeps, PublishKeeps DEF ProduceFrame
<1>3. CASE ConsumeSRV \/ ReleaseConsumedFrame
  BY <1>3, ConsumeKeeps, ReleaseKeeps
<1>4. CASE (\E size \in Sizes : RequestResize(size)) \/ RequestStop
  BY <1>4, ResizeKeeps, StopKeeps
<1> QED BY <1>1, <1>2, <1>3, <1>4 DEF RingNext

\* Every behaviour of a layer, whatever its renderer, is one of the ring: what
\* the presents, the other threads and a shutdown do with it are steps of it.
THEOREM LayerUsesRing == Spec => RingSpec
<1>1. Init => RingInit
  BY DEF Init
<1>2. [Next]_vars => [RingNext]_ringVars
  <2> SUFFICES ASSUME [Next]_vars PROVE [RingNext]_ringVars
    OBVIOUS
  <2>1. CASE UNCHANGED vars
    BY <2>1 DEF vars
  <2>2. CASE OnPresent
    BY <2>2 DEF OnPresent, PresentBegins, PrepareTakes, PrepareUploads, PrepareEnds,
                DrawRing, DrawTakes, DrawCopied, DrawEnds, Submitted, SubmitFails, AfterDraw,
                RingKept, LayerKept, RingNext
  <2>3. CASE PaintRing \/ PaintMemory \/ LendFrame
    BY <2>3 DEF PaintRing, PaintMemory, LendFrame, RingKept, RingNext
  <2>4. CASE \/ \E value \in BOOLEAN : SetVisible(value)
             \/ \E size \in Sizes : NotifyGeometryChanged(size)
    BY <2>4 DEF SetVisible, NotifyGeometryChanged, RingKept, LayerKept, RingNext
  <2>5. CASE RemoveSubMenu \/ HostBeginsShutdown \/ GameExits
    BY <2>5 DEF RemoveSubMenu, HostBeginsShutdown, GameExits, RingKept, LayerKept
  <2>6. CASE LayerBeginShutdown
    BY <2>6 DEF LayerBeginShutdown, StopRing, StopMemory, StopLending, RingKept, RingNext
  <2> QED BY <2>1, <2>2, <2>3, <2>4, <2>5, <2>6 DEF Next
<1> QED BY <1>1, <1>2, PTL DEF Spec, RingSpec

LEMMA RingInvariant == Spec => [](~halfUsed => RingInv)
<1>1. (~halfUsed => RingInv) /\ [RingNext]_ringVars => (~halfUsed => RingInv)'
  BY RingStepKeeps, HalfUsedStays
<1>2. RingSpec => [](~halfUsed => RingInv)
  BY <1>1, RingStarts, PTL DEF RingSpec
<1> QED BY <1>2, LayerUsesRing, PTL

\* What the game samples is one whole frame and stays so while it does, until a
\* frame goes into a ring half made.
THEOREM SamplesWholeFrames == Spec => []SampledFrameIsWhole
<1>1. (~halfUsed => RingInv) => SampledFrameIsWhole
  BY SlotFacts DEF RingInv, RingTypeOK, Contents, Keys, SampledFrameIsWhole
<1> QED BY <1>1, RingInvariant, PTL

\* Neither side keeps the other from the slot it goes for, until a frame goes into
\* a ring half made.
THEOREM NeverBlocks == Spec => []HandoverNeverBlocks
<1>1. (~halfUsed => RingInv) => HandoverNeverBlocks
  BY SlotFacts DEF RingInv, RingTypeOK, Producers, Sound, Whole, Producing, Apart, Keys, Holds,
     HandoverNeverBlocks, OfferedKey, Consuming, Consumable, Unmade, PlanConsumerAcquire
<1> QED BY <1>1, RingInvariant, PTL

\* The game never draws an older frame after a newer one, until a frame goes into a
\* ring half made.
THEOREM DrawsInOrder == Spec => NeverGoesBack
<1>1. (~halfUsed => RingInv) /\ [RingNext]_ringVars => [~halfUsed => shown' >= shown]_ringVars
  <2> SUFFICES ASSUME RingInv, RingNext PROVE shown' >= shown
    OBVIOUS
  <2>1. shown \in Int
    BY DEF RingInv, Order
  <2>2. CASE ConsumeSRV
    BY <2>2, SlotFacts DEF ConsumeSRV, Consuming, Consumable, RingInv, Order
  <2>3. CASE ~ConsumeSRV
    <3>1. shown' = shown
      BY <2>3 DEF RingNext, ProduceFrame, FrameFits, FrameRefused, FrameRebuilds, RebuildFails,
         SlotAcquired, CopyEnds, PublishFrame, ReleaseConsumedFrame, RequestResize, RequestStop
    <3> QED BY <2>1, <3>1
  <2> QED BY <2>2, <2>3
<1> QED BY <1>1, RingInvariant, LayerUsesRing, PTL DEF RingSpec, NeverGoesBack

-----------------------------------------------------------------------------
(* The lent frame.                                                         *)

\* A frame waits to be taken or is being copied exactly while its call has not
\* returned.
LentInv ==
  /\ SyncTypeOK
  /\ frameState = "Pending" => info = painting /\ painting # NoFrame
  /\ frameState = "Consuming" <=> using # NoFrame
  /\ using # NoFrame => painting = using

\* A frame being copied is alive: its call of OnAcceleratedPaint waits, in
\* whatever order the layer and the game are closed.
THEOREM LentFrameLives == Spec => []LentFrameIsAlive
<1>1. Init => LentInv
  <2> SUFFICES ASSUME SyncInit PROVE LentInv
    BY DEF Init
  <2>1. SyncTypeOK
    <3>1. NoFrame \in 0..MaxLent /\ 0 \in 0..MaxLent
      BY LentAssumption DEF NoFrame
    <3>2. {info, painting, using} \subseteq 0..MaxLent
      BY <3>1 DEF SyncInit
    <3> QED BY <3>1, <3>2 DEF SyncInit, SyncTypeOK
  <2> QED BY <2>1 DEF SyncInit, LentInv
<1>2. LentInv /\ [Next]_vars => LentInv'
  <2> SUFFICES ASSUME LentInv, [Next]_vars PROVE LentInv'
    OBVIOUS
  <2> USE LentAssumption DEF LentInv, SyncTypeOK, NoFrame
  <2>1. CASE UNCHANGED syncVars
    BY <2>1 DEF syncVars
  <2>2. CASE OnAcceleratedPaint
    BY <2>2 DEF OnAcceleratedPaint
  <2>3. CASE PaintReturns \/ PaintCancelled
    BY <2>3 DEF PaintReturns, PaintCancelled, TakenBack, GiveUp
  <2>4. CASE TakeFrame \/ FinishFrame
    BY <2>4 DEF TakeFrame, FinishFrame, GiveUp
  <2>5. CASE BeginShutdown \/ GameCloses
    BY <2>5 DEF BeginShutdown, GameCloses
  <2>6. CASE CancelPending
    BY <2>6 DEF CancelPending, TakenBack, GiveUp
  <2> HIDE DEF LentInv, SyncTypeOK, NoFrame
  <2>7. \/ UNCHANGED syncVars \/ OnAcceleratedPaint \/ PaintReturns \/ PaintCancelled
        \/ TakeFrame \/ FinishFrame \/ BeginShutdown \/ GameCloses \/ CancelPending
    <3>1. CASE UNCHANGED vars
      BY <3>1 DEF vars
    <3>2. CASE OnPresent
      BY <3>2 DEF OnPresent, PresentBegins, PrepareTakes, PrepareUploads, PrepareEnds,
                  DrawRing, DrawTakes, DrawCopied, DrawEnds, Submitted, SubmitFails, AfterDraw,
                  SyncKept, LayerKept
    <3>3. CASE PaintRing \/ PaintMemory \/ LendFrame
      BY <3>3 DEF PaintRing, PaintMemory, LendFrame, SyncKept
    <3>4. CASE \/ \E value \in BOOLEAN : SetVisible(value)
               \/ \E size \in Sizes : NotifyGeometryChanged(size)
      BY <3>4 DEF SetVisible, NotifyGeometryChanged, SyncKept, LayerKept
    <3>5. CASE RemoveSubMenu \/ HostBeginsShutdown \/ GameExits
      BY <3>5 DEF RemoveSubMenu, HostBeginsShutdown, GameExits, SyncKept, LayerKept
    <3>6. CASE LayerBeginShutdown
      BY <3>6 DEF LayerBeginShutdown, StopRing, StopMemory, StopLending, SyncKept
    <3> QED BY <3>1, <3>2, <3>3, <3>4, <3>5, <3>6 DEF Next
  <2> QED BY <2>1, <2>2, <2>3, <2>4, <2>5, <2>6, <2>7
<1>3. LentInv => LentFrameIsAlive
  BY DEF LentInv, LentFrameIsAlive
<1> QED BY <1>1, <1>2, <1>3, PTL DEF Spec

-----------------------------------------------------------------------------
(* The surface painted in memory.                                          *)

\* A snapshot is under way only between the two halves of a Prepare, so there
\* is never a second one.
OneUpdate == update # {} => present = "upload"

\* The texture is of an earlier epoch than a snapshot, and that of an earlier
\* one than the image, or of the same; then they have the same size.
Epochs ==
  /\ pending => imageSize \in ImageSizes
  /\ textureEpoch <= epoch
  /\ View => textureSize = imageSize
  /\ \A u \in update :
       /\ textureEpoch <= u.epoch /\ u.epoch <= epoch
       /\ u.epoch = epoch /\ imageSize # NoSize => u.size = imageSize

Waits(t)  == pending /\ t \in dirty
InHand(t) == \E u \in update : u.epoch = epoch /\ t \in u.tiles

\* Where the image is, by tiles: in the texture, in the snapshot or yet to be
\* taken; and the snapshot has it unless it was painted over since.
Accounted ==
  ~stopped /\ imageSize # NoSize =>
    \A t \in Tiles :
      /\ (textureEpoch = epoch /\ texture[t] = image[t]) \/ Waits(t) \/ InHand(t)
      /\ \A u \in update :
           u.epoch = epoch /\ t \in u.tiles => u.pixels[t] = image[t] \/ Waits(t)

CpuInv == CpuTypeOK /\ OneUpdate /\ Epochs /\ Accounted

\* The image before anything is painted.
LEMMA CpuStarts == CpuInit /\ present = "none" => CpuInv
<1> SUFFICES ASSUME CpuInit PROVE CpuInv
  BY DEF CpuInit
<1>1. CpuTypeOK
  BY DEF CpuInit, CpuTypeOK
<1> QED BY <1>1 DEF CpuInit, CpuInv, OneUpdate, Epochs, View, Accounted

\* A rectangle around tiles covers them, and no others than tiles.
LEMMA BoxCovers ==
  ASSUME NEW S \in SUBSET Tiles
  PROVE  S \subseteq Box(S) /\ Box(S) \subseteq Tiles
  BY DEF Box, Tiles

\* A paint of another size begins an epoch with everything to be uploaded; one
\* of the same size adds to what waits.
LEMMA SubmitKeeps ==
  ASSUME CpuInv, NEW size \in ImageSizes, NEW reported \in SUBSET Tiles,
         Submit(size, reported), present' = present
  PROVE  CpuInv'
<1> DEFINE resized == size # imageSize
           copied  == IF resized \/ reported = {} THEN Tiles ELSE reported
           waiting == IF pending /\ ~resized THEN dirty ELSE {}
<1>0. CpuTypeOK /\ OneUpdate /\ Epochs /\ Accounted
  BY DEF CpuInv
<1>1. /\ paints' = paints + 1 /\ ~stopped /\ imageSize' = size /\ pending' = TRUE
      /\ image' = [t \in Tiles |-> IF t \in copied THEN paints' ELSE image[t]]
      /\ dirty' = Box(copied \cup waiting)
      /\ epoch' = IF resized THEN epoch + 1 ELSE epoch
      /\ UNCHANGED <<stopped, texture, textureSize, textureEpoch, update>>
  BY DEF Submit, surface
<1>2. copied \cup waiting \subseteq dirty' /\ dirty' \subseteq Tiles
  <2>1. copied \cup waiting \in SUBSET Tiles
    BY <1>0 DEF CpuTypeOK
  <2> QED BY <1>1, <2>1, BoxCovers
<1>3. CpuTypeOK'
  <2>1. image' \in [Tiles -> Nat]
    BY <1>0, <1>1 DEF CpuTypeOK
  <2> QED BY <1>0, <1>1, <1>2, <2>1 DEF CpuTypeOK
<1>4. OneUpdate'
  BY <1>0, <1>1 DEF OneUpdate
<1>5. Epochs'
  BY <1>0, <1>1 DEF Epochs, View, CpuTypeOK, Updates
<1>6. Accounted'
  <2>1. CASE resized
    BY <1>1, <1>2, <2>1 DEF Accounted, Waits
  <2>2. CASE ~resized
    <3>1. \A t \in Tiles : t \in copied \/ Waits(t) => Waits(t)'
      BY <1>1, <1>2, <2>2 DEF Waits
    <3>2. \A t \in Tiles : image'[t] = image[t] \/ Waits(t)'
      BY <1>1, <3>1
    <3>3. \A t \in Tiles : InHand(t)' = InHand(t)
      BY <1>1, <2>2 DEF InHand
    <3> HIDE DEF resized, copied, waiting
    <3> QED BY <1>0, <1>1, <2>2, <3>1, <3>2, <3>3 DEF Accounted, resized
  <2> QED BY <2>1, <2>2
<1> QED BY <1>3, <1>4, <1>5, <1>6 DEF CpuInv

\* A drop-down or the end of the layer clears the image: no texture and no
\* snapshot is of the epoch that begins.
LEMMA ClearKeeps ==
  ASSUME CpuInv, Reset \/ Stop, present' = present
  PROVE  CpuInv'
<1>0. CpuTypeOK /\ OneUpdate /\ Epochs
  BY DEF CpuInv
<1>1. /\ image' = [t \in Tiles |-> 0] /\ imageSize' = NoSize /\ pending' = FALSE
      /\ epoch' = epoch + 1 /\ stopped' \in BOOLEAN
      /\ UNCHANGED <<dirty, paints, texture, textureSize, textureEpoch, update>>
  BY <1>0 DEF Reset, Stop, Clear, surface, CpuTypeOK
<1>2. CpuTypeOK'
  <2>1. image' \in [Tiles -> Nat] /\ epoch' \in Nat /\ imageSize' \in ImageSizes \cup {NoSize}
    BY <1>0, <1>1 DEF CpuTypeOK
  <2>2. pending' \in BOOLEAN
    BY <1>1
  <2> QED BY <1>0, <1>1, <2>1, <2>2 DEF CpuTypeOK
<1>3. Epochs'
  BY <1>0, <1>1 DEF Epochs, View, CpuTypeOK, Updates
<1> QED BY <1>0, <1>1, <1>2, <1>3 DEF CpuInv, OneUpdate, Accounted

\* The snapshot holds every tile that waited.
LEMMA TakeKeeps ==
  ASSUME CpuInv, TakeUpdate, present = "prepare", present' = "upload"
  PROVE  CpuInv'
<1>0. CpuTypeOK /\ Epochs /\ Accounted /\ update = {}
  BY DEF CpuInv, OneUpdate
<1> DEFINE u == [size |-> imageSize, tiles |-> dirty, pixels |-> image, epoch |-> epoch]
<1>1. /\ update' = {u} /\ pending' = FALSE /\ pending
      /\ UNCHANGED <<image, imageSize, dirty, epoch, stopped, paints, texture, textureSize,
                     textureEpoch>>
  BY DEF TakeUpdate, surface
<1>2. u \in Updates
  BY <1>0, <1>1 DEF CpuTypeOK, Epochs, Updates
<1>3. CpuTypeOK'
  BY <1>0, <1>1, <1>2 DEF CpuTypeOK
<1>4. Epochs'
  BY <1>0, <1>1 DEF Epochs, View, CpuTypeOK
<1>5. Accounted'
  <2>1. ASSUME NEW t \in Tiles, Waits(t)
        PROVE  InHand(t)'
    BY <1>1, <2>1 DEF Waits, InHand
  <2> QED BY <1>0, <1>1, <2>1 DEF Accounted, InHand
<1> QED BY <1>3, <1>4, <1>5 DEF CpuInv, OneUpdate

\* After a failure everything is taken again.
LEMMA FailKeeps ==
  ASSUME CpuInv, UploadFails
  PROVE  CpuInv'
  BY DEF UploadFails, MarkAll, surface, CpuInv, CpuTypeOK, OneUpdate, Epochs, View, Accounted,
         Waits, Updates

\* The tiles of the snapshot are in the texture; the others are there already,
\* if it is of the image's epoch, or wait.
LEMMA DoneKeeps ==
  ASSUME CpuInv, UploadDone
  PROVE  CpuInv'
<1>0. CpuTypeOK /\ Epochs /\ Accounted
  BY DEF CpuInv
<1>1. PICK u \in update :
        /\ texture' = [t \in Tiles |-> IF t \in u.tiles THEN u.pixels[t]
                                       ELSE IF u.size = textureSize THEN texture[t] ELSE 0]
        /\ textureSize' = u.size /\ textureEpoch' = u.epoch
  BY DEF UploadDone
<1>2. /\ update' = {} /\ u \in Updates /\ \A v \in update : v = u
      /\ UNCHANGED <<image, imageSize, dirty, pending, epoch, stopped, paints>>
  BY <1>0, <1>1 DEF UploadDone, frameBuffer, CpuTypeOK
<1>3. CpuTypeOK'
  <2>1. texture' \in [Tiles -> Nat]
    BY <1>0, <1>1, <1>2 DEF CpuTypeOK, Updates
  <2> QED BY <1>0, <1>1, <1>2, <2>1 DEF CpuTypeOK, Updates
<1>4. Epochs'
  BY <1>0, <1>1, <1>2 DEF Epochs, View, CpuTypeOK, Updates
<1>5. Accounted'
  <2> SUFFICES ASSUME ~stopped, imageSize # NoSize, NEW t \in Tiles, ~Waits(t)
               PROVE  textureEpoch' = epoch /\ texture'[t] = image[t]
    BY <1>2 DEF Accounted, Waits
  <2>1. u.epoch = epoch
    BY <1>0, <1>1, <1>2 DEF Accounted, InHand, Epochs, CpuTypeOK, Updates
  <2>2. CASE t \in u.tiles
    BY <1>0, <1>1, <2>1, <2>2 DEF Accounted
  <2>3. CASE t \notin u.tiles
    <3>1. textureEpoch = epoch /\ texture[t] = image[t]
      BY <1>0, <1>2, <2>3 DEF Accounted, InHand
    <3> QED BY <1>0, <1>1, <2>1, <2>3, <3>1 DEF Epochs, View
  <2> QED BY <2>2, <2>3
<1> QED BY <1>2, <1>3, <1>4, <1>5 DEF CpuInv, OneUpdate

\* What a layer's steps do with its image is one of these steps, and a snapshot
\* is taken, and done with, only by Prepare.
LEMMA CpuSteps ==
  ASSUME [Next]_vars
  PROVE  \/ UNCHANGED cpuVars /\ (present = "upload" => present' = present)
         \/ UNCHANGED present /\ \E size \in ImageSizes, reported \in SUBSET Tiles :
                                   Submit(size, reported)
         \/ UNCHANGED present /\ (Reset \/ Stop)
         \/ TakeUpdate /\ present = "prepare" /\ present' = "upload"
         \/ UploadFails \/ UploadDone
<1>1. CASE UNCHANGED vars
  BY <1>1 DEF vars, hostVars
<1>2. CASE OnPresent
  BY <1>2 DEF OnPresent, PresentBegins, PrepareTakes, PrepareUploads, PrepareEnds,
              DrawRing, DrawTakes, DrawCopied, DrawEnds, Submitted, SubmitFails, AfterDraw,
              CpuKept, LayerKept, At
<1>3. CASE PaintRing \/ PaintMemory \/ LendFrame
  BY <1>3 DEF PaintRing, PaintMemory, LendFrame, CpuKept, hostVars
<1>4. CASE \/ \E value \in BOOLEAN : SetVisible(value)
           \/ \E size \in Sizes : NotifyGeometryChanged(size)
  BY <1>4 DEF SetVisible, NotifyGeometryChanged, CpuKept, LayerKept, hostVars
<1>5. CASE RemoveSubMenu \/ HostBeginsShutdown \/ GameExits
  BY <1>5 DEF RemoveSubMenu, HostBeginsShutdown, GameExits, CpuKept, LayerKept, hostVars
<1>6. CASE LayerBeginShutdown
  BY <1>6 DEF LayerBeginShutdown, StopRing, StopMemory, StopLending, Stops, CpuKept
<1> QED BY <1>1, <1>2, <1>3, <1>4, <1>5, <1>6 DEF Next

\* A texture that may be drawn has the image's size, and lacks of the image no
\* tile but those waiting or in hand, whatever paints, drop-downs, failures and
\* shutdowns come between a snapshot and its upload.
THEOREM DrawsFreshImage == Spec => []ViewIsFresh
<1>1. Init => CpuInv
  BY CpuStarts DEF Init
<1>2. CpuInv /\ [Next]_vars => CpuInv'
  <2> SUFFICES ASSUME CpuInv, [Next]_vars PROVE CpuInv'
    OBVIOUS
  <2>1. CASE UNCHANGED cpuVars /\ (present = "upload" => present' = present)
    <3>1. UNCHANGED <<image, imageSize, dirty, pending, epoch, stopped, paints, texture,
                      textureSize, textureEpoch, update>>
      BY <2>1 DEF cpuVars, frameBuffer, surface
    <3> QED BY <2>1, <3>1 DEF CpuInv, CpuTypeOK, OneUpdate, Epochs, View, Accounted, Waits, InHand
  <2>2. ASSUME NEW size \in ImageSizes, NEW reported \in SUBSET Tiles,
               Submit(size, reported), present' = present
        PROVE  CpuInv'
    BY <2>2, SubmitKeeps
  <2> QED BY <2>1, <2>2, CpuSteps, ClearKeeps, TakeKeeps, FailKeeps, DoneKeeps
<1>3. CpuInv => ViewIsFresh
  BY DEF CpuInv, Epochs, Accounted, Waits, InHand, View, ViewIsFresh
<1> QED BY <1>1, <1>2, <1>3, PTL DEF Spec
=============================================================================
