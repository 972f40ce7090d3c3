--------------------------- MODULE FrameTransport ---------------------------
(***************************************************************************)
(* The ring of shared textures through which a painted frame crosses from  *)
(* the platform's D3D11 device to the game's.  One thread produces (CEF's  *)
(* UI thread), one consumes (the render thread).  m_ringMutex guards the   *)
(* indices and rebuilds: an action that uses it is one critical section.   *)
(* The copy into a slot runs outside it, under the slot's keyed mutex.     *)
(*                                                                         *)
(* Frames are numbered in the order they are painted.  External: a keyed   *)
(* mutex is acquired by the key it was last released with, or not at all;  *)
(* a copy between textures of different sizes does nothing.  A call on a   *)
(* texture or a mutex that was not made has no next step.  The loss of the *)
(* device, after which rendering is dead until a restart, is not modelled. *)
(***************************************************************************)
EXTENDS Integers

CONSTANTS kSlotCount,   \* slots of the ring
          Sizes,        \* sizes a frame may have
          MaxFrames,    \* bound: frames painted
          MaxFailures   \* bound: rebuilds that fail

\* CompositorMath.h: "unreachable with slotCount >= 3".
ASSUME RingAssumption == /\ kSlotCount \in Nat /\ kSlotCount >= 3
                         /\ MaxFrames \in Nat /\ MaxFailures \in Nat

Slots  == 0..(kSlotCount - 1)
NoSlot == -1

VARIABLES
  made,           \* how much of a slot exists: the platform's texture and mutex,
                  \* the game's mutex besides, the game's view besides
  texSize,        \* the size of its textures
  content,        \* the frame in it, Blank, or Torn while a copy is under way
  key,            \* its keyed mutex: the key to acquire it by, or its holder
  awaiting,       \* awaitingGameAcquire
  writeSlot, publishedSlot,
  reader,         \* m_ring.readerSlot and m_gameOwnedSlot, always set together
  ringSize,       \* m_width, m_height
  rebuild, stop,  \* m_rebuildRequested, m_stopRequested
  producer,       \* where ProduceFrame is, its slot, its frame and its size
  frames,         \* frames painted
  failures,       \* rebuilds that have failed
  halfUsed,       \* history: a frame came in the size the ring had before a rebuild
                  \* that failed, and went into what that rebuild had left
  shown           \* the frame the game drew last

slots    == <<made, texSize, content, key, awaiting>>
ring     == <<writeSlot, publishedSlot, reader>>
control  == <<ringSize, rebuild, stop>>
ringVars == <<slots, ring, control, producer, frames, failures, halfUsed, shown>>

Blank == 0
Torn  == -1
Idle  == [at |-> "idle", slot |-> NoSlot, frame |-> Blank]

Producers == [at : {"idle", "chosen", "copying", "copied"},
              slot : Slots \cup {NoSlot}, frame : Nat]

RingTypeOK ==
  /\ made \in [Slots -> {"none", "platform", "mutexes", "both"}]
  /\ texSize \in [Slots -> Sizes]
  /\ content \in [Slots -> {Torn} \cup Nat]
  /\ key \in [Slots -> {"0", "1", "platform", "game"}]
  /\ awaiting \in [Slots -> BOOLEAN]
  /\ writeSlot \in Slots /\ publishedSlot \in Slots \cup {NoSlot}
  /\ reader \in Slots \cup {NoSlot}
  /\ ringSize \in Sizes /\ rebuild \in BOOLEAN /\ stop \in BOOLEAN
  /\ producer \in Producers
  /\ frames \in Nat /\ failures \in Nat /\ halfUsed \in BOOLEAN
  /\ shown \in {Torn} \cup Nat

\* Initialize has built the ring in the size of the view.
RingInit ==
  /\ ringSize \in Sizes
  /\ made = [s \in Slots |-> "both"] /\ texSize = [s \in Slots |-> ringSize]
  /\ content = [s \in Slots |-> Blank] /\ key = [s \in Slots |-> "0"]
  /\ awaiting = [s \in Slots |-> FALSE]
  /\ writeSlot = 0 /\ publishedSlot = NoSlot /\ reader = NoSlot
  /\ rebuild = FALSE /\ stop = FALSE
  /\ producer = Idle /\ frames = 0 /\ failures = 0 /\ halfUsed = FALSE
  /\ shown = Blank

-----------------------------------------------------------------------------
(* BuildRingLocked and CompositorMath::Publish.                            *)

\* Every slot is emptied, then they are made one by one until one fails.
ClearSlots(size) ==
  /\ texSize' = [s \in Slots |-> size]
  /\ content' = [s \in Slots |-> Blank] /\ key' = [s \in Slots |-> "0"]
  /\ awaiting' = [s \in Slots |-> FALSE]
  /\ writeSlot' = 0 /\ publishedSlot' = NoSlot

MadeUpTo(last, half) ==
  [s \in Slots |-> IF s < last THEN "both" ELSE IF s = last THEN half ELSE "none"]

\* The first slot after w that the game neither holds nor may take next.  The
\* fault forgets that the game may hold an older frame.
Candidates(w, taken) == {i \in 1..kSlotCount : (w + i) % kSlotCount \notin taken}
After(w, taken) ==
  LET step == CHOOSE i \in Candidates(w, taken) : \A j \in Candidates(w, taken) : i <= j
  IN  (w + step) % kSlotCount
NextIgnoringReader(published) == After(published, {published})
NextWriteSlot(published) == After(published, {published, reader})

Publish(slot) == publishedSlot' = slot /\ writeSlot' = NextWriteSlot(slot)

-----------------------------------------------------------------------------
(* ProduceFrame.                                                           *)

Mismatch(size) == rebuild \/ size # ringSize
Chosen(slot) == [at |-> "chosen", slot |-> slot, frame |-> frames']

Offer ==
  /\ producer.at = "idle" /\ ~stop /\ frames < MaxFrames
  /\ frames' = frames + 1

\* The ring fits the frame, or so its size says.
FrameFits(size) ==
  /\ Offer /\ ~Mismatch(size)
  /\ halfUsed' = (halfUsed \/ \E s \in Slots : made[s] # "both")
  /\ producer' = Chosen(writeSlot)
  /\ UNCHANGED <<slots, ring, control, failures, shown>>

\* It does not, and the game holds a slot: the frame is dropped.
FrameRefused(size) ==
  /\ Offer /\ Mismatch(size) /\ reader # NoSlot
  /\ UNCHANGED <<slots, ring, control, producer, failures, halfUsed, shown>>

\* It does not, and is built anew.
FrameRebuilds(size) ==
  /\ Offer /\ Mismatch(size) /\ reader = NoSlot
  /\ ClearSlots(size) /\ made' = [s \in Slots |-> "both"]
  /\ ringSize' = size /\ rebuild' = FALSE
  /\ producer' = Chosen(0)
  /\ UNCHANGED <<reader, stop, failures, halfUsed, shown>>

\* Some texture, handle or view cannot be made: the frame is dropped, and
\* the ring's size and the request stay what they were.
RebuildFails(size) ==
  /\ Offer /\ Mismatch(size) /\ reader = NoSlot
  /\ failures < MaxFailures /\ failures' = failures + 1
  /\ ClearSlots(size)
  /\ \E last \in Slots, half \in {"none", "platform", "mutexes"} : made' = MadeUpTo(last, half)
  /\ UNCHANGED <<reader, control, producer, halfUsed, shown>>

\* A slot the game never took is reclaimed by the key meant for the game.
OfferedKey(slot) == IF awaiting[slot] THEN "1" ELSE "0"

SlotAcquired ==
  /\ producer.at = "chosen" /\ made[producer.slot] # "none"
  /\ LET s == producer.slot IN
       IF key[s] = OfferedKey(s)
         THEN /\ key' = [key EXCEPT ![s] = "platform"]
              /\ awaiting' = [awaiting EXCEPT ![s] = FALSE]
              /\ content' = [content EXCEPT ![s] = IF texSize[s] = ringSize THEN Torn ELSE @]
              /\ producer' = [producer EXCEPT !.at = "copying"]
         ELSE producer' = Idle /\ UNCHANGED <<key, awaiting, content>>
  /\ UNCHANGED <<made, texSize, ring, control, frames, failures, halfUsed, shown>>

\* WaitForPlatformGpuIdle: the copy is complete, or the wait timed out or was
\* stopped and the frame is dropped.  The fault hands it over all the same.
HandsOverAnyway(complete) == TRUE
HandsOver(complete) == complete

CopyEnds(complete) ==
  /\ producer.at = "copying"
  /\ LET s == producer.slot IN
       /\ content' = [content EXCEPT ![s] =
                       IF complete /\ @ = Torn THEN producer.frame ELSE @]
       /\ key' = [key EXCEPT ![s] = IF HandsOver(complete) THEN "1" ELSE "0"]
       /\ producer' = IF HandsOver(complete) THEN [producer EXCEPT !.at = "copied"] ELSE Idle
  /\ UNCHANGED <<made, texSize, awaiting, ring, control, frames, failures, halfUsed, shown>>

\* The game is told to expect a new frame.  The fault forgets to.
NotAnnounced(slot) == UNCHANGED awaiting
Announced(slot) == awaiting' = [awaiting EXCEPT ![slot] = TRUE]

PublishFrame ==
  /\ producer.at = "copied"
  /\ Announced(producer.slot)
  /\ Publish(producer.slot)
  /\ producer' = Idle
  /\ UNCHANGED <<made, texSize, content, key, reader, control, frames, failures, halfUsed, shown>>

-----------------------------------------------------------------------------
(* The game's side, and calls from any thread.                             *)

\* A new frame is acquired by key 1, one kept from before by key 0.
PlanConsumerAcquire(slot) == IF awaiting[slot] THEN "1" ELSE "0"

Consuming == publishedSlot # NoSlot /\ reader = NoSlot
Unmade == Consuming /\ made[publishedSlot] \in {"none", "platform"}

Consumable ==
  /\ Consuming /\ ~Unmade
  /\ key[publishedSlot] = PlanConsumerAcquire(publishedSlot)

\* Without a view there is nothing to draw, and the slot is lent all the same.
ConsumeSRV ==
  /\ Consumable
  /\ key' = [key EXCEPT ![publishedSlot] = "game"]
  /\ awaiting' = [awaiting EXCEPT ![publishedSlot] = FALSE]
  /\ reader' = publishedSlot
  /\ shown' = IF made[publishedSlot] = "both" THEN content[publishedSlot] ELSE shown
  /\ UNCHANGED <<made, texSize, content, writeSlot, publishedSlot, control, producer,
                 frames, failures, halfUsed>>

ReleaseConsumedFrame ==
  /\ reader # NoSlot /\ reader' = NoSlot
  /\ key' = [key EXCEPT ![reader] = "0"]
  /\ UNCHANGED <<made, texSize, content, awaiting, writeSlot, publishedSlot, control,
                 producer, frames, failures, halfUsed, shown>>

RequestResize(size) ==
  /\ rebuild' = (rebuild \/ size # ringSize)
  /\ UNCHANGED <<slots, ring, ringSize, stop, producer, frames, failures, halfUsed, shown>>

RequestStop ==
  /\ stop' = TRUE
  /\ UNCHANGED <<slots, ring, ringSize, rebuild, producer, frames, failures, halfUsed, shown>>

-----------------------------------------------------------------------------

ProduceFrame ==
  \/ \E size \in Sizes : \/ FrameFits(size) \/ FrameRefused(size)
                         \/ FrameRebuilds(size) \/ RebuildFails(size)
  \/ SlotAcquired \/ \E complete \in BOOLEAN : CopyEnds(complete)
  \/ PublishFrame

RingNext == \/ ProduceFrame
            \/ ConsumeSRV \/ ReleaseConsumedFrame
            \/ \E size \in Sizes : RequestResize(size)
            \/ RequestStop

RingSpec == RingInit /\ [][RingNext]_ringVars

-----------------------------------------------------------------------------
(* Properties.                                                             *)

\* Each holds until a frame has gone into a ring that a failed rebuild left half
\* made, which the code does not rule out: see "Promises the code does not keep"
\* in the README.

\* What the game samples is one whole frame, and stays so until it releases
\* the slot (CEFRingRenderLayer.h: "Draw only ever samples an
\* already-completed texture").
SampledFrameIsWhole ==
  ~halfUsed /\ reader # NoSlot => /\ content[reader] \in 1..frames
                                  /\ key[reader] = "game"

\* The game never draws an older frame after a newer one.
NeverGoesBack == [][~halfUsed => shown' >= shown]_ringVars

\* Neither side is ever kept from the slot it goes for by the other: the
\* producer's is made and can be acquired, and so can the published one by the
\* game, be it new or kept (CompositorMath.h: "a free slot always exists").
HandoverNeverBlocks ==
  ~halfUsed =>
    /\ producer.at = "chosen" => /\ made[producer.slot] # "none"
                                 /\ key[producer.slot] = OfferedKey(producer.slot)
    /\ Consuming => Consumable /\ made[publishedSlot] = "both"

\* The same of every frame.  TLC refutes it: see the README.
EverySampledFrameIsWhole == reader # NoSlot => content[reader] \in 1..frames
=============================================================================
