------------------------------ MODULE SyncCopy ------------------------------
(***************************************************************************)
(* The renderer without a ring (CEFSyncCopyRenderLayer): CEF lends a frame *)
(* for the length of one OnAcceleratedPaint call, which waits until the    *)
(* render thread has copied it or the layer or the game is closing.        *)
(*                                                                         *)
(* m_frameMutex guards the state and the borrowed pointer, and is not held *)
(* across the copy.  Lent frames are numbered; 0 is no frame.              *)
(***************************************************************************)
EXTENDS Integers

CONSTANT MaxLent  \* bound: frames lent

ASSUME LentAssumption == MaxLent \in Nat

VARIABLES
  frameState,   \* m_frameState
  info,         \* m_acceleratedPaintInfo
  painting,     \* the frame whose OnAcceleratedPaint call has not returned
  using,        \* the frame the render thread is copying from
  isClosing,    \* m_isClosing
  gameClosing,  \* ShutdownHook::IsGameClosing
  lent          \* frames lent

syncVars == <<frameState, info, painting, using, isClosing, gameClosing, lent>>

NoFrame == 0

SyncTypeOK ==
  /\ frameState \in {"Idle", "Pending", "Consuming"}
  /\ {info, painting, using} \subseteq 0..MaxLent
  /\ isClosing \in BOOLEAN /\ gameClosing \in BOOLEAN /\ lent \in 0..MaxLent

SyncInit ==
  /\ frameState = "Idle" /\ info = NoFrame /\ painting = NoFrame /\ using = NoFrame
  /\ isClosing = FALSE /\ gameClosing = FALSE /\ lent = 0

\* Both ways to learn that the layer will be drawn no more.  The fault looks
\* at its own flag only.
OwnClosing == isClosing
Closing == isClosing \/ gameClosing

\* A frame may be taken back while nobody copies from it.  The fault takes it
\* back at any time.
TakenBackAnyTime == frameState # "Idle"
TakenBack == frameState = "Pending"

GiveUp == info' = NoFrame /\ frameState' = "Idle"

-----------------------------------------------------------------------------
(* CEF's thread, in OnAcceleratedPaint.  Once closing it returns at once.  *)

OnAcceleratedPaint ==
  /\ painting = NoFrame /\ ~Closing /\ lent < MaxLent
  /\ lent' = lent + 1
  /\ info' = lent' /\ painting' = lent' /\ frameState' = "Pending"
  /\ UNCHANGED <<using, isClosing, gameClosing>>

PaintReturns ==
  /\ painting # NoFrame /\ frameState = "Idle"
  /\ painting' = NoFrame
  /\ UNCHANGED <<frameState, info, using, isClosing, gameClosing, lent>>

PaintCancelled ==
  /\ painting # NoFrame /\ Closing /\ TakenBack
  /\ GiveUp /\ painting' = NoFrame
  /\ UNCHANGED <<using, isClosing, gameClosing, lent>>

-----------------------------------------------------------------------------
(* The render thread, in Draw.                                             *)

TakeFrame ==
  /\ frameState = "Pending"
  /\ frameState' = "Consuming" /\ using' = info
  /\ UNCHANGED <<info, painting, isClosing, gameClosing, lent>>

\* The copy is done, was given up, or has thrown.
FinishFrame ==
  /\ using # NoFrame /\ using' = NoFrame
  /\ GiveUp
  /\ UNCHANGED <<painting, isClosing, gameClosing, lent>>

-----------------------------------------------------------------------------
(* The threads that close the layer or the game.                           *)

BeginShutdown ==
  /\ isClosing' = TRUE
  /\ UNCHANGED <<frameState, info, painting, using, gameClosing, lent>>

CancelPending ==
  /\ IF TakenBack THEN GiveUp ELSE UNCHANGED <<info, frameState>>
  /\ UNCHANGED <<painting, using, isClosing, gameClosing, lent>>

GameCloses ==
  /\ ~gameClosing /\ gameClosing' = TRUE
  /\ UNCHANGED <<frameState, info, painting, using, isClosing, lent>>

-----------------------------------------------------------------------------
(* Properties.                                                             *)

\* CEF's call does not return while the render thread still copies from the
\* frame it lent, however the layer and the game are closed meanwhile.
LentFrameIsAlive == using # NoFrame => painting = using

\* Every call returns: CEF's thread is not kept waiting by a layer that is no
\* longer drawn, a copy that failed or a game that closes.
EveryPaintReturns == painting # NoFrame ~> painting = NoFrame
=============================================================================
