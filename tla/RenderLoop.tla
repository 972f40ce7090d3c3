----------------------------- MODULE RenderLoop -----------------------------
(***************************************************************************)
(* One layer of the overlay from CEF's paint to the screen: the present    *)
(* hook (RenderHost::OnPresent) draws the layer with whichever renderer    *)
(* it was made for, while CEF's thread paints into it and other threads    *)
(* show it, hide it, remove it or shut the render host down.               *)
(*                                                                         *)
(* A present works on a snapshot of the layers, so a layer removed in the  *)
(* middle of a present is drawn by it all the same.  Other layers, the     *)
(* cursor and the D3D state that a present saves are left out.             *)
(***************************************************************************)
EXTENDS FrameTransport, CpuUpload, SyncCopy

VARIABLES
  renderer,   \* the layer's renderer: RingBuffer, CpuUpload or SyncCopy
  listed,     \* is the layer in the compositor?
  hostDown,   \* RenderHost::m_isShuttingDown
  leaving,    \* the layer's BeginShutdown: not called, to be called, ... done
  visible,    \* m_isVisible
  present     \* where OnPresent is

hostVars == <<listed, hostDown, leaving, visible, present>>
vars == <<ringVars, cpuVars, syncVars, renderer, hostVars>>

Renderers == {"RingBuffer", "CpuUpload", "SyncCopy"}

TypeOK ==
  /\ RingTypeOK /\ CpuTypeOK /\ SyncTypeOK
  /\ renderer \in Renderers
  /\ listed \in BOOLEAN /\ hostDown \in BOOLEAN /\ visible \in BOOLEAN
  /\ leaving \in {"no", "due", "begun", "done"}
  /\ present \in {"none", "prepare", "upload", "draw", "copy", "end", "after"}

Init ==
  /\ RingInit /\ CpuInit /\ SyncInit
  /\ renderer \in Renderers
  /\ listed = TRUE /\ hostDown = FALSE /\ leaving = "no"
  /\ visible = TRUE /\ present = "none"

-----------------------------------------------------------------------------
(* RenderHost::OnPresent, by the render thread.                            *)

At(here, next) == present = here /\ present' = next

\* What a present that moves on leaves alone.
HostKept == UNCHANGED <<renderer, listed, hostDown, leaving, visible>>
RingKept == UNCHANGED ringVars
CpuKept  == UNCHANGED cpuVars
SyncKept == UNCHANGED syncVars
LayerKept == RingKept /\ CpuKept /\ SyncKept

PresentBegins ==
  /\ ~hostDown /\ listed
  /\ At("none", "prepare") /\ HostKept /\ LayerKept

\* Prepare: a surface painted in memory is uploaded if it may be drawn.
PrepareTakes ==
  /\ renderer = "CpuUpload" /\ visible
  /\ At("prepare", "upload") /\ TakeUpdate
  /\ HostKept /\ RingKept /\ SyncKept

PrepareUploads ==
  /\ At("upload", "draw")
  /\ UploadFails \/ UploadDone
  /\ HostKept /\ RingKept /\ SyncKept

\* There is nothing to upload, or no memory for the snapshot.
PrepareEnds == At("prepare", "draw") /\ HostKept /\ LayerKept

\* Draw: the ring's frame only if the layer is visible, a lent frame always.
DrawRing ==
  /\ renderer = "RingBuffer" /\ visible
  /\ At("draw", "end") /\ ConsumeSRV
  /\ HostKept /\ CpuKept /\ SyncKept

DrawTakes ==
  /\ renderer = "SyncCopy"
  /\ At("draw", "copy") /\ TakeFrame
  /\ HostKept /\ RingKept /\ CpuKept

DrawCopied ==
  /\ At("copy", "end") /\ FinishFrame
  /\ HostKept /\ RingKept /\ CpuKept

\* The layer is drawn from what it has, or not at all.
DrawEnds ==
  /\ ~(renderer = "RingBuffer" /\ visible /\ (Consumable \/ Unmade))
  /\ ~(renderer = "SyncCopy" /\ frameState = "Pending")
  /\ At("draw", "end") /\ HostKept /\ LayerKept

\* SpriteBatch::End submits the draws, or throws, and AfterDraw is left out.
Submitted == At("end", "after") /\ HostKept /\ LayerKept
SubmitFails == At("end", "none") /\ HostKept /\ LayerKept

\* AfterDraw gives the slot back whether or not the layer is visible.
AfterDraw ==
  /\ At("after", "none")
  /\ IF reader # NoSlot THEN ReleaseConsumedFrame ELSE RingKept
  /\ HostKept /\ CpuKept /\ SyncKept

-----------------------------------------------------------------------------
(* CEF's thread paints.                                                    *)

PaintRing ==
  /\ renderer = "RingBuffer" /\ ProduceFrame
  /\ CpuKept /\ SyncKept /\ UNCHANGED <<renderer, hostVars>>

PaintMemory ==
  /\ renderer = "CpuUpload"
  /\ \/ \E size \in ImageSizes, reported \in SUBSET Tiles : Submit(size, reported)
     \/ Reset
  /\ RingKept /\ SyncKept /\ UNCHANGED <<renderer, hostVars>>

LendFrame ==
  /\ renderer = "SyncCopy"
  /\ OnAcceleratedPaint \/ PaintReturns \/ PaintCancelled
  /\ RingKept /\ CpuKept /\ UNCHANGED <<renderer, hostVars>>

-----------------------------------------------------------------------------
(* Other threads.                                                          *)

\* SetBrowserVisible, IRenderLayer::SetVisible.
SetVisible(value) ==
  /\ visible' = value
  /\ LayerKept /\ UNCHANGED <<renderer, listed, hostDown, leaving, present>>

\* SetBrowserRect and its like: DefaultBrowser::NotifyGeometryChanged.
NotifyGeometryChanged(size) ==
  /\ renderer = "RingBuffer" /\ RequestResize(size)
  /\ CpuKept /\ SyncKept /\ UNCHANGED <<renderer, hostVars>>

\* RemoveSubMenu takes the layer out of the compositor, and BeginShutdown of
\* the host all layers; then each calls the layer's BeginShutdown.
RemoveSubMenu ==
  /\ listed /\ listed' = FALSE /\ leaving' = "due"
  /\ LayerKept /\ UNCHANGED <<renderer, hostDown, visible, present>>

HostBeginsShutdown ==
  /\ ~hostDown /\ hostDown' = TRUE
  /\ LayerKept /\ UNCHANGED <<renderer, listed, leaving, visible, present>>

Stops(next) ==
  /\ leaving' = next /\ visible' = FALSE
  /\ UNCHANGED <<renderer, listed, hostDown, present>>

StopRing ==
  /\ leaving = "due" /\ renderer = "RingBuffer"
  /\ RequestStop /\ Stops("done") /\ CpuKept /\ SyncKept

StopMemory ==
  /\ leaving = "due" /\ renderer = "CpuUpload"
  /\ Stop /\ Stops("done") /\ RingKept /\ SyncKept

StopLending ==
  /\ renderer = "SyncCopy"
  /\ \/ leaving = "due" /\ BeginShutdown /\ Stops("begun")
     \/ leaving = "begun" /\ CancelPending /\ Stops("done")
  /\ RingKept /\ CpuKept

\* External: the hook on the game's exit.
GameExits ==
  /\ renderer = "SyncCopy" /\ GameCloses
  /\ RingKept /\ CpuKept /\ UNCHANGED <<renderer, hostVars>>

-----------------------------------------------------------------------------

LayerBeginShutdown == StopRing \/ StopMemory \/ StopLending

OnPresent ==
  \/ PresentBegins
  \/ PrepareTakes \/ PrepareUploads \/ PrepareEnds
  \/ DrawRing \/ DrawTakes \/ DrawCopied \/ DrawEnds
  \/ Submitted \/ SubmitFails
  \/ AfterDraw

Next ==
  \/ OnPresent
  \/ PaintRing \/ PaintMemory \/ LendFrame
  \/ \E value \in BOOLEAN : SetVisible(value)
  \/ \E size \in Sizes : NotifyGeometryChanged(size)
  \/ RemoveSubMenu \/ HostBeginsShutdown
  \/ LayerBeginShutdown
  \/ GameExits

Spec == Init /\ [][Next]_vars

(***************************************************************************)
(* The game presents as long as it is not closing, SpriteBatch::End does   *)
(* not throw every time, OnAcceleratedPaint polls every 10 ms, and whoever *)
(* has begun to take a layer down goes on.  Nobody need paint, show, hide  *)
(* or remove anything.                                                     *)
(***************************************************************************)
Fairness ==
  /\ WF_vars(OnPresent /\ (present = "none" => ~gameClosing))
  /\ SF_vars(Submitted)
  /\ WF_vars(LendFrame /\ painting # NoFrame)
  /\ WF_vars(hostDown /\ RemoveSubMenu)
  /\ WF_vars(LayerBeginShutdown)

FairSpec == Spec /\ Fairness

-----------------------------------------------------------------------------

\* A published frame does not stay off the screen, unless the layer is hidden
\* or removed, the ring is rebuilt, or a frame went into one half made: a failed
\* submission, a hidden present or a slow producer never wedges the ring.
NewFrame == publishedSlot # NoSlot /\ content[publishedSlot] > shown

PublishedFrameIsShown == NewFrame ~> ~NewFrame \/ ~visible \/ ~listed \/ hostDown \/ halfUsed
=============================================================================
