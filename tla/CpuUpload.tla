------------------------------ MODULE CpuUpload ------------------------------
(***************************************************************************)
(* A surface painted in memory (CpuFrameBuffer) and its copy in a texture  *)
(* of the game's device (CpuTextureSurface).  CEF's thread paints into one *)
(* retained image and widens one dirty rectangle; the render thread takes  *)
(* a snapshot of that rectangle under the lock and uploads it outside.     *)
(*                                                                         *)
(* An image is a row of tiles, each holding the number of the paint that   *)
(* wrote it.  Paints the buffer refuses change nothing and are left out.   *)
(***************************************************************************)
EXTENDS Integers

CONSTANTS ImageSizes,  \* sizes a paint may have
          TileCount,   \* tiles of an image
          MaxPaints    \* bound: paints submitted

Tiles  == 1..TileCount
NoSize == "none"

VARIABLES
  image, imageSize,     \* m_pixels; m_width and m_height, NoSize when empty
  dirty, pending,       \* m_dirty as a set of tiles, m_pending
  epoch, stopped,       \* m_epoch, m_stopped
  texture, textureSize, textureEpoch,  \* the surface's texture and its m_epoch
  update,               \* the snapshot being uploaded: a set of none or one
  paints                \* paints submitted

frameBuffer == <<image, imageSize, dirty, pending, epoch, stopped, paints>>
surface     == <<texture, textureSize, textureEpoch>>
cpuVars     == <<frameBuffer, surface, update>>

Updates == [size : ImageSizes, tiles : SUBSET Tiles, pixels : [Tiles -> Nat], epoch : Nat]

CpuTypeOK ==
  /\ image \in [Tiles -> Nat] /\ imageSize \in ImageSizes \cup {NoSize}
  /\ dirty \subseteq Tiles /\ pending \in BOOLEAN
  /\ epoch \in Nat /\ stopped \in BOOLEAN /\ paints \in Nat
  /\ texture \in [Tiles -> Nat] /\ textureSize \in ImageSizes \cup {NoSize}
  /\ textureEpoch \in Nat
  /\ \A u, v \in update : u \in Updates /\ u = v

CpuInit ==
  /\ image = [t \in Tiles |-> 0] /\ imageSize = NoSize
  /\ dirty = {} /\ pending = FALSE /\ epoch = 1 /\ stopped = FALSE /\ paints = 0
  /\ texture = [t \in Tiles |-> 0] /\ textureSize = NoSize /\ textureEpoch = 0
  /\ update = {}

-----------------------------------------------------------------------------
(* CEF's thread.                                                           *)

\* The smallest rectangle that covers some tiles.
Box(tiles) == {t \in Tiles : \E a, b \in tiles : a <= t /\ t <= b}

\* A paint copies the tiles it reports, or all of them when it reports none or
\* the size is new; a new size starts an epoch.
Submit(size, reported) ==
  /\ ~stopped /\ paints < MaxPaints /\ paints' = paints + 1
  /\ LET resized == size # imageSize
         copied  == IF resized \/ reported = {} THEN Tiles ELSE reported
         waiting == IF pending /\ ~resized THEN dirty ELSE {}
     IN  /\ image' = [t \in Tiles |-> IF t \in copied THEN paints' ELSE image[t]]
         /\ dirty' = Box(copied \cup waiting)
         /\ epoch' = IF resized THEN epoch + 1 ELSE epoch
  /\ imageSize' = size /\ pending' = TRUE
  /\ UNCHANGED <<stopped, surface, update>>

Clear ==
  /\ image' = [t \in Tiles |-> 0] /\ imageSize' = NoSize
  /\ pending' = FALSE /\ epoch' = epoch + 1

\* A drop-down opens or closes.
Reset ==
  /\ imageSize # NoSize /\ Clear
  /\ UNCHANGED <<dirty, stopped, paints, surface, update>>

Stop ==
  /\ Clear /\ stopped' = TRUE
  /\ UNCHANGED <<dirty, paints, surface, update>>

-----------------------------------------------------------------------------
(* The render thread: CpuTextureSurface::UploadLatest.                     *)

TakeUpdate ==
  /\ ~stopped /\ pending
  /\ update' = {[size |-> imageSize, tiles |-> dirty, pixels |-> image, epoch |-> epoch]}
  /\ pending' = FALSE
  /\ UNCHANGED <<image, imageSize, dirty, epoch, stopped, paints, surface>>

\* The fault only marks the tiles of the snapshot that was lost.
MarkTheLost(u) == dirty' = u.tiles
MarkAll(u) == dirty' = Tiles

\* The device is lost or a texture cannot be made: RequestFullUpload.
UploadFails ==
  /\ \E u \in update :
       IF ~stopped /\ imageSize # NoSize
         THEN MarkAll(u) /\ pending' = TRUE
         ELSE UNCHANGED <<dirty, pending>>
  /\ update' = {}
  /\ UNCHANGED <<image, imageSize, epoch, stopped, paints, surface>>

UploadDone ==
  /\ \E u \in update :
       /\ texture' = [t \in Tiles |-> IF t \in u.tiles THEN u.pixels[t]
                                      ELSE IF u.size = textureSize THEN texture[t] ELSE 0]
       /\ textureSize' = u.size /\ textureEpoch' = u.epoch
  /\ update' = {}
  /\ UNCHANGED frameBuffer

-----------------------------------------------------------------------------
(* Properties.                                                             *)

\* The texture may be drawn.
View == ~stopped /\ imageSize # NoSize /\ epoch = textureEpoch

\* A texture that may be drawn has the image's size, and differs from the
\* image only in tiles that are waiting for an upload or being uploaded: no
\* tile is ever forgotten, whatever paints, drop-downs and failures come
\* between a snapshot and its upload.
ViewIsFresh ==
  View => /\ textureSize = imageSize
          /\ \A t \in Tiles : \/ texture[t] = image[t]
                              \/ pending /\ t \in dirty
                              \/ \E u \in update : t \in u.tiles /\ u.epoch = epoch
=============================================================================
