------------------------------ MODULE Surfaces ------------------------------
(***************************************************************************)
(* RenderLayerAPIController: native surfaces, each a layer under a name of *)
(* its own.  Their names are no browser's, so no other controller adds or  *)
(* removes their layers, except for the sweeps of RenderHost's shutdown.   *)
(***************************************************************************)
EXTENDS LayerList

VARIABLES surfClosing,  \* m_isShuttingDown
          surfNames,    \* m_ownedCompositorNames
          surfaces      \* m_surfaces

surfaceBook == <<surfClosing, surfNames, surfaces>>

SurfacesTypeOK ==
  /\ surfClosing \in BOOLEAN
  /\ surfNames \subseteq SurfaceNames
  /\ surfaces \subseteq [surface : Calls, name : SurfaceNames]

SurfacesInit == surfClosing = FALSE /\ surfNames = {} /\ surfaces = {}

\* The flag and the name are looked at under the lock, and the name is taken.
CreateSurface(t, n) ==
  /\ ~surfClosing /\ n \notin surfNames
  /\ Begin(t, "check", n)
  /\ surfNames' = surfNames \cup {n}
  /\ UNCHANGED <<list, surfClosing, surfaces>>

\* AddSubMenu refuses: the name is given back and the new menu destroyed.
Discard(t) ==
  /\ surfNames' = surfNames \ {frame[t].name}
  /\ Leave(t)

\* AddSubMenu reads RenderHost's flag before it takes the compositor's lock.
CheckOpen(t) ==
  /\ At(t, "check")
  /\ \/ /\ renderClosing
        /\ Discard(t)
     \/ /\ ~renderClosing
        /\ Goto(t, "add")
        /\ UNCHANGED surfNames
  /\ UNCHANGED <<list, made, surfClosing, surfaces>>

\* Compositor::Add: the layer of a surface destroyed just now may still be there.
\* Init may then throw or leave the surface without its texture: the layer is
\* taken off again before the name is given back.
Add(t) ==
  /\ At(t, "add")
  /\ \/ /\ layers[frame[t].name] # None
        /\ Discard(t)
        /\ UNCHANGED <<layers, running>>
     \/ /\ layers[frame[t].name] = None
        /\ List(frame[t].name, frame[t].call)
        /\ \/ Goto(t, "publishSurface")
           \/ frame' = [frame EXCEPT ![t] = Remover(t, {frame[t].call}, "freeName")]
        /\ UNCHANGED surfNames
  /\ UNCHANGED <<renderClosing, made, surfClosing, surfaces>>

FreeName(t) ==
  /\ At(t, "freeName")
  /\ surfNames' = surfNames \ {frame[t].name}
  /\ Leave(t)
  /\ UNCHANGED <<list, made, surfClosing, surfaces>>

\* The surface enters the book unless that has been closed meanwhile.  The fault
\* enters it in any case.
PublishesAnyway == TRUE
Publishes == ~surfClosing
PublishSurface(t) ==
  /\ At(t, "publishSurface")
  /\ \/ /\ Publishes
        /\ surfaces' = surfaces \cup {[surface |-> frame[t].call, name |-> frame[t].name]}
        /\ Leave(t)
        /\ UNCHANGED surfNames
     \/ /\ ~Publishes
        /\ surfNames' = surfNames \ {frame[t].name}
        /\ frame' = [frame EXCEPT ![t] = Remover(t, {frame[t].call}, "idle")]
        /\ UNCHANGED surfaces
  /\ UNCHANGED <<list, made, surfClosing>>

\* The surface and its name leave the book, then the layer is removed; if the
\* list no longer has it the surface is shut down all the same.
DestroySurface(t, s) ==
  /\ At(t, "idle")
  /\ surfaces' = surfaces \ {s}
  /\ surfNames' = surfNames \ {s.name}
  /\ frame' = [frame EXCEPT ![t] = Remover(t, {s.surface}, "idle"), ![t].name = s.name]
  /\ UNCHANGED <<list, made, surfClosing>>

SurfaceStep(t) ==
  \/ \E n \in SurfaceNames : CreateSurface(t, n)
  \/ \E s \in surfaces : DestroySurface(t, s)
  \/ CheckOpen(t) \/ Add(t) \/ FreeName(t) \/ PublishSurface(t)
=============================================================================
