-------------------------- MODULE MCPromiseRouting --------------------------
(* PromiseRouting for TLC: parties are model values, and every browser has *)
(* a renderer process of its own, so that call ids collide.                *)
EXTENDS PromiseRouting, FiniteSets

OneEach == CHOOSE f \in [Browsers -> Renderers] : \A r \in Renderers : \E b \in Browsers : f[b] = r
=============================================================================
