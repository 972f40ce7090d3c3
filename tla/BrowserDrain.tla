---------------------------- MODULE BrowserDrain ----------------------------
(***************************************************************************)
(* What CEFService promises, without locks, threads or callbacks: browsers *)
(* open only while the platform runs, and the platform goes down only      *)
(* after it stopped opening browsers and every browser it opened has gone. *)
(***************************************************************************)
CONSTANT Browsers

VARIABLES phase,  \* off, running, closing, drained, down, failed, unavailable
          open    \* browsers for which CEF may still call back

vars == <<phase, open>>

Init == /\ phase = "off"
        /\ open = {}

Start == /\ phase = "off"
         /\ phase' \in {"running", "unavailable"}
         /\ UNCHANGED open

Open(b) == /\ phase = "running"
           /\ b \notin open
           /\ open' = open \cup {b}
           /\ UNCHANGED phase

Close(b) == /\ b \in open
            /\ open' = open \ {b}
            /\ UNCHANGED phase

StopOpening == /\ phase = "running"
               /\ phase' = "closing"
               /\ UNCHANGED open

Drain == /\ phase = "closing"
         /\ open = {}
         /\ phase' = "drained"
         /\ UNCHANGED open

GiveUp == /\ phase = "closing"
          /\ phase' = "failed"
          /\ UNCHANGED open

Finish == /\ phase = "drained"
          /\ phase' = "down"
          /\ UNCHANGED open

Next == \/ Start
        \/ \E b \in Browsers : Open(b) \/ Close(b)
        \/ StopOpening
        \/ Drain
        \/ GiveUp
        \/ Finish

Spec == Init /\ [][Next]_vars
=============================================================================
