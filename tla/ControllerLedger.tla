--------------------------- MODULE ControllerLedger ---------------------------
(***************************************************************************)
(* The ledger of a gamepad's controls (ControllerState): for each control  *)
(* what it was last seen to be, whether its use by a page waits for it to  *)
(* be let go, and which side, game or page, was given its press.           *)
(*                                                                         *)
(* A control is pressed (1) or neutral (0): dead zones and the analog      *)
(* range between are abstracted.  The ledger is a record, and each method  *)
(* an operator from a ledger to the next one.                              *)
(***************************************************************************)
EXTENDS Naturals

CONSTANTS
    Controls,       \* buttons, triggers and sticks
    Sticks,         \* those among them that are sticks
    NoView          \* the owner 0

ASSUME LedgerAssumption == Sticks \subseteq Controls

None == "none"      \* Control::None, where a control is expected

Ledger(Views) ==
    [owner: Views \cup {NoView}, generation: Nat, value: [Controls -> {0, 1}],
     blocked: [Controls -> BOOLEAN], gameDown: [Controls -> BOOLEAN],
     uiOwned: [Controls -> BOOLEAN], repeat: Controls \cup {None}]

NewLedger ==
    [owner |-> NoView, generation |-> 0, value |-> [c \in Controls |-> 0],
     blocked |-> [c \in Controls |-> FALSE], gameDown |-> [c \in Controls |-> FALSE],
     uiOwned |-> [c \in Controls |-> FALSE], repeat |-> None]

Held(s, c) == s.value[c] = 1
Armed(s, c) == ~s.blocked[c]

\* The fault "the new owner gets what is held".
SetOwnerOnly(s, o) ==
    IF o = s.owner THEN s
    ELSE [s EXCEPT !.owner = o, !.generation = @ + 1, !.repeat = None]

\* What is held when the owner changes belongs to nobody's page until it is let go.
SetOwner(s, o) ==
    IF o = s.owner THEN s
    ELSE [s EXCEPT !.owner = o, !.generation = @ + 1, !.repeat = None,
                   !.blocked = [c \in Controls |-> @[c] \/ Held(s, c)],
                   !.uiOwned = [c \in Controls |-> @[c] \/ (s.owner # NoView /\ Held(s, c))]]

RequireNeutral(s) == [s EXCEPT !.blocked = [c \in Controls |-> TRUE], !.repeat = None]

\* SeedGamepad: every control as the device holds it now.
SeedAll(s, phys) ==
    [s EXCEPT !.value = phys, !.blocked = [c \in Controls |-> phys[c] = 1]]

ResetDevice(s) ==
    [RequireNeutral(s) EXCEPT
        !.value = [c \in Controls |-> 0], !.gameDown = [c \in Controls |-> FALSE],
        !.uiOwned = [c \in Controls |-> FALSE], !.generation = @ + 1]

\* Capture, of each of these controls.
Capture(s, captured) == [s EXCEPT !.blocked = [c \in Controls |-> @[c] \/ c \in captured]]

Change(old, v) == IF v = old THEN "none" ELSE IF v = 0 THEN "release" ELSE "press"

\* The fault "the owner gets every event".
ConsumesReleases(s, c, v, force) == s.owner # NoView \/ s.uiOwned[c] \/ force

\* Whether the game is denied this event: the release of what it saw pressed is never.
Consumes(s, c, v, force) ==
    /\ s.owner # NoView \/ s.uiOwned[c] \/ force
    /\ ~(v = 0 /\ s.gameDown[c])

Settle(s, c, v, force) ==
    [s EXCEPT !.value[c] = v,
              !.blocked[c] = v = 1 /\ (@ \/ force),
              !.gameDown[c] = v = 1 /\ (@ \/ ~Consumes(s, c, v, force)),
              !.uiOwned[c] = v = 1 /\ (@ \/ Consumes(s, c, v, force))]

\* Button: the next ledger, whether the event is kept from the game, and the phase an
\* armed control shows (to the page if there is an owner, to shortcuts if there is none).
Button(s, c, v, force) ==
    [ledger |-> Settle(s, c, v, force), consume |-> Consumes(s, c, v, force),
     phase |-> IF s.blocked[c] \/ force THEN "none" ELSE Change(s.value[c], v)]

Stick(s, c, v) ==
    [ledger |-> Settle(s, c, v, FALSE), consume |-> Consumes(s, c, v, FALSE),
     phase |-> IF v # s.value[c] /\ s.owner # NoView /\ ~s.blocked[c] THEN "change" ELSE "none"]

\* The control that moves the selection now: a bound button before the stick.
Direction(s, bound, stick) ==
    LET held == {c \in bound : Held(s, c) /\ Armed(s, c)}
    IN  IF held # {} THEN CHOOSE c \in held : TRUE
        ELSE IF stick \in Controls /\ Held(s, stick) /\ Armed(s, stick) THEN stick ELSE None

\* One tick of the repeat clock; "due" says that the delay has passed.
Repeat(s, bound, stick, due) ==
    LET d == Direction(s, bound, stick)
    IN  [ledger |-> [s EXCEPT !.repeat = d],
         control |-> IF d # s.repeat \/ due THEN d ELSE None,
         phase |-> IF d # s.repeat THEN "press" ELSE "repeat"]
===============================================================================
