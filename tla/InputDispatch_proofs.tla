------------------------ MODULE InputDispatch_proofs ------------------------
(***************************************************************************)
(* The game and Chromium get the release of every key they saw pressed:    *)
(* proofs for any browsers, keys, batches and events.                      *)
(*                                                                         *)
(* The invariant follows a dispatch event by event: a key of the game that *)
(* the batch lets go is kept from every browser, either because nobody has *)
(* the focus or because it is among the session's opening keys; and while  *)
(* a browser has the focus the game gets no new key.  Chromium holds what  *)
(* the browser's ledger does.  Who loses the focus has nothing left there  *)
(* but strays once it has been told: the second invariant follows          *)
(* OnFocusRevoked through its three steps, on either thread, against the   *)
(* conversion that may be under way, and the mouse with its flag.          *)
(***************************************************************************)
EXTENDS InputDispatch, TLAPS

GameKeys == game \cap Keys

Stages == {"idle", "toggle", "layer", "send", "note", "opening", "forward",
           "revoke", "leave", "reset"}
Places == [in : Stages, i : Nat, l : Nat, b : Browsers \cup {NoBrowser}, handled : BOOLEAN]

IsPlace(q, in, i, l, handled) ==
  q \in Places /\ q.in = in /\ q.i = i /\ q.l = l /\ q.handled = handled

\* An event is in hand.
Routing == \/ at.in \in {"toggle", "layer", "send", "note", "opening"}
           \/ at.in \in {"revoke", "leave", "reset"} /\ at.i > 0
Dispatching == Routing \/ at.in = "forward"

Kinds ==
  /\ cur \subseteq Keys \cup {Button}
  /\ at \in Places
  /\ owner \in Browsers \cup {NoBrowser} /\ opening \subseteq Keys /\ hosts \subseteq Browsers
  /\ off \in BOOLEAN /\ raced \in BOOLEAN
  /\ Routing => ~off /\ at.i \in 1..Len(batch)
  /\ ~Dispatching => at.i = 0
  /\ at.in = "layer" => at.l \in 1..Len(Layers)

\* A batch has one event of a key, and the keyboard is as it left it.
Polled ==
  /\ batch \in Seq(Event)
  /\ \A i, j \in 1..Len(batch) : i # j => batch[i].key # batch[j].key
  /\ \A i \in 1..Len(batch) : batch[i].act = "down" => batch[i].key \in cur

Goes(i, act, k) == batch[i].key = k /\ batch[i].act = act

\* The events that have been decided on.
Past == IF at.in = "forward" THEN Len(batch) ELSE at.i - 1

\* Outside a dispatch the game has no key that is up, and none of a session's but
\* those it began with.
Rested ==
  ~Dispatching =>
    /\ GameKeys \subseteq cur
    /\ owner # NoBrowser /\ ~off => GameKeys \subseteq opening

\* In one, a key of the game is still down or its release is in the batch ...
Answered ==
  Dispatching =>
    \A k \in GameKeys : k \in cur \/ \E i \in 1..Len(batch) : Goes(i, "up", k)

\* ... and that release is nobody else's: none is taken, and in a session the ones
\* to come are opening keys.
Spared ==
  Dispatching =>
    \A k \in GameKeys :
      /\ \A i \in 1..Past : Goes(i, "up", k) => i \notin taken
      /\ owner # NoBrowser /\ ~off =>
           k \in opening \/ \E i \in 1..Past : Goes(i, "up", k)

\* In a session no press is left to the game.
Withheld ==
  Dispatching /\ owner # NoBrowser /\ ~off =>
    \A i \in 1..Past : batch[i].key \in Keys /\ batch[i].act = "down" => i \in taken

\* The owner is not missed on the way through the layers, and what it was offered
\* it handles.
Offering ==
  /\ taken \subseteq 1..Past
  /\ off => taken = {}
  /\ Routing /\ at.handled => at.in = "opening" /\ owner # NoBrowser
  /\ at.in \in {"revoke", "leave", "reset"} /\ at.i > 0 => owner = NoBrowser
  /\ at.in \in {"send", "note"} => owner # NoBrowser
  /\ Routing /\ IsKey /\ owner # NoBrowser =>
       /\ at.in = "layer" => \E m \in 1..Len(Layers) : m >= at.l /\ Layers[m] = owner
       /\ at.in = "opening" => at.handled

Sound == Rested /\ Answered /\ Spared /\ Withheld /\ Offering

IInv == Kinds /\ Polled /\ (~raced => Sound)

-----------------------------------------------------------------------------
LEMMA OneField ==
  ASSUME NEW a, NEW x, NEW i, NEW l, NEW h, IsPlace(a, x, i, l, h)
  PROVE  /\ \A y \in Stages : IsPlace([a EXCEPT !.in = y], y, i, l, h)
         /\ \A n \in Nat : IsPlace([a EXCEPT !.i = n], x, n, l, h)
         /\ \A n \in Nat : IsPlace([a EXCEPT !.l = n], x, i, n, h)
         /\ \A b \in Browsers \cup {NoBrowser} : IsPlace([a EXCEPT !.b = b], x, i, l, h)
         /\ IsPlace([a EXCEPT !.handled = TRUE], x, i, l, TRUE)
  <1>1. \A y \in Stages : IsPlace([a EXCEPT !.in = y], y, i, l, h)
    BY SMT DEF Places, IsPlace
  <1>2. \A n \in Nat : IsPlace([a EXCEPT !.i = n], x, n, l, h)
    BY SMT DEF Places, IsPlace
  <1>3. \A n \in Nat : IsPlace([a EXCEPT !.l = n], x, i, n, h)
    BY SMT DEF Places, IsPlace
  <1>4. \A b \in Browsers \cup {NoBrowser} : IsPlace([a EXCEPT !.b = b], x, i, l, h)
    BY SMT DEF Places, IsPlace
  <1>5. ASSUME NEW g \in BOOLEAN PROVE IsPlace([a EXCEPT !.handled = g], x, i, l, g)
    BY SMT DEF Places, IsPlace
  <1> QED BY <1>1, <1>2, <1>3, <1>4, <1>5

LEMMA Split ==
  ASSUME NEW a, NEW x, NEW y, NEW z
  PROVE  /\ [a EXCEPT !.in = x, !.i = y] = [[a EXCEPT !.in = x] EXCEPT !.i = y]
         /\ [a EXCEPT !.in = x, !.l = y] = [[a EXCEPT !.in = x] EXCEPT !.l = y]
         /\ [a EXCEPT !.in = x, !.b = y] = [[a EXCEPT !.in = x] EXCEPT !.b = y]
         /\ [a EXCEPT !.in = x, !.handled = y] = [[a EXCEPT !.in = x] EXCEPT !.handled = y]
         /\ [a EXCEPT !.in = x, !.l = y, !.b = z] = [[[a EXCEPT !.in = x] EXCEPT !.l = y] EXCEPT !.b = z]
         /\ [a EXCEPT !.in = x, !.b = y, !.handled = z] = [[[a EXCEPT !.in = x] EXCEPT !.b = y] EXCEPT !.handled = z]
  BY Zenon

LEMMA Put ==
  ASSUME NEW a, NEW x, NEW i, NEW l, NEW h, IsPlace(a, x, i, l, h), NEW y \in Stages
  PROVE  /\ IsPlace([a EXCEPT !.in = y], y, i, l, h)
         /\ \A n \in Nat : IsPlace([a EXCEPT !.in = y, !.i = n], y, n, l, h)
         /\ \A n \in Nat : IsPlace([a EXCEPT !.in = y, !.l = n], y, i, n, h)
         /\ \A b \in Browsers \cup {NoBrowser} :
              /\ IsPlace([a EXCEPT !.in = y, !.b = b], y, i, l, h)
              /\ \A n \in Nat : IsPlace([a EXCEPT !.in = y, !.l = n, !.b = b], y, i, n, h)
              /\ IsPlace([a EXCEPT !.in = y, !.b = b, !.handled = TRUE], y, i, l, TRUE)
         /\ IsPlace([a EXCEPT !.in = y, !.handled = TRUE], y, i, l, TRUE)
  <1>1. PICK p : p = [a EXCEPT !.in = y]
    OBVIOUS
  <1>2. IsPlace(p, y, i, l, h)
    <2>1. IsPlace([a EXCEPT !.in = y], y, i, l, h)
      BY OneField
    <2> QED BY <1>1, <2>1, Zenon
  <1>3. ASSUME NEW n \in Nat
        PROVE  IsPlace([p EXCEPT !.i = n], y, n, l, h) /\ IsPlace([p EXCEPT !.l = n], y, i, n, h)
    BY <1>2, OneField
  <1>4. IsPlace([p EXCEPT !.handled = TRUE], y, i, l, TRUE)
    BY <1>2, OneField
  <1>5. ASSUME NEW b \in Browsers \cup {NoBrowser}
        PROVE  /\ IsPlace([p EXCEPT !.b = b], y, i, l, h)
               /\ \A n \in Nat : IsPlace([[p EXCEPT !.l = n] EXCEPT !.b = b], y, i, n, h)
               /\ IsPlace([[p EXCEPT !.b = b] EXCEPT !.handled = TRUE], y, i, l, TRUE)
    <2>1. IsPlace([p EXCEPT !.b = b], y, i, l, h)
      BY <1>2, OneField, Zenon
    <2>2. ASSUME NEW n \in Nat PROVE IsPlace([[p EXCEPT !.l = n] EXCEPT !.b = b], y, i, n, h)
      BY <1>3, OneField, Zenon
    <2>3. IsPlace([[p EXCEPT !.b = b] EXCEPT !.handled = TRUE], y, i, l, TRUE)
      <3>1. PICK q : q = [p EXCEPT !.b = b]
        OBVIOUS
      <3>2. IsPlace(q, y, i, l, h)
        BY <2>1, <3>1, Zenon
      <3>3. IsPlace([q EXCEPT !.handled = TRUE], y, i, l, TRUE)
        BY <3>2, OneField
      <3> QED BY <3>1, <3>3, Zenon
    <2> QED BY <2>1, <2>2, <2>3, Zenon
  <1> QED BY <1>1, <1>2, <1>3, <1>4, <1>5, Split, Zenon

LEMMA BatchFacts ==
  ASSUME NEW s \in Batches
  PROVE  /\ s \in Seq(Event)
         /\ \A i, j \in 1..Len(s) : i # j => s[i].key # s[j].key
         /\ Len(s) \in Nat \ {0}
         /\ \A i \in 1..Len(s) : s[i] \in Events
  BY InputAssumption, SMT DEF Batches, Events

\* Everything the invariant speaks of.
Spoken == <<cur, batch, taken, at, focus, hosts, off, game>>

LEMMA IdleFacts ==
  /\ IsPlace(Idle, "idle", 0, 0, FALSE)
  /\ IsPlace([Idle EXCEPT !.in = "forward"], "forward", 0, 0, FALSE)
  /\ \A n \in Nat : IsPlace([Idle EXCEPT !.in = "toggle", !.i = n], "toggle", n, 0, FALSE)
  /\ \A b \in Browsers \cup {NoBrowser} :
       IsPlace([Idle EXCEPT !.in = "revoke", !.b = b], "revoke", 0, 0, FALSE)
  <1>1. IsPlace(Idle, "idle", 0, 0, FALSE)
    BY SMT DEF Idle, IsPlace, Places, Stages
  <1>2. {"forward", "toggle", "revoke"} \subseteq Stages
    BY DEF Stages
  <1> QED BY <1>1, <1>2, Put, Zenon

LEMMA InitInv == Init => IInv
  <1> SUFFICES ASSUME Init PROVE IInv
    OBVIOUS
  <1>1. IsPlace(at, "idle", 0, 0, FALSE)
    BY IdleFacts DEF Init
  <1>2. ~Routing /\ ~Dispatching
    BY <1>1 DEF Routing, Dispatching, IsPlace
  <1>3. Kinds
    <2>1. at \in Places /\ at.in = "idle" /\ at.i = 0
      BY <1>1 DEF IsPlace
    <2> QED BY <1>2, <2>1, InputAssumption DEF Kinds, Init
  <1>4. Polled
    BY SMT DEF Polled, Init
  <1>5. Sound
    BY <1>1, <1>2, SMT DEF Sound, Rested, Answered, Spared, Withheld, Offering, GameKeys, Init,
                           Past, IsPlace
  <1> QED BY <1>3, <1>4, <1>5 DEF IInv

\* The invariant speaks of the dispatch, the focus, the keyboard and the game.
LEMMA NotSpokenOf ==
  ASSUME IInv, UNCHANGED Spoken, raced' \in BOOLEAN, raced => raced'
  PROVE  IInv'
  <1>1. Kinds'
    BY Zenon DEF IInv, Kinds, Spoken, focus, Routing, Dispatching
  <1>2. Polled'
    BY Zenon DEF IInv, Polled, Spoken, focus
  <1>3. Sound => Sound'
    <2>1. Rested => Rested'
      BY Zenon DEF Rested, Spoken, focus, Routing, Dispatching, GameKeys
    <2>2. Answered => Answered'
      BY Zenon DEF Answered, Spoken, focus, Routing, Dispatching, GameKeys, Goes
    <2>3. Spared => Spared'
      BY Zenon DEF Spared, Spoken, focus, Routing, Dispatching, GameKeys, Past, Goes
    <2>4. Withheld => Withheld'
      BY Zenon DEF Withheld, Spoken, focus, Routing, Dispatching, Past, Goes
    <2>5. Offering => Offering'
      BY Zenon DEF Offering, Spoken, focus, Routing, Past, IsKey, Ev
    <2> QED BY <2>1, <2>2, <2>3, <2>4, <2>5 DEF Sound
  <1> QED BY <1>1, <1>2, <1>3 DEF IInv

-----------------------------------------------------------------------------
(* An event is decided on.                                                 *)

LEMMA NextEventPlace ==
  ASSUME Kinds, Routing, NEW t, NextEvent(t), UNCHANGED batch
  PROVE  /\ at' \in Places /\ Dispatching' /\ Past' = at.i /\ ~at'.handled
         /\ at'.in \in {"toggle", "forward"}
         /\ Routing' => at'.i \in 1..Len(batch)
  <1>1. CASE at.i = Len(batch)
    <2>1. IsPlace(at', "forward", 0, 0, FALSE)
      BY <1>1, IdleFacts DEF NextEvent
    <2> QED BY <2>1, <1>1 DEF IsPlace, Dispatching, Routing, Past
  <1>2. CASE at.i # Len(batch)
    <2>1. at.i \in Nat /\ at.i + 1 \in Nat
      BY SMT DEF Kinds, Places
    <2>2. at' = [Idle EXCEPT !.in = "toggle", !.i = at.i + 1]
      BY <1>2 DEF NextEvent
    <2>3. IsPlace(at', "toggle", at.i + 1, 0, FALSE)
      BY <2>1, <2>2, IdleFacts
    <2> QED BY <1>2, <2>1, <2>3, SMT DEF IsPlace, Dispatching, Routing, Past, Kinds
  <1> QED BY <1>1, <1>2

LEMMA EventDecided ==
  ASSUME IInv, Routing, NEW t \in BOOLEAN, NextEvent(t),
         UNCHANGED <<cur, batch, owner, game, off, hosts, raced>>,
         t /\ Ev.act = "up" => Ev.key \notin GameKeys,
         owner # NoBrowser /\ IsKey /\ Ev.act = "down" /\ ~raced => t,
         opening' = opening \/ (Ev.act = "up" /\ opening' = opening \ {Ev.key})
  PROVE  IInv'
  <1>1. /\ at' \in Places /\ Dispatching' /\ Past' = at.i /\ ~at'.handled
        /\ at'.in \in {"toggle", "forward"}
        /\ Routing' => at'.i \in 1..Len(batch)
    BY NextEventPlace DEF IInv
  <1>2. Kinds'
    BY <1>1 DEF IInv, Kinds
  <1>3. Polled'
    BY DEF IInv, Polled
  <1>4. ASSUME ~raced' PROVE Sound'
    <2>1. Sound /\ ~off /\ at.i \in 1..Len(batch) /\ Len(batch) \in Nat /\ Past = at.i - 1
      BY <1>4, SMT DEF IInv, Kinds, Polled, Past, Routing
    <2>2. taken' = IF t THEN taken \cup {at.i} ELSE taken
      BY DEF NextEvent
    <2>3. Rested'
      BY <1>1 DEF Rested
    <2>4. Answered'
      BY <2>1 DEF Sound, Answered, Dispatching, GameKeys, Goes
    <2>5. Spared'
      <3> SUFFICES ASSUME NEW k \in GameKeys
                   PROVE  /\ \A i \in 1..at.i : Goes(i, "up", k) => i \notin taken'
                          /\ owner # NoBrowser =>
                               k \in opening' \/ \E i \in 1..at.i : Goes(i, "up", k)
        BY <1>1, <2>1 DEF Spared, GameKeys, Goes
      <3>1. /\ \A i \in 1..Past : Goes(i, "up", k) => i \notin taken
            /\ owner # NoBrowser => k \in opening \/ \E i \in 1..Past : Goes(i, "up", k)
        BY <2>1 DEF Sound, Spared, Dispatching
      <3>2. Goes(at.i, "up", k) => ~t
        BY DEF Goes, Ev
      <3>3. \A i \in 1..at.i : Goes(i, "up", k) => i \notin taken'
        <4> SUFFICES ASSUME NEW i \in 1..at.i, Goes(i, "up", k) PROVE i \notin taken'
          OBVIOUS
        <4>1. CASE i = at.i
          <5>1. ~t /\ at.i \notin 1..Past
            BY <4>1, <2>1, <3>2
          <5> QED BY <4>1, <5>1, <2>1, <2>2 DEF Sound, Offering
        <4>2. CASE i # at.i
          BY <4>2, <2>1, <2>2, <3>1, SMT
        <4> QED BY <4>1, <4>2
      <3>4. ASSUME owner # NoBrowser
            PROVE  k \in opening' \/ \E i \in 1..at.i : Goes(i, "up", k)
        <4>1. CASE k \in opening'
          BY <4>1
        <4>2. CASE k \in opening /\ k \notin opening'
          BY <4>2, <2>1, SMT DEF Goes, Ev
        <4>3. CASE \E i \in 1..Past : Goes(i, "up", k)
          BY <4>3, <2>1, SMT
        <4> QED BY <4>1, <4>2, <4>3, <3>1, <3>4
      <3> QED BY <3>3, <3>4
    <2>6. Withheld'
      <3> SUFFICES ASSUME owner # NoBrowser, NEW i \in 1..at.i,
                          batch[i].key \in Keys, batch[i].act = "down"
                   PROVE  i \in taken'
        BY <1>1, <2>1 DEF Withheld
      <3>1. CASE i = at.i
        BY <3>1, <1>4, <2>2 DEF IsKey, Ev
      <3>2. CASE i # at.i
        BY <3>2, <2>1, <2>2, SMT DEF Sound, Withheld, Dispatching
      <3> QED BY <3>1, <3>2
    <2>7. Offering'
      <3>1. \A j \in taken' : j \in 1..at.i
        BY <2>1, <2>2, SMT DEF Sound, Offering
      <3>2. taken' \subseteq 1..Past'
        BY <3>1, <1>1
      <3> QED BY <3>2, <1>1, <2>1 DEF Offering
    <2> QED BY <2>3, <2>4, <2>5, <2>6, <2>7 DEF Sound
  <1> QED BY <1>2, <1>3, <1>4 DEF IInv

-----------------------------------------------------------------------------
(* The dispatch.                                                           *)

LEMMA AtPlace ==
  ASSUME Kinds, NEW y \in Stages
  PROVE  /\ IsPlace([at EXCEPT !.in = y], y, at.i, at.l, at.handled)
         /\ \A n \in Nat : IsPlace([at EXCEPT !.in = y, !.l = n], y, at.i, n, at.handled)
         /\ \A b \in Browsers \cup {NoBrowser} :
              /\ IsPlace([at EXCEPT !.in = y, !.b = b], y, at.i, at.l, at.handled)
              /\ \A n \in Nat :
                   IsPlace([at EXCEPT !.in = y, !.l = n, !.b = b], y, at.i, n, at.handled)
              /\ IsPlace([at EXCEPT !.in = y, !.b = b, !.handled = TRUE], y, at.i, at.l, TRUE)
         /\ IsPlace([at EXCEPT !.in = y, !.handled = TRUE], y, at.i, at.l, TRUE)
  <1>1. IsPlace(at, at.in, at.i, at.l, at.handled)
    BY DEF Kinds, IsPlace
  <1> QED BY <1>1, Put, Zenon

LEMMA StagesThere ==
  {"layer", "send", "note", "opening", "revoke", "leave", "reset"} \subseteq Stages
  BY DEF Stages

\* OnFocusRevoked goes on to its next step.
LEMMA StillPlace ==
  ASSUME Kinds
  PROVE  \E y \in {"leave", "reset"} :
           /\ StillRevoking(at) = [at EXCEPT !.in = y]
           /\ IsPlace(StillRevoking(at), y, at.i, at.l, at.handled)
           /\ y = "leave" => at.in = "revoke" /\ at.b \in hosts
           /\ y = "reset" => at.in # "revoke" \/ at.b \notin hosts
  <1>1. PICK y \in {"leave", "reset"} :
           /\ y = IF at.in = "revoke" /\ at.b \in hosts THEN "leave" ELSE "reset"
    OBVIOUS
  <1>2. StillRevoking(at) = [at EXCEPT !.in = y]
    BY <1>1, Zenon DEF StillRevoking
  <1>3. IsPlace([at EXCEPT !.in = y], y, at.i, at.l, at.handled)
    BY <1>1, AtPlace, StagesThere
  <1> QED BY <1>1, <1>2, <1>3

LEMMA PollKeeps ==
  ASSUME IInv, Poll PROVE IInv'
  <1>1. PICK s \in Batches : /\ batch' = s
                             /\ cur' = (cur \ Keyed(s, "up")) \cup Keyed(s, "down")
    BY DEF Poll
  <1>2. /\ s \in Seq(Event) /\ Len(s) \in Nat \ {0}
        /\ \A i, j \in 1..Len(s) : i # j => s[i].key # s[j].key
        /\ \A i \in 1..Len(s) : s[i] \in Events
        /\ DOMAIN s = 1..Len(s)
    BY BatchFacts, SMT
  <1>3. at = Idle /\ IsPlace(at, "idle", 0, 0, FALSE) /\ taken' = {}
        /\ UNCHANGED <<owner, opening, hosts, off, game, raced>>
    BY IdleFacts, Zenon DEF Poll, focus, ends
  <1>4. IF off THEN IsPlace(at', "forward", 0, 0, FALSE) ELSE IsPlace(at', "toggle", 1, 0, FALSE)
    BY IdleFacts DEF Poll
  <1>5. /\ Dispatching' /\ ~Dispatching
        /\ off => ~Routing'
        /\ ~off => at'.i = 1 /\ Past' = 0 /\ at'.in = "toggle"
        /\ Routing' => ~at'.handled
    BY <1>3, <1>4, SMT DEF IsPlace, Dispatching, Routing, Past
  <1>6. \A i \in 1..Len(s) : s[i].act = "down" => s[i].key \in cur'
    BY <1>1, <1>2, SMT DEF Keyed
  <1>7. Kinds'
    <2>1. cur' \subseteq Keys \cup {Button}
      <3>1. \A i \in 1..Len(s) : s[i].act = "down" => s[i].key \in Keys \cup {Button}
        BY <1>2, SMT DEF Events
      <3>2. Keyed(s, "down") \subseteq Keys \cup {Button}
        BY <1>2, <3>1 DEF Keyed
      <3> QED BY <1>1, <3>2 DEF IInv, Kinds
    <2>2. at' \in Places
      BY <1>4 DEF IsPlace
    <2>3. Routing' => ~off /\ at'.i \in 1..Len(s)
      BY <1>2, <1>5, SMT DEF IInv, Kinds
    <2>4. at'.in \in {"forward", "toggle"}
      BY <1>4 DEF IsPlace
    <2> QED BY <1>1, <1>3, <1>5, <2>1, <2>2, <2>3, <2>4 DEF IInv, Kinds
  <1>8. Polled'
    BY <1>1, <1>2, <1>6 DEF Polled
  <1>9. ASSUME ~raced' PROVE Sound'
    <2>1. Sound /\ GameKeys \subseteq cur
      BY <1>3, <1>5, <1>9 DEF IInv, Sound, Rested
    <2>2. Rested'
      BY <1>5 DEF Rested
    <2>3. Answered'
      <3> SUFFICES ASSUME NEW k \in GameKeys, k \notin cur'
                   PROVE  \E i \in 1..Len(s) : Goes(i, "up", k)'
        BY <1>1, <1>3, Zenon DEF Answered, GameKeys
      <3>1. k \in Keyed(s, "up")
        BY <1>1, <2>1
      <3> QED BY <1>1, <1>2, <3>1 DEF Keyed, Goes
    <2>4. Spared'
      <3> SUFFICES ASSUME NEW k \in GameKeys
                   PROVE  owner # NoBrowser /\ ~off => k \in opening
        BY <1>3, Zenon DEF Spared, GameKeys
      <3> QED BY <1>5, <2>1 DEF Sound, Rested
    <2>5. Withheld'
      BY <1>3, <1>5, SMT DEF Withheld
    <2>6. Offering'
      BY <1>3, <1>4, <1>5 DEF Offering, Routing, IsPlace
    <2> QED BY <2>2, <2>3, <2>4, <2>5, <2>6 DEF Sound
  <1> QED BY <1>7, <1>8, <1>9 DEF IInv

\* A step within the handling of one event.
LEMMA SameEvent ==
  ASSUME IInv, Routing, UNCHANGED <<cur, batch, taken, off, hosts, game>>,
         at' \in Places, at'.i = at.i,
         at'.in \in {"layer", "send", "note", "opening", "revoke", "leave", "reset"},
         UNCHANGED <<owner, opening>> \/ GiveUpFocus, raced' \in BOOLEAN, raced => raced',
         at'.in = "layer" => at'.l \in 1..Len(Layers),
         ~raced' =>
           /\ at'.handled => at'.in = "opening" /\ owner' # NoBrowser
           /\ at'.in \in {"revoke", "leave", "reset"} => owner' = NoBrowser
           /\ at'.in \in {"send", "note"} => owner' # NoBrowser
           /\ IsKey /\ owner' # NoBrowser =>
                /\ at'.in = "layer" => \E m \in 1..Len(Layers) : m >= at'.l /\ Layers[m] = owner
                /\ at'.in = "opening" => at'.handled
  PROVE  IInv'
  <1>1. Routing' /\ Dispatching' /\ Dispatching /\ Past' = Past /\ Ev' = Ev /\ (IsKey <=> IsKey')
    BY SMT DEF IInv, Kinds, Routing, Dispatching, Past, Ev, IsKey
  <1>2. Kinds'
    BY <1>1 DEF IInv, Kinds, GiveUpFocus
  <1>3. Polled'
    BY DEF IInv, Polled
  <1>4. ASSUME ~raced' PROVE Sound'
    <2>1. Sound
      BY <1>4 DEF IInv
    <2>2. Rested' /\ (owner' # NoBrowser => owner' = owner /\ opening' = opening)
      BY <1>1 DEF Rested, GiveUpFocus
    <2>3. Answered'
      BY <1>1, <2>1 DEF Sound, Answered, GameKeys, Goes
    <2>4. Spared'
      BY <1>1, <2>1, <2>2 DEF Sound, Spared, GameKeys, Goes
    <2>5. Withheld'
      BY <1>1, <2>1, <2>2 DEF Sound, Withheld
    <2>6. Offering'
      BY <1>1, <1>4, <2>1, <2>2 DEF Sound, Offering
    <2> QED BY <2>2, <2>3, <2>4, <2>5, <2>6 DEF Sound
  <1> QED BY <1>2, <1>3, <1>4 DEF IInv

LEMMA ToggleKeeps ==
  ASSUME IInv, ProcessToggleKeys PROVE IInv'
  <1>1. at.in = "toggle" /\ Routing /\ Kinds
        /\ UNCHANGED <<cur, batch, owner, opening, hosts, off, game, raced>>
    BY Zenon DEF ProcessToggleKeys, Routing, focus, ends, IInv
  <1>2. CASE IsKey /\ Ev.act = "down" /\ Toggled # {}
    <2>1. NextEvent(TRUE)
      BY <1>2 DEF ProcessToggleKeys
    <2> QED BY <1>1, <1>2, <2>1, EventDecided
  <1>3. CASE ~(IsKey /\ Ev.act = "down" /\ Toggled # {})
    <2>1. at' = [at EXCEPT !.in = "layer", !.l = 1] /\ taken' = taken
      BY <1>3 DEF ProcessToggleKeys
    <2>2. IsPlace(at', "layer", at.i, 1, at.handled)
      BY <1>1, <2>1, AtPlace, StagesThere, Zenon
    <2>3. at' \in Places /\ at'.in = "layer" /\ at'.i = at.i /\ at'.l = 1 /\ at'.handled = at.handled
      BY <2>2 DEF IsPlace
    <2>4. owner \in Browsers \cup {NoBrowser} /\ 1 \in 1..Len(Layers)
      BY <1>1, InputAssumption, SMT DEF Kinds
    <2>5. owner # NoBrowser => \E m \in 1..Len(Layers) : m >= 1 /\ Layers[m] = owner
      BY <2>4, SMT DEF Browsers
    <2>6. ~raced => ~at.handled
      BY <1>1 DEF IInv, Sound, Offering
    <2>7. raced \in BOOLEAN
      BY <1>1 DEF Kinds
    <2> HIDE DEF Places
    <2> QED BY <1>1, <2>1, <2>3, <2>4, <2>5, <2>6, <2>7, SameEvent
  <1> QED BY <1>2, <1>3

LEMMA NextLayerPlace ==
  ASSUME Kinds, NextLayer, at.l \in Nat
  PROVE  IF at.l < Len(Layers) THEN IsPlace(at', "layer", at.i, at.l + 1, at.handled)
                               ELSE IsPlace(at', "opening", at.i, at.l, at.handled)
  <1>1. at.l + 1 \in Nat
    OBVIOUS
  <1>2. IsPlace([at EXCEPT !.in = "layer", !.l = at.l + 1], "layer", at.i, at.l + 1, at.handled)
    BY <1>1, AtPlace, StagesThere, Zenon
  <1>3. IsPlace([at EXCEPT !.in = "opening"], "opening", at.i, at.l, at.handled)
    BY AtPlace, StagesThere, Zenon
  <1> QED BY <1>2, <1>3, Zenon DEF NextLayer

LEMMA NextLayerKeeps ==
  ASSUME IInv, at.in = "layer" \/ (at.in = "reset" /\ at.i > 0), at.l \in Nat,
         UNCHANGED <<cur, batch, taken, off, hosts, game, focus, raced>>,
         IF at.l < Len(Layers) THEN IsPlace(at', "layer", at.i, at.l + 1, at.handled)
                               ELSE IsPlace(at', "opening", at.i, at.l, at.handled),
         ~raced /\ IsKey => owner = NoBrowser \/ (at.in = "layer" /\ owner # Layers[at.l])
  PROVE  IInv'
  <1>1. Routing /\ raced \in BOOLEAN
    BY DEF Routing, IInv, Kinds
  <1>2. at' \in Places /\ at'.i = at.i /\ at'.handled = at.handled /\ at'.in \in {"layer", "opening"}
    BY DEF IsPlace
  <1>3. at'.in = "layer" => at'.l = at.l + 1 /\ at'.l \in 1..Len(Layers)
    <2>1. Len(Layers) \in Nat
      BY InputAssumption
    <2> QED BY <2>1, SMT DEF IsPlace
  <1>4. ASSUME ~raced
        PROVE  /\ ~at.handled
               /\ IsKey /\ owner # NoBrowser => at'.in = "layer"
                    /\ \E m \in 1..Len(Layers) : m >= at.l + 1 /\ Layers[m] = owner
    <2>1. ~at.handled
      BY <1>1, <1>4 DEF IInv, Sound, Offering
    <2>2. ASSUME IsKey, owner # NoBrowser
          PROVE  at'.in = "layer" /\ \E m \in 1..Len(Layers) : m >= at.l + 1 /\ Layers[m] = owner
      <3>1. at.in = "layer" /\ owner # Layers[at.l]
        BY <1>4, <2>2
      <3>2. PICK m \in 1..Len(Layers) : m >= at.l /\ Layers[m] = owner
        BY <1>1, <1>4, <2>2, <3>1 DEF IInv, Sound, Offering
      <3>3. m >= at.l + 1 /\ at.l < Len(Layers)
        BY <3>1, <3>2, InputAssumption, SMT
      <3> QED BY <3>2, <3>3 DEF IsPlace
    <2> QED BY <2>1, <2>2
  <1>5. owner' = owner /\ opening' = opening
    BY DEF focus
  <1> HIDE DEF Places
  <1> QED BY <1>1, <1>2, <1>3, <1>4, <1>5, SameEvent

LEMMA LayerKeeps ==
  ASSUME IInv, Layer PROVE IInv'
  <1> DEFINE b == Layers[at.l]
  <1>1. at.in = "layer" /\ Routing /\ Kinds /\ at.l \in 1..Len(Layers)
        /\ UNCHANGED <<cur, batch, taken, hosts, off, game>>
    BY Zenon DEF Layer, Routing, ends, IInv, Kinds
  <1>2. b \in Browsers /\ b # NoBrowser /\ at.l \in Nat
    BY <1>1, InputAssumption, SMT
  <1>3. raced \in BOOLEAN /\ (~raced => ~at.handled)
    BY <1>1 DEF IInv, Sound, Offering, Kinds
  <1>4. ASSUME NextLayer, UNCHANGED <<focus, raced>>,
               ~raced /\ IsKey => owner # Layers[at.l]
        PROVE  IInv'
    <2>1. IF at.l < Len(Layers) THEN IsPlace(at', "layer", at.i, at.l + 1, at.handled)
                                ELSE IsPlace(at', "opening", at.i, at.l, at.handled)
      BY <1>1, <1>2, <1>4, NextLayerPlace
    <2> QED BY <1>1, <1>2, <1>4, <2>1, NextLayerKeeps
  <1>5. CASE /\ b \in stopped \/ owner # b
             /\ NextLayer /\ raced' = (raced \/ owner = b) /\ UNCHANGED focus
    <2>1. CASE owner # b
      <3>1. raced' = raced
        BY <1>3, <1>5, <2>1
      <3> QED BY <1>4, <1>5, <2>1, <3>1
    <2>2. CASE owner = b
      <3>1. raced' = TRUE
        BY <1>5, <2>2
      <3>2. IF at.l < Len(Layers) THEN IsPlace(at', "layer", at.i, at.l + 1, at.handled)
                                  ELSE IsPlace(at', "opening", at.i, at.l, at.handled)
        BY <1>1, <1>2, <1>5, NextLayerPlace
      <3>3. at' \in Places /\ at'.i = at.i /\ at'.in \in {"layer", "opening"}
        BY <3>2 DEF IsPlace
      <3>4. at'.in = "layer" => at'.l \in 1..Len(Layers)
        BY <1>1, <1>2, <3>2, InputAssumption, SMT DEF IsPlace
      <3>5. owner' = owner /\ opening' = opening
        BY <1>5 DEF focus
      <3> HIDE DEF Places
      <3> QED BY <1>1, <3>1, <3>3, <3>4, <3>5, SameEvent
    <2> QED BY <2>1, <2>2
  <1>6. CASE b \notin stopped /\ owner = b /\ UNCHANGED <<raced, focus>> /\ Offered(b)
    <2>1. CASE Ev.key = Button /\ Ev.act = "held"
      <3>1. at' = [at EXCEPT !.in = "opening", !.handled = TRUE]
        BY <1>6, <2>1 DEF Offered
      <3>2. IsPlace(at', "opening", at.i, at.l, TRUE)
        BY <1>1, <3>1, AtPlace, StagesThere, Zenon
      <3>3. at' \in Places /\ at'.i = at.i /\ at'.in = "opening" /\ at'.handled
        BY <3>2 DEF IsPlace
      <3>4. owner' = owner /\ opening' = opening /\ raced' = raced
        BY <1>6 DEF focus
      <3> HIDE DEF Places
      <3> QED BY <1>1, <1>2, <1>3, <1>6, <3>3, <3>4, SameEvent
    <2>2. CASE ~(Ev.key = Button /\ Ev.act = "held") /\ Ev.key = Button /\ ~Ev.over
      <3>1. NextLayer
        BY <1>6, <2>2 DEF Offered
      <3>2. ~IsKey
        BY <2>2, InputAssumption DEF IsKey
      <3> QED BY <1>4, <1>6, <3>1, <3>2
    <2>3. CASE ~(Ev.key = Button /\ Ev.act = "held") /\ ~(Ev.key = Button /\ ~Ev.over)
      <3>1. at' = [at EXCEPT !.in = "send", !.b = b]
        BY <1>6, <2>3, Zenon DEF Offered
      <3>2. IsPlace(at', "send", at.i, at.l, at.handled)
        BY <1>1, <1>2, <3>1, AtPlace, StagesThere, Zenon
      <3>3. at' \in Places /\ at'.i = at.i /\ at'.in = "send" /\ at'.handled = at.handled
        BY <3>2 DEF IsPlace
      <3>4. owner' = owner /\ opening' = opening /\ raced' = raced
        BY <1>6 DEF focus
      <3> HIDE DEF Places
      <3> QED BY <1>1, <1>2, <1>3, <1>6, <3>3, <3>4, SameEvent
    <2> QED BY <2>1, <2>2, <2>3
  <1>7. CASE /\ b \notin stopped /\ owner = b /\ UNCHANGED raced
             /\ b \notin hosts /\ GiveUpFocus /\ at' = [at EXCEPT !.in = "revoke", !.b = b]
    <2>1. IsPlace(at', "revoke", at.i, at.l, at.handled)
      BY <1>1, <1>2, <1>7, AtPlace, StagesThere, Zenon
    <2>2. at' \in Places /\ at'.i = at.i /\ at'.in = "revoke" /\ at'.handled = at.handled
      BY <2>1 DEF IsPlace
    <2>3. owner' = NoBrowser /\ raced' = raced
      BY <1>7 DEF GiveUpFocus
    <2> HIDE DEF Places
    <2> QED BY <1>1, <1>3, <1>7, <2>2, <2>3, SameEvent
  <1> QED BY <1>5, <1>6, <1>7, Zenon DEF Layer

\* The owner has handled the event.
LEMMA EventHandled ==
  ASSUME IInv, at.in \in {"send", "note"},
         UNCHANGED <<cur, batch, taken, owner, opening, hosts, off, game, raced>>,
         at' = [at EXCEPT !.in = "opening", !.b = NoBrowser, !.handled = TRUE]
  PROVE  IInv'
  <1>1. Routing /\ Kinds
    BY DEF Routing, IInv
  <1>2. IsPlace(at', "opening", at.i, at.l, TRUE)
    BY <1>1, AtPlace, StagesThere, Zenon
  <1>3. at' \in Places /\ at'.i = at.i /\ at'.in = "opening" /\ at'.handled
    BY <1>2 DEF IsPlace
  <1>4. raced \in BOOLEAN /\ (~raced => owner # NoBrowser)
    BY <1>1 DEF IInv, Kinds, Sound, Offering
  <1> HIDE DEF Places
  <1> QED BY <1>1, <1>3, <1>4, SameEvent

LEMMA ProcessEventKeeps ==
  ASSUME IInv, ProcessEvent PROVE IInv'
  <1>1. at.in = "send" /\ Routing /\ Kinds
        /\ UNCHANGED <<cur, batch, taken, owner, opening, hosts, off, game, raced>>
    BY Zenon DEF ProcessEvent, Routing, focus, ends, IInv
  <1>2. CASE Ev.key = Mouse
    <2>1. at' = [at EXCEPT !.in = "note"]
      BY <1>2 DEF ProcessEvent
    <2>2. IsPlace(at', "note", at.i, at.l, at.handled)
      BY <1>1, <2>1, AtPlace, StagesThere, Zenon
    <2>3. at' \in Places /\ at'.i = at.i /\ at'.in = "note" /\ at'.handled = at.handled
      BY <2>2 DEF IsPlace
    <2>4. raced \in BOOLEAN /\ (~raced => owner # NoBrowser /\ ~at.handled)
      BY <1>1 DEF IInv, Kinds, Sound, Offering
    <2> HIDE DEF Places
    <2> QED BY <1>1, <2>3, <2>4, SameEvent
  <1>3. CASE Ev.key # Mouse
    <2>1. at' = [at EXCEPT !.in = "opening", !.b = NoBrowser, !.handled = TRUE]
      BY <1>3 DEF ProcessEvent
    <2> QED BY <1>1, <2>1, EventHandled
  <1> QED BY <1>2, <1>3

LEMMA NoteKeeps ==
  ASSUME IInv, NoteMouse PROVE IInv'
  <1>1. at.in = "note"
        /\ UNCHANGED <<cur, batch, taken, owner, opening, hosts, off, game, raced>>
        /\ at' = [at EXCEPT !.in = "opening", !.b = NoBrowser, !.handled = TRUE]
    BY Zenon DEF NoteMouse, focus, ends
  <1> QED BY <1>1, EventHandled

LEMMA OpeningKeeps ==
  ASSUME IInv, ConsumeOpeningKeyRelease PROVE IInv'
  <1>1. at.in = "opening" /\ Routing /\ Kinds /\ Polled
        /\ UNCHANGED <<cur, batch, owner, hosts, off, game, raced>>
    BY Zenon DEF ConsumeOpeningKeyRelease, Routing, ends, IInv
  <1>2. at.i \in 1..Len(batch) /\ at.handled \in BOOLEAN /\ ~off
    BY <1>1, SMT DEF Kinds, Places
  <1>3. CASE IsKey /\ Ev.act = "up" /\ Ev.key \in opening
    <2>1. opening' = opening \ {Ev.key} /\ NextEvent(FALSE)
      BY <1>3 DEF ConsumeOpeningKeyRelease
    <2> QED BY <1>1, <1>3, <2>1, EventDecided
  <1>4. CASE ~(IsKey /\ Ev.act = "up" /\ Ev.key \in opening)
    <2>1. opening' = opening /\ NextEvent(at.handled)
      BY <1>4 DEF ConsumeOpeningKeyRelease
    <2>2. CASE raced
      <3>1. Kinds' /\ Polled'
        <4>1. /\ at' \in Places /\ Dispatching' /\ at'.in \in {"toggle", "forward"}
              /\ Routing' => at'.i \in 1..Len(batch)
          BY <1>1, <2>1, NextEventPlace
        <4> QED BY <1>1, <1>2, <2>1, <4>1 DEF Kinds, Polled
      <3> QED BY <1>1, <2>2, <3>1 DEF IInv
    <2>3. CASE ~raced
      <3>1. Sound /\ Dispatching /\ Past = at.i - 1
        BY <1>1, <2>3 DEF IInv, Dispatching, Past
      <3>2. ASSUME at.handled, Ev.act = "up", Ev.key \in GameKeys PROVE FALSE
        <4>1. owner # NoBrowser /\ IsKey
          BY <1>1, <3>1, <3>2 DEF Sound, Offering, GameKeys, IsKey
        <4>2. Ev.key \notin opening
          BY <1>4, <3>2, <4>1
        <4>3. PICK i \in 1..Past : Goes(i, "up", Ev.key)
          BY <1>2, <3>1, <3>2, <4>1, <4>2 DEF Sound, Spared
        <4>4. i \in 1..Len(batch) /\ i # at.i
          BY <1>2, <3>1, <4>3, SMT
        <4> QED BY <1>1, <1>2, <4>3, <4>4 DEF Polled, Goes, Ev
      <3>3. owner # NoBrowser /\ IsKey => at.handled
        BY <1>1, <3>1 DEF Sound, Offering
      <3> QED BY <1>1, <1>2, <2>1, <3>2, <3>3, EventDecided
    <2> QED BY <2>2, <2>3
  <1> QED BY <1>3, <1>4

LEMMA ForwardKeeps ==
  ASSUME IInv, Forward PROVE IInv'
  <1>1. at.in = "forward" /\ Dispatching /\ Kinds /\ Polled /\ batch' = <<>> /\ taken' = {}
        /\ game' = (game \ Seen("up")) \cup Seen("down")
        /\ UNCHANGED <<cur, owner, opening, hosts, off, raced>>
    BY Zenon DEF Forward, Dispatching, focus, ends, IInv
  <1>2. IsPlace(at', "idle", 0, 0, FALSE)
    BY IdleFacts DEF Forward
  <1>3. /\ at' \in Places /\ at'.in = "idle" /\ at'.i = 0 /\ ~at'.handled
        /\ ~Routing' /\ ~Dispatching'
    BY <1>2 DEF IsPlace, Routing, Dispatching
  <1>4. Kinds'
    BY <1>1, <1>3 DEF Kinds
  <1>5. Polled'
    BY <1>1 DEF Polled
  <1>6. ASSUME ~raced' PROVE Sound'
    <2>1. Sound /\ Past = Len(batch)
      BY <1>1, <1>6 DEF IInv, Past
    <2>2. DOMAIN batch = 1..Len(batch)
      BY <1>1, SMT DEF Polled
    <2>3. ASSUME NEW k \in GameKeys'
          PROVE  k \in cur /\ (owner # NoBrowser /\ ~off => k \in opening)
      <3>1. k \in Keys
        BY DEF GameKeys
      <3>2. CASE k \in Seen("down")
        <4>1. PICK i \in 1..Len(batch) : i \notin taken /\ Goes(i, "down", k)
          BY <2>2, <3>2 DEF Seen, Forwarded, Goes
        <4> QED BY <1>1, <2>1, <3>1, <4>1 DEF Polled, Goes, Sound, Withheld
      <3>3. CASE k \in GameKeys /\ k \notin Seen("up")
        <4>1. \A i \in 1..Len(batch) : Goes(i, "up", k) => i \in taken
          BY <2>2, <3>3 DEF Seen, Forwarded, Goes
        <4>2. \A i \in 1..Len(batch) : ~Goes(i, "up", k)
          BY <1>1, <2>1, <3>3, <4>1 DEF Sound, Spared
        <4> QED BY <1>1, <2>1, <3>3, <4>2 DEF Sound, Answered, Spared
      <3> QED BY <1>1, <3>1, <3>2, <3>3 DEF GameKeys
    <2>4. Rested'
      BY <1>1, <2>3 DEF Rested
    <2>5. Answered' /\ Spared' /\ Withheld'
      BY <1>3 DEF Answered, Spared, Withheld
    <2>6. Offering'
      BY <1>1, <1>3 DEF Offering
    <2> QED BY <2>4, <2>5, <2>6 DEF Sound
  <1> QED BY <1>4, <1>5, <1>6 DEF IInv

LEMMA RevokedInWalkKeeps ==
  ASSUME IInv, RevokedInWalk PROVE IInv'
  <1>1. at.in \in {"revoke", "leave", "reset"} /\ at.i > 0 /\ Routing /\ Kinds /\ at.l \in Nat
        /\ UNCHANGED <<cur, batch, taken, focus, hosts, off, game, raced>>
    BY SMT DEF RevokedInWalk, Revoking, Routing, focus, ends, IInv, Kinds, Places
  <1>2. raced \in BOOLEAN /\ (~raced => owner = NoBrowser /\ ~at.handled)
    BY <1>1 DEF IInv, Kinds, Sound, Offering
  <1>3. CASE at.in = "reset"
    <2>1. NoBrowser \in Browsers \cup {NoBrowser} /\ at.l + 1 \in Nat
      BY <1>1
    <2>2. IsPlace([at EXCEPT !.in = "layer", !.l = at.l + 1, !.b = NoBrowser],
                  "layer", at.i, at.l + 1, at.handled)
      BY <1>1, <2>1, AtPlace, StagesThere, Zenon
    <2>3. IsPlace([at EXCEPT !.in = "opening", !.b = NoBrowser], "opening", at.i, at.l, at.handled)
      BY <1>1, <2>1, AtPlace, StagesThere, Zenon
    <2>4. IF at.l < Len(Layers) THEN IsPlace(at', "layer", at.i, at.l + 1, at.handled)
                                ELSE IsPlace(at', "opening", at.i, at.l, at.handled)
      BY <1>3, <2>2, <2>3, Zenon DEF RevokedInWalk
    <2> QED BY <1>1, <1>2, <1>3, <2>4, NextLayerKeeps
  <1>4. CASE at.in # "reset"
    <2>1. at' = StillRevoking(at)
      BY <1>4 DEF RevokedInWalk
    <2>2. PICK y \in {"leave", "reset"} : IsPlace(at', y, at.i, at.l, at.handled)
      BY <1>1, <2>1, StillPlace
    <2>3. /\ at' \in Places /\ at'.i = at.i /\ at'.in \in {"leave", "reset"}
          /\ at'.handled = at.handled
      BY <2>2 DEF IsPlace
    <2>4. owner' = owner /\ opening' = opening
      BY <1>1 DEF focus
    <2> HIDE DEF Places
    <2> QED BY <1>1, <1>2, <2>3, <2>4, SameEvent
  <1> QED BY <1>3, <1>4

-----------------------------------------------------------------------------
(* Outside a dispatch.                                                     *)

\* The focus changes hands, or not, and no dispatch begins.
LEMMA RestKeeps ==
  ASSUME IInv, ~Dispatching, UNCHANGED <<cur, batch, taken, hosts, game, raced>>,
         at' \in Places, at'.in \in {"idle", "revoke", "leave", "reset"}, at'.i = 0,
         off' \in BOOLEAN, off => off',
         owner' \in Browsers \cup {NoBrowser},
         \/ opening' = opening /\ (owner # NoBrowser \/ owner' = NoBrowser)
         \/ opening' = {} /\ owner' = NoBrowser
         \/ opening' = cur \cap Keys
  PROVE  IInv'
  <1>1. ~Routing' /\ ~Dispatching'
    BY DEF Routing, Dispatching
  <1>2. Kinds' /\ Polled'
    BY <1>1 DEF IInv, Kinds, Polled
  <1>3. ASSUME ~raced' PROVE Sound'
    <2>1. Sound
      BY <1>3 DEF IInv
    <2>2. Rested'
      BY <1>1, <2>1 DEF Sound, Rested, GameKeys, IInv, Kinds
    <2>3. Answered' /\ Spared' /\ Withheld'
      BY <1>1 DEF Answered, Spared, Withheld
    <2>4. Offering'
      <3>1. at.i = 0 /\ Past = 0 - 1 /\ Past' = 0 - 1
        BY SMT DEF IInv, Kinds, Dispatching, Past
      <3>2. taken = {}
        BY <2>1, <3>1, SMT DEF Sound, Offering
      <3> QED BY <1>1, <3>2 DEF Offering, Routing
    <2> QED BY <2>2, <2>3, <2>4 DEF Sound
  <1> QED BY <1>2, <1>3 DEF IInv

LEMMA RunTaskKeeps ==
  ASSUME IInv, NEW b \in Browsers, RunTask(b) PROVE IInv'
  <1>1. /\ at = Idle /\ UNCHANGED <<cur, batch, taken, hosts, off, game, raced>>
        /\ owner \in Browsers \cup {NoBrowser} /\ off \in BOOLEAN
    BY Zenon DEF RunTask, ends, IInv, Kinds
  <1>2. ~Dispatching
    BY <1>1, IdleFacts DEF Dispatching, Routing, IsPlace
  <1>3. at' = Idle \/ \E c \in Browsers \cup {NoBrowser} : at' = [Idle EXCEPT !.in = "revoke", !.b = c]
    BY <1>1, Zenon DEF RunTask
  <1>4. at' \in Places /\ at'.in \in {"idle", "revoke"} /\ at'.i = 0
    <2>1. CASE at' = Idle
      BY <2>1, IdleFacts DEF IsPlace
    <2>2. ASSUME NEW c \in Browsers \cup {NoBrowser}, at' = [Idle EXCEPT !.in = "revoke", !.b = c]
          PROVE  at' \in Places /\ at'.in \in {"idle", "revoke"} /\ at'.i = 0
      <3>1. IsPlace(at', "revoke", 0, 0, FALSE)
        BY <2>2, IdleFacts, Zenon
      <3> QED BY <3>1 DEF IsPlace
    <2> QED BY <1>3, <2>1, <2>2
  <1>5. \/ UNCHANGED <<owner, opening>>
        \/ GiveUpFocus
        \/ TakeFocus(b)
    BY Zenon DEF RunTask, focus
  <1> HIDE DEF Places
  <1>6. CASE UNCHANGED <<owner, opening>>
    BY <1>1, <1>2, <1>4, <1>6, RestKeeps
  <1>7. CASE GiveUpFocus
    BY <1>1, <1>2, <1>4, <1>7, RestKeeps DEF GiveUpFocus
  <1>8. CASE TakeFocus(b)
    BY <1>1, <1>2, <1>4, <1>8, RestKeeps DEF TakeFocus
  <1> QED BY <1>5, <1>6, <1>7, <1>8

LEMMA RevokedKeeps ==
  ASSUME IInv, Revoked PROVE IInv'
  <1>1. /\ at.in \in {"revoke", "leave", "reset"} /\ at.i = 0 /\ Kinds
        /\ UNCHANGED <<cur, batch, taken, owner, opening, hosts, off, game, raced>>
        /\ owner \in Browsers \cup {NoBrowser} /\ off \in BOOLEAN
    BY Zenon DEF Revoked, Revoking, focus, ends, IInv, Kinds
  <1>2. ~Dispatching
    BY <1>1 DEF Dispatching, Routing
  <1>3. at' \in Places /\ at'.in \in {"idle", "leave", "reset"} /\ at'.i = 0
    <2>1. CASE at.in = "reset"
      <3>1. at' = Idle
        BY <2>1 DEF Revoked
      <3> QED BY <3>1, IdleFacts DEF IsPlace
    <2>2. CASE at.in # "reset"
      <3>1. at' = StillRevoking(at)
        BY <2>2 DEF Revoked
      <3>2. PICK y \in {"leave", "reset"} : IsPlace(at', y, at.i, at.l, at.handled)
        BY <1>1, <3>1, StillPlace
      <3> QED BY <1>1, <3>2 DEF IsPlace
    <2> QED BY <2>1, <2>2
  <1> HIDE DEF Places
  <1> QED BY <1>1, <1>2, <1>3, RestKeeps

LEMMA SetShuttingDownKeeps ==
  ASSUME IInv, SetShuttingDown PROVE IInv'
  <1>1. /\ at = Idle /\ off' = TRUE
        /\ UNCHANGED <<cur, batch, taken, at, owner, opening, hosts, game, raced>>
        /\ owner \in Browsers \cup {NoBrowser}
    BY Zenon DEF SetShuttingDown, focus, ends, IInv, Kinds
  <1>2. ~Dispatching /\ at' \in Places /\ at'.in = "idle" /\ at'.i = 0
    BY <1>1, IdleFacts DEF Dispatching, Routing, IsPlace
  <1> QED BY <1>1, <1>2, RestKeeps

\* A change of owner by the CEF thread is either at rest or raced.
LEMMA CefFocusKeeps ==
  ASSUME IInv, UNCHANGED <<cur, batch, taken, at, hosts, off, game>>, Race,
         GiveUpFocus \/ (owner = NoBrowser /\ \E b \in Browsers : TakeFocus(b))
  PROVE  IInv'
  <1>1. /\ owner' \in Browsers \cup {NoBrowser} /\ opening' \subseteq Keys
        /\ (opening' = {} /\ owner' = NoBrowser) \/ opening' = cur \cap Keys
    BY Zenon DEF GiveUpFocus, TakeFocus
  <1>2. CASE at = Idle
    <2>1. ~Dispatching /\ at' \in Places /\ at'.in = "idle" /\ at'.i = 0
      BY <1>2, IdleFacts DEF Dispatching, Routing, IsPlace
    <2>2. off \in BOOLEAN /\ raced' = raced
      BY <1>2 DEF IInv, Kinds, Race
    <2> QED BY <1>1, <2>1, <2>2, RestKeeps
  <1>3. CASE at # Idle
    <2>1. raced' = TRUE
      BY <1>3 DEF Race
    <2>2. Kinds'
      BY <1>1, <2>1, Zenon DEF IInv, Kinds, Routing, Dispatching
    <2>3. Polled'
      BY DEF IInv, Polled
    <2> QED BY <2>1, <2>2, <2>3 DEF IInv
  <1> QED BY <1>2, <1>3

LEMMA TryFocusKeeps ==
  ASSUME IInv, NEW b \in Browsers, TryFocus(b) PROVE IInv'
  <1>1. UNCHANGED <<cur, batch, taken, at, hosts, off, game>> /\ Race
        /\ owner = NoBrowser /\ TakeFocus(b)
    BY Zenon DEF TryFocus, ends
  <1> QED BY <1>1, CefFocusKeeps

LEMMA ReleaseKeeps ==
  ASSUME IInv, Release PROVE IInv'
  <1>1. CASE owner = cef.b
    <2>1. UNCHANGED <<cur, batch, taken, at, hosts, off, game>> /\ Race /\ GiveUpFocus
      BY <1>1, Zenon DEF Release, ends
    <2> QED BY <2>1, CefFocusKeeps
  <1>2. CASE owner # cef.b
    <2>1. UNCHANGED Spoken /\ UNCHANGED raced
      BY <1>2, Zenon DEF Release, Spoken, focus, ends
    <2> QED BY <2>1, NotSpokenOf DEF IInv, Kinds
  <1> QED BY <1>1, <1>2

\* The client forgets its CEF browser.
LEMMA BeforeCloseKeeps ==
  ASSUME IInv, NEW b \in Browsers, BeforeClose(b) PROVE IInv'
  <1>1. hosts' \subseteq hosts /\ UNCHANGED <<cur, batch, taken, at, focus, off, game, raced>>
    BY Zenon DEF BeforeClose, focus, ends
  <1>2. Kinds'
    BY <1>1, Zenon DEF IInv, Kinds, Routing, Dispatching, focus
  <1>3. Polled'
    BY <1>1, Zenon DEF IInv, Polled
  <1>4. Sound => Sound'
    <2>1. Rested => Rested'
      BY <1>1, Zenon DEF Rested, focus, Routing, Dispatching, GameKeys
    <2>2. Answered => Answered'
      BY <1>1, Zenon DEF Answered, focus, Routing, Dispatching, GameKeys, Goes
    <2>3. Spared => Spared'
      BY <1>1, Zenon DEF Spared, focus, Routing, Dispatching, GameKeys, Past, Goes
    <2>4. Withheld => Withheld'
      BY <1>1, Zenon DEF Withheld, focus, Routing, Dispatching, Past, Goes
    <2>5. Offering => Offering'
      BY <1>1, Zenon DEF Offering, focus, Routing, Past, IsKey, Ev
    <2> QED BY <2>1, <2>2, <2>3, <2>4, <2>5 DEF Sound
  <1>5. raced' = raced
    BY <1>1
  <1> QED BY <1>2, <1>3, <1>4, <1>5 DEF IInv

-----------------------------------------------------------------------------
LEMMA NextKeeps == IInv /\ [Next]_vars => IInv'
  <1> SUFFICES ASSUME IInv, [Next]_vars PROVE IInv'
    OBVIOUS
  <1>1. ASSUME UNCHANGED Spoken, UNCHANGED raced PROVE IInv'
    BY <1>1, NotSpokenOf DEF IInv, Kinds
  <1>2. CASE Poll
    BY <1>2, PollKeeps
  <1>3. CASE ProcessToggleKeys
    BY <1>3, ToggleKeeps
  <1>4. CASE Layer
    BY <1>4, LayerKeeps
  <1>5. CASE ProcessEvent
    BY <1>5, ProcessEventKeeps
  <1>6. CASE ConsumeOpeningKeyRelease
    BY <1>6, OpeningKeeps
  <1>7. CASE Forward
    BY <1>7, ForwardKeeps
  <1>8. CASE RevokedInWalk
    BY <1>8, RevokedInWalkKeeps
  <1>9. CASE Revoked
    BY <1>9, RevokedKeeps
  <1>10. CASE WindowInactive
    BY <1>1, <1>10, Zenon DEF WindowInactive, Spoken, ends
  <1>11. CASE SetShuttingDown
    BY <1>11, SetShuttingDownKeeps
  <1>12. ASSUME NEW b \in Browsers,
                RunTask(b) \/ TryFocus(b) \/ RendererTerminated(b) \/ BeginShutdown(b) \/ BeforeClose(b)
         PROVE  IInv'
    <2>1. CASE RunTask(b)
      BY <2>1, RunTaskKeeps
    <2>2. CASE TryFocus(b)
      BY <2>2, TryFocusKeeps
    <2>3. CASE RendererTerminated(b)
      BY <1>1, <2>3, Zenon DEF RendererTerminated, Spoken, ends
    <2>4. CASE BeginShutdown(b)
      BY <1>1, <2>4, Zenon DEF BeginShutdown, Spoken
    <2>5. CASE BeforeClose(b)
      BY <2>5, BeforeCloseKeeps
    <2> QED BY <1>12, <2>1, <2>2, <2>3, <2>4, <2>5
  <1>13. CASE CefBrowserBeforeClose
    BY <1>1, <1>13, Zenon DEF CefBrowserBeforeClose, Spoken
  <1>14. CASE Release
    BY <1>14, ReleaseKeeps
  <1>15. CASE CefRevoked
    BY <1>1, <1>15, Zenon DEF CefRevoked, Spoken, ends
  <1>16. CASE Clear
    BY <1>1, <1>16, Zenon DEF Clear, Spoken, ends
  <1>17. CASE NoteMouse
    BY <1>17, NoteKeeps
  <1>18. CASE UNCHANGED vars
    BY <1>1, <1>18, Zenon DEF vars, Spoken, ends
  <1> QED BY <1>2, <1>3, <1>4, <1>5, <1>6, <1>7, <1>8, <1>9, <1>10, <1>11, <1>12, <1>13, <1>14,
             <1>15, <1>16, <1>17, <1>18, Zenon DEF Next

LEMMA Released == IInv => GameKeysReleased
  <1> SUFFICES ASSUME IInv, AtRest, ~raced PROVE game \cap Keys \subseteq cur
    BY DEF GameKeysReleased
  <1>1. ~Dispatching
    BY IdleFacts DEF AtRest, Dispatching, Routing, IsPlace
  <1> QED BY <1>1 DEF IInv, Sound, Rested, GameKeys

\* The game gets the release of every key it saw pressed, whatever the browsers take and
\* whoever has the focus: for any browsers, toggle keys, batches and number of events.
THEOREM GameGetsReleases == Spec => []GameKeysReleased
  <1>1. Spec => []IInv
    BY InitInv, NextKeeps, PTL DEF Spec
  <1> QED BY <1>1, Released, PTL

-----------------------------------------------------------------------------
(* What Chromium holds of a browser's keys, it holds for its ledger, and   *)
(* the ledger of a browser that has not the focus, and will not be told    *)
(* that it lost it, has only strays.  The same of the mouse, which the     *)
(* flag stands for while no move is between its two halves.                *)

CefStages == {"idle", "stop", "release", "revoke", "leave", "reset", "clear"}
CefPlaces == [in : CefStages, i : Nat, l : Nat, b : Browsers \cup {NoBrowser}, handled : BOOLEAN]

Live == hosts \ stopped

\* OnFocusRevoked has yet to release the keys, to tell of the mouse, to reset the flag.
KeysPending(b)  == (at.in = "revoke" /\ at.b = b) \/ (cef.in = "revoke" /\ cef.b = b)
MousePending(b) == \/ at.in \in {"revoke", "leave"} /\ at.b = b
                   \/ cef.in \in {"revoke", "leave"} /\ cef.b = b
Resetting(b)    == (at.in = "reset" /\ at.b = b) \/ (cef.in = "reset" /\ cef.b = b)

LedgerKinds ==
  /\ pressed \in [Browsers -> SUBSET Keys] /\ strays \in [Browsers -> SUBSET (Keys \cup {Mouse})]
  /\ held \in [Browsers -> SUBSET (Keys \cup {Button})]
  /\ cef \in CefPlaces
  /\ at.in \in {"send", "note"} => at.b \in Browsers

\* A browser is emptied without a word to Chromium only when it has no CEF browser.
Gone ==
  /\ cef.in = "stop" \/ cef.handled => cef.b \notin hosts
  /\ cef.in = "clear" => cef.handled

Told == \A b \in Live, k \in Keys : k \in held[b] => k \in pressed[b] \/ k \in strays[b]

Ledgers == \A b \in Live, k \in Keys :
             k \in pressed[b] /\ k \notin strays[b] => owner = b \/ KeysPending(b)

\* The event in hand is still to be offered to the owner b.
Offers(b) == \/ at.in = "toggle"
             \/ at.in = "layer" /\ \E m \in 1..Len(Layers) : m >= at.l /\ Layers[m] = b
             \/ at.in = "send" /\ at.b = b

\* The release of k is in the batch and will be offered to the owner b.
Unsent(b, k) == /\ Routing
                /\ \E i \in 1..Len(batch) : Goes(i, "up", k) /\ (i > at.i \/ (i = at.i /\ Offers(b)))

\* A key of the owner's ledger is down, or its release is on the way.
Down == ~off => \A b \in Live, k \in Keys :
  k \in pressed[b] /\ k \notin strays[b] /\ owner = b /\ ~KeysPending(b) => k \in cur \/ Unsent(b, k)

\* A move over the page, or off it, that was sent and is not yet noted.
Noting(b)  == at.in = "note" /\ at.b = b /\ Ev.over
Leaving(b) == at.in = "note" /\ at.b = b /\ ~Ev.over
Kept(b)    == b \in hover /\ Mouse \notin strays[b]

\* The flag knows of a mouse inside the page, and who loses the focus will be told.
Inside  == \A b \in Live : Kept(b) =>
             Noting(b) \/ (b \in inside /\ (owner = b \/ MousePending(b)))
Left    == \A b \in Live : Leaving(b) => ~Kept(b)
Forgets == \A b \in Live : Resetting(b) /\ Kept(b) => Noting(b)

BInv == LedgerKinds /\ Gone /\ Told /\ Ledgers /\ Down /\ Inside /\ Left /\ Forgets

-----------------------------------------------------------------------------
IsCefPlace(q, in, b, handled) ==
  q \in CefPlaces /\ q.in = in /\ q.b = b /\ q.handled = handled

LEMMA OneCefField ==
  ASSUME NEW a, NEW x, NEW b, NEW h, IsCefPlace(a, x, b, h)
  PROVE  /\ \A y \in CefStages : IsCefPlace([a EXCEPT !.in = y], y, b, h)
         /\ \A c \in Browsers \cup {NoBrowser} : IsCefPlace([a EXCEPT !.b = c], x, c, h)
         /\ IsCefPlace([a EXCEPT !.handled = TRUE], x, b, TRUE)
         /\ IsCefPlace([a EXCEPT !.handled = FALSE], x, b, FALSE)
  <1>1. \A y \in CefStages : IsCefPlace([a EXCEPT !.in = y], y, b, h)
    BY SMT DEF CefPlaces, IsCefPlace
  <1>2. \A c \in Browsers \cup {NoBrowser} : IsCefPlace([a EXCEPT !.b = c], x, c, h)
    BY SMT DEF CefPlaces, IsCefPlace
  <1>3. ASSUME NEW g \in BOOLEAN PROVE IsCefPlace([a EXCEPT !.handled = g], x, b, g)
    BY SMT DEF CefPlaces, IsCefPlace
  <1> QED BY <1>1, <1>2, <1>3

LEMMA PutCef ==
  ASSUME NEW a, NEW x, NEW b, NEW h, IsCefPlace(a, x, b, h), NEW y \in CefStages
  PROVE  /\ IsCefPlace([a EXCEPT !.in = y], y, b, h)
         /\ \A c \in Browsers \cup {NoBrowser} : IsCefPlace([a EXCEPT !.in = y, !.b = c], y, c, h)
         /\ IsCefPlace([a EXCEPT !.in = y, !.handled = TRUE], y, b, TRUE)
         /\ IsCefPlace([a EXCEPT !.in = y, !.handled = FALSE], y, b, FALSE)
  <1>1. PICK p : p = [a EXCEPT !.in = y]
    OBVIOUS
  <1>2. IsCefPlace(p, y, b, h)
    <2>1. IsCefPlace([a EXCEPT !.in = y], y, b, h)
      BY OneCefField
    <2> QED BY <1>1, <2>1, Zenon
  <1>3. /\ \A c \in Browsers \cup {NoBrowser} : IsCefPlace([p EXCEPT !.b = c], y, c, h)
        /\ IsCefPlace([p EXCEPT !.handled = TRUE], y, b, TRUE)
        /\ IsCefPlace([p EXCEPT !.handled = FALSE], y, b, FALSE)
    BY <1>2, OneCefField
  <1> QED BY <1>1, <1>2, <1>3, Split, Zenon

LEMMA CefFacts ==
  /\ CefStages = {"idle", "stop", "release", "revoke", "leave", "reset", "clear"}
  /\ IsCefPlace(Idle, "idle", NoBrowser, FALSE)
  /\ \A y \in CefStages, b \in Browsers :
       IsCefPlace([Idle EXCEPT !.in = y, !.b = b], y, b, FALSE)
  <1>1. IsCefPlace(Idle, "idle", NoBrowser, FALSE)
    BY SMT DEF Idle, IsCefPlace, CefPlaces, CefStages
  <1> QED BY <1>1, PutCef, Zenon DEF CefStages

LEMMA CefPlaceNow ==
  ASSUME BInv
  PROVE  /\ IsCefPlace(cef, cef.in, cef.b, cef.handled) /\ cef.b \in Browsers \cup {NoBrowser}
         /\ \A y \in CefStages :
              /\ IsCefPlace([cef EXCEPT !.in = y], y, cef.b, cef.handled)
              /\ IsCefPlace([cef EXCEPT !.in = y, !.handled = TRUE], y, cef.b, TRUE)
              /\ IsCefPlace([cef EXCEPT !.in = y, !.handled = FALSE], y, cef.b, FALSE)
  <1>1. IsCefPlace(cef, cef.in, cef.b, cef.handled) /\ cef.b \in Browsers \cup {NoBrowser}
    BY DEF BInv, LedgerKinds, IsCefPlace, CefPlaces
  <1> QED BY <1>1, PutCef

\* The browser that a place is about.
LEMMA OneFieldOfB ==
  ASSUME NEW a \in Places
  PROVE  /\ \A y \in Stages : [a EXCEPT !.in = y] \in Places /\ [a EXCEPT !.in = y].b = a.b
         /\ \A n \in Nat : [a EXCEPT !.i = n] \in Places /\ [a EXCEPT !.i = n].b = a.b
         /\ \A n \in Nat : [a EXCEPT !.l = n] \in Places /\ [a EXCEPT !.l = n].b = a.b
         /\ \A c \in Browsers \cup {NoBrowser} : [a EXCEPT !.b = c] \in Places /\ [a EXCEPT !.b = c].b = c
         /\ [a EXCEPT !.handled = TRUE].b = a.b
  <1>1. \A y \in Stages : [a EXCEPT !.in = y] \in Places /\ [a EXCEPT !.in = y].b = a.b
    BY SMT DEF Places
  <1>2. \A n \in Nat : [a EXCEPT !.i = n] \in Places /\ [a EXCEPT !.i = n].b = a.b
    BY SMT DEF Places
  <1>3. \A n \in Nat : [a EXCEPT !.l = n] \in Places /\ [a EXCEPT !.l = n].b = a.b
    BY SMT DEF Places
  <1>4. \A c \in Browsers \cup {NoBrowser} : [a EXCEPT !.b = c] \in Places /\ [a EXCEPT !.b = c].b = c
    BY SMT DEF Places
  <1>5. [a EXCEPT !.handled = TRUE].b = a.b
    BY SMT DEF Places
  <1> QED BY <1>1, <1>2, <1>3, <1>4, <1>5

LEMMA PutOfB ==
  ASSUME NEW a \in Places, NEW y \in Stages, NEW c \in Browsers \cup {NoBrowser}
  PROVE  /\ [a EXCEPT !.in = y].b = a.b
         /\ \A n \in Nat : [a EXCEPT !.in = y, !.l = n].b = a.b
         /\ [a EXCEPT !.in = y, !.b = c].b = c
         /\ [a EXCEPT !.in = y, !.handled = TRUE].b = a.b
  <1>1. PICK p : p = [a EXCEPT !.in = y]
    OBVIOUS
  <1>2. p \in Places /\ p.b = a.b
    BY <1>1, OneFieldOfB, Zenon
  <1>3. /\ \A n \in Nat : [p EXCEPT !.l = n].b = a.b
        /\ [p EXCEPT !.b = c].b = c
        /\ [p EXCEPT !.handled = TRUE].b = a.b
    BY <1>2, OneFieldOfB, Zenon
  <1> QED BY <1>1, <1>2, <1>3, Split, Zenon

LEMMA InitBalanced == Init => BInv
  <1> SUFFICES ASSUME Init PROVE BInv
    OBVIOUS
  <1>1. IsCefPlace(cef, "idle", NoBrowser, FALSE) /\ IsPlace(at, "idle", 0, 0, FALSE)
    BY CefFacts, IdleFacts DEF Init
  <1>2. LedgerKinds
    BY <1>1, InputAssumption, SMT DEF LedgerKinds, Init, IsCefPlace, IsPlace
  <1>3. Gone
    BY <1>1 DEF Gone, IsCefPlace
  <1>4. Told /\ Ledgers /\ Down
    BY DEF Told, Ledgers, Down, Init, Live
  <1>5. Inside /\ Left /\ Forgets
    BY DEF Inside, Left, Forgets, Kept, Init
  <1> QED BY <1>2, <1>3, <1>4, <1>5 DEF BInv

-----------------------------------------------------------------------------
(* What a step may do to the accounts.                                     *)

LEMMA LedgersStay ==
  ASSUME Ledgers, hosts' \subseteq hosts, stopped \subseteq stopped',
         \A b \in Live', k \in Keys : k \in pressed'[b] /\ k \notin strays'[b] =>
           /\ k \in pressed[b] /\ k \notin strays[b]
           /\ owner = b \/ KeysPending(b) => owner' = b \/ KeysPending(b)'
  PROVE  Ledgers'
  <1> SUFFICES ASSUME NEW b \in Live', NEW k \in Keys, k \in pressed'[b], k \notin strays'[b]
               PROVE  owner' = b \/ KeysPending(b)'
    BY DEF Ledgers
  <1>1. b \in Live
    BY DEF Live
  <1> QED BY <1>1 DEF Ledgers

LEMMA DownStays ==
  ASSUME Down, hosts' \subseteq hosts, stopped \subseteq stopped', off => off',
         off \in BOOLEAN, off' \in BOOLEAN, UNCHANGED cur,
         \A b \in Live', k \in Keys :
           k \in pressed'[b] /\ k \notin strays'[b] /\ owner' = b /\ ~KeysPending(b)' =>
             \/ k \in cur
             \/ /\ k \in pressed[b] /\ k \notin strays[b] /\ owner = b /\ ~KeysPending(b)
                /\ Unsent(b, k) => Unsent(b, k)'
  PROVE  Down'
  <1> SUFFICES ASSUME ~off', NEW b \in Live', NEW k \in Keys, k \in pressed'[b], k \notin strays'[b],
                      owner' = b, ~KeysPending(b)'
               PROVE  k \in cur \/ Unsent(b, k)'
    BY DEF Down
  <1>1. b \in Live /\ ~off
    BY DEF Live
  <1> QED BY <1>1 DEF Down

LEMMA MouseStays ==
  ASSUME Inside, Left, Forgets, hosts' \subseteq hosts, stopped \subseteq stopped',
         \A b \in Live' : Kept(b)' =>
           /\ Kept(b)
           /\ Noting(b) => Noting(b)'
           /\ ~Leaving(b) => ~Leaving(b)'
           /\ b \in inside => Noting(b)' \/ b \in inside'
           /\ owner = b \/ MousePending(b) => Noting(b)' \/ owner' = b \/ MousePending(b)'
           /\ Resetting(b)' => Noting(b)' \/ Resetting(b)
  PROVE  Inside' /\ Left' /\ Forgets'
  <1>1. \A b \in Live' : b \in Live
    BY DEF Live
  <1>2. ASSUME NEW b \in Live', Kept(b)'
        PROVE  Noting(b)' \/ (b \in inside' /\ (owner' = b \/ MousePending(b)'))
    BY <1>1, <1>2 DEF Inside
  <1>3. ASSUME NEW b \in Live', Leaving(b)' PROVE ~Kept(b)'
    BY <1>1, <1>3 DEF Left
  <1>4. ASSUME NEW b \in Live', Resetting(b)', Kept(b)' PROVE Noting(b)'
    BY <1>1, <1>4 DEF Forgets
  <1> QED BY <1>2, <1>3, <1>4 DEF Inside, Left, Forgets

\* A step that is not of a ledger, of the mouse or of OnFocusRevoked: whoever loses the
\* focus is about to be told, and the owner is still offered what it was to be.
LEMMA QuietStep ==
  ASSUME IInv, BInv, UNCHANGED <<cur, pressed, held, inside, hover, strays>>,
         (at.in # "note" /\ at'.in # "note") \/ UNCHANGED <<at, batch>>,
         at'.in \in {"send", "note"} => at'.b \in Browsers, cef' \in CefPlaces, Gone',
         hosts' \subseteq hosts, stopped \subseteq stopped', off => off', off' \in BOOLEAN,
         \A b \in Live' :
           /\ owner = b => owner' = b \/ KeysPending(b)'
           /\ KeysPending(b) => KeysPending(b)'
           /\ MousePending(b) => MousePending(b)'
           /\ Resetting(b)' => Resetting(b)
           /\ \A k \in Keys : owner = b /\ k \in pressed[b] /\ Unsent(b, k) => Unsent(b, k)'
  PROVE  BInv'
  <1>1. off \in BOOLEAN /\ \A b \in Live' : b \in Live
    BY DEF IInv, Kinds, Live
  <1>2. LedgerKinds'
    BY DEF BInv, LedgerKinds
  <1>3. Told'
    BY <1>1 DEF BInv, Told
  <1>4. Ledgers'
    BY LedgersStay DEF BInv
  <1>5. Down'
    <2>1. ASSUME NEW b \in Live', NEW k \in Keys, k \in pressed'[b], k \notin strays'[b],
                 owner' = b, ~KeysPending(b)'
          PROVE  /\ k \in pressed[b] /\ k \notin strays[b] /\ owner = b /\ ~KeysPending(b)
                 /\ Unsent(b, k) => Unsent(b, k)'
      <3>1. ~KeysPending(b) /\ k \in pressed[b] /\ k \notin strays[b]
        BY <2>1
      <3>2. owner = b
        BY <1>1, <2>1, <3>1 DEF BInv, Ledgers
      <3> QED BY <2>1, <3>1, <3>2
    <2> QED BY <1>1, <2>1, DownStays DEF BInv
  <1>6. Inside' /\ Left' /\ Forgets'
    <2>1. ASSUME NEW b
          PROVE  /\ Kept(b)' <=> Kept(b)
                 /\ Noting(b)' <=> Noting(b)
                 /\ Leaving(b)' <=> Leaving(b)
      BY DEF Kept, Noting, Leaving, Ev
    <2>2. \A b : KeysPending(b)' => MousePending(b)'
      BY DEF KeysPending, MousePending
    <2> QED BY <2>1, <2>2, MouseStays DEF BInv
  <1> QED BY <1>2, <1>3, <1>4, <1>5, <1>6 DEF BInv

\* A step of OnFocusRevoked for x, or of OnCefBrowserBeforeClose, which forgets as much.
LEMMA RevokingStep ==
  ASSUME IInv, BInv, UNCHANGED <<cur, batch, owner, hosts, stopped, off>>,
         NEW x \in Browsers \cup {NoBrowser}, NEW y,
         \/ y = "revoke" /\ KeysRevoked(x) /\ UNCHANGED <<inside, hover>>
         \/ y = "leave" /\ LeavePage(x) /\ UNCHANGED <<pressed, held, inside>>
         \/ y = "reset" /\ inside' = inside \ {x} /\ UNCHANGED <<pressed, held, hover, strays>>,
         y = "reset" => Resetting(x),
         at'.in \notin {"send", "note"} \/ UNCHANGED at, cef' \in CefPlaces, Gone',
         \A b \in Live :
           /\ KeysPending(b) => KeysPending(b)' \/ (b = x /\ y = "revoke")
           /\ MousePending(b) => MousePending(b)' \/ (b = x /\ y = "leave")
           /\ Resetting(b)' => Resetting(b) \/ (b = x /\ y = "leave")
           /\ KeysPending(b)' => KeysPending(b)
           /\ Noting(b) => Noting(b)'
           /\ \A k \in Keys : Unsent(b, k) => Unsent(b, k)'
  PROVE  BInv'
  <1>1. /\ off \in BOOLEAN /\ hosts \subseteq Browsers /\ Live' = Live
        /\ \A b \in Live : b \in Browsers
    BY DEF IInv, Kinds, Live
  <1>2. Mouse \notin Keys /\ \A b \in Browsers : pressed[b] \subseteq Keys
    BY InputAssumption DEF BInv, LedgerKinds
  <1>3. \A b : Leaving(b)' => Leaving(b)
    BY DEF Leaving, Ev
  \* The keys.
  <1>4. /\ pressed' \in [Browsers -> SUBSET Keys]
        /\ strays' \in [Browsers -> SUBSET (Keys \cup {Mouse})]
        /\ held' \in [Browsers -> SUBSET (Keys \cup {Button})]
        /\ Told'
        /\ \A b \in Live, k \in Keys : k \in pressed'[b] /\ k \notin strays'[b] =>
             k \in pressed[b] /\ k \notin strays[b] /\ (b = x => y # "revoke")
    <2>1. CASE y = "revoke" /\ KeysRevoked(x)
      <3>1. CASE x \in hosts
        <4>1. ReleasePressedKeys({x})
          BY <2>1, <3>1 DEF KeysRevoked
        <4>2. /\ held' = [b \in Browsers |-> IF b \in {x} \ stopped THEN held[b] \ pressed[b] ELSE held[b]]
              /\ pressed' = [b \in Browsers |-> IF b \in {x} THEN {} ELSE pressed[b]]
              /\ strays' = [b \in Browsers |-> IF b \in {x} THEN strays[b] \ pressed[b] ELSE strays[b]]
          BY <4>1 DEF ReleasePressedKeys
        <4>3. Told'
          <5> SUFFICES ASSUME NEW b \in Live, NEW k \in Keys, k \in held'[b]
                       PROVE  k \in pressed'[b] \/ k \in strays'[b]
            BY <1>1 DEF Told
          <5>1. b \in Browsers /\ b \notin stopped
            BY <1>1 DEF Live
          <5>2. k \in pressed[b] \/ k \in strays[b]
            BY <4>2, <5>1 DEF BInv, Told
          <5> QED BY <4>2, <5>1, <5>2
        <4>4. /\ pressed' \in [Browsers -> SUBSET Keys]
              /\ strays' \in [Browsers -> SUBSET (Keys \cup {Mouse})]
              /\ held' \in [Browsers -> SUBSET (Keys \cup {Button})]
          BY <4>2 DEF BInv, LedgerKinds
        <4> QED BY <1>1, <4>2, <4>3, <4>4
      <3>2. CASE x \notin hosts
        <4>1. pressed' = [pressed EXCEPT ![x] = {}] /\ held' = held /\ strays' = strays
          BY <2>1, <3>2 DEF KeysRevoked, ClearKeys
        <4>2. \A b \in Live : b # x /\ pressed'[b] = pressed[b]
          BY <1>1, <3>2, <4>1 DEF BInv, LedgerKinds, Live
        <4>3. Told'
          BY <1>1, <4>1, <4>2 DEF BInv, Told
        <4>4. pressed' \in [Browsers -> SUBSET Keys]
          BY <4>1 DEF BInv, LedgerKinds
        <4> QED BY <4>1, <4>2, <4>3, <4>4 DEF BInv, LedgerKinds
      <3> QED BY <3>1, <3>2
    <2>2. CASE y = "leave" /\ LeavePage(x) /\ UNCHANGED <<pressed, held, inside>>
      <3>1. strays' = strays \/ strays' = [strays EXCEPT ![x] = @ \ {Mouse}]
        BY <2>2 DEF LeavePage
      <3>2. /\ strays' \in [Browsers -> SUBSET (Keys \cup {Mouse})]
            /\ \A b \in Browsers, k \in Keys : k \in strays'[b] <=> k \in strays[b]
        BY <1>2, <3>1 DEF BInv, LedgerKinds
      <3>3. Told'
        BY <1>1, <2>2, <3>2 DEF BInv, Told
      <3> QED BY <1>1, <2>2, <3>2, <3>3 DEF BInv, LedgerKinds
    <2>3. CASE y = "reset" /\ UNCHANGED <<pressed, held, hover, strays>>
      BY <1>1, <2>3 DEF BInv, LedgerKinds, Told
    <2> QED BY <2>1, <2>2, <2>3
  <1>5. LedgerKinds'
    BY <1>4 DEF BInv, LedgerKinds
  <1>6. Ledgers'
    <2>1. Ledgers
      BY DEF BInv
    <2> QED BY <1>1, <1>4, <2>1, LedgersStay
  <1>7. Down'
    <2>1. ASSUME NEW b \in Live, NEW k \in Keys, k \in pressed'[b], k \notin strays'[b], owner' = b,
                 ~KeysPending(b)'
          PROVE  /\ k \in pressed[b] /\ k \notin strays[b] /\ owner = b /\ ~KeysPending(b)
                 /\ Unsent(b, k) => Unsent(b, k)'
      BY <1>4, <2>1
    <2> QED BY <1>1, <2>1, DownStays DEF BInv
  \* The mouse.
  <1>8. ASSUME NEW b \in Live, Kept(b)'
        PROVE  /\ Kept(b)
               /\ b \in inside => b \in inside' \/ Noting(b)
               /\ b = x /\ y = "leave" => Noting(b)
               /\ b = x /\ y = "reset" => Noting(b)
    <2>1. b \in Browsers
      BY <1>1
    <2>2. CASE y = "revoke" /\ KeysRevoked(x) /\ UNCHANGED <<inside, hover>>
      <3>1. Mouse \in strays'[b] <=> Mouse \in strays[b]
        <4>1. CASE strays' = strays
          BY <4>1
        <4>2. CASE ReleasePressedKeys({x})
          <5>1. strays' = [c \in Browsers |-> IF c \in {x} THEN strays[c] \ pressed[c] ELSE strays[c]]
            BY <4>2 DEF ReleasePressedKeys
          <5> QED BY <1>2, <2>1, <5>1
        <4> QED BY <2>2, <4>1, <4>2 DEF KeysRevoked, ClearKeys
      <3> QED BY <1>8, <2>2, <3>1 DEF Kept
    <2>3. CASE y = "leave" /\ LeavePage(x) /\ UNCHANGED <<pressed, held, inside>>
      <3>1. b \in hover /\ (b = x => x \notin inside)
        BY <1>8, <2>3 DEF Kept, LeavePage
      <3>2. Mouse \in strays'[b] <=> Mouse \in strays[b]
        <4>1. CASE x \in inside
          <5>1. b # x /\ strays' = [strays EXCEPT ![x] = @ \ {Mouse}]
            BY <2>3, <3>1, <4>1 DEF LeavePage
          <5> QED BY <2>1, <5>1 DEF BInv, LedgerKinds
        <4>2. CASE x \notin inside
          BY <2>3, <4>2 DEF LeavePage
        <4> QED BY <4>1, <4>2
      <3>3. Kept(b)
        BY <1>8, <3>1, <3>2 DEF Kept
      <3> QED BY <2>3, <3>1, <3>3 DEF BInv, Inside
    <2>4. CASE y = "reset" /\ inside' = inside \ {x} /\ UNCHANGED <<pressed, held, hover, strays>>
      <3>1. Kept(b)
        BY <1>8, <2>4 DEF Kept
      <3>2. b = x => Noting(b)
        BY <2>4, <3>1 DEF BInv, Forgets
      <3> QED BY <2>4, <3>1, <3>2
    <2> QED BY <2>2, <2>3, <2>4
  <1>9. Inside' /\ Left' /\ Forgets'
    BY <1>1, <1>3, <1>8, MouseStays DEF BInv
  <1> QED BY <1>4, <1>5, <1>6, <1>7, <1>9 DEF BInv

-----------------------------------------------------------------------------
(* The walk of one event through the layers.                               *)

\* What a step of the walk leaves alone.
Elsewhere == <<cur, batch, cef, ends, ledgers, strays>>

\* What the owner was to be offered, it still is: the event in hand if the walk goes on
\* towards it, and every later one.
LEMMA OfferStays ==
  ASSUME Kinds, Polled, UNCHANGED batch, NEW b, NEW k, Unsent(b, k),
         \/ at'.in = "forward" /\ at.i = Len(batch)
         \/ Routing' /\ (at'.i = at.i \/ (at'.i = at.i + 1 /\ at'.in = "toggle")),
         Offers(b) /\ Goes(at.i, "up", k) => Routing' /\ at'.i = at.i /\ Offers(b)'
  PROVE  Unsent(b, k)'
  <1>1. PICK i \in 1..Len(batch) : Goes(i, "up", k) /\ (i > at.i \/ (i = at.i /\ Offers(b)))
    BY DEF Unsent
  <1>2. Len(batch) \in Nat /\ at.i \in 1..Len(batch) /\ Goes(i, "up", k)'
    BY <1>1, SMT DEF Unsent, Kinds, Polled, Goes
  <1>3. CASE i = at.i /\ Offers(b)
    BY <1>1, <1>2, <1>3 DEF Unsent
  <1>4. CASE i > at.i
    <2>1. Routing' /\ (at'.i = at.i \/ (at'.i = at.i + 1 /\ at'.in = "toggle"))
      BY <1>1, <1>2, <1>4, SMT
    <2>2. i > at'.i \/ (i = at'.i /\ at'.in = "toggle")
      BY <1>1, <1>2, <1>4, <2>1, SMT
    <2>3. i > at'.i \/ (i = at'.i /\ Offers(b)')
      BY <2>2 DEF Offers
    <2> QED BY <1>1, <1>2, <2>1, <2>3 DEF Unsent
  <1> QED BY <1>1, <1>3, <1>4

\* The event in hand is passed on, and not past its owner.
LEMMA WalkKeeps ==
  ASSUME IInv, BInv, UNCHANGED Elsewhere, UNCHANGED owner,
         at.in \in {"toggle", "layer", "opening"},
         at'.in \in {"toggle", "layer", "send", "opening", "forward"},
         at'.in = "send" => at'.b \in Browsers,
         \/ at'.in = "forward" /\ at.i = Len(batch)
         \/ Routing' /\ (at'.i = at.i \/ (at'.i = at.i + 1 /\ at'.in = "toggle")),
         NEW x, x = owner,
         x \in Live => \A k \in Keys :
           Offers(x) /\ Goes(at.i, "up", k) => Routing' /\ at'.i = at.i /\ Offers(x)'
  PROVE  BInv'
  <1>1. UNCHANGED <<cur, batch, cef, hosts, stopped, off, pressed, held, inside, hover, strays>>
    BY Zenon DEF Elsewhere, ends, ledgers
  <1>2. Live' = Live /\ Kinds /\ Polled /\ off \in BOOLEAN
    BY <1>1 DEF Live, IInv, Kinds
  <1>3. cef' \in CefPlaces /\ Gone'
    BY <1>1 DEF BInv, LedgerKinds, Gone
  <1>4. ASSUME NEW b \in Live'
        PROVE  /\ KeysPending(b) => KeysPending(b)'
               /\ MousePending(b) => MousePending(b)'
               /\ Resetting(b)' => Resetting(b)
    BY <1>1 DEF KeysPending, MousePending, Resetting
  <1>5. ASSUME NEW b \in Live', NEW k \in Keys, owner = b, Unsent(b, k) PROVE Unsent(b, k)'
    <2>1. x \in Live /\ Unsent(x, k)
      BY <1>2, <1>5
    <2>2. Unsent(x, k)'
      BY <1>1, <1>2, <2>1, OfferStays
    <2> QED BY <1>5, <2>2 DEF Unsent, Offers
  <1> QED BY <1>1, <1>2, <1>3, <1>4, <1>5, QuietStep

LEMMA NextEventStep ==
  ASSUME Kinds, Routing, NEW t, NextEvent(t)
  PROVE  \/ at'.in = "forward" /\ at.i = Len(batch)
         \/ Routing' /\ at'.i = at.i + 1 /\ at'.in = "toggle"
  <1>1. CASE at.i = Len(batch)
    <2>1. IsPlace(at', "forward", 0, 0, FALSE)
      BY <1>1, IdleFacts DEF NextEvent
    <2> QED BY <1>1, <2>1 DEF IsPlace
  <1>2. CASE at.i # Len(batch)
    <2>1. at.i + 1 \in Nat
      BY SMT DEF Kinds, Places
    <2>2. at' = [Idle EXCEPT !.in = "toggle", !.i = at.i + 1]
      BY <1>2 DEF NextEvent
    <2>3. IsPlace(at', "toggle", at.i + 1, 0, FALSE)
      BY <2>1, <2>2, IdleFacts
    <2> QED BY <2>3 DEF IsPlace, Routing
  <1> QED BY <1>1, <1>2

LEMMA ToggleBalances ==
  ASSUME IInv, BInv, ProcessToggleKeys PROVE BInv'
  <1>1. at.in = "toggle" /\ Routing /\ Kinds /\ UNCHANGED Elsewhere /\ UNCHANGED owner
    BY Zenon DEF ProcessToggleKeys, Routing, Elsewhere, focus, IInv
  <1>2. CASE IsKey /\ Ev.act = "down" /\ Toggled # {}
    <2>1. NextEvent(TRUE)
      BY <1>2 DEF ProcessToggleKeys
    <2>2. \/ at'.in = "forward" /\ at.i = Len(batch)
          \/ Routing' /\ at'.i = at.i + 1 /\ at'.in = "toggle"
      BY <1>1, <2>1, NextEventStep
    <2>3. \A k : ~Goes(at.i, "up", k)
      BY <1>2 DEF Goes, Ev
    <2> QED BY <1>1, <2>2, <2>3, WalkKeeps
  <1>3. CASE ~(IsKey /\ Ev.act = "down" /\ Toggled # {})
    <2>1. at' = [at EXCEPT !.in = "layer", !.l = 1]
      BY <1>3 DEF ProcessToggleKeys
    <2>2. IsPlace(at', "layer", at.i, 1, at.handled)
      BY <1>1, <2>1, AtPlace, StagesThere, Zenon
    <2>3. at'.in = "layer" /\ at'.i = at.i /\ at'.l = 1 /\ Routing'
      BY <2>2 DEF IsPlace, Routing
    <2>4. ASSUME NEW b \in Live PROVE Offers(b)'
      <3>1. b \in Browsers
        BY <1>1, <2>4 DEF Live, Kinds
      <3>2. PICK m \in 1..Len(Layers) : Layers[m] = b
        BY <3>1 DEF Browsers
      <3>3. m >= 1
        OBVIOUS
      <3> QED BY <2>3, <3>2, <3>3 DEF Offers
    <2> QED BY <1>1, <2>3, <2>4, WalkKeeps
  <1> QED BY <1>2, <1>3

LEMMA OpeningBalances ==
  ASSUME IInv, BInv, ConsumeOpeningKeyRelease PROVE BInv'
  <1>1. at.in = "opening" /\ Routing /\ Kinds /\ UNCHANGED Elsewhere /\ UNCHANGED owner
    BY Zenon DEF ConsumeOpeningKeyRelease, Routing, Elsewhere, focus, IInv
  <1>2. \/ at'.in = "forward" /\ at.i = Len(batch)
        \/ Routing' /\ at'.i = at.i + 1 /\ at'.in = "toggle"
    <2>1. NextEvent(FALSE) \/ NextEvent(at.handled)
      BY Zenon DEF ConsumeOpeningKeyRelease
    <2> QED BY <1>1, <2>1, NextEventStep
  <1>3. \A b : ~Offers(b)
    BY <1>1 DEF Offers
  <1> QED BY <1>1, <1>2, <1>3, WalkKeeps

\* The layer is passed by, or the owner's conversion is next.
LEMMA LayerBalances ==
  ASSUME IInv, BInv, Layer PROVE BInv'
  <1> DEFINE b == Layers[at.l]
  <1>1. at.in = "layer" /\ Routing /\ Kinds /\ at.l \in 1..Len(Layers) /\ UNCHANGED Elsewhere
    BY Zenon DEF Layer, Routing, Elsewhere, IInv, Kinds
  <1>2. b \in Browsers /\ b # NoBrowser /\ at.l \in Nat /\ at \in Places
    BY <1>1, InputAssumption, SMT DEF Kinds
  <1>3. /\ [at EXCEPT !.in = "send", !.b = b].b = b
        /\ [at EXCEPT !.in = "revoke", !.b = b].b = b
    <2>1. b \in Browsers \cup {NoBrowser} /\ "send" \in Stages /\ "revoke" \in Stages
      BY <1>2 DEF Stages
    <2> HIDE DEF b
    <2> QED BY <1>2, <2>1, PutOfB
  \* Past a layer that is not a live owner's, or past an event that is no key's.
  <1>4. ASSUME NextLayer, UNCHANGED focus, owner # b \/ b \in stopped \/ ~IsKey
        PROVE  BInv'
    <2>1. IF at.l < Len(Layers) THEN IsPlace(at', "layer", at.i, at.l + 1, at.handled)
                                ELSE IsPlace(at', "opening", at.i, at.l, at.handled)
      BY <1>1, <1>2, <1>4, NextLayerPlace
    <2>2. at'.in \in {"layer", "opening"} /\ at'.i = at.i /\ Routing'
      BY <2>1 DEF IsPlace, Routing
    <2>3. ASSUME NEW x \in Live, x = owner, NEW k \in Keys, Offers(x), Goes(at.i, "up", k)
          PROVE  Offers(x)'
      <3>1. x # b
        BY <1>4, <2>3 DEF IsKey, Ev, Goes, Live
      <3>2. PICK m \in 1..Len(Layers) : m >= at.l /\ Layers[m] = x
        BY <1>1, <2>3 DEF Offers
      <3>3. m # at.l
        BY <3>1, <3>2
      <3>4. m >= at.l + 1 /\ at.l < Len(Layers)
        BY <1>1, <3>2, <3>3, InputAssumption, SMT
      <3>5. at'.in = "layer" /\ at'.l = at.l + 1
        BY <2>1, <3>4 DEF IsPlace
      <3> QED BY <3>2, <3>4, <3>5 DEF Offers
    <2>4. UNCHANGED owner
      BY <1>4 DEF focus
    <2> HIDE DEF b
    <2> QED BY <1>1, <2>2, <2>3, <2>4, WalkKeeps
  <1>5. CASE /\ b \in stopped \/ owner # b
             /\ NextLayer /\ raced' = (raced \/ owner = b) /\ UNCHANGED focus
    BY <1>4, <1>5
  <1>6. CASE b \notin stopped /\ owner = b /\ UNCHANGED focus /\ Offered(b)
    <2>1. CASE Ev.key = Button /\ Ev.act = "held"
      <3>1. at' = [at EXCEPT !.in = "opening", !.handled = TRUE]
        BY <1>6, <2>1 DEF Offered
      <3>2. IsPlace(at', "opening", at.i, at.l, TRUE)
        BY <1>1, <3>1, AtPlace, StagesThere, Zenon
      <3>3. at'.i = at.i /\ at'.in = "opening" /\ Routing' /\ UNCHANGED owner
        BY <1>6, <3>2 DEF IsPlace, Routing, focus
      <3>4. \A k \in Keys : ~Goes(at.i, "up", k)
        BY <2>1 DEF Goes, Ev
      <3> QED BY <1>1, <3>3, <3>4, WalkKeeps
    <2>2. CASE ~(Ev.key = Button /\ Ev.act = "held") /\ Ev.key = Button /\ ~Ev.over
      <3>1. NextLayer
        BY <1>6, <2>2 DEF Offered
      <3>2. ~IsKey
        BY <2>2, InputAssumption DEF IsKey
      <3> QED BY <1>4, <1>6, <3>1, <3>2
    <2>3. CASE ~(Ev.key = Button /\ Ev.act = "held") /\ ~(Ev.key = Button /\ ~Ev.over)
      <3>1. at' = [at EXCEPT !.in = "send", !.b = b]
        BY <1>6, <2>3, Zenon DEF Offered
      <3>2. IsPlace(at', "send", at.i, at.l, at.handled)
        BY <1>1, <1>2, <3>1, AtPlace, StagesThere, Zenon
      <3>3. at'.b = b
        BY <1>3, <3>1, Zenon
      <3>4. at'.i = at.i /\ at'.in = "send" /\ Routing' /\ UNCHANGED owner
        BY <1>6, <3>2 DEF IsPlace, Routing, focus
      <3>5. ASSUME NEW x, x = owner PROVE Offers(x)'
        BY <1>6, <3>3, <3>4, <3>5 DEF Offers
      <3> HIDE DEF b
      <3> QED BY <1>1, <1>2, <3>3, <3>4, <3>5, WalkKeeps
    <2> QED BY <2>1, <2>2, <2>3
  <1>7. CASE owner = b /\ b \notin hosts /\ GiveUpFocus /\ at' = [at EXCEPT !.in = "revoke", !.b = b]
    <2>1. IsPlace(at', "revoke", at.i, at.l, at.handled)
      BY <1>1, <1>2, <1>7, AtPlace, StagesThere, Zenon
    <2>2. at'.in = "revoke"
      BY <2>1 DEF IsPlace
    <2>3. UNCHANGED <<cur, batch, cef, hosts, stopped, off, pressed, held, inside, hover, strays>>
      BY <1>1, Zenon DEF Elsewhere, ends, ledgers
    <2>4. cef' \in CefPlaces /\ Gone' /\ off \in BOOLEAN
      BY <2>3 DEF BInv, LedgerKinds, Gone, IInv, Kinds
    <2>5. ASSUME NEW c \in Live'
          PROVE  /\ owner # c
                 /\ KeysPending(c) => KeysPending(c)'
                 /\ MousePending(c) => MousePending(c)'
                 /\ Resetting(c)' => Resetting(c)
      BY <1>1, <1>7, <2>2, <2>3, <2>5 DEF Live, KeysPending, MousePending, Resetting
    <2> HIDE DEF b
    <2> QED BY <1>1, <2>2, <2>3, <2>4, <2>5, QuietStep
  <1> QED BY <1>5, <1>6, <1>7, Zenon DEF Layer

-----------------------------------------------------------------------------
(* OnFocusRevoked, step by step.                                           *)

\* Where the main thread is afterwards: with the browser as long as it has a step left.
LEMMA StillOfB ==
  ASSUME Kinds PROVE StillRevoking(at).b = at.b /\ at.b \in Browsers \cup {NoBrowser}
  <1>1. PICK y \in {"leave", "reset"} : StillRevoking(at) = [at EXCEPT !.in = y]
    BY StillPlace
  <1>2. at \in Places /\ y \in Stages /\ at.b \in Browsers \cup {NoBrowser}
    BY SMT DEF Kinds, Places, Stages
  <1>3. [at EXCEPT !.in = y].b = at.b
    BY <1>2, PutOfB
  <1> QED BY <1>1, <1>2, <1>3

\* A step that the main thread takes, in a walk or not.
LEMMA MainRevokes ==
  ASSUME IInv, BInv, at.in \in Revoking, FocusRevoked(at),
         UNCHANGED <<cur, batch, cef, owner, hosts, stopped, off>>,
         at.in # "reset" => at' = StillRevoking(at),
         at.in = "reset" => at'.in \in {"idle", "layer", "opening"},
         Routing => Routing' /\ at'.i = at.i
  PROVE  BInv'
  <1>1. /\ Kinds /\ at.b \in Browsers \cup {NoBrowser} /\ StillRevoking(at).b = at.b
        /\ \A b \in Live : b \in hosts
        /\ at.in \in {"revoke", "leave", "reset"}
    BY StillOfB DEF IInv, Live, Revoking
  <1>2. PICK y \in {"leave", "reset"} :
          /\ IsPlace(StillRevoking(at), y, at.i, at.l, at.handled)
          /\ y = "leave" => at.in = "revoke" /\ at.b \in hosts
          /\ y = "reset" => at.in # "revoke" \/ at.b \notin hosts
    BY <1>1, StillPlace
  <1>3. at.in # "reset" => at'.in = y /\ at'.b = at.b
    BY <1>1, <1>2 DEF IsPlace
  <1>4. at'.in \notin {"send", "note"}
    BY <1>1, <1>3
  <1>5. cef' \in CefPlaces /\ Gone'
    BY DEF BInv, LedgerKinds, Gone
  <1>6. ASSUME NEW b \in Live
        PROVE  /\ KeysPending(b) => KeysPending(b)' \/ (b = at.b /\ at.in = "revoke")
               /\ MousePending(b) => MousePending(b)' \/ (b = at.b /\ at.in = "leave")
               /\ Resetting(b)' => Resetting(b) \/ (b = at.b /\ at.in = "leave")
               /\ KeysPending(b)' => KeysPending(b)
               /\ ~Noting(b)
    BY <1>1, <1>2, <1>3, <1>6 DEF KeysPending, MousePending, Resetting, Noting
  <1>7. ASSUME NEW b \in Live, NEW k \in Keys, Unsent(b, k) PROVE Unsent(b, k)'
    <2>1. ~Offers(b)
      BY <1>1 DEF Offers
    <2>2. Routing /\ Polled
      BY <1>7 DEF Unsent, IInv
    <2> QED BY <1>1, <1>7, <2>1, <2>2, OfferStays
  <1>8. \/ at.in = "revoke" /\ KeysRevoked(at.b) /\ UNCHANGED <<inside, hover>>
        \/ at.in = "leave" /\ LeavePage(at.b) /\ UNCHANGED <<pressed, held, inside>>
        \/ at.in = "reset" /\ inside' = inside \ {at.b} /\ UNCHANGED <<pressed, held, hover, strays>>
    BY Zenon DEF FocusRevoked
  <1>9. at.in = "reset" => Resetting(at.b)
    BY DEF Resetting
  <1> QED BY <1>1, <1>4, <1>5, <1>6, <1>7, <1>8, <1>9, RevokingStep

LEMMA RevokedInWalkBalances ==
  ASSUME IInv, BInv, RevokedInWalk PROVE BInv'
  <1>1. /\ at.in \in Revoking /\ at.i > 0 /\ FocusRevoked(at) /\ Kinds /\ at.l \in Nat
        /\ UNCHANGED <<cur, batch, cef, owner, hosts, stopped, off>>
    BY SMT DEF RevokedInWalk, focus, ends, IInv, Kinds, Places
  <1>2. NoBrowser \in Browsers \cup {NoBrowser} /\ at.l + 1 \in Nat
    BY <1>1
  <1>3. ASSUME at.in = "reset" PROVE at'.in \in {"layer", "opening"} /\ at'.i = at.i
    <2>1. IsPlace([at EXCEPT !.in = "layer", !.l = at.l + 1, !.b = NoBrowser],
                  "layer", at.i, at.l + 1, at.handled)
      BY <1>1, <1>2, AtPlace, StagesThere, Zenon
    <2>2. IsPlace([at EXCEPT !.in = "opening", !.b = NoBrowser], "opening", at.i, at.l, at.handled)
      BY <1>1, <1>2, AtPlace, StagesThere, Zenon
    <2> QED BY <1>3, <2>1, <2>2 DEF RevokedInWalk, IsPlace
  <1>4. ASSUME at.in # "reset"
        PROVE  at' = StillRevoking(at) /\ at'.in \in {"leave", "reset"} /\ at'.i = at.i
    <2>1. at' = StillRevoking(at)
      BY <1>4 DEF RevokedInWalk
    <2> QED BY <1>1, <2>1, StillPlace DEF IsPlace
  <1>5. Routing' /\ at'.i = at.i
    BY <1>1, <1>3, <1>4 DEF Routing
  <1> QED BY <1>1, <1>3, <1>4, <1>5, MainRevokes

LEMMA RevokedBalances ==
  ASSUME IInv, BInv, Revoked PROVE BInv'
  <1>1. /\ at.in \in Revoking /\ at.i = 0 /\ FocusRevoked(at)
        /\ UNCHANGED <<cur, batch, cef, owner, hosts, stopped, off>>
        /\ at.in # "reset" => at' = StillRevoking(at)
        /\ at.in = "reset" => at' = Idle
    BY Zenon DEF Revoked, focus, ends
  <1>2. ~Routing
    BY <1>1, SMT DEF Routing, Revoking
  <1>3. at.in = "reset" => at'.in = "idle"
    BY <1>1, IdleFacts DEF IsPlace
  <1> QED BY <1>1, <1>2, <1>3, MainRevokes

-----------------------------------------------------------------------------
(* What Chromium is sent.                                                  *)

\* A press and its repeats are told of, a release is balanced, and what the ledger
\* then has of the owner's is down or yet to be offered.
LEMMA ConvertKeyTells ==
  ASSUME LedgerKinds, hosts \subseteq Browsers, NEW x \in Browsers, NEW k \in Keys, NEW act,
         ConvertKey(x, k, act), UNCHANGED <<hosts, stopped>>
  PROVE  /\ pressed' \in [Browsers -> SUBSET Keys]
         /\ strays' \in [Browsers -> SUBSET (Keys \cup {Mouse})]
         /\ held' \in [Browsers -> SUBSET (Keys \cup {Button})]
         /\ Told => Told'
         /\ \A b \in Browsers : Mouse \in strays'[b] <=> Mouse \in strays[b]
         /\ \A b \in Browsers, j \in Keys : j \in pressed'[b] /\ j \notin strays'[b] =>
              \/ b = x /\ j = k /\ act = "down" /\ owner = x
              \/ j \in pressed[b] /\ j \notin strays[b] /\ ~(b = x /\ j = k /\ act = "up")
  <1>1. ASSUME NEW b \in Live, x \in stopped PROVE b # x
    BY <1>1 DEF Live
  <1>2. (\A b \in Live : b \in Browsers) /\ Mouse \notin Keys /\ Live' = Live
    BY InputAssumption DEF Live
  <1>3. CASE /\ act = "down" /\ pressed' = [pressed EXCEPT ![x] = @ \cup {k}]
             /\ Send(x, k, TRUE)
             /\ strays' = [strays EXCEPT ![x] = IF owner = x THEN @ \ {k} ELSE @ \cup {k}]
    <2>1. /\ pressed' \in [Browsers -> SUBSET Keys]
          /\ strays' \in [Browsers -> SUBSET (Keys \cup {Mouse})]
          /\ held' \in [Browsers -> SUBSET (Keys \cup {Button})]
          /\ \A b \in Browsers : pressed'[b] = IF b = x THEN pressed[b] \cup {k} ELSE pressed[b]
          /\ \A b \in Browsers : strays'[b] = IF b # x THEN strays[b]
                                              ELSE IF owner = x THEN strays[b] \ {k}
                                              ELSE strays[b] \cup {k}
          /\ \A b \in Browsers :
               held'[b] = IF b = x /\ x \notin stopped THEN held[b] \cup {k} ELSE held[b]
      BY <1>3 DEF LedgerKinds, Send
    <2>2. Told => Told'
      BY <1>2, <2>1 DEF Told
    <2> QED BY <1>2, <1>3, <2>1, <2>2
  <1>4. CASE /\ act = "up" /\ pressed' = [pressed EXCEPT ![x] = @ \ {k}]
             /\ Send(x, k, FALSE) /\ strays' = [strays EXCEPT ![x] = @ \ {k}]
    <2>1. /\ pressed' \in [Browsers -> SUBSET Keys]
          /\ strays' \in [Browsers -> SUBSET (Keys \cup {Mouse})]
          /\ held' \in [Browsers -> SUBSET (Keys \cup {Button})]
          /\ \A b \in Browsers : pressed'[b] = IF b = x THEN pressed[b] \ {k} ELSE pressed[b]
          /\ \A b \in Browsers : strays'[b] = IF b = x THEN strays[b] \ {k} ELSE strays[b]
          /\ \A b \in Browsers :
               held'[b] = IF b = x /\ x \notin stopped THEN held[b] \ {k} ELSE held[b]
      BY <1>4 DEF LedgerKinds, Send
    <2>2. Told => Told'
      BY <1>1, <1>2, <2>1 DEF Told
    <2> QED BY <1>2, <1>4, <2>1, <2>2
  <1>5. CASE /\ act = "held" /\ Send(x, k, TRUE) /\ pressed' = pressed
             /\ strays' = IF k \in pressed[x] THEN strays ELSE [strays EXCEPT ![x] = @ \cup {k}]
    <2>1. /\ strays' \in [Browsers -> SUBSET (Keys \cup {Mouse})]
          /\ held' \in [Browsers -> SUBSET (Keys \cup {Button})]
          /\ \A b \in Browsers :
               strays'[b] = IF b = x /\ k \notin pressed[x] THEN strays[b] \cup {k} ELSE strays[b]
          /\ \A b \in Browsers :
               held'[b] = IF b = x /\ x \notin stopped THEN held[b] \cup {k} ELSE held[b]
      BY <1>5 DEF LedgerKinds, Send
    <2>2. Told => Told'
      BY <1>2, <1>5, <2>1 DEF Told
    <2> QED BY <1>2, <1>5, <2>1, <2>2 DEF LedgerKinds
  <1>6. CASE act = "held" /\ UNCHANGED <<pressed, held, strays>>
    BY <1>6 DEF LedgerKinds, Told, Live
  <1> QED BY <1>3, <1>4, <1>5, <1>6, Zenon DEF ConvertKey

\* Of the mouse's button the ledger knows nothing, and of the mouse only the flag.
LEMMA MouseTells ==
  ASSUME LedgerKinds, hosts \subseteq Browsers, NEW x \in Browsers, UNCHANGED <<hosts, stopped>>,
         ClickMouse(x) \/ MoveMouse(x)
  PROVE  /\ pressed' \in [Browsers -> SUBSET Keys]
         /\ strays' \in [Browsers -> SUBSET (Keys \cup {Mouse})]
         /\ held' \in [Browsers -> SUBSET (Keys \cup {Button})]
         /\ Told => Told'
         /\ \A b \in Browsers, j \in Keys : j \in pressed'[b] /\ j \notin strays'[b] =>
              j \in pressed[b] /\ j \notin strays[b]
  <1>1. /\ (\A b \in Live : b \in Browsers) /\ Live' = Live
        /\ Mouse \notin Keys /\ Button \notin Keys
    BY InputAssumption DEF Live
  <1>2. /\ pressed' = pressed
        /\ \/ held' = held
           \/ held' = [held EXCEPT ![x] = @ \cup {Button}]
           \/ held' = [held EXCEPT ![x] = @ \ {Button}]
        /\ strays' = strays \/ strays' = [strays EXCEPT ![x] = @ \ {Mouse}]
    BY DEF ClickMouse, MoveMouse, LeavePage
  <1>3. /\ held' \in [Browsers -> SUBSET (Keys \cup {Button})]
        /\ \A b \in Browsers, j \in Keys : j \in held'[b] => j \in held[b]
    BY <1>1, <1>2 DEF LedgerKinds
  <1>4. /\ strays' \in [Browsers -> SUBSET (Keys \cup {Mouse})]
        /\ \A b \in Browsers, j \in Keys : j \in strays'[b] <=> j \in strays[b]
    BY <1>1, <1>2 DEF LedgerKinds
  <1>5. Told => Told'
    BY <1>1, <1>2, <1>3, <1>4 DEF Told
  <1> QED BY <1>2, <1>3, <1>4, <1>5 DEF LedgerKinds

LEMMA ProcessEventBalances ==
  ASSUME IInv, BInv, ProcessEvent PROVE BInv'
  <1>1. /\ at.in = "send" /\ Routing /\ Kinds /\ Polled /\ off \in BOOLEAN
        /\ UNCHANGED <<cur, batch, cef, hosts, stopped, off, owner, inside>>
        /\ LedgerKinds /\ Told /\ hosts \subseteq Browsers /\ at.b \in Browsers
        /\ at.i \in 1..Len(batch)
    BY Zenon DEF ProcessEvent, Routing, focus, ends, IInv, Kinds, BInv, LedgerKinds
  <1>2. IF Ev.key = Mouse THEN at' = [at EXCEPT !.in = "note"]
                          ELSE at' = [at EXCEPT !.in = "opening", !.b = NoBrowser, !.handled = TRUE]
    BY DEF ProcessEvent
  <1>3. /\ at'.i = at.i /\ Routing'
        /\ at'.in = IF Ev.key = Mouse THEN "note" ELSE "opening"
    <2>1. CASE Ev.key = Mouse
      <3>1. IsPlace(at', "note", at.i, at.l, at.handled)
        BY <1>1, <1>2, <2>1, AtPlace, StagesThere, Zenon
      <3> QED BY <2>1, <3>1 DEF IsPlace, Routing
    <2>2. CASE Ev.key # Mouse
      <3>1. /\ at' = [at EXCEPT !.in = "opening", !.b = NoBrowser, !.handled = TRUE]
            /\ NoBrowser \in Browsers \cup {NoBrowser}
        BY <1>2, <2>2
      <3>2. IsPlace(at', "opening", at.i, at.l, TRUE)
        BY <1>1, <3>1, AtPlace, StagesThere, Zenon
      <3> QED BY <2>2, <3>2 DEF IsPlace, Routing
    <2> QED BY <2>1, <2>2
  <1>4. Ev.key = Mouse => at'.b = at.b
    <2>1. at \in Places /\ "note" \in Stages
      BY <1>1 DEF Kinds, Stages
    <2>2. [at EXCEPT !.in = "note"].b = at.b
      BY <2>1, PutOfB
    <2> QED BY <1>2, <2>2
  <1>5. /\ Live' = Live /\ Mouse \notin Keys /\ Button \notin Keys /\ Mouse # Button
        /\ \A b \in Live : b \in Browsers
    BY <1>1, InputAssumption DEF Live, Mouse, Button
  <1>6. \A b : /\ KeysPending(b)' <=> KeysPending(b)
               /\ MousePending(b)' <=> MousePending(b)
               /\ Resetting(b)' <=> Resetting(b)
    BY <1>1, <1>3 DEF KeysPending, MousePending, Resetting
  \* What the owner is told, and what its ledger has afterwards.
  <1>7. /\ pressed' \in [Browsers -> SUBSET Keys]
        /\ strays' \in [Browsers -> SUBSET (Keys \cup {Mouse})]
        /\ held' \in [Browsers -> SUBSET (Keys \cup {Button})]
        /\ Told'
        /\ \A b \in Browsers, j \in Keys : j \in pressed'[b] /\ j \notin strays'[b] =>
             \/ b = at.b /\ Goes(at.i, "down", j) /\ owner = b
             \/ j \in pressed[b] /\ j \notin strays[b] /\ ~(b = at.b /\ Goes(at.i, "up", j))
    <2>1. CASE IsKey
      <3>1. ConvertKey(at.b, Ev.key, Ev.act) /\ Ev.key \in Keys /\ UNCHANGED <<hosts, stopped>>
        BY <1>1, <2>1 DEF ProcessEvent, IsKey
      <3>2. \A j, a : Goes(at.i, a, j) <=> j = Ev.key /\ a = Ev.act
        BY DEF Goes, Ev
      <3>3. /\ pressed' \in [Browsers -> SUBSET Keys]
            /\ strays' \in [Browsers -> SUBSET (Keys \cup {Mouse})]
            /\ held' \in [Browsers -> SUBSET (Keys \cup {Button})]
            /\ Told => Told'
            /\ \A b \in Browsers, j \in Keys : j \in pressed'[b] /\ j \notin strays'[b] =>
                 \/ b = at.b /\ j = Ev.key /\ Ev.act = "down" /\ owner = at.b
                 \/ j \in pressed[b] /\ j \notin strays[b] /\ ~(b = at.b /\ j = Ev.key /\ Ev.act = "up")
        BY <1>1, <3>1, ConvertKeyTells
      <3> QED BY <1>1, <3>2, <3>3
    <2>2. CASE ~IsKey
      <3>1. ClickMouse(at.b) \/ MoveMouse(at.b)
        BY <2>2 DEF ProcessEvent
      <3>2. \A j \in Keys : ~Goes(at.i, "up", j)
        BY <2>2 DEF IsKey, Goes, Ev
      <3> QED BY <1>1, <3>1, <3>2, MouseTells
    <2> QED BY <2>1, <2>2
  <1>8. LedgerKinds' /\ Gone'
    BY <1>1, <1>3, <1>4, <1>7 DEF BInv, LedgerKinds, Gone
  <1>9. Ledgers'
    <2> SUFFICES ASSUME NEW b \in Live, NEW k \in Keys, k \in pressed'[b], k \notin strays'[b]
                 PROVE  owner = b \/ KeysPending(b)
      BY <1>1, <1>5, <1>6 DEF Ledgers
    <2> QED BY <1>5, <1>7 DEF BInv, Ledgers
  <1>10. Down'
    <2>1. ASSUME NEW b \in Live, NEW k \in Keys, k \in pressed'[b], k \notin strays'[b], owner = b,
                 ~KeysPending(b)
          PROVE  \/ k \in cur
                 \/ k \in pressed[b] /\ k \notin strays[b] /\ (Unsent(b, k) => Unsent(b, k)')
      <3>1. CASE Goes(at.i, "down", k)
        BY <1>1, <3>1 DEF Polled, Goes
      <3>2. CASE ~Goes(at.i, "down", k)
        <4>1. k \in pressed[b] /\ k \notin strays[b] /\ ~(b = at.b /\ Goes(at.i, "up", k))
          BY <1>5, <1>7, <2>1, <3>2
        <4>2. ~(Offers(b) /\ Goes(at.i, "up", k))
          BY <1>1, <4>1 DEF Offers
        <4> QED BY <1>1, <1>3, <4>1, <4>2, OfferStays
      <3> QED BY <3>1, <3>2
    <2> QED BY <1>1, <1>5, <1>6, <2>1, DownStays DEF BInv
  \* The mouse.
  <1>11. \A b : ~Noting(b) /\ ~Leaving(b)
    BY <1>1 DEF Noting, Leaving
  <1>12. Inside' /\ Left' /\ Forgets'
    <2>1. CASE Ev.key # Mouse
      <3>1. \A b : ~Noting(b)' /\ ~Leaving(b)'
        BY <1>3, <2>1 DEF Noting, Leaving
      <3>2. IsKey \/ Ev.key = Button
        <4>1. batch[at.i] \in Event
          BY <1>1, SMT DEF Polled
        <4> QED BY <2>1, <4>1 DEF Event, IsKey, Ev
      <3>3. hover' = hover
        BY <3>2 DEF ProcessEvent, ClickMouse
      <3>4. \A b \in Browsers : Mouse \in strays'[b] <=> Mouse \in strays[b]
        <4>1. CASE IsKey
          <5>1. ConvertKey(at.b, Ev.key, Ev.act) /\ Ev.key \in Keys /\ UNCHANGED <<hosts, stopped>>
            BY <1>1, <4>1 DEF ProcessEvent, IsKey
          <5> QED BY <1>1, <5>1, ConvertKeyTells
        <4>2. CASE ~IsKey /\ Ev.key = Button
          BY <4>2 DEF ProcessEvent, ClickMouse
        <4> QED BY <3>2, <4>1, <4>2
      <3>5. ASSUME NEW b \in Live' PROVE Kept(b)' => Kept(b)
        BY <1>5, <3>3, <3>4, <3>5 DEF Kept
      <3> QED BY <1>1, <1>6, <1>11, <3>1, <3>5, MouseStays DEF BInv
    <2>2. CASE Ev.key = Mouse
      <3>1. MoveMouse(at.b)
        BY <1>5, <2>2 DEF ProcessEvent, IsKey
      <3>2. /\ \A b : Noting(b)' <=> b = at.b /\ Ev.over
            /\ \A b : Leaving(b)' <=> b = at.b /\ ~Ev.over
        BY <1>1, <1>3, <1>4, <2>2 DEF Noting, Leaving, Ev
      <3>3. CASE Ev.over
        <4>1. ASSUME NEW b \in Live, b # at.b, Kept(b)' PROVE Kept(b)
          BY <3>1, <3>3, <4>1 DEF MoveMouse, Kept
        <4>2. Inside' /\ Forgets'
          BY <1>1, <1>5, <1>6, <1>11, <3>2, <3>3, <4>1 DEF BInv, Inside, Forgets
        <4>3. Left'
          BY <3>2, <3>3 DEF Left
        <4> QED BY <4>2, <4>3
      <3>4. CASE ~Ev.over
        <4>1. LeavePage(at.b)
          BY <3>1, <3>4 DEF MoveMouse
        <4>2. ASSUME NEW b \in Live, Kept(b)' PROVE Kept(b) /\ b # at.b
          <5>1. CASE at.b \in inside
            <6>1. b \in hover /\ b # at.b /\ strays' = [strays EXCEPT ![at.b] = @ \ {Mouse}]
              BY <4>1, <4>2, <5>1 DEF LeavePage, Kept
            <6>2. strays'[b] = strays[b]
              BY <1>1, <1>5, <6>1 DEF LedgerKinds
            <6> QED BY <4>2, <6>1, <6>2 DEF Kept
          <5>2. CASE at.b \notin inside
            <6>1. Kept(b)
              BY <4>1, <4>2, <5>2 DEF LeavePage, Kept
            <6> QED BY <1>11, <5>2, <6>1 DEF BInv, Inside
          <5> QED BY <5>1, <5>2
        <4>3. \A b : ~Noting(b)'
          BY <3>2, <3>4
        <4> QED BY <1>1, <1>5, <1>6, <1>11, <3>2, <4>2, <4>3, MouseStays DEF BInv
      <3> QED BY <3>3, <3>4
    <2> QED BY <2>1, <2>2
  <1> QED BY <1>7, <1>8, <1>9, <1>10, <1>12 DEF BInv

\* The flag catches up with what was sent, or the mouse strays.
LEMMA NoteMouseBalances ==
  ASSUME IInv, BInv, NoteMouse PROVE BInv'
  <1>1. /\ at.in = "note" /\ Routing /\ Kinds /\ Polled /\ off \in BOOLEAN
        /\ UNCHANGED <<cur, batch, cef, hosts, stopped, off, owner, pressed, held, hover>>
        /\ LedgerKinds /\ hosts \subseteq Browsers /\ at.b \in Browsers
    BY Zenon DEF NoteMouse, Routing, focus, ends, IInv, Kinds, BInv, LedgerKinds
  <1>2. at'.in = "opening" /\ at'.i = at.i /\ Routing'
    <2>1. at' = [at EXCEPT !.in = "opening", !.b = NoBrowser, !.handled = TRUE]
      BY DEF NoteMouse
    <2>2. IsPlace(at', "opening", at.i, at.l, TRUE)
      BY <1>1, <2>1, AtPlace, StagesThere, Zenon
    <2> QED BY <2>2 DEF IsPlace, Routing
  <1>3. /\ Live' = Live /\ Mouse \notin Keys
        /\ \A b \in Live : b \in Browsers
    BY <1>1, InputAssumption DEF Live
  <1>4. \A b : /\ KeysPending(b)' <=> KeysPending(b)
               /\ MousePending(b)' <=> MousePending(b)
               /\ Resetting(b)' <=> Resetting(b)
               /\ ~Noting(b)' /\ ~Leaving(b)'
    BY <1>1, <1>2 DEF KeysPending, MousePending, Resetting, Noting, Leaving
  <1>5. /\ strays' \in [Browsers -> SUBSET (Keys \cup {Mouse})]
        /\ \A b \in Browsers, k \in Keys : k \in strays'[b] <=> k \in strays[b]
        /\ \A b \in Browsers : b # at.b => strays'[b] = strays[b]
    <2>1. \/ strays' = strays
          \/ strays' = [strays EXCEPT ![at.b] = @ \cup {Mouse}]
          \/ strays' = [strays EXCEPT ![at.b] = @ \ {Mouse}]
      BY DEF NoteMouse
    <2> QED BY <1>1, <1>3, <2>1 DEF LedgerKinds
  <1>6. LedgerKinds' /\ Gone' /\ Told'
    BY <1>1, <1>2, <1>3, <1>5 DEF BInv, LedgerKinds, Gone, Told
  <1>7. Ledgers'
    BY <1>1, <1>3, <1>4, <1>5 DEF BInv, Ledgers
  <1>8. Down'
    <2>1. ASSUME NEW b \in Live, NEW k \in Keys PROVE Unsent(b, k) => Unsent(b, k)'
      <3>1. ~Offers(b)
        BY <1>1 DEF Offers
      <3> QED BY <1>1, <1>2, <3>1, OfferStays
    <2> QED BY <1>1, <1>3, <1>4, <1>5, <2>1, DownStays DEF BInv
  <1>9. ASSUME NEW b \in Live, Kept(b)'
        PROVE  b \in inside' /\ (owner = b \/ MousePending(b)) /\ ~Resetting(b)
    <2>1. b \in Browsers
      BY <1>3
    <2>2. CASE b # at.b
      <3>1. Kept(b) /\ ~Noting(b)
        BY <1>1, <1>5, <1>9, <2>1, <2>2 DEF Kept, Noting
      <3>2. b \in inside /\ (owner = b \/ MousePending(b)) /\ ~Resetting(b)
        BY <3>1 DEF BInv, Inside, Forgets
      <3> QED BY <2>2, <3>2 DEF NoteMouse
    <2>3. CASE b = at.b /\ ~Ev.over
      <3>1. Kept(b) /\ Leaving(b)
        BY <1>1, <1>9, <2>3 DEF NoteMouse, Kept, Leaving
      <3> QED BY <3>1 DEF BInv, Left
    <2>4. CASE b = at.b /\ Ev.over
      <3>1. ~(owner # b \/ (cef.in = "reset" /\ cef.b = b))
        <4>1. SUFFICES ASSUME owner # b \/ (cef.in = "reset" /\ cef.b = b) PROVE FALSE
          OBVIOUS
        <4>2. strays' = [strays EXCEPT ![b] = @ \cup {Mouse}]
          BY <2>4, <4>1 DEF NoteMouse
        <4> QED BY <1>1, <1>9, <2>1, <4>2 DEF Kept, LedgerKinds
      <3>2. b \in inside'
        BY <2>4 DEF NoteMouse
      <3> QED BY <1>1, <3>1, <3>2 DEF Resetting
    <2> QED BY <2>2, <2>3, <2>4
  <1>10. Inside' /\ Left' /\ Forgets'
    BY <1>1, <1>3, <1>4, <1>9 DEF Inside, Left, Forgets
  <1> QED BY <1>6, <1>7, <1>8, <1>10 DEF BInv

-----------------------------------------------------------------------------
(* The rest of the main thread.                                            *)

\* The keys the batch lets go are in it.
LEMMA PollBalances ==
  ASSUME IInv, BInv, Poll PROVE BInv'
  <1>1. PICK s \in Batches : /\ batch' = s
                             /\ cur' = (cur \ Keyed(s, "up")) \cup Keyed(s, "down")
    BY DEF Poll
  <1>2. /\ UNCHANGED <<cef, owner, hosts, stopped, off, pressed, held, inside, hover, strays>>
        /\ at = Idle
    BY Zenon DEF Poll, focus, ends, ledgers
  <1>3. /\ at.in = "idle" /\ ~Routing
        /\ at'.in \in {"toggle", "forward"}
        /\ ~off => Routing' /\ at'.i = 1 /\ at'.in = "toggle"
    BY <1>2, IdleFacts DEF Poll, IsPlace, Routing
  <1>4. LedgerKinds' /\ Gone' /\ Told' /\ Live' = Live
    BY <1>2, <1>3 DEF BInv, LedgerKinds, Gone, Told, Live
  <1>5. \A b : /\ KeysPending(b)' <=> KeysPending(b)
               /\ MousePending(b)' <=> MousePending(b)
               /\ Resetting(b)' <=> Resetting(b)
               /\ ~Noting(b) /\ ~Noting(b)' /\ ~Leaving(b)'
    BY <1>2, <1>3 DEF KeysPending, MousePending, Resetting, Noting, Leaving
  <1>6. Ledgers'
    BY <1>2, <1>4, <1>5 DEF BInv, Ledgers
  <1>7. Down'
    <2> SUFFICES ASSUME ~off, NEW b \in Live, NEW k \in Keys, k \in pressed[b], k \notin strays[b],
                        owner = b, ~KeysPending(b), k \notin cur'
                 PROVE  Unsent(b, k)'
      BY <1>2, <1>4, <1>5 DEF Down
    <2>1. k \in cur
      BY <1>3 DEF BInv, Down, Unsent
    <2>2. k \in Keyed(s, "up")
      BY <1>1, <2>1
    <2>3. PICK i \in DOMAIN s : s[i].act = "up" /\ s[i].key = k
      BY <2>2 DEF Keyed
    <2>4. i \in 1..Len(s) /\ (i > 1 \/ i = 1)
      BY BatchFacts, SMT
    <2>5. Goes(i, "up", k)' /\ Offers(b)'
      BY <1>1, <1>3, <2>3 DEF Goes, Offers
    <2> QED BY <1>1, <1>3, <2>4, <2>5 DEF Unsent
  <1>8. Inside' /\ Left' /\ Forgets'
    <2>1. \A b : Kept(b)' <=> Kept(b)
      BY <1>2 DEF Kept
    <2> QED BY <1>2, <1>4, <1>5, <2>1, MouseStays DEF BInv
  <1> QED BY <1>4, <1>6, <1>7, <1>8 DEF BInv

\* No event is in hand, and whoever loses the focus is about to be told.
LEMMA RestBalances ==
  ASSUME IInv, BInv, UNCHANGED <<cur, cef, pressed, held, inside, hover, strays, hosts, stopped>>,
         off => off', off' \in BOOLEAN, at.in \in {"idle", "forward"},
         \/ at'.in \in {"idle", "forward"} /\ owner' = owner
         \/ at'.in = "idle" /\ owner = NoBrowser
         \/ at'.in = "revoke" /\ at'.b = owner
  PROVE  BInv'
  <1>1. ~Routing /\ hosts \subseteq Browsers
    BY DEF Routing, IInv, Kinds
  <1>2. cef' \in CefPlaces /\ Gone'
    BY DEF BInv, LedgerKinds, Gone
  <1>3. ASSUME NEW b \in Live'
        PROVE  /\ owner = b => owner' = b \/ KeysPending(b)'
               /\ KeysPending(b) => KeysPending(b)'
               /\ MousePending(b) => MousePending(b)'
               /\ Resetting(b)' => Resetting(b)
               /\ \A k \in Keys : ~Unsent(b, k)
    BY <1>1, <1>3, InputAssumption DEF Live, KeysPending, MousePending, Resetting, Unsent
  <1> QED BY <1>2, <1>3, QuietStep

LEMMA ForwardBalances ==
  ASSUME IInv, BInv, Forward PROVE BInv'
  <1>1. /\ UNCHANGED <<cur, cef, owner, pressed, held, inside, hover, strays, hosts, stopped, off>>
        /\ at.in = "forward" /\ off \in BOOLEAN
    BY Zenon DEF Forward, focus, ends, ledgers, IInv, Kinds
  <1>2. at'.in = "idle"
    BY IdleFacts DEF Forward, IsPlace
  <1> QED BY <1>1, <1>2, RestBalances

LEMMA RunTaskBalances ==
  ASSUME IInv, BInv, NEW b \in Browsers, RunTask(b) PROVE BInv'
  <1>1. /\ UNCHANGED <<cur, cef, pressed, held, inside, hover, strays, hosts, stopped, off>>
        /\ at = Idle /\ off \in BOOLEAN /\ owner \in Browsers \cup {NoBrowser}
    BY Zenon DEF RunTask, ends, ledgers, IInv, Kinds
  <1>2. at.in = "idle"
    BY <1>1, IdleFacts DEF IsPlace
  <1>3. ASSUME NEW c \in Browsers
        PROVE  LET a == [Idle EXCEPT !.in = "revoke", !.b = c] IN a.in = "revoke" /\ a.b = c
    <2>1. [Idle EXCEPT !.in = "revoke", !.b = c].in = "revoke"
      BY IdleFacts DEF IsPlace
    <2>2. [Idle EXCEPT !.in = "revoke", !.b = c].b = c
      <3>1. Idle \in Places /\ "revoke" \in Stages /\ c \in Browsers \cup {NoBrowser}
        BY IdleFacts DEF IsPlace, Stages
      <3> QED BY <3>1, PutOfB
    <2> QED BY <2>1, <2>2
  <1>4. \/ UNCHANGED <<at, owner>>
        \/ at' = Idle /\ owner = NoBrowser
        \/ at'.in = "revoke" /\ at'.b = owner
    <2>1. CASE owner # b /\ TakeFocus(b) /\ at' = IF owner = NoBrowser THEN Idle
                                                 ELSE [Idle EXCEPT !.in = "revoke", !.b = owner]
      BY <1>1, <1>3, <2>1, Zenon
    <2>2. CASE owner = b /\ GiveUpFocus /\ at' = [Idle EXCEPT !.in = "revoke", !.b = b]
      BY <1>3, <2>2, Zenon
    <2>3. CASE UNCHANGED <<at, focus>>
      BY <2>3 DEF focus
    <2> QED BY <2>1, <2>2, <2>3, Zenon DEF RunTask
  <1> QED BY <1>1, <1>2, <1>4, RestBalances

LEMMA SetShuttingDownBalances ==
  ASSUME IInv, BInv, SetShuttingDown PROVE BInv'
  <1>1. /\ UNCHANGED <<cur, cef, pressed, held, inside, hover, strays, hosts, stopped, at, owner>>
        /\ at = Idle /\ off' = TRUE
    BY Zenon DEF SetShuttingDown, focus, ledgers
  <1>2. at.in = "idle"
    BY <1>1, IdleFacts DEF IsPlace
  <1> QED BY <1>1, <1>2, RestBalances

\* Every ledger is emptied, with a word to Chromium.
LEMMA WindowBalances ==
  ASSUME IInv, BInv, WindowInactive PROVE BInv'
  <1>1. /\ at = Idle /\ ReleasePressedKeys(Browsers) /\ hosts \subseteq Browsers
        /\ UNCHANGED <<cur, batch, at, cef, hosts, stopped, inside, hover, owner, off>>
    BY Zenon DEF WindowInactive, focus, ends, IInv, Kinds
  <1>2. at.in = "idle" /\ Live' = Live /\ (\A b \in Live : b \in Browsers /\ b \notin stopped)
    BY <1>1, IdleFacts DEF IsPlace, Live
  <1>3. /\ held' = [b \in Browsers |-> IF b \in Browsers \ stopped THEN held[b] \ pressed[b] ELSE held[b]]
        /\ pressed' = [b \in Browsers |-> {}]
        /\ strays' = [b \in Browsers |-> strays[b] \ pressed[b]]
    BY <1>1 DEF ReleasePressedKeys
  <1>4. LedgerKinds' /\ Gone'
    BY <1>1, <1>3 DEF BInv, LedgerKinds, Gone
  <1>5. Told' /\ Ledgers' /\ Down'
    BY <1>2, <1>3 DEF BInv, Told, Ledgers, Down
  <1>6. \A b \in Live : Kept(b)' => Kept(b)
    BY <1>1, <1>2, <1>3, InputAssumption DEF Kept, BInv, LedgerKinds
  <1>7. \A b : /\ MousePending(b)' <=> MousePending(b)
               /\ Resetting(b)' <=> Resetting(b)
               /\ ~Noting(b) /\ ~Leaving(b)'
    BY <1>1, <1>2 DEF MousePending, Resetting, Noting, Leaving
  <1>8. Inside' /\ Left' /\ Forgets'
    BY <1>1, <1>2, <1>6, <1>7, MouseStays DEF BInv
  <1> QED BY <1>4, <1>5, <1>8 DEF BInv

-----------------------------------------------------------------------------
(* The CEF thread.                                                         *)

\* A step of the CEF thread that empties no ledger; if it takes the focus from its owner,
\* OnFocusRevoked comes next.
LEMMA CefStepBalances ==
  ASSUME IInv, BInv, Gone', cef' \in CefPlaces,
         cef.in \notin Revoking, cef'.in \in CefStages \ {"leave", "reset"},
         hosts' \subseteq hosts, stopped \subseteq stopped',
         UNCHANGED <<cur, batch, at, off, pressed, held, inside, hover, strays>>,
         owner \in Browsers => owner' = owner \/ (cef'.in = "revoke" /\ cef'.b = owner)
  PROVE  BInv'
  <1>1. off \in BOOLEAN /\ \A b \in Live' : b \in Browsers
    BY DEF IInv, Kinds, Live
  <1>2. ASSUME NEW b \in Live'
        PROVE  /\ owner = b => owner' = b \/ KeysPending(b)'
               /\ KeysPending(b) => KeysPending(b)'
               /\ MousePending(b) => MousePending(b)'
               /\ Resetting(b)' => Resetting(b)
    BY <1>1, <1>2 DEF KeysPending, MousePending, Resetting, Revoking
  <1>3. ASSUME NEW b \in Live', NEW k \in Keys, Unsent(b, k) PROVE Unsent(b, k)'
    BY <1>3, Zenon DEF Unsent, Routing, Goes, Offers
  <1>4. at'.in \in {"send", "note"} => at'.b \in Browsers
    BY DEF BInv, LedgerKinds
  <1> QED BY <1>1, <1>2, <1>3, <1>4, QuietStep

LEMMA TryFocusBalances ==
  ASSUME IInv, BInv, NEW b \in Browsers, TryFocus(b) PROVE BInv'
  <1>1. /\ UNCHANGED <<cur, batch, at, cef, hosts, stopped, off, pressed, held, inside, hover, strays>>
        /\ owner = NoBrowser /\ cef = Idle
    BY Zenon DEF TryFocus, ends, ledgers
  <1>2. cef.in = "idle" /\ cef' \in CefPlaces /\ Gone'
    BY <1>1, CefFacts DEF IsCefPlace, BInv, LedgerKinds, Gone
  <1>3. cef.in \notin Revoking /\ cef'.in \in CefStages \ {"leave", "reset"}
    BY <1>1, <1>2 DEF CefStages, Revoking
  <1> QED BY <1>1, <1>2, <1>3, InputAssumption, CefStepBalances

LEMMA RendererTerminatedBalances ==
  ASSUME IInv, BInv, NEW b \in Browsers, RendererTerminated(b) PROVE BInv'
  <1>1. cef = Idle /\ UNCHANGED <<cur, batch, at, owner, off, hosts, stopped, pressed, held, inside, hover, strays>>
    BY Zenon DEF RendererTerminated, focus, ends, ledgers
  <1>2. IsCefPlace(cef', "release", b, FALSE)
    <2>1. cef' = [Idle EXCEPT !.in = "release", !.b = b] /\ "release" \in CefStages
      BY <1>1, CefFacts DEF RendererTerminated
    <2> QED BY <2>1, CefFacts, Zenon
  <1>3. cef.in = "idle"
    BY <1>1, CefFacts DEF IsCefPlace
  <1> QED BY <1>1, <1>2, <1>3, CefStepBalances, CefFacts DEF IsCefPlace, Gone, Revoking

LEMMA BeginShutdownBalances ==
  ASSUME IInv, BInv, NEW b \in Browsers, BeginShutdown(b) PROVE BInv'
  <1>1. /\ cef = Idle /\ stopped' = stopped \cup {b}
        /\ UNCHANGED <<cur, batch, at, owner, off, hosts, pressed, held, inside, hover, strays>>
    BY Zenon DEF BeginShutdown, focus, ledgers
  <1>2. IsCefPlace(cef', "release", b, FALSE)
    <2>1. cef' = [Idle EXCEPT !.in = "release", !.b = b] /\ "release" \in CefStages
      BY <1>1, CefFacts DEF BeginShutdown
    <2> QED BY <2>1, CefFacts, Zenon
  <1>3. cef.in = "idle"
    BY <1>1, CefFacts DEF IsCefPlace
  <1> QED BY <1>1, <1>2, <1>3, CefStepBalances, CefFacts DEF IsCefPlace, Gone, Revoking

LEMMA BeforeCloseBalances ==
  ASSUME IInv, BInv, NEW b \in Browsers, BeforeClose(b) PROVE BInv'
  <1>1. /\ cef = Idle /\ hosts' = hosts \ {b}
        /\ UNCHANGED <<cur, batch, at, owner, off, stopped, pressed, held, inside, hover, strays>>
    BY Zenon DEF BeforeClose, focus, ledgers
  <1>2. IsCefPlace(cef', "stop", b, FALSE)
    <2>1. cef' = [Idle EXCEPT !.in = "stop", !.b = b] /\ "stop" \in CefStages
      BY <1>1, CefFacts DEF BeforeClose
    <2> QED BY <2>1, CefFacts, Zenon
  <1>3. cef.in = "idle"
    BY <1>1, CefFacts DEF IsCefPlace
  <1> QED BY <1>1, <1>2, <1>3, CefStepBalances, CefFacts DEF IsCefPlace, Gone, Revoking

LEMMA CefBrowserBalances ==
  ASSUME IInv, BInv, CefBrowserBeforeClose PROVE BInv'
  <1>1. /\ cef.in = "stop" /\ stopped' = stopped \cup {cef.b}
        /\ UNCHANGED <<cur, batch, at, owner, off, hosts, pressed, held, inside, hover, strays>>
    BY Zenon DEF CefBrowserBeforeClose, focus, ledgers
  <1>2. IsCefPlace(cef', "release", cef.b, TRUE)
    BY CefPlaceNow, CefFacts DEF CefBrowserBeforeClose
  <1>3. cef.b \notin hosts
    BY <1>1 DEF BInv, Gone
  <1>4. Gone'
    BY <1>1, <1>2, <1>3 DEF Gone, IsCefPlace
  <1> QED BY <1>1, <1>2, <1>4, CefStepBalances, CefFacts DEF IsCefPlace, Revoking

\* Where AfterRelease leads.
LEMMA AfterReleaseFacts ==
  ASSUME BInv, AfterRelease, UNCHANGED hosts
  PROVE  /\ cef' \in CefPlaces /\ cef'.in \in {"idle", "clear"}
         /\ Gone'
  <1>1. CASE cef.handled
    <2>1. IsCefPlace(cef', "clear", cef.b, cef.handled)
      BY <1>1, CefPlaceNow, CefFacts DEF AfterRelease
    <2> QED BY <1>1, <2>1 DEF IsCefPlace, Gone, BInv
  <1>2. CASE ~cef.handled
    <2>1. IsCefPlace(cef', "idle", NoBrowser, FALSE)
      BY <1>2, CefFacts DEF AfterRelease
    <2> QED BY <2>1 DEF IsCefPlace, Gone
  <1> QED BY <1>1, <1>2

LEMMA ReleaseBalances ==
  ASSUME IInv, BInv, Release PROVE BInv'
  <1>1. /\ UNCHANGED <<cur, batch, at, hosts, stopped, off, pressed, held, inside, hover, strays>>
        /\ cef.in = "release" /\ cef.in \notin Revoking
    BY Zenon DEF Release, ends, ledgers, Revoking
  <1>2. CASE owner = cef.b
    <2>1. cef' = [cef EXCEPT !.in = "revoke"]
      BY <1>2 DEF Release
    <2>2. IsCefPlace(cef', "revoke", cef.b, cef.handled)
      BY <2>1, CefPlaceNow, CefFacts
    <2>3. Gone'
      BY <1>1, <2>2 DEF BInv, Gone, IsCefPlace
    <2> QED BY <1>1, <1>2, <2>2, <2>3, CefStepBalances, CefFacts DEF IsCefPlace
  <1>3. CASE owner # cef.b
    <2>1. AfterRelease /\ UNCHANGED owner
      BY <1>3, Zenon DEF Release, focus
    <2>2. /\ cef' \in CefPlaces /\ cef'.in \in {"idle", "clear"} /\ Gone'
      BY <1>1, <2>1, AfterReleaseFacts
    <2> QED BY <1>1, <2>1, <2>2, CefStepBalances, CefFacts
  <1> QED BY <1>2, <1>3

\* A step of OnFocusRevoked on the CEF thread leaves the dispatch where it is.
LEMMA CefRevokes ==
  ASSUME IInv, BInv, UNCHANGED <<cur, batch, at, owner, hosts, stopped, off>>,
         NEW y \in Revoking, cef' \in CefPlaces, Gone',
         \/ y = "revoke" /\ KeysRevoked(cef.b) /\ UNCHANGED <<inside, hover>>
         \/ y = "leave" /\ LeavePage(cef.b) /\ UNCHANGED <<pressed, held, inside>>
         \/ y = "reset" /\ inside' = inside \ {cef.b} /\ UNCHANGED <<pressed, held, hover, strays>>,
         cef.in = y \/ (y = "revoke" /\ cef.b \notin hosts),
         y = "revoke" /\ cef.b \in hosts => cef'.in = "leave" /\ cef'.b = cef.b,
         cef'.in \in {"reset"} => cef'.b = cef.b /\ (y = "leave" \/ cef.b \notin hosts),
         cef'.in # "revoke"
  PROVE  BInv'
  <1>1. cef.b \in Browsers \cup {NoBrowser} /\ \A b \in Live : b \in hosts
    BY CefPlaceNow DEF Live
  <1>2. y = "reset" => Resetting(cef.b)
    BY DEF Resetting
  <1>3. ASSUME NEW b \in Live
        PROVE  /\ KeysPending(b) => KeysPending(b)' \/ (b = cef.b /\ y = "revoke")
               /\ MousePending(b) => MousePending(b)' \/ (b = cef.b /\ y = "leave")
               /\ Resetting(b)' => Resetting(b) \/ (b = cef.b /\ y = "leave")
               /\ KeysPending(b)' => KeysPending(b)
    BY <1>1, <1>3 DEF KeysPending, MousePending, Resetting
  <1>4. ASSUME NEW b \in Live
        PROVE  /\ Noting(b) => Noting(b)'
               /\ \A k \in Keys : Unsent(b, k) => Unsent(b, k)'
    BY <1>4, Zenon DEF Noting, Ev, Unsent, Routing, Goes, Offers
  <1> QED BY <1>1, <1>2, <1>3, <1>4, RevokingStep

LEMMA CefRevokedBalances ==
  ASSUME IInv, BInv, CefRevoked PROVE BInv'
  <1>1. /\ cef.in \in Revoking /\ FocusRevoked(cef)
        /\ UNCHANGED <<cur, batch, at, owner, hosts, stopped, off>>
    BY Zenon DEF CefRevoked, focus, ends
  <1>2. \/ cef.in = "revoke" /\ KeysRevoked(cef.b) /\ UNCHANGED <<inside, hover>>
        \/ cef.in = "leave" /\ LeavePage(cef.b) /\ UNCHANGED <<pressed, held, inside>>
        \/ cef.in = "reset" /\ inside' = inside \ {cef.b} /\ UNCHANGED <<pressed, held, hover, strays>>
    BY <1>1, Zenon DEF FocusRevoked
  <1>3. CASE cef.in = "reset"
    <2>1. cef' \in CefPlaces /\ cef'.in \in {"idle", "clear"} /\ Gone'
      BY <1>1, <1>3, AfterReleaseFacts DEF CefRevoked
    <2> QED BY <1>1, <1>2, <1>3, <2>1, CefRevokes
  <1>4. CASE cef.in # "reset"
    <2>1. PICK y \in {"leave", "reset"} : y = IF cef.in = "revoke" /\ cef.b \in hosts THEN "leave" ELSE "reset"
      OBVIOUS
    <2>2. cef' = [cef EXCEPT !.in = y]
      BY <1>4, <2>1, Zenon DEF CefRevoked, StillRevoking
    <2>3. IsCefPlace(cef', y, cef.b, cef.handled)
      BY <2>1, <2>2, CefPlaceNow, CefFacts
    <2>4. cef' \in CefPlaces /\ cef'.in = y /\ cef'.b = cef.b /\ Gone'
      BY <1>1, <2>1, <2>3 DEF IsCefPlace, Gone, BInv
    <2>5. y = "reset" => cef.in = "leave" \/ cef.b \notin hosts
      BY <1>1, <1>4, <2>1 DEF Revoking
    <2> QED BY <1>1, <1>2, <1>4, <2>1, <2>4, <2>5, CefRevokes
  <1> QED BY <1>3, <1>4

LEMMA ClearBalances ==
  ASSUME IInv, BInv, Clear PROVE BInv'
  <1>1. /\ cef.in = "clear" /\ ClearKeys(cef.b)
        /\ UNCHANGED <<cur, batch, at, owner, hosts, stopped, off, inside, hover>>
    BY Zenon DEF Clear, focus, ends
  <1>2. cef.b \notin hosts
    BY <1>1 DEF BInv, Gone
  <1>3. KeysRevoked(cef.b)
    BY <1>1, <1>2 DEF KeysRevoked
  <1>4. IsCefPlace(cef', "reset", cef.b, FALSE)
    BY CefPlaceNow, CefFacts DEF Clear
  <1>5. cef' \in CefPlaces /\ cef'.in = "reset" /\ cef'.b = cef.b /\ Gone'
    BY <1>4 DEF IsCefPlace, Gone
  <1>6. "revoke" \in Revoking
    BY DEF Revoking
  <1> QED BY <1>1, <1>2, <1>3, <1>5, <1>6, CefRevokes

-----------------------------------------------------------------------------
LEMMA NextBalances == IInv /\ BInv /\ [Next]_vars => BInv'
  <1> SUFFICES ASSUME IInv, BInv, [Next]_vars PROVE BInv'
    OBVIOUS
  <1>1. CASE Poll
    BY <1>1, PollBalances
  <1>2. CASE ProcessToggleKeys
    BY <1>2, ToggleBalances
  <1>3. CASE Layer
    BY <1>3, LayerBalances
  <1>4. CASE ProcessEvent
    BY <1>4, ProcessEventBalances
  <1>5. CASE NoteMouse
    BY <1>5, NoteMouseBalances
  <1>6. CASE ConsumeOpeningKeyRelease
    BY <1>6, OpeningBalances
  <1>7. CASE Forward
    BY <1>7, ForwardBalances
  <1>8. CASE RevokedInWalk
    BY <1>8, RevokedInWalkBalances
  <1>9. CASE Revoked
    BY <1>9, RevokedBalances
  <1>10. CASE WindowInactive
    BY <1>10, WindowBalances
  <1>11. CASE SetShuttingDown
    BY <1>11, SetShuttingDownBalances
  <1>12. ASSUME NEW b \in Browsers,
                RunTask(b) \/ TryFocus(b) \/ RendererTerminated(b) \/ BeginShutdown(b) \/ BeforeClose(b)
         PROVE  BInv'
    BY <1>12, RunTaskBalances, TryFocusBalances, RendererTerminatedBalances, BeginShutdownBalances,
       BeforeCloseBalances
  <1>13. CASE CefBrowserBeforeClose
    BY <1>13, CefBrowserBalances
  <1>14. CASE Release
    BY <1>14, ReleaseBalances
  <1>15. CASE CefRevoked
    BY <1>15, CefRevokedBalances
  <1>16. CASE Clear
    BY <1>16, ClearBalances
  <1>17. CASE UNCHANGED vars
    <2>1. /\ UNCHANGED <<cur, batch, at, cef, owner, off, hosts, stopped, pressed, held, inside, hover, strays>>
          /\ off \in BOOLEAN
      BY <1>17, Zenon DEF vars, focus, ends, ledgers, IInv, Kinds
    <2>2. cef' \in CefPlaces /\ Gone' /\ (at'.in \in {"send", "note"} => at'.b \in Browsers)
      BY <2>1, Zenon DEF BInv, LedgerKinds, Gone
    <2>3. ASSUME NEW b \in Live'
          PROVE  /\ KeysPending(b) => KeysPending(b)'
                 /\ MousePending(b) => MousePending(b)'
                 /\ Resetting(b)' => Resetting(b)
                 /\ \A k \in Keys : Unsent(b, k) => Unsent(b, k)'
      BY <2>1, Zenon DEF KeysPending, MousePending, Resetting, Unsent, Routing, Goes, Offers
    <2> QED BY <2>1, <2>2, <2>3, QuietStep
  <1> QED BY <1>1, <1>2, <1>3, <1>4, <1>5, <1>6, <1>7, <1>8, <1>9, <1>10, <1>11, <1>12, <1>13, <1>14,
             <1>15, <1>16, <1>17, Zenon DEF Next

\* At rest nothing is pending and nothing unsent.
LEMMA Balanced == IInv /\ BInv => ChromiumKeysBalanced
  <1> SUFFICES ASSUME IInv, BInv, AtRest, ~off, NEW b \in hosts \ stopped
               PROVE  /\ (held[b] \cap Keys) \ strays[b] \subseteq (IF owner = b THEN cur ELSE {})
                      /\ owner # b /\ Mouse \notin strays[b] => b \notin hover
    BY DEF ChromiumKeysBalanced
  <1>1. at.in = "idle" /\ cef.in = "idle"
    BY IdleFacts, CefFacts DEF AtRest, IsPlace, IsCefPlace
  <1>2. /\ b \in Live /\ ~Routing /\ ~Noting(b)
        /\ ~KeysPending(b) /\ ~MousePending(b)
    BY <1>1 DEF Live, Routing, KeysPending, MousePending, Noting
  <1>3. ASSUME NEW k \in Keys, k \in held[b], k \notin strays[b] PROVE owner = b /\ k \in cur
    <2>1. k \in pressed[b]
      BY <1>2, <1>3 DEF BInv, Told
    <2>2. owner = b
      BY <1>2, <1>3, <2>1 DEF BInv, Ledgers
    <2> QED BY <1>2, <1>3, <2>1, <2>2 DEF BInv, Down, Unsent
  <1>4. owner # b => ~Kept(b)
    BY <1>2 DEF BInv, Inside
  <1> QED BY <1>3, <1>4 DEF Kept

\* Between two dispatches Chromium holds no key of a live browser that the player does
\* not hold in it, and has no mouse in a page without the focus, but for the strays:
\* whatever browsers, keys and toggle keys there are, whichever thread took the focus and
\* wherever in a dispatch.
THEOREM ChromiumGetsReleases == Spec => []ChromiumKeysBalanced
  <1>1. Spec => []IInv
    BY InitInv, NextKeeps, PTL DEF Spec
  <1>2. Spec => []BInv
    BY <1>1, InitBalanced, NextBalances, PTL DEF Spec
  <1> QED BY <1>1, <1>2, Balanced, PTL

=============================================================================
