----------------------- MODULE PromiseRouting_proofs -----------------------
(***************************************************************************)
(* Every promise gets the first answer to its own call, and no route is    *)
(* left of a browser that has closed: proofs for any browsers, renderer    *)
(* processes, calls and authors.                                           *)
(*                                                                         *)
(* A call is in one inbox once, or with CEF's UI thread, before it has a   *)
(* resolver; who settles it first is decided once; and of the calls of one *)
(* process no two have the same id, whether or not it has died.  So a      *)
(* result, which names a process and an id, names the call it was computed *)
(* for.                                                                    *)
(***************************************************************************)
EXTENDS PromiseRouting, TLAPS

Made(k) == of[k] # Nobody

\* An inbox holds the calls of its browser, each once, and none that the UI thread
\* has taken out.
Inboxes ==
  /\ \A b \in Browsers : \A i \in 1..Len(inbox[b]) :
       /\ of[inbox[b][i]] = b /\ inbox[b][i] # ui
       /\ \A j \in 1..Len(inbox[b]) : inbox[b][i] = inbox[b][j] => i = j
  /\ ui # NoCall => Made(ui)

\* A call that is not made, on its way or in dispatch has no resolver and no author.
Unsettled(k) == resolver[k] = "none" /\ first[k] = Nobody

Fresh ==
  /\ \A k \in Calls : ~Made(k) => page[k] = "unused" /\ Unsettled(k)
  /\ \A b \in Browsers : \A i \in 1..Len(inbox[b]) : Unsettled(inbox[b][i])
  /\ ui # NoCall => Unsettled(ui)

\* The calls of a process have ids of their own, below the next.
Numbers ==
  /\ \A k \in Calls : Made(k) => page[k] # "unused" /\ id[k] # 0
  /\ \A k \in Calls : Made(k) /\ nextId[Host[of[k]]] # 0 => id[k] < nextId[Host[of[k]]]
  /\ \A j, k \in Calls :
       Made(j) /\ Made(k) /\ Host[of[j]] = Host[of[k]] /\ id[j] = id[k] => j = k

\* An author in Settle is the first of its call.
Settlers ==
  /\ \A k \in Calls : resolver[k] = "open" => first[k] = Nobody
  /\ \A t \in Authors : at[t] # "idle" =>
       on[t] \in Calls /\ Made(on[t]) /\ first[on[t]] = t

\* A result on its way is that of a call which was settled.
ResultOf(m, k) ==
  /\ Made(k) /\ first[k] # Nobody
  /\ m = [to |-> Host[of[k]], id |-> id[k], what |-> <<k, first[k]>>]

Delivery == \A m \in results : \E k \in Calls : ResultOf(m, k)

Answers == \A k \in Calls : page[k] = "answered" => first[k] # Nobody /\ answer[k] = <<k, first[k]>>

IInv == TypeOK /\ Inboxes /\ Fresh /\ Numbers /\ Settlers /\ Delivery /\ Answers

\* The second round of a release and what follows.
Late(b) == release[b].stage \in {"close", "done"} \/ release[b].round \in {2, 3}

\* What the routes of a browser depend on when no release overlaps a close unasked:
\* CEF closes it before its release has begun or after it has asked.
Gates ==
  \A b \in Browsers :
    /\ b \notin held => cef[b] = "closed"
    /\ In(b, "owned") /\ b \in quiesced => cef[b] = "closed"
    /\ cef[b] = "closing" => In(b, "owned") \/ In(b, "done")
    /\ In(b, "wait") \/ Late(b) => b \in quiesced
    /\ ui # NoCall /\ of[ui] = b => cef[b] # "closed" /\ ~Late(b)

Routes ==
  \A b \in Browsers : cef[b] = "closed" \/ Late(b) => RoutesOf(b) = {}

RInv == Gates /\ Routes

-----------------------------------------------------------------------------
LEMMA Appended ==
  ASSUME NEW S, NEW s \in Seq(S), NEW e \in S
  PROVE  /\ Append(s, e) \in Seq(S) /\ Len(Append(s, e)) = Len(s) + 1
         /\ \A i \in 1..Len(s) : Append(s, e)[i] = s[i]
         /\ Append(s, e)[Len(s) + 1] = e /\ Len(s) \in Nat
  OBVIOUS

LEMMA Removed ==
  ASSUME NEW S, NEW s \in Seq(S), s # <<>>
  PROVE  /\ Head(s) = s[1] /\ s[1] \in S /\ 1 \in 1..Len(s)
         /\ Tail(s) \in Seq(S) /\ Len(Tail(s)) = Len(s) - 1
         /\ \A i \in 1..Len(Tail(s)) : Tail(s)[i] = s[i + 1] /\ i + 1 \in 1..Len(s)
         /\ Len(s) \in Nat
  OBVIOUS

\* The parties are told apart.
LEMMA Parties ==
  /\ \A b \in Browsers : b # Nobody /\ Host[b] \in Renderers
  /\ \A t \in Authors : t # Nobody /\ t # Platform
  /\ Platform # Nobody /\ NoCall \notin Calls
  BY PartiesAssumption, NobodyAssumption

\* Who made a call is one of the browsers.
LEMMA Makers ==
  ASSUME TypeOK, NEW k \in Calls
  PROVE  /\ Made(k) => of[k] \in Browsers /\ Host[of[k]] \in Renderers
         /\ id[k] \in Nat /\ Host[of[k]] \in Renderers => nextId[Host[of[k]]] \in Nat
  BY Parties DEF TypeOK, Made

LEMMA Queued ==
  ASSUME TypeOK, Inboxes, NEW b \in Browsers, NEW i \in 1..Len(inbox[b])
  PROVE  inbox[b][i] \in Calls /\ Made(inbox[b][i])
  BY Parties DEF TypeOK, Inboxes, Made

LEMMA InitIInv == Init => IInv
  <1> SUFFICES ASSUME Init PROVE IInv
    OBVIOUS
  <1>1. TypeOK
    BY Parties, PartiesAssumption DEF Init, TypeOK, PageState, ReleaseState, Results, NoResult
  <1>2. Inboxes /\ Fresh
    BY DEF Init, Inboxes, Fresh, Made, Unsettled
  <1>3. Numbers
    BY DEF Init, Numbers, Made
  <1>4. Settlers /\ Delivery /\ Answers
    BY DEF Init, Settlers, Delivery, Answers
  <1> QED BY <1>1, <1>2, <1>3, <1>4 DEF IInv

-----------------------------------------------------------------------------
(* Renderer processes.                                                     *)

LEMMA MakeCallKeeps ==
  ASSUME IInv, NEW k \in Calls, NEW b \in Browsers, MakeCall(k, b)
  PROVE  IInv'
  <1> DEFINE r == Host[b]
  <1>0. TypeOK /\ Inboxes /\ Fresh /\ Numbers /\ Settlers /\ Delivery /\ Answers
    BY DEF IInv
  <1>1. /\ r \in Renderers /\ nextId[r] \in Nat \ {0} /\ b # Nobody
        /\ ~Made(k) /\ Unsettled(k)
    BY <1>0, Parties DEF MakeCall, TypeOK, Numbers, Fresh
  <1>2. TypeOK'
    BY <1>0, <1>1, Appended DEF MakeCall, TypeOK, messages, browser, router, PageState
  <1>3. /\ inbox'[b] = Append(inbox[b], k) /\ inbox[b] \in Seq(Calls)
        /\ \A c \in Browsers \ {b} : inbox'[c] = inbox[c]
        /\ \A j \in Calls \ {k} : of'[j] = of[j] /\ id'[j] = id[j] /\ page'[j] = page[j]
        /\ of'[k] = b /\ id'[k] = nextId[r] /\ page'[k] = "waiting"
    BY <1>0 DEF MakeCall, TypeOK
  <1>4. \A c \in Browsers : \A i \in 1..Len(inbox[c]) : inbox[c][i] \in Calls /\ inbox[c][i] # k
    BY <1>0, <1>1, Queued
  <1>5. ui # k /\ (ui # NoCall => ui \in Calls)
    BY <1>0, <1>1, Parties DEF Inboxes, TypeOK
  <1>6. Inboxes'
    <2>1. ASSUME NEW c \in Browsers, NEW i \in 1..Len(inbox'[c])
          PROVE  /\ of'[inbox'[c][i]] = c /\ inbox'[c][i] # ui
                 /\ \A j \in 1..Len(inbox'[c]) : inbox'[c][i] = inbox'[c][j] => i = j
      <3>1. CASE c # b
        BY <1>0, <1>3, <1>4, <3>1 DEF Inboxes
      <3>2. CASE c = b
        <4>1. /\ \A j \in 1..Len(inbox[b]) : inbox'[b][j] = inbox[b][j]
              /\ inbox'[b][Len(inbox[b]) + 1] = k /\ Len(inbox'[b]) = Len(inbox[b]) + 1
              /\ Len(inbox[b]) \in Nat
          BY <1>3, Appended
        <4>2. CASE i = Len(inbox[b]) + 1
          <5>1. inbox'[b][i] = k /\ of'[k] = b /\ k # ui
            BY <1>3, <1>5, <4>1, <4>2
          <5>2. \A j \in 1..Len(inbox[b]) : inbox'[b][j] # k
            BY <1>4, <4>1
          <5> QED BY <3>2, <4>1, <4>2, <5>1, <5>2
        <4>3. CASE i \in 1..Len(inbox[b])
          <5>1. inbox'[b][i] = inbox[b][i] /\ inbox[b][i] \in Calls \ {k}
            BY <1>4, <4>1, <4>3
          <5>2. of'[inbox'[b][i]] = b /\ inbox'[b][i] # ui
            BY <1>0, <1>3, <4>3, <5>1 DEF Inboxes
          <5>3. \A j \in 1..Len(inbox[b]) : inbox[b][i] = inbox[b][j] => i = j
            BY <1>0, <4>3 DEF Inboxes
          <5> QED BY <3>2, <4>1, <5>1, <5>2, <5>3
        <4> QED BY <3>2, <4>1, <4>2, <4>3
      <3> QED BY <3>1, <3>2
    <2>2. ui # NoCall => of'[ui] # Nobody
      BY <1>0, <1>3, <1>5 DEF Inboxes, Made
    <2> QED BY <2>1, <2>2 DEF Inboxes, Made, MakeCall
  <1>7. Fresh'
    <2>1. \A c \in Browsers : \A i \in 1..Len(inbox'[c]) : Unsettled(inbox'[c][i])
      <3> SUFFICES ASSUME NEW c \in Browsers, NEW i \in 1..Len(inbox'[c])
                   PROVE  Unsettled(inbox'[c][i])
        OBVIOUS
      <3>1. CASE c # b
        BY <1>0, <1>3, <3>1 DEF Fresh
      <3>2. CASE c = b
        BY <1>0, <1>1, <1>3, <3>2, Appended DEF Fresh
      <3> QED BY <3>1, <3>2
    <2> QED BY <1>0, <1>1, <1>3, <2>1, Parties DEF Fresh, Made, Unsettled, MakeCall, router
  <1>8. Numbers'
    <2>1. nextId' = [nextId EXCEPT ![r] = @ + 1] /\ nextId \in [Renderers -> Nat]
      BY <1>0 DEF MakeCall, TypeOK
    <2>2. \A j \in Calls \ {k} : Made(j) /\ Host[of[j]] = r => id[j] < nextId[r] /\ id[j] \in Nat
      BY <1>0, <1>1 DEF Numbers, TypeOK
    <2>3. \A j \in Calls : Made(j)' => /\ page'[j] # "unused" /\ id'[j] # 0
                                       /\ nextId'[Host[of'[j]]] # 0 => id'[j] < nextId'[Host[of'[j]]]
      <3> SUFFICES ASSUME NEW j \in Calls, Made(j)'
                   PROVE  /\ page'[j] # "unused" /\ id'[j] # 0
                          /\ nextId'[Host[of'[j]]] # 0 => id'[j] < nextId'[Host[of'[j]]]
        OBVIOUS
      <3>1. CASE j = k
        BY <1>1, <1>3, <2>1, <3>1
      <3>2. CASE j # k
        <4>1. Made(j) /\ of'[j] = of[j] /\ Host[of[j]] \in Renderers
          BY <1>0, <1>3, <3>2, Makers DEF Made
        <4>2. CASE Host[of[j]] = r
          BY <1>0, <1>1, <1>3, <2>1, <2>2, <3>2, <4>1, <4>2 DEF Numbers
        <4>3. CASE Host[of[j]] # r
          BY <1>0, <1>3, <2>1, <3>2, <4>1, <4>3 DEF Numbers
        <4> QED BY <4>2, <4>3
      <3> QED BY <3>1, <3>2
    <2>4. \A i, j \in Calls :
            Made(i)' /\ Made(j)' /\ Host[of'[i]] = Host[of'[j]] /\ id'[i] = id'[j] => i = j
      BY <1>0, <1>1, <1>3, <2>2 DEF Numbers, Made
    <2> QED BY <2>3, <2>4 DEF Numbers, Made
  <1>9. Settlers'
    BY <1>0, <1>1, <1>3 DEF Settlers, Made, Unsettled, MakeCall, router
  <1>10. Delivery'
    <2> SUFFICES ASSUME NEW m \in results PROVE \E j \in Calls : ResultOf(m, j)'
      BY DEF Delivery, MakeCall
    <2>1. PICK j \in Calls : ResultOf(m, j)
      BY <1>0 DEF Delivery
    <2>2. j # k
      BY <1>1, <2>1 DEF ResultOf
    <2> QED BY <1>3, <2>1, <2>2 DEF ResultOf, Made, MakeCall, router
  <1>11. Answers'
    BY <1>0, <1>3 DEF Answers, MakeCall, router
  <1> QED BY <1>2, <1>6, <1>7, <1>8, <1>9, <1>10, <1>11 DEF IInv

\* A page that only loses promises that wait.
LEMMA DrainKeeps ==
  ASSUME IInv, UNCHANGED <<of, id, answer, messages, ui, resolver, first, at, on>>,
         page' \in [Calls -> PageState],
         \A k \in Calls : page'[k] # page[k] => page[k] = "waiting" /\ page'[k] \in {"drained", "lost"},
         nextId' \in [Renderers -> Nat],
         \A r \in Renderers : nextId'[r] \in {0, nextId[r]}
  PROVE  /\ TypeOK' <=> /\ quiesced' \subseteq Browsers /\ held' \subseteq Browsers
                        /\ cef' \in [Browsers -> {"live", "closing", "closed"}]
                        /\ release' \in [Browsers -> ReleaseState]
                        /\ routes' \subseteq Browsers \X Nat
         /\ (Inboxes /\ Fresh /\ Numbers /\ Settlers /\ Delivery /\ Answers)'
  <1>0. TypeOK /\ Inboxes /\ Fresh /\ Numbers /\ Settlers /\ Delivery /\ Answers
    BY DEF IInv
  <1>1. TypeOK' <=> /\ quiesced' \subseteq Browsers /\ held' \subseteq Browsers
                    /\ cef' \in [Browsers -> {"live", "closing", "closed"}]
                    /\ release' \in [Browsers -> ReleaseState]
                    /\ routes' \subseteq Browsers \X Nat
    BY <1>0 DEF TypeOK, messages
  <1>2. Inboxes'
    BY <1>0 DEF Inboxes, Made, messages
  <1>3. Fresh'
    BY <1>0 DEF Fresh, Made, Unsettled, messages
  <1>4. Numbers'
    BY <1>0, Makers DEF Numbers, Made
  <1>5. Settlers'
    BY <1>0 DEF Settlers, Made
  <1>6. Delivery'
    BY <1>0 DEF Delivery, ResultOf, Made, messages
  <1>7. Answers'
    BY <1>0 DEF Answers
  <1> QED BY <1>1, <1>2, <1>3, <1>4, <1>5, <1>6, <1>7

LEMMA ContextReleasedKeeps ==
  ASSUME IInv, NEW b \in Browsers, ContextReleased(b)
  PROVE  IInv'
  <1>1. /\ page' \in [Calls -> PageState]
        /\ \A k \in Calls : page'[k] # page[k] => page[k] = "waiting" /\ page'[k] \in {"drained", "lost"}
    BY DEF IInv, TypeOK, ContextReleased, Drain, PageState
  <1> QED BY <1>1, DrainKeeps DEF IInv, TypeOK, ContextReleased, browser, router

LEMMA RendererDiesKeeps ==
  ASSUME IInv, NEW r \in Renderers, RendererDies(r)
  PROVE  IInv'
  <1>1. /\ page' \in [Calls -> PageState]
        /\ \A k \in Calls : page'[k] # page[k] => page[k] = "waiting" /\ page'[k] \in {"drained", "lost"}
    BY DEF IInv, TypeOK, RendererDies, PageState
  <1>2. nextId' \in [Renderers -> Nat] /\ \A q \in Renderers : nextId'[q] \in {0, nextId[q]}
    BY DEF IInv, TypeOK, RendererDies
  <1> QED BY <1>1, <1>2, DrainKeeps DEF IInv, TypeOK, RendererDies, browser, router

\* A result finds no other promise than that of its call.
LEMMA ReceiveResultKeeps ==
  ASSUME IInv, NEW m \in results, ReceiveResult(m)
  PROVE  IInv'
  <1>0. TypeOK /\ Inboxes /\ Fresh /\ Numbers /\ Settlers /\ Delivery /\ Answers
    BY DEF IInv
  <1>1. PICK j \in Calls : ResultOf(m, j)
    BY <1>0 DEF Delivery
  <1>2. \A k \in Calls : Takes(m, k) => k = j /\ page[k] = "waiting" /\ Made(k)
    <2> SUFFICES ASSUME NEW k \in Calls, Takes(m, k) PROVE k = j /\ page[k] = "waiting" /\ Made(k)
      OBVIOUS
    <2>1. page[k] = "waiting" /\ Host[of[k]] = Host[of[j]] /\ id[k] = id[j]
      BY <1>1 DEF Takes, ResultOf
    <2>2. Made(k)
      BY <1>0, <2>1 DEF Fresh
    <2> QED BY <1>0, <1>1, <2>1, <2>2 DEF Numbers, ResultOf
  <1>3. /\ results' \subseteq results
        /\ UNCHANGED <<nextId, of, id, inbox, ui, browser, router, at, on>>
    BY DEF ReceiveResult
  <1>4. \/ /\ page' = [page EXCEPT ![j] = "answered"] /\ page[j] = "waiting"
           /\ answer' = [answer EXCEPT ![j] = m.what] /\ m.what = <<j, first[j]>> /\ first[j] # Nobody
           /\ m.what \in Results
        \/ UNCHANGED <<page, answer>>
    BY <1>0, <1>1, <1>2 DEF ReceiveResult, ResultOf, TypeOK
  <1>5. TypeOK'
    BY <1>0, <1>3, <1>4 DEF TypeOK, PageState, browser, router
  <1>6. Inboxes'
    BY <1>0, <1>3 DEF Inboxes, Made
  <1>7. Fresh'
    BY <1>0, <1>3, <1>4 DEF Fresh, Made, Unsettled, router, TypeOK
  <1>8. Numbers'
    BY <1>0, <1>3, <1>4 DEF Numbers, Made, TypeOK
  <1>9. Settlers'
    BY <1>0, <1>3 DEF Settlers, Made, router
  <1>10. Delivery'
    BY <1>0, <1>3 DEF Delivery, ResultOf, Made, router
  <1>11. Answers'
    BY <1>0, <1>3, <1>4 DEF Answers, router, TypeOK
  <1> QED BY <1>5, <1>6, <1>7, <1>8, <1>9, <1>10, <1>11 DEF IInv

-----------------------------------------------------------------------------
(* CEF's UI thread.                                                        *)

LEMMA AdmitCallKeeps ==
  ASSUME IInv, NEW b \in Browsers, AdmitCall(b)
  PROVE  IInv'
  <1> DEFINE k == inbox[b][1]
  <1>0. TypeOK /\ Inboxes /\ Fresh /\ Numbers /\ Settlers /\ Delivery /\ Answers
    BY DEF IInv
  <1>1. /\ inbox[b] \in Seq(Calls) /\ inbox[b] # <<>> /\ k \in Calls /\ 1 \in 1..Len(inbox[b])
        /\ ui = NoCall /\ ui' \in {NoCall, k}
        /\ UNCHANGED <<renderer, results, browser, router, at, on>>
    BY <1>0, Removed DEF AdmitCall, TypeOK
  <1>2. /\ inbox'[b] \in Seq(Calls) /\ \A c \in Browsers \ {b} : inbox'[c] = inbox[c]
        /\ inbox' \in [Browsers -> Seq(Calls)]
        /\ \A i \in 1..Len(inbox'[b]) : inbox'[b][i] = inbox[b][i + 1] /\ i + 1 \in 2..Len(inbox[b])
    BY <1>0, <1>1, Removed DEF AdmitCall, TypeOK
  <1>3. TypeOK'
    BY <1>0, <1>1, <1>2 DEF TypeOK, renderer, browser, router
  <1>4. Made(k) /\ Unsettled(k)
    BY <1>0, <1>1, Queued DEF Fresh
  <1>5. Inboxes'
    <2>1. ASSUME NEW c \in Browsers, NEW i \in 1..Len(inbox'[c])
          PROVE  /\ of[inbox'[c][i]] = c /\ inbox'[c][i] # ui'
                 /\ \A j \in 1..Len(inbox'[c]) : inbox'[c][i] = inbox'[c][j] => i = j
      <3>1. CASE c # b
        <4>1. inbox'[c] = inbox[c] /\ inbox[c][i] \in Calls /\ of[inbox[c][i]] = c /\ of[k] = b
          BY <1>0, <1>1, <1>2, <3>1, Queued DEF Inboxes
        <4> QED BY <1>0, <1>1, <3>1, <4>1, Parties DEF Inboxes
      <3>2. CASE c = b
        <4>1. /\ inbox'[b][i] = inbox[b][i + 1] /\ i + 1 \in 1..Len(inbox[b]) /\ i + 1 # 1 /\ i \in Nat
              /\ inbox[b][i + 1] \in Calls
          BY <1>0, <1>1, <1>2, <3>2, Queued
        <4>2. inbox[b][i + 1] # k /\ of[inbox[b][i + 1]] = b
          BY <1>0, <1>1, <4>1 DEF Inboxes
        <4>3. ASSUME NEW j \in 1..Len(inbox'[b]), inbox'[b][i] = inbox'[b][j] PROVE i = j
          <5>1. inbox'[b][j] = inbox[b][j + 1] /\ j + 1 \in 1..Len(inbox[b]) /\ j \in Nat
            BY <1>2
          <5>2. i + 1 = j + 1
            BY <1>0, <4>1, <4>3, <5>1 DEF Inboxes
          <5> QED BY <4>1, <5>1, <5>2
        <4> QED BY <1>1, <3>2, <4>1, <4>2, <4>3, Parties
      <3> QED BY <3>1, <3>2
    <2> QED BY <1>1, <1>4, <2>1 DEF Inboxes, Made, renderer
  <1>6. Fresh'
    <2>1. ASSUME NEW c \in Browsers, NEW i \in 1..Len(inbox'[c]) PROVE Unsettled(inbox'[c][i])
      <3>1. CASE c # b
        BY <1>0, <1>2, <3>1 DEF Fresh
      <3>2. CASE c = b
        <4>1. inbox'[b][i] = inbox[b][i + 1] /\ i + 1 \in 1..Len(inbox[b])
          BY <1>2, <3>2
        <4> QED BY <1>0, <3>2, <4>1 DEF Fresh
      <3> QED BY <3>1, <3>2
    <2> QED BY <1>0, <1>1, <1>4, <2>1 DEF Fresh, Made, Unsettled, renderer, router
  <1>7. Numbers' /\ Settlers' /\ Delivery' /\ Answers'
    BY <1>0, <1>1 DEF Numbers, Settlers, Delivery, Answers, ResultOf, Made, renderer, router
  <1> QED BY <1>3, <1>5, <1>6, <1>7 DEF IInv

LEMMA InDispatch ==
  ASSUME IInv, ui # NoCall
  PROVE  /\ ui \in Calls /\ Made(ui) /\ Unsettled(ui) /\ of[ui] \in Browsers
         /\ \A t \in Authors : at[t] # "idle" => on[t] # ui
         /\ \A b \in Browsers : \A i \in 1..Len(inbox[b]) : inbox[b][i] # ui
  <1>1. ui \in Calls /\ Made(ui) /\ Unsettled(ui)
    BY DEF IInv, TypeOK, Inboxes, Fresh
  <1>2. of[ui] \in Browsers
    BY <1>1, Makers DEF IInv
  <1>3. \A t \in Authors : at[t] # "idle" => on[t] # ui
    BY <1>1, Parties DEF IInv, Settlers, Unsettled
  <1>4. \A b \in Browsers : \A i \in 1..Len(inbox[b]) : inbox[b][i] # ui
    BY DEF IInv, Inboxes
  <1> QED BY <1>1, <1>2, <1>3, <1>4

\* A result that is sent joins those on the way, or is lost with the page.
LEMMA SendResultKeeps ==
  ASSUME TypeOK, Delivery, NEW k \in Calls, Made(k),
         first' \in [Calls -> Authors \cup {Platform, Nobody}], first'[k] # Nobody,
         \A j \in Calls : j # k /\ first[j] # Nobody => first'[j] = first[j],
         first[k] # Nobody => first'[k] = first[k],
         SendResult(of[k], id[k], <<k, first'[k]>>), UNCHANGED <<of, id>>
  PROVE  Delivery' /\ results' \subseteq [to : Renderers, id : Nat, what : Results]
  <1>1. of[k] \in Browsers /\ Host[of[k]] \in Renderers /\ id[k] \in Nat
    BY Makers DEF TypeOK
  <1> DEFINE sent == [to |-> Host[of[k]], id |-> id[k], what |-> <<k, first'[k]>>]
  <1>2. results' \subseteq results \cup {sent}
    BY DEF SendResult
  <1>3. sent \in [to : Renderers, id : Nat, what : Results]
    BY <1>1 DEF Results
  <1>4. ASSUME NEW m \in results PROVE \E j \in Calls : ResultOf(m, j)'
    BY DEF Delivery, ResultOf, Made
  <1>5. ASSUME NEW m, m = sent PROVE ResultOf(m, k)'
    BY <1>5 DEF ResultOf, Made
  <1>6. results' \subseteq [to : Renderers, id : Nat, what : Results]
    BY <1>2, <1>3 DEF TypeOK
  <1>7. \A m \in results' : \E j \in Calls : ResultOf(m, j)'
    BY <1>2, <1>4, <1>5
  <1> QED BY <1>6, <1>7 DEF Delivery

LEMMA RejectUnboundKeeps ==
  ASSUME IInv, NEW k \in Calls, RejectUnbound(k)
  PROVE  IInv'
  <1>0. TypeOK /\ Inboxes /\ Fresh /\ Numbers /\ Settlers /\ Delivery /\ Answers
    BY DEF IInv
  <1>1. /\ Made(k) /\ Unsettled(k)
        /\ \A t \in Authors : at[t] # "idle" => on[t] # k
        /\ \A b \in Browsers : \A i \in 1..Len(inbox[b]) : inbox[b][i] # k
    BY InDispatch DEF RejectUnbound
  <1>2. /\ first' = [first EXCEPT ![k] = Platform] /\ first \in [Calls -> Authors \cup {Platform, Nobody}]
        /\ first'[k] = Platform /\ Platform # Nobody
        /\ \A j \in Calls \ {k} : first'[j] = first[j]
    BY <1>0, Parties DEF RejectUnbound, TypeOK
  <1>3. Delivery' /\ results' \subseteq [to : Renderers, id : Nat, what : Results]
    BY <1>0, <1>1, <1>2, SendResultKeeps DEF RejectUnbound, renderer, Unsettled
  <1>4. TypeOK'
    BY <1>0, <1>2, <1>3 DEF TypeOK, RejectUnbound, renderer, browser
  <1>5. Inboxes'
    BY <1>0, Queued, Parties DEF Inboxes, Made, RejectUnbound, renderer
  <1>6. Fresh'
    BY <1>0, <1>1, <1>2, Queued DEF Fresh, Made, Unsettled, RejectUnbound, renderer
  <1>7. Numbers'
    BY <1>0 DEF Numbers, Made, RejectUnbound, renderer
  <1>8. Settlers'
    BY <1>0, <1>1, <1>2 DEF Settlers, Made, Unsettled, RejectUnbound, renderer
  <1>9. Answers'
    BY <1>0, <1>1, <1>2 DEF Answers, Unsettled, RejectUnbound, renderer
  <1> QED BY <1>3, <1>4, <1>5, <1>6, <1>7, <1>8, <1>9 DEF IInv

LEMMA RouteCallKeeps ==
  ASSUME IInv, NEW k \in Calls, RouteCall(k)
  PROVE  IInv'
  <1>0. TypeOK /\ Inboxes /\ Fresh /\ Numbers /\ Settlers /\ Delivery /\ Answers
    BY DEF IInv
  <1>1. /\ Made(k) /\ Unsettled(k) /\ of[k] \in Browsers /\ id[k] \in Nat
        /\ \A b \in Browsers : \A i \in 1..Len(inbox[b]) : inbox[b][i] # k
    BY <1>0, InDispatch DEF RouteCall, TypeOK
  <1>2. TypeOK'
    BY <1>0, <1>1 DEF TypeOK, RouteCall, renderer, messages, browser
  <1>3. Inboxes'
    BY <1>0, Queued, Parties DEF Inboxes, Made, RouteCall, renderer, messages
  <1>4. Fresh'
    <2>1. \A j \in Calls \ {k} : resolver'[j] = resolver[j]
      BY <1>0 DEF RouteCall, TypeOK
    <2> QED BY <1>0, <1>1, <2>1, Queued DEF Fresh, Made, Unsettled, RouteCall, renderer, messages
  <1>5. Settlers'
    BY <1>0, <1>1 DEF Settlers, Made, Unsettled, RouteCall, renderer, TypeOK
  <1>6. Numbers' /\ Delivery' /\ Answers'
    BY <1>0 DEF Numbers, Delivery, Answers, ResultOf, Made, RouteCall, renderer, messages
  <1> QED BY <1>2, <1>3, <1>4, <1>5, <1>6 DEF IInv

LEMMA BeforeCloseKeeps ==
  ASSUME IInv, NEW b \in Browsers, BeforeClose(b)
  PROVE  IInv'
  <1>1. /\ page' \in [Calls -> PageState]
        /\ \A k \in Calls : page'[k] # page[k] => page[k] = "waiting" /\ page'[k] \in {"drained", "lost"}
    BY DEF IInv, TypeOK, BeforeClose, Drain, PageState
  <1>2. routes' \subseteq Browsers \X Nat
    BY DEF IInv, TypeOK, BeforeClose, RoutesOf
  <1> QED BY <1>1, <1>2, DrainKeeps DEF IInv, TypeOK, BeforeClose

-----------------------------------------------------------------------------
(* The release of a browser, and authors.                                  *)

\* What changes neither calls nor promises.
LEMMA ReleaseKeeps ==
  ASSUME IInv, UNCHANGED <<renderer, messages, ui, resolver, first, at, on>>,
         quiesced' \subseteq Browsers, held' \subseteq Browsers,
         cef' \in [Browsers -> {"live", "closing", "closed"}],
         release' \in [Browsers -> ReleaseState], routes' \subseteq Browsers \X Nat
  PROVE  IInv'
  BY DrainKeeps DEF IInv, TypeOK, renderer

LEMMA ReleaseStepsKeep ==
  ASSUME IInv, NEW b \in Browsers, CloseUnasked(b) \/ BeginRelease(b) \/ ReleaseStep(b)
  PROVE  IInv'
  <1>1. /\ quiesced \subseteq Browsers /\ held \subseteq Browsers
        /\ cef \in [Browsers -> {"live", "closing", "closed"}]
        /\ release \in [Browsers -> ReleaseState] /\ routes \subseteq Browsers \X Nat
    BY DEF IInv, TypeOK
  <1>2. RoutesOf(b) \subseteq routes
    BY DEF RoutesOf
  <1>3. \A n \in 1..3, s \in {"gate", "wait"} : [stage |-> s, round |-> n] \in ReleaseState
    BY DEF ReleaseState, Rounds
  <1>4. \A s \in {"owned", "close", "done"} : [stage |-> s, round |-> 0] \in ReleaseState
    BY DEF ReleaseState
  <1>5. CASE CloseUnasked(b)
    BY <1>1, <1>5, ReleaseKeeps DEF CloseUnasked, browser, router
  <1>6. CASE BeginRelease(b)
    BY <1>1, <1>2, <1>3, <1>6, ReleaseKeeps DEF BeginRelease, DropBrowserRoutes, To
  <1>7. In(b, "gate") \/ In(b, "wait") => release[b].round \in 1..3
    BY <1>1 DEF ReleaseState, In, Rounds
  <1>8. CASE ShutGate(b)
    BY <1>1, <1>3, <1>7, <1>8, ReleaseKeeps DEF ShutGate, To, router
  <1>9. CASE PassGate(b)
    BY <1>1, <1>2, <1>3, <1>4, <1>7, <1>9, ReleaseKeeps
       DEF PassGate, DropBrowserRoutes, MoreRounds, Rounds, To
  <1>10. CASE CloseBrowser(b)
    BY <1>1, <1>4, <1>10, ReleaseKeeps DEF CloseBrowser, To, router
  <1> QED BY <1>5, <1>6, <1>8, <1>9, <1>10 DEF ReleaseStep

LEMMA BeginSettleKeeps ==
  ASSUME IInv, NEW t \in Authors, NEW k \in Calls, BeginSettle(t, k)
  PROVE  IInv'
  <1>0. TypeOK /\ Inboxes /\ Fresh /\ Numbers /\ Settlers /\ Delivery /\ Answers
    BY DEF IInv
  <1>1. /\ resolver[k] = "open" /\ first[k] = Nobody /\ Made(k)
        /\ first' = [first EXCEPT ![k] = t] /\ t # Nobody
        /\ resolver' = [resolver EXCEPT ![k] = "settled"]
    BY <1>0, Parties DEF BeginSettle, SettlesFirst, Settlers, Fresh, Unsettled, TypeOK
  <1>2. /\ \A j \in Calls \ {k} : first'[j] = first[j] /\ resolver'[j] = resolver[j]
        /\ first'[k] = t /\ resolver'[k] = "settled"
    BY <1>0, <1>1 DEF TypeOK
  <1>3. TypeOK'
    BY <1>0, <1>1 DEF TypeOK, BeginSettle, renderer, messages, browser
  <1>4. Inboxes'
    BY <1>0 DEF Inboxes, Made, BeginSettle, renderer, messages
  <1>5. Fresh'
    BY <1>0, <1>1, <1>2, Queued, Parties DEF Fresh, Made, Unsettled, BeginSettle, renderer, messages, TypeOK
  <1>6. Numbers'
    BY <1>0 DEF Numbers, Made, BeginSettle, renderer
  <1>7. Settlers'
    <2>1. \A j \in Calls : resolver'[j] = "open" => first'[j] = Nobody
      BY <1>0, <1>2 DEF Settlers
    <2>2. /\ \A u \in Authors \ {t} : at'[u] = at[u] /\ on'[u] = on[u]
          /\ on'[t] = k
      BY <1>0 DEF BeginSettle, TypeOK
    <2>3. \A u \in Authors : at'[u] # "idle" => on'[u] \in Calls /\ of[on'[u]] # Nobody /\ first'[on'[u]] = u
      BY <1>0, <1>1, <1>2, <2>2, Parties DEF Settlers, Made
    <2> QED BY <2>1, <2>3 DEF Settlers, Made, BeginSettle, renderer
  <1>8. Delivery'
    <2> SUFFICES ASSUME NEW m \in results PROVE \E j \in Calls : ResultOf(m, j)'
      BY DEF Delivery, BeginSettle, messages
    <2>1. PICK j \in Calls : ResultOf(m, j)
      BY <1>0 DEF Delivery
    <2> QED BY <1>1, <1>2, <2>1 DEF ResultOf, Made, BeginSettle, renderer
  <1>9. Answers'
    BY <1>0, <1>1, <1>2 DEF Answers, BeginSettle, renderer
  <1> QED BY <1>3, <1>4, <1>5, <1>6, <1>7, <1>8, <1>9 DEF IInv

LEMMA LeaveSettles ==
  ASSUME TypeOK, Settlers, NEW t \in Authors, Leave(t), UNCHANGED <<of, resolver, first>>
  PROVE  /\ Settlers'
         /\ at' \in [Authors -> {"idle", "take", "send"}] /\ on' \in [Authors -> Calls \cup {NoCall}]
  BY DEF TypeOK, Settlers, Leave, Made

LEMMA TakeRouteKeeps ==
  ASSUME IInv, NEW t \in Authors, TakeRoute(t)
  PROVE  IInv'
  <1>0. TypeOK /\ Inboxes /\ Fresh /\ Numbers /\ Settlers /\ Delivery /\ Answers
    BY DEF IInv
  <1>1. /\ UNCHANGED <<renderer, messages, ui, browser, resolver, first>> /\ routes' \subseteq routes
        /\ (at' = [at EXCEPT ![t] = "send"] /\ UNCHANGED on) \/ Leave(t)
        /\ at[t] = "take"
    BY DEF TakeRoute
  <1>3. /\ Settlers'
        /\ at' \in [Authors -> {"idle", "take", "send"}] /\ on' \in [Authors -> Calls \cup {NoCall}]
    <2>1. CASE at' = [at EXCEPT ![t] = "send"] /\ UNCHANGED on
      BY <1>0, <1>1, <2>1 DEF TypeOK, Settlers, Made, renderer
    <2>2. CASE Leave(t)
      BY <1>0, <1>1, <2>2, LeaveSettles DEF renderer
    <2> QED BY <1>1, <2>1, <2>2
  <1>4. TypeOK'
    BY <1>0, <1>1, <1>3 DEF TypeOK, renderer, messages, browser
  <1>5. Inboxes' /\ Fresh' /\ Numbers' /\ Delivery' /\ Answers'
    BY <1>0, <1>1
       DEF Inboxes, Fresh, Numbers, Delivery, Answers, ResultOf, Unsettled, Made, renderer, messages
  <1> QED BY <1>3, <1>4, <1>5 DEF IInv

LEMMA SendKeeps ==
  ASSUME IInv, NEW t \in Authors, Send(t)
  PROVE  IInv'
  <1> DEFINE k == on[t]
  <1>0. TypeOK /\ Inboxes /\ Fresh /\ Numbers /\ Settlers /\ Delivery /\ Answers
    BY DEF IInv
  <1>1. k \in Calls /\ Made(k) /\ first[k] = t /\ t # Nobody
    BY <1>0, Parties DEF Send, Settlers
  <1>2. Delivery' /\ results' \subseteq [to : Renderers, id : Nat, what : Results]
    <2>1. UNCHANGED <<of, id, first>> /\ SendResult(of[k], id[k], <<k, first'[k]>>)
      BY <1>1 DEF Send, renderer, router
    <2> QED BY <1>0, <1>1, <2>1, SendResultKeeps DEF TypeOK
  <1>3. /\ Settlers'
        /\ at' \in [Authors -> {"idle", "take", "send"}] /\ on' \in [Authors -> Calls \cup {NoCall}]
    BY <1>0, LeaveSettles DEF Send, renderer, router
  <1>4. TypeOK'
    BY <1>0, <1>2, <1>3 DEF TypeOK, Send, renderer, browser, router
  <1>5. Inboxes' /\ Fresh' /\ Numbers' /\ Answers'
    BY <1>0 DEF Inboxes, Fresh, Numbers, Answers, Unsettled, Made, Send, renderer, router
  <1> QED BY <1>2, <1>3, <1>4, <1>5 DEF IInv

LEMMA NextKeeps == IInv /\ [Next]_vars => IInv'
  <1> SUFFICES ASSUME IInv, [Next]_vars PROVE IInv'
    OBVIOUS
  <1>1. CASE RendererStep
    BY <1>1, MakeCallKeeps, ContextReleasedKeeps, RendererDiesKeeps, ReceiveResultKeeps DEF RendererStep
  <1>2. CASE UIStep
    BY <1>2, AdmitCallKeeps, BeforeCloseKeeps, ReleaseStepsKeep, RejectUnboundKeeps, RouteCallKeeps DEF UIStep
  <1>3. CASE \E b \in Browsers : BeginRelease(b) \/ ReleaseStep(b)
    BY <1>3, ReleaseStepsKeep
  <1>4. CASE \E t \in Authors : SettleStep(t) \/ \E k \in Calls : BeginSettle(t, k)
    BY <1>4, TakeRouteKeeps, SendKeeps, BeginSettleKeeps DEF SettleStep
  <1>5. CASE UNCHANGED vars
    BY <1>5, ReleaseKeeps DEF IInv, TypeOK, vars, browser, router
  <1> QED BY <1>1, <1>2, <1>3, <1>4, <1>5 DEF Next

LEMMA Invariance == Spec => []IInv
  BY InitIInv, NextKeeps, PTL DEF Spec

\* A promise is settled with the result computed for its own call, by the first author
\* of its resolver, whichever processes share ids, die or lose their pages meanwhile
\* (PromiseRegistry::Take, PromiseResolver::Settle).
THEOREM AnswersAreOwn == Spec => []AnswersMatch
  <1>1. IInv => AnswersMatch
    BY DEF IInv, Answers, AnswersMatch
  <1> QED BY Invariance, <1>1, PTL

-----------------------------------------------------------------------------
(* Routes: a close and a release that do not overlap.                      *)

LEMMA InitRInv == Init => RInv
  BY DEF Init, RInv, Gates, Routes, RoutesOf, In, Late

\* What removes routes at most, and leaves browsers, the gate and the UI thread alone.
LEMMA RoutesShrink ==
  ASSUME RInv, UNCHANGED <<quiesced, held, cef, release, ui>>, routes' \subseteq routes,
         ui # NoCall => of'[ui] = of[ui]
  PROVE  RInv'
  BY DEF RInv, Gates, Routes, RoutesOf, In, Late

LEMMA MakeCallKeepsRoutes ==
  ASSUME IInv, RInv, NEW k \in Calls, NEW b \in Browsers, MakeCall(k, b)
  PROVE  RInv'
  <1>1. ui # NoCall => of'[ui] = of[ui]
    <2>1. page[k] = "unused" => ~Made(k)
      BY DEF IInv, Numbers
    <2> QED BY <2>1 DEF MakeCall, IInv, TypeOK, Inboxes
  <1> QED BY <1>1, RoutesShrink DEF MakeCall, browser, router

LEMMA AdmitCallKeepsRoutes ==
  ASSUME IInv, RInv, NEW b \in Browsers, AdmitCall(b)
  PROVE  RInv'
  <1>1. of[Head(inbox[b])] = b
    BY Removed DEF IInv, TypeOK, Inboxes, AdmitCall
  <1>2. ui' # NoCall => ui' = Head(inbox[b]) /\ b \notin quiesced /\ cef[b] # "closed"
    BY DEF AdmitCall
  <1>3. UNCHANGED <<of, quiesced, held, cef, release, routes>>
    BY DEF AdmitCall, renderer, browser, router
  <1> QED BY <1>1, <1>2, <1>3 DEF RInv, Gates, Routes, RoutesOf, In, Late

LEMMA RouteCallKeepsRoutes ==
  ASSUME IInv, RInv, NEW k \in Calls, RouteCall(k)
  PROVE  RInv'
  <1>1. /\ of[k] \in Browsers /\ cef[of[k]] # "closed" /\ ~Late(of[k])
        /\ routes' = routes \cup {<<of[k], id[k]>>} /\ ui' = NoCall
        /\ UNCHANGED <<of, quiesced, held, cef, release>>
    BY InDispatch DEF RouteCall, RInv, Gates, renderer, browser
  <1>2. \A b \in Browsers \ {of[k]} : RoutesOf(b)' = RoutesOf(b)
    BY <1>1 DEF RoutesOf
  <1> QED BY <1>1, <1>2 DEF RInv, Gates, Routes, In, Late

LEMMA BeforeCloseKeepsRoutes ==
  ASSUME IInv, RInv, NEW b \in Browsers, BeforeClose(b)
  PROVE  RInv'
  <1>1. /\ ui = NoCall /\ cef[b] = "closing" /\ cef' = [cef EXCEPT ![b] = "closed"]
        /\ quiesced' = quiesced \cup {b} /\ held' = held \ {b} /\ routes' \subseteq routes
        /\ b \notin quiesced => RoutesOf(b)' = {}
        /\ UNCHANGED <<ui, release>> /\ cef \in [Browsers -> {"live", "closing", "closed"}]
    BY DEF BeforeClose, RoutesOf, IInv, TypeOK
  <1>2. RoutesOf(b)' = {}
    <2>1. \A c : RoutesOf(c)' \subseteq RoutesOf(c)
      BY <1>1 DEF RoutesOf
    <2> QED BY <1>1, <2>1 DEF RInv, Gates, Routes, In, Late
  <1>3. Gates'
    BY <1>1 DEF RInv, Gates, In, Late
  <1>4. Routes'
    BY <1>1, <1>2 DEF RInv, Routes, RoutesOf, Late
  <1> QED BY <1>3, <1>4 DEF RInv

LEMMA ReleaseTo ==
  ASSUME TypeOK, NEW b \in Browsers, NEW stage, NEW round, To(b, stage, round)
  PROVE  /\ \A s : In(b, s)' <=> s = stage
         /\ Late(b)' <=> stage \in {"close", "done"} \/ round \in {2, 3}
         /\ \A c \in Browsers \ {b} : Late(c)' = Late(c) /\ \A s : In(c, s)' = In(c, s)
  <1>1. release'[b] = [stage |-> stage, round |-> round] /\ \A c \in Browsers \ {b} : release'[c] = release[c]
    BY DEF To, TypeOK
  <1> QED BY <1>1 DEF In, Late

\* The release goes on: what was shut stays shut, and nothing is left of a browser
\* when its second round begins.
LEMMA ReleaseStepsKeepRoutes ==
  ASSUME Overlap = {}, IInv, RInv, NEW b \in Browsers,
         CloseUnasked(b) \/ BeginRelease(b) \/ ReleaseStep(b)
  PROVE  RInv'
  <1>0. TypeOK /\ Gates /\ Routes /\ UNCHANGED <<ui, of, held>>
    BY DEF IInv, RInv, ReleaseStep, CloseUnasked, BeginRelease, ShutGate, PassGate, CloseBrowser, renderer
  <1>1. \A c : routes' \subseteq routes => RoutesOf(c)' \subseteq RoutesOf(c)
    BY DEF RoutesOf
  <1>2. CASE CloseUnasked(b)
    <2>1. /\ cef' = [cef EXCEPT ![b] = "closing"] /\ cef[b] = "live" /\ In(b, "owned")
          /\ UNCHANGED <<quiesced, release, routes>>
      BY <1>2 DEF CloseUnasked, In, router
    <2>2. /\ cef'[b] = "closing" /\ \A c \in Browsers \ {b} : cef'[c] = cef[c]
      BY <1>0, <2>1 DEF TypeOK
    <2>3. Gates'
      BY <1>0, <2>1, <2>2 DEF Gates, In, Late
    <2>4. Routes'
      BY <1>0, <2>1, <2>2 DEF Routes, RoutesOf, Late
    <2> QED BY <2>3, <2>4 DEF RInv
  <1>3. CASE BeginRelease(b)
    <2>1. /\ To(b, "gate", 1) /\ In(b, "owned") /\ cef[b] # "closing" /\ routes' \subseteq routes
          /\ UNCHANGED <<quiesced, cef>>
      BY <1>3 DEF BeginRelease, DropBrowserRoutes
    <2>2. ~Late(b)' /\ \A s \in {"owned", "wait", "done"} : ~In(b, s)'
      BY <1>0, <2>1, ReleaseTo
    <2>3. \A c \in Browsers \ {b} : Late(c)' = Late(c) /\ \A s : In(c, s)' = In(c, s)
      BY <1>0, <2>1, ReleaseTo
    <2>4. Gates'
      BY <1>0, <2>1, <2>2, <2>3 DEF Gates
    <2>5. Routes'
      BY <1>0, <1>1, <2>1, <2>2, <2>3 DEF Routes
    <2> QED BY <2>4, <2>5 DEF RInv
  <1>4. CASE ShutGate(b)
    <2>1. /\ To(b, "wait", release[b].round) /\ In(b, "gate") /\ quiesced' = quiesced \cup {b}
          /\ UNCHANGED <<cef, routes>>
      BY <1>4 DEF ShutGate, router
    <2>2. (Late(b)' <=> Late(b)) /\ \A s \in {"owned", "done"} : ~In(b, s)'
      BY <1>0, <2>1, ReleaseTo DEF Late, In
    <2>3. \A c \in Browsers \ {b} : Late(c)' = Late(c) /\ \A s : In(c, s)' = In(c, s)
      BY <1>0, <2>1, ReleaseTo
    <2>4. Gates'
      <3>1. cef[b] # "closing"
        BY <1>0, <2>1 DEF Gates, In
      <3> QED BY <1>0, <2>1, <2>2, <2>3, <3>1 DEF Gates
    <2>5. Routes'
      BY <1>0, <2>1, <2>2, <2>3 DEF Routes, RoutesOf
    <2> QED BY <2>4, <2>5 DEF RInv
  <1>5. CASE PassGate(b)
    <2>1. /\ In(b, "wait") /\ (ui # NoCall => of[ui] # b) /\ routes' \subseteq routes
          /\ UNCHANGED <<quiesced, cef>>
      BY <1>5 DEF PassGate, DispatchEnded, DropBrowserRoutes
    <2>2. b \in quiesced /\ cef[b] # "closing"
      BY <1>0, <2>1 DEF Gates, In
    <2>3. \/ \E n : To(b, "gate", n) /\ (b \in held => RoutesOf(b)' = {})
          \/ To(b, "close", 0) /\ release[b].round = 3
      <3>1. release[b].round \in 1..3
        BY <1>0, <2>1 DEF TypeOK, ReleaseState, Rounds, In
      <3>2. CASE MoreRounds(release[b].round)
        <4>1. DropBrowserRoutes(b, release[b].round + 1)
          BY <1>5, <3>2 DEF PassGate
        <4>2. b \in held => routes' = routes \ RoutesOf(b)
          BY <4>1 DEF DropBrowserRoutes, DropsRoutes
        <4>3. b \in held => RoutesOf(b)' = {}
          BY <4>2 DEF RoutesOf
        <4> QED BY <4>1, <4>3 DEF DropBrowserRoutes
      <3>3. CASE ~MoreRounds(release[b].round)
        <4>1. To(b, "close", 0)
          BY <1>5, <3>3 DEF PassGate
        <4>2. release[b].round = 3
          BY <3>1, <3>3 DEF MoreRounds, Rounds
        <4> QED BY <4>1, <4>2
      <3> QED BY <3>2, <3>3
    <2>4. \A s \in {"owned", "wait", "done"} : ~In(b, s)'
      BY <1>0, <2>3, ReleaseTo
    <2>5. \A c \in Browsers \ {b} : Late(c)' = Late(c) /\ \A s : In(c, s)' = In(c, s)
      BY <1>0, <2>3, ReleaseTo
    <2>6. RoutesOf(b)' = {}
      <3>1. CASE b \notin held
        BY <1>0, <1>1, <2>1, <3>1 DEF Gates, Routes
      <3>2. CASE release[b].round = 3
        BY <1>0, <1>1, <2>1, <3>2 DEF Routes, Late
      <3> QED BY <2>3, <3>1, <3>2
    <2>7. Gates'
      BY <1>0, <2>1, <2>2, <2>4, <2>5 DEF Gates
    <2>8. Routes'
      BY <1>0, <1>1, <2>1, <2>5, <2>6 DEF Routes
    <2> QED BY <2>7, <2>8 DEF RInv
  <1>6. CASE CloseBrowser(b)
    <2>1. /\ To(b, "done", 0) /\ In(b, "close") /\ Late(b)
          /\ cef' = [cef EXCEPT ![b] = IF @ = "live" THEN "closing" ELSE @]
          /\ UNCHANGED <<quiesced, routes>>
      BY <1>6 DEF CloseBrowser, router, In, Late
    <2>2. Late(b)' /\ \A s : In(b, s)' <=> s = "done"
      BY <1>0, <2>1, ReleaseTo
    <2>3. \A c \in Browsers \ {b} : Late(c)' = Late(c) /\ \A s : In(c, s)' = In(c, s)
      BY <1>0, <2>1, ReleaseTo
    <2>4. \A c \in Browsers : /\ cef'[c] = "closed" <=> cef[c] = "closed"
                              /\ c # b => cef'[c] = cef[c]
      BY <1>0, <2>1 DEF TypeOK
    <2>5. Gates'
      BY <1>0, <2>1, <2>2, <2>3, <2>4 DEF Gates
    <2>6. Routes'
      BY <1>0, <2>1, <2>2, <2>3, <2>4 DEF Routes, RoutesOf
    <2> QED BY <2>5, <2>6 DEF RInv
  <1> QED BY <1>2, <1>3, <1>4, <1>5, <1>6 DEF ReleaseStep

LEMMA NextKeepsRoutes ==
  ASSUME Overlap = {}, IInv, RInv, [Next]_vars
  PROVE  RInv'
  <1>1. CASE RendererStep
    <2>1. CASE \E k \in Calls, b \in Browsers : MakeCall(k, b)
      BY <2>1, MakeCallKeepsRoutes
    <2>2. CASE \E b \in Browsers : ContextReleased(b)
      BY <2>2, RoutesShrink DEF ContextReleased, browser, router
    <2>3. CASE \E r \in Renderers : RendererDies(r)
      BY <2>3, RoutesShrink DEF RendererDies, browser, router
    <2>4. CASE \E m \in results : ReceiveResult(m)
      BY <2>4, RoutesShrink DEF ReceiveResult, browser, router
    <2> QED BY <1>1, <2>1, <2>2, <2>3, <2>4 DEF RendererStep
  <1>2. CASE UIStep
    <2>1. CASE \E k \in Calls : RejectUnbound(k)
      BY <2>1 DEF RejectUnbound, renderer, browser, RInv, Gates, Routes, RoutesOf, In, Late
    <2>2. CASE \E b \in Browsers : CloseUnasked(b)
      BY <2>2, ReleaseStepsKeepRoutes
    <2> QED BY <1>2, <2>1, <2>2, AdmitCallKeepsRoutes, BeforeCloseKeepsRoutes, RouteCallKeepsRoutes DEF UIStep
  <1>3. CASE \E b \in Browsers : BeginRelease(b) \/ ReleaseStep(b)
    BY <1>3, ReleaseStepsKeepRoutes
  <1>4. CASE \E t \in Authors : SettleStep(t) \/ \E k \in Calls : BeginSettle(t, k)
    BY <1>4, RoutesShrink DEF SettleStep, TakeRoute, Send, BeginSettle, renderer, browser, router
  <1>5. CASE UNCHANGED vars
    BY <1>5, RoutesShrink DEF vars, renderer, browser, router
  <1> QED BY <1>1, <1>2, <1>3, <1>4, <1>5 DEF Next

\* No route outlives its browser, if no browser closes on its own while it is being
\* released: DefaultBrowser drops its routes in BeginShutdown as long as it has the
\* browser, and the gate it has passed lets no new call in.
THEOREM RoutesEndWithBrowser ==
  ASSUME Overlap = {} PROVE Spec => []NoRouteOutlivesBrowser
  <1>1. IInv /\ RInv /\ [Next]_vars => (IInv /\ RInv)'
    BY NextKeeps, NextKeepsRoutes
  <1>2. IInv /\ RInv => NoRouteOutlivesBrowser
    BY DEF RInv, Routes, NoRouteOutlivesBrowser
  <1> QED BY InitIInv, InitRInv, <1>1, <1>2, PTL DEF Spec
=============================================================================
