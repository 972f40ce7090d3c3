------------------------ MODULE FocusSession_proofs ------------------------
(***************************************************************************)
(* When everything has drained, the menu and the cursor follow the owner,  *)
(* the engine's count of text entries is balanced and the player walks or  *)
(* runs as he chose: proofs for any browsers and any number of calls.      *)
(*                                                                         *)
(* What decides the menu is the command that was queued last: it is among  *)
(* the UI tasks, else among the menu's messages, else the menu has obeyed  *)
(* it; and it was to open exactly if there is an owner.  A lease applied   *)
(* and no longer wanted has a task coming that finds it unchanged, and a   *)
(* movement mode saved is still to be restored by the menu that closes.    *)
(*                                                                         *)
(* Behind it, where the gamepad goes while the focus moves: the proofs of  *)
(* ControllerInput.                                                        *)
(***************************************************************************)
EXTENDS FocusSession, ControllerInput, FiniteSetTheorems, TLAPS

Owned == owner # NoBrowser

Stages == {"idle", "claim", "try", "granted", "lease", "text", "release", "allow", "hide",
           "menu opened", "menu closed", "take", "restore", "current", "write"}
Places == [in : Stages, b : Browsers \cup {NoBrowser}, v : BOOLEAN, then : {"idle", "release"}]
Games  == [do : {"text", "restore"}, gen : Nat, running : BOOLEAN]

\* The kinds of the variables, whatever the bound.
Kinds ==
  /\ owner \in Browsers \cup {NoBrowser} /\ alive \subseteq Browsers
  /\ session \in [gen : Nat, active : BOOLEAN, captured : BOOLEAN, pending : BOOLEAN]
  /\ lease \in [gen : Nat, desired : BOOLEAN, applied : BOOLEAN]
  /\ at \in [Threads -> Places]
  /\ gameTasks \in Seq(Games) /\ uiTasks \in Seq(UITask) /\ messages \in Seq({"show", "hide"})
  /\ menu \in {"closed", "open", "pausing"} /\ running \in BOOLEAN

\* A browser that a call works for is a browser, and alive until it is granted; a
\* restore under way is the head of its queue.
WorksFor(p, living) ==
  /\ p.in \in {"claim", "try", "granted", "text", "release"} \/ p.then = "release" => p.b \in Browsers
  /\ p.in \in {"claim", "try"} => p.b \in living

Restoring == at["main"].in \in {"restore", "current", "write"}

Handling ==
  /\ \A t \in Threads : WorksFor(at[t], alive)
  /\ Restoring => gameTasks # <<>> /\ Head(gameTasks).do = "restore"

\* An owner that is no more is about to be released by its destructor.
Expired == Owned /\ owner \notin alive => \E t \in Threads : at[t].in = "release" /\ at[t].b = owner

-----------------------------------------------------------------------------
LEMMA Appended ==
  ASSUME NEW S, NEW s \in Seq(S), NEW e \in S
  PROVE  /\ Append(s, e) \in Seq(S) /\ Len(Append(s, e)) = Len(s) + 1
         /\ \A i \in 1..Len(s) : Append(s, e)[i] = s[i] /\ i \in 1..Len(s) + 1
         /\ Append(s, e)[Len(s) + 1] = e /\ Len(s) \in Nat /\ Len(s) + 1 \in 1..Len(s) + 1
         /\ \A i \in 1..Len(s) + 1 : i \in 1..Len(s) \/ i = Len(s) + 1
         /\ Append(s, e) # <<>> /\ (s # <<>> => Head(Append(s, e)) = Head(s))
  OBVIOUS

LEMMA Removed ==
  ASSUME NEW S, NEW s \in Seq(S), s # <<>>
  PROVE  /\ Head(s) = s[1] /\ s[1] \in S /\ 1 \in 1..Len(s)
         /\ Tail(s) \in Seq(S) /\ Len(Tail(s)) = Len(s) - 1
         /\ \A i \in 1..Len(Tail(s)) : Tail(s)[i] = s[i + 1] /\ i + 1 \in 1..Len(s)
         /\ \A i \in 1..Len(s) : i # 1 => i - 1 \in 1..Len(Tail(s)) /\ Tail(s)[i - 1] = s[i]
         /\ Len(s) \in Nat
  OBVIOUS

\* Steps of a thread through its call.
LEMMA GotoIs ==
  ASSUME Kinds, NEW t \in Threads, NEW in \in Stages, NEW b \in Browsers \cup {NoBrowser},
         NEW v \in BOOLEAN, NEW then \in {"idle", "release"}, Goto(t, in, b, v, then)
  PROVE  /\ at' \in [Threads -> Places] /\ at'[t] = [in |-> in, b |-> b, v |-> v, then |-> then]
         /\ \A u \in Threads : u # t => at'[u] = at[u]
  BY DEF Kinds, Goto, Places

LEMMA Relabelled ==
  ASSUME NEW p \in Places, NEW in \in Stages
  PROVE  LET q == [p EXCEPT !.in = in] IN
         q \in Places /\ q.in = in /\ q.b = p.b /\ q.v = p.v /\ q.then = p.then
  BY DEF Places

LEMMA StepIs ==
  ASSUME Kinds, NEW t \in Threads, NEW in \in Stages, Step(t, in)
  PROVE  /\ at' \in [Threads -> Places]
         /\ at'[t].in = in /\ at'[t].b = at[t].b /\ at'[t].v = at[t].v /\ at'[t].then = at[t].then
         /\ \A u \in Threads : u # t => at'[u] = at[u]
  <1>1. PICK q : q = [at[t] EXCEPT !.in = in]
    OBVIOUS
  <1>2. at[t] \in Places
    BY DEF Kinds
  <1>3. q \in Places /\ q.in = in /\ q.b = at[t].b /\ q.v = at[t].v /\ q.then = at[t].then
    BY <1>1, <1>2, Relabelled
  <1>4. at' = [at EXCEPT ![t] = q]
    BY <1>1 DEF Step
  <1>5. QED
    BY <1>3, <1>4 DEF Kinds

LEMMA IdleIs == Idle \in Places /\ Idle.in = "idle" /\ Idle.b = NoBrowser /\ Idle.then = "idle"
  BY DEF Idle, Places, Stages

LEMMA ReturnIs ==
  ASSUME Kinds, NEW t \in Threads, Return(t)
  PROVE  /\ at' \in [Threads -> Places]
         /\ \/ at[t].then = "idle" /\ at'[t] = Idle
            \/ at[t].then = "release" /\ at'[t].in = "release" /\ at'[t].then = "idle" /\ at'[t].b = at[t].b
         /\ \A u \in Threads : u # t => at'[u] = at[u]
  <1>1. PICK q : q = IF at[t].then = "idle" THEN Idle
                     ELSE [at[t] EXCEPT !.in = "release", !.then = "idle"]
    OBVIOUS
  <1>2. at[t] \in Places
    BY DEF Kinds
  <1>3. /\ q \in Places
        /\ \/ at[t].then = "idle" /\ q = Idle
           \/ at[t].then = "release" /\ q.in = "release" /\ q.then = "idle" /\ q.b = at[t].b
    <2>1. CASE at[t].then = "idle"
      BY <2>1, <1>1, IdleIs
    <2>2. CASE at[t].then # "idle"
      BY <2>2, <1>1, <1>2 DEF Places, Stages
    <2>3. QED
      BY <2>1, <2>2
  <1>4. at' = [at EXCEPT ![t] = q]
    BY <1>1 DEF Return
  <1>5. QED
    BY <1>3, <1>4 DEF Kinds

-----------------------------------------------------------------------------
(* Where the threads are.                                                  *)

\* A thread goes on to something it may work for, and out of a release by Release.
Walks(t) ==
  /\ at' \in [Threads -> Places] /\ \A u \in Threads : u # t => at'[u] = at[u]
  /\ WorksFor(at'[t], alive)
  /\ at[t].in = "release" => Release(t)

\* Stages of calls, on whichever thread.
CallStages == {"idle", "claim", "try", "granted", "lease", "text", "release"}
Calling(t) == at[t].in \in CallStages /\ at'[t].in \in CallStages

LEMMA GotoWalks ==
  ASSUME Kinds, NEW t \in Threads, NEW in \in Stages, NEW b \in Browsers, NEW v \in BOOLEAN,
         NEW then \in {"idle", "release"}, Goto(t, in, b, v, then),
         at[t].in = "release" => Release(t), in \in {"claim", "try"} => b \in alive
  PROVE  Walks(t) /\ at'[t].in = in
  <1>1. b \in Browsers \cup {NoBrowser}
    OBVIOUS
  <1>2. /\ at' \in [Threads -> Places] /\ at'[t] = [in |-> in, b |-> b, v |-> v, then |-> then]
        /\ \A u \in Threads : u # t => at'[u] = at[u]
    BY <1>1, GotoIs
  <1>3. WorksFor(at'[t], alive)
    BY <1>2 DEF WorksFor
  <1>4. QED
    BY <1>2, <1>3 DEF Walks

LEMMA CallWalks ==
  ASSUME Kinds, Handling, CallNext
  PROVE  UNCHANGED at \/ \E t \in Threads : Walks(t) /\ Calling(t)
  <1>1. /\ "cef" \in Threads /\ "try" \in Stages /\ "text" \in Stages /\ "release" \in Stages
        /\ "idle" \in {"idle", "release"} /\ "release" \in {"idle", "release"} /\ FALSE \in BOOLEAN
    BY DEF Threads, Stages
  <1>2. \A t \in Threads : Free(t) => at[t].in # "release" /\ at[t].in \in CallStages
    BY IdleIs DEF Free, CallStages
  <1>3. ASSUME NEW t \in Threads, NEW b \in Browsers, NEW v \in BOOLEAN, TryViewFocus(t, b, v)
        PROVE  Walks(t) /\ Calling(t)
    <2>1. Goto(t, "try", b, v, "idle") /\ Free(t) /\ b \in alive
      BY <1>3 DEF TryViewFocus, Call
    <2>2. QED
      BY <2>1, <1>1, <1>2, GotoWalks DEF Calling, CallStages
  <1>4. ASSUME NEW b \in Browsers, NEW v \in BOOLEAN, SetBrowserFocused(b, v)
        PROVE  UNCHANGED at
    BY <1>4 DEF SetBrowserFocused
  <1>5. ASSUME NEW b \in Browsers, NEW v \in BOOLEAN, SetTextInputActive(b, v)
        PROVE  Walks("cef") /\ Calling("cef")
    <2> DEFINE active == v /\ b \notin stopped
    <2>1. active \in BOOLEAN /\ Goto("cef", "text", b, active, "idle") /\ Free("cef")
      BY <1>5 DEF SetTextInputActive, Call
    <2> HIDE DEF active
    <2>2. QED
      BY <2>1, <1>1, <1>2, GotoWalks DEF Calling, CallStages
  <1>6. ASSUME NEW b \in Browsers, RendererTerminated(b)
        PROVE  Walks("cef") /\ Calling("cef")
    <2>1. Free("cef")
      BY <1>6 DEF RendererTerminated, Call
    <2>2. CASE b \in textActive
      <3>1. Goto("cef", "text", b, FALSE, "release")
        BY <1>6, <2>2 DEF RendererTerminated
      <3>2. QED
        BY <3>1, <2>1, <1>1, <1>2, GotoWalks DEF Calling, CallStages
    <2>3. CASE b \notin textActive
      <3>1. Goto("cef", "release", b, FALSE, "idle")
        BY <1>6, <2>3 DEF RendererTerminated
      <3>2. QED
        BY <3>1, <2>1, <1>1, <1>2, GotoWalks DEF Calling, CallStages
    <2>4. QED
      BY <2>2, <2>3
  <1>7. ASSUME NEW t \in Threads, NEW b \in Browsers, BeginShutdown(t, b) \/ Destroy(t, b)
        PROVE  Walks(t) /\ Calling(t)
    <2>1. Free(t) /\ Goto(t, "release", b, FALSE, "idle")
      BY <1>7 DEF BeginShutdown, Destroy, Call
    <2>2. QED
      BY <2>1, <1>1, <1>2, GotoWalks DEF Calling, CallStages
  <1>8. QED
    BY <1>1, <1>3, <1>4, <1>5, <1>6, <1>7 DEF CallNext

\* Return goes on to a release of the browser the call was for.
LEMMA ReturnWalks ==
  ASSUME Kinds, Handling, NEW t \in Threads, Return(t), at[t].in = "release" => Release(t)
  PROVE  Walks(t) /\ at'[t].in \in {"idle", "release"}
  <1>1. WorksFor(at[t], alive)
    BY DEF Handling
  <1>2. WorksFor(at'[t], alive)
    BY <1>1, ReturnIs, IdleIs DEF WorksFor
  <1>3. QED
    BY <1>2, ReturnIs, IdleIs DEF Walks

LEMMA StepWalks ==
  ASSUME Kinds, Handling, NEW t \in Threads, NEW in \in Stages, Step(t, in), at[t].in # "release",
         in \notin {"claim", "try"},
         in \in {"granted", "text", "release"} => at[t].b \in Browsers
  PROVE  Walks(t) /\ at'[t].in = in
  <1>1. WorksFor(at[t], alive)
    BY DEF Handling
  <1>2. WorksFor(at'[t], alive)
    BY <1>1, StepIs DEF WorksFor
  <1>3. QED
    BY <1>2, StepIs DEF Walks

LEMMA ArbiterWalks ==
  ASSUME Kinds, Handling, ArbiterNext
  PROVE  \E t \in Threads : Walks(t) /\ Calling(t)
  <1> SUFFICES ASSUME NEW t \in Threads,
                      \/ Claim(t) \/ TryClaim(t) \/ Granted(t) \/ Release(t)
                      \/ TextInputChanged(t) \/ QueueTextInputDesired(t)
               PROVE  Walks(t) /\ Calling(t)
    BY DEF ArbiterNext
  <1>1. {"granted", "lease"} \subseteq Stages
    BY DEF Stages
  <1>2. WorksFor(at[t], alive)
    BY DEF Handling
  <1>3. CASE Claim(t)
    <2>1. at[t].in = "claim" /\ at[t].b \in Browsers /\ (Return(t) \/ Step(t, "granted"))
      BY <1>3, <1>2 DEF Claim, WorksFor
    <2>2. QED
      BY <2>1, <1>1, ReturnWalks, StepWalks DEF Calling, CallStages
  <1>4. CASE TryClaim(t)
    <2>1. at[t].in = "try" /\ at[t].b \in Browsers /\ (Return(t) \/ Step(t, "granted"))
      BY <1>4, <1>2 DEF TryClaim, WorksFor
    <2>2. QED
      BY <2>1, <1>1, ReturnWalks, StepWalks DEF Calling, CallStages
  <1>5. CASE Granted(t)
    <2> DEFINE active == at[t].b \in textActive
    <2>0. active \in BOOLEAN /\ at' = [at EXCEPT ![t].in = "lease", ![t].v = active]
      BY <1>5 DEF Granted
    <2> HIDE DEF active
    <2>1. PICK q : q = [at[t] EXCEPT !.in = "lease", !.v = active]
      OBVIOUS
    <2>2. at[t] \in Places /\ at[t].in = "granted"
      BY <1>5 DEF Kinds, Granted
    <2>3. q \in Places /\ q.in = "lease" /\ q.b = at[t].b /\ q.then = at[t].then
      BY <2>0, <2>1, <2>2 DEF Places, Stages
    <2>4. at' = [at EXCEPT ![t] = q]
      BY <2>0, <2>1
    <2>5. WorksFor(q, alive)
      BY <2>2, <2>3, <1>2 DEF WorksFor
    <2>6. QED
      BY <2>2, <2>3, <2>4, <2>5 DEF Walks, Kinds, Calling, CallStages
  <1>6. CASE Release(t)
    <2>1. CASE Goto(t, "lease", at[t].b, FALSE, "idle")
      <3>1. at[t].b \in Browsers
        BY <1>6, <1>2 DEF Release, WorksFor
      <3>2. "lease" \in Stages /\ FALSE \in BOOLEAN /\ "idle" \in {"idle", "release"}
        BY DEF Stages
      <3>3. QED
        BY <3>1, <3>2, <1>6, <2>1, GotoWalks DEF Release, Calling, CallStages
    <2>2. CASE Return(t)
      BY <2>2, <1>6, ReturnWalks DEF Release, Calling, CallStages
    <2>3. QED
      BY <1>6, <2>1, <2>2 DEF Release
  <1>7. CASE TextInputChanged(t)
    <2>1. at[t].in = "text" /\ (Return(t) \/ Step(t, "lease"))
      BY <1>7 DEF TextInputChanged
    <2>2. QED
      BY <2>1, <1>1, ReturnWalks, StepWalks DEF Calling, CallStages
  <1>8. CASE QueueTextInputDesired(t)
    BY <1>8, ReturnWalks DEF QueueTextInputDesired, Calling, CallStages
  <1>9. QED
    BY <1>3, <1>4, <1>5, <1>6, <1>7, <1>8

LEMMA MainWalks ==
  ASSUME Kinds, Handling, MainNext
  PROVE  UNCHANGED at \/ Walks("main")
  <1>1. /\ "main" \in Threads
        /\ {"claim", "release", "hide", "menu opened", "menu closed", "take", "restore", "current",
            "write", "allow"} \subseteq Stages
    BY DEF Threads, Stages
  <1>2. WorksFor(at["main"], alive)
    BY <1>1 DEF Handling
  <1>3. Free("main") => at["main"].in = "idle"
    BY IdleIs DEF Free
  <1>4. CASE ApplyBrowserFocused
    <2>1. at["main"].in = "idle" /\ uiTasks # <<>> /\ Head(uiTasks).do = "focus"
      BY <1>4, <1>3 DEF ApplyBrowserFocused, NextUITask
    <2>2. Head(uiTasks) \in UITask
      BY <2>1, Removed DEF Kinds
    <2>3. CASE ~UNCHANGED at
      <3>1. PICK task : task = Head(uiTasks)
        OBVIOUS
      <3>2. PICK in : in = IF task.v THEN "claim" ELSE "release"
        OBVIOUS
      <3>3. task.b \in alive \ stopped /\ Goto("main", in, task.b, FALSE, "idle")
        BY <1>4, <2>3, <3>1, <3>2 DEF ApplyBrowserFocused
      <3>4. /\ task.b \in Browsers /\ task.b \in alive /\ in \in Stages
            /\ FALSE \in BOOLEAN /\ "idle" \in {"idle", "release"}
        BY <3>2, <3>3 DEF Kinds, Stages
      <3>5. QED
        BY <3>3, <3>4, <2>1, <1>1, GotoWalks
    <2>4. QED
      BY <2>3
  <1>5. CASE Open \/ Close \/ ShowCursor
    BY <1>5 DEF Open, Close, ShowCursor
  <1>6. CASE StartHideCursor \/ AdvanceMovie
    <2>1. at["main"].in = "idle" /\ (UNCHANGED at \/ Step("main", "hide"))
      BY <1>6, <1>3 DEF StartHideCursor, NextUITask, AdvanceMovie
    <2>2. QED
      BY <2>1, <1>1, StepWalks
  <1>7. CASE HideCursor \/ FocusMenuOpened \/ TakePendingRestore \/ AllowTextInput
    <2>1. at["main"].in # "release" /\ Return("main")
      BY <1>7 DEF HideCursor, FocusMenuOpened, TakePendingRestore, AllowTextInput
    <2>2. QED
      BY <2>1, <1>1, ReturnWalks
  <1>8. CASE ShowMenu \/ HideMenu
    <2>1. /\ at["main"].in = "idle"
          /\ UNCHANGED at \/ Step("main", "menu opened") \/ Step("main", "menu closed")
      BY <1>8, <1>3 DEF ShowMenu, HideMenu
    <2>2. QED
      BY <2>1, <1>1, StepWalks
  <1>9. CASE FocusMenuClosed
    <2>1. at["main"].in = "menu closed" /\ (Return("main") \/ Step("main", "take"))
      BY <1>9 DEF FocusMenuClosed
    <2>2. QED
      BY <2>1, <1>1, ReturnWalks, StepWalks
  <1>10. CASE StartRestore
    <2>1. at["main"].in = "idle" /\ Step("main", "restore")
      BY <1>10, <1>3 DEF StartRestore, NextGameTask
    <2>2. QED
      BY <2>1, <1>1, StepWalks
  <1>11. CASE CheckRestore
    <2>1. /\ at["main"].in \in {"restore", "current", "write"}
          /\ Return("main") \/ Step("main", "current") \/ Step("main", "write")
      BY <1>11 DEF CheckRestore, DropRestore
    <2>2. QED
      BY <2>1, <1>1, ReturnWalks, StepWalks
  <1>12. CASE ApplyText
    <2>1. at["main"].in = "idle"
      BY <1>12, <1>3 DEF ApplyText, NextGameTask
    <2>2. CASE Goto("main", "allow", NoBrowser, lease.desired, "idle")
      <3>1. PICK v \in BOOLEAN : v = lease.desired
        BY DEF Kinds
      <3>2. QED
        <4>1. /\ at' \in [Threads -> Places]
              /\ at'["main"] = [in |-> "allow", b |-> NoBrowser, v |-> v, then |-> "idle"]
              /\ \A u \in Threads : u # "main" => at'[u] = at[u]
          BY <2>2, <3>1, <1>1 DEF Goto, Kinds, Places, Stages
        <4>2. QED
          BY <4>1, <2>1 DEF Walks, WorksFor
    <2>3. QED
      BY <2>2, <1>12 DEF ApplyText
  <1>13. QED
    BY <1>4, <1>5, <1>6, <1>7, <1>8, <1>9, <1>10, <1>11, <1>12 DEF MainNext

\* The main thread is in a task of its own before and after a call's step, or in neither.
LEMMA CallsLeaveMain ==
  ASSUME Kinds, Handling, CallNext \/ ArbiterNext
  PROVE  UNCHANGED at["main"] \/ Calling("main")
  <1>1. "main" \in Threads
    BY DEF Threads
  <1>2. UNCHANGED at \/ \E t \in Threads : Walks(t) /\ Calling(t)
    BY CallWalks, ArbiterWalks
  <1>3. QED
    BY <1>1, <1>2 DEF Walks

-----------------------------------------------------------------------------
(* What a step does, as the screen and the movement mode see it.           *)

Command(e) == e.do \in {"open", "close"}

Tearing == at["main"].in \in {"menu closed", "take"}

\* Other tasks than commands come and go, other tasks than restores.
QuietTasks ==
  \/ UNCHANGED uiTasks
  \/ \E e \in UITask : ~Command(e) /\ uiTasks' = Append(uiTasks, e)
  \/ uiTasks # <<>> /\ ~Command(Head(uiTasks)) /\ uiTasks' = Tail(uiTasks)

QuietGame ==
  \/ UNCHANGED gameTasks
  \/ \E e \in Games : e.do = "text" /\ gameTasks' = Append(gameTasks, e)
  \/ gameTasks # <<>> /\ Head(gameTasks).do = "text" /\ gameTasks' = Tail(gameTasks)

Quiet ==
  /\ UNCHANGED <<session, messages, pauseGame, menu, running, late>>
  /\ owner' \in Browsers \cup {NoBrowser} /\ (Owned' <=> Owned) /\ alive' \subseteq alive
  /\ QuietTasks /\ QuietGame /\ (Tearing' <=> Tearing)

\* The first claim of a session.
Begin ==
  /\ ~HasOwner /\ owner' \in Browsers /\ UNCHANGED alive
  /\ \E pause \in BOOLEAN : OnFirstClaim(pause)
  /\ UNCHANGED <<gameTasks, messages, menu, running>> /\ (Tearing' <=> Tearing)

\* The release by the owner.
Drop ==
  /\ Owned /\ owner' = NoBrowser /\ UNCHANGED alive
  /\ session' = [session EXCEPT !.active = FALSE, !.pending = session.active \/ @]
  /\ uiTasks' = uiTasks \o <<UITaskOf("show cursor"), UITaskOf("close")>>
  /\ UNCHANGED <<gameTasks, messages, pauseGame, menu, running, late>> /\ (Tearing' <=> Tearing)

\* The restore at the head of the game tasks goes on, or is dropped or done.
Restores ==
  /\ gameTasks # <<>> /\ Head(gameTasks).do = "restore"
  /\ \/ UNCHANGED <<gameTasks, running>>
     \/ /\ gameTasks' = Tail(gameTasks)
        /\ \/ UNCHANGED running /\ (HasOwner \/ session.active \/ session.gen # Head(gameTasks).gen)
           \/ running' = Head(gameTasks).running
  /\ UNCHANGED <<owner, alive, session, uiTasks, messages, pauseGame, menu, late>>
  /\ ~Tearing /\ ~Tearing'

Class ==
  \/ Quiet \/ Begin \/ Drop \/ Restores
  \/ (Open \/ Close) /\ (Tearing' <=> Tearing)
  \/ ShowMenu /\ ~Tearing /\ ~Tearing'
  \/ HideMenu /\ ~Tearing /\ (Tearing' <=> menu # "closed")
  \/ FocusMenuClosed /\ Tearing /\ (Tearing' <=> ~HasOwner)
  \/ TakePendingRestore /\ Tearing /\ ~Tearing'

\* No browser is not alive.
LEMMA OwnerOwns == ASSUME Kinds PROVE HasOwner => Owned
  BY FocusAssumption DEF Kinds, HasOwner, Owned

LEMMA MainIs ==
  /\ "main" \in Threads /\ (Free("main") => at["main"].in = "idle" /\ ~Tearing /\ ~Restoring)
  /\ (Calling("main") => ~Tearing /\ ~Tearing' /\ ~Restoring /\ ~Restoring')
  /\ {"hide", "menu opened", "menu closed", "take", "restore", "current", "write", "allow"} \subseteq Stages
  BY IdleIs DEF Free, Tearing, Restoring, Calling, CallStages, Stages, Threads

LEMMA CallsAreQuiet ==
  ASSUME Kinds, Handling, CallNext
  PROVE  Quiet
  <1>1. UNCHANGED at["main"] \/ Calling("main")
    BY CallsLeaveMain
  <1>2. Tearing' <=> Tearing
    BY <1>1, MainIs DEF Tearing
  <1>3. UNCHANGED <<owner, session, messages, pauseGame, menu, running, late, gameTasks>>
    BY DEF CallNext, TryViewFocus, SetBrowserFocused, SetTextInputActive, RendererTerminated,
           BeginShutdown, Destroy, browsers, state, queues, engine
  <1>4. alive' \subseteq alive
    BY DEF CallNext, TryViewFocus, SetBrowserFocused, SetTextInputActive, RendererTerminated,
           BeginShutdown, Destroy, browsers, state, queues, engine
  <1>5. QuietTasks
    <2>1. ASSUME NEW b \in Browsers, NEW v \in BOOLEAN, SetBrowserFocused(b, v)
          PROVE  QuietTasks
      <3>1. PICK e \in UITask : e = [do |-> "focus", b |-> b, v |-> v]
        BY DEF UITask
      <3>2. ~Command(e) /\ uiTasks' = Append(uiTasks, e)
        BY <2>1, <3>1 DEF SetBrowserFocused, Command
      <3>3. QED
        BY <3>2 DEF QuietTasks
    <2>2. CASE UNCHANGED uiTasks
      BY <2>2 DEF QuietTasks
    <2>3. QED
      BY <2>1, <2>2 DEF CallNext, TryViewFocus, SetTextInputActive, RendererTerminated,
         BeginShutdown, Destroy, queues
  <1>6. owner' \in Browsers \cup {NoBrowser} /\ (Owned' <=> Owned)
    BY <1>3 DEF Kinds, Owned
  <1>7. QuietGame
    BY <1>3 DEF QuietGame
  <1>8. QED
    BY <1>2, <1>3, <1>4, <1>5, <1>6, <1>7 DEF Quiet

LEMMA OwnIs ==
  ASSUME Kinds, NEW b \in alive, NEW pause \in BOOLEAN, Own(b, pause), Tearing' <=> Tearing,
         UNCHANGED <<alive, gameTasks, messages, menu, running>>
  PROVE  Quiet \/ Begin
  <1>1. b \in Browsers /\ owner' = b /\ Owned'
    BY FocusAssumption DEF Kinds, Own, Owned
  <1>2. CASE HasOwner
    <2>1. Owned /\ UNCHANGED <<session, pauseGame, uiTasks, late>>
      BY <1>2, OwnerOwns DEF Own
    <2>2. QED
      BY <1>1, <2>1 DEF Quiet, QuietTasks, QuietGame
  <1>3. CASE ~HasOwner
    <2>1. OnFirstClaim(pause)
      BY <1>3 DEF Own
    <2>2. QED
      BY <1>1, <1>3, <2>1 DEF Begin
  <1>4. QED
    BY <1>2, <1>3

LEMMA ArbiterClass ==
  ASSUME Kinds, Handling, ArbiterNext
  PROVE  Quiet \/ Begin \/ Drop
  <1>1. UNCHANGED at["main"] \/ Calling("main")
    BY CallsLeaveMain
  <1>2. Tearing' <=> Tearing
    BY <1>1, MainIs DEF Tearing
  <1> SUFFICES ASSUME NEW t \in Threads,
                      \/ Claim(t) \/ TryClaim(t) \/ Granted(t) \/ Release(t)
                      \/ TextInputChanged(t) \/ QueueTextInputDesired(t)
               PROVE  Quiet \/ Begin \/ Drop
    BY DEF ArbiterNext
  <1>3. WorksFor(at[t], alive) /\ at[t] \in Places
    BY DEF Handling, Kinds
  <1>4. ASSUME UNCHANGED <<owner, alive, session, messages, pauseGame, menu, running, late, uiTasks>>, QuietGame
        PROVE  Quiet
    BY <1>2, <1>4 DEF Quiet, QuietTasks, Kinds, Owned
  <1>5. CASE Claim(t)
    <2>1. at[t].b \in alive /\ UNCHANGED <<alive, gameTasks, messages, menu, running>>
      BY <1>5, <1>3 DEF Claim, WorksFor, engine
    <2>2. CASE Own(at[t].b, FALSE)
      BY <2>1, <2>2, <1>2, OwnIs
    <2>3. CASE ~Own(at[t].b, FALSE)
      BY <2>1, <2>3, <1>4, <1>5 DEF Claim, QuietGame
    <2>4. QED
      BY <2>2, <2>3
  <1>6. CASE TryClaim(t)
    <2>1. at[t].b \in alive /\ at[t].v \in BOOLEAN /\ UNCHANGED <<alive, gameTasks, messages, menu, running>>
      BY <1>6, <1>3 DEF TryClaim, WorksFor, engine, Places
    <2>2. CASE Own(at[t].b, at[t].v)
      BY <2>1, <2>2, <1>2, OwnIs
    <2>3. CASE ~Own(at[t].b, at[t].v)
      BY <2>1, <2>3, <1>4, <1>6 DEF TryClaim, QuietGame
    <2>4. QED
      BY <2>2, <2>3
  <1>7. CASE Granted(t) \/ TextInputChanged(t)
    BY <1>4, <1>7 DEF Granted, TextInputChanged, browsers, state, queues, engine, QuietGame
  <1>8. CASE Release(t)
    <2>1. at[t].b \in Browsers /\ UNCHANGED <<alive, messages, pauseGame, menu, running, late>>
      BY <1>8, <1>3 DEF Release, WorksFor, engine
    <2>2. CASE owner = at[t].b
      <3>1. Owned
        BY <2>1, <2>2, FocusAssumption DEF Owned
      <3>2. QED
        BY <3>1, <2>1, <2>2, <1>2, <1>8 DEF Release, Drop, End
    <2>3. CASE owner # at[t].b
      BY <2>1, <2>3, <1>4, <1>8 DEF Release, QuietGame
    <2>4. QED
      BY <2>2, <2>3
  <1>9. CASE QueueTextInputDesired(t)
    <2>1. QuietGame
      <3>1. PICK e : e = [do |-> "text", gen |-> lease.gen + 1, running |-> FALSE]
        OBVIOUS
      <3>2. e \in Games /\ e.do = "text"
        BY <3>1 DEF Games, Kinds
      <3>3. UNCHANGED gameTasks \/ gameTasks' = Append(gameTasks, e)
        BY <3>1, <1>9 DEF QueueTextInputDesired
      <3>4. QED
        BY <3>2, <3>3 DEF QuietGame
    <2>2. QED
      BY <2>1, <1>4, <1>9 DEF QueueTextInputDesired, browsers, engine
  <1>10. QED
    BY <1>5, <1>6, <1>7, <1>8, <1>9

\* Where the main thread is after its steps.
LEMMA MainStep ==
  ASSUME Kinds, Handling
  PROVE  /\ \A in \in Stages : Step("main", in) => at'["main"].in = in
         /\ Return("main") => at'["main"].in \in {"idle", "release"}
  <1>1. "main" \in Threads
    BY MainIs
  <1>2. ASSUME NEW in \in Stages, Step("main", in)
        PROVE  at'["main"].in = in
    BY <1>1, <1>2, StepIs
  <1>3. Return("main") => at'["main"].in \in {"idle", "release"}
    BY <1>1, ReturnIs, IdleIs
  <1>4. QED
    BY <1>2, <1>3

LEMMA MainClass ==
  ASSUME Kinds, Handling, MainNext
  PROVE  Class
  <1>1. /\ \A in \in Stages : Step("main", in) => at'["main"].in = in
        /\ Return("main") => at'["main"].in \in {"idle", "release"}
        /\ {"hide", "menu opened", "menu closed", "take", "restore", "current", "write", "allow"} \subseteq Stages
        /\ Free("main") => at["main"].in = "idle"
    BY MainStep, MainIs
  <1>2. ASSUME UNCHANGED <<owner, alive, session, messages, pauseGame, menu, running, late>>,
               QuietTasks, QuietGame, Tearing' <=> Tearing
        PROVE  Class
    BY <1>2 DEF Class, Quiet, Kinds, Owned
  <1>3. CASE ApplyBrowserFocused
    <2>1. ~Tearing /\ ~Tearing'
      <3>1. at["main"].in = "idle"
        BY <1>1, <1>3 DEF ApplyBrowserFocused, NextUITask
      <3>2. PICK task : task = Head(uiTasks)
        OBVIOUS
      <3>3. PICK in : in = IF task.v THEN "claim" ELSE "release"
        OBVIOUS
      <3>4. UNCHANGED at \/ (Goto("main", in, task.b, FALSE, "idle") /\ task.b \in alive)
        BY <1>3, <3>2, <3>3 DEF ApplyBrowserFocused
      <3>5. CASE Goto("main", in, task.b, FALSE, "idle") /\ task.b \in alive
        BY <3>1, <3>3, <3>5, MainIs DEF Goto, Kinds, Tearing
      <3>6. QED
        BY <3>1, <3>4, <3>5 DEF Tearing
    <2>2. QuietTasks
      BY <1>3 DEF ApplyBrowserFocused, NextUITask, QuietTasks, Command
    <2>3. QED
      BY <2>1, <2>2, <1>2, <1>3 DEF ApplyBrowserFocused, browsers, state, engine, QuietGame
  <1>4. CASE Open \/ Close
    BY <1>4 DEF Open, Close, Class, Tearing
  <1>5. CASE ShowCursor
    <2>1. QuietTasks /\ QuietGame /\ (Tearing' <=> Tearing)
      BY <1>5 DEF ShowCursor, NextUITask, QuietTasks, Command, QuietGame, Tearing
    <2>2. QED
      BY <2>1, <1>2, <1>5 DEF ShowCursor, browsers, state
  <1>6. CASE StartHideCursor \/ AdvanceMovie
    <2>1. QuietTasks /\ QuietGame
      BY <1>6 DEF StartHideCursor, AdvanceMovie, NextUITask, QuietTasks, Command, QuietGame, queues
    <2>2. at["main"].in = "idle" /\ (UNCHANGED at \/ Step("main", "hide"))
      BY <1>1, <1>6 DEF StartHideCursor, AdvanceMovie, NextUITask
    <2>3. ~Tearing /\ ~Tearing'
      BY <1>1, <2>2 DEF Tearing
    <2>4. QED
      BY <2>1, <2>3, <1>2, <1>6 DEF StartHideCursor, AdvanceMovie, browsers, state, queues, engine
  <1>7. CASE HideCursor
    <2>1. ~Tearing /\ ~Tearing' /\ QuietTasks /\ QuietGame
      BY <1>1, <1>7 DEF HideCursor, Tearing, QuietTasks, QuietGame, queues
    <2>2. QED
      BY <2>1, <1>2, <1>7 DEF HideCursor, browsers, state, queues
  <1>8. CASE ShowMenu
    <2>1. at["main"].in = "idle" /\ (UNCHANGED at \/ Step("main", "menu opened"))
      BY <1>1, <1>8 DEF ShowMenu
    <2>2. ~Tearing /\ ~Tearing'
      BY <1>1, <2>1 DEF Tearing
    <2>3. QED
      BY <2>2, <1>8 DEF Class
  <1>9. CASE HideMenu
    <2>1. at["main"].in = "idle" /\ IF menu = "closed" THEN UNCHANGED at ELSE Step("main", "menu closed")
      BY <1>1, <1>9 DEF HideMenu
    <2>2. ~Tearing /\ (Tearing' <=> menu # "closed")
      BY <1>1, <2>1 DEF Tearing
    <2>3. QED
      BY <2>2, <1>9 DEF Class
  <1>10. CASE FocusMenuOpened
    <2>1. ~Tearing /\ ~Tearing' /\ QuietGame
      BY <1>1, <1>10 DEF FocusMenuOpened, Tearing, QuietGame
    <2>2. QuietTasks
      BY <1>10 DEF FocusMenuOpened, QuietTasks, Command, UITask, UITaskOf
    <2>3. QED
      BY <2>1, <2>2, <1>2, <1>10 DEF FocusMenuOpened, browsers, state, engine
  <1>11. CASE FocusMenuClosed
    <2>1. Tearing /\ (Tearing' <=> ~HasOwner)
      BY <1>1, <1>11 DEF FocusMenuClosed, Tearing
    <2>2. QED
      BY <2>1, <1>11 DEF Class
  <1>12. CASE TakePendingRestore
    <2>1. Tearing /\ ~Tearing'
      BY <1>1, <1>12 DEF TakePendingRestore, Tearing
    <2>2. QED
      BY <2>1, <1>12 DEF Class
  <1>13. CASE StartRestore
    <2>1. ~Tearing /\ ~Tearing' /\ QuietGame /\ QuietTasks
      BY <1>1, <1>13 DEF StartRestore, NextGameTask, Tearing, QuietGame, QuietTasks, queues
    <2>2. QED
      BY <2>1, <1>2, <1>13 DEF StartRestore, browsers, state, queues, engine
  <1>14. CASE CheckRestore
    <2>1. gameTasks # <<>> /\ Head(gameTasks).do = "restore"
      BY <1>14 DEF CheckRestore, Handling, Restoring
    <2>2. ~Tearing /\ ~Tearing'
      <3>1. /\ at["main"].in \in {"restore", "current", "write"}
            /\ Return("main") \/ Step("main", "current") \/ Step("main", "write")
        BY <1>14 DEF CheckRestore, DropRestore
      <3>2. QED
        BY <3>1, <1>1 DEF Tearing
    <2>3. \/ UNCHANGED <<gameTasks, running>>
          \/ /\ gameTasks' = Tail(gameTasks)
             /\ \/ UNCHANGED running /\ (HasOwner \/ session.active \/ session.gen # Head(gameTasks).gen)
                \/ running' = Head(gameTasks).running
      BY <1>14 DEF CheckRestore, DropRestore
    <2>4. UNCHANGED <<owner, alive, session, uiTasks, messages, pauseGame, menu, late>>
      BY <1>14 DEF CheckRestore, browsers, state
    <2>5. QED
      BY <2>1, <2>2, <2>3, <2>4 DEF Class, Restores
  <1>15. CASE ApplyText
    <2>1. ~Tearing /\ ~Tearing'
      <3>1. at["main"].in = "idle"
        BY <1>1, <1>15 DEF ApplyText, NextGameTask
      <3>2. PICK p : p = [in |-> "allow", b |-> NoBrowser, v |-> lease.desired, then |-> "idle"]
        OBVIOUS
      <3>3. p.in = "allow" /\ (UNCHANGED at \/ at' = [at EXCEPT !["main"] = p])
        BY <1>15, <3>2 DEF ApplyText, Goto
      <3>4. QED
        BY <3>1, <3>3, MainIs DEF Kinds, Tearing
    <2>2. QuietTasks /\ QuietGame
      BY <1>15 DEF ApplyText, NextGameTask, QuietTasks, QuietGame
    <2>3. QED
      BY <2>1, <2>2, <1>2, <1>15 DEF ApplyText, browsers, engine
  <1>16. CASE AllowTextInput
    <2>1. ~Tearing /\ ~Tearing' /\ QuietGame /\ QuietTasks
      BY <1>1, <1>16 DEF AllowTextInput, Tearing, QuietGame, QuietTasks, queues
    <2>2. QED
      BY <2>1, <1>2, <1>16 DEF AllowTextInput, browsers, queues
  <1>17. QED
    BY <1>3, <1>4, <1>5, <1>6, <1>7, <1>8, <1>9, <1>10, <1>11, <1>12, <1>13, <1>14, <1>15, <1>16
       DEF MainNext

LEMMA NextClass ==
  ASSUME Kinds, Handling, Next
  PROVE  Class
  BY CallsAreQuiet, ArbiterClass, MainClass DEF Next, Class

-----------------------------------------------------------------------------
(* Kinds and calls.                                                        *)

LEMMA TypedTail ==
  ASSUME NEW S, NEW s \in Seq(S), s # <<>>
  PROVE  Tail(s) \in Seq(S) /\ Head(s) \in S
  OBVIOUS

LEMMA TypedAppend ==
  ASSUME NEW S, NEW s \in Seq(S), NEW e \in S
  PROVE  Append(s, e) \in Seq(S)
  OBVIOUS

LEMMA Queues ==
  ASSUME Kinds
  PROVE  uiTasks \in Seq(UITask) /\ gameTasks \in Seq(Games) /\ messages \in Seq({"show", "hide"})
  BY DEF Kinds

LEMMA QuietKinds ==
  ASSUME Kinds, QuietTasks, QuietGame
  PROVE  uiTasks' \in Seq(UITask) /\ gameTasks' \in Seq(Games)
  <1>1. uiTasks \in Seq(UITask) /\ gameTasks \in Seq(Games)
    BY DEF Kinds
  <1>2. uiTasks' \in Seq(UITask)
    BY <1>1, TypedAppend, TypedTail DEF QuietTasks
  <1>3. gameTasks' \in Seq(Games)
    BY <1>1, TypedAppend, TypedTail DEF QuietGame
  <1>4. QED
    BY <1>2, <1>3

LEMMA CommandsAre ==
  /\ UITaskOf("open") \in UITask /\ UITaskOf("open").do = "open"
  /\ UITaskOf("close") \in UITask /\ UITaskOf("close").do = "close"
  /\ UITaskOf("show cursor") \in UITask /\ UITaskOf("show cursor").do = "show cursor"
  BY DEF UITaskOf, UITask

\* Two tasks at once, one after the other.
LEMMA TwoAppended ==
  ASSUME NEW S, NEW s \in Seq(S), NEW c \in S, NEW d \in S
  PROVE  s \o <<c, d>> = Append(Append(s, c), d)
  OBVIOUS

LEMMA RestoreIs ==
  ASSUME Kinds
  PROVE  /\ Restore \in Games /\ Restore.do = "restore" /\ Restore.gen = session.gen
         /\ Restore.running = session.captured
  BY DEF Kinds, Restore, Games

\* The fields of the session after it has begun, ended and been restored.
LEMMA SessionIs ==
  ASSUME Kinds
  PROVE  /\ \A pause : OnFirstClaim(pause) =>
                /\ session' \in [gen : Nat, active : BOOLEAN, captured : BOOLEAN, pending : BOOLEAN]
                /\ session'.active /\ session'.captured = running
         /\ session' = [session EXCEPT !.active = FALSE, !.pending = session.active \/ @] =>
                /\ session' \in [gen : Nat, active : BOOLEAN, captured : BOOLEAN, pending : BOOLEAN]
                /\ ~session'.active /\ session'.captured = session.captured /\ session'.gen = session.gen
                /\ (session.active \/ session.pending => session'.pending)
         /\ session' = [session EXCEPT !.pending = FALSE] =>
                /\ session' \in [gen : Nat, active : BOOLEAN, captured : BOOLEAN, pending : BOOLEAN]
                /\ session'.active = session.active /\ session'.captured = session.captured
                /\ session'.gen = session.gen
  <1>1. session \in [gen : Nat, active : BOOLEAN, captured : BOOLEAN, pending : BOOLEAN] /\ running \in BOOLEAN
    BY DEF Kinds
  <1>2. ASSUME NEW pause, OnFirstClaim(pause)
        PROVE  /\ session' \in [gen : Nat, active : BOOLEAN, captured : BOOLEAN, pending : BOOLEAN]
               /\ session'.active /\ session'.captured = running
    BY <1>1, <1>2 DEF OnFirstClaim
  <1>3. ASSUME session' = [session EXCEPT !.active = FALSE, !.pending = session.active \/ @]
        PROVE  /\ session' \in [gen : Nat, active : BOOLEAN, captured : BOOLEAN, pending : BOOLEAN]
               /\ ~session'.active /\ session'.captured = session.captured /\ session'.gen = session.gen
               /\ (session.active \/ session.pending => session'.pending)
    BY <1>1, <1>3
  <1>4. ASSUME session' = [session EXCEPT !.pending = FALSE]
        PROVE  /\ session' \in [gen : Nat, active : BOOLEAN, captured : BOOLEAN, pending : BOOLEAN]
               /\ session'.active = session.active /\ session'.captured = session.captured
               /\ session'.gen = session.gen
    BY <1>1, <1>4
  <1>5. QED
    BY <1>2, <1>3, <1>4

LEMMA DesireIs ==
  ASSUME NEW l \in [gen : Nat, desired : BOOLEAN, applied : BOOLEAN], NEW v \in BOOLEAN
  PROVE  LET k == [l EXCEPT !.gen = l.gen + 1, !.desired = v] IN
         /\ k \in [gen : Nat, desired : BOOLEAN, applied : BOOLEAN]
         /\ k.gen = l.gen + 1 /\ k.desired = v /\ k.applied = l.applied
  <1>1. PICK n \in Nat : n = l.gen + 1
    OBVIOUS
  <1>2. LET k == [l EXCEPT !.gen = n, !.desired = v] IN
        /\ k \in [gen : Nat, desired : BOOLEAN, applied : BOOLEAN]
        /\ k.gen = n /\ k.desired = v /\ k.applied = l.applied
    OBVIOUS
  <1>3. QED
    BY <1>1, <1>2

LEMMA LeaseKind ==
  ASSUME Kinds, Next
  PROVE  lease' \in [gen : Nat, desired : BOOLEAN, applied : BOOLEAN]
  <1>1. lease \in [gen : Nat, desired : BOOLEAN, applied : BOOLEAN]
    BY DEF Kinds
  <1>2. ASSUME NEW t \in Threads, QueueTextInputDesired(t)
        PROVE  lease' \in [gen : Nat, desired : BOOLEAN, applied : BOOLEAN]
    <2>1. at[t].v \in BOOLEAN
      BY DEF Kinds, Places
    <2>2. CASE lease' = [lease EXCEPT !.gen = @ + 1, !.desired = at[t].v]
      <3>1. PICK v \in BOOLEAN : v = at[t].v
        BY <2>1
      <3>2. lease' = [lease EXCEPT !.gen = lease.gen + 1, !.desired = v]
        BY <2>2, <3>1
      <3>3. QED
        BY <1>1, <3>2, DesireIs
    <2>3. QED
      BY <1>1, <1>2, <2>2 DEF QueueTextInputDesired
  <1>3. CASE ApplyText \/ AllowTextInput
    BY <1>1, <1>3 DEF ApplyText, AllowTextInput, RejectAcquire
  <1>4. CASE UNCHANGED lease
    BY <1>1, <1>4
  <1>5. CASE CallNext
    BY <1>4, <1>5 DEF CallNext, TryViewFocus, SetBrowserFocused, SetTextInputActive, RendererTerminated,
           BeginShutdown, Destroy, state
  <1>6. CASE ArbiterNext
    BY <1>2, <1>4, <1>6 DEF ArbiterNext, Claim, TryClaim, Granted, Release, TextInputChanged, state
  <1>7. CASE MainNext
    BY <1>3, <1>4, <1>7 DEF MainNext, ApplyBrowserFocused, Open, Close, ShowCursor, StartHideCursor,
           AdvanceMovie, HideCursor, ShowMenu, HideMenu, FocusMenuOpened, FocusMenuClosed,
           TakePendingRestore, StartRestore, CheckRestore, state
  <1>8. QED
    BY <1>5, <1>6, <1>7 DEF Next

LEMMA KindsKept ==
  ASSUME Kinds, Handling, Next
  PROVE  Kinds'
  <1>1. Class /\ lease' \in [gen : Nat, desired : BOOLEAN, applied : BOOLEAN]
    BY NextClass, LeaseKind
  <1>2. at' \in [Threads -> Places]
    <2>1. UNCHANGED at \/ \E t \in Threads : Walks(t)
      BY CallWalks, ArbiterWalks, MainWalks, MainIs DEF Next
    <2>2. QED
      BY <2>1 DEF Walks, Kinds
  <1>3. CASE Quiet
    BY <1>1, <1>2, <1>3, QuietKinds DEF Quiet, Kinds
  <1>4. CASE Begin
    <2>1. PICK pause : OnFirstClaim(pause)
      BY <1>4 DEF Begin
    <2>2. session' \in [gen : Nat, active : BOOLEAN, captured : BOOLEAN, pending : BOOLEAN]
      BY <2>1, SessionIs
    <2>3. uiTasks' \in Seq(UITask)
      BY <2>1, CommandsAre, Appended DEF OnFirstClaim, Kinds
    <2>4. QED
      BY <1>1, <1>2, <1>4, <2>2, <2>3 DEF Begin, Kinds
  <1>5. CASE Drop
    <2>1. session' \in [gen : Nat, active : BOOLEAN, captured : BOOLEAN, pending : BOOLEAN]
      BY <1>5, SessionIs DEF Drop
    <2>2. uiTasks' \in Seq(UITask)
      <3>1. uiTasks' = Append(Append(uiTasks, UITaskOf("show cursor")), UITaskOf("close"))
        <4>1. PICK c \in UITask, d \in UITask : c = UITaskOf("show cursor") /\ d = UITaskOf("close")
          BY CommandsAre
        <4>2. uiTasks' = uiTasks \o <<c, d>>
          BY <1>5, <4>1 DEF Drop
        <4>3. uiTasks \o <<c, d>> = Append(Append(uiTasks, c), d)
          BY TwoAppended, Queues
        <4>4. QED
          BY <4>1, <4>2, <4>3
      <3>2. QED
        BY <3>1, CommandsAre, TypedAppend, Queues
    <2>3. QED
      BY <1>1, <1>2, <1>5, <2>1, <2>2 DEF Drop, Kinds
  <1>6. CASE Restores
    <2>1. gameTasks' \in Seq(Games) /\ running' \in BOOLEAN
      <3>1. Head(gameTasks) \in Games /\ Tail(gameTasks) \in Seq(Games)
        BY <1>6, TypedTail, Queues DEF Restores
      <3>2. gameTasks' \in Seq(Games)
        BY <3>1, <1>6, Queues DEF Restores
      <3>3. running' \in BOOLEAN
        BY <3>1, <1>6 DEF Restores, Kinds, Games
      <3>4. QED
        BY <3>2, <3>3
    <2>2. QED
      BY <1>1, <1>2, <1>6, <2>1 DEF Restores, Kinds
  <1>7. CASE Open \/ Close
    <2>1. uiTasks' \in Seq(UITask) /\ messages' \in Seq({"show", "hide"})
      <3>1. "show" \in {"show", "hide"} /\ "hide" \in {"show", "hide"}
        OBVIOUS
      <3>2. uiTasks # <<>> /\ uiTasks' = Tail(uiTasks)
        BY <1>7 DEF Open, Close, NextUITask
      <3>3. messages' = Append(messages, "show") \/ messages' = Append(messages, "hide")
        BY <1>7 DEF Open, Close, CloseAlways
      <3>4. QED
        BY <3>1, <3>2, <3>3, TypedTail, TypedAppend, Queues
    <2>2. QED
      BY <1>1, <1>2, <1>7, <2>1 DEF Open, Close, Kinds, browsers, state, engine
  <1>8. CASE ShowMenu \/ HideMenu
    <2>1. messages' \in Seq({"show", "hide"})
      BY <1>8, TypedTail, Queues DEF ShowMenu, HideMenu
    <2>2. menu' \in {"closed", "open", "pausing"} /\ running' \in BOOLEAN
      BY <1>8 DEF ShowMenu, HideMenu, Kinds
    <2>3. QED
      BY <1>1, <1>2, <1>8, <2>1, <2>2 DEF ShowMenu, HideMenu, Kinds, browsers, state
  <1>9. CASE FocusMenuClosed
    BY <1>1, <1>2, <1>9 DEF FocusMenuClosed, Kinds, browsers, state, queues, engine
  <1>10. CASE TakePendingRestore
    <2>1. session' \in [gen : Nat, active : BOOLEAN, captured : BOOLEAN, pending : BOOLEAN]
      BY <1>10, SessionIs DEF TakePendingRestore, Kinds
    <2>2. gameTasks' \in Seq(Games)
      BY <1>10, RestoreIs, TypedAppend, Queues DEF TakePendingRestore
    <2>3. QED
      BY <1>1, <1>2, <1>10, <2>1, <2>2 DEF TakePendingRestore, Kinds, browsers, engine
  <1>11. QED
    BY <1>1, <1>3, <1>4, <1>5, <1>6, <1>7, <1>8, <1>9, <1>10 DEF Class

LEMMA Deaths ==
  ASSUME Next
  PROVE  UNCHANGED alive \/ \E t \in Threads, b \in Browsers : Destroy(t, b)
  BY DEF Next, CallNext, TryViewFocus, SetBrowserFocused, SetTextInputActive, RendererTerminated,
     BeginShutdown, ArbiterNext, Claim, TryClaim, Granted, Release, TextInputChanged,
     QueueTextInputDesired, MainNext, ApplyBrowserFocused, Open, Close, ShowCursor, StartHideCursor,
     AdvanceMovie, HideCursor, ShowMenu, HideMenu, FocusMenuOpened, FocusMenuClosed,
     TakePendingRestore, StartRestore, CheckRestore, ApplyText, AllowTextInput, browsers

\* A destructor moves its own thread, which was idle, and no other.
LEMMA DestroyIs ==
  ASSUME Kinds, NEW t \in Threads, NEW b \in Browsers, Destroy(t, b)
  PROVE  /\ at[t] = Idle /\ at'[t].in = "release" /\ at'[t].b = b
         /\ \A u \in Threads : u # t => at'[u] = at[u]
         /\ \A u \in Threads : at[u].b # b
         /\ alive' = alive \ {b} /\ owner' = owner
  <1>1. /\ "release" \in Stages /\ b \in Browsers \cup {NoBrowser} /\ FALSE \in BOOLEAN
        /\ "idle" \in {"idle", "release"} /\ Goto(t, "release", b, FALSE, "idle")
    BY DEF Destroy, Stages
  <1>2. /\ at'[t] = [in |-> "release", b |-> b, v |-> FALSE, then |-> "idle"]
        /\ \A u \in Threads : u # t => at'[u] = at[u]
    BY <1>1, GotoIs
  <1>3. QED
    BY <1>2 DEF Destroy, Free

LEMMA WorkKept ==
  ASSUME Kinds, Handling, Next
  PROVE  \A u \in Threads : WorksFor(at'[u], alive')
  <1> SUFFICES ASSUME NEW u \in Threads PROVE WorksFor(at'[u], alive')
    OBVIOUS
  <1>1. WorksFor(at[u], alive)
    BY DEF Handling
  <1>2. CASE UNCHANGED alive
    <2>1. UNCHANGED at \/ \E t \in Threads : Walks(t)
      BY CallWalks, ArbiterWalks, MainWalks, MainIs DEF Next
    <2>2. WorksFor(at'[u], alive)
      BY <1>1, <2>1 DEF Walks
    <2>3. QED
      BY <1>2, <2>2
  <1>3. ASSUME NEW t \in Threads, NEW b \in Browsers, Destroy(t, b)
        PROVE  WorksFor(at'[u], alive')
    <2>1. CASE u = t
      <3>1. at'[t] \in Places
        <4>1. UNCHANGED at \/ \E s \in Threads : Walks(s)
          BY CallWalks, <1>3 DEF Next, CallNext
        <4>2. QED
          BY <4>1 DEF Walks, Kinds
      <3>2. at'[t].in = "release" /\ at'[t].b = b
        BY <1>3, DestroyIs
      <3>3. QED
        BY <2>1, <3>2 DEF WorksFor
    <2>2. CASE u # t
      BY <1>1, <1>3, <2>2, DestroyIs DEF WorksFor
    <2>3. QED
      BY <2>1, <2>2
  <1>4. QED
    BY <1>2, <1>3, Deaths

LEMMA RestoringKept ==
  ASSUME Kinds, Handling, Next
  PROVE  Restoring' => gameTasks' # <<>> /\ Head(gameTasks').do = "restore"
  <1> SUFFICES ASSUME Restoring' PROVE gameTasks' # <<>> /\ Head(gameTasks').do = "restore"
    OBVIOUS
  <1>1. ASSUME Restoring, UNCHANGED gameTasks \/ \E e \in Games : gameTasks' = Append(gameTasks, e)
        PROVE  gameTasks' # <<>> /\ Head(gameTasks').do = "restore"
    <2>1. gameTasks # <<>> /\ Head(gameTasks).do = "restore"
      BY <1>1 DEF Handling
    <2>2. CASE UNCHANGED gameTasks
      BY <2>1, <2>2
    <2>3. ASSUME NEW e \in Games, gameTasks' = Append(gameTasks, e)
          PROVE  gameTasks' # <<>> /\ Head(gameTasks').do = "restore"
      BY <2>1, <2>3, Appended, Queues
    <2>4. QED
      BY <1>1, <2>2, <2>3
  <1>2. CASE CallNext \/ ArbiterNext
    <2>1. Restoring
      <3>1. UNCHANGED at["main"] \/ Calling("main")
        BY <1>2, CallsLeaveMain
      <3>2. QED
        BY <3>1, MainIs DEF Restoring
    <2>2. gameTasks # <<>> /\ Head(gameTasks).do = "restore"
      BY <2>1 DEF Handling
    <2>3. Quiet \/ Begin \/ Drop
      BY <1>2, CallsAreQuiet, ArbiterClass
    <2>4. UNCHANGED gameTasks \/ \E e \in Games : gameTasks' = Append(gameTasks, e)
      BY <2>2, <2>3 DEF Quiet, QuietGame, Begin, Drop
    <2>5. QED
      BY <2>1, <2>4, <1>1
  <1>3. CASE MainNext
    <2>1. /\ \A in \in Stages : Step("main", in) => at'["main"].in = in
          /\ Return("main") => ~Restoring'
          /\ {"hide", "menu opened", "menu closed", "take", "restore", "current", "write", "allow"} \subseteq Stages
          /\ Free("main") => ~Restoring
      BY MainStep, MainIs DEF Restoring
    <2>2. UNCHANGED at => Restoring
      BY DEF Restoring
    <2>3. \A in \in {"hide", "menu opened", "menu closed", "take"} : ~Step("main", in)
      BY <2>1 DEF Restoring
    <2>4. ~ApplyBrowserFocused
      <3>1. PICK p : p = [in |-> IF Head(uiTasks).v THEN "claim" ELSE "release",
                          b |-> Head(uiTasks).b, v |-> FALSE, then |-> "idle"]
        OBVIOUS
      <3>2. /\ p.in = "claim" \/ p.in = "release"
            /\ ApplyBrowserFocused => UNCHANGED at \/ at' = [at EXCEPT !["main"] = p]
        BY <3>1 DEF ApplyBrowserFocused, Goto
      <3>3. at' # [at EXCEPT !["main"] = p]
        BY <3>2, MainIs DEF Kinds, Restoring
      <3>4. QED
        BY <3>2, <3>3, <2>1, <2>2 DEF ApplyBrowserFocused, NextUITask
    <2>5. ~ApplyText
      <3>1. PICK p : p = [in |-> "allow", b |-> NoBrowser, v |-> lease.desired, then |-> "idle"]
        OBVIOUS
      <3>2. p.in = "allow" /\ (ApplyText => UNCHANGED at \/ at' = [at EXCEPT !["main"] = p])
        BY <3>1 DEF ApplyText, Goto
      <3>3. at' # [at EXCEPT !["main"] = p]
        BY <3>2, MainIs DEF Kinds, Restoring
      <3>4. QED
        BY <3>2, <3>3, <2>1, <2>2 DEF ApplyText, NextGameTask
    <2>6. ~(Open \/ Close \/ ShowCursor \/ StartHideCursor \/ AdvanceMovie \/ HideCursor)
      BY <2>1, <2>2, <2>3 DEF Open, Close, ShowCursor, StartHideCursor, AdvanceMovie, HideCursor, NextUITask
    <2>7. ~(ShowMenu \/ HideMenu \/ FocusMenuOpened \/ FocusMenuClosed \/ TakePendingRestore \/ AllowTextInput)
      BY <2>1, <2>2, <2>3 DEF ShowMenu, HideMenu, FocusMenuOpened, FocusMenuClosed, TakePendingRestore,
         AllowTextInput
    <2>8. CASE StartRestore
      BY <2>8 DEF StartRestore, NextGameTask, queues
    <2>9. CASE CheckRestore
      <3>1. Restoring /\ UNCHANGED gameTasks
        BY <2>1, <2>9 DEF CheckRestore, DropRestore, Restoring
      <3>2. QED
        BY <3>1, <1>1
    <2>10. QED
      BY <1>3, <2>4, <2>5, <2>6, <2>7, <2>8, <2>9 DEF MainNext
  <1>4. QED
    BY <1>2, <1>3 DEF Next

LEMMA HandlingKept ==
  ASSUME Kinds, Handling, Next
  PROVE  Handling'
  <1>1. Restoring' => (gameTasks # <<>> /\ Head(gameTasks).do = "restore")'
    BY RestoringKept
  <1>2. \A t \in Threads : WorksFor(at[t], alive)'
    BY WorkKept DEF WorksFor
  <1>3. QED
    BY <1>1, <1>2 DEF Handling

LEMMA ExpiredKept ==
  ASSUME Kinds, Handling, Expired, Next
  PROVE  Expired'
  <1> SUFFICES ASSUME Owned', owner' \notin alive'
               PROVE  \E t \in Threads : at'[t].in = "release" /\ at'[t].b = owner'
    BY DEF Expired
  <1>1. ASSUME NEW t \in Threads, NEW b \in Browsers, Destroy(t, b)
        PROVE  \E u \in Threads : at'[u].in = "release" /\ at'[u].b = owner'
    <2>1. CASE owner = b
      BY <1>1, <2>1, DestroyIs
    <2>2. CASE owner # b
      <3>1. Owned /\ owner \notin alive
        BY <1>1, <2>2, DestroyIs DEF Owned
      <3>2. PICK u \in Threads : at[u].in = "release" /\ at[u].b = owner
        BY <3>1 DEF Expired
      <3>3. u # t
        BY <1>1, <3>2, DestroyIs, IdleIs
      <3>4. QED
        BY <1>1, <3>2, <3>3, DestroyIs
    <2>3. QED
      BY <2>1, <2>2
  <1>2. CASE UNCHANGED alive /\ UNCHANGED owner
    <2>1. PICK u \in Threads : at[u].in = "release" /\ at[u].b = owner
      BY <1>2 DEF Expired, Owned
    <2>2. UNCHANGED at \/ \E t \in Threads : Walks(t)
      BY CallWalks, ArbiterWalks, MainWalks, MainIs DEF Next
    <2>3. ~Release(u)
      BY <1>2, <2>1 DEF Release, Owned
    <2>4. QED
      BY <1>2, <2>1, <2>2, <2>3 DEF Walks
  <1>3. CASE UNCHANGED alive /\ owner' # owner
    <2>1. PICK t \in Threads : Claim(t) \/ TryClaim(t) \/ Release(t)
      BY <1>3 DEF Next, CallNext, TryViewFocus, SetBrowserFocused, SetTextInputActive, RendererTerminated,
         BeginShutdown, Destroy, ArbiterNext, Granted, TextInputChanged,
         QueueTextInputDesired, MainNext, ApplyBrowserFocused, Open, Close, ShowCursor, StartHideCursor,
         AdvanceMovie, HideCursor, ShowMenu, HideMenu, FocusMenuOpened, FocusMenuClosed,
         TakePendingRestore, StartRestore, CheckRestore, ApplyText, AllowTextInput, browsers
    <2>2. owner' # at[t].b
      BY <1>3, <2>1 DEF Handling, WorksFor, Claim, TryClaim, Release
    <2>3. owner' = NoBrowser
      BY <1>3, <2>1, <2>2 DEF Claim, TryClaim, Release, Own
    <2>4. QED
      BY <2>3 DEF Owned
  <1>4. QED
    BY <1>1, <1>2, <1>3, Deaths

-----------------------------------------------------------------------------
(* The text-input lease.                                                   *)

Allowing == at["main"].in = "allow"

\* A task that will find the lease as it left it.
TextTask == \E i \in 1..Len(gameTasks) : gameTasks[i].do = "text" /\ gameTasks[i].gen = lease.gen

\* The engine's count is what has been applied, but for the call under way; what
\* is applied and no longer desired has a task to take it back.
Lease ==
  /\ Allowing => at["main"].v = lease.applied
  /\ textEntries = IF (lease.applied /\ ~Allowing) \/ (~lease.applied /\ Allowing) THEN 1 ELSE 0
  /\ lease.applied /\ ~lease.desired => TextTask

\* Steps that leave the lease alone.
LeaseQuiet ==
  /\ UNCHANGED <<lease, textEntries>> /\ (Allowing' <=> Allowing)
  /\ Allowing => at'["main"].v = at["main"].v
  /\ \/ UNCHANGED gameTasks
     \/ \E e \in Games : gameTasks' = Append(gameTasks, e)
     \/ gameTasks # <<>> /\ Head(gameTasks).do = "restore" /\ gameTasks' = Tail(gameTasks)

LEMMA TextTaskShifts ==
  ASSUME Kinds, TextTask, lease'.gen = lease.gen,
         \/ UNCHANGED gameTasks
         \/ \E e \in Games : gameTasks' = Append(gameTasks, e)
         \/ /\ gameTasks # <<>> /\ gameTasks' = Tail(gameTasks)
            /\ Head(gameTasks).do # "text" \/ Head(gameTasks).gen # lease.gen
  PROVE  TextTask'
  <1>1. PICK i \in 1..Len(gameTasks) : gameTasks[i].do = "text" /\ gameTasks[i].gen = lease.gen
    BY DEF TextTask
  <1>2. gameTasks \in Seq(Games)
    BY Queues
  <1>3. CASE UNCHANGED gameTasks
    BY <1>1, <1>3 DEF TextTask
  <1>4. ASSUME NEW e \in Games, gameTasks' = Append(gameTasks, e)
        PROVE  TextTask'
    <2>1. i \in 1..Len(gameTasks') /\ gameTasks'[i] = gameTasks[i]
      BY <1>1, <1>2, <1>4, Appended
    <2>2. QED
      BY <1>1, <2>1 DEF TextTask
  <1>5. CASE gameTasks # <<>> /\ gameTasks' = Tail(gameTasks) /\ gameTasks[i] # Head(gameTasks)
    <2>1. i - 1 \in 1..Len(gameTasks') /\ gameTasks'[i - 1] = gameTasks[i]
      BY <1>1, <1>2, <1>5, Removed
    <2>2. QED
      BY <1>1, <2>1 DEF TextTask
  <1>6. QED
    BY <1>1, <1>3, <1>4, <1>5

LEMMA LeaseRests ==
  ASSUME Kinds, Lease, LeaseQuiet
  PROVE  Lease'
  <1>1. lease.applied /\ ~lease.desired => TextTask'
    BY TextTaskShifts DEF Lease, LeaseQuiet
  <1>2. QED
    BY <1>1 DEF Lease, LeaseQuiet

LEMMA LeaseAsCalled ==
  ASSUME Kinds, Handling, CallNext \/ ArbiterNext
  PROVE  LeaseQuiet \/ \E t \in Threads : QueueTextInputDesired(t)
  <1>1. (Allowing' <=> Allowing) /\ (Allowing => at'["main"].v = at["main"].v)
    <2>1. UNCHANGED at["main"] \/ Calling("main")
      BY CallsLeaveMain
    <2>2. QED
      BY <2>1 DEF Allowing, Calling, CallStages
  <1>2. \/ UNCHANGED <<lease, textEntries, gameTasks>>
        \/ \E t \in Threads : QueueTextInputDesired(t)
    <2>1. CASE CallNext
      BY <2>1 DEF CallNext, TryViewFocus, SetBrowserFocused, SetTextInputActive, RendererTerminated,
           BeginShutdown, Destroy, state, queues, engine
    <2>2. CASE ArbiterNext
      BY <2>2 DEF ArbiterNext, Claim, TryClaim, Granted, Release, End, TextInputChanged, state, queues, engine
    <2>3. QED
      BY <2>1, <2>2
  <1>3. QED
    BY <1>1, <1>2 DEF LeaseQuiet

LEMMA LeaseAsQueued ==
  ASSUME Kinds, MainNext, Handling
  PROVE  LeaseQuiet \/ ApplyText \/ AllowTextInput
  <1> SUFFICES ASSUME ~ApplyText, ~AllowTextInput PROVE LeaseQuiet
    OBVIOUS
  <1>1. UNCHANGED <<lease, textEntries>>
    BY DEF MainNext, ApplyBrowserFocused, Open, Close, ShowCursor, StartHideCursor,
           AdvanceMovie, HideCursor, ShowMenu, HideMenu, FocusMenuOpened, FocusMenuClosed,
           TakePendingRestore, StartRestore, CheckRestore, state, engine
  <1>2. \/ UNCHANGED gameTasks
        \/ \E e \in Games : gameTasks' = Append(gameTasks, e)
        \/ gameTasks # <<>> /\ Head(gameTasks).do = "restore" /\ gameTasks' = Tail(gameTasks)
    <2>1. CASE TakePendingRestore
      BY <2>1, RestoreIs DEF TakePendingRestore
    <2>2. CASE CheckRestore
      BY <2>2 DEF CheckRestore, DropRestore, Handling, Restoring
    <2>3. QED
      BY <2>1, <2>2 DEF MainNext, ApplyBrowserFocused, Open, Close, ShowCursor, StartHideCursor,
           AdvanceMovie, HideCursor, ShowMenu, HideMenu, FocusMenuOpened, FocusMenuClosed,
           StartRestore, queues
  <1>3. ~Allowing
    BY MainIs DEF MainNext, ApplyBrowserFocused, Open, Close, ShowCursor, StartHideCursor,
           AdvanceMovie, HideCursor, ShowMenu, HideMenu, FocusMenuOpened, FocusMenuClosed,
           TakePendingRestore, StartRestore, CheckRestore, NextUITask, NextGameTask, Allowing
  <1>4. ~Allowing'
    <2>1. /\ \A in \in Stages : Step("main", in) => at'["main"].in = in
          /\ Return("main") => ~Allowing'
          /\ {"hide", "menu opened", "menu closed", "take", "restore", "current", "write"} \subseteq Stages
          /\ UNCHANGED at => ~Allowing'
      BY <1>3, MainStep, MainIs DEF Allowing
    <2>2. CASE ApplyBrowserFocused
      <3>1. PICK p : p = [in |-> IF Head(uiTasks).v THEN "claim" ELSE "release",
                          b |-> Head(uiTasks).b, v |-> FALSE, then |-> "idle"]
        OBVIOUS
      <3>2. /\ p.in = "claim" \/ p.in = "release"
            /\ ApplyBrowserFocused => UNCHANGED at \/ at' = [at EXCEPT !["main"] = p]
        BY <3>1 DEF ApplyBrowserFocused, Goto
      <3>3. at' = [at EXCEPT !["main"] = p] => ~Allowing'
        BY <3>2, MainIs DEF Kinds, Allowing
      <3>4. QED
        BY <2>1, <2>2, <3>2, <3>3
    <2>3. CASE HideCursor \/ FocusMenuOpened \/ FocusMenuClosed \/ TakePendingRestore \/ CheckRestore
      <3>1. Return("main") \/ \E in \in {"take", "current", "write"} : Step("main", in)
        BY <2>3 DEF HideCursor, FocusMenuOpened, FocusMenuClosed, TakePendingRestore, CheckRestore, DropRestore
      <3>2. QED
        BY <2>1, <3>1 DEF Allowing
    <2>4. CASE Open \/ Close \/ ShowCursor \/ StartHideCursor \/ AdvanceMovie \/ ShowMenu \/ HideMenu \/ StartRestore
      <3>1. UNCHANGED at \/ \E in \in {"hide", "menu opened", "menu closed", "restore"} : Step("main", in)
        BY <2>4 DEF Open, Close, ShowCursor, StartHideCursor, AdvanceMovie, ShowMenu, HideMenu, StartRestore
      <3>2. QED
        BY <2>1, <3>1 DEF Allowing
    <2>5. QED
      BY <2>2, <2>3, <2>4 DEF MainNext
  <1>5. QED
    BY <1>1, <1>2, <1>3, <1>4 DEF LeaseQuiet

LEMMA LeaseKept ==
  ASSUME Kinds, Handling, Lease, Next
  PROVE  Lease'
  <1>1. lease \in [gen : Nat, desired : BOOLEAN, applied : BOOLEAN]
    BY DEF Kinds
  <1>2. ASSUME NEW t \in Threads, QueueTextInputDesired(t)
        PROVE  Lease'
    <2>1. (Allowing' <=> Allowing) /\ (Allowing => at'["main"].v = at["main"].v)
      <3>1. ArbiterNext
        BY <1>2 DEF ArbiterNext
      <3>2. UNCHANGED at["main"] \/ Calling("main")
        BY <3>1, CallsLeaveMain
      <3>3. QED
        BY <3>2 DEF Allowing, Calling, CallStages
    <2>2. UNCHANGED textEntries
      BY <1>2 DEF QueueTextInputDesired, engine
    <2>3. CASE UNCHANGED <<lease, gameTasks>>
      BY <2>1, <2>2, <2>3, LeaseRests DEF LeaseQuiet
    <2>4. CASE ~UNCHANGED <<lease, gameTasks>>
      <3>1. PICK v \in BOOLEAN : v = at[t].v
        BY DEF Kinds, Places
      <3>2. lease' = [lease EXCEPT !.gen = lease.gen + 1, !.desired = v]
        BY <1>2, <2>4, <3>1 DEF QueueTextInputDesired
      <3>3. lease'.gen = lease.gen + 1 /\ lease'.applied = lease.applied
        BY <1>1, <3>2, DesireIs
      <3>4. PICK e : e = [do |-> "text", gen |-> lease.gen + 1, running |-> FALSE]
        OBVIOUS
      <3>5. e \in Games /\ e.do = "text" /\ e.gen = lease'.gen
        BY <3>3, <3>4, <1>1 DEF Games
      <3>6. gameTasks' = Append(gameTasks, e)
        BY <1>2, <2>4, <3>4 DEF QueueTextInputDesired
      <3>7. TextTask'
        BY <3>5, <3>6, Appended, Queues DEF TextTask
      <3>8. QED
        BY <2>1, <2>2, <3>3, <3>7 DEF Lease
    <2>5. QED
      BY <2>3, <2>4
  <1>3. CASE ApplyText
    <2>1. /\ ~Allowing /\ gameTasks # <<>> /\ Head(gameTasks).do = "text" /\ gameTasks' = Tail(gameTasks)
          /\ UNCHANGED textEntries
      BY <1>3, MainIs DEF ApplyText, NextGameTask, Allowing, engine
    <2>2. CASE UNCHANGED <<lease, at>> /\ ~Transition(Head(gameTasks))
      <3>1. lease.applied /\ ~lease.desired => TextTask'
        BY <2>1, <2>2, <1>1, TextTaskShifts DEF Transition, Lease
      <3>2. QED
        BY <2>1, <2>2, <3>1 DEF Lease, Allowing
    <2>3. CASE Transition(Head(gameTasks))
      <3>1. PICK v \in BOOLEAN : v = lease.desired
        BY <1>1
      <3>2. lease' = [lease EXCEPT !.applied = v] /\ Goto("main", "allow", NoBrowser, v, "idle")
        BY <1>3, <2>3, <3>1 DEF ApplyText
      <3>3. lease'.applied = v /\ lease'.desired = v /\ lease.applied # v
        BY <1>1, <2>3, <3>1, <3>2 DEF Transition
      <3>4. at'["main"].in = "allow" /\ at'["main"].v = v
        BY <3>2, MainIs DEF Goto, Kinds
      <3>5. QED
        BY <1>1, <2>1, <3>3, <3>4 DEF Lease, Allowing
    <2>4. QED
      BY <1>3, <2>2, <2>3 DEF ApplyText
  <1>4. CASE AllowTextInput
    <2>1. Allowing /\ ~Allowing' /\ UNCHANGED gameTasks
      BY <1>4, MainStep DEF AllowTextInput, Allowing, queues
    <2>2. at["main"].v = lease.applied /\ lease.applied \in BOOLEAN
      BY <1>1, <2>1 DEF Lease
    <2>3. CASE UNCHANGED lease /\ textEntries' = IF at["main"].v THEN textEntries + 1 ELSE textEntries - 1
      <3>1. lease.applied /\ ~lease.desired => TextTask'
        BY <2>1, <2>3, TextTaskShifts DEF Lease
      <3>2. textEntries' = IF lease.applied THEN 1 ELSE 0
        BY <2>1, <2>2, <2>3 DEF Lease
      <3>3. QED
        BY <2>1, <2>3, <3>1, <3>2 DEF Lease
    <2>4. CASE at["main"].v /\ lease' = RejectAcquire /\ UNCHANGED textEntries
      <3>1. ~lease'.applied /\ lease'.applied \in BOOLEAN
        BY <1>1, <2>4 DEF RejectAcquire
      <3>2. QED
        BY <2>1, <2>2, <2>4, <3>1 DEF Lease
    <2>5. QED
      BY <1>4, <2>3, <2>4 DEF AllowTextInput
  <1>5. QED
    BY <1>2, <1>3, <1>4, LeaseRests, LeaseAsCalled, LeaseAsQueued DEF Next

-----------------------------------------------------------------------------
(* Commands among the UI tasks.                                            *)

\* The last command in s is do; there is none.
Latest(s, do) == \E i \in 1..Len(s) : s[i].do = do /\ \A j \in 1..Len(s) : Command(s[j]) => j <= i
Silent(s) == \A i \in 1..Len(s) : ~Command(s[i])
Says(s, do) == \E i \in 1..Len(s) : s[i].do = do

\* Between two commands to open there is one to close.
Apart(s) ==
  \A i, j \in 1..Len(s) : i < j /\ s[i].do = "open" /\ s[j].do = "open" =>
     \E k \in 1..Len(s) : i < k /\ k < j /\ s[k].do = "close"

\* A command to open comes after one to close.
After(s) ==
  \A j \in 1..Len(s) : s[j].do = "open" => \E k \in 1..Len(s) : k < j /\ s[k].do = "close"

LEMMA AppendedOther ==
  ASSUME NEW s \in Seq(UITask), NEW e \in UITask, ~Command(e)
  PROVE  LET r == Append(s, e) IN
         /\ Silent(r) <=> Silent(s)
         /\ \A do \in {"open", "close"} : Latest(s, do) => Latest(r, do)
         /\ \A do \in {"open", "close"} : Says(r, do) <=> Says(s, do)
         /\ Apart(s) => Apart(r) /\ (After(s) => After(r))
  <1> DEFINE r == Append(s, e)
  <1>1. /\ Len(s) \in Nat /\ Len(r) = Len(s) + 1 /\ r[Len(s) + 1] = e
        /\ \A i \in 1..Len(s) : r[i] = s[i] /\ i \in 1..Len(r)
        /\ \A i \in 1..Len(r) : i \in 1..Len(s) \/ i = Len(s) + 1
    BY Appended
  <1>2. e.do # "open" /\ e.do # "close"
    BY DEF Command
  <1> HIDE DEF r
  <1>3. Silent(r) <=> Silent(s)
    BY <1>1, <1>2 DEF Silent, Command
  <1>4. ASSUME NEW do \in {"open", "close"}
        PROVE  (Latest(s, do) => Latest(r, do)) /\ (Says(r, do) <=> Says(s, do))
    <2>1. ASSUME Latest(s, do)
          PROVE  Latest(r, do)
      <3>1. PICK i \in 1..Len(s) : s[i].do = do /\ \A j \in 1..Len(s) : Command(s[j]) => j <= i
        BY <2>1 DEF Latest
      <3>2. \A j \in 1..Len(r) : Command(r[j]) => j <= i
        BY <1>1, <1>2, <3>1 DEF Command
      <3>3. QED
        BY <1>1, <3>1, <3>2 DEF Latest
    <2>2. Says(r, do) <=> Says(s, do)
      BY <1>1, <1>2 DEF Says
    <2>3. QED
      BY <2>1, <2>2
  <1>5. Apart(s) => Apart(r)
    BY <1>1, <1>2 DEF Apart
  <1>6. After(s) => After(r)
    BY <1>1, <1>2 DEF After
  <1>7. QED
    BY <1>3, <1>4, <1>5, <1>6 DEF r

LEMMA AppendedCommand ==
  ASSUME NEW s \in Seq(UITask), NEW e \in UITask, Command(e)
  PROVE  LET r == Append(s, e) IN
         /\ Latest(r, e.do) /\ ~Silent(r)
         /\ \A do \in {"open", "close"} : Says(r, do) <=> Says(s, do) \/ do = e.do
         /\ e.do = "close" => (Apart(s) => Apart(r)) /\ (After(s) => After(r))
         /\ Apart(s) /\ (Silent(s) \/ Latest(s, "close")) => Apart(r)
         /\ After(s) /\ Latest(s, "close") => After(r)
  <1> DEFINE r == Append(s, e)
  <1>1. /\ Len(s) \in Nat /\ Len(r) = Len(s) + 1 /\ r[Len(s) + 1] = e
        /\ \A i \in 1..Len(s) : r[i] = s[i] /\ i \in 1..Len(r)
        /\ \A i \in 1..Len(r) : i \in 1..Len(s) \/ i = Len(s) + 1
        /\ Len(s) + 1 \in 1..Len(r)
    BY Appended
  <1> HIDE DEF r
  <1>2. Latest(r, e.do)
    BY <1>1 DEF Latest
  <1>3. ~Silent(r)
    BY <1>1 DEF Silent
  <1>4. \A do \in {"open", "close"} : Says(r, do) <=> Says(s, do) \/ do = e.do
    BY <1>1 DEF Says
  <1>5. e.do = "close" => (Apart(s) => Apart(r)) /\ (After(s) => After(r))
    BY <1>1 DEF Apart, After
  <1>6. ASSUME Apart(s), Silent(s) \/ Latest(s, "close")
        PROVE  Apart(r)
    <2> SUFFICES ASSUME NEW i \in 1..Len(r), NEW j \in 1..Len(r), i < j, r[i].do = "open", r[j].do = "open"
                 PROVE  \E k \in 1..Len(r) : i < k /\ k < j /\ r[k].do = "close"
      BY DEF Apart
    <2>1. i \in 1..Len(s)
      BY <1>1
    <2>2. CASE j \in 1..Len(s)
      BY <2>1, <2>2, <1>1, <1>6 DEF Apart
    <2>3. CASE j = Len(s) + 1
      <3>1. PICK k \in 1..Len(s) : s[k].do = "close" /\ i <= k
        BY <2>1, <1>1, <1>6 DEF Latest, Silent, Command
      <3>2. k # i
        BY <3>1, <2>1, <1>1
      <3>3. QED
        BY <3>1, <3>2, <2>1, <2>3, <1>1
    <2>4. QED
      BY <2>2, <2>3, <1>1
  <1>7. After(s) /\ Latest(s, "close") => After(r)
    BY <1>1 DEF After, Latest
  <1>8. QED
    BY <1>2, <1>3, <1>4, <1>5, <1>6, <1>7 DEF r

LEMMA TailOf ==
  ASSUME NEW s \in Seq(UITask), s # <<>>
  PROVE  /\ \A do \in {"open", "close"} : Says(Tail(s), do) => Says(s, do)
         /\ Silent(s) => Silent(Tail(s))
         /\ Apart(s) => Apart(Tail(s))
         /\ \A do \in {"open", "close"} :
               Latest(s, do) => Latest(Tail(s), do) \/ (Silent(Tail(s)) /\ Head(s).do = do)
         /\ ~Command(Head(s)) => (Silent(Tail(s)) => Silent(s)) /\ (After(s) => After(Tail(s)))
         /\ Head(s).do = "open" /\ Apart(s) => After(Tail(s))
  <1> DEFINE r == Tail(s)
  <1>1. /\ Len(s) \in Nat /\ Len(r) = Len(s) - 1 /\ Head(s) = s[1] /\ 1 \in 1..Len(s)
        /\ \A i \in 1..Len(r) : r[i] = s[i + 1] /\ i + 1 \in 1..Len(s)
        /\ \A i \in 1..Len(s) : i # 1 => i - 1 \in 1..Len(r) /\ r[i - 1] = s[i]
    BY Removed
  <1> HIDE DEF r
  <1>2. \A do \in {"open", "close"} : Says(r, do) => Says(s, do)
    BY <1>1 DEF Says
  <1>3. Silent(s) => Silent(r)
    BY <1>1 DEF Silent
  <1>4. ASSUME Apart(s)
        PROVE  Apart(r) /\ (s[1].do = "open" => After(r))
    <2>1. ASSUME NEW i \in 1..Len(s), NEW j \in 1..Len(r), i < j + 1, s[i].do = "open", r[j].do = "open"
          PROVE  \E k \in 1..Len(r) : i < k + 1 /\ k < j /\ r[k].do = "close"
      <3>1. PICK k \in 1..Len(s) : i < k /\ k < j + 1 /\ s[k].do = "close"
        BY <1>1, <1>4, <2>1 DEF Apart
      <3>2. k - 1 \in 1..Len(r) /\ r[k - 1].do = "close"
        BY <1>1, <3>1, <2>1
      <3>3. i < k - 1 + 1 /\ k - 1 < j
        BY <3>1
      <3>4. QED
        BY <3>2, <3>3
    <2>2. Apart(r)
      <3> SUFFICES ASSUME NEW i \in 1..Len(r), NEW j \in 1..Len(r), i < j, r[i].do = "open", r[j].do = "open"
                   PROVE  \E k \in 1..Len(r) : i < k /\ k < j /\ r[k].do = "close"
        BY DEF Apart
      <3>1. i + 1 \in 1..Len(s) /\ s[i + 1].do = "open" /\ i + 1 < j + 1
        BY <1>1
      <3>2. PICK k \in 1..Len(r) : i + 1 < k + 1 /\ k < j /\ r[k].do = "close"
        BY <2>1, <3>1
      <3>3. QED
        BY <3>2
    <2>3. s[1].do = "open" => After(r)
      <3> SUFFICES ASSUME s[1].do = "open", NEW j \in 1..Len(r), r[j].do = "open"
                   PROVE  \E k \in 1..Len(r) : k < j /\ r[k].do = "close"
        BY DEF After
      <3>1. 1 \in 1..Len(s) /\ 1 < j + 1
        BY <1>1
      <3>2. QED
        BY <2>1, <3>1
    <2>4. QED
      BY <2>2, <2>3
  <1>5. ASSUME NEW do \in {"open", "close"}, Latest(s, do)
        PROVE  Latest(r, do) \/ (Silent(r) /\ s[1].do = do)
    <2>1. PICK i \in 1..Len(s) : s[i].do = do /\ \A j \in 1..Len(s) : Command(s[j]) => j <= i
      BY <1>5 DEF Latest
    <2>2. CASE i = 1
      BY <1>1, <2>1, <2>2 DEF Silent
    <2>3. CASE i # 1
      <3>1. i - 1 \in 1..Len(r) /\ r[i - 1].do = do
        BY <1>1, <2>1, <2>3
      <3>2. \A j \in 1..Len(r) : Command(r[j]) => j <= i - 1
        BY <1>1, <2>1
      <3>3. QED
        BY <3>1, <3>2 DEF Latest
    <2>4. QED
      BY <2>2, <2>3
  <1>6. ASSUME ~Command(s[1])
        PROVE  (Silent(r) => Silent(s)) /\ (After(s) => After(r))
    <2>1. Silent(r) => Silent(s)
      BY <1>1, <1>6 DEF Silent
    <2>2. ASSUME After(s)
          PROVE  After(r)
      <3> SUFFICES ASSUME NEW j \in 1..Len(r), r[j].do = "open"
                   PROVE  \E k \in 1..Len(r) : k < j /\ r[k].do = "close"
        BY DEF After
      <3>1. PICK k \in 1..Len(s) : k < j + 1 /\ s[k].do = "close"
        BY <1>1, <2>2 DEF After
      <3>2. k # 1
        BY <3>1, <1>6 DEF Command
      <3>3. k - 1 \in 1..Len(r) /\ r[k - 1].do = "close" /\ k - 1 < j
        BY <1>1, <3>1, <3>2
      <3>4. QED
        BY <3>3
    <2>3. QED
      BY <2>1, <2>2
  <1>7. QED
    BY <1>1, <1>2, <1>3, <1>4, <1>5, <1>6 DEF r

-----------------------------------------------------------------------------
(* The menu.                                                               *)

\* What the menu comes to when it has read its messages.
MenuOpens  == IF messages = <<>> THEN menu # "closed" ELSE messages[Len(messages)] = "show"
MenuCloses == IF messages = <<>> THEN menu = "closed" ELSE messages[Len(messages)] = "hide"

Opening == Latest(uiTasks, "open") \/ (Silent(uiTasks) /\ MenuOpens)
Closing == Latest(uiTasks, "close") \/ (Silent(uiTasks) /\ MenuCloses)

\* The last command is the owner's.
Screen == (Owned => Opening) /\ (~Owned => Closing)

\* While no browser is destroyed, opening and closing take turns.
HeadShows ==
  \A m \in 1..Len(messages) :
     messages[m] = "show" => IF m = 1 THEN menu = "closed" ELSE messages[m - 1] = "hide"

Alternate ==
  alive = Browsers => Apart(uiTasks) /\ (MenuCloses \/ After(uiTasks)) /\ HeadShows

\* So a menu that has obeyed was opened for the session.
Pausing ==
  alive = Browsers /\ Owned /\ Silent(uiTasks) /\ messages = <<>> => (menu = "pausing" <=> pauseGame)

MInv == Screen /\ Alternate /\ Pausing

LEMMA QuietCommands ==
  ASSUME Kinds, QuietTasks
  PROVE  /\ Silent(uiTasks') <=> Silent(uiTasks)
         /\ \A do \in {"open", "close"} :
               /\ Latest(uiTasks, do) => Latest(uiTasks', do)
               /\ Says(uiTasks', do) => Says(uiTasks, do)
         /\ Apart(uiTasks) => Apart(uiTasks') /\ (After(uiTasks) => After(uiTasks'))
  <1>1. uiTasks \in Seq(UITask)
    BY Queues
  <1>2. CASE UNCHANGED uiTasks
    BY <1>2
  <1>3. ASSUME NEW e \in UITask, ~Command(e), uiTasks' = Append(uiTasks, e)
        PROVE  /\ Silent(uiTasks') <=> Silent(uiTasks)
               /\ \A do \in {"open", "close"} :
                     /\ Latest(uiTasks, do) => Latest(uiTasks', do)
                     /\ Says(uiTasks', do) => Says(uiTasks, do)
               /\ Apart(uiTasks) => Apart(uiTasks') /\ (After(uiTasks) => After(uiTasks'))
    BY <1>1, <1>3, AppendedOther
  <1>4. CASE uiTasks # <<>> /\ ~Command(Head(uiTasks)) /\ uiTasks' = Tail(uiTasks)
    <2>1. \A do \in {"open", "close"} : Head(uiTasks).do # do
      BY <1>4 DEF Command
    <2>2. QED
      BY <1>1, <1>4, <2>1, TailOf
  <1>5. QED
    BY <1>2, <1>3, <1>4 DEF QuietTasks

LEMMA AliveIs == ASSUME Kinds, NEW b \in Browsers PROVE alive = Browsers => b \in alive
  OBVIOUS

LEMMA MenuRests ==
  ASSUME Kinds, MInv, UNCHANGED <<messages, menu, pauseGame>>, Owned' <=> Owned, alive' \subseteq alive,
         QuietTasks
  PROVE  MInv'
  <1>1. /\ Silent(uiTasks') <=> Silent(uiTasks)
        /\ Latest(uiTasks, "open") => Latest(uiTasks', "open")
        /\ Latest(uiTasks, "close") => Latest(uiTasks', "close")
        /\ Apart(uiTasks) => Apart(uiTasks') /\ (After(uiTasks) => After(uiTasks'))
    BY QuietCommands
  <1>2. (MenuOpens' <=> MenuOpens) /\ (MenuCloses' <=> MenuCloses) /\ (HeadShows => HeadShows')
    BY DEF MenuOpens, MenuCloses, HeadShows
  <1>3. alive' = Browsers => alive = Browsers
    BY DEF Kinds
  <1>4. Screen'
    BY <1>1, <1>2 DEF MInv, Screen, Opening, Closing
  <1>5. Alternate'
    BY <1>1, <1>2, <1>3 DEF MInv, Alternate
  <1>6. Pausing'
    BY <1>1, <1>3 DEF MInv, Pausing
  <1>7. QED
    BY <1>4, <1>5, <1>6 DEF MInv

LEMMA MenuBegins ==
  ASSUME Kinds, MInv, Begin
  PROVE  MInv'
  <1>1. uiTasks \in Seq(UITask) /\ uiTasks' = Append(uiTasks, UITaskOf("open"))
    BY Queues DEF Begin, OnFirstClaim
  <1>2. UITaskOf("open") \in UITask /\ UITaskOf("open").do = "open" /\ Command(UITaskOf("open"))
    BY CommandsAre DEF Command
  <1>3. /\ Latest(uiTasks', "open") /\ ~Silent(uiTasks')
        /\ Apart(uiTasks) /\ (Silent(uiTasks) \/ Latest(uiTasks, "close")) => Apart(uiTasks')
        /\ After(uiTasks) /\ Latest(uiTasks, "close") => After(uiTasks')
    <2>1. PICK e \in UITask : e = UITaskOf("open")
      BY <1>2
    <2>2. uiTasks' = Append(uiTasks, e) /\ e.do = "open" /\ Command(e)
      BY <1>1, <1>2, <2>1
    <2>3. QED
      BY <1>1, <2>2, AppendedCommand
  <1>4. Owned'
    BY FocusAssumption DEF Begin, Owned
  <1>5. (MenuCloses' <=> MenuCloses) /\ (HeadShows => HeadShows')
    BY DEF Begin, MenuCloses, HeadShows
  <1>6. ASSUME alive' = Browsers
        PROVE  Apart(uiTasks') /\ (MenuCloses' \/ After(uiTasks')) /\ HeadShows'
    <2>1. alive = Browsers /\ ~Owned
      BY <1>6 DEF Begin, Kinds, HasOwner, Owned
    <2>2. Closing /\ Apart(uiTasks) /\ (MenuCloses \/ After(uiTasks)) /\ HeadShows
      BY <2>1 DEF MInv, Screen, Alternate
    <2>3. QED
      BY <1>3, <1>5, <2>2 DEF Closing
  <1>7. QED
    BY <1>3, <1>4, <1>6 DEF MInv, Screen, Opening, Alternate, Pausing

\* Showing the cursor and closing the menu, one after the other.
LEMMA SaidLast ==
  ASSUME NEW s \in Seq(UITask), NEW e \in UITask
  PROVE  /\ Append(s, e) \in Seq(UITask) /\ Says(Append(s, e), e.do)
         /\ \A do : Says(s, do) => Says(Append(s, e), do)
  <1> DEFINE r == Append(s, e)
  <1>1. r \in Seq(UITask) /\ Len(s) \in Nat /\ Len(r) = Len(s) + 1 /\ Len(s) + 1 \in 1..Len(r)
    BY Appended
  <1>2. r[Len(s) + 1] = e /\ \A i \in 1..Len(s) : r[i] = s[i] /\ i \in 1..Len(r)
    BY Appended
  <1> HIDE DEF r
  <1>3. Says(r, e.do)
    BY <1>1, <1>2 DEF Says
  <1>4. \A do : Says(s, do) => Says(r, do)
    BY <1>2 DEF Says
  <1>5. QED
    BY <1>1, <1>3, <1>4 DEF r

LEMMA PairAppended ==
  ASSUME NEW s \in Seq(UITask), NEW c \in UITask, NEW d \in UITask, ~Command(c), Command(d), d.do = "close"
  PROVE  LET r == Append(Append(s, c), d) IN
         /\ Latest(r, "close") /\ Says(r, c.do) /\ (Says(r, "open") => Says(s, "open"))
         /\ Apart(s) => Apart(r) /\ (After(s) => After(r))
  <1>1. PICK q \in Seq(UITask) :
          /\ q = Append(s, c) /\ Says(q, c.do)
          /\ Says(q, "open") => Says(s, "open")
          /\ Apart(s) => Apart(q) /\ (After(s) => After(q))
    BY SaidLast, AppendedOther
  <1>2. PICK r : r = Append(q, d)
    OBVIOUS
  <1>3. Says(r, c.do)
    BY <1>1, <1>2, SaidLast, Zenon
  <1>4. /\ Latest(r, "close") /\ (Says(r, "open") => Says(q, "open"))
        /\ Apart(q) => Apart(r) /\ (After(q) => After(r))
    <2>1. /\ Latest(r, d.do) /\ \A do \in {"open", "close"} : Says(r, do) <=> Says(q, do) \/ do = d.do
          /\ d.do = "close" => (Apart(q) => Apart(r)) /\ (After(q) => After(r))
      BY <1>2, AppendedCommand
    <2>2. "open" \in {"open", "close"} /\ d.do # "open"
      OBVIOUS
    <2>3. QED
      BY <2>1, <2>2
  <1>5. QED
    BY <1>1, <1>2, <1>3, <1>4, Zenon

LEMMA DropIs ==
  ASSUME Kinds
  PROVE  LET r == uiTasks \o <<UITaskOf("show cursor"), UITaskOf("close")>> IN
         /\ Latest(r, "close") /\ Says(r, "show cursor") /\ (Says(r, "open") => Says(uiTasks, "open"))
         /\ Apart(uiTasks) => Apart(r) /\ (After(uiTasks) => After(r))
  <1>1. PICK c \in UITask, d \in UITask : c = UITaskOf("show cursor") /\ d = UITaskOf("close")
    BY CommandsAre
  <1>2. c.do = "show cursor" /\ d.do = "close" /\ ~Command(c) /\ Command(d)
    BY <1>1, CommandsAre DEF Command
  <1>3. uiTasks \o <<c, d>> = Append(Append(uiTasks, c), d)
    BY TwoAppended, Queues
  <1>4. LET r == Append(Append(uiTasks, c), d) IN
        /\ Latest(r, "close") /\ Says(r, "show cursor") /\ (Says(r, "open") => Says(uiTasks, "open"))
        /\ Apart(uiTasks) => Apart(r) /\ (After(uiTasks) => After(r))
    BY <1>2, PairAppended, Queues
  <1>5. QED
    BY <1>1, <1>3, <1>4

LEMMA MenuDrops ==
  ASSUME Kinds, MInv, Drop
  PROVE  MInv'
  <1>1. /\ Latest(uiTasks', "close")
        /\ Apart(uiTasks) => Apart(uiTasks') /\ (After(uiTasks) => After(uiTasks'))
    BY DropIs DEF Drop
  <1>2. ~Owned' /\ UNCHANGED alive
    BY DEF Drop, Owned
  <1>3. (MenuCloses' <=> MenuCloses) /\ (HeadShows => HeadShows')
    BY DEF Drop, MenuCloses, HeadShows
  <1>4. QED
    BY <1>1, <1>2, <1>3 DEF MInv, Screen, Closing, Alternate, Pausing

LEMMA MessageSent ==
  ASSUME Kinds, NEW word \in {"show", "hide"}, messages' = Append(messages, word), UNCHANGED menu
  PROVE  /\ (MenuOpens' <=> word = "show") /\ (MenuCloses' <=> word = "hide")
         /\ messages' # <<>>
         /\ HeadShows /\ (word = "hide" \/ MenuCloses) => HeadShows'
  <1>1. /\ messages \in Seq({"show", "hide"}) /\ Len(messages) \in Nat
        /\ Len(messages') = Len(messages) + 1 /\ messages'[Len(messages) + 1] = word /\ messages' # <<>>
        /\ \A i \in 1..Len(messages) : messages'[i] = messages[i]
        /\ \A i \in 1..Len(messages') : i \in 1..Len(messages) \/ i = Len(messages) + 1
    BY Appended, Queues
  <1>2. (MenuOpens' <=> word = "show") /\ (MenuCloses' <=> word = "hide")
    BY <1>1 DEF MenuOpens, MenuCloses
  <1>3. ASSUME HeadShows, word = "hide" \/ MenuCloses
        PROVE  HeadShows'
    <2> SUFFICES ASSUME NEW m \in 1..Len(messages'), messages'[m] = "show"
                 PROVE  IF m = 1 THEN menu = "closed" ELSE messages'[m - 1] = "hide"
      BY DEF HeadShows
    <2>1. CASE m \in 1..Len(messages)
      <3>1. m # 1 => m - 1 \in 1..Len(messages)
        BY <2>1, <1>1
      <3>2. QED
        BY <2>1, <3>1, <1>1, <1>3 DEF HeadShows
    <2>2. CASE m = Len(messages) + 1
      <3>1. MenuCloses
        BY <2>2, <1>1, <1>3
      <3>2. CASE messages = <<>>
        BY <2>2, <3>1, <3>2 DEF MenuCloses
      <3>3. CASE messages # <<>>
        <4>1. Len(messages) \in 1..Len(messages) /\ m # 1
          BY <2>2, <3>3, <1>1
        <4>2. QED
          BY <2>2, <3>1, <3>3, <4>1, <1>1 DEF MenuCloses
      <3>4. QED
        BY <3>2, <3>3
    <2>3. QED
      BY <2>1, <2>2, <1>1
  <1>4. QED
    BY <1>1, <1>2, <1>3

LEMMA MenuAsked ==
  ASSUME Kinds, MInv, Open \/ Close
  PROVE  MInv'
  <1>1. PICK do \in {"open", "close"}, word \in {"show", "hide"} :
          /\ uiTasks # <<>> /\ Head(uiTasks).do = do /\ uiTasks' = Tail(uiTasks)
          /\ messages' = Append(messages, word) /\ (do = "open" <=> word = "show")
    BY DEF Open, Close, NextUITask, CloseAlways
  <1>2. UNCHANGED <<owner, alive, menu, pauseGame>>
    BY DEF Open, Close, browsers, engine
  <1>3. /\ (MenuOpens' <=> word = "show") /\ (MenuCloses' <=> word = "hide") /\ messages' # <<>>
        /\ HeadShows /\ (word = "hide" \/ MenuCloses) => HeadShows'
    BY <1>1, <1>2, MessageSent
  <1>4. /\ Latest(uiTasks, "open") => Latest(uiTasks', "open") \/ (Silent(uiTasks') /\ do = "open")
        /\ Latest(uiTasks, "close") => Latest(uiTasks', "close") \/ (Silent(uiTasks') /\ do = "close")
        /\ Apart(uiTasks) => Apart(uiTasks') /\ (do = "open" => After(uiTasks'))
    BY <1>1, TailOf, Queues
  <1>5. ~Silent(uiTasks) /\ (do = "open" => ~After(uiTasks))
    <2>1. 1 \in 1..Len(uiTasks) /\ uiTasks[1].do = do
      BY <1>1, Removed, Queues
    <2>2. \A k \in 1..Len(uiTasks) : ~(k < 1)
      BY Queues
    <2>3. QED
      BY <2>1, <2>2 DEF Silent, Command, After
  <1>6. Screen'
    BY <1>1, <1>2, <1>3, <1>4, <1>5 DEF MInv, Screen, Opening, Closing, Owned
  <1>7. Alternate'
    BY <1>1, <1>2, <1>3, <1>4, <1>5 DEF MInv, Alternate
  <1>8. Pausing'
    BY <1>3 DEF Pausing
  <1>9. QED
    BY <1>6, <1>7, <1>8 DEF MInv

LEMMA MenuMoves ==
  ASSUME Kinds, MInv, ShowMenu \/ HideMenu
  PROVE  MInv'
  <1>1. UNCHANGED <<owner, alive, uiTasks, pauseGame>> /\ messages # <<>> /\ messages' = Tail(messages)
    BY DEF ShowMenu, HideMenu, browsers
  <1>2. /\ messages \in Seq({"show", "hide"}) /\ Head(messages) = messages[1]
        /\ Len(messages) \in Nat /\ Len(messages') = Len(messages) - 1 /\ 1 \in 1..Len(messages)
        /\ \A i \in 1..Len(messages') : messages'[i] = messages[i + 1] /\ i + 1 \in 1..Len(messages)
        /\ messages' \in Seq({"show", "hide"})
    BY <1>1, Removed, Queues
  <1>3. IF messages[1] = "show" THEN menu' # "closed" ELSE menu' = "closed"
    BY <1>2 DEF ShowMenu, HideMenu
  <1>4. messages' = <<>> => Len(messages) = 1
    BY <1>2
  <1>5. messages' # <<>> => Len(messages') \in 1..Len(messages') /\ messages'[Len(messages')] = messages[Len(messages)]
    BY <1>2
  <1>6. messages[1] = "show" \/ messages[1] = "hide"
    BY <1>2
  <1>7. (MenuOpens' <=> MenuOpens) /\ (MenuCloses' <=> MenuCloses)
    BY <1>1, <1>3, <1>4, <1>5, <1>6 DEF MenuOpens, MenuCloses
  <1>8. HeadShows => HeadShows'
    <2> SUFFICES ASSUME HeadShows, NEW m \in 1..Len(messages'), messages'[m] = "show"
                 PROVE  IF m = 1 THEN menu' = "closed" ELSE messages'[m - 1] = "hide"
      BY DEF HeadShows
    <2>1. messages[m + 1] = "show" /\ m + 1 # 1 /\ m + 1 - 1 = m /\ m + 1 \in 1..Len(messages)
      BY <1>2
    <2>2. messages[m] = "hide"
      BY <2>1 DEF HeadShows
    <2>3. CASE m = 1
      BY <2>2, <2>3, <1>3
    <2>4. CASE m # 1
      <3>1. m - 1 \in 1..Len(messages') /\ m - 1 + 1 = m
        BY <2>4, <1>2
      <3>2. QED
        BY <2>2, <2>4, <3>1, <1>2
    <2>5. QED
      BY <2>3, <2>4
  <1>9. Screen' /\ Alternate'
    BY <1>1, <1>7, <1>8 DEF MInv, Screen, Opening, Closing, Owned, Alternate
  <1>10. Pausing'
    <2> SUFFICES ASSUME alive = Browsers, Owned, Silent(uiTasks), messages' = <<>>
                 PROVE  menu' = "pausing" <=> pauseGame
      BY <1>1 DEF Pausing, Owned
    <2>1. ~Latest(uiTasks, "open")
      BY DEF Latest, Silent, Command
    <2>2. MenuOpens /\ HeadShows
      BY <2>1 DEF MInv, Screen, Opening, Alternate
    <2>3. messages[1] = "show" /\ menu = "closed"
      BY <2>2, <1>1, <1>2, <1>4 DEF MenuOpens, HeadShows
    <2>4. menu' = IF pauseGame THEN "pausing" ELSE "open"
      BY <2>3, <1>2 DEF ShowMenu, HideMenu
    <2>5. QED
      BY <2>4
  <1>11. QED
    BY <1>9, <1>10 DEF MInv

LEMMA MenuKept ==
  ASSUME Kinds, Handling, MInv, Next
  PROVE  MInv'
  <1>1. Class
    BY NextClass
  <1>2. CASE Quiet \/ Restores \/ FocusMenuClosed \/ TakePendingRestore
    <2>1. UNCHANGED <<messages, menu, pauseGame>> /\ (Owned' <=> Owned) /\ alive' \subseteq alive /\ QuietTasks
      BY <1>2 DEF Quiet, Restores, FocusMenuClosed, TakePendingRestore, browsers, queues, engine, Owned, QuietTasks
    <2>2. QED
      BY <2>1, MenuRests
  <1>3. QED
    BY <1>1, <1>2, MenuBegins, MenuDrops, MenuAsked, MenuMoves DEF Class

-----------------------------------------------------------------------------
(* The cursor.                                                             *)

Hiding == at["main"].in = "hide"

\* Without an owner a cursor that is hidden, or about to be, will be shown.
Cursor == ~Owned /\ (~cursor \/ Hiding) => Says(uiTasks, "show cursor")

LEMMA StillSaid ==
  ASSUME NEW s \in Seq(UITask), s # <<>>, NEW do, Says(s, do), Head(s).do # do
  PROVE  Says(Tail(s), do)
  <1>1. PICK i \in 1..Len(s) : s[i].do = do
    BY DEF Says
  <1>2. i # 1
    BY <1>1
  <1>3. i - 1 \in 1..Len(Tail(s)) /\ Tail(s)[i - 1] = s[i]
    BY <1>2, Removed
  <1>4. QED
    BY <1>1, <1>3 DEF Says

LEMMA CursorAsCalled ==
  ASSUME Kinds, Handling, Cursor, CallNext \/ ArbiterNext
  PROVE  Cursor'
  <1> SUFFICES ASSUME ~Owned', ~cursor' \/ Hiding'
               PROVE  Says(uiTasks', "show cursor")
    BY DEF Cursor
  <1>1. ~cursor \/ Hiding
    <2>1. UNCHANGED at["main"] \/ Calling("main")
      BY CallsLeaveMain
    <2>2. UNCHANGED cursor
      BY DEF CallNext, TryViewFocus, SetBrowserFocused, SetTextInputActive, RendererTerminated, BeginShutdown,
         Destroy, ArbiterNext, Claim, TryClaim, Granted, Release, TextInputChanged, QueueTextInputDesired,
         engine
    <2>3. QED
      BY <2>1, <2>2 DEF Hiding, Calling, CallStages
  <1>2. Quiet \/ Begin \/ Drop
    BY CallsAreQuiet, ArbiterClass
  <1>3. ~Begin
    BY FocusAssumption DEF Begin, Owned
  <1>4. CASE Drop
    BY <1>4, DropIs DEF Drop
  <1>5. CASE Quiet
    <2>1. Says(uiTasks, "show cursor")
      BY <1>1, <1>5 DEF Quiet, Cursor
    <2>2. uiTasks \in Seq(UITask)
      BY Queues
    <2>3. ASSUME NEW e \in UITask, uiTasks' = Append(uiTasks, e)
          PROVE  Says(uiTasks', "show cursor")
      BY <2>1, <2>2, <2>3, SaidLast
    <2>4. \/ UNCHANGED uiTasks
          \/ \E e \in UITask : uiTasks' = Append(uiTasks, e)
      <3>1. ASSUME NEW b \in Browsers, NEW v \in BOOLEAN, SetBrowserFocused(b, v)
            PROVE  \E e \in UITask : uiTasks' = Append(uiTasks, e)
        BY <3>1 DEF SetBrowserFocused, UITask
      <3>2. CASE CallNext
        BY <3>1, <3>2 DEF CallNext, TryViewFocus, SetTextInputActive, RendererTerminated, BeginShutdown,
           Destroy, queues
      <3>3. CASE ArbiterNext
        <4>1. ASSUME NEW t \in Threads, Release(t)
              PROVE  UNCHANGED uiTasks
          <5>1. at[t].b \in Browsers
            BY <4>1 DEF Release, Handling, WorksFor
          <5>2. owner # at[t].b
            BY <4>1, <5>1, <1>5, FocusAssumption DEF Release, Quiet, Owned
          <5>3. QED
            BY <4>1, <5>2 DEF Release
        <4>2. UITaskOf("open") \in UITask
          BY CommandsAre
        <4>3. QED
          BY <3>3, <4>1, <4>2 DEF ArbiterNext, Claim, TryClaim, Granted, TextInputChanged,
             QueueTextInputDesired, queues, Own, OnFirstClaim
      <3>4. QED
        BY <3>2, <3>3
    <2>5. QED
      BY <2>1, <2>3, <2>4
  <1>6. QED
    BY <1>2, <1>3, <1>4, <1>5

LEMMA CursorAsQueued ==
  ASSUME Kinds, Handling, Cursor, MainNext
  PROVE  Cursor'
  <1>1. /\ \A in \in Stages : Step("main", in) => at'["main"].in = in
        /\ Return("main") => ~Hiding'
        /\ {"hide", "menu opened", "menu closed", "take", "restore", "current", "write", "allow"} \subseteq Stages
        /\ Free("main") => ~Hiding
    BY MainStep, MainIs DEF Hiding
  <1>2. UNCHANGED owner
    BY DEF MainNext, ApplyBrowserFocused, Open, Close, ShowCursor, StartHideCursor, AdvanceMovie,
       HideCursor, ShowMenu, HideMenu, FocusMenuOpened, FocusMenuClosed, TakePendingRestore, StartRestore,
       CheckRestore, ApplyText, AllowTextInput, browsers
  <1> SUFFICES ASSUME ~Owned', ~cursor' \/ Hiding'
               PROVE  Says(uiTasks', "show cursor")
    BY DEF Cursor
  <1>3. ~Owned /\ ~HasOwner
    BY <1>2, OwnerOwns DEF Owned
  <1>4. /\ Open \/ Close \/ ShowCursor \/ StartHideCursor => UNCHANGED at /\ ~Hiding'
        /\ ~AdvanceMovie
    BY <1>1, <1>3 DEF Open, Close, ShowCursor, StartHideCursor, AdvanceMovie, NextUITask, Hiding
  <1>5. ~ShowCursor
    BY <1>4 DEF ShowCursor
  <1>6. ASSUME ~HideCursor
        PROVE  UNCHANGED cursor /\ (Hiding' => Hiding)
    <2>1. UNCHANGED cursor
      BY <1>5, <1>6 DEF MainNext, ApplyBrowserFocused, Open, Close, StartHideCursor, AdvanceMovie,
         ShowMenu, HideMenu, FocusMenuOpened, FocusMenuClosed, TakePendingRestore, StartRestore,
         CheckRestore, ApplyText, AllowTextInput, engine
    <2>2. Hiding' => Hiding
      <3>1. CASE ApplyBrowserFocused
        <4>1. PICK p : p = [in |-> IF Head(uiTasks).v THEN "claim" ELSE "release",
                            b |-> Head(uiTasks).b, v |-> FALSE, then |-> "idle"]
          OBVIOUS
        <4>2. /\ p.in = "claim" \/ p.in = "release"
              /\ UNCHANGED at \/ at' = [at EXCEPT !["main"] = p]
          BY <3>1, <4>1 DEF ApplyBrowserFocused, Goto
        <4>3. QED
          BY <4>2, MainIs DEF Kinds, Hiding
      <3>2. CASE ApplyText
        <4>1. PICK p : p = [in |-> "allow", b |-> NoBrowser, v |-> lease.desired, then |-> "idle"]
          OBVIOUS
        <4>2. p.in = "allow" /\ (UNCHANGED at \/ at' = [at EXCEPT !["main"] = p])
          BY <3>2, <4>1 DEF ApplyText, Goto
        <4>3. QED
          BY <4>2, MainIs DEF Kinds, Hiding
      <3>3. CASE ~ApplyBrowserFocused /\ ~ApplyText
        <4>1. \/ UNCHANGED at \/ Return("main")
              \/ \E in \in {"menu opened", "menu closed", "take", "restore", "current", "write"} : Step("main", in)
          BY <1>4, <1>5, <1>6, <3>3 DEF MainNext, Open, Close, StartHideCursor, ShowMenu, HideMenu, FocusMenuOpened,
             FocusMenuClosed, TakePendingRestore, StartRestore, CheckRestore, DropRestore, AllowTextInput
        <4>2. QED
          BY <1>1, <4>1 DEF Hiding
      <3>4. QED
        BY <3>1, <3>2, <3>3
    <2>3. QED
      BY <2>1, <2>2
  <1>7. Says(uiTasks, "show cursor")
    <2>1. ~cursor \/ Hiding
      BY <1>6 DEF HideCursor, Hiding
    <2>2. QED
      BY <2>1, <1>3 DEF Cursor
  <1>8. \/ UNCHANGED uiTasks
        \/ \E e \in UITask : uiTasks' = Append(uiTasks, e)
        \/ uiTasks # <<>> /\ Head(uiTasks).do # "show cursor" /\ uiTasks' = Tail(uiTasks)
    <2>1. CASE FocusMenuOpened
      BY <2>1 DEF FocusMenuOpened, UITask, UITaskOf
    <2>2. QED
      BY <1>5, <2>1 DEF MainNext, ApplyBrowserFocused, Open, Close, StartHideCursor, AdvanceMovie, HideCursor,
         ShowMenu, HideMenu, FocusMenuClosed, TakePendingRestore, StartRestore,
         CheckRestore, ApplyText, AllowTextInput, NextUITask, queues
  <1>9. QED
    BY <1>7, <1>8, SaidLast, StillSaid, Queues

LEMMA CursorKept ==
  ASSUME Kinds, Handling, Cursor, Next
  PROVE  Cursor'
  BY CursorAsCalled, CursorAsQueued DEF Next

-----------------------------------------------------------------------------
(* The movement mode.                                                      *)

OneOpen(s) == \A i, j \in 1..Len(s) : s[i].do = "open" /\ s[j].do = "open" => i = j

Heard(s, word) == \E m \in 1..Len(s) : s[m] = word
OneShow(s) == \A i, j \in 1..Len(s) : s[i] = "show" /\ s[j] = "show" => i = j

AnyRestore(s) == \E i \in 1..Len(s) : s[i].do = "restore"
GoodRestores(s, g) ==
  \A i \in 1..Len(s) : s[i].do = "restore" => s[i].gen = g /\ s[i].running = Chosen

OpenComing  == Says(uiTasks, "open")
ShowComing  == Heard(messages, "show")
CloseComing == Says(uiTasks, "close") \/ Heard(messages, "hide")

\* The menu is opened once for a session.
Once ==
  /\ menu # "closed" => ~OpenComing /\ ~ShowComing
  /\ OpenComing => ~ShowComing
  /\ OneOpen(uiTasks) /\ OneShow(messages)

\* While it is torn down nobody has the focus, and the session's ticket is there.
Torn ==
  Tearing => /\ ~Owned /\ session.pending /\ session.captured = Chosen
             /\ menu = "closed" /\ ~OpenComing /\ ~ShowComing

\* A restore is the last session's.
Restored ==
  /\ AnyRestore(gameTasks) => ~Owned
  /\ GoodRestores(gameTasks, session.gen)

\* A mode that is not the chosen one is about to be restored.
Mode == running = Chosen \/ Tearing \/ AnyRestore(gameTasks)

\* A menu that is or will be open belongs to a session that captured the chosen
\* mode, and that has the focus or has left its ticket.
Ticket ==
  menu # "closed" \/ OpenComing \/ ShowComing =>
    session.captured = Chosen /\ (Owned \/ session.pending)

\* What holds when every session begins after the last has been wound up.
WInv == Once /\ (CloseComing => ~Owned) /\ Torn /\ Restored /\ Mode /\ Ticket

Active == session.active <=> Owned

LEMMA ActiveKept ==
  ASSUME Kinds, Handling, Active, Next
  PROVE  Active'
  <1>1. Class
    BY NextClass
  <1>2. CASE Begin
    <2>1. session'.active
      BY <1>2, SessionIs DEF Begin
    <2>2. Owned'
      BY <1>2, FocusAssumption DEF Begin, Owned
    <2>3. QED
      BY <2>1, <2>2 DEF Active
  <1>3. CASE Drop
    <2>1. ~session'.active
      BY <1>3, SessionIs DEF Drop
    <2>2. QED
      BY <1>3, <2>1 DEF Active, Drop, Owned
  <1>4. CASE TakePendingRestore
    <2>1. session'.active = session.active
      BY <1>4, SessionIs DEF TakePendingRestore
    <2>2. QED
      BY <1>4, <2>1 DEF TakePendingRestore, Active, Owned, browsers
  <1>5. CASE Quiet
    BY <1>5 DEF Quiet, Active
  <1>6. CASE Restores \/ Open \/ Close \/ ShowMenu \/ HideMenu \/ FocusMenuClosed
    BY <1>6 DEF Restores, Open, Close, ShowMenu, HideMenu, FocusMenuClosed, Active, Owned, browsers, state
  <1>7. QED
    BY <1>1, <1>2, <1>3, <1>4, <1>5, <1>6 DEF Class

LEMMA OneOpenKept ==
  ASSUME NEW s \in Seq(UITask)
  PROVE  /\ \A e \in UITask : OneOpen(s) /\ e.do # "open" => OneOpen(Append(s, e))
         /\ \A e \in UITask : s = <<>> => OneOpen(Append(s, e))
         /\ s # <<>> /\ OneOpen(s) => OneOpen(Tail(s)) /\ (Head(s).do = "open" => ~Says(Tail(s), "open"))
  <1>1. ASSUME NEW e \in UITask, (e.do # "open" /\ OneOpen(s)) \/ s = <<>>
        PROVE  OneOpen(Append(s, e))
    <2> DEFINE r == Append(s, e)
    <2>1. /\ Len(s) \in Nat /\ r[Len(s) + 1] = e
          /\ \A i \in 1..Len(s) : r[i] = s[i]
          /\ \A i \in 1..Len(r) : i \in 1..Len(s) \/ i = Len(s) + 1
      BY Appended
    <2>2. s = <<>> => Len(s) = 0
      OBVIOUS
    <2> HIDE DEF r
    <2>3. OneOpen(r)
      BY <1>1, <2>1, <2>2 DEF OneOpen
    <2>4. QED
      BY <2>3 DEF r
  <1>2. ASSUME s # <<>>, OneOpen(s)
        PROVE  OneOpen(Tail(s)) /\ (Head(s).do = "open" => ~Says(Tail(s), "open"))
    <2> DEFINE r == Tail(s)
    <2>1. /\ Len(s) \in Nat /\ Head(s) = s[1] /\ 1 \in 1..Len(s) /\ Len(r) = Len(s) - 1
          /\ \A i \in 1..Len(r) : r[i] = s[i + 1] /\ i + 1 \in 1..Len(s)
      BY <1>2, Removed
    <2> HIDE DEF r
    <2>2. OneOpen(r) /\ (s[1].do = "open" => ~Says(r, "open"))
      BY <1>2, <2>1 DEF OneOpen, Says
    <2>3. QED
      BY <2>1, <2>2 DEF r
  <1>3. QED
    BY <1>1, <1>2

LEMMA ShowsKept ==
  ASSUME NEW s \in Seq({"show", "hide"})
  PROVE  /\ \A word \in {"show", "hide"} :
               /\ \A w \in {"show", "hide"} : Heard(Append(s, word), w) => Heard(s, w) \/ w = word
               /\ OneShow(s) /\ (word = "hide" \/ ~Heard(s, "show")) => OneShow(Append(s, word))
         /\ s # <<>> =>
               /\ \A w \in {"show", "hide"} : Heard(Tail(s), w) => Heard(s, w)
               /\ Heard(s, Head(s))
               /\ OneShow(s) => OneShow(Tail(s)) /\ (Head(s) = "show" => ~Heard(Tail(s), "show"))
  <1>1. ASSUME NEW word \in {"show", "hide"}
        PROVE  /\ \A w \in {"show", "hide"} : Heard(Append(s, word), w) => Heard(s, w) \/ w = word
               /\ OneShow(s) /\ (word = "hide" \/ ~Heard(s, "show")) => OneShow(Append(s, word))
    <2> DEFINE r == Append(s, word)
    <2>1. /\ Len(s) \in Nat /\ r[Len(s) + 1] = word
          /\ \A i \in 1..Len(s) : r[i] = s[i]
          /\ \A i \in 1..Len(r) : i \in 1..Len(s) \/ i = Len(s) + 1
      BY Appended
    <2> HIDE DEF r
    <2>2. \A w \in {"show", "hide"} : Heard(r, w) => Heard(s, w) \/ w = word
      BY <2>1 DEF Heard
    <2>3. OneShow(s) /\ (word = "hide" \/ ~Heard(s, "show")) => OneShow(r)
      BY <2>1 DEF OneShow, Heard
    <2>4. QED
      BY <2>2, <2>3 DEF r
  <1>2. ASSUME s # <<>>
        PROVE  /\ \A w \in {"show", "hide"} : Heard(Tail(s), w) => Heard(s, w)
               /\ Heard(s, Head(s))
               /\ OneShow(s) => OneShow(Tail(s)) /\ (Head(s) = "show" => ~Heard(Tail(s), "show"))
    <2> DEFINE r == Tail(s)
    <2>1. /\ Len(s) \in Nat /\ Head(s) = s[1] /\ 1 \in 1..Len(s) /\ Len(r) = Len(s) - 1
          /\ \A i \in 1..Len(r) : r[i] = s[i + 1] /\ i + 1 \in 1..Len(s)
      BY <1>2, Removed
    <2> HIDE DEF r
    <2>2. \A w \in {"show", "hide"} : Heard(r, w) => Heard(s, w)
      BY <2>1 DEF Heard
    <2>3. Heard(s, s[1])
      BY <2>1 DEF Heard
    <2>4. OneShow(s) => OneShow(r) /\ (s[1] = "show" => ~Heard(r, "show"))
      BY <2>1 DEF OneShow, Heard
    <2>5. QED
      BY <2>1, <2>2, <2>3, <2>4 DEF r
  <1>3. QED
    BY <1>1, <1>2

LEMMA RestoresKept ==
  ASSUME NEW s \in Seq(Games)
  PROVE  /\ \A e \in Games :
               /\ e.do = "text" => (AnyRestore(Append(s, e)) <=> AnyRestore(s))
               /\ e.do = "text" => \A g : GoodRestores(s, g) => GoodRestores(Append(s, e), g)
               /\ e.do = "restore" => AnyRestore(Append(s, e))
               /\ e.running = Chosen /\ GoodRestores(s, e.gen) => GoodRestores(Append(s, e), e.gen)
         /\ s # <<>> =>
               /\ AnyRestore(Tail(s)) => AnyRestore(s)
               /\ Head(s).do = "restore" => AnyRestore(s)
               /\ Head(s).do # "restore" => (AnyRestore(s) => AnyRestore(Tail(s)))
               /\ \A g : GoodRestores(s, g) =>
                     /\ GoodRestores(Tail(s), g)
                     /\ Head(s).do = "restore" => Head(s).gen = g /\ Head(s).running = Chosen
  <1>1. ASSUME NEW e \in Games
        PROVE  /\ e.do = "text" => (AnyRestore(Append(s, e)) <=> AnyRestore(s))
               /\ e.do = "text" => \A g : GoodRestores(s, g) => GoodRestores(Append(s, e), g)
               /\ e.do = "restore" => AnyRestore(Append(s, e))
               /\ e.running = Chosen /\ GoodRestores(s, e.gen) => GoodRestores(Append(s, e), e.gen)
    <2> DEFINE r == Append(s, e)
    <2>1. /\ Len(s) \in Nat /\ Len(r) = Len(s) + 1 /\ r[Len(s) + 1] = e /\ Len(s) + 1 \in 1..Len(r)
          /\ \A i \in 1..Len(s) : r[i] = s[i] /\ i \in 1..Len(r)
          /\ \A i \in 1..Len(r) : i \in 1..Len(s) \/ i = Len(s) + 1
      BY Appended
    <2> HIDE DEF r
    <2>2. e.do = "text" => (AnyRestore(r) <=> AnyRestore(s))
      BY <2>1 DEF AnyRestore
    <2>3. e.do = "text" => \A g : GoodRestores(s, g) => GoodRestores(r, g)
      BY <2>1 DEF GoodRestores
    <2>4. e.do = "restore" => AnyRestore(r)
      BY <2>1 DEF AnyRestore
    <2>5. e.running = Chosen /\ GoodRestores(s, e.gen) => GoodRestores(r, e.gen)
      BY <2>1 DEF GoodRestores
    <2>6. QED
      BY <2>2, <2>3, <2>4, <2>5 DEF r
  <1>2. ASSUME s # <<>>
        PROVE  /\ AnyRestore(Tail(s)) => AnyRestore(s)
               /\ Head(s).do = "restore" => AnyRestore(s)
               /\ Head(s).do # "restore" => (AnyRestore(s) => AnyRestore(Tail(s)))
               /\ \A g : GoodRestores(s, g) =>
                     /\ GoodRestores(Tail(s), g)
                     /\ Head(s).do = "restore" => Head(s).gen = g /\ Head(s).running = Chosen
    <2> DEFINE r == Tail(s)
    <2>1. /\ Len(s) \in Nat /\ Head(s) = s[1] /\ 1 \in 1..Len(s) /\ Len(r) = Len(s) - 1
          /\ \A i \in 1..Len(r) : r[i] = s[i + 1] /\ i + 1 \in 1..Len(s)
          /\ \A i \in 1..Len(s) : i # 1 => i - 1 \in 1..Len(r) /\ r[i - 1] = s[i]
      BY <1>2, Removed
    <2> HIDE DEF r
    <2>2. (AnyRestore(r) => AnyRestore(s)) /\ (s[1].do = "restore" => AnyRestore(s))
      BY <2>1 DEF AnyRestore
    <2>3. s[1].do # "restore" => (AnyRestore(s) => AnyRestore(r))
      BY <2>1 DEF AnyRestore
    <2>4. ASSUME NEW g, GoodRestores(s, g)
          PROVE  GoodRestores(r, g) /\ (s[1].do = "restore" => s[1].gen = g /\ s[1].running = Chosen)
      BY <2>1, <2>4 DEF GoodRestores
    <2>5. QED
      BY <2>1, <2>2, <2>3, <2>4 DEF r
  <1>3. QED
    BY <1>1, <1>2

LEMMA QuietModes ==
  ASSUME Kinds, QuietTasks, QuietGame
  PROVE  /\ \A do \in {"open", "close"} : Says(uiTasks', do) => Says(uiTasks, do)
         /\ OneOpen(uiTasks) => OneOpen(uiTasks')
         /\ AnyRestore(gameTasks') <=> AnyRestore(gameTasks)
         /\ \A g : GoodRestores(gameTasks, g) => GoodRestores(gameTasks', g)
  <1>1. OneOpen(uiTasks) => OneOpen(uiTasks')
    BY OneOpenKept, Queues DEF QuietTasks, Command
  <1>2. CASE UNCHANGED gameTasks
    BY <1>1, <1>2, QuietCommands
  <1>3. ASSUME NEW e \in Games, e.do = "text", gameTasks' = Append(gameTasks, e)
        PROVE  /\ AnyRestore(gameTasks') <=> AnyRestore(gameTasks)
               /\ \A g : GoodRestores(gameTasks, g) => GoodRestores(gameTasks', g)
    BY <1>3, RestoresKept, Queues
  <1>4. CASE gameTasks # <<>> /\ Head(gameTasks).do = "text" /\ gameTasks' = Tail(gameTasks)
    <2>1. Head(gameTasks).do # "restore"
      BY <1>4
    <2>2. /\ AnyRestore(gameTasks') <=> AnyRestore(gameTasks)
          /\ \A g : GoodRestores(gameTasks, g) => GoodRestores(gameTasks', g)
      BY <1>4, <2>1, RestoresKept, Queues
    <2>3. QED
      BY <1>1, <2>2, QuietCommands
  <1>5. QED
    BY <1>1, <1>2, <1>3, <1>4, QuietCommands DEF QuietGame

LEMMA WoundRests ==
  ASSUME Kinds, WInv, Quiet
  PROVE  WInv'
  <1>1. /\ (OpenComing' => OpenComing) /\ (CloseComing' => CloseComing)
        /\ OneOpen(uiTasks) => OneOpen(uiTasks')
        /\ AnyRestore(gameTasks') <=> AnyRestore(gameTasks)
        /\ \A g : GoodRestores(gameTasks, g) => GoodRestores(gameTasks', g)
    BY QuietModes DEF Quiet, OpenComing, CloseComing
  <1>2. UNCHANGED <<session, messages, menu, running>> /\ (Owned' <=> Owned) /\ (Tearing' <=> Tearing)
    BY DEF Quiet
  <1>3. ShowComing' <=> ShowComing
    BY <1>2 DEF ShowComing
  <1>4. Once' /\ (CloseComing' => ~Owned')
    BY <1>1, <1>2, <1>3 DEF WInv, Once
  <1>5. Torn' /\ Ticket'
    BY <1>1, <1>2, <1>3 DEF WInv, Torn, Ticket
  <1>6. Restored' /\ Mode'
    BY <1>1, <1>2 DEF WInv, Restored, Mode
  <1>7. QED
    BY <1>4, <1>5, <1>6 DEF WInv

\* An empty queue says nothing.
LEMMA Empty ==
  /\ \A s, word : s = <<>> => ~Heard(s, word) /\ OneShow(s)
  /\ \A s, do : s = <<>> => ~Says(s, do)
  <1>1. ASSUME NEW s, s = <<>>
        PROVE  1..Len(s) = {}
    BY <1>1
  <1>2. QED
    BY <1>1 DEF Heard, OneShow, Says

LEMMA WoundBegins ==
  ASSUME Kinds, WInv, Begin, WoundUp
  PROVE  WInv'
  <1>1. /\ menu = "closed" /\ uiTasks = <<>> /\ messages = <<>> /\ ~Tearing
        /\ ~AnyRestore(gameTasks)
    BY DEF WoundUp, Tearing, AnyRestore
  <1>2. /\ UNCHANGED <<gameTasks, messages, menu, running>> /\ (Tearing' <=> Tearing) /\ Owned'
        /\ uiTasks' = Append(uiTasks, UITaskOf("open"))
    BY FocusAssumption DEF Begin, OnFirstClaim, Owned
  <1>3. OneOpen(uiTasks') /\ ~Says(uiTasks', "close")
    <2>1. PICK e \in UITask : e = UITaskOf("open")
      BY CommandsAre
    <2>2. e.do = "open" /\ Command(e) /\ uiTasks' = Append(uiTasks, e)
      BY <1>2, <2>1, CommandsAre DEF Command
    <2>3. \A do \in {"open", "close"} : Says(uiTasks', do) <=> Says(uiTasks, do) \/ do = e.do
      BY <2>2, AppendedCommand, Queues
    <2>4. ~Says(uiTasks, "close")
      BY <1>1, Empty
    <2>5. OneOpen(uiTasks')
      BY <1>1, <2>2, OneOpenKept, Queues
    <2>6. "close" \in {"open", "close"} /\ e.do # "close"
      BY <2>2
    <2>7. QED
      BY <2>3, <2>4, <2>5, <2>6
  <1>4. \A word : ~Heard(messages', word)
    BY <1>1, <1>2, Empty
  <1>5. session'.captured = Chosen
    <2>1. session'.captured = running
      BY SessionIs DEF Begin
    <2>2. QED
      BY <1>1, <2>1 DEF WInv, Mode
  <1>6. Once' /\ ~CloseComing'
    BY <1>1, <1>2, <1>3, <1>4, Empty DEF Once, OpenComing, ShowComing, CloseComing
  <1>7. Torn' /\ Mode'
    BY <1>1, <1>2 DEF WInv, Torn, Mode
  <1>8. Restored'
    BY <1>1, <1>2 DEF Restored, AnyRestore, GoodRestores
  <1>9. Ticket'
    BY <1>2, <1>5 DEF Ticket
  <1>10. QED
    BY <1>6, <1>7, <1>8, <1>9 DEF WInv

LEMMA WoundDrops ==
  ASSUME Kinds, Active, WInv, Drop
  PROVE  WInv'
  <1>1. /\ UNCHANGED <<gameTasks, messages, menu, running>> /\ (Tearing' <=> Tearing)
        /\ Owned /\ ~Owned'
    BY DEF Drop, Owned
  <1>2. OpenComing' => OpenComing
    BY DropIs DEF Drop, OpenComing
  <1>3. OneOpen(uiTasks) => OneOpen(uiTasks')
    <2>1. PICK c \in UITask, d \in UITask : c = UITaskOf("show cursor") /\ d = UITaskOf("close")
      BY CommandsAre
    <2>2. c.do # "open" /\ d.do # "open"
      BY <2>1, CommandsAre
    <2>3. uiTasks \o <<c, d>> = Append(Append(uiTasks, c), d)
      BY TwoAppended, Queues
    <2>4. uiTasks' = Append(Append(uiTasks, c), d)
      BY <2>1, <2>3 DEF Drop
    <2>5. PICK q \in Seq(UITask) : q = Append(uiTasks, c)
      BY TypedAppend, Queues
    <2>6. OneOpen(uiTasks) => OneOpen(q)
      BY <2>2, <2>5, OneOpenKept, Queues
    <2>7. OneOpen(q) => OneOpen(Append(q, d))
      BY <2>2, OneOpenKept
    <2>8. QED
      BY <2>4, <2>5, <2>6, <2>7
  <1>4. session'.captured = session.captured /\ session'.pending /\ session'.gen = session.gen
    BY <1>1, SessionIs DEF Drop, Active
  <1>5. ShowComing' <=> ShowComing
    BY <1>1 DEF ShowComing
  <1>6. Once'
    BY <1>1, <1>2, <1>3, <1>5 DEF WInv, Once
  <1>7. Torn'
    BY <1>1 DEF WInv, Torn
  <1>8. Restored' /\ Mode'
    BY <1>1, <1>4 DEF WInv, Restored, Mode
  <1>9. Ticket'
    BY <1>1, <1>2, <1>4, <1>5 DEF WInv, Ticket
  <1>10. QED
    BY <1>1, <1>6, <1>7, <1>8, <1>9 DEF WInv

LEMMA WoundRestores ==
  ASSUME Kinds, Active, WInv, Restores
  PROVE  WInv'
  <1>1. /\ UNCHANGED <<owner, session, uiTasks, messages, menu>> /\ ~Tearing /\ ~Tearing'
        /\ gameTasks # <<>> /\ Head(gameTasks).do = "restore"
    BY DEF Restores
  <1>2. /\ AnyRestore(gameTasks) /\ Head(gameTasks).gen = session.gen /\ Head(gameTasks).running = Chosen
        /\ AnyRestore(Tail(gameTasks)) => AnyRestore(gameTasks)
        /\ GoodRestores(Tail(gameTasks), session.gen)
    BY <1>1, RestoresKept, Queues DEF WInv, Restored
  <1>3. ~Owned /\ ~HasOwner /\ ~session.active
    BY <1>2, OwnerOwns DEF WInv, Restored, Active
  <1>4. UNCHANGED <<gameTasks, running>> \/ (gameTasks' = Tail(gameTasks) /\ running' = Chosen)
    BY <1>2, <1>3 DEF Restores
  <1>5. Once' /\ (CloseComing' => ~Owned')
    BY <1>1 DEF WInv, Once, OpenComing, ShowComing, CloseComing, Owned
  <1>6. Torn' /\ Ticket'
    BY <1>1 DEF WInv, Torn, Ticket, OpenComing, ShowComing, Owned
  <1>7. Restored'
    BY <1>1, <1>2, <1>3, <1>4 DEF WInv, Restored, Owned
  <1>8. Mode'
    BY <1>1, <1>2, <1>4 DEF Mode
  <1>9. QED
    BY <1>5, <1>6, <1>7, <1>8 DEF WInv

LEMMA WoundAsked ==
  ASSUME Kinds, WInv, Open \/ Close, Tearing' <=> Tearing
  PROVE  WInv'
  <1>1. PICK do \in {"open", "close"}, word \in {"show", "hide"} :
          /\ uiTasks # <<>> /\ Head(uiTasks).do = do /\ uiTasks' = Tail(uiTasks)
          /\ messages' = Append(messages, word) /\ (do = "open" <=> word = "show")
    BY DEF Open, Close, NextUITask, CloseAlways
  <1>2. UNCHANGED <<owner, session, menu, running, gameTasks>>
    BY DEF Open, Close, browsers, engine, state
  <1>3. Says(uiTasks, do)
    BY <1>1, Removed, Queues DEF Says
  <1>4. /\ \A d \in {"open", "close"} : Says(uiTasks', d) => Says(uiTasks, d)
        /\ OneOpen(uiTasks) => OneOpen(uiTasks') /\ (do = "open" => ~Says(uiTasks', "open"))
    BY <1>1, TailOf, OneOpenKept, Queues
  <1>5. /\ \A w \in {"show", "hide"} : Heard(messages', w) => Heard(messages, w) \/ w = word
        /\ OneShow(messages) /\ (word = "hide" \/ ~Heard(messages, "show")) => OneShow(messages')
    BY <1>1, ShowsKept, Queues
  <1>6. /\ OpenComing' => OpenComing /\ do = "close"
        /\ ShowComing' => ShowComing \/ (do = "open" /\ OpenComing)
        /\ CloseComing' => CloseComing
    BY <1>1, <1>3, <1>4, <1>5 DEF OpenComing, ShowComing, CloseComing, WInv, Once
  <1>7. Once'
    <2>1. OneOpen(uiTasks') /\ OneShow(messages')
      BY <1>1, <1>3, <1>4, <1>5 DEF WInv, Once, OpenComing, ShowComing
    <2>2. QED
      BY <1>2, <1>6, <2>1 DEF WInv, Once
  <1>8. CloseComing' => ~Owned'
    BY <1>2, <1>6 DEF WInv, Owned
  <1>9. Torn' /\ Ticket'
    BY <1>2, <1>6 DEF WInv, Torn, Ticket, Owned
  <1>10. Restored' /\ Mode'
    BY <1>2 DEF WInv, Restored, Mode, Owned
  <1>11. QED
    BY <1>7, <1>8, <1>9, <1>10 DEF WInv

LEMMA WoundMoves ==
  ASSUME Kinds, WInv, ShowMenu \/ HideMenu, ~Tearing, HideMenu => (Tearing' <=> menu # "closed"),
         ShowMenu => ~Tearing'
  PROVE  WInv'
  <1>1. /\ UNCHANGED <<owner, session, uiTasks, gameTasks>> /\ messages # <<>> /\ messages' = Tail(messages)
    BY DEF ShowMenu, HideMenu, browsers, state
  <1>2. /\ \A w \in {"show", "hide"} : Heard(messages', w) => Heard(messages, w)
        /\ Heard(messages, Head(messages))
        /\ OneShow(messages) => OneShow(messages') /\ (Head(messages) = "show" => ~Heard(messages', "show"))
    BY <1>1, ShowsKept, Queues
  <1>3. /\ OpenComing' <=> OpenComing
        /\ ShowComing' => ShowComing
        /\ CloseComing' => CloseComing
    BY <1>1, <1>2 DEF OpenComing, ShowComing, CloseComing
  <1>4. CASE ShowMenu
    <2>1. Head(messages) = "show" /\ ShowComing /\ ~ShowComing' /\ UNCHANGED running /\ ~Tearing'
      BY <1>2, <1>4 DEF ShowMenu, ShowComing, WInv, Once
    <2>2. Once'
      BY <1>1, <1>2, <1>3, <2>1 DEF WInv, Once
    <2>3. CloseComing' => ~Owned'
      BY <1>1, <1>3 DEF WInv, Owned
    <2>4. Torn' /\ Ticket'
      BY <1>1, <1>3, <2>1 DEF WInv, Torn, Ticket, Owned
    <2>5. Restored' /\ Mode'
      BY <1>1, <2>1 DEF WInv, Restored, Mode, Owned
    <2>6. QED
      BY <2>2, <2>3, <2>4, <2>5 DEF WInv
  <1>5. CASE HideMenu
    <2>1. Head(messages) = "hide" /\ CloseComing /\ menu' = "closed" /\ ~Owned
      BY <1>2, <1>5 DEF HideMenu, CloseComing, WInv
    <2>2. Once'
      BY <1>1, <1>2, <1>3, <2>1 DEF WInv, Once
    <2>3. Torn'
      BY <1>1, <1>3, <1>5, <2>1 DEF WInv, Torn, Ticket, Once, Owned
    <2>4. Ticket'
      BY <1>1, <1>3, <2>1 DEF WInv, Ticket, Owned
    <2>5. Restored' /\ ~Owned'
      BY <1>1, <2>1 DEF WInv, Restored, Owned
    <2>6. Mode'
      BY <1>1, <1>5 DEF WInv, Mode, HideMenu
    <2>7. QED
      BY <2>2, <2>3, <2>4, <2>5, <2>6 DEF WInv
  <1>6. QED
    BY <1>4, <1>5

LEMMA WoundCloses ==
  ASSUME Kinds, WInv, FocusMenuClosed, Tearing, Tearing' <=> ~HasOwner
  PROVE  WInv'
  <1>1. UNCHANGED <<owner, session, uiTasks, gameTasks, messages, menu, running>>
    BY DEF FocusMenuClosed, browsers, state, queues, engine
  <1>2. Tearing'
    BY OwnerOwns DEF WInv, Torn
  <1>3. Once' /\ (CloseComing' => ~Owned') /\ Restored'
    BY <1>1 DEF WInv, Once, OpenComing, ShowComing, CloseComing, Owned, Restored
  <1>4. Torn' /\ Ticket' /\ Mode'
    BY <1>1, <1>2 DEF WInv, Torn, Ticket, Mode, OpenComing, ShowComing, Owned
  <1>5. QED
    BY <1>3, <1>4 DEF WInv

LEMMA WoundTakes ==
  ASSUME Kinds, Active, WInv, TakePendingRestore, Tearing, ~Tearing'
  PROVE  WInv'
  <1>1. UNCHANGED <<owner, uiTasks, messages, menu, running>>
    BY DEF TakePendingRestore, browsers, engine
  <1>2. /\ ~Owned /\ session.pending /\ session.captured = Chosen
        /\ menu = "closed" /\ ~OpenComing /\ ~ShowComing /\ ~session.active
    BY DEF WInv, Torn, Active
  <1>3. session' = [session EXCEPT !.pending = FALSE] /\ gameTasks' = Append(gameTasks, Restore)
    BY <1>2 DEF TakePendingRestore
  <1>4. session'.gen = session.gen
    BY <1>3, SessionIs
  <1>5. /\ AnyRestore(gameTasks') /\ GoodRestores(gameTasks', session.gen)
    <2>1. PICK e \in Games : e = Restore
      BY RestoreIs
    <2>2. e.do = "restore" /\ e.gen = session.gen /\ e.running = Chosen /\ gameTasks' = Append(gameTasks, e)
      BY <1>2, <1>3, <2>1, RestoreIs
    <2>3. GoodRestores(gameTasks, e.gen)
      BY <2>2 DEF WInv, Restored
    <2>4. AnyRestore(gameTasks') /\ GoodRestores(gameTasks', e.gen)
      BY <2>2, <2>3, RestoresKept, Queues
    <2>5. QED
      BY <2>2, <2>4
  <1>6. Once' /\ (CloseComing' => ~Owned')
    BY <1>1 DEF WInv, Once, OpenComing, ShowComing, CloseComing, Owned
  <1>7. Torn' /\ Ticket'
    BY <1>1, <1>2 DEF Torn, Ticket, OpenComing, ShowComing
  <1>8. Restored' /\ Mode'
    BY <1>1, <1>2, <1>4, <1>5 DEF Restored, Mode, Owned
  <1>9. QED
    BY <1>6, <1>7, <1>8 DEF WInv

\* Sessions that begin late say nothing of what is left.
Movement == ~late => WInv

LEMMA MovementKept ==
  ASSUME Kinds, Handling, Active, Movement, Next
  PROVE  Movement'
  <1> SUFFICES ASSUME ~late' PROVE WInv'
    BY DEF Movement
  <1>1. Class
    BY NextClass
  <1>2. CASE Begin
    <2>1. PICK pause \in BOOLEAN : OnFirstClaim(pause)
      BY <1>2 DEF Begin
    <2>2. late' = (late \/ ~WoundUp)
      BY <2>1, Zenon DEF OnFirstClaim
    <2>3. ~late /\ WoundUp
      BY <2>2, Zenon
    <2>4. QED
      BY <1>2, <2>3, WoundBegins DEF Movement
  <1>3. CASE ~Begin
    <2>1. UNCHANGED late
      BY <1>1, <1>3 DEF Class, Quiet, Drop, Restores, Open, Close, ShowMenu, HideMenu, FocusMenuClosed,
         TakePendingRestore
    <2>2. WInv
      BY <2>1, Zenon DEF Movement
    <2>3. CASE Quiet \/ Drop \/ Restores
      BY <2>2, <2>3, WoundRests, WoundDrops, WoundRestores
    <2>4. CASE (Open \/ Close) /\ (Tearing' <=> Tearing)
      BY <2>2, <2>4, WoundAsked
    <2>5. CASE ShowMenu /\ ~Tearing /\ ~Tearing'
      <3>1. ~HideMenu
        BY <2>5 DEF ShowMenu, HideMenu
      <3>2. QED
        BY <2>2, <2>5, <3>1, WoundMoves
    <2>6. CASE HideMenu /\ ~Tearing /\ (Tearing' <=> menu # "closed")
      <3>1. ~ShowMenu
        BY <2>6 DEF ShowMenu, HideMenu
      <3>2. QED
        BY <2>2, <2>6, <3>1, WoundMoves
    <2>7. QED
      BY <1>1, <1>3, <2>2, <2>3, <2>4, <2>5, <2>6, WoundCloses, WoundTakes DEF Class
  <1>4. QED
    BY <1>2, <1>3

-----------------------------------------------------------------------------
(* All together.                                                           *)

IInv == /\ Kinds /\ Handling /\ Expired /\ Lease /\ MInv
        /\ Cursor /\ Active /\ Movement

LEMMA InitIInv == Init => IInv
  <1> SUFFICES ASSUME Init PROVE IInv
    OBVIOUS
  <1>1. Len(uiTasks) = 0 /\ Len(gameTasks) = 0 /\ Len(messages) = 0 /\ 1..0 = {}
    BY DEF Init
  <1>2. \A t \in Threads : at[t] = Idle
    BY DEF Init
  <1>3. at["main"].in = "idle" /\ ~Owned
    BY <1>2, IdleIs, MainIs DEF Init, Owned
  <1>4. Kinds
    <2>1. at \in [Threads -> Places]
      BY IdleIs DEF Init
    <2>2. QED
      BY <2>1 DEF Init, Kinds, Chosen
  <1>5. Handling /\ Expired
    BY <1>2, <1>3, IdleIs DEF Handling, Expired, WorksFor, Restoring
  <1>6. Lease /\ Cursor /\ Active
    BY <1>3 DEF Init, Lease, Allowing, Cursor, Hiding, Active
  <1>7. MInv
    <2>1. Silent(uiTasks) /\ Apart(uiTasks) /\ HeadShows
      BY <1>1 DEF Silent, Apart, HeadShows
    <2>2. MenuCloses
      BY DEF MenuCloses, Init
    <2>3. QED
      BY <2>1, <2>2, <1>3 DEF MInv, Screen, Closing, Alternate, Pausing
  <1>8. WInv
    <2>1. ~OpenComing /\ ~ShowComing /\ ~CloseComing /\ OneOpen(uiTasks) /\ OneShow(messages)
      BY <1>1 DEF OpenComing, ShowComing, CloseComing, Says, Heard, OneOpen, OneShow
    <2>2. GoodRestores(gameTasks, session.gen) /\ ~AnyRestore(gameTasks)
      BY <1>1 DEF GoodRestores, AnyRestore
    <2>3. menu = "closed" /\ running = Chosen
      BY DEF Init
    <2>4. QED
      BY <1>3, <2>1, <2>2, <2>3 DEF WInv, Once, Torn, Restored, Mode, Ticket, Tearing
  <1>9. QED
    BY <1>4, <1>5, <1>6, <1>7, <1>8 DEF IInv, Movement

LEMMA NextIInv ==
  ASSUME IInv, Next
  PROVE  IInv'
  BY KindsKept, HandlingKept, ExpiredKept, LeaseKept, MenuKept, CursorKept, ActiveKept, MovementKept DEF IInv

LEMMA StutterIInv ==
  ASSUME IInv, UNCHANGED vars
  PROVE  IInv'
  <1>1. UNCHANGED <<owner, alive, session, lease, at, gameTasks, uiTasks, messages, pauseGame, menu, cursor,
                    textEntries, running, late>>
    BY DEF vars, browsers, state, queues, engine
  <1>2. Kinds' /\ Handling' /\ Expired'
    BY <1>1 DEF IInv, Kinds, Handling, WorksFor, Restoring, Expired, Owned
  <1>3. Lease' /\ Cursor' /\ Active'
    BY <1>1 DEF IInv, Lease, Allowing, TextTask, Cursor, Hiding, Active, Owned
  <1>4. MInv'
    <2>1. QuietTasks /\ (Owned' <=> Owned) /\ alive' \subseteq alive
      BY <1>1 DEF QuietTasks, Owned
    <2>2. QED
      BY <1>1, <2>1, MenuRests DEF IInv
  <1>5. Movement'
    <2>1. UNCHANGED late /\ (WInv => WInv')
      BY <1>1 DEF WInv, Once, Torn, Restored, Mode, Ticket, OpenComing, ShowComing, CloseComing, Tearing, Owned
    <2>2. QED
      BY <2>1, Zenon DEF IInv, Movement
  <1>6. QED
    BY <1>2, <1>3, <1>4, <1>5 DEF IInv

LEMMA AlwaysIInv == Spec => []IInv
  <1>1. Init => IInv
    BY InitIInv
  <1>2. IInv /\ [Next]_vars => IInv'
    BY NextIInv, StutterIInv
  <1>3. QED
    BY <1>1, <1>2, PTL DEF Spec

\* With nothing left to be done, no thread is in a call or a task.
LEMMA RestIs ==
  ASSUME IInv, AtRest
  PROVE  /\ uiTasks = <<>> /\ gameTasks = <<>> /\ messages = <<>>
         /\ at["main"].in = "idle" /\ \A t \in Threads : at[t].in = "idle"
         /\ (Owned <=> HasOwner)
         /\ \A do : ~Says(uiTasks, do) /\ ~Latest(uiTasks, do)
         /\ ~AnyRestore(gameTasks) /\ Silent(uiTasks)
  <1>1. /\ uiTasks = <<>> /\ gameTasks = <<>> /\ messages = <<>>
        /\ \A t \in Threads : at[t].in = "idle"
    BY IdleIs DEF AtRest
  <1>2. Owned <=> HasOwner
    BY <1>1, OwnerOwns DEF IInv, Expired, HasOwner
  <1>3. 1..Len(uiTasks) = {} /\ 1..Len(gameTasks) = {}
    BY <1>1
  <1>4. /\ \A do : ~Says(uiTasks, do) /\ ~Latest(uiTasks, do)
        /\ ~AnyRestore(gameTasks) /\ Silent(uiTasks)
    BY <1>3 DEF Says, Latest, AnyRestore, Silent
  <1>5. QED
    BY <1>1, <1>2, <1>4, MainIs

-----------------------------------------------------------------------------
\* When everything has drained, the menu is open exactly if a browser has the
\* focus, pauses the game as its session asked for while no browser has been
\* destroyed, and the cursor is not left hidden (FocusMenu::Open, Close, OnFirstClaim,
\* OnLastRelease).
THEOREM MenuFollowsFocus == Spec => []ScreenFollowsOwner
  <1>1. IInv => ScreenFollowsOwner
    <2> SUFFICES ASSUME IInv, AtRest
                 PROVE  /\ menu = "closed" <=> ~HasOwner
                        /\ HasOwner /\ alive = Browsers => (menu = "pausing" <=> pauseGame)
                        /\ ~HasOwner => cursor
      BY DEF ScreenFollowsOwner
    <2>1. /\ uiTasks = <<>> /\ messages = <<>> /\ (Owned <=> HasOwner) /\ at["main"].in = "idle"
          /\ ~Latest(uiTasks, "open") /\ ~Latest(uiTasks, "close") /\ ~Says(uiTasks, "show cursor")
          /\ Silent(uiTasks)
      BY RestIs
    <2>2. menu = "closed" <=> ~HasOwner
      BY <2>1 DEF IInv, MInv, Screen, Opening, Closing, MenuOpens, MenuCloses
    <2>3. HasOwner /\ alive = Browsers => (menu = "pausing" <=> pauseGame)
      BY <2>1 DEF IInv, MInv, Pausing
    <2>4. ~HasOwner => cursor
      BY <2>1 DEF IInv, Cursor
    <2>5. QED
      BY <2>2, <2>3, <2>4
  <1>2. QED
    BY <1>1, AlwaysIInv, PTL

\* The engine's count of text entries goes from none to one and back, whatever the
\* engine refuses, and nothing is left of it that is not desired
\* (QueueTextInputDesired, TextInputLeaseState).
THEOREM LeaseIsBalanced == Spec => []LeaseBalanced
  <1>1. IInv => LeaseBalanced
    <2> SUFFICES ASSUME IInv PROVE LeaseBalanced
      OBVIOUS
    <2>1. textEntries \in {0, 1}
      BY DEF IInv, Lease
    <2>2. ASSUME AtRest, ~lease.desired
          PROVE  textEntries = 0
      <3>1. ~Allowing /\ gameTasks = <<>>
        BY <2>2, RestIs DEF Allowing
      <3>2. ~TextTask
        BY <3>1 DEF TextTask
      <3>3. QED
        BY <2>2, <3>1, <3>2 DEF IInv, Lease
    <2>3. QED
      BY <2>1, <2>2 DEF LeaseBalanced
  <1>2. QED
    BY <1>1, AlwaysIInv, PTL

\* The player runs or walks as he chose, whatever the menu's teardown wrote, when
\* every session begins after the last one has been wound up (OnFirstClaim,
\* OnFocusMenuClosed, FocusSessionState).
THEOREM ModeIsKept == Spec => []MovementModeKept
  <1>1. IInv => MovementModeKept
    <2> SUFFICES ASSUME IInv, AtRest, ~HasOwner, ~late PROVE running = Chosen
      BY DEF MovementModeKept
    <2>1. ~Tearing /\ ~AnyRestore(gameTasks)
      BY RestIs DEF Tearing
    <2>2. WInv
      BY Zenon DEF IInv, Movement
    <2>3. QED
      BY <2>1, <2>2 DEF WInv, Mode
  <1>2. QED
    BY <1>1, AlwaysIInv, PTL

-----------------------------------------------------------------------------
(***************************************************************************)
(* ControllerInput: the game gets the release of every press it got, a     *)
(* page is shown no press older than its control, and nothing is left of a *)
(* destroyed view, for any controls, views and threads and any number of   *)
(* batches.                                                                *)
(*                                                                         *)
(* Between batches the ledger holds what the device held when the last one *)
(* was routed: a control the game believes down is down there, and one     *)
(* that is held and not blocked was pressed in the ledger's generation.    *)
(* Along a batch, the same for the events gone through, and what it was    *)
(* before for the others: an induction over the length of the list, by     *)
(* the least number that would be an exception.                            *)
(*                                                                         *)
(* What a call may put in for a view that is gone, its own second look     *)
(* takes out: as long as something is left, the next step of some thread,  *)
(* a reset perhaps before it, is to forget that view.                      *)
(***************************************************************************)
-----------------------------------------------------------------------------
(* Numbers, lists and folds.                                               *)

\* Induction: a number that is no member would have a least one before it.
LEMMA Upwards ==
  ASSUME NEW T \in SUBSET Nat, 0 \in T, \A n \in T : n + 1 \in T
  PROVE  T = Nat
  <1> SUFFICES ASSUME T # Nat PROVE FALSE
    OBVIOUS
  <1>1. PICK n \in Nat \ T : \A m \in Nat \ T : n <= m
    <2>1. PICK n \in Nat \ T : \A m \in Nat \ T : ~(<<m, n>> \in OpToRel(<, Nat))
      BY NatLessThanWellFounded, WFMin
    <2>2. \A m \in Nat \ T : ~(m < n)
      BY <2>1 DEF OpToRel
    <2> QED BY <2>2
  <1>2. n # 0 /\ n - 1 \in Nat /\ n - 1 \notin Nat \ T
    BY <1>1
  <1> QED BY <1>1, <1>2

\* SetToSeq lists a finite set, each member once.
LEMMA Listing ==
  ASSUME NEW S, IsFiniteSet(S)
  PROVE  /\ SetToSeq(S) \in Seq(S)
         /\ \A i, j \in 1..Len(SetToSeq(S)) : i # j => SetToSeq(S)[i] # SetToSeq(S)[j]
         /\ \A x \in S : \E i \in 1..Len(SetToSeq(S)) : SetToSeq(S)[i] = x
  <1> DEFINE n == Cardinality(S)
             f == SetToSeq(S)
  <1>1. n \in Nat /\ ExistsBijection(1..n, S)
    BY FS_CardinalityType
  <1>2. \E g \in [1..n -> S] : IsInjective(g)
    BY <1>1 DEF ExistsBijection, Bijection, Injection
  <1>3. f \in [1..n -> S] /\ IsInjective(f)
    BY <1>2 DEF SetToSeq
  <1>4. f \in Injection(1..n, S)
    BY <1>3 DEF Injection
  <1>5. IsFiniteSet(1..n) /\ Cardinality(1..n) = n
    BY <1>1, FS_Interval
  <1>6. f \in Surjection(1..n, S)
    BY <1>4, <1>5, FS_Injection
  <1>7. f \in Seq(S) /\ Len(f) = n
    BY <1>1, <1>3
  <1>8. \A x \in S : \E i \in 1..n : f[i] = x
    BY <1>6 DEF Surjection
  <1>9. \A i, j \in 1..n : i # j => f[i] # f[j]
    BY <1>3 DEF IsInjective
  <1> QED BY <1>7, <1>8, <1>9

\* The batch's record after each of its events.
Folds(after, start, events, now, who, edge) ==
  /\ after[0] = start
  /\ \A i \in 1..Len(events) : after[i] = OnEvent(after[i - 1], events[i], now, who, edge)
  /\ AfterEvents(start, events, now, who, edge) = after[Len(events)]

\* The events of a batch are gone through one after the other: such a function exists,
\* and AfterEvents is its last value.
LEMMA Folding ==
  ASSUME NEW start, NEW events, NEW now, NEW who, NEW edge, Len(events) \in Nat
  PROVE  \E after : Folds(after, start, events, now, who, edge)
  <1> DEFINE n == Len(events)
             F(k, f) == [i \in 0..k |-> IF i = 0 THEN start ELSE OnEvent(f[i - 1], events[i], now, who, edge)]
             T == {k \in Nat : \E g : g = F(k, g)}
  <1>1. 0 \in T
    <2>1. [i \in 0..0 |-> start] = F(0, [i \in 0..0 |-> start])
      OBVIOUS
    <2> QED BY <2>1
  <1>2. ASSUME NEW k \in T PROVE k + 1 \in T
    <2>1. PICK g : g = F(k, g)
      BY <1>2
    <2> DEFINE h == [i \in 0..(k + 1) |-> IF i <= k THEN g[i] ELSE OnEvent(g[k], events[k + 1], now, who, edge)]
    <2>2. h = F(k + 1, h)
      <3>1. \A i \in 0..(k + 1) : h[i] = IF i = 0 THEN start ELSE OnEvent(h[i - 1], events[i], now, who, edge)
        <4> TAKE i \in 0..(k + 1)
        <4>1. CASE i = 0
          BY <1>2, <2>1, <4>1
        <4>2. CASE i # 0 /\ i <= k
          <5>1. i - 1 \in 0..(k + 1) /\ i - 1 <= k /\ h[i - 1] = g[i - 1]
            BY <1>2, <4>2
          <5>2. h[i] = g[i] /\ g[i] = OnEvent(g[i - 1], events[i], now, who, edge)
            BY <1>2, <2>1, <4>2
          <5> QED BY <4>2, <5>1, <5>2
        <4>3. CASE i = k + 1
          <5>1. i - 1 = k /\ k \in 0..(k + 1) /\ h[k] = g[k] /\ i # 0
            BY <1>2, <4>3
          <5>2. h[i] = OnEvent(g[k], events[k + 1], now, who, edge)
            BY <1>2, <4>3
          <5> QED BY <4>3, <5>1, <5>2
        <4> QED BY <1>2, <4>1, <4>2, <4>3
      <3>2. h = [i \in 0..(k + 1) |-> h[i]]
        OBVIOUS
      <3> QED BY <3>1, <3>2
    <2> HIDE DEF h, F
    <2>3. \E all : all = F(k + 1, all)
      BY <2>2
    <2> QED BY <1>2, <2>3
  <1>3. n \in T
    <2>1. T \in SUBSET Nat
      OBVIOUS
    <2> QED BY <1>1, <1>2, <2>1, Upwards
  <1> DEFINE after == CHOOSE all : all = F(n, all)
  <1>4. after = F(n, after)
    BY <1>3
  <1>5. AfterEvents(start, events, now, who, edge) = after[n]
    BY DEF AfterEvents
  <1> HIDE DEF after
  <1>8. 0 \in 0..n /\ \A i \in 1..n : i \in 0..n /\ i # 0
    OBVIOUS
  <1>9. \A i \in 0..n : after[i] = IF i = 0 THEN start ELSE OnEvent(after[i - 1], events[i], now, who, edge)
    <2> DEFINE r == [i \in 0..n |-> IF i = 0 THEN start ELSE OnEvent(after[i - 1], events[i], now, who, edge)]
    <2>1. \A i \in 0..n : r[i] = IF i = 0 THEN start ELSE OnEvent(after[i - 1], events[i], now, who, edge)
      OBVIOUS
    <2>2. after = r
      BY <1>4
    <2> HIDE DEF r
    <2> QED BY <2>1, <2>2
  <1>6. after[0] = start
    BY <1>8, <1>9
  <1>7. \A i \in 1..n : after[i] = OnEvent(after[i - 1], events[i], now, who, edge)
    BY <1>8, <1>9
  <1> QED BY <1>5, <1>6, <1>7 DEF Folds

-----------------------------------------------------------------------------
(* The ledger: what each of its operations leaves, and what it does to the *)
(* values, to the game's presses and to what is blocked.                   *)

LEMMA Owning ==
  ASSUME NEW s \in Ledger(Views), NEW o \in Views \cup {NoView}
  PROVE  /\ SetOwner(s, o) \in Ledger(Views) /\ SetOwner(s, o).owner = o
         /\ SetOwner(s, o).value = s.value /\ SetOwner(s, o).gameDown = s.gameDown
         /\ SetOwner(s, o) = s \/ \A c \in Controls : s.value[c] = 1 => SetOwner(s, o).blocked[c]
  <1>1. CASE o = s.owner
    BY <1>1 DEF SetOwner, Ledger
  <1>2. CASE o # s.owner
    <2> DEFINE blocked == [c \in Controls |-> s.blocked[c] \/ Held(s, c)]
               uiOwned == [c \in Controls |-> s.uiOwned[c] \/ (s.owner # NoView /\ Held(s, c))]
    <2>1. SetOwner(s, o) = [s EXCEPT !.owner = o, !.generation = s.generation + 1, !.repeat = None,
                                     !.blocked = blocked, !.uiOwned = uiOwned]
      BY <1>2 DEF SetOwner
    <2>2. blocked \in [Controls -> BOOLEAN] /\ uiOwned \in [Controls -> BOOLEAN] /\ s.generation + 1 \in Nat
      BY DEF Ledger, Held
    <2>3. \A c \in Controls : s.value[c] = 1 => blocked[c]
      BY DEF Held
    <2> HIDE DEF blocked, uiOwned
    <2>4. SetOwner(s, o) \in Ledger(Views)
      BY <2>1, <2>2 DEF Ledger
    <2> QED BY <2>1, <2>3, <2>4 DEF Ledger
  <1> QED BY <1>1, <1>2

LEMMA Seeding ==
  ASSUME NEW s \in Ledger(Views), NEW now \in [Controls -> {0, 1}]
  PROVE  /\ SeedAll(s, now) \in Ledger(Views) /\ SeedAll(s, now).value = now
         /\ SeedAll(s, now).gameDown = s.gameDown /\ SeedAll(s, now).generation = s.generation
         /\ SeedAll(s, now).owner = s.owner
         /\ \A c \in Controls : SeedAll(s, now).blocked[c] <=> now[c] = 1
  BY DEF SeedAll, Ledger

LEMMA Neutral ==
  ASSUME NEW s \in Ledger(Views)
  PROVE  /\ RequireNeutral(s) \in Ledger(Views) /\ RequireNeutral(s).value = s.value
         /\ RequireNeutral(s).gameDown = s.gameDown /\ RequireNeutral(s).generation = s.generation
         /\ RequireNeutral(s).owner = s.owner
  BY DEF RequireNeutral, Ledger

LEMMA Resetting ==
  ASSUME NEW s \in Ledger(Views)
  PROVE  /\ ResetDevice(s) \in Ledger(Views) /\ ResetDevice(s).owner = s.owner
         /\ \A c \in Controls : ResetDevice(s).value[c] = 0 /\ ResetDevice(s).blocked[c] /\ ~ResetDevice(s).gameDown[c]
  <1> DEFINE n == RequireNeutral(s)
             zero == [c \in Controls |-> 0]
             no == [c \in Controls |-> FALSE]
  <1>1. n \in Ledger(Views) /\ n.owner = s.owner /\ \A c \in Controls : n.blocked[c]
    BY DEF RequireNeutral, Ledger
  <1>2. ResetDevice(s) = [n EXCEPT !.value = zero, !.gameDown = no, !.uiOwned = no, !.generation = n.generation + 1]
    BY DEF ResetDevice
  <1>3. zero \in [Controls -> {0, 1}] /\ no \in [Controls -> BOOLEAN] /\ n.generation + 1 \in Nat
    BY <1>1 DEF Ledger
  <1>4. \A c \in Controls : zero[c] = 0 /\ ~no[c]
    OBVIOUS
  <1> HIDE DEF n, zero, no
  <1>5. ResetDevice(s) \in Ledger(Views) /\ ResetDevice(s).owner = n.owner
    BY <1>1, <1>2, <1>3 DEF Ledger
  <1>6. ResetDevice(s).value = zero /\ ResetDevice(s).gameDown = no /\ ResetDevice(s).blocked = n.blocked
    BY <1>1, <1>2 DEF Ledger
  <1> QED BY <1>1, <1>4, <1>5, <1>6

LEMMA Settling ==
  ASSUME NEW s \in Ledger(Views), NEW c \in Controls, NEW v \in {0, 1}, NEW force \in BOOLEAN
  PROVE  LET r == Settle(s, c, v, force) IN
         /\ r \in Ledger(Views) /\ r.generation = s.generation /\ r.owner = s.owner
         /\ \A k \in Controls \ {c} : r.value[k] = s.value[k] /\ r.blocked[k] = s.blocked[k] /\ r.gameDown[k] = s.gameDown[k]
         /\ r.value[c] = v
         /\ r.blocked[c] <=> v = 1 /\ (s.blocked[c] \/ force)
         /\ r.gameDown[c] <=> v = 1 /\ (s.gameDown[c] \/ ~Consumes(s, c, v, force))
  BY DEF Settle, Ledger, Consumes

-----------------------------------------------------------------------------
(* One event of a batch.                                                   *)

Modes == {"none", "navigation", "cursor"}
Phases == {"press", "release", "change", "repeat"}
Event == [control : Controls, phase : Phases, since : Nat]
BatchOf ==
  [led : Ledger(Views), events : Seq(Event), clicks : Seq({"down", "up"}), release : BOOLEAN, moves : BOOLEAN,
   fires : BOOLEAN, mode : Modes, dirty : BOOLEAN, pad : BOOLEAN, axes : BOOLEAN, consumed : SUBSET Controls,
   reset : BOOLEAN]

\* What an event leaves alone, whatever the bindings make of it: the rest of the batch's
\* record but its events keeps its types, the ledger its presses.
Alike(b, d) ==
  /\ d.led.generation = b.led.generation /\ d.led.owner = b.led.owner
  /\ d.led.value = b.led.value /\ d.led.gameDown = b.led.gameDown
  /\ \A c \in Controls : b.led.blocked[c] => d.led.blocked[c]
  /\ d.consumed = b.consumed

LEMMA Emitting ==
  ASSUME NEW b \in BatchOf, NEW c \in Controls, NEW phase \in Phases \cup {"none"}, NEW who, NEW edge \in [Controls -> Nat]
  PROVE  /\ Emit(b, c, phase, who, edge) \in BatchOf /\ Alike(b, Emit(b, c, phase, who, edge))
         /\ \/ Emit(b, c, phase, who, edge).events = b.events
            \/ Emit(b, c, phase, who, edge).events = Append(b.events, [control |-> c, phase |-> phase, since |-> edge[c]])
  <1>1. CASE who = NoView \/ phase = "none"
    BY <1>1 DEF Emit, Alike
  <1>2. CASE ~(who = NoView \/ phase = "none")
    <2>1. PICK e : e = [control |-> c, phase |-> phase, since |-> edge[c]]
      OBVIOUS
    <2>2. e \in Event
      BY <1>2, <2>1 DEF Event
    <2>3. Emit(b, c, phase, who, edge) = [b EXCEPT !.events = Append(b.events, e)]
      BY <1>2, <2>1 DEF Emit
    <2>4. Append(b.events, e) \in Seq(Event)
      BY <2>2 DEF BatchOf
    <2> QED BY <2>1, <2>3, <2>4 DEF BatchOf, Alike
  <1> QED BY <1>1, <1>2

LEMMA Leaving ==
  ASSUME NEW b \in BatchOf, NEW mode \in Modes
  PROVE  LeaveCursor(b, mode) \in BatchOf /\ Alike(b, LeaveCursor(b, mode)) /\ LeaveCursor(b, mode).events = b.events
  <1>1. <<>> \in Seq({"down", "up"})
    OBVIOUS
  <1> QED BY <1>1 DEF LeaveCursor, BatchOf, Alike

LEMMA Acting ==
  ASSUME NEW b \in BatchOf, NEW c \in Controls, NEW phase \in {"press", "release"}, NEW who, NEW edge \in [Controls -> Nat]
  PROVE  /\ Act(b, c, phase, who, edge) \in BatchOf /\ Alike(b, Act(b, c, phase, who, edge))
         /\ \/ Act(b, c, phase, who, edge).events = b.events
            \/ Act(b, c, phase, who, edge).events = Append(b.events, [control |-> c, phase |-> phase, since |-> edge[c]])
  <1>0. phase \in Phases \cup {"none"}
    BY DEF Phases
  <1>1. CASE Role[c] = "direction"
    <2> DEFINE d == IF phase = "press" /\ b.mode = "cursor" THEN LeaveCursor(b, "navigation") ELSE b
    <2>1. Act(b, c, phase, who, edge) = IF phase = "release" THEN Emit(d, c, phase, who, edge) ELSE d
      BY <1>1 DEF Act
    <2>2. d \in BatchOf /\ Alike(b, d) /\ d.events = b.events
      BY Leaving DEF Modes, Alike
    <2> HIDE DEF d
    <2>3. /\ Emit(d, c, phase, who, edge) \in BatchOf /\ Alike(d, Emit(d, c, phase, who, edge))
          /\ \/ Emit(d, c, phase, who, edge).events = d.events
             \/ Emit(d, c, phase, who, edge).events = Append(d.events, [control |-> c, phase |-> phase, since |-> edge[c]])
      BY <1>0, <2>2, Emitting
    <2> QED BY <2>1, <2>2, <2>3 DEF Alike
  <1>2. CASE Role[c] = "toggle" /\ phase = "press"
    <2> DEFINE d == LeaveCursor(b, Other(b.mode))
    <2>1. d \in BatchOf /\ Alike(b, d) /\ d.events = b.events
      BY Leaving DEF Other, Modes
    <2> HIDE DEF d
    <2>2. Act(b, c, phase, who, edge) = [d EXCEPT !.led = Capture(d.led, AcceptControls)]
      <3>1. ~(Role[c] = "direction")
        BY <1>2
      <3> QED BY <1>2, <3>1 DEF Act, d
    <2> DEFINE led == Capture(d.led, AcceptControls)
    <2>3. /\ led \in Ledger(Views) /\ led.generation = d.led.generation /\ led.owner = d.led.owner
          /\ led.value = d.led.value /\ led.gameDown = d.led.gameDown
          /\ \A k \in Controls : d.led.blocked[k] => led.blocked[k]
      BY <2>1 DEF BatchOf, Ledger, Capture
    <2> HIDE DEF led
    <2>4. Act(b, c, phase, who, edge) = [d EXCEPT !.led = led]
      BY <2>2 DEF led
    <2> QED BY <2>1, <2>3, <2>4 DEF BatchOf, Alike
  <1>3. CASE Role[c] = "accept" /\ b.mode = "cursor"
    <2>1. PICK click \in {"down", "up"} : click = IF phase = "press" THEN "down" ELSE "up"
      OBVIOUS
    <2>2. Act(b, c, phase, who, edge) = [b EXCEPT !.clicks = Append(b.clicks, click)]
      BY <1>3, <2>1 DEF Act
    <2>3. Append(b.clicks, click) \in Seq({"down", "up"})
      BY DEF BatchOf
    <2> QED BY <2>2, <2>3 DEF BatchOf, Alike
  <1>4. CASE ~(Role[c] = "direction") /\ ~(Role[c] = "toggle" /\ phase = "press") /\ ~(Role[c] = "accept" /\ b.mode = "cursor")
    <2>1. Act(b, c, phase, who, edge) = Emit(b, c, phase, who, edge)
      BY <1>4 DEF Act
    <2> QED BY <1>0, <2>1, Emitting
  <1> QED BY <1>1, <1>2, <1>3, <1>4

\* What one event does to a batch's record: only its control is settled, a press is
\* emitted only of a control that is down and was not blocked.
Settles(b, d, c, v, edge) ==
  /\ d \in BatchOf /\ d.led.generation = b.led.generation /\ d.led.owner = b.led.owner
  /\ \A k \in Controls \ {c} : d.led.value[k] = b.led.value[k] /\ d.led.gameDown[k] = b.led.gameDown[k]
  /\ \A k \in Controls \ {c} : b.led.blocked[k] => d.led.blocked[k]
  /\ d.led.value[c] = v /\ (v = 1 /\ b.led.blocked[c] => d.led.blocked[c])
  /\ d.consumed = b.consumed \/ (d.consumed = b.consumed \cup {c} /\ ~(v = 0 /\ b.led.gameDown[c]))
  /\ d.led.gameDown[c] <=> v = 1 /\ (b.led.gameDown[c] \/ d.consumed = b.consumed)
  /\ \/ d.events = b.events
     \/ \E e \in Event : /\ e.since = edge[c] /\ (e.phase = "press" => v = 1 /\ ~b.led.blocked[c])
                        /\ d.events = Append(b.events, e)

LEMMA OneButton ==
  ASSUME NEW b \in BatchOf, NEW c \in Controls \ b.consumed, NEW v \in {0, 1}, NEW who, NEW edge \in [Controls -> Nat]
  PROVE  Settles(b, OnButton(b, c, v, who, edge), c, v, edge)
  <1> DEFINE fires == /\ v = 1 /\ ~Held(b.led, c) /\ Armed(b.led, c) /\ route.connected /\ route.canOpen
                      /\ shortcut # NoShortcut /\ c = Opener /\ ~openerPending /\ ~b.fires
             seen == Button(b.led, c, v, fires)
             wakes == seen.phase = "press" /\ ~b.pad
             d == [b EXCEPT !.led = seen.ledger, !.fires = @ \/ fires, !.pad = @ \/ wakes, !.dirty = @ \/ wakes,
                            !.consumed = IF seen.consume THEN @ \cup {c} ELSE @]
             r == OnButton(b, c, v, who, edge)
  <1>1. r = IF who = NoView \/ seen.phase = "none" THEN d ELSE Act(d, c, seen.phase, who, edge)
    BY Zenon DEF OnButton
  <1>2. b.led \in Ledger(Views) /\ fires \in BOOLEAN
    BY DEF BatchOf
  <1>3. /\ seen.ledger = Settle(b.led, c, v, fires)
        /\ seen.consume <=> Consumes(b.led, c, v, fires)
        /\ seen.phase \in {"none", "press", "release"}
        /\ seen.phase = "press" => v = 1 /\ ~b.led.blocked[c]
    BY DEF Button, Change
  <1> HIDE DEF fires
  <1>4. /\ seen.ledger \in Ledger(Views) /\ seen.ledger.generation = b.led.generation /\ seen.ledger.owner = b.led.owner
        /\ \A k \in Controls \ {c} : seen.ledger.value[k] = b.led.value[k] /\ seen.ledger.gameDown[k] = b.led.gameDown[k]
        /\ \A k \in Controls \ {c} : b.led.blocked[k] => seen.ledger.blocked[k]
        /\ seen.ledger.value[c] = v /\ (v = 1 /\ b.led.blocked[c] => seen.ledger.blocked[c])
        /\ seen.ledger.gameDown[c] <=> v = 1 /\ (b.led.gameDown[c] \/ ~seen.consume)
    <2> DEFINE l == Settle(b.led, c, v, fires)
    <2>1. /\ l \in Ledger(Views) /\ l.generation = b.led.generation /\ l.owner = b.led.owner
          /\ \A k \in Controls \ {c} : l.value[k] = b.led.value[k] /\ l.blocked[k] = b.led.blocked[k] /\ l.gameDown[k] = b.led.gameDown[k]
          /\ l.value[c] = v
          /\ l.blocked[c] <=> v = 1 /\ (b.led.blocked[c] \/ fires)
          /\ l.gameDown[c] <=> v = 1 /\ (b.led.gameDown[c] \/ ~Consumes(b.led, c, v, fires))
      BY <1>2, Settling
    <2>2. seen.ledger = l
      BY <1>3
    <2> HIDE DEF l
    <2> QED BY <1>3, <2>1, <2>2
  <1>5. seen.consume => ~(v = 0 /\ b.led.gameDown[c])
    BY <1>3 DEF Consumes
  <1> HIDE DEF seen
  <1>6. d \in BatchOf
    <2> DEFINE f == b.fires \/ fires
               p == b.pad \/ wakes
               q == b.dirty \/ wakes
               kept == IF seen.consume THEN b.consumed \cup {c} ELSE b.consumed
    <2>1. d = [b EXCEPT !.led = seen.ledger, !.fires = f, !.pad = p, !.dirty = q, !.consumed = kept]
      OBVIOUS
    <2>2. f \in BOOLEAN /\ p \in BOOLEAN /\ q \in BOOLEAN
      BY <1>2 DEF BatchOf
    <2>3. kept \in SUBSET Controls
      BY DEF BatchOf
    <2> HIDE DEF d, f, p, q, kept
    <2> QED BY <1>4, <2>1, <2>2, <2>3 DEF BatchOf
  <1>7. d.led = seen.ledger /\ d.events = b.events /\ d.consumed = IF seen.consume THEN b.consumed \cup {c} ELSE b.consumed
    BY DEF BatchOf
  <1> HIDE DEF d
  <1>8. Settles(b, d, c, v, edge)
    <2>1. d.consumed = b.consumed <=> ~seen.consume
      BY <1>7
    <2>2. d.consumed = b.consumed \/ (d.consumed = b.consumed \cup {c} /\ ~(v = 0 /\ b.led.gameDown[c]))
      BY <1>5, <1>7
    <2>3. d.led.gameDown[c] <=> v = 1 /\ (b.led.gameDown[c] \/ d.consumed = b.consumed)
      BY <1>4, <1>7, <2>1
    <2> QED BY <1>4, <1>6, <1>7, <2>2, <2>3 DEF Settles
  <1>9. CASE who = NoView \/ seen.phase = "none"
    BY <1>1, <1>8, <1>9
  <1>10. CASE ~(who = NoView \/ seen.phase = "none")
    <2>1. r = Act(d, c, seen.phase, who, edge) /\ seen.phase \in {"press", "release"}
      BY <1>1, <1>3, <1>10
    <2>2. /\ r \in BatchOf /\ Alike(d, r)
          /\ \/ r.events = d.events
             \/ r.events = Append(d.events, [control |-> c, phase |-> seen.phase, since |-> edge[c]])
      BY <1>6, <2>1, Acting
    <2>3. PICK e : e = [control |-> c, phase |-> seen.phase, since |-> edge[c]]
      OBVIOUS
    <2>4. e \in Event /\ e.since = edge[c] /\ (e.phase = "press" => v = 1 /\ ~b.led.blocked[c])
      BY <1>3, <2>1, <2>3 DEF Event, Phases
    <2>5. \/ r.events = b.events
          \/ \E x \in Event : /\ x.since = edge[c] /\ (x.phase = "press" => v = 1 /\ ~b.led.blocked[c])
                             /\ r.events = Append(b.events, x)
      BY <1>7, <2>2, <2>3, <2>4
    <2>6. r.consumed = d.consumed /\ r.led.generation = d.led.generation /\ r.led.owner = d.led.owner
          /\ r.led.value = d.led.value /\ r.led.gameDown = d.led.gameDown
          /\ \A k \in Controls : d.led.blocked[k] => r.led.blocked[k]
      BY <2>2 DEF Alike
    <2> HIDE DEF r
    <2>7. r.led.generation = b.led.generation /\ r.led.owner = b.led.owner
      BY <1>8, <2>6 DEF Settles
    <2>8. \A k \in Controls \ {c} : r.led.value[k] = b.led.value[k] /\ r.led.gameDown[k] = b.led.gameDown[k]
      <3>1. \A k \in Controls \ {c} : d.led.value[k] = b.led.value[k] /\ d.led.gameDown[k] = b.led.gameDown[k]
        BY <1>8, Zenon DEF Settles
      <3> QED BY <2>6, <3>1
    <2>9. \A k \in Controls \ {c} : b.led.blocked[k] => r.led.blocked[k]
      <3>1. \A k \in Controls \ {c} : b.led.blocked[k] => d.led.blocked[k]
        BY <1>8, Zenon DEF Settles
      <3> QED BY <2>6, <3>1
    <2>13. v = 1 /\ b.led.blocked[c] => r.led.blocked[c]
      <3>1. v = 1 /\ b.led.blocked[c] => d.led.blocked[c]
        BY <1>8, Zenon DEF Settles
      <3> QED BY <2>6, <3>1
    <2>10. r.led.value[c] = v
      BY <1>8, <2>6 DEF Settles
    <2>11. r.consumed = b.consumed \/ (r.consumed = b.consumed \cup {c} /\ ~(v = 0 /\ b.led.gameDown[c]))
      BY <1>8, <2>6 DEF Settles
    <2>12. r.led.gameDown[c] <=> v = 1 /\ (b.led.gameDown[c] \/ r.consumed = b.consumed)
      BY <1>8, <2>6 DEF Settles
    <2> QED BY <2>2, <2>5, <2>7, <2>8, <2>9, <2>10, <2>11, <2>12, <2>13, Zenon DEF Settles, r
  <1> QED BY <1>9, <1>10

LEMMA OneStick ==
  ASSUME NEW b \in BatchOf, NEW c \in Controls \ b.consumed, NEW v \in {0, 1}, NEW edge \in [Controls -> Nat]
  PROVE  Settles(b, OnStick(b, c, v), c, v, edge)
  <1> DEFINE seen == Stick(b.led, c, v)
             wakes == seen.phase # "none" /\ v = 1 /\ ~b.pad
             d == OnStick(b, c, v)
  <1>1. d = [b EXCEPT !.led = seen.ledger, !.axes = @ \/ seen.phase # "none", !.pad = @ \/ wakes, !.dirty = @ \/ wakes,
                      !.consumed = IF seen.consume THEN @ \cup {c} ELSE @]
    BY DEF OnStick
  <1>2. b.led \in Ledger(Views)
    BY DEF BatchOf
  <1>3. seen.ledger = Settle(b.led, c, v, FALSE) /\ (seen.consume <=> Consumes(b.led, c, v, FALSE))
    BY DEF Stick
  <1>4. /\ seen.ledger \in Ledger(Views) /\ seen.ledger.generation = b.led.generation /\ seen.ledger.owner = b.led.owner
        /\ \A k \in Controls \ {c} : seen.ledger.value[k] = b.led.value[k] /\ seen.ledger.gameDown[k] = b.led.gameDown[k]
        /\ \A k \in Controls \ {c} : b.led.blocked[k] => seen.ledger.blocked[k]
        /\ seen.ledger.value[c] = v /\ (v = 1 /\ b.led.blocked[c] => seen.ledger.blocked[c])
        /\ seen.ledger.gameDown[c] <=> v = 1 /\ (b.led.gameDown[c] \/ ~seen.consume)
    <2>0. PICK force \in BOOLEAN : force = FALSE
      OBVIOUS
    <2> DEFINE l == Settle(b.led, c, v, force)
    <2>1. /\ l \in Ledger(Views) /\ l.generation = b.led.generation /\ l.owner = b.led.owner
          /\ \A k \in Controls \ {c} : l.value[k] = b.led.value[k] /\ l.blocked[k] = b.led.blocked[k] /\ l.gameDown[k] = b.led.gameDown[k]
          /\ l.value[c] = v
          /\ l.blocked[c] <=> v = 1 /\ (b.led.blocked[c] \/ force)
          /\ l.gameDown[c] <=> v = 1 /\ (b.led.gameDown[c] \/ ~Consumes(b.led, c, v, force))
      BY <1>2, Settling
    <2>2. seen.ledger = l
      BY <1>3, <2>0
    <2> HIDE DEF l
    <2> QED BY <1>3, <2>0, <2>1, <2>2
  <1>5. seen.consume => ~(v = 0 /\ b.led.gameDown[c])
    BY <1>3 DEF Consumes
  <1> HIDE DEF seen
  <1>6. d \in BatchOf
    <2> DEFINE x == b.axes \/ seen.phase # "none"
               p == b.pad \/ wakes
               q == b.dirty \/ wakes
               kept == IF seen.consume THEN b.consumed \cup {c} ELSE b.consumed
    <2>1. d = [b EXCEPT !.led = seen.ledger, !.axes = x, !.pad = p, !.dirty = q, !.consumed = kept]
      BY <1>1
    <2>2. x \in BOOLEAN /\ p \in BOOLEAN /\ q \in BOOLEAN
      BY DEF BatchOf
    <2>3. kept \in SUBSET Controls
      BY DEF BatchOf
    <2> HIDE DEF d, x, p, q, kept
    <2> QED BY <1>4, <2>1, <2>2, <2>3 DEF BatchOf
  <1>7. d.led = seen.ledger /\ d.events = b.events /\ d.consumed = IF seen.consume THEN b.consumed \cup {c} ELSE b.consumed
    BY <1>1 DEF BatchOf
  <1> HIDE DEF d
  <1>8. d.consumed = b.consumed <=> ~seen.consume
    BY <1>7
  <1>9. d.consumed = b.consumed \/ (d.consumed = b.consumed \cup {c} /\ ~(v = 0 /\ b.led.gameDown[c]))
    BY <1>5, <1>7
  <1>10. d.led.gameDown[c] <=> v = 1 /\ (b.led.gameDown[c] \/ d.consumed = b.consumed)
    BY <1>4, <1>7, <1>8
  <1>11. /\ d.led.generation = b.led.generation /\ d.led.owner = b.led.owner
         /\ \A k \in Controls \ {c} : d.led.value[k] = b.led.value[k] /\ d.led.gameDown[k] = b.led.gameDown[k]
         /\ \A k \in Controls \ {c} : b.led.blocked[k] => d.led.blocked[k]
         /\ d.led.value[c] = v /\ (v = 1 /\ b.led.blocked[c] => d.led.blocked[c])
    BY <1>4, <1>7
  <1>12. d.events = b.events
    BY <1>7
  <1> QED BY <1>6, <1>9, <1>10, <1>11, <1>12, Zenon DEF Settles, d

\* What a batch has come to when the events of some controls are done with.
Goes(b, done, led, now, edge) ==
  /\ b \in BatchOf /\ b.led.generation = led.generation /\ b.led.owner = led.owner /\ done \subseteq Controls
  /\ \A c \in Controls : b.led.value[c] = IF c \in done THEN now[c] ELSE led.value[c]
  /\ \A c \in Controls : now[c] = 1 /\ ~b.led.blocked[c] => edge[c] = led.generation
  /\ \A i \in 1..Len(b.events) : b.events[i].phase = "press" => b.events[i].since = led.generation
  /\ \A c \in Controls \ done : c \notin b.consumed /\ b.led.gameDown[c] = led.gameDown[c]
  /\ \A c \in done : b.led.gameDown[c] <=> now[c] = 1 /\ (c \in b.consumed => led.gameDown[c])
  /\ \A c \in done : c \in b.consumed /\ led.gameDown[c] => now[c] = 1

LEMMA OneEvent ==
  ASSUME NEW b, NEW done, NEW led, NEW now \in [Controls -> {0, 1}], NEW edge \in [Controls -> Nat],
         Goes(b, done, led, now, edge), NEW c \in Controls \ done, NEW who
  PROVE  Goes(OnEvent(b, c, now, who, edge), done \cup {c}, led, now, edge)
  <1> DEFINE d == OnEvent(b, c, now, who, edge)
             v == now[c]
  <1>1. b \in BatchOf /\ c \in Controls \ b.consumed /\ v \in {0, 1}
    BY DEF Goes
  <1>2. Settles(b, d, c, v, edge)
    BY <1>1, OneButton, OneStick DEF OnEvent
  <1> HIDE DEF d
  <1>3. d \in BatchOf /\ d.led.generation = led.generation /\ d.led.owner = led.owner /\ done \cup {c} \subseteq Controls
    BY <1>2 DEF Settles, Goes
  <1>4. \A k \in Controls : d.led.value[k] = IF k \in done \cup {c} THEN now[k] ELSE led.value[k]
    BY <1>2 DEF Settles, Goes
  <1>5. \A k \in Controls : now[k] = 1 /\ ~d.led.blocked[k] => edge[k] = led.generation
    BY <1>2 DEF Settles, Goes
  <1>6. \A i \in 1..Len(d.events) : d.events[i].phase = "press" => d.events[i].since = led.generation
    <2>1. CASE d.events = b.events
      BY <2>1 DEF Goes
    <2>2. CASE d.events # b.events
      <3>1. PICK e \in Event : /\ e.since = edge[c] /\ (e.phase = "press" => v = 1 /\ ~b.led.blocked[c])
                              /\ d.events = Append(b.events, e)
        BY <1>2, <2>2 DEF Settles
      <3>2. e.phase = "press" => e.since = led.generation
        BY <3>1 DEF Goes
      <3>3. b.events \in Seq(Event)
        BY <1>1 DEF BatchOf
      <3> QED BY <3>1, <3>2, <3>3 DEF Goes
    <2> QED BY <2>1, <2>2
  <1>7. \A k \in Controls \ (done \cup {c}) : k \notin d.consumed /\ d.led.gameDown[k] = led.gameDown[k]
    BY <1>2 DEF Settles, Goes
  <1>8. \A k \in done \cup {c} : d.led.gameDown[k] <=> now[k] = 1 /\ (k \in d.consumed => led.gameDown[k])
    <2> TAKE k \in done \cup {c}
    <2>1. CASE k = c
      BY <1>1, <1>2, <2>1 DEF Settles, Goes
    <2>2. CASE k # c /\ k \in Controls
      BY <1>1, <1>2, <2>2 DEF Settles, Goes
    <2> QED BY <1>3, <2>1, <2>2
  <1>9. \A k \in done \cup {c} : k \in d.consumed /\ led.gameDown[k] => now[k] = 1
    BY <1>1, <1>2 DEF Settles, Goes
  <1> QED BY <1>3, <1>4, <1>5, <1>6, <1>7, <1>8, <1>9 DEF Goes, d

\* The events of a batch, each control at most once.
LEMMA AllEvents ==
  ASSUME NEW start, NEW now \in [Controls -> {0, 1}], NEW edge \in [Controls -> Nat], NEW who,
         Goes(start, {}, start.led, now, edge), NEW events \in Seq(Controls),
         \A i, j \in 1..Len(events) : i # j => events[i] # events[j]
  PROVE  Goes(AfterEvents(start, events, now, who, edge), {events[i] : i \in 1..Len(events)}, start.led, now, edge)
  <1>1. Len(events) \in Nat
    OBVIOUS
  <1>6. PICK after : Folds(after, start, events, now, who, edge)
    BY <1>1, Folding
  <1>2. /\ after[0] = start
        /\ \A i \in 1..Len(events) : after[i] = OnEvent(after[i - 1], events[i], now, who, edge)
        /\ AfterEvents(start, events, now, who, edge) = after[Len(events)]
    BY <1>6 DEF Folds
  <1> DEFINE Gone(k) == {events[i] : i \in 1..k}
             T == {k \in Nat : k <= Len(events) => Goes(after[k], Gone(k), start.led, now, edge)}
  <1>3. 0 \in T
    <2>1. Gone(0) = {}
      OBVIOUS
    <2> QED BY <1>2, <2>1
  <1>4. ASSUME NEW k \in T PROVE k + 1 \in T
    <2> SUFFICES ASSUME k + 1 <= Len(events) PROVE Goes(after[k + 1], Gone(k + 1), start.led, now, edge)
      BY <1>4
    <2>1. k \in Nat /\ k + 1 \in 1..Len(events) /\ Goes(after[k], Gone(k), start.led, now, edge)
      BY <1>4, <1>1
    <2>2. events[k + 1] \in Controls \ Gone(k)
      BY <2>1
    <2>3. Gone(k + 1) = Gone(k) \cup {events[k + 1]}
      BY <2>1
    <2>4. after[k + 1] = OnEvent(after[k], events[k + 1], now, who, edge)
      BY <1>2, <2>1
    <2> HIDE DEF Gone
    <2>5. Goes(OnEvent(after[k], events[k + 1], now, who, edge), Gone(k) \cup {events[k + 1]}, start.led, now, edge)
      BY <2>1, <2>2, OneEvent
    <2> QED BY <2>3, <2>4, <2>5
  <1>5. Len(events) \in T
    <2>1. T \in SUBSET Nat
      OBVIOUS
    <2> HIDE DEF T
    <2> QED BY <1>1, <1>3, <1>4, <2>1, Upwards
  <1> QED BY <1>1, <1>2, <1>5

-----------------------------------------------------------------------------
(* After the events.                                                       *)

LEMMA AfterOtherDevice ==
  ASSUME NEW b, NEW done, NEW led, NEW now, NEW edge, Goes(b, done, led, now, edge)
  PROVE  Goes(OnOtherDevice(b), done, led, now, edge)
  <1>1. CASE ~b.pad
    BY <1>1 DEF OnOtherDevice
  <1>2. CASE b.pad
    <2>1. PICK d : d = OnOtherDevice(b)
      OBVIOUS
    <2>2. d = [b EXCEPT !.pad = FALSE, !.dirty = TRUE, !.release = TRUE, !.clicks = <<>>]
      BY <1>2, <2>1 DEF OnOtherDevice
    <2>3. b \in BatchOf /\ <<>> \in Seq({"down", "up"})
      BY DEF Goes
    <2>4. d \in BatchOf /\ d.led = b.led /\ d.events = b.events /\ d.consumed = b.consumed
      BY <2>2, <2>3 DEF BatchOf
    <2>5. Goes(d, done, led, now, edge)
      BY <2>4 DEF Goes
    <2> QED BY <2>1, <2>5
  <1> QED BY <1>1, <1>2

\* The repeat clock moves the selection by a control that is held and armed.
LEMMA AfterClock ==
  ASSUME NEW b, NEW done, NEW led, NEW now \in [Controls -> {0, 1}], NEW edge \in [Controls -> Nat],
         Goes(b, done, led, now, edge), \A c \in Controls \ done : led.value[c] = now[c],
         NEW who, NEW due \in BOOLEAN
  PROVE  Goes(Clock(b, who, due, edge), done, led, now, edge)
  <1> DEFINE stick == IF b.mode = "navigation" THEN LeftStick ELSE None
             r == Repeat(b.led, Directions, stick, due)
             d == [b EXCEPT !.led = r.ledger]
             e == IF r.control = None THEN d ELSE Emit(d, r.control, r.phase, who, edge)
             f == IF Sticks # {} /\ (b.axes \/ StickHeld(b)) THEN Emit(e, LeftStick, "change", who, edge) ELSE e
             moves == b.mode = "cursor" /\ b.pad /\ StickHeld(b)
  <1>1. Clock(b, who, due, edge) = IF who = NoView THEN b ELSE [f EXCEPT !.moves = moves]
    BY Zenon DEF Clock
  <1>2. b \in BatchOf /\ b.led \in Ledger(Views)
    BY DEF Goes, BatchOf
  <1> DEFINE dir == Direction(b.led, Directions, stick)
  <1>3. dir = None \/ (dir \in Controls /\ b.led.value[dir] = 1 /\ ~b.led.blocked[dir])
    <2> DEFINE held == {c \in Directions : Held(b.led, c) /\ Armed(b.led, c)}
    <2>1. dir = IF held # {} THEN CHOOSE c \in held : TRUE
                ELSE IF stick \in Controls /\ Held(b.led, stick) /\ Armed(b.led, stick) THEN stick ELSE None
      BY DEF Direction
    <2> HIDE DEF stick
    <2>2. CASE held # {}
      <3>1. dir \in held
        BY <2>1, <2>2
      <3> QED BY <3>1 DEF Directions, Held, Armed
    <2>3. CASE held = {}
      BY <2>1, <2>3 DEF Held, Armed
    <2> QED BY <2>2, <2>3
  <1> HIDE DEF stick
  <1>4. /\ r.ledger = [b.led EXCEPT !.repeat = dir]
        /\ r.control = IF dir # b.led.repeat \/ due THEN dir ELSE None
        /\ r.phase = IF dir # b.led.repeat THEN "press" ELSE "repeat"
    BY DEF Repeat
  <1> HIDE DEF dir, r
  <1>5. r.control = None \/ (r.control \in Controls /\ b.led.value[r.control] = 1 /\ ~b.led.blocked[r.control])
    BY <1>3, <1>4
  <1>6. r.phase \in Phases /\ r.phase \in Phases \cup {"none"}
    BY <1>4 DEF Phases
  <1>7. /\ r.ledger \in Ledger(Views) /\ r.ledger.value = b.led.value /\ r.ledger.blocked = b.led.blocked
        /\ r.ledger.gameDown = b.led.gameDown /\ r.ledger.generation = b.led.generation /\ r.ledger.owner = b.led.owner
    BY <1>2, <1>3, <1>4 DEF Ledger
  <1>8. d \in BatchOf /\ d.led = r.ledger /\ d.events = b.events /\ d.consumed = b.consumed
    BY <1>2, <1>7 DEF BatchOf
  <1> HIDE DEF d
  <1>9. Goes(d, done, led, now, edge)
    BY <1>7, <1>8 DEF Goes
  <1>10. Goes(e, done, led, now, edge)
    <2>1. CASE r.control = None
      BY <1>9, <2>1
    <2>2. CASE r.control # None
      <3>1. r.control \in Controls /\ edge[r.control] = led.generation
        <4>1. r.control \in Controls /\ b.led.value[r.control] = 1 /\ ~b.led.blocked[r.control]
          BY <1>5, <2>2
        <4>2. b.led.value[r.control] = now[r.control]
          BY <4>1 DEF Goes
        <4> QED BY <4>1, <4>2 DEF Goes
      <3>2. e = Emit(d, r.control, r.phase, who, edge)
        BY <2>2
      <3> DEFINE o == Emit(d, r.control, r.phase, who, edge)
      <3>5. o \in BatchOf /\ Alike(d, o)
            /\ \/ o.events = d.events
               \/ o.events = Append(d.events, [control |-> r.control, phase |-> r.phase, since |-> edge[r.control]])
        <4>1. d \in BatchOf
          BY <1>8
        <4>2. r.control \in Controls
          BY <3>1
        <4>3. PICK phase \in Phases \cup {"none"} : phase = r.phase
          BY <1>6
        <4>4. PICK c \in Controls : c = r.control
          BY <4>2
        <4>5. /\ Emit(d, c, phase, who, edge) \in BatchOf /\ Alike(d, Emit(d, c, phase, who, edge))
              /\ \/ Emit(d, c, phase, who, edge).events = d.events
                 \/ Emit(d, c, phase, who, edge).events = Append(d.events, [control |-> c, phase |-> phase, since |-> edge[c]])
          BY <4>1, Emitting
        <4> QED BY <4>3, <4>4, <4>5
      <3> HIDE DEF o
      <3>3. e \in BatchOf /\ Alike(d, e)
            /\ \/ e.events = d.events
               \/ e.events = Append(d.events, [control |-> r.control, phase |-> r.phase, since |-> edge[r.control]])
        BY <3>2, <3>5 DEF o
      <3>4. \A i \in 1..Len(e.events) : e.events[i].phase = "press" => e.events[i].since = led.generation
        <4>1. PICK x : x = [control |-> r.control, phase |-> r.phase, since |-> edge[r.control]]
          OBVIOUS
        <4>2. x \in Event /\ x.since = led.generation
          BY <1>6, <3>1, <4>1 DEF Event
        <4>3. d.events \in Seq(Event)
          BY <1>8 DEF BatchOf
        <4>4. e.events = d.events \/ e.events = Append(d.events, x)
          BY <3>3, <4>1
        <4>5. \A i \in 1..Len(d.events) : d.events[i].phase = "press" => d.events[i].since = led.generation
          BY <1>9 DEF Goes
        <4> DEFINE old == d.events
                   new == e.events
        <4>6. old \in Seq(Event) /\ (new = old \/ new = Append(old, x))
          BY <4>3, <4>4
        <4>7. \A i \in 1..Len(old) : old[i].phase = "press" => old[i].since = led.generation
          BY <4>5
        <4> HIDE DEF old, new
        <4>8. \A i \in 1..Len(new) : new[i].phase = "press" => new[i].since = led.generation
          <5>1. CASE new = old
            BY <4>7, <5>1
          <5>2. CASE new = Append(old, x)
            <6>1. /\ Len(new) = Len(old) + 1 /\ Len(old) \in Nat
                  /\ \A i \in 1..Len(new) : new[i] = IF i <= Len(old) THEN old[i] ELSE x
              BY <4>6, <5>2
            <6> QED BY <4>2, <4>7, <6>1
          <5> QED BY <4>6, <5>1, <5>2
        <4> QED BY <4>8 DEF new
      <3> HIDE DEF e
      <3> QED BY <1>9, <3>3, <3>4 DEF Goes, Alike
    <2> QED BY <2>1, <2>2
  <1> HIDE DEF e
  <1>11. Goes(f, done, led, now, edge)
    <2>1. CASE ~(Sticks # {} /\ (b.axes \/ StickHeld(b)))
      BY <1>10, <2>1
    <2>2. CASE Sticks # {} /\ (b.axes \/ StickHeld(b))
      <3>1. LeftStick \in Controls
        BY <2>2, LedgerAssumption DEF LeftStick
      <3>2. f = Emit(e, LeftStick, "change", who, edge)
        BY <2>2
      <3>3. e \in BatchOf /\ "change" \in Phases \cup {"none"}
        BY <1>10 DEF Goes, Phases
      <3>4. f \in BatchOf /\ Alike(e, f)
            /\ \/ f.events = e.events
               \/ f.events = Append(e.events, [control |-> LeftStick, phase |-> "change", since |-> edge[LeftStick]])
        BY <3>1, <3>2, <3>3, Emitting
      <3>5. \A i \in 1..Len(f.events) : f.events[i].phase = "press" => f.events[i].since = led.generation
        <4>1. PICK x : x = [control |-> LeftStick, phase |-> "change", since |-> edge[LeftStick]]
          OBVIOUS
        <4>2. x \in Event /\ (x.phase = "press" => x.since = led.generation)
          BY <3>1, <4>1 DEF Event, Phases
        <4>3. e.events \in Seq(Event)
          BY <3>3 DEF BatchOf
        <4>4. f.events = e.events \/ f.events = Append(e.events, x)
          BY <3>4, <4>1
        <4>5. \A i \in 1..Len(e.events) : e.events[i].phase = "press" => e.events[i].since = led.generation
          BY <1>10 DEF Goes
        <4>6. PICK old, new : old = e.events /\ new = f.events
          OBVIOUS
        <4> HIDE DEF e, f
        <4>7. \A i \in 1..Len(new) : new[i].phase = "press" => new[i].since = led.generation
          <5>1. old \in Seq(Event) /\ (new = old \/ new = Append(old, x))
            BY <4>3, <4>4, <4>6
          <5>2. \A i \in 1..Len(old) : old[i].phase = "press" => old[i].since = led.generation
            BY <4>5, <4>6
          <5>3. CASE new = old
            BY <5>2, <5>3
          <5>4. CASE new = Append(old, x)
            <6>1. /\ Len(new) = Len(old) + 1 /\ Len(old) \in Nat
                  /\ \A i \in 1..Len(new) : new[i] = IF i <= Len(old) THEN old[i] ELSE x
              BY <5>1, <5>4
            <6> QED BY <4>2, <5>2, <6>1
          <5> QED BY <5>1, <5>3, <5>4
        <4> QED BY <4>6, <4>7
      <3> HIDE DEF f
      <3> QED BY <1>10, <3>4, <3>5 DEF Goes, Alike
    <2> QED BY <2>1, <2>2
  <1> HIDE DEF f
  <1>12. Goes([f EXCEPT !.moves = moves], done, led, now, edge)
    <2>1. f \in BatchOf /\ moves \in BOOLEAN
      BY <1>11 DEF Goes
    <2>2. PICK g : g = [f EXCEPT !.moves = moves]
      OBVIOUS
    <2>3. g \in BatchOf /\ g.led = f.led /\ g.events = f.events /\ g.consumed = f.consumed
      BY <2>1, <2>2 DEF BatchOf
    <2>4. Goes(g, done, led, now, edge)
      BY <1>11, <2>3 DEF Goes
    <2> QED BY <2>2, <2>4
  <1> QED BY <1>1, <1>12

LEMMA AfterOverflow ==
  ASSUME NEW b, NEW done, NEW led, NEW now \in [Controls -> {0, 1}], NEW edge \in [Controls -> Nat],
         Goes(b, done, led, now, edge), \A c \in Controls \ done : led.value[c] = now[c]
  PROVE  Goes(Overflow(b, now), done, led, now, edge)
  <1>1. CASE Len(b.events) <= MaxEvents
    BY <1>1 DEF Overflow
  <1>2. CASE ~(Len(b.events) <= MaxEvents)
    <2> DEFINE l == SeedAll(RequireNeutral(b.led), now)
               d == [b EXCEPT !.events = <<>>, !.clicks = <<>>, !.moves = FALSE, !.release = TRUE, !.reset = TRUE, !.led = l]
    <2>1. Overflow(b, now) = d
      BY <1>2 DEF Overflow
    <2>2. b \in BatchOf /\ b.led \in Ledger(Views)
      BY DEF Goes, BatchOf
    <2>3. RequireNeutral(b.led) \in Ledger(Views)
      BY <2>2, Neutral
    <2>4. /\ l \in Ledger(Views) /\ l.value = now /\ l.gameDown = b.led.gameDown
          /\ l.generation = b.led.generation /\ l.owner = b.led.owner
          /\ \A c \in Controls : l.blocked[c] <=> now[c] = 1
      BY <2>2, <2>3, Seeding, Neutral
    <2> HIDE DEF l
    <2>5. <<>> \in Seq({"down", "up"}) /\ <<>> \in Seq(Event)
      OBVIOUS
    <2>6. d \in BatchOf /\ d.led = l /\ d.events = <<>> /\ d.consumed = b.consumed
      BY <2>2, <2>4, <2>5 DEF BatchOf
    <2> HIDE DEF d
    <2>7. Goes(d, done, led, now, edge)
      BY <2>4, <2>6 DEF Goes
    <2> QED BY <2>1, <2>7
  <1> QED BY <1>1, <1>2

-----------------------------------------------------------------------------
(* The ledger as a batch finds it.                                         *)

\* What a batch's ledger owes the device, before its events: what was let go and stays so
\* is neutral, what stays held is known held, and the page may use it only if its press is
\* of this generation; the game is owed the release of what it believes held.
Begins0(l, now) ==
  /\ l \in Ledger(Views)
  /\ \A c \in Controls : l.value[c] = 1 => route.connected /\ (phys[c] = 1 \/ now[c] = 1)
  /\ \A c \in Controls : now[c] = 1 /\ phys[c] = 1 => l.value[c] = 1
  /\ \A c \in Controls : now[c] = 1 /\ phys[c] = 1 /\ ~l.blocked[c] => since[c] = l.generation
  /\ \A c \in Controls : route.connected /\ game[c] = 1 => l.gameDown[c]

\* The device and the game, as the ledger knows them.
Device ==
  /\ ~connected => \A c \in Controls : phys[c] = 0
  /\ ~shutdown => \A c \in Controls :
       /\ ledger.value[c] = phys[c]
       /\ phys[c] = 1 /\ ~ledger.blocked[c] => since[c] = ledger.generation
       /\ game[c] = 1 => ledger.gameDown[c]

Held01 ==
  /\ ledger \in Ledger(Views) /\ phys \in [Controls -> {0, 1}] /\ game \in [Controls -> {0, 1}]
  /\ since \in [Controls -> Nat] /\ connected \in BOOLEAN /\ shutdown \in BOOLEAN /\ route.connected \in BOOLEAN

LEMMA InputsTyped ==
  ASSUME Held01, NEW now \in Inputs
  PROVE  now \in [Controls -> {0, 1}] /\ (~route.connected => \A c \in Controls : now[c] = 0)
  <1>1. CASE ~route.connected
    <2>1. now = [c \in Controls |-> 0]
      BY <1>1 DEF Inputs
    <2> QED BY <2>1
  <1>2. CASE route.connected
    <2>1. CASE now = phys
      BY <1>2, <2>1 DEF Held01
    <2>2. CASE now # phys
      <3>1. PICK c \in Controls : now = [phys EXCEPT ![c] = 1 - phys[c]]
        BY <1>2, <2>2 DEF Inputs
      <3>2. 1 - phys[c] \in {0, 1}
        BY DEF Held01
      <3> QED BY <1>2, <3>1, <3>2 DEF Held01
    <2> QED BY <2>1, <2>2
  <1> QED BY <1>1, <1>2

LEMMA BeginsSeeded ==
  ASSUME NEW now \in [Controls -> {0, 1}], ~route.connected => \A c \in Controls : now[c] = 0,
         NEW l, Begins0(l, now)
  PROVE  Begins0(SeedAll(l, now), now)
  <1>1. l \in Ledger(Views)
    BY DEF Begins0
  <1>2. /\ SeedAll(l, now) \in Ledger(Views) /\ SeedAll(l, now).value = now
        /\ SeedAll(l, now).gameDown = l.gameDown
        /\ \A c \in Controls : SeedAll(l, now).blocked[c] <=> now[c] = 1
    BY <1>1, Seeding
  <1> QED BY <1>2 DEF Begins0

LEMMA BeginsOwned ==
  ASSUME NEW now \in [Controls -> {0, 1}], NEW l, Begins0(l, now), NEW o \in Views \cup {NoView}
  PROVE  Begins0(SetOwner(l, o), now)
  <1>1. l \in Ledger(Views)
    BY DEF Begins0
  <1>2. /\ SetOwner(l, o) \in Ledger(Views)
        /\ SetOwner(l, o).value = l.value /\ SetOwner(l, o).gameDown = l.gameDown
        /\ SetOwner(l, o) = l \/ \A c \in Controls : l.value[c] = 1 => SetOwner(l, o).blocked[c]
    BY <1>1, Owning
  <1> QED BY <1>2 DEF Begins0

LEMMA BeginsConnected ==
  ASSUME Held01, Device, GamePaired, ~shutdown, NEW now \in Inputs
  PROVE  Begins0(Connected(now), now)
  <1>1. now \in [Controls -> {0, 1}] /\ (~route.connected => \A c \in Controls : now[c] = 0)
    BY InputsTyped
  <1>2. CASE route.connected = connected
    <2>1. Connected(now) = ledger
      BY <1>2 DEF Connected
    <2> QED BY <1>1, <1>2, <2>1 DEF Begins0, Held01, Device
  <1>3. CASE route.connected # connected
    <2> DEFINE l == ResetDevice(ledger)
    <2>1. l \in Ledger(Views) /\ \A c \in Controls : l.value[c] = 0 /\ l.blocked[c] /\ ~l.gameDown[c]
      BY Resetting DEF Held01
    <2> HIDE DEF l
    <2>2. \A c \in Controls : route.connected => phys[c] = 0 /\ game[c] # 1
      <3>1. route.connected => ~connected
        BY <1>3 DEF Held01
      <3>2. route.connected => \A c \in Controls : phys[c] = 0
        BY <3>1 DEF Device
      <3> QED BY <3>2 DEF GamePaired
    <2>3. Begins0(l, now)
      BY <1>1, <2>1, <2>2 DEF Begins0
    <2>4. Connected(now) = l \/ Connected(now) = SeedAll(l, now)
      BY <1>3 DEF Connected, l
    <2> QED BY <1>1, <2>3, <2>4, BeginsSeeded
  <1> QED BY <1>2, <1>3

\* The ledger that the events of a batch start from.
First(now) == SetOwner(Renewed(Connected(now), Owner, now), Owner)

LEMMA BeginsFirst ==
  ASSUME Held01, Device, GamePaired, ~shutdown, NEW now \in Inputs, Owner \in Views \cup {NoView}
  PROVE  Begins0(First(now), now) /\ First(now).owner = Owner
  <1>1. now \in [Controls -> {0, 1}] /\ (~route.connected => \A c \in Controls : now[c] = 0)
    BY InputsTyped
  <1> DEFINE l == Connected(now)
             n == SetOwner(l, NoView)
             m == Renewed(l, Owner, now)
  <1>2. Begins0(l, now)
    BY BeginsConnected
  <1>3. NoView \in Views \cup {NoView}
    OBVIOUS
  <1> HIDE DEF l
  <1>4. Begins0(n, now)
    BY <1>1, <1>2, <1>3, BeginsOwned
  <1> HIDE DEF n
  <1>5. Begins0(SeedAll(n, now), now)
    BY <1>1, <1>4, BeginsSeeded
  <1>6. m = l \/ m = SeedAll(n, now) \/ m = n
    BY DEF Renewed, n
  <1> HIDE DEF m
  <1>7. Begins0(m, now)
    BY <1>2, <1>4, <1>5, <1>6
  <1>8. Begins0(SetOwner(m, Owner), now)
    BY <1>1, <1>7, BeginsOwned
  <1>9. SetOwner(m, Owner).owner = Owner
    BY <1>7, Owning DEF Begins0
  <1> QED BY <1>8, <1>9 DEF First, m, l

\* When each control went down, as a batch finds it.
Edge(now) == [c \in Controls |-> IF now[c] = 0 THEN 0 ELSE IF phys[c] = 0 THEN First(now).generation ELSE since[c]]

EntryOf == [page : Nat, mode : Modes, epoch : Nat, dirty : BOOLEAN, enabled : BOOLEAN]
Answers == Owner \in Views \cup {NoView} /\ gamepad \in BOOLEAN /\ entries \in [Views -> EntryOf]

\* What a batch leaves: the ledger knows the device, the game is owed the release of what
\* it believes held, a page may use what was pressed in this generation only.
LEMMA Routing ==
  ASSUME Held01, Device, GamePaired, ~shutdown, Answers,
         NEW now \in Inputs, NEW mouseMoved \in BOOLEAN, NEW due \in BOOLEAN
  PROVE  LET b == Routed(now, mouseMoved, due, Edge(now)) IN
         /\ b \in BatchOf /\ b.led.generation = First(now).generation /\ b.led.owner = Owner
         /\ b.led.value = now
         /\ \A c \in Controls : now[c] = 1 /\ ~b.led.blocked[c] => Edge(now)[c] = b.led.generation
         /\ \A i \in 1..Len(b.events) : b.events[i].phase = "press" => b.events[i].since = b.led.generation
         /\ \A c \in Controls : route.connected /\ (IF c \in b.consumed THEN game[c] ELSE now[c]) = 1
                                => now[c] = 1 /\ b.led.gameDown[c]
  <1> DEFINE who == Owner
             led == First(now)
             edge == Edge(now)
             start == [led |-> led, events |-> <<>>, clicks |-> <<>>, release |-> FALSE, moves |-> FALSE, fires |-> FALSE,
                       mode |-> IF who = NoView THEN "none" ELSE entries[who].mode, dirty |-> FALSE, pad |-> gamepad,
                       axes |-> FALSE, consumed |-> {}, reset |-> led.owner # Renewed(Connected(now), who, now).owner]
             gone == AfterEvents(start, Batch(now), now, who, edge)
             moved == IF mouseMoved THEN OnOtherDevice(gone) ELSE gone
             b == Routed(now, mouseMoved, due, edge)
  <1>1. b = Overflow(Clock(moved, who, due, edge), now)
    BY Zenon DEF Routed, First
  <1>2. now \in [Controls -> {0, 1}] /\ (~route.connected => \A c \in Controls : now[c] = 0)
    BY InputsTyped
  <1>3. Begins0(led, now) /\ led.owner = Owner
    BY BeginsFirst DEF Answers
  <1>4. edge \in [Controls -> Nat]
    BY <1>2, <1>3 DEF Edge, Begins0, Held01, Ledger
  <1>5. \A c \in Controls : now[c] = 1 /\ ~led.blocked[c] => edge[c] = led.generation
    BY <1>2, <1>3 DEF Edge, Begins0, Held01
  <1>6. start \in BatchOf /\ start.led = led /\ start.events = <<>> /\ start.consumed = {}
    <2> DEFINE mode == IF who = NoView THEN "none" ELSE entries[who].mode
               reset == led.owner # Renewed(Connected(now), who, now).owner
    <2>1. mode \in Modes /\ gamepad \in BOOLEAN
      BY DEF Answers, EntryOf, Modes
    <2>2. reset \in BOOLEAN
      OBVIOUS
    <2>3. <<>> \in Seq({"down", "up"}) /\ <<>> \in Seq(Event)
      OBVIOUS
    <2>4. start = [led |-> led, events |-> <<>>, clicks |-> <<>>, release |-> FALSE, moves |-> FALSE, fires |-> FALSE,
                   mode |-> mode, dirty |-> FALSE, pad |-> gamepad, axes |-> FALSE, consumed |-> {}, reset |-> reset]
      OBVIOUS
    <2> HIDE DEF led, mode, reset, start
    <2> QED BY <1>3, <2>1, <2>2, <2>3, <2>4 DEF BatchOf, Begins0
  <1> HIDE DEF start
  <1>7. Goes(start, {}, led, now, edge)
    BY <1>5, <1>6 DEF Goes
  <1> DEFINE batch == {c \in Controls : route.connected /\ (now[c] = 1 \/ phys[c] = 1)}
  <1>8. IsFiniteSet(batch)
    BY InputAssumption, FS_Subset
  <1>9. Batch(now) = SetToSeq(batch)
    BY DEF Batch
  <1> HIDE DEF batch
  <1>10. /\ SetToSeq(batch) \in Seq(batch)
         /\ \A i, j \in 1..Len(SetToSeq(batch)) : i # j => SetToSeq(batch)[i] # SetToSeq(batch)[j]
         /\ \A x \in batch : \E i \in 1..Len(SetToSeq(batch)) : SetToSeq(batch)[i] = x
    BY <1>8, Listing
  <1> DEFINE events == Batch(now)
             done == {events[i] : i \in 1..Len(events)}
  <1>11. events \in Seq(batch) /\ \A i, j \in 1..Len(events) : i # j => events[i] # events[j]
    BY <1>9, <1>10
  <1>12. events \in Seq(Controls)
    BY <1>11 DEF batch
  <1>13. batch \subseteq done
    BY <1>9, <1>10
  <1> HIDE DEF events, led, edge
  <1>14. Goes(gone, done, led, now, edge)
    BY <1>2, <1>4, <1>6, <1>7, <1>11, <1>12, AllEvents DEF events
  <1> HIDE DEF gone, done
  <1>15. \A c \in Controls \ done : led.value[c] = now[c] /\ (route.connected => now[c] = 0 /\ phys[c] = 0)
    <2> TAKE c \in Controls \ done
    <2>1. route.connected => ~(now[c] = 1) /\ ~(phys[c] = 1)
      BY <1>13 DEF batch
    <2>2. now[c] \in {0, 1} /\ phys[c] \in {0, 1} /\ led.value[c] \in {0, 1}
      BY <1>2, <1>3 DEF Held01, Begins0, Ledger
    <2>3. led.value[c] # 1 /\ now[c] = 0
      BY <1>2, <1>3, <2>1, <2>2 DEF Begins0
    <2> QED BY <2>1, <2>2, <2>3
  <1>16. Goes(moved, done, led, now, edge)
    BY <1>14, AfterOtherDevice
  <1> HIDE DEF moved
  <1>17. Goes(Clock(moved, who, due, edge), done, led, now, edge)
    BY <1>2, <1>4, <1>15, <1>16, AfterClock
  <1>18. Goes(b, done, led, now, edge)
    BY <1>1, <1>2, <1>4, <1>15, <1>17, AfterOverflow
  <1> HIDE DEF b
  <1>19. b \in BatchOf /\ b.led.generation = led.generation /\ b.led.owner = Owner
    BY <1>3, <1>18 DEF Goes
  <1>20. b.led.value = now
    <2>1. b.led.value \in [Controls -> {0, 1}]
      BY <1>19 DEF BatchOf, Ledger
    <2>2. \A c \in Controls : b.led.value[c] = now[c]
      BY <1>15, <1>18 DEF Goes
    <2> QED BY <1>2, <2>1, <2>2
  <1>21. \A c \in Controls : now[c] = 1 /\ ~b.led.blocked[c] => edge[c] = b.led.generation
    BY <1>18, <1>19 DEF Goes
  <1>22. \A i \in 1..Len(b.events) : b.events[i].phase = "press" => b.events[i].since = b.led.generation
    BY <1>18, <1>19 DEF Goes
  <1>23. ASSUME NEW c \in Controls, route.connected, (IF c \in b.consumed THEN game[c] ELSE now[c]) = 1
         PROVE  now[c] = 1 /\ b.led.gameDown[c]
    <2>1. CASE c \notin done
      BY <1>15, <1>18, <1>23, <2>1 DEF Goes
    <2>2. CASE c \in done
      <3>1. game[c] = 1 => led.gameDown[c]
        BY <1>3, <1>23 DEF Begins0
      <3> QED BY <1>18, <1>23, <2>2, <3>1 DEF Goes
    <2> QED BY <2>1, <2>2
  <1> QED BY <1>19, <1>20, <1>21, <1>22, <1>23 DEF b, led, edge

-----------------------------------------------------------------------------
(* Programs: the lists of steps that calls and batches put down.           *)

\* The pieces of a program, joined.
LEMMA Joining ==
  ASSUME NEW S, NEW pieces \in Seq(Seq(S))
  PROVE  FlattenSeq(pieces) \in Seq(S)
  <1> DEFINE n == Len(pieces)
             F(k, g) == [i \in 1..k |-> IF i = 1 THEN pieces[i] ELSE g[i - 1] \o pieces[i]]
             P(k) == \E g \in [1..k -> Seq(S)] : g = F(k, g)
             T == {k \in Nat : k <= n => P(k)}
  <1>0. n \in Nat /\ \A i \in 1..n : pieces[i] \in Seq(S)
    OBVIOUS
  <1>1. 0 \in T
    <2>1. [i \in 1..0 |-> <<>>] = F(0, [i \in 1..0 |-> <<>>])
      OBVIOUS
    <2>2. [i \in 1..0 |-> <<>>] \in [1..0 -> Seq(S)]
      OBVIOUS
    <2>3. P(0)
      BY <2>1, <2>2
    <2> HIDE DEF P
    <2> QED BY <2>3
  <1>2. ASSUME NEW k \in Nat, k + 1 <= n, P(k) PROVE P(k + 1)
    <2>1. k \in Nat
      BY <1>2
    <2>2. PICK g \in [1..k -> Seq(S)] : g = F(k, g)
      BY <1>2
    <2> DEFINE last == IF k = 0 THEN pieces[1] ELSE g[k] \o pieces[k + 1]
               h == [i \in 1..(k + 1) |-> IF i <= k THEN g[i] ELSE last]
    <2>3. last \in Seq(S)
      <3>1. CASE k = 0
        BY <1>0, <1>2, <3>1
      <3>2. CASE k # 0
        <4>1. g[k] \in Seq(S) /\ pieces[k + 1] \in Seq(S)
          BY <1>0, <1>2, <2>1, <2>2, <3>2
        <4> QED BY <3>2, <4>1
      <3> QED BY <3>1, <3>2
    <2>4. h \in [1..(k + 1) -> Seq(S)]
      BY <2>1, <2>3
    <2>5. \A i \in 1..k : g[i] = IF i = 1 THEN pieces[i] ELSE g[i - 1] \o pieces[i]
      <3> DEFINE r == [i \in 1..k |-> IF i = 1 THEN pieces[i] ELSE g[i - 1] \o pieces[i]]
      <3>1. \A i \in 1..k : r[i] = IF i = 1 THEN pieces[i] ELSE g[i - 1] \o pieces[i]
        OBVIOUS
      <3>2. g = r
        BY <2>2
      <3> HIDE DEF r
      <3> QED BY <3>1, <3>2
    <2>6. \A i \in 1..(k + 1) : h[i] = IF i = 1 THEN pieces[i] ELSE h[i - 1] \o pieces[i]
      <3> TAKE i \in 1..(k + 1)
      <3>1. CASE i <= k
        <4>1. h[i] = g[i] /\ (i # 1 => h[i - 1] = g[i - 1]) /\ i \in 1..k
          BY <2>1, <3>1
        <4>2. g[i] = IF i = 1 THEN pieces[i] ELSE g[i - 1] \o pieces[i]
          BY <2>5, <4>1
        <4> HIDE DEF h
        <4> QED BY <4>1, <4>2
      <3>2. CASE i = k + 1
        <4>1. h[i] = last /\ (i # 1 => h[i - 1] = g[k]) /\ (i = 1 <=> k = 0)
          BY <1>2, <2>1, <3>2
        <4> HIDE DEF h
        <4> QED BY <3>2, <4>1
      <3> QED BY <2>1, <3>1, <3>2
    <2>7. h = [i \in 1..(k + 1) |-> h[i]]
      OBVIOUS
    <2> HIDE DEF h
    <2>8. h = F(k + 1, h)
      BY <2>6, <2>7
    <2> HIDE DEF F
    <2> QED BY <2>4, <2>8
  <1>3. P(n)
    <2> HIDE DEF P
    <2>1. T \in SUBSET Nat
      OBVIOUS
    <2>2. \A k \in T : k + 1 \in T
      BY <1>0, <1>2
    <2>3. n \in T
      <3> HIDE DEF T
      <3> QED BY <1>0, <1>1, <2>1, <2>2, Upwards
    <2> QED BY <1>0, <2>3
  <1>4. \E g \in [1..n -> Seq(S)] : g = F(n, g)
    BY <1>3
  <1> DEFINE flatten == CHOOSE g : g = F(n, g)
  <1>5. flatten = F(n, flatten)
    BY <1>4
  <1>6. CASE n = 0
    <2>1. FlattenSeq(pieces) = pieces
      BY <1>6 DEF FlattenSeq
    <2>2. pieces = <<>>
      BY <1>6
    <2> QED BY <2>1, <2>2
  <1>7. CASE n # 0
    <2>1. FlattenSeq(pieces) = flatten[n]
      BY <1>7 DEF FlattenSeq
    <2> DEFINE U == {k \in Nat : k + 1 <= n => flatten[k + 1] \in Seq(S)}
    <2> HIDE DEF flatten
    <2>2. \A i \in 1..n : flatten[i] = IF i = 1 THEN pieces[i] ELSE flatten[i - 1] \o pieces[i]
      <3> DEFINE r == [i \in 1..n |-> IF i = 1 THEN pieces[i] ELSE flatten[i - 1] \o pieces[i]]
      <3>1. \A i \in 1..n : r[i] = IF i = 1 THEN pieces[i] ELSE flatten[i - 1] \o pieces[i]
        OBVIOUS
      <3>2. flatten = r
        BY <1>5
      <3> HIDE DEF r
      <3> QED BY <3>1, <3>2
    <2>3. 0 \in U
      <3>1. flatten[1] = pieces[1]
        BY <1>0, <1>7, <2>2
      <3> QED BY <1>0, <1>7, <3>1
    <2>4. ASSUME NEW k \in U PROVE k + 1 \in U
      <3> SUFFICES ASSUME k + 2 <= n PROVE flatten[k + 2] \in Seq(S)
        BY <2>4
      <3>1. k \in Nat /\ flatten[k + 1] \in Seq(S) /\ k + 2 \in 1..n
        BY <1>0, <2>4
      <3>3. PICK j \in 1..n : j = k + 2 /\ j # 1 /\ j - 1 = k + 1
        BY <3>1
      <3>2. flatten[k + 2] = flatten[k + 1] \o pieces[k + 2] /\ pieces[k + 2] \in Seq(S)
        <4>1. flatten[j] = flatten[j - 1] \o pieces[j] /\ pieces[j] \in Seq(S)
          BY <1>0, <2>2, <3>3
        <4> QED BY <3>3, <4>1
      <3> QED BY <3>1, <3>2
    <2>5. n - 1 \in U
      <3>1. U \in SUBSET Nat /\ n - 1 \in Nat
        BY <1>0, <1>7
      <3> HIDE DEF U
      <3> QED BY <2>3, <2>4, <3>1, Upwards
    <2>6. flatten[n] \in Seq(S)
      BY <1>0, <1>7, <2>5
    <2> QED BY <2>1, <2>6
  <1> QED BY <1>6, <1>7

-----------------------------------------------------------------------------
(* The inductive invariant of the presses.                                 *)

Presses == [control : Controls, since : Nat]
FreshPackets ==
  {p \in [page : Nat, generation : Nat, sequence : Nat, active : BOOLEAN, presses : SUBSET Presses] :
     \A e \in p.presses : e.since = p.generation}

Entering == {"enable", "disable", "register"}
Asking == {"ready", "navigation", "cursor"}
Going == {"reset", "recheck", "invalidate", "cancel", "cancelPage", "remove", "disown", "close", "unload",
          "supersede", "release"}
PlainOps == [op : Entering \cup Going, view : Views]
RequestOps == [op : Asking, view : Views, page : Nat]
PointerOps == [op : {"pointer"}, view : Views, epoch : Nat, button : {"move", "down", "up"}]
PostOps == [op : {"post"}, view : Views, epoch : Nat, packet : FreshPackets]
FireOps == [op : {"fire"}, view : {NoView}, id : Nat]
GoingOps == [op : Going, view : Views]
Steps == {"supersede", "release", "pointer", "post", "fire"}
StepOps == [op : {"supersede", "release"}, view : Views] \cup PointerOps \cup PostOps \cup FireOps
Ops == PlainOps \cup RequestOps \cup PointerOps \cup PostOps \cup FireOps

ReleaseTasks == [kind : {"release"}, view : Views]
PointerTasks == [kind : {"pointer"}, view : Views, epoch : Nat, button : {"move", "down", "up"}]
PacketTasks == [kind : {"packet"}, view : Views, epoch : Nat, packet : FreshPackets]
Tasks == ReleaseTasks \cup PointerTasks \cup PacketTasks

RouteOf == [stage : {"idle", "look", "decide"}, epochs : [Views -> Nat], eligible : Views \cup {NoView},
            connected : BOOLEAN, canOpen : BOOLEAN]

Rest ==
  /\ entries \in [Views -> EntryOf] /\ shortcut \in [id : Nat, view : Views \cup {NoView}]
  /\ gamepad \in BOOLEAN /\ openerPending \in BOOLEAN /\ sequence \in Nat
  /\ valid \in [Views -> BOOLEAN] /\ focus \in Views \cup {NoView} /\ admitted \in Views \cup {NoView}
  /\ foreground \in BOOLEAN
  /\ doc \in [Views -> Nat \ {0}] /\ epoch \in [Views -> Nat] /\ work \in Nat
  /\ tasks \in Seq(Tasks) /\ todo \in [InputThreads -> Seq(Ops)]

\* Types, the device as the ledger knows it, and the pairing of the game.
PInv == Held01 /\ route \in RouteOf /\ Device /\ GamePaired /\ Rest

\* What a step that routes nothing keeps.
LEMMA Kept ==
  ASSUME PInv, UNCHANGED <<ledger, connected, shutdown, device>>, route' \in RouteOf, Rest'
  PROVE  PInv'
  BY DEF PInv, Held01, Device, GamePaired, RouteOf, device

LEMMA Losing ==
  ASSUME NEW v \in Views, NEW navigation \in BOOLEAN
  PROVE  Lost(v, navigation) \in Seq(GoingOps) /\ Lost(v, navigation) \in Seq(Ops)
  <1>1. Op("invalidate", v) \in GoingOps
    BY DEF Op, GoingOps, Going
  <1>2. [Op("cancel", v) EXCEPT !.op = IF navigation THEN "cancelPage" ELSE "cancel"] \in GoingOps
    BY DEF Op, GoingOps, Going
  <1>3. GoingOps \subseteq Ops
    BY DEF Ops, PlainOps, GoingOps
  <1> QED BY <1>1, <1>2, <1>3 DEF Lost

LEMMA Plain ==
  ASSUME NEW v \in Views, NEW name \in Entering \cup Going
  PROVE  Op(name, v) \in PlainOps /\ Op(name, v) \in Ops
  BY DEF Op, PlainOps, Ops

LEMMA Joined ==
  ASSUME NEW S, NEW s \in Seq(S), NEW t \in Seq(S)
  PROVE  s \o t \in Seq(S)
  OBVIOUS

LEMMA Rested ==
  ASSUME NEW s \in Seq(Ops), s # <<>>
  PROVE  Tail(s) \in Seq(Ops) /\ Head(s) \in Ops
  OBVIOUS

\* A call puts its program down.
LEMMA Began ==
  ASSUME PInv, NEW t \in Callers, NEW name, NEW program \in Seq(Ops), Begins(t, name, program)
  PROVE  todo' \in [InputThreads -> Seq(Ops)] /\ work' \in Nat
  BY DEF PInv, Rest, Begins, InputThreads

\* A step takes the head of its thread's program away.
LEMMA Did ==
  ASSUME PInv, NEW t \in InputThreads, todo[t] # <<>>
  PROVE  /\ Head(todo[t]) \in Ops
         /\ Done(t) => todo' \in [InputThreads -> Seq(Ops)]
         /\ Abandon(t) => todo' \in [InputThreads -> Seq(Ops)]
         /\ \A program \in Seq(Ops) : Instead(t, program) => todo' \in [InputThreads -> Seq(Ops)]
  <1>1. todo \in [InputThreads -> Seq(Ops)] /\ todo[t] \in Seq(Ops)
    BY DEF PInv, Rest
  <1>2. Tail(todo[t]) \in Seq(Ops) /\ Head(todo[t]) \in Ops
    BY <1>1, Rested
  <1>3. <<>> \in Seq(Ops)
    OBVIOUS
  <1>4. \A program \in Seq(Ops) : program \o Tail(todo[t]) \in Seq(Ops)
    BY <1>2, Joined
  <1> QED BY <1>1, <1>2, <1>3, <1>4 DEF Done, Abandon, Instead

LEMMA Doings ==
  ASSUME PInv, NEW t \in InputThreads, NEW name, Doing(t, name)
  PROVE  /\ todo[t] # <<>> /\ Head(todo[t]) \in Ops /\ Head(todo[t]).op = name
         /\ name # "fire" => View(t) \in Views
         /\ name \in Asking => Head(todo[t]).page \in Nat
         /\ name = "post" => Head(todo[t]).epoch \in Nat /\ Head(todo[t]).packet \in FreshPackets
         /\ name = "pointer" => Head(todo[t]).epoch \in Nat /\ Head(todo[t]).button \in {"move", "down", "up"}
         /\ name = "fire" => Head(todo[t]).id \in Nat
  <1>1. Head(todo[t]) \in Ops /\ Head(todo[t]).op = name /\ todo[t] # <<>>
    BY Did DEF Doing
  <1>2. PICK o \in Ops : o = Head(todo[t])
    BY <1>1
  <1>3. /\ o.op # "fire" => o.view \in Views
        /\ o.op \in Asking => o.page \in Nat
        /\ o.op = "post" => o.epoch \in Nat /\ o.packet \in FreshPackets
        /\ o.op = "pointer" => o.epoch \in Nat /\ o.button \in {"move", "down", "up"}
        /\ o.op = "fire" => o.id \in Nat
    <2>1. CASE o \in PlainOps
      BY <2>1 DEF PlainOps, Entering, Going, Asking
    <2>2. CASE o \in RequestOps
      BY <2>2 DEF RequestOps, Asking
    <2>3. CASE o \in PointerOps
      BY <2>3 DEF PointerOps, Asking
    <2>4. CASE o \in PostOps
      BY <2>4 DEF PostOps, Asking
    <2>5. CASE o \in FireOps
      BY <2>5 DEF FireOps, Asking
    <2> QED BY <2>1, <2>2, <2>3, <2>4, <2>5 DEF Ops
  <1> QED BY <1>1, <1>2, <1>3 DEF View

-----------------------------------------------------------------------------
(* The calls keep it.                                                      *)

LEMMA KeptConfigure ==
  ASSUME PInv, NEW t \in Callers, NEW v \in Views, NEW enabled \in BOOLEAN, Configure(t, v, enabled)
  PROVE  PInv'
  <1> DEFINE program == <<Op(IF enabled THEN "enable" ELSE "disable", v), Op("reset", v), Op("recheck", v)>>
  <1>1. program \in Seq(Ops)
    BY Plain DEF Entering, Going
  <1>2. Begins(t, "configure", program) /\ UNCHANGED <<service, browser, delivery, opening, device, route>>
    BY DEF Configure
  <1> HIDE DEF program
  <1>3. todo' \in [InputThreads -> Seq(Ops)] /\ work' \in Nat
    BY <1>1, <1>2, Began
  <1>4. Rest' /\ route' \in RouteOf
    BY <1>2, <1>3 DEF PInv, Rest, service, browser, delivery, opening
  <1> QED BY <1>2, <1>4, Kept DEF service

LEMMA KeptRegisterShortcut ==
  ASSUME PInv, NEW t \in Callers, NEW v \in Views, RegisterShortcut(t, v)
  PROVE  PInv'
  <1> DEFINE program == <<Op("register", v), Op("recheck", v)>>
  <1>1. program \in Seq(Ops)
    BY Plain DEF Entering, Going
  <1>2. Begins(t, "register", program) /\ UNCHANGED <<service, browser, delivery, opening, device, route>>
    BY DEF RegisterShortcut
  <1> HIDE DEF program
  <1>3. todo' \in [InputThreads -> Seq(Ops)] /\ work' \in Nat
    BY <1>1, <1>2, Began
  <1>4. Rest' /\ route' \in RouteOf
    BY <1>2, <1>3 DEF PInv, Rest, service, browser, delivery, opening
  <1> QED BY <1>2, <1>4, Kept DEF service

LEMMA KeptUnregisterShortcut ==
  ASSUME PInv, NEW t \in Callers, UnregisterShortcut(t)
  PROVE  PInv'
  <1>1. <<>> \in Seq(Ops) /\ NoShortcut \in [id : Nat, view : Views \cup {NoView}]
    BY DEF NoShortcut
  <1>2. /\ Begins(t, "unregister", <<>>) /\ shortcut' = NoShortcut
        /\ UNCHANGED <<ledger, entries, connected, gamepad, openerPending, shutdown, sequence, drawCursor,
                       browser, delivery, opening, device, route>>
    BY DEF UnregisterShortcut
  <1>3. todo' \in [InputThreads -> Seq(Ops)] /\ work' \in Nat
    BY <1>1, <1>2, Began
  <1>4. Rest' /\ route' \in RouteOf
    BY <1>1, <1>2, <1>3 DEF PInv, Rest, browser, delivery, opening
  <1> QED BY <1>2, <1>4, Kept

LEMMA KeptPageRequest ==
  ASSUME PInv, NEW v \in Views, NEW request \in Asking, NEW d \in {doc[v], doc[v] - 1}, PageRequest(v, request, d)
  PROVE  PInv'
  <1> DEFINE first == [op |-> request, view |-> v, page |-> d]
             program == <<first, Op("recheck", v)>>
  <1>0. "ui" \in Callers
    BY InputAssumption DEF Callers
  <1>1. d \in Nat
    <2>1. doc[v] \in Nat \ {0}
      BY DEF PInv, Rest, PageRequest
    <2> QED BY <2>1
  <1>2. first \in Ops
    BY <1>1 DEF Ops, RequestOps
  <1>3. program \in Seq(Ops)
    BY <1>2, Plain DEF Entering, Going
  <1>4. Begins("ui", "page", program) /\ UNCHANGED <<service, browser, delivery, opening, device, route>>
    BY DEF PageRequest
  <1> HIDE DEF program
  <1>5. todo' \in [InputThreads -> Seq(Ops)] /\ work' \in Nat
    BY <1>0, <1>3, <1>4, Began
  <1>6. Rest' /\ route' \in RouteOf
    BY <1>4, <1>5 DEF PInv, Rest, service, browser, delivery, opening
  <1> QED BY <1>4, <1>6, Kept DEF service

LEMMA KeptDestroyView ==
  ASSUME PInv, NEW t \in Callers, NEW v \in Views, DestroyView(t, v)
  PROVE  PInv'
  <1> DEFINE program == <<Op("remove", v), Op("disown", v)>> \o Lost(v, TRUE) \o <<Op("close", v)>>
  <1>1. program \in Seq(Ops)
    <2>1. <<Op("remove", v), Op("disown", v)>> \in Seq(Ops) /\ <<Op("close", v)>> \in Seq(Ops)
      BY Plain DEF Entering, Going
    <2>2. Lost(v, TRUE) \in Seq(Ops)
      BY Losing
    <2> QED BY <2>1, <2>2, Joined
  <1>2. /\ Begins(t, "destroy", program) /\ valid' = [valid EXCEPT ![v] = FALSE]
        /\ UNCHANGED <<service, focus, foreground, loaded, doc, closing, delivery, opening, device, route>>
    BY DEF DestroyView
  <1> HIDE DEF program
  <1>3. todo' \in [InputThreads -> Seq(Ops)] /\ work' \in Nat
    BY <1>1, <1>2, Began
  <1>4. Rest' /\ route' \in RouteOf
    BY <1>2, <1>3 DEF PInv, Rest, service, delivery, opening
  <1> QED BY <1>2, <1>4, Kept DEF service

LEMMA KeptClaim ==
  ASSUME PInv, NEW t \in Callers, NEW v \in Views, ClaimFocus(t, v)
  PROVE  PInv'
  <1> DEFINE left == IF focus = NoView THEN <<>> ELSE Lost(focus, FALSE)
             program == left \o <<Op("invalidate", v)>>
  <1>1. program \in Seq(Ops)
    <2>1. <<Op("invalidate", v)>> \in Seq(Ops)
      BY Plain DEF Entering, Going
    <2>2. left \in Seq(Ops)
      <3>1. CASE focus = NoView
        BY <3>1
      <3>2. CASE focus # NoView
        BY <3>2, Losing DEF PInv, Rest
      <3> QED BY <3>1, <3>2
    <2> HIDE DEF left
    <2> QED BY <2>1, <2>2, Joined
  <1>2. /\ Begins(t, "claim", program) /\ focus' = v
        /\ UNCHANGED <<service, valid, foreground, loaded, doc, closing, delivery, opening, device, route>>
    BY DEF ClaimFocus
  <1> HIDE DEF program
  <1>3. todo' \in [InputThreads -> Seq(Ops)] /\ work' \in Nat
    BY <1>1, <1>2, Began
  <1>4. Rest' /\ route' \in RouteOf
    BY <1>2, <1>3 DEF PInv, Rest, service, delivery, opening
  <1> QED BY <1>2, <1>4, Kept DEF service

LEMMA KeptRelease ==
  ASSUME PInv, NEW t \in Callers, ReleaseFocus(t)
  PROVE  PInv'
  <1>1. Lost(focus, FALSE) \in Seq(Ops)
    BY Losing DEF PInv, Rest, ReleaseFocus
  <1>2. /\ Begins(t, "release", Lost(focus, FALSE)) /\ focus' = NoView
        /\ UNCHANGED <<service, valid, foreground, loaded, doc, closing, delivery, opening, device, route>>
    BY DEF ReleaseFocus
  <1>3. todo' \in [InputThreads -> Seq(Ops)] /\ work' \in Nat
    BY <1>1, <1>2, Began
  <1>4. Rest' /\ route' \in RouteOf
    BY <1>2, <1>3 DEF PInv, Rest, service, delivery, opening
  <1> QED BY <1>2, <1>4, Kept DEF service

LEMMA KeptMainFrameLoadStart ==
  ASSUME PInv, NEW v \in Views, NEW crashed \in BOOLEAN, MainFrameLoadStart(v, crashed)
  PROVE  PInv'
  <1> DEFINE crash == IF crashed THEN <<Op("disown", v)>> ELSE <<>>
             program == Lost(v, TRUE) \o crash \o <<Op("unload", v)>>
  <1>0. "ui" \in Callers
    BY InputAssumption DEF Callers
  <1>1. program \in Seq(Ops)
    <2>1. crash \in Seq(Ops) /\ <<Op("unload", v)>> \in Seq(Ops)
      BY Plain DEF Entering, Going
    <2>2. Lost(v, TRUE) \in Seq(Ops)
      BY Losing
    <2> HIDE DEF crash
    <2> QED BY <2>1, <2>2, Joined
  <1>2. /\ Begins("ui", "page", program) /\ doc' = [doc EXCEPT ![v] = doc[v] + 1]
        /\ UNCHANGED <<service, valid, focus, foreground, loaded, closing, delivery, opening, device, route>>
    BY DEF MainFrameLoadStart
  <1> HIDE DEF program
  <1>3. todo' \in [InputThreads -> Seq(Ops)] /\ work' \in Nat
    BY <1>0, <1>1, <1>2, Began
  <1>4. Rest' /\ route' \in RouteOf
    BY <1>2, <1>3 DEF PInv, Rest, service, delivery, opening
  <1> QED BY <1>2, <1>4, Kept DEF service

LEMMA KeptWindowInactive ==
  ASSUME PInv, NEW t \in Callers, WindowInactive(t)
  PROVE  PInv'
  <1> DEFINE pieces == {Lost(v, FALSE) : v \in Views}
             program == FlattenSeq(SetToSeq(pieces))
  <1>1. program \in Seq(Ops)
    <2>1. IsFiniteSet(pieces)
      <3> DEFINE f == [v \in Views |-> Lost(v, FALSE)]
      <3>1. f \in Surjection(Views, pieces)
        BY DEF Surjection
      <3> QED BY <3>1, InputAssumption, FS_Surjection
    <2>2. pieces \subseteq Seq(Ops)
      BY Losing
    <2> HIDE DEF pieces
    <2>3. SetToSeq(pieces) \in Seq(pieces)
      BY <2>1, Listing
    <2>4. SetToSeq(pieces) \in Seq(Seq(Ops))
      BY <2>2, <2>3
    <2> QED BY <2>4, Joining
  <1>2. /\ Begins(t, "window", program) /\ foreground' = FALSE
        /\ UNCHANGED <<service, valid, focus, loaded, doc, closing, delivery, opening, device, route>>
    BY DEF WindowInactive
  <1> HIDE DEF program
  <1>3. todo' \in [InputThreads -> Seq(Ops)] /\ work' \in Nat
    BY <1>1, <1>2, Began
  <1>4. Rest' /\ route' \in RouteOf
    BY <1>2, <1>3 DEF PInv, Rest, service, delivery, opening
  <1> QED BY <1>2, <1>4, Kept DEF service

\* The window's return and the end of a load move nothing that matters here.
LEMMA KeptArrivals ==
  ASSUME PInv, (\E t \in Callers : WindowActive(t)) \/ (\E v \in Views : MainFrameLoadEnd(v))
  PROVE  PInv'
  <1>1. UNCHANGED <<service, valid, focus, doc, delivery, opening, device, route, todo, work>> /\ foreground' \in BOOLEAN
    BY DEF WindowActive, MainFrameLoadEnd, PInv, Rest
  <1>2. Rest' /\ route' \in RouteOf
    BY <1>1 DEF PInv, Rest, service, delivery, opening
  <1> QED BY <1>1, <1>2, Kept DEF service

LEMMA Forgotten ==
  ASSUME NEW l \in Ledger(Views), l = ledger, Device
  PROVE  /\ SetOwner(l, NoView) \in Ledger(Views)
         /\ ~shutdown => \A c \in Controls :
              /\ SetOwner(l, NoView).value[c] = phys[c]
              /\ phys[c] = 1 /\ ~SetOwner(l, NoView).blocked[c] => since[c] = SetOwner(l, NoView).generation
              /\ game[c] = 1 => SetOwner(l, NoView).gameDown[c]
  <1>1. NoView \in Views \cup {NoView}
    OBVIOUS
  <1>2. /\ SetOwner(l, NoView) \in Ledger(Views)
        /\ SetOwner(l, NoView).value = l.value /\ SetOwner(l, NoView).gameDown = l.gameDown
        /\ SetOwner(l, NoView) = l \/ \A c \in Controls : l.value[c] = 1 => SetOwner(l, NoView).blocked[c]
    BY <1>1, Owning
  <1> QED BY <1>2 DEF Device

\* A step that at most takes the ownership away keeps it.
LEMMA Disowned ==
  ASSUME PInv, ledger' = ledger \/ ledger' = SetOwner(ledger, NoView),
         UNCHANGED <<connected, shutdown, device>>, route' \in RouteOf, Rest'
  PROVE  PInv'
  <1>1. CASE ledger' = ledger
    BY <1>1, Kept
  <1>2. CASE ledger' = SetOwner(ledger, NoView)
    <2> DEFINE l == SetOwner(ledger, NoView)
    <2>1. ledger \in Ledger(Views) /\ Device
      BY DEF PInv, Held01
    <2>2. /\ l \in Ledger(Views)
          /\ ~shutdown => \A c \in Controls :
               /\ l.value[c] = phys[c]
               /\ phys[c] = 1 /\ ~l.blocked[c] => since[c] = l.generation
               /\ game[c] = 1 => l.gameDown[c]
      BY <2>1, Forgotten
    <2> HIDE DEF l
    <2>3. ledger' = l
      BY <1>2 DEF l
    <2>4. Device'
      BY <2>1, <2>2, <2>3 DEF Device, device
    <2> QED BY <2>2, <2>3, <2>4 DEF PInv, Held01, GamePaired, RouteOf, device
  <1> QED BY <1>1, <1>2

LEMMA Entered ==
  ASSUME PInv, NEW v \in Views
  PROVE  Entry(v) \in EntryOf /\ Absent \in EntryOf
  <1>1. Absent \in EntryOf
    BY DEF Absent, EntryOf, Modes
  <1>2. NewEntry \in EntryOf
    BY DEF NewEntry, Absent, EntryOf, Modes
  <1>3. entries[v] \in EntryOf
    BY DEF PInv, Rest
  <1> QED BY <1>1, <1>2, <1>3 DEF Entry

LEMMA KeptSetConfig ==
  ASSUME PInv, NEW t \in InputThreads, SetConfig(t)
  PROVE  PInv'
  <1>1. PICK enabled \in BOOLEAN :
          /\ Doing(t, IF enabled THEN "enable" ELSE "disable")
          /\ Reconfigure(t, View(t), [Entry(View(t)) EXCEPT !.enabled = enabled, !.mode = DefaultMode[View(t)], !.dirty = TRUE])
    BY DEF SetConfig
  <1>2. View(t) \in Views /\ todo[t] # <<>>
    BY <1>1, Doings
  <1> DEFINE e == [Entry(View(t)) EXCEPT !.enabled = enabled, !.mode = DefaultMode[View(t)], !.dirty = TRUE]
  <1>3. e \in EntryOf
    <2>1. DefaultMode[View(t)] \in Modes
      BY <1>2, InputAssumption DEF Modes
    <2>2. Entry(View(t)) \in EntryOf
      BY <1>2, Entered
    <2> QED BY <2>1, <2>2 DEF EntryOf
  <1> HIDE DEF e
  <1>4. Reconfigure(t, View(t), e)
    BY <1>1 DEF e
  <1>5. todo' \in [InputThreads -> Seq(Ops)]
    BY <1>2, <1>4, Did DEF Reconfigure
  <1>6. entries' \in [Views -> EntryOf]
    BY <1>2, <1>3, <1>4 DEF Reconfigure, PInv, Rest
  <1>7. UNCHANGED <<ledger, shortcut, connected, gamepad, openerPending, shutdown, sequence, drawCursor,
                   browser, delivery, opening, device, route, work>>
    BY DEF SetConfig
  <1>8. Rest' /\ route' \in RouteOf
    BY <1>5, <1>6, <1>7 DEF PInv, Rest, browser, delivery, opening
  <1> QED BY <1>7, <1>8, Kept

LEMMA KeptPageReady ==
  ASSUME PInv, NEW t \in InputThreads, PageReady(t)
  PROVE  PInv'
  <1>1. Doing(t, "ready")
    BY DEF PageReady
  <1>2. View(t) \in Views /\ todo[t] # <<>> /\ Head(todo[t]).page \in Nat
    BY <1>1, Doings DEF Asking
  <1>3. todo' \in [InputThreads -> Seq(Ops)]
    BY <1>2, Did DEF PageReady
  <1>4. entries' \in [Views -> EntryOf]
    <2>1. Entry(View(t)) \in EntryOf
      BY <1>2, Entered
    <2>2. [Entry(View(t)) EXCEPT !.page = Head(todo[t]).page, !.dirty = TRUE] \in EntryOf
      BY <1>2, <2>1 DEF EntryOf
    <2>3. entries' = entries \/ entries' = [entries EXCEPT ![View(t)] = [Entry(View(t)) EXCEPT !.page = Head(todo[t]).page, !.dirty = TRUE]]
      BY DEF PageReady
    <2> QED BY <2>2, <2>3 DEF PInv, Rest
  <1>5. UNCHANGED <<ledger, shortcut, connected, gamepad, openerPending, shutdown, sequence, drawCursor,
                   browser, delivery, opening, device, route, work>>
    BY DEF PageReady
  <1>6. Rest' /\ route' \in RouteOf
    BY <1>3, <1>4, <1>5 DEF PInv, Rest, browser, delivery, opening
  <1> QED BY <1>5, <1>6, Kept

LEMMA KeptPageMode ==
  ASSUME PInv, NEW t \in InputThreads, PageMode(t)
  PROVE  PInv'
  <1> DEFINE v == View(t)
             e == Entry(v)
  <1>1. PICK m \in {"navigation", "cursor"} :
          /\ Doing(t, m)
          /\ \/ shutdown /\ Abandon(t) /\ entries' = entries
             \/ ~shutdown /\ e.page # Head(todo[t]).page /\ Done(t) /\ entries' = [entries EXCEPT ![v] = e]
             \/ ~shutdown /\ e.page = Head(todo[t]).page /\ ~e.enabled /\ Abandon(t) /\ entries' = entries
             \/ ~shutdown /\ e.page = Head(todo[t]).page /\ e.enabled /\ Instead(t, <<Op("reset", v)>>)
                /\ entries' = [entries EXCEPT ![v] = [e EXCEPT !.mode = m, !.dirty = TRUE]]
    BY Zenon DEF PageMode
  <1>2. v \in Views /\ todo[t] # <<>>
    BY <1>1, Doings
  <1>3. e \in EntryOf /\ m \in Modes
    BY <1>2, Entered DEF Modes
  <1>4. [e EXCEPT !.mode = m, !.dirty = TRUE] \in EntryOf
    BY <1>3 DEF EntryOf
  <1>5. <<Op("reset", v)>> \in Seq(Ops)
    BY <1>2, Plain DEF Entering, Going
  <1> HIDE DEF v, e
  <1>6. Abandon(t) \/ Done(t) \/ Instead(t, <<Op("reset", v)>>)
    BY <1>1
  <1>7. todo' \in [InputThreads -> Seq(Ops)]
    BY <1>2, <1>5, <1>6, Did
  <1>8. entries' = entries \/ entries' = [entries EXCEPT ![v] = e] \/ entries' = [entries EXCEPT ![v] = [e EXCEPT !.mode = m, !.dirty = TRUE]]
    BY <1>1
  <1>9. entries' \in [Views -> EntryOf]
    BY <1>2, <1>3, <1>4, <1>8 DEF PInv, Rest
  <1>10. UNCHANGED <<ledger, shortcut, connected, gamepad, openerPending, shutdown, sequence, drawCursor,
                   browser, delivery, opening, device, route, work>>
    BY DEF PageMode
  <1>11. Rest' /\ route' \in RouteOf
    BY <1>7, <1>9, <1>10 DEF PInv, Rest, browser, delivery, opening
  <1> QED BY <1>10, <1>11, Kept

LEMMA KeptRegister ==
  ASSUME PInv, NEW t \in InputThreads, Register(t)
  PROVE  PInv'
  <1>1. View(t) \in Views /\ todo[t] # <<>>
    BY Doings DEF Register
  <1>2. todo' \in [InputThreads -> Seq(Ops)]
    BY <1>1, Did DEF Register
  <1>3. shortcut' \in [id : Nat, view : Views \cup {NoView}]
    <2>1. [id |-> work + 1, view |-> View(t)] \in [id : Nat, view : Views \cup {NoView}]
      BY <1>1 DEF PInv, Rest
    <2> QED BY <2>1 DEF Register, PInv, Rest
  <1>4. UNCHANGED <<ledger, entries, connected, gamepad, openerPending, shutdown, sequence, drawCursor,
                   browser, delivery, opening, device, route, work>>
    BY DEF Register
  <1>5. Rest' /\ route' \in RouteOf
    BY <1>2, <1>3, <1>4 DEF PInv, Rest, browser, delivery, opening
  <1> QED BY <1>4, <1>5, Kept

LEMMA Forgetting ==
  ASSUME PInv, NEW v \in Views, ForgetView(v)
  PROVE  /\ entries' \in [Views -> EntryOf] /\ shortcut' \in [id : Nat, view : Views \cup {NoView}]
         /\ ledger' = ledger \/ ledger' = SetOwner(ledger, NoView)
  <1>1. Absent \in EntryOf /\ NoShortcut \in [id : Nat, view : Views \cup {NoView}]
    BY Entered DEF NoShortcut
  <1> QED BY <1>1 DEF ForgetView, PInv, Rest

LEMMA KeptRemoveView ==
  ASSUME PInv, NEW t \in InputThreads, RemoveView(t) \/ Recheck(t)
  PROVE  PInv'
  <1>1. View(t) \in Views /\ todo[t] # <<>> /\ Done(t)
    <2>1. CASE RemoveView(t)
      BY <2>1, Doings DEF RemoveView
    <2>2. CASE Recheck(t)
      BY <2>2, Doings DEF Recheck
    <2> QED BY <2>1, <2>2
  <1>2. ForgetView(View(t)) \/ UNCHANGED <<entries, shortcut, ledger>>
    BY DEF RemoveView, Recheck
  <1>3. /\ entries' \in [Views -> EntryOf] /\ shortcut' \in [id : Nat, view : Views \cup {NoView}]
        /\ ledger' = ledger \/ ledger' = SetOwner(ledger, NoView)
    <2>1. CASE ForgetView(View(t))
      BY <1>1, <2>1, Forgetting
    <2>2. CASE UNCHANGED <<entries, shortcut, ledger>>
      BY <2>2 DEF PInv, Rest
    <2> QED BY <1>2, <2>1, <2>2
  <1>4. todo' \in [InputThreads -> Seq(Ops)]
    BY <1>1, Did
  <1>5. UNCHANGED <<connected, gamepad, openerPending, shutdown, sequence, drawCursor,
                   browser, delivery, opening, device, route, work>>
    BY DEF RemoveView, Recheck
  <1>6. Rest' /\ route' \in RouteOf
    BY <1>3, <1>4, <1>5 DEF PInv, Rest, browser, delivery, opening
  <1> QED BY <1>3, <1>5, <1>6, Disowned

LEMMA KeptGoAway ==
  ASSUME PInv, NEW t \in InputThreads, GoAway(t)
  PROVE  PInv'
  <1>1. View(t) \in Views /\ todo[t] # <<>>
    <2>1. CASE Doing(t, "close")
      BY <2>1, Doings
    <2>2. CASE Doing(t, "disown")
      BY <2>2, Doings
    <2> QED BY <2>1, <2>2 DEF GoAway
  <1>2. Lost(View(t), FALSE) \in Seq(Ops)
    BY <1>1, Losing
  <1>3. (focus' = NoView /\ Instead(t, Lost(View(t), FALSE))) \/ (focus' = focus /\ Done(t))
    BY DEF GoAway
  <1>4. todo' \in [InputThreads -> Seq(Ops)]
    BY <1>1, <1>2, <1>3, Did
  <1>5. UNCHANGED <<service, valid, foreground, loaded, doc, delivery, opening, device, route, work>>
    BY DEF GoAway
  <1>6. Rest' /\ route' \in RouteOf
    BY <1>3, <1>4, <1>5 DEF PInv, Rest, service, delivery, opening
  <1> QED BY <1>5, <1>6, Kept DEF service

LEMMA KeptUnload ==
  ASSUME PInv, NEW t \in InputThreads, Unload(t)
  PROVE  PInv'
  <1>1. todo[t] # <<>> /\ Done(t)
    BY DEF Unload, Doing
  <1>2. todo' \in [InputThreads -> Seq(Ops)]
    BY <1>1, Did
  <1>3. UNCHANGED <<service, valid, focus, foreground, doc, closing, delivery, opening, device, route, work>>
    BY DEF Unload
  <1>4. Rest' /\ route' \in RouteOf
    BY <1>2, <1>3 DEF PInv, Rest, service, delivery, opening
  <1> QED BY <1>3, <1>4, Kept DEF service

-----------------------------------------------------------------------------
(* The deliveries keep it.                                                 *)

LEMMA Queueing ==
  ASSUME PInv, NEW v \in Views, QueueRelease(v) \/ UNCHANGED <<releaseQueued, tasks>>
  PROVE  tasks' \in Seq(Tasks)
  <1>1. [kind |-> "release", view |-> v] \in Tasks
    BY DEF Tasks, ReleaseTasks
  <1>2. tasks \in Seq(Tasks)
    BY DEF PInv, Rest
  <1>3. Append(tasks, [kind |-> "release", view |-> v]) \in Seq(Tasks)
    BY <1>1, <1>2
  <1> QED BY <1>2, <1>3 DEF QueueRelease

LEMMA Sending ==
  ASSUME PInv, NEW v \in Views, NEW task \in Tasks,
         Send(v, task) \/ Enqueue(v, task) \/ UNCHANGED <<epoch, pending, releaseQueued, tasks, lost>>
  PROVE  tasks' \in Seq(Tasks) /\ epoch' \in [Views -> Nat]
  <1>1. tasks \in Seq(Tasks) /\ epoch \in [Views -> Nat]
    BY DEF PInv, Rest
  <1>2. Append(tasks, task) \in Seq(Tasks)
    BY <1>1
  <1>3. CASE QueueRelease(v) /\ epoch' = [epoch EXCEPT ![v] = epoch[v] + 1]
    BY <1>1, <1>3, Queueing
  <1>4. CASE tasks' = Append(tasks, task) /\ epoch' = epoch
    BY <1>1, <1>2, <1>4
  <1>5. CASE UNCHANGED <<epoch, tasks>>
    BY <1>1, <1>5
  <1> QED BY <1>3, <1>4, <1>5 DEF Send, Enqueue

LEMMA KeptInvalidate ==
  ASSUME PInv, NEW t \in InputThreads, Invalidate(t)
  PROVE  PInv'
  <1>1. View(t) \in Views /\ todo[t] # <<>> /\ Done(t)
    <2>1. CASE Doing(t, "invalidate")
      BY <2>1, Doings DEF Invalidate
    <2>2. CASE Doing(t, "reset")
      BY <2>2, Doings DEF Invalidate
    <2> QED BY <2>1, <2>2 DEF Invalidate
  <1>2. todo' \in [InputThreads -> Seq(Ops)]
    BY <1>1, Did
  <1>3. tasks' \in Seq(Tasks)
    BY <1>1, Queueing DEF Invalidate
  <1>4. epoch' \in [Views -> Nat]
    BY <1>1 DEF Invalidate, PInv, Rest
  <1>5. UNCHANGED <<service, browser, opening, device, route, work>>
    BY DEF Invalidate
  <1>6. Rest' /\ route' \in RouteOf
    BY <1>2, <1>3, <1>4, <1>5 DEF PInv, Rest, service, browser, opening
  <1> QED BY <1>5, <1>6, Kept DEF service

LEMMA KeptSupersede ==
  ASSUME PInv, Supersede
  PROVE  PInv'
  <1>0. "input" \in InputThreads
    BY DEF InputThreads
  <1> DEFINE v == View("input")
             s == todo["input"]
             n == epoch[v] + 1
             readdressed == [i \in 1..(Len(s) - 1) |-> Readdressed(s[i + 1], v, n)]
  <1>1. v \in Views /\ s # <<>>
    BY <1>0, Doings DEF Supersede
  <1>2. s \in Seq(Ops) /\ n \in Nat
    BY <1>0, <1>1 DEF PInv, Rest
  <1>3. readdressed \in Seq(Ops)
    <2>1. \A op \in Ops : Readdressed(op, v, n) \in Ops
      <3> TAKE op \in Ops
      <3>1. CASE op.op # "post"
        BY <3>1 DEF Readdressed
      <3>2. CASE op.op = "post"
        <4>1. op \in PostOps
          BY <3>2 DEF Ops, PlainOps, RequestOps, PointerOps, FireOps, Entering, Going, Asking
        <4>2. [op EXCEPT !.epoch = n] \in PostOps
          BY <1>2, <4>1 DEF PostOps
        <4> QED BY <4>2 DEF Readdressed, Ops
      <3> QED BY <3>1, <3>2
    <2>2. Len(s) - 1 \in Nat /\ \A i \in 1..(Len(s) - 1) : s[i + 1] \in Ops
      BY <1>1, <1>2
    <2> HIDE DEF s, v, n
    <2>3. readdressed \in [1..(Len(s) - 1) -> Ops]
      BY <2>1, <2>2
    <2> HIDE DEF readdressed
    <2> QED BY <2>2, <2>3
  <1>4. todo' = [todo EXCEPT !["input"] = readdressed]
    BY Zenon DEF Supersede
  <1>5. todo' \in [InputThreads -> Seq(Ops)]
    <2> HIDE DEF readdressed
    <2> QED BY <1>3, <1>4 DEF PInv, Rest
  <1>6. tasks' \in Seq(Tasks)
    BY <1>1, Queueing DEF Supersede
  <1>7. epoch' \in [Views -> Nat]
    BY <1>1, <1>2 DEF Supersede, PInv, Rest
  <1>8. UNCHANGED <<service, browser, opening, device, route, work>>
    BY DEF Supersede
  <1>9. Rest' /\ route' \in RouteOf
    BY <1>5, <1>6, <1>7, <1>8 DEF PInv, Rest, service, browser, opening
  <1> QED BY <1>8, <1>9, Kept DEF service

LEMMA KeptReleasePointer ==
  ASSUME PInv, NEW t \in InputThreads, ReleasePointer(t)
  PROVE  PInv'
  <1>1. View(t) \in Views /\ todo[t] # <<>> /\ Done(t)
    BY Doings DEF ReleasePointer
  <1>2. todo' \in [InputThreads -> Seq(Ops)]
    BY <1>1, Did
  <1>3. tasks' \in Seq(Tasks)
    BY <1>1, Queueing DEF ReleasePointer
  <1>4. UNCHANGED <<service, browser, epoch, opening, device, route, work>>
    BY DEF ReleasePointer
  <1>5. Rest' /\ route' \in RouteOf
    BY <1>2, <1>3, <1>4 DEF PInv, Rest, service, browser, opening
  <1> QED BY <1>4, <1>5, Kept DEF service

LEMMA KeptSendControllerPacket ==
  ASSUME PInv, NEW t \in InputThreads, SendControllerPacket(t)
  PROVE  PInv'
  <1> DEFINE op == Head(todo[t])
             task == [kind |-> "packet", view |-> op.view, epoch |-> op.epoch, packet |-> op.packet]
  <1>1. op.view \in Views /\ op.epoch \in Nat /\ op.packet \in FreshPackets /\ todo[t] # <<>> /\ Done(t)
    BY Doings DEF SendControllerPacket, View
  <1>2. task \in Tasks
    BY <1>1 DEF Tasks, PacketTasks
  <1>3. Send(op.view, task)
    BY DEF SendControllerPacket
  <1>4. todo' \in [InputThreads -> Seq(Ops)]
    BY <1>1, Did
  <1> HIDE DEF task
  <1>5. tasks' \in Seq(Tasks) /\ epoch' \in [Views -> Nat]
    BY <1>1, <1>2, <1>3, Sending
  <1>6. UNCHANGED <<service, browser, opening, device, route, work>>
    BY DEF SendControllerPacket
  <1>7. Rest' /\ route' \in RouteOf
    BY <1>4, <1>5, <1>6 DEF PInv, Rest, service, browser, opening
  <1> QED BY <1>6, <1>7, Kept DEF service

LEMMA KeptControllerPointer ==
  ASSUME PInv, NEW t \in InputThreads, ControllerPointer(t)
  PROVE  PInv'
  <1> DEFINE op == Head(todo[t])
             task == [kind |-> "pointer", view |-> op.view, epoch |-> op.epoch, button |-> op.button]
  <1>1. op.view \in Views /\ op.epoch \in Nat /\ op.button \in {"move", "down", "up"} /\ todo[t] # <<>> /\ Done(t)
    BY Doings DEF ControllerPointer, View
  <1>2. task \in Tasks
    BY <1>1 DEF Tasks, PointerTasks
  <1>3. Enqueue(op.view, task) \/ UNCHANGED <<epoch, pending, releaseQueued, tasks, lost>>
    BY DEF ControllerPointer
  <1>4. todo' \in [InputThreads -> Seq(Ops)]
    BY <1>1, Did
  <1> HIDE DEF task
  <1>5. tasks' \in Seq(Tasks) /\ epoch' \in [Views -> Nat]
    BY <1>1, <1>2, <1>3, Sending
  <1>6. UNCHANGED <<service, browser, opening, device, route, work>>
    BY DEF ControllerPointer
  <1>7. Rest' /\ route' \in RouteOf
    BY <1>4, <1>5, <1>6 DEF PInv, Rest, service, browser, opening
  <1> QED BY <1>6, <1>7, Kept DEF service

LEMMA KeptCancelBrowser ==
  ASSUME PInv, NEW t \in InputThreads, CancelBrowser(t)
  PROVE  PInv'
  <1> DEFINE v == View(t)
             e == entries[v]
             led == IF ledger.owner = v THEN SetOwner(ledger, NoView) ELSE ledger
             packet == [page |-> e.page, generation |-> led.generation, sequence |-> sequence + 1,
                        active |-> FALSE, presses |-> {}]
             task == [kind |-> "packet", view |-> v, epoch |-> epoch[v], packet |-> packet]
             left(page_) == [e EXCEPT !.dirty = TRUE, !.epoch = 0, !.page = page_]
  <1>1. PICK navigation \in BOOLEAN :
          /\ Doing(t, IF navigation THEN "cancelPage" ELSE "cancel")
          /\ IF e = Absent THEN UNCHANGED <<ledger, entries>>
             ELSE /\ ledger' = led
                  /\ entries' = [entries EXCEPT ![v] = left(IF navigation THEN 0 ELSE e.page)]
          /\ IF e.page = 0 THEN UNCHANGED <<sequence, epoch, pending, releaseQueued, tasks, lost>>
             ELSE sequence' = sequence + 1 /\ Send(v, task)
    BY Zenon DEF CancelBrowser
  <1>2. v \in Views /\ todo[t] # <<>>
    BY <1>1, Doings
  <1>3. todo' \in [InputThreads -> Seq(Ops)]
    BY <1>2, Did DEF CancelBrowser
  <1>4. ledger \in Ledger(Views) /\ entries \in [Views -> EntryOf] /\ sequence \in Nat /\ epoch \in [Views -> Nat]
    BY DEF PInv, Held01, Rest
  <1>5. led.generation \in Nat
    <2>1. NoView \in Views \cup {NoView}
      OBVIOUS
    <2>2. SetOwner(ledger, NoView) \in Ledger(Views)
      BY <1>4, <2>1, Owning
    <2> QED BY <1>4, <2>2 DEF Ledger
  <1>6. e \in EntryOf
    BY <1>2, <1>4
  <1> HIDE DEF led, v, e
  <1>7. packet \in FreshPackets
    BY <1>4, <1>5, <1>6 DEF FreshPackets, EntryOf
  <1> HIDE DEF packet
  <1>8. task \in Tasks
    BY <1>2, <1>4, <1>7 DEF Tasks, PacketTasks
  <1> HIDE DEF task
  <1>9. /\ tasks' \in Seq(Tasks) /\ epoch' \in [Views -> Nat] /\ sequence' \in Nat
    <2>1. Send(v, task) \/ UNCHANGED <<epoch, pending, releaseQueued, tasks, lost>>
      BY <1>1
    <2>2. sequence' = sequence \/ sequence' = sequence + 1
      BY <1>1
    <2> QED BY <1>2, <1>4, <1>8, <2>1, <2>2, Sending
  <1>10. \A n \in Nat : left(n) \in EntryOf
    BY <1>6 DEF EntryOf
  <1>11. e.page \in Nat
    BY <1>6 DEF EntryOf
  <1> HIDE DEF left
  <1>12. entries' \in [Views -> EntryOf]
    BY <1>1, <1>2, <1>4, <1>10, <1>11
  <1>13. ledger' = ledger \/ ledger' = SetOwner(ledger, NoView)
    BY <1>1 DEF led
  <1>14. UNCHANGED <<shortcut, connected, gamepad, openerPending, shutdown, browser, opening, device, route, work>>
    BY DEF CancelBrowser
  <1>15. Rest' /\ route' \in RouteOf
    BY <1>3, <1>9, <1>12, <1>14 DEF PInv, Rest, browser, opening
  <1> QED BY <1>13, <1>14, <1>15, Disowned

LEMMA KeptRunTask ==
  ASSUME PInv, RunTask
  PROVE  PInv'
  <1>1. tasks' \in Seq(Tasks)
    BY DEF RunTask, PInv, Rest
  <1>2. UNCHANGED <<service, browser, epoch, opening, device, route, todo, work>>
    BY DEF RunTask
  <1>3. Rest' /\ route' \in RouteOf
    BY <1>1, <1>2 DEF PInv, Rest, service, browser, opening
  <1> QED BY <1>2, <1>3, Kept DEF service

LEMMA KeptFireShortcut ==
  ASSUME PInv, NEW t \in InputThreads, FireShortcut(t)
  PROVE  PInv'
  <1>1. todo[t] # <<>> /\ Done(t)
    BY DEF FireShortcut, Doing
  <1>2. todo' \in [InputThreads -> Seq(Ops)]
    BY <1>1, Did
  <1>3. UNCHANGED <<service, browser, delivery, admitted, device, route, work>>
    BY DEF FireShortcut
  <1>4. Rest' /\ route' \in RouteOf
    BY <1>2, <1>3 DEF PInv, Rest, service, browser, delivery
  <1> QED BY <1>3, <1>4, Kept DEF service

LEMMA KeptAdmitOpener ==
  ASSUME PInv, AdmitOpener
  PROVE  PInv'
  <1>1. openerPending' \in BOOLEAN /\ admitted' \in Views \cup {NoView}
    BY DEF AdmitOpener, PInv, Rest
  <1>2. UNCHANGED <<ledger, entries, shortcut, connected, gamepad, shutdown, sequence, drawCursor,
                   browser, delivery, device, route, todo, work>>
    BY DEF AdmitOpener
  <1>3. Rest' /\ route' \in RouteOf
    BY <1>1, <1>2 DEF PInv, Rest, browser, delivery
  <1> QED BY <1>2, <1>3, Kept

LEMMA KeptCallOpener ==
  ASSUME PInv, CallOpener
  PROVE  PInv'
  <1>1. admitted \in Views
    BY DEF CallOpener, PInv, Rest
  <1>2. <<Op("invalidate", admitted)>> \in Seq(Ops)
    BY <1>1, Plain DEF Entering, Going
  <1>3. \/ focus' = focus /\ todo' = todo
        \/ focus' = admitted /\ todo' = [todo EXCEPT !["worker"] = <<Op("invalidate", admitted)>>]
    BY DEF CallOpener
  <1>4. focus' \in Views \cup {NoView} /\ todo' \in [InputThreads -> Seq(Ops)]
    BY <1>1, <1>2, <1>3 DEF PInv, Rest
  <1>5. UNCHANGED <<service, valid, foreground, doc, delivery, device, route, work>> /\ admitted' = NoView
    BY DEF CallOpener
  <1>6. Rest' /\ route' \in RouteOf
    BY <1>4, <1>5 DEF PInv, Rest, service, delivery
  <1> QED BY <1>5, <1>6, Kept DEF service

-----------------------------------------------------------------------------
(* The batches keep it.                                                    *)

LEMMA Idles ==
  NoBatch \in RouteOf
  BY DEF NoBatch, RouteOf

LEMMA KeptSnapshot ==
  ASSUME PInv, Snapshot
  PROVE  PInv'
  <1>1. route' \in RouteOf
    <2> DEFINE e == [v \in Views |-> IF v \in Candidates THEN epoch[v] ELSE 0]
    <2>1. e \in [Views -> Nat]
      BY DEF PInv, Rest
    <2>2. route' = [NoBatch EXCEPT !.stage = "look", !.epochs = e]
      BY DEF Snapshot
    <2> HIDE DEF e
    <2> QED BY <2>1, <2>2, Idles DEF RouteOf
  <1>2. UNCHANGED <<service, browser, delivery, opening, device, todo, work>>
    BY DEF Snapshot
  <1>3. Rest'
    BY <1>2 DEF PInv, Rest, service, browser, delivery, opening
  <1> QED BY <1>1, <1>2, <1>3, Kept DEF service

LEMMA KeptLook ==
  ASSUME PInv, Look
  PROVE  PInv'
  <1>1. PICK c \in BOOLEAN :
          /\ work' = IF c # connected THEN work + 1 ELSE work
          /\ route' = [route EXCEPT !.stage = "decide", !.connected = c, !.canOpen = foreground /\ focus = NoView,
                          !.eligible = IF foreground /\ focus # NoView /\ route.epochs[focus] # 0 /\ loaded[focus] THEN focus ELSE NoView]
    BY DEF Look
  <1>2. route' \in RouteOf
    <2> DEFINE o == foreground /\ focus = NoView
               who == IF foreground /\ focus # NoView /\ route.epochs[focus] # 0 /\ loaded[focus] THEN focus ELSE NoView
    <2>1. o \in BOOLEAN /\ who \in Views \cup {NoView}
      BY DEF PInv, Rest
    <2>2. route' = [route EXCEPT !.stage = "decide", !.connected = c, !.canOpen = o, !.eligible = who]
      BY <1>1
    <2> HIDE DEF o, who
    <2> QED BY <2>1, <2>2 DEF PInv, RouteOf
  <1>3. UNCHANGED <<service, browser, delivery, opening, device, todo>> /\ work' \in Nat
    BY <1>1 DEF Look, PInv, Rest
  <1>4. Rest'
    BY <1>3 DEF PInv, Rest, service, browser, delivery, opening
  <1> QED BY <1>2, <1>3, <1>4, Kept DEF service

LEMMA KeptShutdown ==
  ASSUME PInv, NEW t \in Callers, Shutdown(t)
  PROVE  PInv'
  <1>1. <<>> \in Seq(Ops) /\ NoShortcut \in [id : Nat, view : Views \cup {NoView}] /\ Absent \in EntryOf
    BY DEF NoShortcut, Absent, EntryOf, Modes
  <1>2. /\ Begins(t, "shutdown", <<>>) /\ shutdown' = TRUE /\ entries' = [v \in Views |-> Absent] /\ shortcut' = NoShortcut
        /\ ledger' = ResetDevice(SetOwner(ledger, NoView))
        /\ UNCHANGED <<connected, gamepad, openerPending, sequence, browser, delivery, opening, device, route>>
    BY DEF Shutdown
  <1>3. todo' \in [InputThreads -> Seq(Ops)] /\ work' \in Nat
    BY <1>1, <1>2, Began
  <1>4. Rest' /\ route' \in RouteOf
    BY <1>1, <1>2, <1>3 DEF PInv, Rest, browser, delivery, opening
  <1>5. ledger' \in Ledger(Views)
    <2>1. NoView \in Views \cup {NoView} /\ ledger \in Ledger(Views)
      BY DEF PInv, Held01
    <2>2. SetOwner(ledger, NoView) \in Ledger(Views)
      BY <2>1, Owning
    <2> QED BY <1>2, <2>2, Resetting
  <1>6. Held01' /\ Device' /\ GamePaired'
    BY <1>2, <1>5 DEF PInv, Held01, Device, GamePaired, device
  <1> QED BY <1>4, <1>6 DEF PInv

LEMMA KeptRoutesNothing ==
  ASSUME PInv, RoutesNothing
  PROVE  PInv'
  <1>1. PICK c \in Controls : phys' = IF connected THEN [phys EXCEPT ![c] = 1 - phys[c]] ELSE phys
    BY DEF RoutesNothing
  <1>2. phys' \in [Controls -> {0, 1}] /\ (~connected => phys' = phys)
    BY <1>1 DEF PInv, Held01
  <1>3. game' = phys' /\ route' = NoBatch /\ shutdown /\ UNCHANGED <<service, browser, delivery, opening, since, todo, work>>
    BY DEF RoutesNothing
  <1>4. Rest' /\ route' \in RouteOf
    BY <1>3, Idles DEF PInv, Rest, service, browser, delivery, opening
  <1>5. Held01'
    BY <1>2, <1>3, Idles DEF PInv, Held01, service, RouteOf
  <1>6. Device' /\ GamePaired'
    BY <1>2, <1>3 DEF PInv, Device, GamePaired, service
  <1> QED BY <1>4, <1>5, <1>6 DEF PInv

LEMMA Answering ==
  ASSUME PInv
  PROVE  Answers /\ Held01
  BY DEF PInv, Rest, Answers, Owner, RouteOf

\* The packets of a batch show presses of its own generation only.
LEMMA Packing ==
  ASSUME PInv, NEW v \in Views, NEW n \in Nat, NEW b \in BatchOf,
         \A i \in 1..Len(b.events) : b.events[i].phase = "press" => b.events[i].since = b.led.generation
  PROVE  Packet(v, n, b) \in FreshPackets
  <1> DEFINE shown == {f \in Range(b.events) : f.phase = "press"}
             presses == IF v = Owner THEN {[control |-> e.control, since |-> e.since] : e \in shown} ELSE {}
  <1>1. \A e \in shown : e.control \in Controls /\ e.since \in Nat /\ e.since = b.led.generation
    <2>1. b.events \in Seq(Event)
      BY DEF BatchOf
    <2> TAKE e \in shown
    <2>2. PICK i \in DOMAIN b.events : e = b.events[i]
      BY DEF Range
    <2>3. i \in 1..Len(b.events) /\ b.events[i] \in Event
      BY <2>1, <2>2
    <2> QED BY <2>2, <2>3 DEF Event
  <1>2. presses \in SUBSET Presses /\ \A p \in presses : p.since = b.led.generation
    <2> HIDE DEF shown
    <2> QED BY <1>1 DEF Presses
  <1>3. Packet(v, n, b) = [page |-> entries[v].page, generation |-> b.led.generation, sequence |-> n,
                           active |-> (v = Owner), presses |-> presses]
    BY DEF Packet
  <1> HIDE DEF presses
  <1>4. entries[v].page \in Nat /\ b.led.generation \in Nat
    BY DEF PInv, Rest, EntryOf, BatchOf, Ledger
  <1>5. (v = Owner) \in BOOLEAN
    OBVIOUS
  <1> QED BY <1>2, <1>3, <1>4, <1>5 DEF FreshPackets

LEMMA Telling ==
  ASSUME NEW b
  PROVE  SetToSeq(Told(b)) \in Seq(Views) /\ IsFiniteSet(Told(b)) /\ Cardinality(Told(b)) \in Nat
  <1>1. Told(b) \subseteq Views
    BY DEF Told
  <1>2. IsFiniteSet(Told(b))
    BY <1>1, InputAssumption, FS_Subset
  <1>3. SetToSeq(Told(b)) \in Seq(Told(b))
    BY <1>2, Listing
  <1> QED BY <1>1, <1>2, <1>3, FS_CardinalityType

LEMMA Clicking ==
  ASSUME PInv, NEW v \in Views, NEW b \in BatchOf
  PROVE  Clicks(v, b) \in Seq(StepOps)
  <1> DEFINE releases == IF b.release THEN <<Op("release", v)>> ELSE <<>>
             moves == IF b.moves THEN <<[op |-> "pointer", view |-> v, epoch |-> route.epochs[v], button |-> "move"]>> ELSE <<>>
             clicks == [i \in 1..Len(b.clicks) |-> [op |-> "pointer", view |-> v, epoch |-> route.epochs[v], button |-> b.clicks[i]]]
  <1>1. releases \in Seq(StepOps)
    <2>1. Op("release", v) \in StepOps
      BY DEF Op, StepOps
    <2> QED BY <2>1
  <1>2. route.epochs[v] \in Nat
    BY DEF PInv, RouteOf
  <1>3. moves \in Seq(StepOps)
    <2>1. [op |-> "pointer", view |-> v, epoch |-> route.epochs[v], button |-> "move"] \in StepOps
      BY <1>2 DEF StepOps, PointerOps
    <2> QED BY <2>1
  <1>4. clicks \in Seq(StepOps)
    <2>1. b.clicks \in Seq({"down", "up"})
      BY DEF BatchOf
    <2>2. \A i \in 1..Len(b.clicks) : b.clicks[i] \in {"move", "down", "up"}
      BY <2>1
    <2>3. \A i \in 1..Len(b.clicks) : [op |-> "pointer", view |-> v, epoch |-> route.epochs[v], button |-> b.clicks[i]] \in StepOps
      BY <1>2, <2>2 DEF StepOps, PointerOps
    <2>4. Len(b.clicks) \in Nat
      BY <2>1
    <2> QED BY <2>3, <2>4
  <1>5. Clicks(v, b) = releases \o moves \o clicks
    BY DEF Clicks
  <1> HIDE DEF releases, moves, clicks
  <1> QED BY <1>1, <1>3, <1>4, <1>5, Joined

LEMMA Following ==
  ASSUME PInv, NEW b \in BatchOf,
         \A i \in 1..Len(b.events) : b.events[i].phase = "press" => b.events[i].since = b.led.generation
  PROVE  Afterwards(b) \in Seq(StepOps) /\ Afterwards(b) \in Seq(Ops)
  <1> DEFINE told == SetToSeq(Told(b))
             loser == ledger.owner
             first == IF loser # NoView /\ loser # Owner /\ route.epochs[loser] # 0 THEN <<Op("supersede", loser)>> ELSE <<>>
             second == IF Owner = NoView THEN <<>> ELSE Clicks(Owner, b)
             post(i) == [op |-> "post", view |-> told[i], epoch |-> route.epochs[told[i]], packet |-> Packet(told[i], sequence + i, b)]
             third == [i \in 1..Len(told) |-> post(i)]
             fourth == IF b.fires THEN <<[op |-> "fire", view |-> NoView, id |-> shortcut.id]>> ELSE <<>>
  <1>1. Afterwards(b) = first \o second \o third \o fourth
    BY Zenon DEF Afterwards
  <1>2. first \in Seq(StepOps)
    <2>1. loser # NoView => loser \in Views
      BY DEF PInv, Held01, Ledger
    <2>2. loser # NoView => Op("supersede", loser) \in StepOps
      BY <2>1 DEF Op, StepOps
    <2> QED BY <2>2
  <1>3. second \in Seq(StepOps)
    <2>1. Owner # NoView => Owner \in Views
      BY Answering DEF Answers
    <2> QED BY <2>1, Clicking
  <1>4. third \in Seq(StepOps)
    <2>1. told \in Seq(Views)
      BY Telling
    <2> HIDE DEF told
    <2>2. \A i \in 1..Len(told) : told[i] \in Views /\ route.epochs[told[i]] \in Nat /\ sequence + i \in Nat
      <3>1. \A i \in 1..Len(told) : told[i] \in Views
        BY <2>1
      <3>2. \A v \in Views : route.epochs[v] \in Nat
        BY DEF PInv, RouteOf
      <3>3. sequence \in Nat
        BY DEF PInv, Rest
      <3> QED BY <3>1, <3>2, <3>3
    <2>3. \A i \in 1..Len(told) : Packet(told[i], sequence + i, b) \in FreshPackets
      BY <2>2, Packing
    <2>4. \A i \in 1..Len(told) : post(i) \in StepOps
      BY <2>2, <2>3 DEF StepOps, PostOps
    <2>5. Len(told) \in Nat
      BY <2>1
    <2> HIDE DEF post
    <2> QED BY <2>4, <2>5
  <1>5. fourth \in Seq(StepOps)
    <2>1. [op |-> "fire", view |-> NoView, id |-> shortcut.id] \in StepOps
      BY DEF StepOps, FireOps, PInv, Rest
    <2> QED BY <2>1
  <1> HIDE DEF first, second, third, fourth
  <1>6. Afterwards(b) \in Seq(StepOps)
    BY <1>1, <1>2, <1>3, <1>4, <1>5, Joined
  <1>7. StepOps \subseteq Ops
    BY DEF StepOps, Ops, PlainOps, Going
  <1> QED BY <1>6, <1>7

\* A batch ends with what is routed from what the device holds and the moment each
\* press got its generation.
LEMMA Deciding ==
  ASSUME Decide
  PROVE  \E now \in Inputs, mouseMoved \in {FALSE, gamepad}, due \in {FALSE, ledger.repeat # None} :
          LET b == Routed(now, mouseMoved, due, Edge(now))
          IN  /\ ledger' = b.led /\ gamepad' = b.pad /\ connected' = route.connected
              /\ openerPending' = (openerPending \/ b.fires)
              /\ sequence' = sequence + Cardinality(Told(b))
              /\ entries' = [v \in Views |->
                     IF v = Owner THEN [entries[v] EXCEPT !.mode = b.mode, !.epoch = route.epochs[v], !.dirty = FALSE]
                     ELSE IF v \in Told(b) THEN [entries[v] EXCEPT !.dirty = FALSE] ELSE entries[v]]
              /\ todo' = [todo EXCEPT !["input"] = Afterwards(b)]
              /\ phys' = now /\ since' = Edge(now)
              /\ game' = [c \in Controls |-> IF ~route.connected THEN 0 ELSE IF c \in b.consumed THEN game[c] ELSE now[c]]
  <1> DEFINE Ends(now, edge, b) ==
          /\ ledger' = b.led /\ gamepad' = b.pad /\ connected' = route.connected
          /\ openerPending' = (openerPending \/ b.fires)
          /\ sequence' = sequence + Cardinality(Told(b))
          /\ drawCursor' = ~(Owner # NoView /\ b.pad /\ b.mode = "navigation")
          /\ entries' = [v \in Views |->
                 IF v = Owner THEN [entries[v] EXCEPT !.mode = b.mode, !.epoch = route.epochs[v], !.dirty = FALSE]
                 ELSE IF v \in Told(b) THEN [entries[v] EXCEPT !.dirty = FALSE] ELSE entries[v]]
          /\ todo' = [todo EXCEPT !["input"] = Afterwards(b)]
          /\ phys' = now /\ since' = edge
          /\ game' = [c \in Controls |-> IF ~route.connected THEN 0 ELSE IF c \in b.consumed THEN game[c] ELSE now[c]]
  <1>1. PICK now \in Inputs, mouseMoved \in {FALSE, gamepad}, due \in {FALSE, ledger.repeat # None} :
          LET generation == SetOwner(Renewed(Connected(now), Owner, now), Owner).generation
              edge == [c \in Controls |-> IF now[c] = 0 THEN 0 ELSE IF phys[c] = 0 THEN generation ELSE since[c]]
          IN  Ends(now, edge, Routed(now, mouseMoved, due, edge))
    BY Zenon DEF Decide
  <1>2. Ends(now, Edge(now), Routed(now, mouseMoved, due, Edge(now)))
    BY <1>1, Zenon DEF Edge, First
  <1> QED BY <1>2, Zenon

LEMMA KeptDecide ==
  ASSUME PInv, Decide
  PROVE  PInv'
  <1>1. PICK now \in Inputs, mouseMoved \in {FALSE, gamepad}, due \in {FALSE, ledger.repeat # None} :
        LET b == Routed(now, mouseMoved, due, Edge(now))
        IN  /\ ledger' = b.led /\ gamepad' = b.pad /\ connected' = route.connected
            /\ openerPending' = (openerPending \/ b.fires)
            /\ sequence' = sequence + Cardinality(Told(b))
            /\ entries' = [v \in Views |->
                   IF v = Owner THEN [entries[v] EXCEPT !.mode = b.mode, !.epoch = route.epochs[v], !.dirty = FALSE]
                   ELSE IF v \in Told(b) THEN [entries[v] EXCEPT !.dirty = FALSE] ELSE entries[v]]
            /\ todo' = [todo EXCEPT !["input"] = Afterwards(b)]
            /\ phys' = now /\ since' = Edge(now)
            /\ game' = [c \in Controls |-> IF ~route.connected THEN 0 ELSE IF c \in b.consumed THEN game[c] ELSE now[c]]
    BY Deciding, Zenon
  <1>2. PInv /\ Answers /\ Held01 /\ Device /\ GamePaired /\ ~shutdown
    BY Answering DEF PInv, Decide
  <1>3. mouseMoved \in BOOLEAN /\ due \in BOOLEAN
    BY <1>2 DEF Answers
  <1> DEFINE b == Routed(now, mouseMoved, due, Edge(now))
  <1>4. /\ b \in BatchOf /\ b.led.generation = First(now).generation /\ b.led.owner = Owner
        /\ b.led.value = now
        /\ \A c \in Controls : now[c] = 1 /\ ~b.led.blocked[c] => Edge(now)[c] = b.led.generation
        /\ \A i \in 1..Len(b.events) : b.events[i].phase = "press" => b.events[i].since = b.led.generation
        /\ \A c \in Controls : route.connected /\ (IF c \in b.consumed THEN game[c] ELSE now[c]) = 1
                               => now[c] = 1 /\ b.led.gameDown[c]
    BY <1>2, <1>3, Routing
  <1>5. /\ ledger' = b.led /\ gamepad' = b.pad /\ connected' = route.connected
        /\ openerPending' = (openerPending \/ b.fires)
        /\ sequence' = sequence + Cardinality(Told(b))
        /\ entries' = [v \in Views |->
               IF v = Owner THEN [entries[v] EXCEPT !.mode = b.mode, !.epoch = route.epochs[v], !.dirty = FALSE]
               ELSE IF v \in Told(b) THEN [entries[v] EXCEPT !.dirty = FALSE] ELSE entries[v]]
        /\ todo' = [todo EXCEPT !["input"] = Afterwards(b)]
        /\ phys' = now /\ since' = Edge(now)
        /\ game' = [c \in Controls |-> IF ~route.connected THEN 0 ELSE IF c \in b.consumed THEN game[c] ELSE now[c]]
    BY <1>1
  <1> HIDE DEF b
  <1>6. now \in [Controls -> {0, 1}] /\ (~route.connected => \A c \in Controls : now[c] = 0)
    BY <1>2, InputsTyped
  <1>7. Edge(now) \in [Controls -> Nat]
    <2>1. First(now).generation \in Nat
      BY <1>4 DEF BatchOf, Ledger
    <2> QED BY <1>2, <1>6, <2>1 DEF Edge, Held01
  <1>8. game' \in [Controls -> {0, 1}]
    BY <1>2, <1>5, <1>6 DEF Held01
  <1>9. route' = NoBatch /\ UNCHANGED <<shortcut, shutdown, browser, delivery, opening, work>>
    BY DEF Decide
  <1>10. Held01'
    <2>1. ledger' \in Ledger(Views)
      BY <1>4, <1>5 DEF BatchOf
    <2>2. connected' \in BOOLEAN
      BY <1>2, <1>5 DEF Held01
    <2> QED BY <1>2, <1>5, <1>6, <1>7, <1>8, <1>9, <2>1, <2>2, Idles DEF Held01, RouteOf
  <1>11. \A c \in Controls : game'[c] = 1 => route.connected /\ now[c] = 1 /\ b.led.gameDown[c]
    <2> SUFFICES ASSUME NEW c \in Controls, game'[c] = 1 PROVE route.connected /\ now[c] = 1 /\ b.led.gameDown[c]
      OBVIOUS
    <2>1. game'[c] = IF ~route.connected THEN 0 ELSE IF c \in b.consumed THEN game[c] ELSE now[c]
      BY <1>5
    <2>2. route.connected /\ (IF c \in b.consumed THEN game[c] ELSE now[c]) = 1
      BY <2>1
    <2> QED BY <1>4, <2>2
  <1>12. GamePaired'
    BY <1>5, <1>11 DEF GamePaired
  <1>13. Device'
    <2>1. ~connected' => \A c \in Controls : phys'[c] = 0
      BY <1>5, <1>6
    <2>2. \A c \in Controls : ledger'.value[c] = phys'[c] /\ (phys'[c] = 1 /\ ~ledger'.blocked[c] => since'[c] = ledger'.generation)
      BY <1>4, <1>5
    <2>3. \A c \in Controls : game'[c] = 1 => ledger'.gameDown[c]
      BY <1>5, <1>11
    <2> QED BY <2>1, <2>2, <2>3 DEF Device
  <1>14. entries' \in [Views -> EntryOf]
    <2>1. \A v \in Views : entries[v] \in EntryOf /\ route.epochs[v] \in Nat
      BY <1>2 DEF Answers, PInv, RouteOf
    <2>2. b.mode \in Modes
      BY <1>4 DEF BatchOf
    <2>3. \A v \in Views : /\ [entries[v] EXCEPT !.mode = b.mode, !.epoch = route.epochs[v], !.dirty = FALSE] \in EntryOf
                          /\ [entries[v] EXCEPT !.dirty = FALSE] \in EntryOf
      BY <2>1, <2>2 DEF EntryOf
    <2> QED BY <1>5, <2>1, <2>3
  <1>15. gamepad' \in BOOLEAN /\ openerPending' \in BOOLEAN
    BY <1>2, <1>4, <1>5 DEF BatchOf, PInv, Rest
  <1>16. sequence' \in Nat
    <2>1. Cardinality(Told(b)) \in Nat
      BY Telling
    <2>2. sequence \in Nat
      BY <1>2 DEF PInv, Rest
    <2>3. sequence' = sequence + Cardinality(Told(b))
      BY <1>5
    <2> QED BY <2>1, <2>2, <2>3
  <1>17. todo' \in [InputThreads -> Seq(Ops)]
    BY <1>2, <1>4, <1>5, Following DEF PInv, Rest
  <1>18. Rest'
    BY <1>9, <1>14, <1>15, <1>16, <1>17 DEF PInv, Rest, browser, delivery, opening
  <1>19. route' \in RouteOf
    BY <1>9, Idles
  <1> QED BY <1>10, <1>12, <1>13, <1>18, <1>19 DEF PInv

LEMMA PInvInit ==
  ASSUME InputInit
  PROVE  PInv
  <1>1. PICK start \in Starts :
          /\ focus = start.focus
          /\ shortcut = IF start.opener = NoView THEN NoShortcut ELSE [id |-> 1, view |-> start.opener]
    BY DEF InputInit
  <1>2. focus \in Views \cup {NoView} /\ shortcut \in [id : Nat, view : Views \cup {NoView}]
    BY <1>1, InputAssumption DEF NoShortcut
  <1> DEFINE l == [NewLedger EXCEPT !.generation = 1]
  <1>3. /\ l \in Ledger(Views) /\ \A c \in Controls : l.value[c] = 0
    BY DEF NewLedger, Ledger, None
  <1>4. ledger = SetOwner(l, focus)
    BY DEF InputInit
  <1> HIDE DEF l
  <1>5. ledger \in Ledger(Views) /\ ledger.value = l.value
    BY <1>2, <1>3, <1>4, Owning
  <1>6. /\ phys = [c \in Controls |-> 0] /\ game = phys /\ since = phys
        /\ connected = TRUE /\ shutdown = FALSE /\ route = NoBatch /\ gamepad = FALSE /\ openerPending = FALSE
        /\ tasks = <<>> /\ todo = [t \in InputThreads |-> <<>>] /\ foreground = TRUE /\ admitted = NoView /\ work = 0
        /\ doc = [v \in Views |-> 1] /\ epoch = [v \in Views |-> 1] /\ valid = [v \in Views |-> TRUE]
    BY DEF InputInit
  <1>7. Held01 /\ route \in RouteOf
    BY <1>5, <1>6, Idles DEF Held01, RouteOf
  <1>8. Device /\ GamePaired
    BY <1>3, <1>5, <1>6 DEF Device, GamePaired
  <1>9. sequence \in Nat
    BY InputAssumption, FS_CardinalityType DEF InputInit
  <1>10. entries \in [Views -> EntryOf]
    <2>1. entries = [v \in Views |-> [page |-> 1, mode |-> DefaultMode[v], epoch |-> IF v = focus THEN 1 ELSE 0,
                                   dirty |-> FALSE, enabled |-> TRUE]]
      BY DEF InputInit
    <2>2. \A v \in Views : DefaultMode[v] \in Modes
      BY InputAssumption DEF Modes
    <2> QED BY <2>1, <2>2 DEF EntryOf
  <1>11. Rest
    <2>1. <<>> \in Seq(Tasks) /\ <<>> \in Seq(Ops)
      OBVIOUS
    <2>2. todo \in [InputThreads -> Seq(Ops)] /\ tasks \in Seq(Tasks)
      BY <1>6, <2>1
    <2>3. doc \in [Views -> Nat \ {0}] /\ epoch \in [Views -> Nat] /\ valid \in [Views -> BOOLEAN]
      BY <1>6
    <2>4. gamepad \in BOOLEAN /\ openerPending \in BOOLEAN /\ foreground \in BOOLEAN /\ work \in Nat
      BY <1>6
    <2>5. admitted \in Views \cup {NoView}
      BY <1>6
    <2> QED BY <1>2, <1>9, <1>10, <2>2, <2>3, <2>4, <2>5 DEF Rest
  <1> QED BY <1>7, <1>8, <1>11 DEF PInv

LEMMA PInvNext ==
  ASSUME PInv, [InputNext]_inputVars
  PROVE  PInv'
  <1>1. CASE UNCHANGED inputVars
    <2>1. UNCHANGED <<service, browser, delivery, opening, device, route, todo, work>>
      BY <1>1 DEF inputVars
    <2>2. Rest' /\ route' \in RouteOf
      BY <2>1 DEF PInv, Rest, service, browser, delivery, opening
    <2> QED BY <2>1, <2>2, Kept DEF service
  <1>2. ASSUME NEW t \in Callers, Calls(t)
        PROVE  PInv'
    <2>1. ASSUME NEW v \in Views, NEW enabled \in BOOLEAN, Configure(t, v, enabled) PROVE PInv'
      BY <2>1, KeptConfigure
    <2>2. ASSUME NEW v \in Views, RegisterShortcut(t, v) PROVE PInv'
      BY <2>2, KeptRegisterShortcut
    <2>3. ASSUME NEW v \in Views, DestroyView(t, v) PROVE PInv'
      BY <2>3, KeptDestroyView
    <2>4. ASSUME NEW v \in Views, ClaimFocus(t, v) PROVE PInv'
      BY <2>4, KeptClaim
    <2>5. CASE UnregisterShortcut(t)
      BY <2>5, KeptUnregisterShortcut
    <2>6. CASE ReleaseFocus(t)
      BY <2>6, KeptRelease
    <2>7. CASE WindowInactive(t)
      BY <2>7, KeptWindowInactive
    <2>8. CASE WindowActive(t)
      BY <2>8, KeptArrivals
    <2>9. CASE Shutdown(t)
      BY <2>9, KeptShutdown
    <2> QED BY <1>2, <2>1, <2>2, <2>3, <2>4, <2>5, <2>6, <2>7, <2>8, <2>9 DEF Calls
  <1>3. CASE PageCalls
    <2>1. ASSUME NEW v \in Views, NEW request \in Asking, NEW d \in {doc[v], doc[v] - 1}, PageRequest(v, request, d) PROVE PInv'
      BY <2>1, KeptPageRequest
    <2>2. ASSUME NEW v \in Views, NEW crashed \in BOOLEAN, MainFrameLoadStart(v, crashed) PROVE PInv'
      BY <2>2, KeptMainFrameLoadStart
    <2>3. ASSUME NEW v \in Views, MainFrameLoadEnd(v) PROVE PInv'
      BY <2>3, KeptArrivals
    <2> QED BY <1>3, <2>1, <2>2, <2>3 DEF PageCalls, Asking
  <1>4. ASSUME NEW t \in InputThreads, CallStep(t)
        PROVE  PInv'
    <2>1. CASE SetConfig(t)
      BY <2>1, KeptSetConfig
    <2>2. CASE PageReady(t)
      BY <2>2, KeptPageReady
    <2>3. CASE PageMode(t)
      BY <2>3, KeptPageMode
    <2>4. CASE Register(t)
      BY <2>4, KeptRegister
    <2>5. CASE RemoveView(t) \/ Recheck(t)
      BY <2>5, KeptRemoveView
    <2>6. CASE CancelBrowser(t)
      BY <2>6, KeptCancelBrowser
    <2>7. CASE GoAway(t)
      BY <2>7, KeptGoAway
    <2>8. CASE Unload(t)
      BY <2>8, KeptUnload
    <2>9. CASE Invalidate(t)
      BY <2>9, KeptInvalidate
    <2>10. CASE ReleasePointer(t)
      BY <2>10, KeptReleasePointer
    <2>11. CASE SendControllerPacket(t)
      BY <2>11, KeptSendControllerPacket
    <2>12. CASE ControllerPointer(t)
      BY <2>12, KeptControllerPointer
    <2>13. CASE FireShortcut(t)
      BY <2>13, KeptFireShortcut
    <2> QED BY <1>4, <2>1, <2>2, <2>3, <2>4, <2>5, <2>6, <2>7, <2>8, <2>9, <2>10, <2>11, <2>12, <2>13 DEF CallStep
  <1>5. CASE Supersede \/ RunTask \/ AdmitOpener \/ CallOpener
    BY <1>5, KeptSupersede, KeptRunTask, KeptAdmitOpener, KeptCallOpener
  <1>6. CASE Snapshot \/ Look \/ Decide \/ RoutesNothing
    BY <1>6, KeptSnapshot, KeptLook, KeptDecide, KeptRoutesNothing
  <1> QED BY <1>1, <1>2, <1>3, <1>4, <1>5, <1>6 DEF InputNext

\* What the ledger, the game and the packets under way hold, between batches and in one.
THEOREM PInvHolds == InputSpec => []PInv
  <1>1. InputInit => PInv
    BY PInvInit
  <1>2. PInv /\ [InputNext]_inputVars => PInv'
    BY PInvNext
  <1> QED BY <1>1, <1>2, PTL DEF InputSpec

\* Service and game: a control that the game believes held is held; the release of every
\* press it got is not consumed, whoever has the focus by then (ControllerState::Button).
THEOREM GameIsPaired == InputSpec => []GamePaired
  <1>1. PInv => GamePaired
    BY DEF PInv
  <1> QED BY <1>1, PInvHolds, PTL

\* A press in a packet on its way to a page went down under the owner the packet is for:
\* what was held when the owner changed stays blocked until let go (ControllerState::SetOwner).
THEOREM PressesAreFresh == InputSpec => []PressIsFresh
  <1>1. PInv => PressIsFresh
    <2> SUFFICES ASSUME PInv, NEW i \in 1..Len(tasks), tasks[i].kind = "packet", NEW e \in tasks[i].packet.presses
                 PROVE  e.since = tasks[i].packet.generation
      BY DEF PressIsFresh
    <2>1. tasks[i] \in Tasks
      BY DEF PInv, Rest
    <2>2. tasks[i] \in PacketTasks
      BY <2>1 DEF Tasks, ReleaseTasks, PointerTasks, PacketTasks
    <2> QED BY <2>2 DEF PacketTasks, FreshPackets
  <1> QED BY <1>1, PInvHolds, PTL

-----------------------------------------------------------------------------
(* The inductive invariant of destroyed views.                             *)

\* After shutdown the service knows nobody.
Silenced == shutdown => ledger.owner = NoView /\ shortcut = NoShortcut /\ \A v \in Views : entries[v] = Absent

\* A step that puts something in for a view stands first in its program, and the second
\* look behind it; what follows a batch puts nothing in.
CalmOps == {o \in Ops : o.op \notin Entering \cup Asking}
Shaped(s) ==
  s # <<>> =>
    /\ Tail(s) \in Seq(CalmOps)
    /\ s[1].op \in {"enable", "disable"} =>
          Len(s) = 3 /\ s[2] = Op("reset", s[1].view) /\ s[3] = Op("recheck", s[1].view)
    /\ s[1].op \in {"register"} \cup Asking => Len(s) = 2 /\ s[2] = Op("recheck", s[1].view)
Shape == (\A t \in InputThreads : Shaped(todo[t])) /\ todo["input"] \in Seq(StepOps)

\* What is left of a destroyed view, a thread is about to take out.
Forgets(op, v) == op.op \in {"remove", "recheck"} /\ op.view = v
Covering(s, v) ==
  s # <<>> /\ (Forgets(s[1], v) \/ (Len(s) >= 2 /\ s[1].op = "reset" /\ Forgets(s[2], v)))
Gone(v) == entries[v] = Absent /\ shortcut.view # v /\ ledger.owner # v
Covered == \A v \in Views : ~valid[v] => Gone(v) \/ \E t \in InputThreads : Covering(todo[t], v)

VInv == Silenced /\ Shape /\ Covered

LEMMA CalmShaped ==
  ASSUME NEW s \in Seq(CalmOps)
  PROVE  Shaped(s)
  <1> SUFFICES ASSUME s # <<>> PROVE Shaped(s)
    BY DEF Shaped
  <1>1. s[1] \in CalmOps /\ Tail(s) \in Seq(CalmOps)
    OBVIOUS
  <1>2. s[1].op \notin Entering \cup Asking
    BY <1>1 DEF CalmOps
  <1> QED BY <1>1, <1>2 DEF Shaped, Entering

LEMMA CalmSets == GoingOps \subseteq CalmOps /\ StepOps \subseteq CalmOps
  <1>1. \A o \in GoingOps : o \in Ops /\ o.op \notin Entering \cup Asking
    BY DEF GoingOps, Ops, PlainOps, Entering, Asking, Going
  <1>2. \A o \in StepOps : o \in Ops /\ o.op \notin Entering \cup Asking
    BY DEF StepOps, Ops, PlainOps, PointerOps, PostOps, FireOps, Entering, Asking, Going
  <1> QED BY <1>1, <1>2 DEF CalmOps

\* Only one thread's program changes.
LEMMA Reshaped ==
  ASSUME Shape, NEW t \in InputThreads, \A u \in InputThreads \ {t} : todo'[u] = todo[u],
         Shaped(todo'[t]), t = "input" => todo'[t] \in Seq(StepOps)
  PROVE  Shape'
  <1>1. "input" \in InputThreads
    BY DEF InputThreads
  <1>2. \A u \in InputThreads : Shaped(todo'[u])
    BY DEF Shape
  <1>3. todo'["input"] \in Seq(StepOps)
    BY <1>1 DEF Shape
  <1>4. (\A u \in InputThreads : Shaped(todo[u]))' = \A u \in InputThreads : Shaped(todo'[u])
    BY DEF Shaped, InputThreads
  <1> QED BY <1>2, <1>3 DEF Shape

LEMMA StillCovered ==
  ASSUME Covered, NEW t \in InputThreads, \A u \in InputThreads \ {t} : todo'[u] = todo[u],
         \A v \in Views : ~valid'[v] =>
           /\ ~valid[v] \/ Covering(todo'[t], v)
           /\ Gone(v) => Gone(v)' \/ Covering(todo'[t], v)
           /\ Covering(todo[t], v) => Gone(v)' \/ Covering(todo'[t], v)
  PROVE  Covered'
  <1> SUFFICES ASSUME NEW v \in Views, ~valid'[v], ~Gone(v)' PROVE \E u \in InputThreads : Covering(todo'[u], v)
    BY DEF Covered, Covering, Forgets
  <1>1. CASE Covering(todo'[t], v)
    BY <1>1
  <1>2. CASE ~Covering(todo'[t], v)
    <2>1. ~valid[v] /\ ~Gone(v) /\ ~Covering(todo[t], v)
      BY <1>2
    <2>2. PICK u \in InputThreads : Covering(todo[u], v)
      BY <2>1 DEF Covered
    <2>3. u # t
      BY <2>1, <2>2
    <2>4. todo'[u] = todo[u]
      BY <2>3
    <2>5. Covering(todo'[u], v)
      BY <2>2, <2>4
    <2> QED BY <2>5
  <1> QED BY <1>1, <1>2

\* A call of a thread that has nothing left to do.
LEMMA CallsBegun ==
  ASSUME PInv, VInv, NEW t \in Callers, todo[t] = <<>>, NEW program, Shaped(program),
         todo' = [todo EXCEPT ![t] = program],
         UNCHANGED <<ledger, entries, shutdown, valid>>, shortcut' = shortcut \/ shortcut' = NoShortcut
  PROVE  VInv'
  <1>1. t \in InputThreads /\ t # "input"
    BY InputAssumption DEF InputThreads, Callers
  <1>2. todo'[t] = program /\ \A u \in InputThreads \ {t} : todo'[u] = todo[u]
    BY <1>1 DEF PInv, Rest
  <1>3. Shape'
    BY <1>1, <1>2, Reshaped DEF VInv
  <1>4. Silenced'
    BY DEF VInv, Silenced
  <1>5. \A v \in Views : ~Covering(todo[t], v)
    BY DEF Covering
  <1>6. \A v \in Views : Gone(v) => Gone(v)'
    BY InputAssumption DEF Gone, NoShortcut
  <1>7. Covered'
    <2>1. valid' = valid
      OBVIOUS
    <2> QED BY <1>1, <1>2, <1>5, <1>6, <2>1, StillCovered DEF VInv
  <1> QED BY <1>3, <1>4, <1>7 DEF VInv

\* A step with nothing to take out, that leaves what is gone gone.
LEMMA Passing ==
  ASSUME PInv, VInv, NEW t \in InputThreads, todo[t] # <<>>, Head(todo[t]).op \notin {"remove", "recheck", "reset"},
         \/ Done(t)
         \/ t # "input" /\ \E program \in Seq(CalmOps) : Instead(t, program)
         \/ t # "input" /\ Abandon(t),
         valid' = valid, Silenced', \A v \in Views : Gone(v) => Gone(v)'
  PROVE  VInv'
  <1>1. todo \in [InputThreads -> Seq(Ops)] /\ todo[t] \in Seq(Ops) /\ Shaped(todo[t])
    BY DEF PInv, Rest, VInv, Shape
  <1>2. Tail(todo[t]) \in Seq(CalmOps)
    BY <1>1 DEF Shaped
  <1>3. todo'[t] \in Seq(CalmOps) /\ \A u \in InputThreads \ {t} : todo'[u] = todo[u]
    <2>1. CASE Done(t)
      BY <1>1, <1>2, <2>1 DEF Done
    <2>2. CASE Abandon(t)
      BY <1>1, <2>2 DEF Abandon
    <2>3. ASSUME NEW program \in Seq(CalmOps), Instead(t, program)
          PROVE  todo'[t] \in Seq(CalmOps) /\ \A u \in InputThreads \ {t} : todo'[u] = todo[u]
      <3>1. program \o Tail(todo[t]) \in Seq(CalmOps)
        BY <1>2, <2>3, Joined
      <3> QED BY <1>1, <2>3, <3>1 DEF Instead
    <2> QED BY <2>1, <2>2, <2>3
  <1>4. t = "input" => todo'[t] \in Seq(StepOps)
    <2> SUFFICES ASSUME t = "input", Done(t) PROVE todo'[t] \in Seq(StepOps)
      OBVIOUS
    <2>1. todo[t] \in Seq(StepOps)
      BY DEF VInv, Shape
    <2>2. Tail(todo[t]) \in Seq(StepOps)
      BY <2>1
    <2> QED BY <1>1, <2>2 DEF Done
  <1>5. Shape'
    BY <1>3, <1>4, CalmShaped, Reshaped DEF VInv
  <1>7. \A v \in Views : ~Covering(todo[t], v)
    <2>1. todo[t][1] = Head(todo[t])
      BY <1>1
    <2> QED BY <2>1 DEF Covering, Forgets
  <1>9. Covered'
    BY <1>3, <1>7, StillCovered DEF VInv
  <1> QED BY <1>5, <1>9 DEF VInv

\* A step that neither puts in nor takes out.
LEMMA Stepping ==
  ASSUME PInv, VInv, NEW t \in InputThreads, todo[t] # <<>>, Head(todo[t]).op \notin {"remove", "recheck", "reset"},
         \/ Done(t)
         \/ t # "input" /\ \E program \in Seq(CalmOps) : Instead(t, program)
         \/ t # "input" /\ Abandon(t),
         UNCHANGED <<ledger, entries, shortcut, shutdown, valid>>
  PROVE  VInv'
  <1>1. Silenced'
    BY DEF VInv, Silenced
  <1>2. \A v \in Views : Gone(v) => Gone(v)'
    BY DEF Gone
  <1> QED BY <1>1, <1>2, Passing

\* A step that touches none of it.
LEMMA Resting ==
  ASSUME VInv, UNCHANGED <<ledger, entries, shortcut, shutdown, valid, todo>>
  PROVE  VInv'
  BY DEF VInv, Silenced, Shape, Shaped, Covered, Covering, Forgets, Gone, InputThreads, Callers

\* A step that may put something in for its view, with the second look behind it.
LEMMA PuttingIn ==
  ASSUME PInv, VInv, NEW t \in InputThreads \ {"input"}, todo[t] # <<>>,
         Head(todo[t]).op \notin {"remove", "recheck", "reset"},
         \A u \in InputThreads \ {t} : todo'[u] = todo[u], todo'[t] \in Seq(CalmOps),
         NEW w \in Views, Covering(todo'[t], w), \A v \in Views \ {w} : Gone(v) => Gone(v)',
         ~shutdown, UNCHANGED <<shutdown, valid>>
  PROVE  VInv'
  <1>1. Shape'
    BY CalmShaped, Reshaped DEF VInv
  <1>2. Silenced'
    BY DEF Silenced
  <1>3. todo[t][1] = Head(todo[t])
    BY DEF PInv, Rest
  <1>4. \A v \in Views : ~Covering(todo[t], v)
    BY <1>3 DEF Covering, Forgets
  <1>5. Covered'
    <2>1. valid' = valid
      OBVIOUS
    <2> QED BY <1>4, <2>1, StillCovered DEF VInv
  <1> QED BY <1>1, <1>2, <1>5 DEF VInv

LEMMA Calmly ==
  ASSUME NEW v \in Views, NEW name \in Going
  PROVE  Op(name, v) \in CalmOps /\ <<Op(name, v)>> \in Seq(CalmOps)
  <1>1. Op(name, v) \in CalmOps
    BY CalmSets DEF Op, GoingOps
  <1> QED BY <1>1

LEMMA TailAt ==
  ASSUME NEW S, NEW s \in Seq(S), s # <<>>
  PROVE  /\ Tail(s) \in Seq(S) /\ Len(Tail(s)) = Len(s) - 1
         /\ Len(s) >= 2 => Tail(s)[1] = s[2]
         /\ Len(s) >= 3 => Tail(s)[2] = s[3]
  <1>1. Tail(s) \in Seq(S) /\ Len(Tail(s)) = Len(s) - 1
    OBVIOUS
  <1>2. \A j \in 1..Len(Tail(s)) : Tail(s)[j] = s[j + 1]
    OBVIOUS
  <1>3. Len(s) >= 2 => Tail(s)[1] = s[1 + 1]
    BY <1>1, <1>2
  <1>4. Len(s) >= 3 => Tail(s)[2] = s[2 + 1]
    BY <1>1, <1>2
  <1> QED BY <1>1, <1>3, <1>4

LEMMA Programs ==
  ASSUME NEW v \in Views
  PROVE  /\ \A name \in {"enable", "disable"} : Shaped(<<Op(name, v), Op("reset", v), Op("recheck", v)>>)
         /\ Shaped(<<Op("register", v), Op("recheck", v)>>)
         /\ \A request \in Asking, d \in Nat : Shaped(<<[op |-> request, view |-> v, page |-> d], Op("recheck", v)>>)
  <1>2. Op("reset", v) \in CalmOps /\ Op("recheck", v) \in CalmOps
    BY Calmly DEF Going
  <1>3. ASSUME NEW name \in {"enable", "disable"}
        PROVE  Shaped(<<Op(name, v), Op("reset", v), Op("recheck", v)>>)
    <2> DEFINE s == <<Op(name, v), Op("reset", v), Op("recheck", v)>>
    <2>1. Tail(s) = <<Op("reset", v), Op("recheck", v)>> /\ s[1] = Op(name, v) /\ Len(s) = 3
          /\ s[2] = Op("reset", v) /\ s[3] = Op("recheck", v)
      OBVIOUS
    <2>2. Tail(s) \in Seq(CalmOps)
      BY <1>2, <2>1
    <2>3. s[1].view = v /\ s[1].op \notin {"register"} \cup Asking
      BY <2>1 DEF Op, Asking
    <2> HIDE DEF s
    <2> QED BY <2>1, <2>2, <2>3 DEF Shaped, s
  <1>4. ASSUME NEW o, o.view = v, o.op \in {"register"} \cup Asking
        PROVE  Shaped(<<o, Op("recheck", v)>>)
    <2> DEFINE s == <<o, Op("recheck", v)>>
    <2>1. Tail(s) = <<Op("recheck", v)>> /\ s[1] = o /\ Len(s) = 2 /\ s[2] = Op("recheck", v)
      OBVIOUS
    <2>2. Tail(s) \in Seq(CalmOps)
      BY <1>2, <2>1
    <2>3. s[1].op \notin {"enable", "disable"}
      BY <1>4, <2>1 DEF Asking
    <2> HIDE DEF s
    <2> QED BY <1>4, <2>1, <2>2, <2>3 DEF Shaped, s
  <1>5. Shaped(<<Op("register", v), Op("recheck", v)>>)
    BY <1>4 DEF Op
  <1>6. \A request \in Asking, d \in Nat : Shaped(<<[op |-> request, view |-> v, page |-> d], Op("recheck", v)>>)
    BY <1>4
  <1> QED BY <1>3, <1>5, <1>6

LEMMA CalmLost ==
  ASSUME NEW v \in Views, NEW navigation \in BOOLEAN
  PROVE  Lost(v, navigation) \in Seq(CalmOps)
  BY Losing, CalmSets

LEMMA GoneConfigure ==
  ASSUME PInv, VInv, NEW t \in Callers, NEW v \in Views, NEW enabled \in BOOLEAN, Configure(t, v, enabled)
  PROVE  VInv'
  <1> DEFINE program == <<Op(IF enabled THEN "enable" ELSE "disable", v), Op("reset", v), Op("recheck", v)>>
  <1>1. Shaped(program)
    BY Programs
  <1>2. Begins(t, "configure", program) /\ UNCHANGED <<service, browser>>
    BY DEF Configure
  <1> HIDE DEF program
  <1>3. todo[t] = <<>> /\ todo' = [todo EXCEPT ![t] = program]
    BY <1>2 DEF Begins
  <1> QED BY <1>1, <1>2, <1>3, CallsBegun DEF service, browser

LEMMA GoneRegisterShortcut ==
  ASSUME PInv, VInv, NEW t \in Callers, NEW v \in Views, RegisterShortcut(t, v)
  PROVE  VInv'
  <1> DEFINE program == <<Op("register", v), Op("recheck", v)>>
  <1>1. Shaped(program)
    BY Programs
  <1>2. Begins(t, "register", program) /\ UNCHANGED <<service, browser>>
    BY DEF RegisterShortcut
  <1> HIDE DEF program
  <1>3. todo[t] = <<>> /\ todo' = [todo EXCEPT ![t] = program]
    BY <1>2 DEF Begins
  <1> QED BY <1>1, <1>2, <1>3, CallsBegun DEF service, browser

LEMMA GoneUnregisterShortcut ==
  ASSUME PInv, VInv, NEW t \in Callers, UnregisterShortcut(t)
  PROVE  VInv'
  <1>1. Shaped(<<>>)
    BY DEF Shaped
  <1>2. Begins(t, "unregister", <<>>) /\ shortcut' = NoShortcut /\ UNCHANGED <<ledger, entries, shutdown, browser>>
    BY DEF UnregisterShortcut
  <1>3. todo[t] = <<>> /\ todo' = [todo EXCEPT ![t] = <<>>]
    BY <1>2 DEF Begins
  <1> QED BY <1>1, <1>2, <1>3, CallsBegun DEF browser

LEMMA GonePageRequest ==
  ASSUME PInv, VInv, NEW v \in Views, NEW request \in Asking, NEW d \in {doc[v], doc[v] - 1}, PageRequest(v, request, d)
  PROVE  VInv'
  <1> DEFINE program == <<[op |-> request, view |-> v, page |-> d], Op("recheck", v)>>
  <1>0. "ui" \in Callers
    BY InputAssumption DEF Callers
  <1>1. d \in Nat
    <2>1. doc[v] \in Nat \ {0}
      BY DEF PInv, Rest
    <2> QED BY <2>1
  <1>2. Shaped(program)
    BY <1>1, Programs
  <1>3. Begins("ui", "page", program) /\ UNCHANGED <<service, browser>>
    BY DEF PageRequest
  <1> HIDE DEF program
  <1>4. todo["ui"] = <<>> /\ todo' = [todo EXCEPT !["ui"] = program]
    BY <1>3 DEF Begins
  <1> QED BY <1>0, <1>2, <1>3, <1>4, CallsBegun DEF service, browser

LEMMA Headed ==
  ASSUME NEW S, NEW s \in Seq(S), s # <<>>, NEW r \in Seq(S)
  PROVE  s \o r \in Seq(S) /\ s \o r # <<>> /\ (s \o r)[1] = s[1]
  <1>1. Len(s) \in Nat /\ Len(s) > 0
    OBVIOUS
  <1>2. s \o r \in Seq(S) /\ Len(s \o r) = Len(s) + Len(r) /\ Len(r) \in Nat
    OBVIOUS
  <1>3. (s \o r)[1] = s[1]
    BY <1>1
  <1>4. Len(s \o r) > 0
    BY <1>1, <1>2
  <1>5. Len(<<>>) = 0
    OBVIOUS
  <1> QED BY <1>2, <1>3, <1>4, <1>5

LEMMA GoneDestroyView ==
  ASSUME PInv, VInv, NEW t \in Callers, NEW v \in Views, DestroyView(t, v)
  PROVE  VInv'
  <1> DEFINE first == <<Op("remove", v), Op("disown", v)>>
             program == first \o Lost(v, TRUE) \o <<Op("close", v)>>
  <1>1. program \in Seq(CalmOps) /\ program # <<>> /\ program[1] = Op("remove", v)
    <2>1. first \in Seq(CalmOps) /\ first # <<>> /\ first[1] = Op("remove", v)
      BY Calmly DEF Going
    <2>2. Lost(v, TRUE) \in Seq(CalmOps) /\ <<Op("close", v)>> \in Seq(CalmOps)
      BY CalmLost, Calmly DEF Going
    <2> DEFINE second == Lost(v, TRUE)
               third == <<Op("close", v)>>
               two == first \o second
    <2>3. second \in Seq(CalmOps) /\ third \in Seq(CalmOps)
      BY <2>2
    <2>4. program = two \o third
      OBVIOUS
    <2> HIDE DEF program, first, second, third
    <2>5. two \in Seq(CalmOps) /\ two # <<>> /\ two[1] = first[1]
      BY <2>1, <2>3, Headed
    <2> HIDE DEF two
    <2>6. two \o third \in Seq(CalmOps) /\ two \o third # <<>> /\ (two \o third)[1] = two[1]
      BY <2>3, <2>5, Headed
    <2> QED BY <2>1, <2>4, <2>5, <2>6, Zenon
  <1>2. Begins(t, "destroy", program) /\ valid' = [valid EXCEPT ![v] = FALSE] /\ UNCHANGED service
    BY DEF DestroyView
  <1> HIDE DEF program
  <1>3. todo[t] = <<>> /\ todo' = [todo EXCEPT ![t] = program]
    BY <1>2 DEF Begins
  <1>4. t \in InputThreads /\ t # "input"
    BY InputAssumption DEF InputThreads, Callers
  <1>5. todo'[t] = program /\ \A u \in InputThreads \ {t} : todo'[u] = todo[u]
    BY <1>3, <1>4 DEF PInv, Rest
  <1>6. Shape'
    BY <1>1, <1>4, <1>5, CalmShaped, Reshaped DEF VInv
  <1>7. Silenced'
    BY <1>2 DEF VInv, Silenced, service
  <1>8. Covering(todo'[t], v)
    BY <1>1, <1>5 DEF Covering, Forgets, Op
  <1>9. \A w \in Views : ~Covering(todo[t], w) /\ (Gone(w) => Gone(w)')
    BY <1>2, <1>3 DEF Covering, Gone, service
  <1>10. \A w \in Views : ~valid'[w] => ~valid[w] \/ w = v
    BY <1>2 DEF PInv, Rest
  <1>11. Covered'
    BY <1>4, <1>5, <1>8, <1>9, <1>10, StillCovered DEF VInv
  <1> QED BY <1>6, <1>7, <1>11 DEF VInv

LEMMA GoneClaim ==
  ASSUME PInv, VInv, NEW t \in Callers, NEW v \in Views, ClaimFocus(t, v)
  PROVE  VInv'
  <1> DEFINE left == IF focus = NoView THEN <<>> ELSE Lost(focus, FALSE)
             program == left \o <<Op("invalidate", v)>>
  <1>1. program \in Seq(CalmOps)
    <2>1. <<Op("invalidate", v)>> \in Seq(CalmOps)
      BY Calmly DEF Going
    <2>2. left \in Seq(CalmOps)
      <3>1. CASE focus = NoView
        BY <3>1
      <3>2. CASE focus # NoView
        BY <3>2, CalmLost DEF PInv, Rest
      <3> QED BY <3>1, <3>2
    <2> HIDE DEF left
    <2> QED BY <2>1, <2>2, Joined
  <1>2. Begins(t, "claim", program) /\ UNCHANGED <<service, valid>>
    BY DEF ClaimFocus
  <1> HIDE DEF program
  <1>3. todo[t] = <<>> /\ todo' = [todo EXCEPT ![t] = program]
    BY <1>2 DEF Begins
  <1> QED BY <1>1, <1>2, <1>3, CalmShaped, CallsBegun DEF service

LEMMA GoneRelease ==
  ASSUME PInv, VInv, NEW t \in Callers, ReleaseFocus(t)
  PROVE  VInv'
  <1>1. Lost(focus, FALSE) \in Seq(CalmOps)
    BY CalmLost DEF PInv, Rest, ReleaseFocus
  <1>2. Begins(t, "release", Lost(focus, FALSE)) /\ UNCHANGED <<service, valid>>
    BY DEF ReleaseFocus
  <1>3. todo[t] = <<>> /\ todo' = [todo EXCEPT ![t] = Lost(focus, FALSE)]
    BY <1>2 DEF Begins
  <1> QED BY <1>1, <1>2, <1>3, CalmShaped, CallsBegun DEF service

LEMMA GoneMainFrameLoadStart ==
  ASSUME PInv, VInv, NEW v \in Views, NEW crashed \in BOOLEAN, MainFrameLoadStart(v, crashed)
  PROVE  VInv'
  <1> DEFINE crash == IF crashed THEN <<Op("disown", v)>> ELSE <<>>
             program == Lost(v, TRUE) \o crash \o <<Op("unload", v)>>
  <1>0. "ui" \in Callers
    BY InputAssumption DEF Callers
  <1>1. program \in Seq(CalmOps)
    <2>1. crash \in Seq(CalmOps) /\ <<Op("unload", v)>> \in Seq(CalmOps)
      BY Calmly DEF Going
    <2>2. Lost(v, TRUE) \in Seq(CalmOps)
      BY CalmLost
    <2> HIDE DEF crash
    <2> QED BY <2>1, <2>2, Joined
  <1>2. Begins("ui", "page", program) /\ UNCHANGED <<service, valid>>
    BY DEF MainFrameLoadStart
  <1> HIDE DEF program
  <1>3. todo["ui"] = <<>> /\ todo' = [todo EXCEPT !["ui"] = program]
    BY <1>2 DEF Begins
  <1> QED BY <1>0, <1>1, <1>2, <1>3, CalmShaped, CallsBegun DEF service

LEMMA GoneWindowInactive ==
  ASSUME PInv, VInv, NEW t \in Callers, WindowInactive(t)
  PROVE  VInv'
  <1> DEFINE pieces == {Lost(v, FALSE) : v \in Views}
             program == FlattenSeq(SetToSeq(pieces))
  <1>1. program \in Seq(CalmOps)
    <2>1. IsFiniteSet(pieces)
      <3> DEFINE f == [v \in Views |-> Lost(v, FALSE)]
      <3>1. f \in Surjection(Views, pieces)
        BY DEF Surjection
      <3> QED BY <3>1, InputAssumption, FS_Surjection
    <2>2. pieces \subseteq Seq(CalmOps)
      BY CalmLost
    <2> HIDE DEF pieces
    <2>3. SetToSeq(pieces) \in Seq(pieces)
      BY <2>1, Listing
    <2>4. SetToSeq(pieces) \in Seq(Seq(CalmOps))
      BY <2>2, <2>3
    <2> QED BY <2>4, Joining
  <1>2. Begins(t, "window", program) /\ UNCHANGED <<service, valid>>
    BY DEF WindowInactive
  <1> HIDE DEF program
  <1>3. todo[t] = <<>> /\ todo' = [todo EXCEPT ![t] = program]
    BY <1>2 DEF Begins
  <1> QED BY <1>1, <1>2, <1>3, CalmShaped, CallsBegun DEF service

LEMMA GoneShutdown ==
  ASSUME PInv, VInv, NEW t \in Callers, Shutdown(t)
  PROVE  VInv'
  <1>1. /\ Begins(t, "shutdown", <<>>) /\ shutdown' = TRUE /\ entries' = [v \in Views |-> Absent] /\ shortcut' = NoShortcut
        /\ ledger' = ResetDevice(SetOwner(ledger, NoView)) /\ valid' = valid
    BY DEF Shutdown, browser
  <1>2. ledger'.owner = NoView
    <2>1. NoView \in Views \cup {NoView} /\ ledger \in Ledger(Views)
      BY DEF PInv, Held01
    <2>2. SetOwner(ledger, NoView) \in Ledger(Views) /\ SetOwner(ledger, NoView).owner = NoView
      BY <2>1, Owning
    <2> QED BY <1>1, <2>2, Resetting
  <1>3. Silenced'
    BY <1>1, <1>2 DEF Silenced
  <1>4. \A v \in Views : Gone(v)'
    BY <1>1, <1>2, InputAssumption DEF Gone, NoShortcut
  <1>5. t \in InputThreads /\ t # "input"
    BY InputAssumption DEF InputThreads, Callers
  <1>6. todo'[t] = <<>> /\ \A u \in InputThreads \ {t} : todo'[u] = todo[u]
    BY <1>1, <1>5 DEF PInv, Rest, Begins
  <1>7. Shape'
    <2>1. Shaped(todo'[t])
      BY <1>6 DEF Shaped
    <2> QED BY <1>5, <1>6, <2>1, Reshaped DEF VInv
  <1>8. Covered'
    BY <1>4 DEF Covered
  <1> QED BY <1>3, <1>7, <1>8 DEF VInv

LEMMA GoneCallOpener ==
  ASSUME PInv, VInv, CallOpener
  PROVE  VInv'
  <1>1. UNCHANGED <<ledger, entries, shortcut, shutdown, valid>> /\ admitted \in Views
    BY DEF CallOpener, service, PInv, Rest
  <1>2. CASE todo' = todo
    BY <1>1, <1>2, Resting
  <1>3. CASE todo["worker"] = <<>> /\ todo' = [todo EXCEPT !["worker"] = <<Op("invalidate", admitted)>>]
    <2>1. <<Op("invalidate", admitted)>> \in Seq(CalmOps)
      BY <1>1, Calmly DEF Going
    <2>2. "worker" \in Callers
      BY InputAssumption DEF Callers
    <2> QED BY <1>1, <1>3, <2>1, <2>2, CalmShaped, CallsBegun
  <1> QED BY <1>2, <1>3 DEF CallOpener

-----------------------------------------------------------------------------
(* Its steps.                                                              *)

\* The steps of calls are not the input thread's.
LEMMA NotInput ==
  ASSUME PInv, VInv, NEW t \in InputThreads, NEW name, Doing(t, name), name \notin Steps
  PROVE  t # "input"
  <1> SUFFICES ASSUME t = "input" PROVE FALSE
    OBVIOUS
  <1>1. todo[t] \in Seq(StepOps) /\ todo[t] # <<>> /\ Head(todo[t]).op = name
    BY DEF VInv, Shape, Doing
  <1>2. Head(todo[t]) \in StepOps
    BY <1>1
  <1>3. Head(todo[t]).op \in Steps
    BY <1>2 DEF StepOps, PointerOps, PostOps, FireOps, Steps
  <1> QED BY <1>1, <1>3

\* The program after its first step is done, for the steps that put something in.
LEMMA Behind ==
  ASSUME PInv, VInv, NEW t \in InputThreads, NEW name, Doing(t, name), name \in Entering \cup Asking
  PROVE  /\ t # "input" /\ View(t) \in Views /\ todo[t] # <<>> /\ Head(todo[t]).op \notin {"remove", "recheck", "reset"}
         /\ Tail(todo[t]) \in Seq(CalmOps) /\ Covering(Tail(todo[t]), View(t))
         /\ name \in Asking => Covering(<<Op("reset", View(t))>> \o Tail(todo[t]), View(t))
         /\ Done(t) => todo'[t] = Tail(todo[t]) /\ \A u \in InputThreads \ {t} : todo'[u] = todo[u]
         /\ Abandon(t) => todo'[t] = <<>> /\ \A u \in InputThreads \ {t} : todo'[u] = todo[u]
         /\ \A program : Instead(t, program) => todo'[t] = program \o Tail(todo[t]) /\ \A u \in InputThreads \ {t} : todo'[u] = todo[u]
  <1> DEFINE s == todo[t]
             v == View(t)
  <1>1. t # "input"
    BY NotInput DEF Entering, Asking, Steps
  <1>2. s # <<>> /\ v \in Views /\ Head(s).op = name /\ v = Head(s).view
    BY Doings DEF Entering, Asking, View
  <1>3. s \in Seq(Ops) /\ Shaped(s) /\ s[1] = Head(s)
    BY <1>2 DEF PInv, Rest, VInv, Shape
  <1>4. Tail(s) \in Seq(CalmOps)
    BY <1>2, <1>3 DEF Shaped
  <1> HIDE DEF s, v
  <1> DEFINE r == Tail(s)
  <1>a. /\ Len(r) = Len(s) - 1 /\ (Len(s) >= 2 => r[1] = s[2]) /\ (Len(s) >= 3 => r[2] = s[3])
    BY <1>2, <1>3, TailAt
  <1>b. r \in Seq(CalmOps)
    BY <1>4
  <1> HIDE DEF r
  <1>c. Len(r) >= 1 => r # <<>>
    BY <1>b
  <1>d. Op("reset", v).op = "reset" /\ Forgets(Op("recheck", v), v)
    BY DEF Op, Forgets
  <1>e. name \in {"enable", "disable"} => Len(s) = 3 /\ s[2] = Op("reset", v) /\ s[3] = Op("recheck", v)
    BY <1>2, <1>3 DEF Shaped
  <1>f. name \in {"register"} \cup Asking => Len(s) = 2 /\ s[2] = Op("recheck", v)
    BY <1>2, <1>3 DEF Shaped
  <1>5. Covering(Tail(s), v)
    <2>1. CASE name \in {"enable", "disable"}
      <3>1. Len(r) = 2 /\ r[1] = Op("reset", v) /\ r[2] = Op("recheck", v) /\ r # <<>>
        BY <1>a, <1>c, <1>e, <2>1
      <3>2. Covering(r, v)
        BY <1>d, <3>1 DEF Covering
      <3> QED BY <3>2 DEF r
    <2>2. CASE name \in {"register"} \cup Asking
      <3>1. r[1] = Op("recheck", v) /\ r # <<>>
        BY <1>a, <1>c, <1>f, <2>2
      <3>2. Covering(r, v)
        BY <1>d, <3>1 DEF Covering
      <3> QED BY <3>2 DEF r
    <2> QED BY <2>1, <2>2 DEF Entering
  <1>6. name \in Asking => Covering(<<Op("reset", v)>> \o Tail(s), v)
    <2> SUFFICES ASSUME name \in Asking PROVE Covering(<<Op("reset", v)>> \o r, v)
      BY DEF r
    <2>0. name \in {"register"} \cup Asking
      OBVIOUS
    <2>a. Len(s) = 2 /\ s[2] = Op("recheck", v)
      BY <1>f, <2>0
    <2>1. Len(r) = 1 /\ r[1] = Op("recheck", v)
      BY <1>a, <2>a
    <2> DEFINE o == Op("reset", v)
               q == <<o>> \o r
    <2> HIDE DEF o
    <2>2. Len(q) = 2 /\ q[1] = o /\ q[2] = r[1] /\ q # <<>>
      BY <1>b, <2>1
    <2> HIDE DEF q
    <2>3. Covering(q, v)
      BY <1>d, <2>1, <2>2 DEF Covering, o
    <2> QED BY <2>3 DEF q, o
  <1>7. Head(s).op \notin {"remove", "recheck", "reset"}
    BY <1>2 DEF Entering, Asking
  <1>8. todo \in [InputThreads -> Seq(Ops)]
    BY DEF PInv, Rest
  <1>9. /\ Done(t) => todo'[t] = Tail(todo[t]) /\ \A u \in InputThreads \ {t} : todo'[u] = todo[u]
        /\ Abandon(t) => todo'[t] = <<>> /\ \A u \in InputThreads \ {t} : todo'[u] = todo[u]
        /\ \A program : Instead(t, program) => todo'[t] = program \o Tail(todo[t]) /\ \A u \in InputThreads \ {t} : todo'[u] = todo[u]
    BY <1>8 DEF Done, Abandon, Instead
  <1> QED BY <1>1, <1>2, <1>4, <1>5, <1>6, <1>7, <1>9 DEF s, v

\* Something put in or left alone, with the second look of the view behind it.
LEMMA GoneSetConfig ==
  ASSUME PInv, VInv, NEW t \in InputThreads, SetConfig(t)
  PROVE  VInv'
  <1>1. PICK enabled \in BOOLEAN :
          /\ Doing(t, IF enabled THEN "enable" ELSE "disable")
          /\ Reconfigure(t, View(t), [Entry(View(t)) EXCEPT !.enabled = enabled, !.mode = DefaultMode[View(t)], !.dirty = TRUE])
    BY DEF SetConfig
  <1> DEFINE e == [Entry(View(t)) EXCEPT !.enabled = enabled, !.mode = DefaultMode[View(t)], !.dirty = TRUE]
  <1>2. UNCHANGED <<ledger, shortcut, shutdown, valid>>
    BY DEF SetConfig, browser
  <1>3. Doing(t, IF enabled THEN "enable" ELSE "disable") /\ Reconfigure(t, View(t), e)
    BY <1>1
  <1> HIDE DEF e
  <1>4. (IF enabled THEN "enable" ELSE "disable") \in Entering \cup Asking
    BY DEF Entering
  <1>5. CASE shutdown
    <2>1. Abandon(t) /\ entries' = entries
      BY <1>3, <1>5 DEF Reconfigure
    <2>2. t # "input" /\ todo[t] # <<>> /\ Head(todo[t]).op \notin {"remove", "recheck", "reset"}
      BY <1>3, <1>4, Behind
    <2> QED BY <1>2, <2>1, <2>2, Stepping
  <1>6. CASE ~shutdown
    <2>1. entries' = [entries EXCEPT ![View(t)] = e] /\ Done(t)
      BY <1>3, <1>6 DEF Reconfigure
    <2>2. /\ t # "input" /\ View(t) \in Views /\ todo[t] # <<>> /\ Head(todo[t]).op \notin {"remove", "recheck", "reset"}
          /\ todo'[t] \in Seq(CalmOps) /\ Covering(todo'[t], View(t)) /\ \A u \in InputThreads \ {t} : todo'[u] = todo[u]
      BY <1>3, <1>4, <2>1, Behind
    <2>3. \A w \in Views \ {View(t)} : Gone(w) => Gone(w)'
      BY <1>2, <2>1 DEF Gone, PInv, Rest
    <2> QED BY <1>2, <1>6, <2>2, <2>3, PuttingIn
  <1> QED BY <1>5, <1>6

LEMMA GonePageReady ==
  ASSUME PInv, VInv, NEW t \in InputThreads, PageReady(t)
  PROVE  VInv'
  <1> DEFINE e == [Entry(View(t)) EXCEPT !.page = Head(todo[t]).page, !.dirty = TRUE]
  <1>2. UNCHANGED <<ledger, shortcut, shutdown, valid>>
    BY DEF PageReady, browser
  <1>3. /\ Doing(t, "ready")
        /\ IF shutdown THEN Abandon(t) /\ entries' = entries ELSE Done(t) /\ entries' = [entries EXCEPT ![View(t)] = e]
    BY DEF PageReady
  <1> HIDE DEF e
  <1>4. "ready" \in Entering \cup Asking
    BY DEF Asking
  <1>5. CASE shutdown
    <2>2. t # "input" /\ todo[t] # <<>> /\ Head(todo[t]).op \notin {"remove", "recheck", "reset"}
      BY <1>3, <1>4, Behind
    <2> QED BY <1>2, <1>3, <1>5, <2>2, Stepping
  <1>6. CASE ~shutdown
    <2>2. /\ t # "input" /\ View(t) \in Views /\ todo[t] # <<>> /\ Head(todo[t]).op \notin {"remove", "recheck", "reset"}
          /\ todo'[t] \in Seq(CalmOps) /\ Covering(todo'[t], View(t)) /\ \A u \in InputThreads \ {t} : todo'[u] = todo[u]
      BY <1>3, <1>4, <1>6, Behind
    <2>3. \A w \in Views \ {View(t)} : Gone(w) => Gone(w)'
      BY <1>2, <1>3, <1>6 DEF Gone, PInv, Rest
    <2> QED BY <1>2, <1>6, <2>2, <2>3, PuttingIn
  <1> QED BY <1>5, <1>6

LEMMA GonePageMode ==
  ASSUME PInv, VInv, NEW t \in InputThreads, PageMode(t)
  PROVE  VInv'
  <1> DEFINE v == View(t)
             e == Entry(v)
  <1>1. PICK m \in {"navigation", "cursor"} :
          /\ Doing(t, m)
          /\ \/ shutdown /\ Abandon(t) /\ entries' = entries
             \/ ~shutdown /\ e.page # Head(todo[t]).page /\ Done(t) /\ entries' = [entries EXCEPT ![v] = e]
             \/ ~shutdown /\ e.page = Head(todo[t]).page /\ ~e.enabled /\ Abandon(t) /\ entries' = entries
             \/ ~shutdown /\ e.page = Head(todo[t]).page /\ e.enabled /\ Instead(t, <<Op("reset", v)>>)
                /\ entries' = [entries EXCEPT ![v] = [e EXCEPT !.mode = m, !.dirty = TRUE]]
    BY Zenon DEF PageMode
  <1>2. UNCHANGED <<ledger, shortcut, shutdown, valid>>
    BY DEF PageMode, browser
  <1> DEFINE f == [e EXCEPT !.mode = m, !.dirty = TRUE]
  <1>3. \/ Abandon(t) /\ entries' = entries
        \/ ~shutdown /\ Done(t) /\ entries' = [entries EXCEPT ![v] = e]
        \/ ~shutdown /\ Instead(t, <<Op("reset", v)>>) /\ entries' = [entries EXCEPT ![v] = f]
    BY <1>1
  <1>4. m \in Asking /\ m \in Entering \cup Asking
    BY DEF Asking
  <1>5. /\ t # "input" /\ v \in Views /\ todo[t] # <<>> /\ Head(todo[t]).op \notin {"remove", "recheck", "reset"}
        /\ Tail(todo[t]) \in Seq(CalmOps) /\ Covering(Tail(todo[t]), v) /\ Covering(<<Op("reset", v)>> \o Tail(todo[t]), v)
    BY <1>1, <1>4, Behind
  <1>6. /\ Done(t) => todo'[t] = Tail(todo[t]) /\ \A u \in InputThreads \ {t} : todo'[u] = todo[u]
        /\ Instead(t, <<Op("reset", v)>>) => /\ todo'[t] = <<Op("reset", v)>> \o Tail(todo[t])
                                           /\ \A u \in InputThreads \ {t} : todo'[u] = todo[u]
    BY <1>1, <1>4, Behind
  <1>7. <<Op("reset", v)>> \o Tail(todo[t]) \in Seq(CalmOps)
    <2>1. <<Op("reset", v)>> \in Seq(CalmOps)
      BY <1>5, Calmly DEF Going
    <2> QED BY <1>5, <2>1, Joined
  <1> HIDE DEF v, e, f
  <1>8. CASE Abandon(t) /\ entries' = entries
    BY <1>2, <1>5, <1>8, Stepping
  <1>9. CASE ~shutdown /\ Done(t) /\ entries' = [entries EXCEPT ![v] = e]
    <2>1. todo'[t] \in Seq(CalmOps) /\ Covering(todo'[t], v) /\ \A u \in InputThreads \ {t} : todo'[u] = todo[u]
      BY <1>5, <1>6, <1>9
    <2>2. \A w \in Views \ {v} : Gone(w) => Gone(w)'
      BY <1>2, <1>9 DEF Gone, PInv, Rest
    <2> QED BY <1>2, <1>5, <1>9, <2>1, <2>2, PuttingIn
  <1>10. CASE ~shutdown /\ Instead(t, <<Op("reset", v)>>) /\ entries' = [entries EXCEPT ![v] = f]
    <2>1. todo'[t] \in Seq(CalmOps) /\ Covering(todo'[t], v) /\ \A u \in InputThreads \ {t} : todo'[u] = todo[u]
      BY <1>5, <1>6, <1>7, <1>10
    <2>2. \A w \in Views \ {v} : Gone(w) => Gone(w)'
      BY <1>2, <1>10 DEF Gone, PInv, Rest
    <2> QED BY <1>2, <1>5, <1>10, <2>1, <2>2, PuttingIn
  <1> QED BY <1>3, <1>8, <1>9, <1>10

LEMMA GoneRegister ==
  ASSUME PInv, VInv, NEW t \in InputThreads, Register(t)
  PROVE  VInv'
  <1>1. /\ Doing(t, "register") /\ UNCHANGED <<ledger, entries, shutdown, valid>>
        /\ \/ Abandon(t) /\ shortcut' = shortcut
           \/ ~shutdown /\ Done(t) /\ shortcut' = [id |-> work + 1, view |-> View(t)]
    BY DEF Register, browser
  <1>2. "register" \in Entering \cup Asking
    BY DEF Entering
  <1>3. t # "input" /\ View(t) \in Views /\ todo[t] # <<>> /\ Head(todo[t]).op \notin {"remove", "recheck", "reset"}
    BY <1>1, <1>2, Behind
  <1>4. CASE Abandon(t) /\ shortcut' = shortcut
    BY <1>1, <1>3, <1>4, Stepping
  <1>5. CASE ~shutdown /\ Done(t) /\ shortcut' = [id |-> work + 1, view |-> View(t)]
    <2>1. todo'[t] \in Seq(CalmOps) /\ Covering(todo'[t], View(t)) /\ \A u \in InputThreads \ {t} : todo'[u] = todo[u]
      BY <1>1, <1>2, <1>5, Behind
    <2>2. \A w \in Views \ {View(t)} : Gone(w) => Gone(w)'
      BY <1>1, <1>5 DEF Gone
    <2> QED BY <1>1, <1>3, <1>5, <2>1, <2>2, PuttingIn
  <1> QED BY <1>1, <1>4, <1>5

\* A view that is forgotten is gone, and nobody comes back.
LEMMA ViewRemoved ==
  ASSUME PInv, Silenced, NEW v \in Views, ForgetView(v), shutdown' = shutdown
  PROVE  Gone(v)' /\ Silenced' /\ \A w \in Views : Gone(w) => Gone(w)'
  <1>1. /\ entries' = [entries EXCEPT ![v] = Absent]
        /\ shortcut' = IF shortcut.view = v THEN NoShortcut ELSE shortcut
        /\ ledger' = IF ledger.owner = v THEN SetOwner(ledger, NoView) ELSE ledger
    BY DEF ForgetView
  <1>2. SetOwner(ledger, NoView).owner = NoView
    <2>1. NoView \in Views \cup {NoView} /\ ledger \in Ledger(Views)
      BY DEF PInv, Held01
    <2> QED BY <2>1, Owning
  <1>3. ledger'.owner = IF ledger.owner = v THEN NoView ELSE ledger.owner
    BY <1>1, <1>2
  <1>4. NoShortcut.view = NoView /\ NoView \notin Views
    BY InputAssumption DEF NoShortcut
  <1>5. \A w \in Views : entries'[w] = IF w = v THEN Absent ELSE entries[w]
    BY <1>1 DEF PInv, Rest
  <1>6. Gone(v)'
    BY <1>1, <1>3, <1>4, <1>5 DEF Gone
  <1>7. \A w \in Views : Gone(w) => Gone(w)'
    BY <1>1, <1>3, <1>4, <1>5 DEF Gone
  <1>8. Silenced'
    BY <1>1, <1>3, <1>5 DEF Silenced
  <1> QED BY <1>6, <1>7, <1>8

LEMMA GoneRemoveView ==
  ASSUME PInv, VInv, NEW t \in InputThreads, RemoveView(t) \/ Recheck(t)
  PROVE  VInv'
  <1>1. PICK name \in {"remove", "recheck"} : Doing(t, name)
    BY DEF RemoveView, Recheck
  <1>2. Done(t) /\ UNCHANGED <<shutdown, valid>>
    BY DEF RemoveView, Recheck, browser
  <1>3. ForgetView(View(t)) \/ (valid[View(t)] /\ UNCHANGED <<entries, shortcut, ledger>>)
    BY DEF RemoveView, Recheck, Stays
  <1>4. t # "input"
    BY <1>1, NotInput DEF Steps
  <1>5. View(t) \in Views /\ todo[t] # <<>> /\ Head(todo[t]).op = name
    BY <1>1, Doings
  <1>a. PICK v \in Views : v = View(t)
    BY <1>5
  <1>6. todo[t] \in Seq(Ops) /\ Shaped(todo[t]) /\ todo \in [InputThreads -> Seq(Ops)]
    BY DEF PInv, Rest, VInv, Shape
  <1>7. todo'[t] \in Seq(CalmOps) /\ \A u \in InputThreads \ {t} : todo'[u] = todo[u]
    BY <1>2, <1>5, <1>6 DEF Shaped, Done
  <1>8. Shape'
    BY <1>4, <1>7, CalmShaped, Reshaped DEF VInv
  <1>9. Silenced' /\ (\A w \in Views : Gone(w) => Gone(w)') /\ (Gone(v)' \/ valid[v])
    <2>1. CASE ForgetView(v)
      BY <1>2, <2>1, ViewRemoved DEF VInv
    <2>2. CASE valid[v] /\ UNCHANGED <<entries, shortcut, ledger>>
      BY <1>2, <2>2 DEF VInv, Silenced, Gone
    <2> QED BY <1>3, <1>a, <2>1, <2>2
  <1>10. \A w \in Views : Covering(todo[t], w) => w = v
    <2>1. todo[t][1] = Head(todo[t]) /\ View(t) = Head(todo[t]).view
      BY <1>6 DEF View
    <2> QED BY <1>5, <1>a, <2>1 DEF Covering, Forgets
  <1>11. Covered'
    BY <1>2, <1>7, <1>9, <1>10, StillCovered DEF VInv
  <1> QED BY <1>8, <1>9, <1>11 DEF VInv

LEMMA GoneGoAway ==
  ASSUME PInv, VInv, NEW t \in InputThreads, GoAway(t)
  PROVE  VInv'
  <1>1. PICK name \in {"close", "disown"} : Doing(t, name)
    BY DEF GoAway
  <1>2. View(t) \in Views /\ todo[t] # <<>> /\ Head(todo[t]).op = name /\ t # "input"
    BY <1>1, Doings, NotInput DEF Steps
  <1>3. Lost(View(t), FALSE) \in Seq(CalmOps)
    BY <1>2, CalmLost
  <1>4. (Instead(t, Lost(View(t), FALSE)) \/ Done(t)) /\ UNCHANGED <<service, valid>>
    BY DEF GoAway
  <1> QED BY <1>2, <1>3, <1>4, Stepping DEF service

\* Steps that only give something to deliver.
LEMMA GoneGiven ==
  ASSUME PInv, VInv, NEW t \in InputThreads,
         Unload(t) \/ ReleasePointer(t) \/ SendControllerPacket(t) \/ ControllerPointer(t) \/ FireShortcut(t)
  PROVE  VInv'
  <1>1. PICK name \in {"unload", "release", "post", "pointer", "fire"} : Doing(t, name)
    BY DEF Unload, ReleasePointer, SendControllerPacket, ControllerPointer, FireShortcut
  <1>2. todo[t] # <<>> /\ Head(todo[t]).op = name
    BY <1>1, Doings
  <1>3. Done(t) /\ UNCHANGED <<ledger, entries, shortcut, shutdown, valid>>
    BY DEF Unload, ReleasePointer, SendControllerPacket, ControllerPointer, FireShortcut, service, browser
  <1> QED BY <1>2, <1>3, Stepping

\* Once the reset is done, the second look is next.
LEMMA GoneInvalidate ==
  ASSUME PInv, VInv, NEW t \in InputThreads, Invalidate(t)
  PROVE  VInv'
  <1>1. PICK name \in {"invalidate", "reset"} : Doing(t, name)
    BY DEF Invalidate
  <1>2. todo[t] # <<>> /\ Head(todo[t]).op = name /\ t # "input"
    BY <1>1, Doings, NotInput DEF Steps
  <1>3. Done(t) /\ UNCHANGED <<ledger, entries, shortcut, shutdown, valid>>
    BY DEF Invalidate, service, browser
  <1> DEFINE s == todo[t]
             r == Tail(s)
  <1>4. s \in Seq(Ops) /\ Shaped(s) /\ todo \in [InputThreads -> Seq(Ops)] /\ s[1] = Head(s)
    BY <1>2 DEF PInv, Rest, VInv, Shape
  <1>5. r \in Seq(CalmOps)
    BY <1>2, <1>4 DEF Shaped
  <1>6. todo'[t] = r /\ \A u \in InputThreads \ {t} : todo'[u] = todo[u]
    BY <1>3, <1>4 DEF Done
  <1>7. Len(r) = Len(s) - 1 /\ (Len(s) >= 2 => r[1] = s[2])
    BY <1>2, <1>4, TailAt
  <1>8. s # <<>> /\ s[1].op = name
    BY <1>2, <1>4
  <1> HIDE DEF s, r
  <1>9. Len(r) >= 1 => r # <<>>
    BY <1>5
  <1>10. \A w \in Views : Covering(s, w) => Covering(r, w)
    <2> SUFFICES ASSUME NEW w \in Views, Covering(s, w) PROVE Covering(r, w)
      OBVIOUS
    <2>1. ~Forgets(s[1], w)
      BY <1>8 DEF Forgets
    <2>2. Len(s) >= 2 /\ Forgets(s[2], w)
      BY <2>1 DEF Covering
    <2>3. r[1] = s[2] /\ Len(r) >= 1
      BY <1>4, <1>7, <2>2
    <2> QED BY <1>9, <2>2, <2>3 DEF Covering
  <1>11. Shape'
    BY <1>2, <1>5, <1>6, CalmShaped, Reshaped DEF VInv
  <1>12. Silenced' /\ \A w \in Views : Gone(w) => Gone(w)'
    BY <1>3 DEF VInv, Silenced, Gone
  <1>13. Covered'
    <2>1. valid' = valid
      BY <1>3
    <2>2. \A w \in Views : Covering(todo[t], w) => Covering(todo'[t], w)
      BY <1>6, <1>10 DEF s
    <2> QED BY <1>6, <1>12, <2>1, <2>2, StillCovered DEF VInv
  <1> QED BY <1>11, <1>12, <1>13 DEF VInv

\* An entry is only left, never made.
LEMMA GoneCancelBrowser ==
  ASSUME PInv, VInv, NEW t \in InputThreads, CancelBrowser(t)
  PROVE  VInv'
  <1> DEFINE v == View(t)
             e == entries[v]
             led == IF ledger.owner = v THEN SetOwner(ledger, NoView) ELSE ledger
             packet == [page |-> e.page, generation |-> led.generation, sequence |-> sequence + 1,
                        active |-> FALSE, presses |-> {}]
             task == [kind |-> "packet", view |-> v, epoch |-> epoch[v], packet |-> packet]
             left(page_) == [e EXCEPT !.dirty = TRUE, !.epoch = 0, !.page = page_]
  <1>1. PICK navigation \in BOOLEAN :
          /\ Doing(t, IF navigation THEN "cancelPage" ELSE "cancel")
          /\ IF e = Absent THEN UNCHANGED <<ledger, entries>>
             ELSE /\ ledger' = led
                  /\ entries' = [entries EXCEPT ![v] = left(IF navigation THEN 0 ELSE e.page)]
          /\ IF e.page = 0 THEN UNCHANGED <<sequence, epoch, pending, releaseQueued, tasks, lost>>
             ELSE sequence' = sequence + 1 /\ Send(v, task)
    BY Zenon DEF CancelBrowser
  <1>2. v \in Views /\ todo[t] # <<>> /\ Head(todo[t]).op \notin {"remove", "recheck", "reset"}
    BY <1>1, Doings
  <1>3. Done(t) /\ UNCHANGED <<shortcut, shutdown, valid>>
    BY DEF CancelBrowser, browser
  <1>4. SetOwner(ledger, NoView).owner = NoView
    <2>1. NoView \in Views \cup {NoView} /\ ledger \in Ledger(Views)
      BY DEF PInv, Held01
    <2> QED BY <2>1, Owning
  <1>5. ledger'.owner = ledger.owner \/ ledger'.owner = NoView
    BY <1>1, <1>4
  <1>6. \A w \in Views : entries[w] = Absent => entries'[w] = Absent
    BY <1>1, <1>2 DEF PInv, Rest
  <1>7. \A w \in Views : Gone(w) => Gone(w)'
    BY <1>3, <1>5, <1>6, InputAssumption DEF Gone
  <1>8. Silenced'
    BY <1>3, <1>5, <1>6 DEF VInv, Silenced
  <1> QED BY <1>2, <1>3, <1>7, <1>8, Passing

\* The input thread takes nothing out and puts nothing in.
LEMMA OfInput ==
  ASSUME PInv, VInv, todo'["input"] \in Seq(StepOps), \A u \in InputThreads \ {"input"} : todo'[u] = todo[u],
         valid' = valid, Silenced', \A v \in Views : Gone(v) => Gone(v)'
  PROVE  VInv'
  <1>1. "input" \in InputThreads /\ todo["input"] \in Seq(StepOps)
    BY DEF InputThreads, VInv, Shape
  <1>2. todo'["input"] \in Seq(CalmOps)
    BY CalmSets
  <1>3. Shape'
    BY <1>1, <1>2, CalmShaped, Reshaped DEF VInv
  <1>4. \A v \in Views : ~Covering(todo["input"], v)
    <2> SUFFICES ASSUME todo["input"] # <<>> PROVE todo["input"][1].op \notin {"remove", "recheck", "reset"}
      BY DEF Covering, Forgets
    <2>1. todo["input"][1] \in StepOps
      BY <1>1
    <2> QED BY <2>1 DEF StepOps, PointerOps, PostOps, FireOps
  <1>5. Covered'
    BY <1>1, <1>4, StillCovered DEF VInv
  <1> QED BY <1>3, <1>5 DEF VInv

LEMMA GoneSupersede ==
  ASSUME PInv, VInv, Supersede
  PROVE  VInv'
  <1>0. "input" \in InputThreads
    BY DEF InputThreads
  <1> DEFINE v == View("input")
             s == todo["input"]
             n == epoch[v] + 1
             readdressed == [i \in 1..(Len(s) - 1) |-> Readdressed(s[i + 1], v, n)]
  <1>1. v \in Views /\ s # <<>>
    BY <1>0, Doings DEF Supersede
  <1>2. s \in Seq(StepOps) /\ n \in Nat /\ todo \in [InputThreads -> Seq(Ops)]
    BY <1>0, <1>1 DEF PInv, Rest, VInv, Shape
  <1>3. readdressed \in Seq(StepOps)
    <2>1. \A op \in StepOps : Readdressed(op, v, n) \in StepOps
      <3> TAKE op \in StepOps
      <3>1. CASE op.op # "post"
        BY <3>1 DEF Readdressed
      <3>2. CASE op.op = "post"
        <4>1. op \in PostOps
          BY <3>2 DEF StepOps, PointerOps, FireOps
        <4>2. [op EXCEPT !.epoch = n] \in PostOps
          BY <1>2, <4>1 DEF PostOps
        <4> QED BY <4>2 DEF Readdressed, StepOps
      <3> QED BY <3>1, <3>2
    <2>2. Len(s) - 1 \in Nat /\ \A i \in 1..(Len(s) - 1) : s[i + 1] \in StepOps
      BY <1>1, <1>2
    <2> HIDE DEF s, v, n
    <2>3. readdressed \in [1..(Len(s) - 1) -> StepOps]
      BY <2>1, <2>2
    <2> HIDE DEF readdressed
    <2> QED BY <2>2, <2>3
  <1>4. todo' = [todo EXCEPT !["input"] = readdressed]
    BY Zenon DEF Supersede
  <1>5. UNCHANGED <<ledger, entries, shortcut, shutdown, valid>>
    BY DEF Supersede, service, browser
  <1> HIDE DEF readdressed
  <1>6. todo'["input"] = readdressed /\ \A u \in InputThreads \ {"input"} : todo'[u] = todo[u]
    BY <1>0, <1>2, <1>4
  <1>7. Silenced' /\ \A w \in Views : Gone(w) => Gone(w)'
    BY <1>5 DEF VInv, Silenced, Gone
  <1> QED BY <1>3, <1>5, <1>6, <1>7, OfInput

\* The owner a batch finds has an entry, and a batch makes none.
LEMMA GoneDecide ==
  ASSUME PInv, VInv, Decide
  PROVE  VInv'
  <1>1. PICK now \in Inputs, mouseMoved \in {FALSE, gamepad}, due \in {FALSE, ledger.repeat # None} :
        LET b == Routed(now, mouseMoved, due, Edge(now))
        IN  /\ ledger' = b.led /\ gamepad' = b.pad /\ connected' = route.connected
            /\ openerPending' = (openerPending \/ b.fires)
            /\ sequence' = sequence + Cardinality(Told(b))
            /\ entries' = [v \in Views |->
                   IF v = Owner THEN [entries[v] EXCEPT !.mode = b.mode, !.epoch = route.epochs[v], !.dirty = FALSE]
                   ELSE IF v \in Told(b) THEN [entries[v] EXCEPT !.dirty = FALSE] ELSE entries[v]]
            /\ todo' = [todo EXCEPT !["input"] = Afterwards(b)]
            /\ phys' = now /\ since' = Edge(now)
            /\ game' = [c \in Controls |-> IF ~route.connected THEN 0 ELSE IF c \in b.consumed THEN game[c] ELSE now[c]]
    BY Deciding, Zenon
  <1>2. Answers /\ Held01 /\ Device /\ GamePaired /\ ~shutdown /\ shutdown' = shutdown /\ shortcut' = shortcut /\ valid' = valid
    BY Answering DEF PInv, Decide, browser
  <1>3. mouseMoved \in BOOLEAN /\ due \in BOOLEAN
    BY <1>2 DEF Answers
  <1> DEFINE b == Routed(now, mouseMoved, due, Edge(now))
  <1>4. /\ b \in BatchOf /\ b.led.owner = Owner
        /\ \A i \in 1..Len(b.events) : b.events[i].phase = "press" => b.events[i].since = b.led.generation
    BY <1>2, <1>3, Routing
  <1>5. /\ ledger' = b.led
        /\ entries' = [v \in Views |->
               IF v = Owner THEN [entries[v] EXCEPT !.mode = b.mode, !.epoch = route.epochs[v], !.dirty = FALSE]
               ELSE IF v \in Told(b) THEN [entries[v] EXCEPT !.dirty = FALSE] ELSE entries[v]]
        /\ todo' = [todo EXCEPT !["input"] = Afterwards(b)]
    BY <1>1
  <1> HIDE DEF b
  <1>6. Afterwards(b) \in Seq(StepOps)
    BY <1>4, Following
  <1>7. todo'["input"] = Afterwards(b) /\ \A u \in InputThreads \ {"input"} : todo'[u] = todo[u]
    BY <1>5 DEF PInv, Rest, InputThreads
  <1>8. \A v \in Views : entries[v] = Absent => v # Owner /\ v \notin Told(b)
    <2>1. NoView \notin Views
      BY InputAssumption
    <2> QED BY <2>1 DEF Owner, Told
  <1>9. \A v \in Views : entries[v] = Absent => entries'[v] = Absent
    BY <1>5, <1>8
  <1>10. ledger'.owner = Owner
    BY <1>4, <1>5
  <1>11. \A v \in Views : Gone(v) => Gone(v)'
    BY <1>2, <1>8, <1>9, <1>10 DEF Gone
  <1>12. Silenced'
    BY <1>2 DEF Silenced
  <1> QED BY <1>2, <1>6, <1>7, <1>11, <1>12, OfInput

LEMMA VInvInit ==
  ASSUME InputInit
  PROVE  VInv
  <1>1. shutdown = FALSE /\ valid = [v \in Views |-> TRUE] /\ todo = [t \in InputThreads |-> <<>>]
    BY DEF InputInit
  <1>2. Shape
    BY <1>1 DEF Shape, Shaped, InputThreads
  <1>3. Silenced /\ Covered
    BY <1>1 DEF Silenced, Covered
  <1> QED BY <1>2, <1>3 DEF VInv

LEMMA VInvNext ==
  ASSUME PInv, VInv, [InputNext]_inputVars
  PROVE  VInv'
  <1>1. CASE UNCHANGED inputVars
    BY <1>1, Resting DEF inputVars, service, browser
  <1>2. ASSUME NEW t \in Callers, Calls(t)
        PROVE  VInv'
    <2>1. ASSUME NEW v \in Views, NEW enabled \in BOOLEAN, Configure(t, v, enabled) PROVE VInv'
      BY <2>1, GoneConfigure
    <2>2. ASSUME NEW v \in Views, RegisterShortcut(t, v) PROVE VInv'
      BY <2>2, GoneRegisterShortcut
    <2>3. ASSUME NEW v \in Views, DestroyView(t, v) PROVE VInv'
      BY <2>3, GoneDestroyView
    <2>4. ASSUME NEW v \in Views, ClaimFocus(t, v) PROVE VInv'
      BY <2>4, GoneClaim
    <2>5. CASE UnregisterShortcut(t)
      BY <2>5, GoneUnregisterShortcut
    <2>6. CASE ReleaseFocus(t)
      BY <2>6, GoneRelease
    <2>7. CASE WindowInactive(t)
      BY <2>7, GoneWindowInactive
    <2>8. CASE WindowActive(t)
      BY <2>8, Resting DEF WindowActive, service
    <2>9. CASE Shutdown(t)
      BY <2>9, GoneShutdown
    <2> QED BY <1>2, <2>1, <2>2, <2>3, <2>4, <2>5, <2>6, <2>7, <2>8, <2>9 DEF Calls
  <1>3. CASE PageCalls
    <2>1. ASSUME NEW v \in Views, NEW request \in Asking, NEW d \in {doc[v], doc[v] - 1}, PageRequest(v, request, d) PROVE VInv'
      BY <2>1, GonePageRequest
    <2>2. ASSUME NEW v \in Views, NEW crashed \in BOOLEAN, MainFrameLoadStart(v, crashed) PROVE VInv'
      BY <2>2, GoneMainFrameLoadStart
    <2>3. ASSUME NEW v \in Views, MainFrameLoadEnd(v) PROVE VInv'
      BY <2>3, Resting DEF MainFrameLoadEnd, service
    <2> QED BY <1>3, <2>1, <2>2, <2>3 DEF PageCalls, Asking
  <1>4. ASSUME NEW t \in InputThreads, CallStep(t)
        PROVE  VInv'
    <2>1. CASE SetConfig(t)
      BY <2>1, GoneSetConfig
    <2>2. CASE PageReady(t)
      BY <2>2, GonePageReady
    <2>3. CASE PageMode(t)
      BY <2>3, GonePageMode
    <2>4. CASE Register(t)
      BY <2>4, GoneRegister
    <2>5. CASE RemoveView(t) \/ Recheck(t)
      BY <2>5, GoneRemoveView
    <2>6. CASE CancelBrowser(t)
      BY <2>6, GoneCancelBrowser
    <2>7. CASE GoAway(t)
      BY <2>7, GoneGoAway
    <2>8. CASE Invalidate(t)
      BY <2>8, GoneInvalidate
    <2>9. CASE Unload(t) \/ ReleasePointer(t) \/ SendControllerPacket(t) \/ ControllerPointer(t) \/ FireShortcut(t)
      BY <2>9, GoneGiven
    <2> QED BY <1>4, <2>1, <2>2, <2>3, <2>4, <2>5, <2>6, <2>7, <2>8, <2>9 DEF CallStep
  <1>5. CASE RunTask \/ AdmitOpener \/ Snapshot \/ Look \/ RoutesNothing
    <2>1. UNCHANGED <<ledger, entries, shortcut, shutdown, valid, todo>>
      BY <1>5 DEF RunTask, AdmitOpener, Snapshot, Look, RoutesNothing, service, browser
    <2> QED BY <2>1, Resting
  <1>6. CASE Supersede \/ CallOpener \/ Decide
    BY <1>6, GoneSupersede, GoneCallOpener, GoneDecide
  <1> QED BY <1>1, <1>2, <1>3, <1>4, <1>5, <1>6 DEF InputNext

\* Nothing of a destroyed view survives the calls that were under way when it went: the
\* second look of the call that put it in, or the removal, has taken it out.
THEOREM DeadViewsAreForgotten == InputSpec => []NothingOfDeadViews
  <1>1. InputInit => VInv
    BY VInvInit
  <1>2. PInv /\ VInv /\ [InputNext]_inputVars => VInv'
    BY VInvNext
  <1>3. VInv => NothingOfDeadViews
    <2> SUFFICES ASSUME VInv, \A t \in InputThreads : todo[t] = <<>>, NEW v \in Views, ~valid[v] PROVE Gone(v)
      BY DEF NothingOfDeadViews, Gone
    <2>1. \A t \in InputThreads : ~Covering(todo[t], v)
      BY DEF Covering
    <2> QED BY <2>1 DEF VInv, Covered
  <1> QED BY <1>1, <1>2, <1>3, PInvHolds, PTL DEF InputSpec
=============================================================================
