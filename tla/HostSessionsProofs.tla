------------------------- MODULE HostSessionsProofs -------------------------
(***************************************************************************)
(* Theorems about HostSessions, for any number of launches and any         *)
(* capacity of the streams.                                                *)
(***************************************************************************)
EXTENDS HostSessions, TLAPS

USE ProtocolAssumption, SessionsAssumption

\* What a stream delivers: an event that there is a case for, or its own end.
Message == {e \in HookEvent \cup {Err} : e.kind # "None"}

SessionsInv ==
  /\ SessionsTypeOK
  /\ inbox \in [Sessions -> Seq(Message)]

EndDue(messages) == \E i \in 1..Len(messages) : messages[i] = Err

\* The session that the application holds was handed to it, and when its stream
\* has ended, the Err that takes it away is still due.
SessionEnds ==
  app.session # NoSession =>
    LET s == app.session IN
    /\ attempt[s] \in {"stream", "over"}
    /\ attempt[s] = "over" => EndDue(inbox[s])

------------------------------------------------------------------------------
(* Types. *)

LEMMA MessageType ==
  /\ Err \in Message
  /\ \A k \in ErrorKinds \cup {"CaptureStarted"} : Control(k) \in Message
  /\ \A m \in Message : m = Err \/ (m \in HookEvent /\ m.kind # "None")
BY DEF Message, Err, Control, HookEvent, EventKinds, ErrorKinds

LEMMA StartedType == StartedApp \in App /\ NoSession \in Nat
BY DEF StartedApp, App, ConnectionState, NoSession, NoEvent, Control, HookEvent

\* handle_hook_event, whatever the event, stays within App and its session.
LEMMA EventHandled ==
  ASSUME NEW a \in App, NEW e \in HookEvent, e.kind # "None"
  PROVE  HandleHookEvent(a, e) \in App /\ HandleHookEvent(a, e).session = a.session
<1>1. e.kind \in EventKinds
  BY DEF HookEvent
<1>2. \A c \in ConnectionState : [a EXCEPT !.connection = c] \in App
                               /\ [a EXCEPT !.connection = c].session = a.session
  BY DEF App
<1>3. ShowTimeline(a, e) \in App /\ ShowTimeline(a, e).session = a.session
  BY DEF ShowTimeline, App, NoEvent, Control, HookEvent
<1>4. [a EXCEPT !.playback = e] \in App /\ [a EXCEPT !.playback = e].session = a.session
  BY DEF App
<1>5. HandleHookEvent(a, e) \in {[a EXCEPT !.connection = c] : c \in ConnectionState}
                                \cup {ShowTimeline(a, e), [a EXCEPT !.playback = e], a}
  BY <1>1 DEF HandleHookEvent, EventKinds, ErrorKinds, ConnectionState
<1> QED
  BY <1>2, <1>3, <1>4, <1>5

LEMMA MessagesAreTyped ==
  ASSUME NEW q \in Seq(Message)
  PROVE  q \in Seq(HookEvent \cup {Err})
BY DEF Message

LEMMA EmitsType ==
  ASSUME SessionsInv, NEW s \in Sessions, NEW e \in Message, Emits(s, e)
  PROVE  /\ inbox' \in [Sessions -> Seq(Message)]
         /\ \A t \in Sessions : Len(inbox'[t]) <= InboxCap
<1>1. inbox[s] \in Seq(Message) /\ Len(inbox[s]) < InboxCap
  BY DEF SessionsInv, Emits
<1>2. Append(inbox[s], e) \in Seq(Message) /\ Len(Append(inbox[s], e)) <= InboxCap
  BY <1>1
<1> QED
  BY <1>2 DEF SessionsInv, SessionsTypeOK, Emits

LEMMA SessionsInit == Init => SessionsInv
<1> SUFFICES ASSUME Init PROVE SessionsInv
  OBVIOUS
<1>1. app \in App /\ app.session = NoSession
  BY StartedType DEF Init, StartedApp
<1>2. <<>> \in Seq(Message) /\ <<>> \in Seq(HookEvent \cup {Err}) /\ Len(<<>>) <= InboxCap
  OBVIOUS
<1> QED
  BY <1>1, <1>2 DEF Init, SessionsInv, SessionsTypeOK

\* The application's record after each of its handlers.
LEMMA HandlersType ==
  ASSUME NEW a \in App, a.session \in {NoSession} \cup Sessions
  PROVE  /\ Launch(a) \in App /\ Launch(a).session = a.session
         /\ ConnectedErr(a) \in App /\ ConnectedErr(a).session = a.session
         /\ Disconnect(a) \in App /\ Disconnect(a).session = NoSession
         /\ HookDisconnected(a) \in App /\ HookDisconnected(a).session = NoSession
         /\ \A s \in Sessions : ConnectedOk(a, s) \in App /\ ConnectedOk(a, s).session = s
<1>1. Launch(a) \in App /\ Launch(a).session = a.session
  BY DEF Launch, App, ConnectionState
<1>2. ConnectedErr(a) \in App /\ ConnectedErr(a).session = a.session
  BY DEF ConnectedErr, App, ConnectionState
<1>3. Disconnect(a) \in App /\ Disconnect(a).session = NoSession
  BY StartedType DEF Disconnect, StartedApp
<1>4. HookDisconnected(a) \in App /\ HookDisconnected(a).session = NoSession
  BY DEF HookDisconnected, App, ConnectionState, NoSession
<1>5. ASSUME NEW s \in Sessions
      PROVE  ConnectedOk(a, s) \in App /\ ConnectedOk(a, s).session = s
  <2>1. s \in Nat
    BY DEF Sessions
  <2> QED
    BY <2>1 DEF ConnectedOk, App, ConnectionState
<1> QED
  BY <1>1, <1>2, <1>3, <1>4, <1>5

\* The application takes the head of a stream.
LEMMA EventTaken ==
  ASSUME SessionsInv, NEW s \in Sessions, HandleEvent(s)
  PROVE  /\ app' \in App
         /\ Head(inbox[s]) = Err => app'.session = NoSession
         /\ Head(inbox[s]) # Err => app'.session = app.session
         /\ inbox' \in [Sessions -> Seq(Message)]
         /\ \A t \in Sessions : Len(inbox'[t]) <= InboxCap
<1> DEFINE e == Head(inbox[s])
<1>0. app \in App /\ app.session \in {NoSession} \cup Sessions
  BY DEF SessionsInv, SessionsTypeOK
<1>1. inbox[s] \in Seq(Message) /\ inbox[s] # <<>> /\ Len(inbox[s]) <= InboxCap
  BY DEF SessionsInv, SessionsTypeOK, HandleEvent
<1>2. e \in Message /\ Tail(inbox[s]) \in Seq(Message) /\ Len(Tail(inbox[s])) <= InboxCap
  BY <1>1
<1>3. inbox' \in [Sessions -> Seq(Message)] /\ \A t \in Sessions : Len(inbox'[t]) <= InboxCap
  BY <1>2 DEF SessionsInv, SessionsTypeOK, HandleEvent
<1>4. CASE e = Err
  <2>1. app' = HookDisconnected(app)
    BY <1>4 DEF HandleEvent
  <2> QED
    BY <1>0, <1>3, <1>4, <2>1, HandlersType
<1>5. CASE e # Err
  <2>1. app' = HandleHookEvent(app, e)
    BY <1>5 DEF HandleEvent
  <2>2. e \in HookEvent /\ e.kind # "None"
    BY <1>2, <1>5, MessageType
  <2> QED
    BY <1>0, <1>3, <1>5, <2>1, <2>2, EventHandled
<1> QED
  BY <1>4, <1>5

LEMMA SessionsStep == SessionsInv /\ [Next]_vars => SessionsInv'
<1> SUFFICES ASSUME SessionsInv, [Next]_vars PROVE SessionsInv'
  OBVIOUS
<1>0. inbox' \in [Sessions -> Seq(Message)] => inbox' \in [Sessions -> Seq(HookEvent \cup {Err})]
  BY MessagesAreTyped
<1>1. app \in App /\ app.session \in {NoSession} \cup Sessions
  BY DEF SessionsInv, SessionsTypeOK
<1> USE DEF SessionsInv, SessionsTypeOK
<1>2. ASSUME NEW s \in Sessions, Checks(s) PROVE SessionsInv'
  BY <1>2 DEF Checks, Goto
<1>3. ASSUME NEW s \in Sessions, Launches(s) PROVE SessionsInv'
  BY <1>3 DEF Launches, Goto
<1>4. ASSUME NEW s \in Sessions, HookStarts(s) PROVE SessionsInv'
  <2>1. /\ inbox' \in [Sessions -> Seq(Message)]
        /\ \A t \in Sessions : Len(inbox'[t]) <= InboxCap
    BY <1>4, EmitsType, MessageType DEF HookStarts
  <2> QED
    BY <1>0, <1>4, <2>1 DEF HookStarts
<1>5. ASSUME NEW s \in Sessions, HookEnds(s) \/ WeSingExits(s) PROVE SessionsInv'
  BY <1>5 DEF HookEnds, WeSingExits
<1>6. ASSUME NEW s \in Sessions, StreamEnds(s) PROVE SessionsInv'
  <2>1. /\ inbox' \in [Sessions -> Seq(Message)]
        /\ \A t \in Sessions : Len(inbox'[t]) <= InboxCap
    BY <1>6, EmitsType, MessageType DEF StreamEnds
  <2> QED
    BY <1>0, <1>6, <2>1 DEF StreamEnds, Goto
<1>7. ASSUME NEW s \in Sessions, HandleConnectedOk(s) PROVE SessionsInv'
  <2>1. app' \in App /\ app'.session \in {NoSession} \cup Sessions
    BY <1>1, <1>7, HandlersType DEF HandleConnectedOk
  <2> QED
    BY <1>7, <2>1 DEF HandleConnectedOk, Goto
<1>8. ASSUME NEW s \in Sessions, HandleConnectedErr(s) PROVE SessionsInv'
  <2>1. app' \in App /\ app'.session \in {NoSession} \cup Sessions
    BY <1>1, <1>8, HandlersType DEF HandleConnectedErr
  <2> QED
    BY <1>8, <2>1 DEF HandleConnectedErr, Goto
<1>9. ASSUME NEW s \in Sessions, HandleEvent(s) PROVE SessionsInv'
  BY <1>0, <1>1, <1>9, EventTaken DEF HandleEvent
<1>10. CASE UserLaunches
  <2>1. app' \in App /\ app'.session \in {NoSession} \cup Sessions
    BY <1>1, <1>10, HandlersType DEF UserLaunches
  <2> QED
    BY <1>10, <2>1 DEF UserLaunches, Goto
<1>11. CASE UserDisconnects
  <2>1. app' \in App /\ app'.session \in {NoSession} \cup Sessions
    BY <1>1, <1>11, HandlersType DEF UserDisconnects
  <2> QED
    BY <1>11, <2>1 DEF UserDisconnects
<1>12. CASE UNCHANGED vars
  BY <1>12 DEF vars
<1> QED
  BY <1>2, <1>3, <1>4, <1>5, <1>6, <1>7, <1>8, <1>9, <1>10, <1>11, <1>12
     DEF Next, Connect, Hook, Handle, Done

LEMMA SessionsInductive == Safety => []SessionsInv
BY SessionsInit, SessionsStep, PTL DEF Safety

\* However many sessions overlap, and whichever stream an event comes from, the
\* application has a case for it and keeps its type.
THEOREM SessionsTypeCorrect == Safety => []SessionsTypeOK
<1>1. SessionsInv => SessionsTypeOK
  BY DEF SessionsInv
<1> QED
  BY <1>1, SessionsInductive, PTL

------------------------------------------------------------------------------
(* What becomes of the application's session. *)

LEMMA DueAppend ==
  ASSUME NEW q \in Seq(Message), NEW e \in Message, EndDue(q) \/ e = Err
  PROVE  EndDue(Append(q, e))
<1>1. /\ Len(Append(q, e)) = Len(q) + 1 /\ Len(q) \in Nat
      /\ \A i \in 1..Len(q) : Append(q, e)[i] = q[i]
      /\ Append(q, e)[Len(q) + 1] = e
  OBVIOUS
<1>2. Len(q) + 1 \in 1..Len(Append(q, e)) /\ \A i \in 1..Len(q) : i \in 1..Len(Append(q, e))
  BY <1>1
<1> QED
  BY <1>1, <1>2 DEF EndDue

LEMMA DueTail ==
  ASSUME NEW q \in Seq(Message), q # <<>>, Head(q) # Err, EndDue(q)
  PROVE  EndDue(Tail(q))
<1>1. /\ Len(q) \in Nat \ {0} /\ Len(Tail(q)) = Len(q) - 1 /\ q[1] # Err
      /\ \A i \in 1..(Len(q) - 1) : Tail(q)[i] = q[i + 1]
  OBVIOUS
<1>2. PICK i \in 1..Len(q) : q[i] = Err
  BY DEF EndDue
<1>3. i - 1 \in 1..(Len(q) - 1) /\ (i - 1) + 1 = i
  BY <1>1, <1>2
<1> QED
  BY <1>1, <1>2, <1>3 DEF EndDue

LEMMA SessionEndsStep ==
  ASSUME SessionsInv, SessionEnds, [Next]_vars
  PROVE  SessionEnds'
<1> SUFFICES ASSUME NEW s \in Sessions, app'.session = s
             PROVE  attempt'[s] \in {"stream", "over"} /\ (attempt'[s] = "over" => EndDue(inbox'[s]))
  BY SessionsStep DEF SessionEnds, SessionsInv, SessionsTypeOK, EndDue
<1> DEFINE Goal == attempt'[s] \in {"stream", "over"} /\ (attempt'[s] = "over" => EndDue(inbox'[s]))
<1>0. /\ app \in App /\ app.session \in {NoSession} \cup Sessions /\ s # NoSession
      /\ attempt \in [Sessions -> {"none", "checking", "launching", "ok", "err", "stream", "over"}]
      /\ inbox[s] \in Seq(Message) /\ inbox \in [Sessions -> Seq(Message)]
  BY DEF SessionsInv, SessionsTypeOK, Sessions, NoSession
<1>1. app.session = s =>
        attempt[s] \in {"stream", "over"} /\ (attempt[s] = "over" => EndDue(inbox[s]))
  BY <1>0 DEF SessionEnds
<1>2. CASE UNCHANGED <<app, attempt, inbox>>
  BY <1>1, <1>2
<1>3. ASSUME NEW t \in Sessions, Connect(t) \/ HandleConnectedErr(t)
      PROVE  Goal
  <2>1. /\ app.session = s /\ attempt[t] \notin {"stream", "over"} /\ UNCHANGED inbox
        /\ \A u \in Sessions : u # t => attempt'[u] = attempt[u]
    BY <1>0, <1>3, HandlersType DEF Connect, Checks, Launches, HandleConnectedErr, Goto
  <2> QED
    BY <1>1, <2>1
<1>4. ASSUME NEW t \in Sessions, HandleConnectedOk(t)
      PROVE  Goal
  <2>1. /\ attempt[t] = "ok" /\ UNCHANGED inbox
        /\ \A u \in Sessions : u # t => attempt'[u] = attempt[u]
    BY <1>0, <1>4 DEF HandleConnectedOk, Goto
  <2>2. \/ attempt'[t] = "stream" /\ t = s
        \/ app.session = s
    BY <1>0, <1>4, HandlersType DEF HandleConnectedOk, Goto
  <2> QED
    BY <1>1, <2>1, <2>2
<1>5. ASSUME NEW t \in Sessions, HookStarts(t) \/ StreamEnds(t)
      PROVE  Goal
  <2>1. PICK e \in Message :
          Emits(t, e) /\ (attempt' = attempt \/ (e = Err /\ attempt' = [attempt EXCEPT ![t] = "over"]))
    BY <1>5, MessageType DEF HookStarts, StreamEnds, Goto
  <2>2. app.session = s
    BY <1>5 DEF HookStarts, StreamEnds
  <2>3. CASE t # s
    BY <1>0, <1>1, <2>1, <2>2, <2>3 DEF Emits
  <2>4. CASE t = s
    <3>1. inbox'[s] = Append(inbox[s], e)
      BY <1>0, <2>1, <2>4 DEF Emits
    <3> QED
      BY <1>0, <1>1, <2>1, <2>2, <2>4, <3>1, DueAppend
  <2> QED
    BY <2>3, <2>4
<1>6. ASSUME NEW t \in Sessions, HandleEvent(t)
      PROVE  Goal
  <2>1. app.session = s /\ Head(inbox[t]) # Err /\ UNCHANGED attempt
    BY <1>0, <1>6, EventTaken DEF HandleEvent
  <2>2. CASE t # s
    BY <1>0, <1>1, <1>6, <2>1, <2>2 DEF HandleEvent
  <2>3. CASE t = s
    <3>1. inbox'[s] = Tail(inbox[s]) /\ inbox[s] # <<>>
      BY <1>0, <1>6, <2>3 DEF HandleEvent
    <3> QED
      BY <1>0, <1>1, <2>1, <2>3, <3>1, DueTail
  <2> QED
    BY <2>2, <2>3
<1>7. CASE UserLaunches
  BY <1>0, <1>1, <1>7, HandlersType DEF UserLaunches, Goto
<1>8. CASE UserDisconnects
  BY <1>0, <1>8, HandlersType DEF UserDisconnects
<1>9. ASSUME NEW t \in Sessions, HookEnds(t) \/ WeSingExits(t)
      PROVE  UNCHANGED <<app, attempt, inbox>>
  BY <1>9 DEF HookEnds, WeSingExits
<1>10. CASE Done \/ UNCHANGED vars
  BY <1>2, <1>10 DEF Done, vars
<1> QED
  BY <1>2, <1>3, <1>4, <1>5, <1>6, <1>7, <1>8, <1>9, <1>10 DEF Next, Hook, Handle

\* The safe part of ExitNoticed: while the application keeps the session of a
\* WeSing whose stream has ended, that stream's Err has not been handled, and
\* will take the session away, whatever other streams deliver before it.
THEOREM EndsAreNoticed == Safety => []SessionEnds
<1>1. Init => SessionEnds
  BY DEF Init, StartedApp, SessionEnds
<1> QED
  BY <1>1, SessionEndsStep, SessionsInductive, PTL DEF Safety

=============================================================================
