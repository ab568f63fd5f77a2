-------------------------- MODULE ConnectionProofs --------------------------
(***************************************************************************)
(* Proofs about Connection for every number of connections and events.     *)
(***************************************************************************)
EXTENDS Connection, SequenceTheorems, TLAPS

\* A connected event is still to be dispatched; a disconnected event is.
Opening == events # <<>> /\ events[1].id = "connected"
Ending  == events # <<>> /\ events[Len(events)].id = "disconnected"

\* All events that wait are of the latest connection; it begins with connected
\* and ends with disconnected.
OneConnection ==
  \A i \in DOMAIN events :
    /\ events[i].conn = made
    /\ events[i].id = "connected" => i = 1
    /\ events[i].id = "disconnected" => i = Len(events)

\* The node advertises only when nothing is linked and everybody knows it.
Quiet == advertising => link = 0 /\ events = <<>> /\ connection_handle = 0

\* The link is ahead of the handles by what waits for dispatch.
Ahead ==
  ~advertising =>
    /\ made # 0
    /\ link = (IF Ending THEN 0 ELSE made)
    /\ connection_handle = (IF Opening THEN 0 ELSE made)

Together == queue_write_module = connection_handle /\ conn_params = connection_handle

Checked == notifying # 0 /\ ~late => connection_handle = notifying

LinkInv ==
  /\ TypeOK
  /\ OneConnection
  /\ Quiet
  /\ Ahead
  /\ Together
  /\ Checked
  /\ HandlersAnswerTheirPeer
  /\ NotificationsAreCurrent

LEMMA LinkInit == Init => LinkInv
<1> SUFFICES ASSUME Init PROVE LinkInv
  OBVIOUS
<1>1. 0 \in Handle
  BY BoundAssumption DEF Handle
<1>2. events = <<>> /\ DOMAIN events = {} /\ events \in Seq(Event)
  BY DEF Init
<1>3. TypeOK
  BY <1>1, <1>2 DEF Init, TypeOK
<1>4. OneConnection
  BY <1>2 DEF OneConnection
<1> QED
  BY <1>2, <1>3, <1>4
  DEF Init, LinkInv, Quiet, Ahead, Together, Checked, HandlersAnswerTheirPeer,
      NotificationsAreCurrent

\* Whatever a handler or a notification meets is the latest connection.
LEMMA LinkIsLatest ==
  ASSUME LinkInv
  PROVE  /\ link # 0 => link = made /\ made \in Connections
         /\ connection_handle # 0 => connection_handle = made /\ made \in Connections
<1>1. link # 0 \/ connection_handle # 0 => ~advertising
  BY DEF LinkInv, Quiet
<1>2. ~advertising => made \in Connections
  BY BoundAssumption DEF LinkInv, TypeOK, Handle, Connections, Ahead
<1> QED
  BY <1>1, <1>2 DEF LinkInv, Ahead

\* A call for the latest connection is noted as such, and accepted.
LEMMA NoteStep ==
  ASSUME LinkInv, NEW handle, handle # 0, NEW meant, meant = made,
         Note(handle, meant) \/ UNCHANGED acted
  PROVE  /\ acted' \in SUBSET (Connections \X Connections \X BOOLEAN)
         /\ HandlersAnswerTheirPeer'
<1> USE DEF LinkInv, HandlersAnswerTheirPeer
<1>1. CASE acted' = acted
  BY <1>1 DEF TypeOK
<1>2. CASE link # 0 /\ acted' = acted \cup {<<meant, link, TRUE>>}
  <2>1. meant = link /\ link \in Connections
    BY <1>2, LinkIsLatest
  <2>2. <<meant, link, TRUE>> \in Connections \X Connections \X BOOLEAN
    BY <2>1
  <2>3. acted \in SUBSET (Connections \X Connections \X BOOLEAN)
    BY DEF TypeOK
  <2>4. acted' \in SUBSET (Connections \X Connections \X BOOLEAN)
    BY <1>2, <2>2, <2>3, Zenon
  <2>5. ASSUME NEW call \in acted' PROVE call[1] = call[2] /\ call[3]
    <3>1. CASE call \in acted
      BY <3>1, Zenon
    <3>2. CASE call = <<meant, link, TRUE>>
      BY <2>1, <3>2
    <3> QED
      BY <1>2, <3>1, <3>2, Zenon
  <2> QED
    BY <2>4, <2>5, Zenon
<1> QED
  BY <1>1, <1>2 DEF Note, Accepted

\* What is raised for the linked connection, other than its beginning.
LEMMA RaiseStep ==
  ASSUME LinkInv, link # 0, NEW id \in {"disconnected"} \cup Requests, Raise(id, link)
  PROVE  /\ events' \in Seq(Event)
         /\ events' # <<>> /\ Len(events') = Len(events) + 1
         /\ events'[Len(events')].id = id
         /\ \A i \in DOMAIN events' :
              /\ events'[i].conn = made
              /\ events'[i].id = "connected" => i = 1
              /\ events'[i].id = "disconnected" => i = Len(events')
         /\ (events'[1].id = "connected") <=> Opening
<1> USE DEF LinkInv
<1>1. link = made /\ made \in Connections /\ ~advertising /\ ~Ending
  BY LinkIsLatest DEF Quiet, Ahead
<1>2. [id |-> id, conn |-> link] \in Event
  BY <1>1 DEF Event
<1>3. events \in Seq(Event)
  BY DEF TypeOK
<1>4. id # "connected"
  BY DEF Requests, Timeouts
<1>5. /\ events' \in Seq(Event)
      /\ Len(events') = Len(events) + 1
      /\ \A i \in 1 .. Len(events) : events'[i] = events[i]
      /\ events'[Len(events) + 1] = [id |-> id, conn |-> link]
  BY <1>2, <1>3 DEF Raise
<1>6. \A i \in DOMAIN events : events[i].id # "disconnected"
  BY <1>1, <1>3 DEF OneConnection, Ending
<1>7. ASSUME NEW i \in DOMAIN events'
      PROVE  /\ events'[i].conn = made
             /\ events'[i].id = "connected" => i = 1
             /\ events'[i].id = "disconnected" => i = Len(events')
  <2>1. CASE i = Len(events) + 1
    BY <1>1, <1>4, <1>5, <2>1
  <2>2. CASE i \in 1 .. Len(events)
    BY <1>3, <1>5, <1>6, <2>2 DEF OneConnection
  <2> QED
    BY <1>3, <1>5, <1>7, <2>1, <2>2
<1>8. (events'[1].id = "connected") <=> Opening
  BY <1>3, <1>4, <1>5 DEF Opening
<1> QED
  BY <1>3, <1>5, <1>7, <1>8

\* The events behind the one that is dispatched.
LEMMA TailStep ==
  ASSUME LinkInv, events # <<>>, events' = Tail(events), made' = made
  PROVE  /\ events' \in Seq(Event)
         /\ OneConnection'
         /\ ~Opening'
         /\ Head(events) \in Event /\ Head(events).conn = made
         /\ (Head(events).id = "connected") <=> Opening
         /\ Head(events).id = "disconnected" => Ending /\ events' = <<>>
         /\ Head(events).id # "disconnected" => (Ending' <=> Ending)
<1> USE DEF LinkInv
<1>1. events \in Seq(Event) /\ Len(events) \in Nat \ {0} /\ Head(events) = events[1]
  BY DEF TypeOK
<1>2. /\ events' \in Seq(Event) /\ Len(events') = Len(events) - 1
      /\ \A i \in 1 .. Len(events') : events'[i] = events[i + 1]
  BY <1>1
<1>3. OneConnection'
  BY <1>1, <1>2 DEF OneConnection
<1>4. ~Opening'
  BY <1>1, <1>2 DEF OneConnection, Opening
<1>5. events[1] \in Event /\ events[1].conn = made
  BY <1>1 DEF OneConnection
<1>6. events[1].id = "disconnected" => Ending /\ events' = <<>>
  BY <1>1, <1>2 DEF OneConnection, Ending
<1>7. events[1].id # "disconnected" => (Ending' <=> Ending)
  BY <1>1, <1>2 DEF Ending
<1> QED
  BY <1>1, <1>2, <1>3, <1>4, <1>5, <1>6, <1>7 DEF Opening

-----------------------------------------------------------------------------
\* The dispatch of one event.
LEMMA DispatchStep == LinkInv /\ Dispatch => LinkInv'
<1> SUFFICES ASSUME LinkInv, Dispatch PROVE LinkInv'
  OBVIOUS
<1> USE DEF LinkInv
<1> DEFINE e == Head(events)
<1>1. events # <<>> /\ events' = Tail(events) /\ UNCHANGED <<notifying, notified>>
      /\ late' = (late \/ connection_handle' # connection_handle)
  BY DEF Dispatch
<1>2. made' = made /\ link' = link
  BY DEF Dispatch, Connected, Disconnected, SecurityParametersRequest, PhyUpdateRequest,
         SystemAttributesMissing, Timeout, linkVars
<1>3. ~advertising /\ made \in Connections
  BY <1>1, BoundAssumption DEF Quiet, Ahead, TypeOK, Handle, Connections
<1>4. /\ events' \in Seq(Event)
      /\ OneConnection'
      /\ ~Opening'
      /\ e.conn = made
      /\ (e.id = "connected") <=> Opening
      /\ e.id = "disconnected" => Ending /\ events' = <<>>
      /\ e.id # "disconnected" => (Ending' <=> Ending)
  BY <1>1, <1>2, TailStep
<1>5. Checked' /\ NotificationsAreCurrent' /\ late' \in BOOLEAN
  <2>1. late \in BOOLEAN
    BY DEF TypeOK
  <2>2. late' \in BOOLEAN
    BY <1>1, <2>1
  <2> QED
    BY <1>1, <2>2 DEF Checked, NotificationsAreCurrent
<1> HIDE DEF e
<1>6. CASE Connected(e)
  BY <1>1, <1>2, <1>3, <1>4, <1>5, <1>6
  DEF Connected, linkVars, TypeOK, Handle, Connections, Quiet, Ahead, Together,
      HandlersAnswerTheirPeer
<1>7. CASE Disconnected(e)
  BY <1>1, <1>2, <1>3, <1>4, <1>5, <1>7
  DEF Disconnected, linkVars, TypeOK, Handle, Quiet, Ahead, Together,
      HandlersAnswerTheirPeer
<1>8. CASE SecurityParametersRequest(e) \/ PhyUpdateRequest(e)
           \/ SystemAttributesMissing(e) \/ Timeout(e)
  <2>1. /\ UNCHANGED <<handles, advertising, subscribed>>
        /\ ~Opening /\ e.id # "disconnected"
        /\ \E handle \in {connection_handle, e.conn} :
             Note(handle, e.conn) \/ UNCHANGED acted
    BY <1>4, <1>8 DEF SecurityParametersRequest, PhyUpdateRequest, SystemAttributesMissing,
                      Timeout, Timeouts, linkVars
  <2>4. connection_handle # 0 /\ e.conn # 0
    BY <1>3, <1>4, <2>1 DEF Ahead, Connections
  <2>2. acted' \in SUBSET (Connections \X Connections \X BOOLEAN) /\ HandlersAnswerTheirPeer'
    BY <1>4, <2>1, <2>4, NoteStep
  <2>3. closing' \in BOOLEAN /\ attributes' \in BOOLEAN
    BY <1>8 DEF SecurityParametersRequest, PhyUpdateRequest, SystemAttributesMissing,
                Timeout, linkVars, TypeOK
  <2> QED
    BY <1>1, <1>2, <1>3, <1>4, <1>5, <2>1, <2>2, <2>3
    DEF handles, TypeOK, Quiet, Ahead, Together
<1> QED
  BY <1>6, <1>7, <1>8 DEF Dispatch, e

LEMMA LinkStep == LinkInv /\ [Next]_vars => LinkInv'
<1> SUFFICES ASSUME LinkInv, [Next]_vars PROVE LinkInv'
  OBVIOUS
<1> USE DEF LinkInv
<1>1. CASE Connect
  <2>1. events = <<>> /\ connection_handle = 0 /\ made + 1 \in Connections
    BY <1>1, BoundAssumption DEF Connect, Quiet, TypeOK, Handle, Connections
  <2>2. events' = <<[id |-> "connected", conn |-> made + 1]>>
    BY <1>1, <2>1 DEF Connect, Raise
  <2>3. [id |-> "connected", conn |-> made + 1] \in Event
    BY <2>1 DEF Event
  <2>4. /\ events' \in Seq(Event) /\ Len(events') = 1
        /\ DOMAIN events' = {1}
        /\ events'[1] = [id |-> "connected", conn |-> made + 1]
    BY <2>2, <2>3
  <2>5. OneConnection'
    BY <1>1, <2>4 DEF Connect, OneConnection
  <2>6. Opening' /\ ~Ending'
    <3>1. events' # <<>> /\ events'[1].id = "connected" /\ events'[Len(events')].id = "connected"
      BY <2>2, <2>4
    <3> QED
      BY <3>1 DEF Opening, Ending
  <2>7. made + 1 \in Handle
    BY <2>1, BoundAssumption DEF Handle, Connections
  <2>8. TypeOK'
    BY <1>1, <2>4, <2>7 DEF Connect, handles, notify, TypeOK
  <2>9. made' # 0 /\ link' = made' /\ connection_handle' = 0 /\ ~advertising'
    BY <1>1, <2>1 DEF Connect, handles, Connections
  <2> QED
    BY <1>1, <2>5, <2>6, <2>8, <2>9
    DEF Connect, handles, notify, Quiet, Ahead, Together, Checked,
        HandlersAnswerTheirPeer, NotificationsAreCurrent
<1>2. CASE Drop \/ Close
  <2>1. link # 0 /\ Raise("disconnected", link) /\ ~advertising /\ made' = made
    BY <1>2 DEF Drop, Close, Unlink, Quiet
  <2>2. OneConnection' /\ Ending' /\ (Opening' <=> Opening) /\ events' \in Seq(Event)
    BY <2>1, RaiseStep DEF OneConnection, Ending, Opening
  <2>3. /\ link' = 0 /\ closing' = FALSE
        /\ UNCHANGED <<handles, notify, made, attributes, subscribed, advertising, acted>>
    BY <1>2 DEF Drop, Close, Unlink
  <2>4. TypeOK'
    <3>1. 0 \in Handle
      BY BoundAssumption DEF Handle
    <3> QED
      BY <2>2, <2>3, <3>1 DEF handles, notify, TypeOK
  <2> QED
    BY <2>1, <2>2, <2>3, <2>4
    DEF handles, notify, Quiet, Ahead, Together, Checked, HandlersAnswerTheirPeer,
        NotificationsAreCurrent
<1>3. CASE \E id \in Requests : PeerRequest(id)
  <2>1. PICK id \in Requests : PeerRequest(id)
    BY <1>3
  <2>2. link # 0 /\ Raise(id, link) /\ ~advertising /\ ~Ending
        /\ UNCHANGED <<handles, notify, linkVars, advertising, acted>>
    BY <2>1 DEF PeerRequest, Quiet, Ahead
  <2>3. id # "disconnected"
    BY DEF Requests, Timeouts
  <2>4. OneConnection' /\ ~Ending' /\ (Opening' <=> Opening) /\ events' \in Seq(Event)
    BY <2>2, <2>3, RaiseStep DEF OneConnection, Ending, Opening, linkVars
  <2> QED
    BY <2>2, <2>4
    DEF handles, notify, linkVars, TypeOK, Quiet, Ahead, Together, Checked,
        HandlersAnswerTheirPeer, NotificationsAreCurrent
<1>4. CASE Subscribe
  BY <1>4 DEF Subscribe, handles, notify, TypeOK, OneConnection, Quiet, Ahead, Opening,
              Ending, Together, Checked, HandlersAnswerTheirPeer, NotificationsAreCurrent
<1>5. CASE Dispatch
  BY <1>5, DispatchStep
<1>6. CASE ConnectionParametersFailed
  <2>1. conn_params = made /\ connection_handle # 0
    BY <1>6, LinkIsLatest DEF ConnectionParametersFailed, Together
  <2>2. acted' \in SUBSET (Connections \X Connections \X BOOLEAN) /\ HandlersAnswerTheirPeer'
    BY <1>6, <2>1, NoteStep DEF ConnectionParametersFailed
  <2>3. closing' \in BOOLEAN
    BY <1>6 DEF ConnectionParametersFailed, TypeOK
  <2> QED
    BY <1>6, <2>2, <2>3
    DEF ConnectionParametersFailed, handles, notify, TypeOK, OneConnection, Quiet, Ahead,
        Opening, Ending, Together, Checked, NotificationsAreCurrent
<1>7. CASE CheckConnection
  BY <1>7 DEF CheckConnection, handles, linkVars, TypeOK, OneConnection, Quiet, Ahead,
              Opening, Ending, Together, Checked, HandlersAnswerTheirPeer,
              NotificationsAreCurrent
<1>8. CASE SendNotification
  <2>1. \/ notified' = notified
        \/ link # 0 /\ notified' = notified \cup {<<notifying, link, late>>}
    BY <1>8 DEF SendNotification, Accepted
  <2>2. notifying \in Connections /\ (late \/ link = 0 \/ notifying = link)
    BY <1>8, LinkIsLatest DEF SendNotification, Checked, TypeOK, Handle, Connections
  <2>3. /\ notified' \in SUBSET (Connections \X Connections \X BOOLEAN)
        /\ NotificationsAreCurrent'
    <3>1. CASE notified' = notified
      BY <3>1 DEF TypeOK, NotificationsAreCurrent
    <3>2. CASE link # 0 /\ notified' = notified \cup {<<notifying, link, late>>}
      BY <2>2, <3>2, LinkIsLatest DEF TypeOK, NotificationsAreCurrent
    <3> QED
      BY <2>1, <3>1, <3>2
  <2>4. 0 \in Handle
    BY BoundAssumption DEF Handle
  <2> QED
    BY <1>8, <2>3, <2>4
    DEF SendNotification, handles, linkVars, TypeOK, OneConnection, Quiet, Ahead, Opening,
        Ending, Together, Checked, HandlersAnswerTheirPeer
<1>9. CASE UNCHANGED vars
  BY <1>9 DEF vars, TypeOK, OneConnection, Quiet, Ahead, Opening, Ending, Together, Checked,
              HandlersAnswerTheirPeer, NotificationsAreCurrent
<1> QED
  BY <1>1, <1>2, <1>3, <1>4, <1>5, <1>6, <1>7, <1>8, <1>9 DEF Next

LEMMA LinkInvariant == Spec => []LinkInv
BY LinkInit, LinkStep, PTL DEF Spec

\* Type correctness, for every number of connections.
THEOREM TypeCorrect == Spec => []TypeOK
<1>1. LinkInv => TypeOK
  BY DEF LinkInv
<1> QED
  BY <1>1, LinkInvariant, PTL

\* When nothing waits for dispatch, all handles name the link.
THEOREM HandlesAgree == Spec => []HandlesFollowTheLink
<1>1. LinkInv => HandlesFollowTheLink
  BY DEF LinkInv, HandlesFollowTheLink, Quiet, Ahead, Together, Opening, Ending
<1> QED
  BY <1>1, LinkInvariant, PTL

\* Over any number of connections a handler's call is accepted whenever there is
\* a link, and meets the connection whose event it handles.
THEOREM HandlersAnswer == Spec => []HandlersAnswerTheirPeer
<1>1. LinkInv => HandlersAnswerTheirPeer
  BY DEF LinkInv
<1> QED
  BY <1>1, LinkInvariant, PTL

\* Unless a handler ran in between, the check of send_notification still holds
\* when the notification is sent.
THEOREM CheckStillHolds == Spec => []NotificationsAreCurrent
<1>1. LinkInv => NotificationsAreCurrent
  BY DEF LinkInv
<1> QED
  BY <1>1, LinkInvariant, PTL
=============================================================================
