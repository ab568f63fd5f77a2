----------------------------- MODULE Connection -----------------------------
(***************************************************************************)
(* The Bluetooth connection: the event handlers of                         *)
(* src/nodes/common/bluetooth.cpp, and send_notification, which the        *)
(* foreground runs under them.                                             *)
(*                                                                         *)
(* The SoftDevice queues events; nrf_sdh dispatches them in an interrupt   *)
(* (NRF_SDH_DISPATCH_MODEL_INTERRUPT), at the priority of the timer that   *)
(* drives the connection parameters module, so the handlers never nest.    *)
(* The link itself comes and goes under the SoftDevice at any moment.      *)
(*                                                                         *)
(* There is one link (NRF_SDH_BLE_TOTAL_LINK_COUNT), and all connections   *)
(* get the same handle.  Here a handle is written as the number of the     *)
(* connection it was assigned for, 0 for BLE_CONN_HANDLE_INVALID, but a    *)
(* call only ever tells 0 from the others: it acts on whatever is linked.  *)
(***************************************************************************)
EXTENDS Naturals, Sequences

CONSTANTS
  MaxConnections,   \* bound on the connections of a behaviour
  MaxEvents         \* bound on the peer's events that wait for dispatch

ASSUME BoundAssumption == MaxConnections \in Nat \ {0} /\ MaxEvents \in Nat

VARIABLES
  connection_handle,
  queue_write_module,   \* the handle assigned to the queued write module
  conn_params,          \* the connection the parameters module looks after
  notifying,            \* where send_notification stands: the handle it has
                        \* checked, or 0 outside of it
  link,                 \* the connection that exists, or 0
  made,                 \* number of connections made so far
  closing,              \* its disconnection has been requested
  attributes,           \* its system attributes have been set
  subscribed,           \* its peer has enabled notifications
  advertising,
  events,               \* raised and not dispatched
  late,                 \* history: a handler has changed connection_handle
                        \* since send_notification checked it
  acted,                \* history: <<meant, met, accepted>> of the calls that
                        \* handlers have made while there was a link
  notified              \* history: <<checked, met, late>> of the notifications

handles  == <<connection_handle, queue_write_module, conn_params>>
linkVars == <<link, made, closing, attributes, subscribed>>
notify   == <<notifying, late, notified>>
vars     == <<connection_handle, queue_write_module, conn_params, notifying, link,
              made, closing, attributes, subscribed, advertising, events, late,
              acted, notified>>

Connections == 1 .. MaxConnections
Handle      == 0 .. MaxConnections
Timeouts    == {"gattc_timeout", "gatts_timeout"}
Requests    == {"sec_params_request", "phy_update_request", "sys_attr_missing"} \cup Timeouts
Event       == [id : {"connected", "disconnected"} \cup Requests, conn : Connections]

Raise(id, conn) == events' = Append(events, [id |-> id, conn |-> conn])

\* A SoftDevice call with handle is accepted, and one for an event of meant noted.
Accepted(handle) == handle # 0 /\ link # 0
Note(handle, meant) ==
  acted' = IF link # 0 THEN acted \cup {<<meant, link, Accepted(handle)>>} ELSE acted

-----------------------------------------------------------------------------
\* bluetooth::initialize has started advertising.
Init ==
  /\ connection_handle  = 0
  /\ queue_write_module = 0
  /\ conn_params        = 0
  /\ notifying          = 0
  /\ link               = 0
  /\ made               = 0
  /\ closing            = FALSE
  /\ attributes         = FALSE
  /\ subscribed         = FALSE
  /\ advertising        = TRUE
  /\ events             = <<>>
  /\ late               = FALSE
  /\ acted              = {}
  /\ notified           = {}

(* The SoftDevice and the peer.                                            *)

Connect ==
  /\ advertising
  /\ made < MaxConnections
  /\ made'        = made + 1
  /\ link'        = made + 1
  /\ closing'     = FALSE
  /\ attributes'  = FALSE
  /\ subscribed'  = FALSE
  /\ advertising' = FALSE
  /\ Raise("connected", made + 1)
  /\ UNCHANGED <<handles, notify, acted>>

\* The peer leaves or is lost.
Unlink ==
  /\ link'    = 0
  /\ closing' = FALSE
  /\ Raise("disconnected", link)
  /\ UNCHANGED <<handles, notify, made, attributes, subscribed, advertising, acted>>

Drop  == link # 0 /\ Unlink
Close == link # 0 /\ closing /\ Unlink

PeerRequest(id) ==
  /\ link # 0
  /\ Len(events) < MaxEvents
  /\ id = "sys_attr_missing" => ~attributes
  /\ Raise(id, link)
  /\ UNCHANGED <<handles, notify, linkVars, advertising, acted>>

Subscribe ==
  /\ link # 0 /\ attributes
  /\ subscribed' = TRUE
  /\ UNCHANGED <<handles, notify, link, made, closing, attributes, advertising,
                 events, acted>>

-----------------------------------------------------------------------------
(* The handlers, for the event e that is dispatched.                       *)

\* Mutant: the handle is only passed on, not kept.
ConnectedPassingOn(e) ==
  /\ e.id = "connected"
  /\ conn_params'        = e.conn
  /\ queue_write_module' = e.conn
  /\ UNCHANGED <<connection_handle, linkVars, advertising, acted>>

\* The modules of the SDK observe the event before bluetooth_event_handler.
Connected(e) ==
  /\ e.id = "connected"
  /\ conn_params'        = e.conn
  /\ connection_handle'  = e.conn
  /\ queue_write_module' = e.conn
  /\ UNCHANGED <<linkVars, advertising, acted>>

\* Mutants: the queued write module keeps its handle; advertising is not restarted.
DisconnectedKeepingQueue(e) ==
  /\ e.id = "disconnected"
  /\ conn_params'       = 0
  /\ advertising'       = TRUE
  /\ connection_handle' = 0
  /\ UNCHANGED <<queue_write_module, linkVars, acted>>

DisconnectedForGood(e) ==
  /\ e.id = "disconnected"
  /\ conn_params'        = 0
  /\ connection_handle'  = 0
  /\ queue_write_module' = 0
  /\ UNCHANGED <<linkVars, advertising, acted>>

Disconnected(e) ==
  /\ e.id = "disconnected"
  /\ conn_params'        = 0
  /\ advertising'        = TRUE
  /\ connection_handle'  = 0
  /\ queue_write_module' = 0
  /\ UNCHANGED <<linkVars, acted>>

\* Answered with the static handle, not with the event's.
SecurityParametersRequest(e) ==
  /\ e.id = "sec_params_request"
  /\ Note(connection_handle, e.conn)
  /\ UNCHANGED <<handles, linkVars, advertising>>

PhyUpdateRequest(e) ==
  /\ e.id = "phy_update_request"
  /\ Note(e.conn, e.conn)
  /\ UNCHANGED <<handles, linkVars, advertising>>

SystemAttributesMissing(e) ==
  /\ e.id = "sys_attr_missing"
  /\ Note(connection_handle, e.conn)
  /\ attributes' = (attributes \/ Accepted(connection_handle))
  /\ UNCHANGED <<handles, link, made, closing, subscribed, advertising>>

\* Mutant: the timeout is only noted.
TimeoutIgnored(e) ==
  /\ e.id \in Timeouts
  /\ IF closing THEN UNCHANGED acted ELSE Note(e.conn, e.conn)
  /\ UNCHANGED <<handles, linkVars, advertising>>

\* sd_ble_gap_disconnect is refused when the link is closing already.
Timeout(e) ==
  /\ e.id \in Timeouts
  /\ IF closing THEN UNCHANGED acted ELSE Note(e.conn, e.conn)
  /\ closing' = (closing \/ Accepted(e.conn))
  /\ UNCHANGED <<handles, link, made, attributes, subscribed, advertising>>

Dispatch ==
  /\ events # <<>>
  /\ events' = Tail(events)
  /\ LET e == Head(events)
     IN  \/ Connected(e)
         \/ Disconnected(e)
         \/ SecurityParametersRequest(e)
         \/ PhyUpdateRequest(e)
         \/ SystemAttributesMissing(e)
         \/ Timeout(e)
  /\ late' = (late \/ connection_handle' # connection_handle)
  /\ UNCHANGED <<notifying, notified>>

\* The negotiation of the parameters has failed: the module disconnects
\* (disconnect_on_fail), and so does connection_parameters_event_handler, with
\* the static handle; the second of the two is refused.
ConnectionParametersFailed ==
  /\ conn_params # 0
  /\ IF closing THEN UNCHANGED acted ELSE Note(connection_handle, conn_params)
  /\ closing' = (closing \/ Accepted(connection_handle))
  /\ UNCHANGED <<handles, notify, link, made, attributes, subscribed, advertising, events>>

-----------------------------------------------------------------------------
(* send_notification, in the foreground.                                   *)

CheckConnection ==
  /\ notifying = 0
  /\ connection_handle # 0
  /\ notifying' = connection_handle
  /\ late'      = FALSE
  /\ UNCHANGED <<handles, linkVars, advertising, events, acted, notified>>

\* Mutant: the check of connection_handle is missing.
SendUnchecked ==
  /\ notified' = IF Accepted(connection_handle) /\ attributes /\ subscribed
                 THEN notified \cup {<<notifying, link, late>>} ELSE notified
  /\ notifying' = 0
  /\ UNCHANGED <<handles, linkVars, advertising, events, late, acted>>

\* connection_handle is neither atomic nor volatile: what is passed is the value
\* checked or the value it has now.
SendNotification ==
  /\ notifying # 0
  /\ \E handle \in {notifying, connection_handle} :
       notified' = IF Accepted(handle) /\ attributes /\ subscribed
                   THEN notified \cup {<<notifying, link, late>>} ELSE notified
  /\ notifying' = 0
  /\ UNCHANGED <<handles, linkVars, advertising, events, late, acted>>

Next ==
  \/ Connect
  \/ Drop
  \/ Close
  \/ \E id \in Requests : PeerRequest(id)
  \/ Subscribe
  \/ Dispatch
  \/ ConnectionParametersFailed
  \/ CheckConnection
  \/ SendNotification

Spec == Init /\ [][Next]_vars

\* Events are dispatched, and the SoftDevice carries out a disconnection it has
\* accepted.  The peer and the application do as they like.
FairSpec == Spec /\ WF_vars(Dispatch) /\ WF_vars(Close)

-----------------------------------------------------------------------------
\* Every variable keeps its type.
TypeOK ==
  /\ connection_handle  \in Handle
  /\ queue_write_module \in Handle
  /\ conn_params        \in Handle
  /\ notifying          \in Handle
  /\ link               \in Handle
  /\ made               \in Handle
  /\ closing            \in BOOLEAN
  /\ attributes         \in BOOLEAN
  /\ subscribed         \in BOOLEAN
  /\ advertising        \in BOOLEAN
  /\ events             \in Seq(Event)
  /\ late               \in BOOLEAN
  /\ acted              \in SUBSET (Connections \X Connections \X BOOLEAN)
  /\ notified           \in SUBSET (Connections \X Connections \X BOOLEAN)

\* Once the events are dispatched, the static handle, the queued write module's
\* and the parameters module's all name the connection that exists, whatever
\* came and went while they were waiting.
HandlesFollowTheLink ==
  events = <<>> =>
    connection_handle = link /\ queue_write_module = link /\ conn_params = link

\* A peer that is still there when its request, its timeout or its failed
\* negotiation is handled gets its reply, its attributes or its disconnection,
\* although three handlers use the static handle for it; and nobody else does,
\* although events wait while the link changes and all connections have the same
\* handle.
HandlersAnswerTheirPeer == \A call \in acted : call[1] = call[2] /\ call[3]

\* A notification goes to the connection it was checked for, even when the link
\* has come and gone in between; only if a handler has changed connection_handle
\* since the check can it go to a later one, whose peer has subscribed as well.
NotificationsAreCurrent == \A n \in notified : n[1] = n[2] \/ n[3]

\* After a disconnection the node can be connected to again.
Reconnectable == link = 0 ~> advertising \/ link # 0

\* A connection whose GATT procedure has timed out comes to its end, although the
\* event waits for its dispatch and the link may be closing already.
TimedOutLinkEnds ==
  \A n \in Connections :
    (\E i \in DOMAIN events : events[i].id \in Timeouts /\ events[i].conn = n) ~> link # n
=============================================================================
