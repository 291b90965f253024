------------------------------ MODULE Realtime ------------------------------
(***************************************************************************)
(* apps/notifications and apps/inbox: the WebSocket consumers and the      *)
(* dispatcher that pushes events to them through the Channels layer.  The  *)
(* layer (channels_redis) keeps groups of channels and a bounded channel   *)
(* for each socket; messages and group entries expire, any call may raise, *)
(* and nothing is assumed of the order in which messages are taken.  No    *)
(* request of a consumer finds an org_id (nothing writes the session or    *)
(* _jwt_claims), so a consumer is in one group, its user's, and what       *)
(* notify_org sends reaches nobody.                                        *)
(***************************************************************************)
EXTENDS Integers, Sequences, FiniteSets

CONSTANTS
  Viewers,      \* users
  Sockets,      \* WebSocket connections, one for each time a tab connects
  ViewerOf,     \* whose it is
  EndpointOf,   \* "events" or "inbox"
  Capacity,     \* messages a channel holds
  MaxEvents,    \* bound: events sent
  MaxBreaks     \* bound: server processes lost

ASSUME RealtimeAssumption ==
  /\ ViewerOf \in [Sockets -> Viewers]
  /\ EndpointOf \in [Sockets -> {"events", "inbox"}]
  /\ Capacity \in Nat \ {0} /\ MaxEvents \in Nat /\ MaxBreaks \in Nat

EventTypes == {"post.status_update", "notification", "inbox.message"}

\* ChannelEvent.to_channel_message replaces the dots.
ToChannelMessage(type) ==
  CASE type = "post.status_update" -> "post_status_update"
    [] type = "inbox.message"      -> "inbox_message"
    [] OTHER                       -> type

\* The type a consumer's handler validates the message against; the handler is
\* found by the name of the message's type.
HandledType(endpoint, wire) ==
  CASE endpoint = "events" /\ wire = "post_status_update" -> "post.status_update"
    [] endpoint = "events" /\ wire = "notification"       -> "notification"
    [] endpoint = "inbox"  /\ wire = "inbox_message"      -> "inbox.message"
    [] OTHER                                              -> "no handler"

VARIABLES
  sent,       \* events sent so far: their type and the user
  groups,     \* <<group, socket>>
  inbound,    \* a socket's channel: numbers of events
  socket,     \* "away", "refused", "joining", "open", "left", "ended" or "cut"
  since,      \* how many events had been sent when a socket was accepted
  shown,      \* numbers of the events the browser was sent
  missing,    \* numbers of the events that did not get to it, or expired there
  lapsed,     \* sockets whose group entry expired
  cause,      \* the type of the event that ended a consumer
  breaks

realtimeVars == <<sent, groups, inbound, socket, since, shown, missing, lapsed,
                  cause, breaks>>

UserGroup(v)  == <<"user", v>>
InboxGroup(v) == <<"inbox_user", v>>

GroupOf(s) == IF EndpointOf[s] = "events" THEN UserGroup(ViewerOf[s])
              ELSE InboxGroup(ViewerOf[s])

Entry(s) == <<GroupOf(s), s>>

RealtimeInit ==
  /\ sent = <<>>
  /\ groups = {}
  /\ inbound = [s \in Sockets |-> {}]
  /\ socket = [s \in Sockets |-> "away"]
  /\ since = [s \in Sockets |-> 0]
  /\ shown = [s \in Sockets |-> {}]
  /\ missing = [s \in Sockets |-> {}]
  /\ lapsed = {}
  /\ cause = [s \in Sockets |-> "none"]
  /\ breaks = 0

-----------------------------------------------------------------------------
(* Consumers *)

\* JWTAuthMiddleware found no user (no token in the query, an invalid or expired
\* one, an inactive user): connect closes the socket with 4001.
RefuseSocket(s) ==
  /\ socket[s] = "away"
  /\ socket' = [socket EXCEPT ![s] = "refused"]
  /\ UNCHANGED <<sent, groups, inbound, since, shown, missing, lapsed, cause, breaks>>

\* Mutant: accept first, join the group afterwards.
ConnectAcceptingFirst(s) ==
  /\ \/ /\ socket[s] = "away"
        /\ socket' = [socket EXCEPT ![s] = "open"]
        /\ since' = [since EXCEPT ![s] = Len(sent)]
        /\ UNCHANGED groups
     \/ /\ socket[s] = "open"
        /\ groups' = groups \union {Entry(s)}
        /\ UNCHANGED <<socket, since>>
  /\ UNCHANGED <<sent, inbound, shown, missing, lapsed, cause, breaks>>

\* connect with a user: the consumer joins its group, then accepts.  If group_add
\* raises, the exception ends the consumer.
Connect(s) ==
  /\ \/ /\ socket[s] = "away"
        /\ groups' = groups \union {Entry(s)}
        /\ socket' = [socket EXCEPT ![s] = "joining"]
        /\ UNCHANGED since
     \/ /\ socket[s] = "away"
        /\ socket' = [socket EXCEPT ![s] = "ended"]
        /\ UNCHANGED <<groups, since>>
     \/ /\ socket[s] = "joining"
        /\ socket' = [socket EXCEPT ![s] = "open"]
        /\ since' = [since EXCEPT ![s] = Len(sent)]
        /\ UNCHANGED groups
  /\ UNCHANGED <<sent, inbound, shown, missing, lapsed, cause, breaks>>

\* The consumer takes event n.  It sends it on if its type is the one the
\* handler's schema requires; if not, or without a handler, the exception ends
\* the consumer: disconnect() is not called and the socket stays in its group.
HandleEvent(s, n) ==
  LET type == sent[n].type
      wire == ToChannelMessage(type)
  IN  /\ socket[s] = "open"
      /\ n \in inbound[s]
      /\ inbound' = [inbound EXCEPT ![s] = @ \ {n}]
      /\ \/ /\ HandledType(EndpointOf[s], wire) = wire
            /\ shown' = [shown EXCEPT ![s] = @ \union {n}]
            /\ UNCHANGED <<socket, cause>>
         \/ /\ HandledType(EndpointOf[s], wire) # wire
            /\ socket' = [socket EXCEPT ![s] = "ended"]
            /\ cause' = [cause EXCEPT ![s] = type]
            /\ UNCHANGED shown
      /\ UNCHANGED <<sent, groups, since, missing, lapsed, breaks>>

\* The browser leaves: disconnect().  A group_discard that raises leaves the
\* entry behind.
Disconnect(s) ==
  /\ socket[s] = "open"
  /\ groups' \in {groups, groups \ {Entry(s)}}
  /\ socket' = [socket EXCEPT ![s] = "left"]
  /\ UNCHANGED <<sent, inbound, since, shown, missing, lapsed, cause, breaks>>

\* The server process is lost, and the consumer with it.
BreakSocket(s) ==
  /\ socket[s] \in {"joining", "open"}
  /\ breaks < MaxBreaks
  /\ breaks' = breaks + 1
  /\ socket' = [socket EXCEPT ![s] = "cut"]
  /\ UNCHANGED <<sent, groups, inbound, since, shown, missing, lapsed, cause>>

-----------------------------------------------------------------------------
(* Dispatcher and channel layer *)

Listeners(v) == {s \in Sockets : <<UserGroup(v), s>> \in groups}

HasRoom(s) == Cardinality(inbound[s]) < Capacity

\* Event n goes to some sockets, and is lost for the other listeners.
Deliver(n, v, some) ==
  /\ inbound' = [s \in Sockets |->
                   IF s \in some THEN inbound[s] \union {n} ELSE inbound[s]]
  /\ missing' = [s \in Sockets |->
                IF s \in Listeners(v) \ some THEN missing[s] \union {n} ELSE missing[s]]

\* Mutant: a channel has no limit.
NotifyAll(v, type) ==
  /\ Len(sent) < MaxEvents
  /\ sent' = Append(sent, [type |-> type, to |-> v])
  /\ Deliver(Len(sent) + 1, v, Listeners(v))
  /\ UNCHANGED <<groups, socket, since, shown, lapsed, cause, breaks>>

\* notify_user: the message goes to the channels of the group that have room; if
\* the layer raises, which is logged, some or all of them do not get it.
NotifyUser(v, type) ==
  /\ Len(sent) < MaxEvents
  /\ sent' = Append(sent, [type |-> type, to |-> v])
  /\ \E some \in SUBSET {s \in Listeners(v) : HasRoom(s)} :
       Deliver(Len(sent) + 1, v, some)
  /\ UNCHANGED <<groups, socket, since, shown, lapsed, cause, breaks>>

\* A message nobody read in time is gone.
ExpireMessage(s, n) ==
  /\ n \in inbound[s]
  /\ inbound' = [inbound EXCEPT ![s] = @ \ {n}]
  /\ missing' = [missing EXCEPT ![s] = @ \union {n}]
  /\ UNCHANGED <<sent, groups, socket, since, shown, lapsed, cause, breaks>>

\* So is a group entry after a day, even if the socket is still open.
ExpireEntry(s) ==
  /\ Entry(s) \in groups
  /\ groups' = groups \ {Entry(s)}
  /\ lapsed' = lapsed \union {s}
  /\ UNCHANGED <<sent, inbound, socket, since, shown, missing, cause, breaks>>

-----------------------------------------------------------------------------
(* Specification *)

RealtimeNext ==
  \/ \E s \in Sockets :
       \/ RefuseSocket(s) \/ Connect(s) \/ Disconnect(s) \/ BreakSocket(s)
       \/ (\E n \in inbound[s] : HandleEvent(s, n) \/ ExpireMessage(s, n))
       \/ ExpireEntry(s)
  \/ \E v \in Viewers, type \in EventTypes : NotifyUser(v, type)

RealtimeSpec == RealtimeInit /\ [][RealtimeNext]_realtimeVars

-----------------------------------------------------------------------------
(* Properties *)

RealtimeTypeOK ==
  /\ sent \in Seq([type : EventTypes, to : Viewers])
  /\ groups \subseteq ({"user", "inbox_user"} \X Viewers) \X Sockets
  /\ inbound \in [Sockets -> SUBSET (1 .. Len(sent))]
  /\ \A s \in Sockets : Cardinality(inbound[s]) <= Capacity
  /\ socket \in [Sockets -> {"away", "refused", "joining", "open", "left", "ended", "cut"}]
  /\ since \in [Sockets -> 0 .. Len(sent)]
  /\ shown \in [Sockets -> SUBSET (1 .. Len(sent))]
  /\ missing \in [Sockets -> SUBSET (1 .. Len(sent))]
  /\ lapsed \subseteq Sockets
  /\ cause \in [Sockets -> EventTypes \union {"none"}]
  /\ breaks \in 0 .. MaxBreaks

(* An event stream is shown events of its own user only, and as long as it   *)
(* is open it misses none that was sent since connect() accepted it: each    *)
(* was shown, waits in its channel, or was lost by the channel layer (no     *)
(* room, an error, expiry of the message or of the group entry).  It takes   *)
(* joining the group before accepting (EventConsumer.connect).               *)
NothingMissed ==
  \A s \in Sockets :
    /\ \A n \in shown[s] : sent[n].to = ViewerOf[s]
    /\ socket[s] = "open" /\ EndpointOf[s] = "events" /\ s \notin lapsed =>
         \A n \in since[s] + 1 .. Len(sent) :
           sent[n].to = ViewerOf[s] => n \in shown[s] \union inbound[s] \union missing[s]

-----------------------------------------------------------------------------
(* What the documentation says, and the code does not do *)

(* schemas.py:59 and 70: "Routed to: EventConsumer.post_status_update()",    *)
(* "Routed to: EventConsumer.notification()"; 82: "Routed to:                *)
(* InboxConsumer.inbox_message()".  A consumer is not ended by an event that *)
(* is routed to it.                                                          *)
RoutedEventsAreHandled ==
  \A s \in Sockets :
    LET routed == IF EndpointOf[s] = "events"
                  THEN {"post.status_update", "notification"} ELSE {"inbox.message"}
    IN  socket[s] = "ended" => cause[s] \notin routed

=============================================================================
