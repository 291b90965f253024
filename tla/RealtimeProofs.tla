--------------------------- MODULE RealtimeProofs ---------------------------
(***************************************************************************)
(* What a browser is sent, for any users, sockets and capacity: no channel *)
(* overflows, and an open event stream misses no event of its user that    *)
(* the channel layer did not lose.                                         *)
(***************************************************************************)
EXTENDS Realtime, FiniteSetTheorems, TLAPS

USE RealtimeAssumption

\* What notify_user sends to a user reaches that user's event streams only.
OwnGroupOnly ==
  \A s \in Sockets, v \in Viewers :
    <<UserGroup(v), s>> \in groups => EndpointOf[s] = "events" /\ ViewerOf[s] = v

OwnEventsOnly ==
  \A s \in Sockets : \A n \in inbound[s] \union shown[s] : sent[n].to = ViewerOf[s]

\* A consumer is in its group from before it accepts until it ends.
InItsGroup ==
  \A s \in Sockets :
    socket[s] \in {"joining", "open"} /\ s \notin lapsed => Entry(s) \in groups

RealtimeInv ==
  /\ RealtimeTypeOK
  /\ OwnGroupOnly /\ OwnEventsOnly /\ InItsGroup
  /\ NothingMissed

-----------------------------------------------------------------------------
(* Channels *)

LEMMA EventAt ==
  ASSUME NEW T, NEW q \in Seq(T), NEW i \in 1 .. Len(q)
  PROVE  q[i] \in T
OBVIOUS

LEMMA ChannelFinite ==
  ASSUME RealtimeTypeOK, NEW s \in Sockets
  PROVE  IsFiniteSet(inbound[s]) /\ Cardinality(inbound[s]) \in Nat
<1>1. Len(sent) \in Nat /\ inbound[s] \subseteq 1 .. Len(sent)
  BY DEF RealtimeTypeOK
<1>2. IsFiniteSet(1 .. Len(sent))
  BY <1>1, FS_Interval
<1> QED
  BY <1>1, <1>2, FS_Subset, FS_CardinalityType

LEMMA RoomForOne ==
  ASSUME RealtimeTypeOK, NEW s \in Sockets, HasRoom(s), NEW n
  PROVE  Cardinality(inbound[s] \union {n}) <= Capacity
<1>1. Cardinality(inbound[s] \union {n}) \in {Cardinality(inbound[s]), Cardinality(inbound[s]) + 1}
  BY ChannelFinite, FS_AddElement
<1> QED
  BY <1>1, ChannelFinite DEF HasRoom

LEMMA OneLess ==
  ASSUME RealtimeTypeOK, NEW s \in Sockets, NEW n
  PROVE  Cardinality(inbound[s] \ {n}) <= Capacity
<1>1. Cardinality(inbound[s] \ {n}) <= Cardinality(inbound[s])
      /\ Cardinality(inbound[s] \ {n}) \in Nat
  BY ChannelFinite, FS_Subset, FS_CardinalityType, inbound[s] \ {n} \subseteq inbound[s]
<1> QED
  BY <1>1, ChannelFinite DEF RealtimeTypeOK

LEMMA EntryShape ==
  ASSUME NEW s \in Sockets
  PROVE  /\ Entry(s) \in ({"user", "inbox_user"} \X Viewers) \X Sockets
         /\ EndpointOf[s] = "events" => Entry(s) = <<UserGroup(ViewerOf[s]), s>>
         /\ \A v \in Viewers, r \in Sockets :
              <<UserGroup(v), r>> = Entry(s)
                => r = s /\ EndpointOf[s] = "events" /\ ViewerOf[s] = v
BY DEF Entry, GroupOf, UserGroup, InboxGroup

-----------------------------------------------------------------------------
(* The steps *)

LEMMA RealtimeInvInit == RealtimeInit => RealtimeInv
<1> SUFFICES ASSUME RealtimeInit PROVE RealtimeInv
  OBVIOUS
<1>1. <<>> \in Seq([type : EventTypes, to : Viewers]) /\ Len(<<>>) = 0
  OBVIOUS
<1>2. Cardinality({}) = 0
  BY FS_EmptySet
<1>3. RealtimeTypeOK
  BY <1>1, <1>2 DEF RealtimeInit, RealtimeTypeOK
<1> QED
  BY <1>3 DEF RealtimeInit, RealtimeInv, OwnGroupOnly, OwnEventsOnly, InItsGroup, NothingMissed

\* Sockets that come and go: the events and the channels stay as they are.
Comings(s) ==
  RefuseSocket(s) \/ Connect(s) \/ Disconnect(s) \/ BreakSocket(s) \/ ExpireEntry(s)

LEMMA ComingsKeep ==
  ASSUME RealtimeInv, NEW s \in Sockets, Comings(s)
  PROVE  RealtimeInv'
<1> USE DEF RealtimeInv
<1>1. UNCHANGED <<sent, inbound, shown, missing, cause>>
  BY DEF Comings, RefuseSocket, Connect, Disconnect, BreakSocket, ExpireEntry
<1>2. groups' = groups \/ groups' = groups \union {Entry(s)} \/ groups' = groups \ {Entry(s)}
  BY DEF Comings, RefuseSocket, Connect, Disconnect, BreakSocket, ExpireEntry
<1>3. /\ socket' \in [Sockets -> {"away", "refused", "joining", "open", "left", "ended", "cut"}]
      /\ \A r \in Sockets : r # s => socket'[r] = socket[r]
  <2>1. socket' = socket \/ \E x \in {"refused", "joining", "open", "left", "ended", "cut"} :
                              socket' = [socket EXCEPT ![s] = x]
    BY DEF Comings, RefuseSocket, Connect, Disconnect, BreakSocket, ExpireEntry
  <2> QED
    BY <2>1 DEF RealtimeTypeOK
<1>4. /\ since' \in [Sockets -> 0 .. Len(sent)]
      /\ \A r \in Sockets : r # s => since'[r] = since[r]
  <2>1. since' = since \/ since' = [since EXCEPT ![s] = Len(sent)]
    BY DEF Comings, RefuseSocket, Connect, Disconnect, BreakSocket, ExpireEntry
  <2>2. since \in [Sockets -> 0 .. Len(sent)] /\ Len(sent) \in 0 .. Len(sent)
    BY DEF RealtimeTypeOK
  <2> QED
    BY <2>1, <2>2
<1>5. lapsed' = lapsed \/ lapsed' = lapsed \union {s}
  BY DEF Comings, RefuseSocket, Connect, Disconnect, BreakSocket, ExpireEntry
<1>6. RealtimeTypeOK'
  <2>1. groups' \subseteq ({"user", "inbox_user"} \X Viewers) \X Sockets
    BY <1>2, EntryShape DEF RealtimeTypeOK
  <2>2. lapsed' \subseteq Sockets
    BY <1>5 DEF RealtimeTypeOK
  <2>3. breaks' \in 0 .. MaxBreaks
    BY DEF RealtimeTypeOK, Comings, RefuseSocket, Connect, Disconnect, BreakSocket, ExpireEntry
  <2> QED
    BY <1>1, <1>3, <1>4, <2>1, <2>2, <2>3 DEF RealtimeTypeOK
<1>7. OwnGroupOnly'
  BY <1>2, EntryShape DEF OwnGroupOnly
<1>8. OwnEventsOnly'
  BY <1>1 DEF OwnEventsOnly
<1>9. InItsGroup'
  <2> SUFFICES ASSUME NEW r \in Sockets, socket'[r] \in {"joining", "open"}, r \notin lapsed'
               PROVE  Entry(r) \in groups'
    BY DEF InItsGroup, Entry, GroupOf, UserGroup, InboxGroup
  <2>1. CASE r # s
    <3>1. Entry(r) # Entry(s)
      BY <2>1 DEF Entry
    <3> QED
      BY <1>2, <1>3, <1>5, <2>1, <3>1 DEF InItsGroup
  <2>2. CASE r = s
    BY <2>2 DEF InItsGroup, RealtimeTypeOK, Comings, RefuseSocket, Connect, Disconnect,
                BreakSocket, ExpireEntry
  <2> QED
    BY <2>1, <2>2
<1>10. NothingMissed'
  <2>1. ASSUME NEW r \in Sockets, socket'[r] = "open", EndpointOf[r] = "events", r \notin lapsed',
               NEW n \in since'[r] + 1 .. Len(sent), sent[n].to = ViewerOf[r]
        PROVE  n \in shown[r] \union inbound[r] \union missing[r]
    <3>1. CASE socket[r] = "open" /\ since'[r] = since[r]
      BY <1>5, <2>1, <3>1 DEF NothingMissed
    <3>2. CASE r = s /\ since'[s] = Len(sent)
      BY <2>1, <3>2 DEF RealtimeTypeOK
    <3>3. \/ socket[r] = "open" /\ since'[r] = since[r]
          \/ r = s /\ since'[s] = Len(sent)
      BY <1>3, <1>4, <2>1 DEF RealtimeTypeOK, Comings, RefuseSocket, Connect, Disconnect,
                              BreakSocket, ExpireEntry
    <3> QED
      BY <3>1, <3>2, <3>3
  <2> QED
    BY <1>1, <2>1 DEF NothingMissed
<1> QED
  BY <1>6, <1>7, <1>8, <1>9, <1>10

\* A consumer takes an event: it shows it, or ends.
LEMMA HandleKeeps ==
  ASSUME RealtimeInv, NEW s \in Sockets, NEW n \in inbound[s], HandleEvent(s, n)
  PROVE  RealtimeInv'
<1> USE DEF RealtimeInv
<1>1. /\ UNCHANGED <<sent, groups, since, missing, lapsed, breaks>>
      /\ inbound' = [inbound EXCEPT ![s] = @ \ {n}]
      /\ \/ shown' = [shown EXCEPT ![s] = @ \union {n}] /\ UNCHANGED <<socket, cause>>
         \/ /\ socket' = [socket EXCEPT ![s] = "ended"]
            /\ cause' = [cause EXCEPT ![s] = sent[n].type]
            /\ UNCHANGED shown
  BY DEF HandleEvent
<1>2. n \in 1 .. Len(sent) /\ sent[n].type \in EventTypes
  <2>1. n \in 1 .. Len(sent) /\ sent \in Seq([type : EventTypes, to : Viewers])
    BY DEF RealtimeTypeOK
  <2>2. sent[n] \in [type : EventTypes, to : Viewers]
    BY <2>1, EventAt
  <2> QED
    BY <2>1, <2>2
<1>3. RealtimeTypeOK'
  <2>1. ASSUME NEW r \in Sockets
        PROVE  Cardinality(inbound'[r]) <= Capacity
    <3>1. Cardinality(inbound[s] \ {n}) <= Capacity /\ Cardinality(inbound[r]) <= Capacity
      BY OneLess DEF RealtimeTypeOK
    <3>2. inbound'[r] = IF r = s THEN inbound[s] \ {n} ELSE inbound[r]
      BY <1>1 DEF RealtimeTypeOK
    <3> QED
      BY <3>1, <3>2
  <2>2. /\ inbound' \in [Sockets -> SUBSET (1 .. Len(sent))]
        /\ shown' \in [Sockets -> SUBSET (1 .. Len(sent))]
    <3>1. /\ inbound \in [Sockets -> SUBSET (1 .. Len(sent))] /\ inbound[s] \ {n} \subseteq 1 .. Len(sent)
          /\ shown \in [Sockets -> SUBSET (1 .. Len(sent))] /\ shown[s] \union {n} \subseteq 1 .. Len(sent)
      BY <1>2 DEF RealtimeTypeOK
    <3> QED
      BY <1>1, <3>1
  <2>3. /\ socket' \in [Sockets -> {"away", "refused", "joining", "open", "left", "ended", "cut"}]
        /\ cause' \in [Sockets -> EventTypes \union {"none"}]
    BY <1>1, <1>2 DEF RealtimeTypeOK
  <2> QED
    BY <1>1, <2>1, <2>2, <2>3 DEF RealtimeTypeOK
<1>4. OwnGroupOnly' /\ InItsGroup'
  BY <1>1 DEF OwnGroupOnly, InItsGroup, RealtimeTypeOK, Entry, GroupOf, UserGroup, InboxGroup
<1>5. OwnEventsOnly'
  BY <1>1 DEF OwnEventsOnly, RealtimeTypeOK
<1>6. NothingMissed'
  BY <1>1 DEF OwnEventsOnly, NothingMissed, RealtimeTypeOK
<1> QED
  BY <1>3, <1>4, <1>5, <1>6

\* A message expires.
LEMMA ExpireKeeps ==
  ASSUME RealtimeInv, NEW s \in Sockets, NEW n \in inbound[s], ExpireMessage(s, n)
  PROVE  RealtimeInv'
<1> USE DEF RealtimeInv
<1>1. /\ UNCHANGED <<sent, groups, socket, since, shown, lapsed, cause, breaks>>
      /\ inbound' = [inbound EXCEPT ![s] = @ \ {n}]
      /\ missing' = [missing EXCEPT ![s] = @ \union {n}]
  BY DEF ExpireMessage
<1>2. RealtimeTypeOK'
  BY <1>1, OneLess DEF RealtimeTypeOK
<1>3. OwnGroupOnly' /\ InItsGroup'
  BY <1>1 DEF OwnGroupOnly, InItsGroup
<1>4. OwnEventsOnly' /\ NothingMissed'
  BY <1>1 DEF OwnEventsOnly, NothingMissed, RealtimeTypeOK
<1> QED
  BY <1>2, <1>3, <1>4

\* The dispatcher sends an event: those in the group get it, or it is lost.
LEMMA NotifyKeeps ==
  ASSUME RealtimeInv, NEW v \in Viewers, NEW type \in EventTypes, NotifyUser(v, type)
  PROVE  RealtimeInv'
<1> USE DEF RealtimeInv
<1> DEFINE n == Len(sent) + 1
           event == [type |-> type, to |-> v]
<1>1. PICK some \in SUBSET {s \in Listeners(v) : HasRoom(s)} : Deliver(n, v, some)
  BY DEF NotifyUser
<1>2. /\ sent' = Append(sent, event)
      /\ UNCHANGED <<groups, socket, since, shown, lapsed, cause, breaks>>
  BY DEF NotifyUser
<1>3. /\ sent' \in Seq([type : EventTypes, to : Viewers])
      /\ Len(sent) \in Nat /\ Len(sent') = n
      /\ sent'[n] = event /\ \A i \in 1 .. Len(sent) : sent'[i] = sent[i]
  <2>1. sent \in Seq([type : EventTypes, to : Viewers]) /\ event \in [type : EventTypes, to : Viewers]
    BY DEF RealtimeTypeOK
  <2> HIDE DEF event
  <2> QED
    BY <1>2, <2>1
<1>4. event.to = v
  OBVIOUS
<1> HIDE DEF n, event
<1>5. ASSUME NEW s \in Sockets
      PROVE  /\ inbound'[s] = IF s \in some THEN inbound[s] \union {n} ELSE inbound[s]
             /\ missing'[s] = IF s \in Listeners(v) \ some THEN missing[s] \union {n}
                              ELSE missing[s]
             /\ s \in some => s \in Listeners(v) /\ HasRoom(s)
  BY <1>1 DEF Deliver
<1>6. n \in 1 .. Len(sent') /\ \A i \in 1 .. Len(sent) : i \in 1 .. Len(sent')
  BY <1>3 DEF n
<1>7. /\ inbound' \in [Sockets -> SUBSET (1 .. Len(sent'))]
      /\ missing' \in [Sockets -> SUBSET (1 .. Len(sent'))]
      /\ \A s \in Sockets : Cardinality(inbound'[s]) <= Capacity
  <2>1. ASSUME NEW s \in Sockets
        PROVE  /\ inbound'[s] \subseteq 1 .. Len(sent') /\ missing'[s] \subseteq 1 .. Len(sent')
               /\ Cardinality(inbound'[s]) <= Capacity
    <3>1. inbound[s] \subseteq 1 .. Len(sent) /\ missing[s] \subseteq 1 .. Len(sent)
      BY DEF RealtimeTypeOK
    <3>2. inbound'[s] \subseteq 1 .. Len(sent') /\ missing'[s] \subseteq 1 .. Len(sent')
      BY <1>5, <1>6, <3>1
    <3>3. CASE s \in some
      BY <1>5, <3>3, RoomForOne, <3>2
    <3>4. CASE s \notin some
      BY <1>5, <3>2, <3>4 DEF RealtimeTypeOK
    <3> QED
      BY <3>2, <3>3, <3>4
  <2> QED
    BY <1>1, <2>1 DEF Deliver
<1>8. RealtimeTypeOK'
  BY <1>2, <1>3, <1>6, <1>7 DEF RealtimeTypeOK, n
<1>9. OwnGroupOnly' /\ InItsGroup'
  BY <1>2 DEF OwnGroupOnly, InItsGroup, Entry, GroupOf, UserGroup, InboxGroup
<1>10. OwnEventsOnly'
  <2> SUFFICES ASSUME NEW s \in Sockets, NEW k \in inbound'[s] \union shown'[s]
               PROVE  sent'[k].to = ViewerOf[s]
    BY DEF OwnEventsOnly
  <2>1. CASE k = n /\ s \in some
    BY <1>3, <1>4, <1>5, <2>1 DEF Listeners, OwnGroupOnly
  <2>2. CASE k \in inbound[s] \union shown[s]
    BY <1>3, <2>2 DEF OwnEventsOnly, RealtimeTypeOK
  <2> QED
    BY <1>2, <1>5, <2>1, <2>2
<1>11. NothingMissed'
  <2>1. ASSUME NEW s \in Sockets, NEW k \in shown[s]
        PROVE  sent'[k].to = ViewerOf[s]
    BY <1>2, <1>10, <2>1 DEF OwnEventsOnly
  <2>2. ASSUME NEW s \in Sockets, socket[s] = "open", EndpointOf[s] = "events", s \notin lapsed,
               NEW k \in since[s] + 1 .. Len(sent'), sent'[k].to = ViewerOf[s]
        PROVE  k \in shown[s] \union inbound'[s] \union missing'[s]
    <3>1. CASE k = n
      <4>1. Entry(s) \in groups /\ Entry(s) = <<UserGroup(v), s>>
        BY <1>3, <1>4, <2>2, <3>1, EntryShape DEF InItsGroup
      <4>2. s \in Listeners(v)
        BY <4>1 DEF Listeners
      <4> QED
        BY <1>5, <3>1, <4>2
    <3>2. CASE k # n
      <4>1. k \in since[s] + 1 .. Len(sent) /\ k \in 1 .. Len(sent)
        BY <1>3, <2>2, <3>2 DEF RealtimeTypeOK, n
      <4>2. k \in shown[s] \union inbound[s] \union missing[s]
        BY <1>3, <2>2, <4>1 DEF NothingMissed
      <4> QED
        BY <1>5, <4>2
    <3> QED
      BY <3>1, <3>2
  <2> QED
    BY <1>2, <2>1, <2>2 DEF NothingMissed
<1> QED
  BY <1>8, <1>9, <1>10, <1>11

LEMMA RealtimeInvStep == RealtimeInv /\ [RealtimeNext]_realtimeVars => RealtimeInv'
<1> SUFFICES ASSUME RealtimeInv, [RealtimeNext]_realtimeVars PROVE RealtimeInv'
  OBVIOUS
<1>1. ASSUME NEW s \in Sockets, Comings(s) PROVE RealtimeInv'
  BY <1>1, ComingsKeep
<1>2. ASSUME NEW s \in Sockets, NEW n \in inbound[s], HandleEvent(s, n) PROVE RealtimeInv'
  BY <1>2, HandleKeeps
<1>3. ASSUME NEW s \in Sockets, NEW n \in inbound[s], ExpireMessage(s, n) PROVE RealtimeInv'
  BY <1>3, ExpireKeeps
<1>4. ASSUME NEW v \in Viewers, NEW type \in EventTypes, NotifyUser(v, type)
      PROVE  RealtimeInv'
  BY <1>4, NotifyKeeps
<1>5. CASE UNCHANGED realtimeVars
  <2>1. UNCHANGED <<sent, groups, inbound, socket, since, shown, missing, lapsed, cause, breaks>>
    BY <1>5 DEF realtimeVars
  <2>2. RealtimeTypeOK'
    BY <2>1 DEF RealtimeInv, RealtimeTypeOK
  <2> QED
    BY <2>1, <2>2 DEF RealtimeInv, OwnGroupOnly, OwnEventsOnly, InItsGroup, NothingMissed,
                      Entry, GroupOf, UserGroup, InboxGroup
<1> QED
  BY <1>1, <1>2, <1>3, <1>4, <1>5 DEF RealtimeNext, Comings

LEMMA RealtimeAlways == RealtimeSpec => []RealtimeInv
<1> QED
  BY RealtimeInvInit, RealtimeInvStep, PTL DEF RealtimeSpec

-----------------------------------------------------------------------------
(* Theorems *)

(* The variables keep their types; no channel holds more than its capacity.  *)
THEOREM RealtimeTypes == RealtimeSpec => []RealtimeTypeOK
<1>1. RealtimeInv => RealtimeTypeOK
  BY DEF RealtimeInv
<1> QED
  BY <1>1, RealtimeAlways, PTL

(* An event stream is shown its own user's events only, and from the moment  *)
(* connect() accepted it until it ends it misses none that the channel layer *)
(* did not lose, however sockets come and go (EventConsumer.connect).        *)
THEOREM OpenStreamsMissNothing == RealtimeSpec => []NothingMissed
<1>1. RealtimeInv => NothingMissed
  BY DEF RealtimeInv
<1> QED
  BY <1>1, RealtimeAlways, PTL

=============================================================================
