------------------------- MODULE HotstuffGossipProofs -------------------------
(***************************************************************************)
(* For every set of peers, every set of messages and every size of the      *)
(* channel: the filters of the GossipValidator hold back no fresh message   *)
(* and discard only what the worker would refuse or not vote for, and a     *)
(* worker gets a message at most once.                                      *)
(*                                                                         *)
(* The properties are inductive only together with four facts: the          *)
(* validator's view is the worker's or the one before it; a message that is *)
(* not older than the validator tolerates is still kept; whatever is        *)
(* accepted, kept or on the wire has been accepted by its origin, so that   *)
(* no worker gets its own message back; and the channel holds no message    *)
(* twice.                                                                   *)
(***************************************************************************)
EXTENDS HotstuffGossip, FiniteSetTheorems, SequenceTheorems, TLAPS

Distinct(s) == \A i, j \in DOMAIN s : s[i] = s[j] => i = j

ViewsTrail ==
  \A n \in Peers : view[n] \in {validator_view[n], validator_view[n] + 1}

FreshKept ==
  \A n \in Peers : \A m \in accepted[n] :
    m.view >= validator_view[n] - 1 => m \in kept[n]

OriginAccepted ==
  /\ \A n \in Peers : kept[n] \subseteq accepted[n]
  /\ \A n \in Peers : \A m \in accepted[n] : m \in accepted[m.origin]
  /\ \A n, p \in Peers : \A m \in Message :
       <<n, p, m>> \in wire => m \in accepted[m.origin]

(* Where the messages from n's peers are. *)
Delivered(n) ==
  /\ Distinct(channel[n])
  /\ Range(channel[n]) \cap handled[n] = {}
  /\ (Range(channel[n]) \cup handled[n]) \cap dropped[n] = {}
  /\ Range(channel[n]) \cup handled[n] \cup dropped[n]
       = {m \in accepted[n] : m.origin # n}

GossipInv ==
  /\ TypeOK
  /\ ViewsTrail
  /\ FreshKept
  /\ OriginAccepted
  /\ \A n \in Peers : Delivered(n)

(***************************************************************************)
(* Queues without repetition.                                              *)
(***************************************************************************)
(* Pushing a message that the channel does not hold (try_send). *)
LEMMA AppendDistinct ==
  ASSUME NEW S, NEW s \in Seq(S), NEW m \in S, Distinct(s), m \notin Range(s)
  PROVE  Distinct(Append(s, m)) /\ Range(Append(s, m)) = Range(s) \cup {m}
<1> DEFINE t == Append(s, m)
<1>1. /\ Len(s) \in Nat /\ DOMAIN s = 1 .. Len(s)
      /\ DOMAIN t = 1 .. (Len(s) + 1)
      /\ t[Len(s) + 1] = m
      /\ \A i \in 1 .. Len(s) : t[i] = s[i]
  BY AppendProperties, LenProperties
<1> HIDE DEF t
<1>2. \A i \in 1 .. Len(s) : t[i] # m
  BY <1>1 DEF Range
<1>3. Distinct(t)
  BY <1>1, <1>2 DEF Distinct
<1>4. Range(t) = Range(s) \cup {m}
  BY <1>1 DEF Range
<1> QED BY <1>3, <1>4 DEF t

(* Taking the oldest message out (the worker's recv). *)
LEMMA TailDistinct ==
  ASSUME NEW S, NEW s \in Seq(S), s # <<>>, Distinct(s)
  PROVE  /\ Distinct(Tail(s)) /\ Head(s) \in Range(s)
         /\ Range(Tail(s)) = Range(s) \ {Head(s)}
<1>1. /\ Len(s) \in Nat \ {0} /\ DOMAIN s = 1 .. Len(s) /\ Head(s) = s[1]
      /\ DOMAIN Tail(s) = 1 .. (Len(s) - 1)
      /\ \A i \in 1 .. (Len(s) - 1) : Tail(s)[i] = s[i + 1]
  BY HeadTailProperties, LenProperties, EmptySeq
<1> DEFINE t == Tail(s)
<1> HIDE DEF t
<1>2. Distinct(t)
  BY <1>1 DEF Distinct, t
<1>3. \A i \in 1 .. (Len(s) - 1) : t[i] \in Range(s) /\ t[i] # s[1]
  BY <1>1 DEF Distinct, Range, t
<1>4. ASSUME NEW i \in 1 .. Len(s), s[i] # s[1] PROVE s[i] \in Range(t)
  <2>1. i - 1 \in DOMAIN t /\ t[i - 1] = s[i]
    BY <1>1, <1>4 DEF t
  <2> QED BY <2>1 DEF Range
<1>5. Range(t) = Range(s) \ {s[1]}
  BY <1>1, <1>3, <1>4 DEF Range, t
<1>6. Head(s) \in Range(s)
  BY <1>1 DEF Range
<1> QED BY <1>1, <1>2, <1>5, <1>6 DEF t

(* As many messages wait as the channel is long. *)
LEMMA DistinctCount ==
  ASSUME NEW S, NEW s \in Seq(S), Distinct(s)
  PROVE  Cardinality({s[i] : i \in DOMAIN s}) = Len(s)
<1> DEFINE T == {s[i] : i \in DOMAIN s}
<1>1. Len(s) \in Nat /\ DOMAIN s = 1 .. Len(s) /\ s \in [1 .. Len(s) -> S]
  BY LenProperties
<1>2. s \in [1 .. Len(s) -> T]
  BY <1>1
<1>3. s \in Bijection(1 .. Len(s), T)
  <2>1. s \in Injection(1 .. Len(s), T)
    BY <1>1, <1>2 DEF Distinct, Injection, IsInjective
  <2>2. \A t \in T : \E i \in 1 .. Len(s) : s[i] = t
    BY <1>1
  <2> HIDE DEF T
  <2>3. s \in Surjection(1 .. Len(s), T)
    BY <1>2, <2>2 DEF Surjection
  <2> QED BY <2>1, <2>3 DEF Bijection
<1>4. IsFiniteSet(1 .. Len(s)) /\ Cardinality(1 .. Len(s)) = Len(s)
  <2> HIDE DEF T
  <2>1. 1 \in Int /\ Len(s) \in Int
    BY <1>1
  <2>2. /\ IsFiniteSet(1 .. Len(s))
        /\ Cardinality(1 .. Len(s)) = IF 1 > Len(s) THEN 0 ELSE Len(s) - 1 + 1
    BY <2>1, FS_Interval, Zenon
  <2> QED BY <1>1, <2>2
<1> HIDE DEF T
<1>5. Cardinality(T) = Cardinality(1 .. Len(s))
  BY <1>3, <1>4, FS_Bijection DEF ExistsBijection
<1> QED BY <1>4, <1>5 DEF T

(***************************************************************************)
(* The invariant, one action at a time.                                    *)
(***************************************************************************)
(* A message has a view and comes from a peer. *)
LEMMA MessageType ==
  ASSUME NEW m \in Message PROVE m.view \in 0 .. MaxU64 /\ m.origin \in Peers
  BY GossipAssumption

(* The first state satisfies the invariant. *)
LEMMA InitGossipInv == Init => GossipInv
<1> SUFFICES ASSUME Init PROVE GossipInv
  OBVIOUS
<1>1. TypeOK
  BY GossipAssumption DEF Init, TypeOK
<1>2. ViewsTrail /\ FreshKept /\ OriginAccepted
  BY DEF Init, ViewsTrail, FreshKept, OriginAccepted
<1>3. \A n \in Peers : Delivered(n)
  BY DEF Init, Delivered, Distinct, Range
<1> QED BY <1>1, <1>2, <1>3 DEF GossipInv

(* The worker moves to the next view only when the validator has followed   *)
(* to the current one (advance_view). *)
LEMMA AdvanceViewGossip ==
  ASSUME GossipInv, NEW n \in Peers, AdvanceView(n) PROVE GossipInv'
<1>1. /\ view[n] = validator_view[n] /\ view[n] < MaxView
      /\ view' = [view EXCEPT ![n] = @ + 1]
      /\ UNCHANGED <<validator_view, accepted, kept, peer_knows, wire, channel,
                     handled, refused, dropped>>
  BY DEF AdvanceView, engineVars
<1>2. TypeOK'
  <2>1. view \in [Peers -> 0 .. MaxView] /\ view[n] + 1 \in 0 .. MaxView
    BY <1>1, GossipAssumption DEF GossipInv, TypeOK
  <2>2. view' \in [Peers -> 0 .. MaxView]
    BY <1>1, <2>1
  <2> QED BY <1>1, <2>2, Zenon DEF GossipInv, TypeOK
<1>3. ViewsTrail'
  BY <1>1 DEF GossipInv, ViewsTrail, TypeOK
<1>4. FreshKept' /\ OriginAccepted'
  BY <1>1 DEF GossipInv, FreshKept, OriginAccepted
<1>5. \A p \in Peers : Delivered(p)'
  BY <1>1 DEF GossipInv, Delivered
<1> QED BY <1>2, <1>3, <1>4, <1>5 DEF GossipInv

(* The validator takes over the worker's view, which is no older than its   *)
(* own (GossipValidator::set_view). *)
LEMMA SetViewGossip ==
  ASSUME GossipInv, NEW n \in Peers, SetView(n) PROVE GossipInv'
<1>1. /\ validator_view' = [validator_view EXCEPT ![n] = view[n]]
      /\ UNCHANGED <<view, accepted, kept, peer_knows, wire, channel, handled, refused,
                     dropped>>
  BY DEF SetView, engineVars
<1>2. TypeOK'
  <2>1. validator_view' \in [Peers -> 0 .. MaxView]
    BY <1>1 DEF GossipInv, TypeOK
  <2> QED BY <1>1, <2>1, Zenon DEF GossipInv, TypeOK
<1>3. ViewsTrail'
  BY <1>1 DEF GossipInv, ViewsTrail, TypeOK
<1>4. FreshKept'
  <2>1. /\ validator_view \in [Peers -> Nat] /\ view \in [Peers -> Nat]
        /\ \A p \in Peers : accepted[p] \subseteq Message
    BY GossipAssumption DEF GossipInv, TypeOK
  <2>2. \A p \in Peers : validator_view'[p] \in Nat
                         /\ validator_view'[p] >= validator_view[p]
    BY <1>1, <2>1 DEF GossipInv, ViewsTrail
  <2> QED BY <1>1, <2>1, <2>2, MessageType DEF GossipInv, FreshKept
<1>5. OriginAccepted'
  BY <1>1 DEF GossipInv, OriginAccepted
<1>6. \A p \in Peers : Delivered(p)'
  BY <1>1 DEF GossipInv, Delivered
<1> QED BY <1>2, <1>3, <1>4, <1>5, <1>6 DEF GossipInv

(* A worker gossips a message of its own (gossip_message): it enters the    *)
(* engine, not the worker's channel. *)
LEMMA GossipMessageGossip ==
  ASSUME GossipInv, NEW n \in Peers, NEW m \in Message, GossipMessage(n, m)
  PROVE  GossipInv'
<1>1. /\ m.origin = n
      /\ accepted' = [accepted EXCEPT ![n] = @ \cup {m}]
      /\ kept' = [kept EXCEPT ![n] = @ \cup {m}]
      /\ UNCHANGED <<view, validator_view, peer_knows, wire, channel, handled, refused,
                     dropped>>
  BY DEF GossipMessage, workerVars
<1>2. accepted \in [Peers -> SUBSET Message] /\ kept \in [Peers -> SUBSET Message]
  BY DEF GossipInv, TypeOK
<1>3. TypeOK'
  <2>1. accepted' \in [Peers -> SUBSET Message] /\ kept' \in [Peers -> SUBSET Message]
    BY <1>1, <1>2
  <2> QED BY <1>1, <2>1, Zenon DEF GossipInv, TypeOK
<1>4. ViewsTrail'
  BY <1>1 DEF GossipInv, ViewsTrail
<1>5. FreshKept'
  BY <1>1, <1>2 DEF GossipInv, FreshKept
<1>6. OriginAccepted'
  BY <1>1, <1>2, MessageType DEF GossipInv, OriginAccepted
<1>7. \A p \in Peers : Delivered(p)'
  <2>1. \A p \in Peers : {k \in accepted'[p] : k.origin # p}
                           = {k \in accepted[p] : k.origin # p}
    BY <1>1, <1>2
  <2> QED BY <1>1, <2>1 DEF GossipInv, Delivered
<1> QED BY <1>3, <1>4, <1>5, <1>6, <1>7 DEF GossipInv

(* The worker takes the oldest message from the channel. *)
LEMMA WorkerReceiveGossip ==
  ASSUME GossipInv, NEW n \in Peers, WorkerReceive(n) PROVE GossipInv'
<1>1. /\ channel[n] # <<>>
      /\ handled' = [handled EXCEPT ![n] = @ \cup {Head(channel[n])}]
      /\ channel' = [channel EXCEPT ![n] = Tail(@)]
      /\ UNCHANGED <<view, validator_view, accepted, kept, peer_knows, wire, dropped>>
  BY DEF WorkerReceive, engineVars
<1>2. channel \in [Peers -> Seq(Message)] /\ handled \in [Peers -> SUBSET Message]
  BY DEF GossipInv, TypeOK
<1>3. Head(channel[n]) \in Message /\ Tail(channel[n]) \in Seq(Message)
  BY <1>1, <1>2, HeadTailProperties
<1>4. TypeOK'
  <2>1. refused' \in [Peers -> SUBSET Message]
    <3>1. refused \in [Peers -> SUBSET Message]
      BY DEF GossipInv, TypeOK
    <3>2. \/ refused' = refused
          \/ refused' = [refused EXCEPT ![n] = @ \cup {Head(channel[n])}]
      BY DEF WorkerReceive
    <3> QED BY <1>3, <3>1, <3>2
  <2>2. /\ channel' \in [Peers -> Seq(Message)]
        /\ handled' \in [Peers -> SUBSET Message]
    BY <1>1, <1>2, <1>3
  <2> QED BY <1>1, <2>1, <2>2, Zenon DEF GossipInv, TypeOK
<1>5. ViewsTrail' /\ FreshKept' /\ OriginAccepted'
  BY <1>1 DEF GossipInv, ViewsTrail, FreshKept, OriginAccepted
<1>6. ASSUME NEW p \in Peers PROVE Delivered(p)'
  <2>1. Delivered(p)
    BY DEF GossipInv
  <2>2. CASE p = n
    <3> DEFINE c == channel[n]
    <3>1. /\ Distinct(Tail(c)) /\ Head(c) \in Range(c)
          /\ Range(Tail(c)) = Range(c) \ {Head(c)}
      BY <1>1, <1>2, <2>1, <2>2, TailDistinct DEF Delivered
    <3>2. channel'[n] = Tail(c) /\ handled'[n] = handled[n] \cup {Head(c)}
      BY <1>1, <1>2
    <3> QED BY <1>1, <2>1, <2>2, <3>1, <3>2 DEF Delivered
  <2>3. CASE p # n
    BY <1>1, <1>2, <2>1, <2>3 DEF Delivered
  <2> QED BY <2>2, <2>3
<1> QED BY <1>4, <1>5, <1>6 DEF GossipInv

(* The engine sends what it keeps, which its origin has accepted. *)
LEMMA SendGossip ==
  ASSUME GossipInv, NEW n \in Peers, NEW p \in Peers, Send(n, p) PROVE GossipInv'
<1>1. PICK m \in kept[n] :
        /\ peer_knows' = peer_knows \cup {<<n, p, m>>}
        /\ wire' = wire \cup {<<n, p, m>>}
        /\ UNCHANGED <<accepted, kept, view, validator_view, channel, handled, refused,
                       dropped>>
  BY DEF Send, workerVars
<1>2. m \in Message /\ m \in accepted[m.origin]
  BY DEF GossipInv, TypeOK, OriginAccepted
<1>3. TypeOK'
  <2>1. <<n, p, m>> \in Peers \X Peers \X Message
    BY <1>2
  <2>2. /\ peer_knows' \subseteq Peers \X Peers \X Message
        /\ wire' \subseteq Peers \X Peers \X Message
    BY <1>1, <2>1, Zenon DEF GossipInv, TypeOK
  <2> QED BY <1>1, <2>2, Zenon DEF GossipInv, TypeOK
<1>4. ViewsTrail' /\ FreshKept'
  BY <1>1 DEF GossipInv, ViewsTrail, FreshKept
<1>5. OriginAccepted'
  <2>1. ASSUME NEW a \in Peers, NEW b \in Peers, NEW k \in Message,
               <<a, b, k>> \in wire'
        PROVE  k \in accepted[k.origin]
    BY <1>1, <1>2, <2>1 DEF GossipInv, OriginAccepted
  <2> QED BY <1>1, <2>1 DEF GossipInv, OriginAccepted
<1>6. \A q \in Peers : Delivered(q)'
  BY <1>1 DEF GossipInv, Delivered
<1> QED BY <1>3, <1>4, <1>5, <1>6 DEF GossipInv

(* A message that arrives and is accepted goes to the channel or, when that *)
(* is full, is dropped (incoming_message_handler). *)
LEMMA ArriveGossip ==
  ASSUME GossipInv, NEW n \in Peers, NEW p \in Peers, NEW m \in Message,
         Arrive(n, p, m)
  PROVE  GossipInv'
<1>1. /\ <<n, p, m>> \in wire
      /\ wire' = wire \ {<<n, p, m>>}
      /\ peer_knows' = peer_knows \cup {<<p, n, m>>}
      /\ UNCHANGED <<view, validator_view, handled, refused>>
  BY DEF Arrive
<1>2. /\ accepted \in [Peers -> SUBSET Message] /\ kept \in [Peers -> SUBSET Message]
      /\ channel \in [Peers -> Seq(Message)] /\ dropped \in [Peers -> SUBSET Message]
  BY DEF GossipInv, TypeOK
<1>3. m \in accepted[m.origin] /\ m.origin \in Peers
  BY <1>1, MessageType DEF GossipInv, OriginAccepted
<1>4. ViewsTrail'
  BY <1>1 DEF GossipInv, ViewsTrail
<1>5. CASE m \in accepted[p] \/ ~Validate(p, m)
  <2>1. UNCHANGED <<accepted, kept, channel, dropped>>
    BY <1>5 DEF Arrive
  <2>2. TypeOK'
    <3>1. <<p, n, m>> \in Peers \X Peers \X Message
      OBVIOUS
    <3>2. /\ wire' \subseteq Peers \X Peers \X Message
          /\ peer_knows' \subseteq Peers \X Peers \X Message
      BY <1>1, <3>1, Zenon DEF GossipInv, TypeOK
    <3> QED BY <1>1, <2>1, <3>2, Zenon DEF GossipInv, TypeOK
  <2>3. FreshKept' /\ OriginAccepted'
    BY <1>1, <2>1 DEF GossipInv, FreshKept, OriginAccepted
  <2>4. \A q \in Peers : Delivered(q)'
    BY <1>1, <2>1 DEF GossipInv, Delivered
  <2> QED BY <1>4, <2>2, <2>3, <2>4 DEF GossipInv
<1>6. CASE m \notin accepted[p] /\ Validate(p, m)
  <2>1. /\ accepted' = [accepted EXCEPT ![p] = @ \cup {m}]
        /\ kept' = [kept EXCEPT ![p] = @ \cup {m}]
        /\ \/ /\ channel' = [channel EXCEPT ![p] = Append(@, m)]
              /\ UNCHANGED dropped
           \/ /\ dropped' = [dropped EXCEPT ![p] = @ \cup {m}]
              /\ UNCHANGED channel
    BY <1>6 DEF Arrive
  <2>2. TypeOK'
    <3>1. Append(channel[p], m) \in Seq(Message)
      BY <1>2, AppendProperties
    <3>2. channel' \in [Peers -> Seq(Message)] /\ dropped' \in [Peers -> SUBSET Message]
      <4>1. CASE channel' = [channel EXCEPT ![p] = Append(@, m)] /\ UNCHANGED dropped
        BY <1>2, <3>1, <4>1
      <4>2. CASE dropped' = [dropped EXCEPT ![p] = @ \cup {m}] /\ UNCHANGED channel
        BY <1>2, <4>2
      <4> QED BY <2>1, <4>1, <4>2
    <3>3. accepted' \in [Peers -> SUBSET Message] /\ kept' \in [Peers -> SUBSET Message]
      BY <1>2, <2>1
    <3>4. <<p, n, m>> \in Peers \X Peers \X Message
      OBVIOUS
    <3>5. wire' \subseteq Peers \X Peers \X Message
          /\ peer_knows' \subseteq Peers \X Peers \X Message
      BY <1>1, <3>4, Zenon DEF GossipInv, TypeOK
    <3> QED BY <1>1, <3>2, <3>3, <3>5, Zenon DEF GossipInv, TypeOK
  <2>3. FreshKept'
    BY <1>1, <1>2, <2>1 DEF GossipInv, FreshKept
  <2>4. OriginAccepted'
    <3>1. \A q \in Peers : accepted[q] \subseteq accepted'[q]
      BY <1>2, <2>1
    <3>2. \A q \in Peers : kept'[q] \subseteq accepted'[q]
      BY <1>2, <2>1 DEF GossipInv, OriginAccepted
    <3>3. ASSUME NEW q \in Peers, NEW k \in accepted'[q] PROVE k \in accepted'[k.origin]
      <4>1. k \in accepted[k.origin] /\ k.origin \in Peers
        BY <1>2, <1>3, <2>1, <3>3, MessageType DEF GossipInv, OriginAccepted
      <4> QED BY <3>1, <4>1
    <3>4. ASSUME NEW a \in Peers, NEW b \in Peers, NEW k \in Message,
                 <<a, b, k>> \in wire'
          PROVE  k \in accepted'[k.origin]
      <4>1. k \in accepted[k.origin] /\ k.origin \in Peers
        BY <1>1, <3>4, MessageType DEF GossipInv, OriginAccepted
      <4> QED BY <3>1, <4>1
    <3> QED BY <3>2, <3>3, <3>4 DEF OriginAccepted
  <2>5. ASSUME NEW q \in Peers PROVE Delivered(q)'
    <3>1. Delivered(q)
      BY DEF GossipInv
    <3>2. CASE q = p
      <4>1. m.origin # p
        BY <1>3, <1>6
      <4>2. {k \in accepted'[p] : k.origin # p}
              = {k \in accepted[p] : k.origin # p} \cup {m}
        BY <1>2, <2>1, <4>1
      <4>3. m \notin Range(channel[p]) \cup handled[p] \cup dropped[p]
        BY <1>6, <3>1, <3>2 DEF Delivered
      <4>4. CASE channel' = [channel EXCEPT ![p] = Append(@, m)] /\ UNCHANGED dropped
        <5>1. /\ Distinct(channel'[p])
              /\ Range(channel'[p]) = Range(channel[p]) \cup {m}
          BY <1>2, <3>1, <3>2, <4>3, <4>4, AppendDistinct DEF Delivered
        <5> QED BY <1>1, <3>1, <3>2, <4>2, <4>3, <4>4, <5>1 DEF Delivered
      <4>5. CASE dropped' = [dropped EXCEPT ![p] = @ \cup {m}] /\ UNCHANGED channel
        <5>1. dropped'[p] = dropped[p] \cup {m}
          BY <1>2, <4>5
        <5> QED BY <1>1, <3>1, <3>2, <4>2, <4>3, <4>5, <5>1 DEF Delivered
      <4> QED BY <2>1, <4>4, <4>5
    <3>3. CASE q # p
      <4>1. /\ channel'[q] = channel[q] /\ dropped'[q] = dropped[q]
            /\ accepted'[q] = accepted[q] /\ handled'[q] = handled[q]
        BY <1>1, <1>2, <2>1, <3>3
      <4> QED BY <3>1, <4>1 DEF Delivered
    <3> QED BY <3>2, <3>3
  <2> QED BY <1>4, <2>2, <2>3, <2>4, <2>5 DEF GossipInv
<1> QED BY <1>5, <1>6

(* The sweep drops only what is older than the validator tolerates. *)
LEMMA SweepGossip ==
  ASSUME GossipInv, NEW n \in Peers, Sweep(n) PROVE GossipInv'
<1>1. /\ kept' = [kept EXCEPT ![n] = {m \in @ : ~MessageExpired(n, m)}]
      /\ UNCHANGED <<view, validator_view, accepted, peer_knows, wire, channel,
                     handled, refused, dropped>>
  BY DEF Sweep, workerVars
<1>2. /\ kept \in [Peers -> SUBSET Message] /\ accepted \in [Peers -> SUBSET Message]
      /\ validator_view \in [Peers -> Nat]
  BY GossipAssumption DEF GossipInv, TypeOK
<1>3. TypeOK'
  <2>1. kept' \in [Peers -> SUBSET Message]
    BY <1>1, <1>2
  <2> QED BY <1>1, <2>1, Zenon DEF GossipInv, TypeOK
<1>4. ViewsTrail'
  BY <1>1 DEF GossipInv, ViewsTrail
<1>5. FreshKept'
  BY <1>1, <1>2, MessageType DEF GossipInv, FreshKept, MessageExpired, Pred
<1>6. OriginAccepted'
  BY <1>1, <1>2 DEF GossipInv, OriginAccepted
<1>7. \A q \in Peers : Delivered(q)'
  BY <1>1 DEF GossipInv, Delivered
<1> QED BY <1>3, <1>4, <1>5, <1>6, <1>7 DEF GossipInv

(* Every step preserves the invariant. *)
LEMMA NextGossipInv == GossipInv /\ [Next]_vars => GossipInv'
<1> SUFFICES ASSUME GossipInv, [Next]_vars PROVE GossipInv'
  OBVIOUS
<1>1. CASE UNCHANGED vars
  <2>1. TypeOK'
    BY <1>1, Zenon DEF vars, GossipInv, TypeOK
  <2>2. ViewsTrail' /\ FreshKept' /\ OriginAccepted'
    BY <1>1, Zenon DEF vars, GossipInv, ViewsTrail, FreshKept, OriginAccepted
  <2>3. \A n \in Peers : Delivered(n)'
    BY <1>1 DEF vars, GossipInv, Delivered
  <2> QED BY <2>1, <2>2, <2>3 DEF GossipInv
<1>2. CASE Next
  BY <1>2, AdvanceViewGossip, SetViewGossip, GossipMessageGossip,
     WorkerReceiveGossip, SendGossip, ArriveGossip, SweepGossip DEF Next
<1> QED BY <1>1, <1>2

(***************************************************************************)
(* The theorems.                                                           *)
(***************************************************************************)
(* The invariant holds in every reachable state. *)
THEOREM GossipInvariance == Spec => []GossipInv
  BY InitGossipInv, NextGossipInv, PTL DEF Spec

(* Views stay within their bound, and every set and queue of the network    *)
(* holds messages only. *)
THEOREM GossipTypeCorrect == Spec => []TypeOK
<1>1. GossipInv => TypeOK
  BY DEF GossipInv
<1> QED BY <1>1, GossipInvariance, PTL

(* A message that its sender gossiped for its current view, or a TC for the *)
(* view before, stays with the engine and may leave (message_expired and    *)
(* message_allowed), although the validator's view may lag. *)
THEOREM FreshMessagesAlwaysLeave == Spec => []FreshMessagesLeave
<1>1. GossipInv => FreshMessagesLeave
  <2> SUFFICES ASSUME GossipInv, NEW n \in Peers, NEW m \in accepted[n],
                      m.view >= view[n] - 1
               PROVE  m \in kept[n] /\ MessageAllowed(n, m)
    BY DEF FreshMessagesLeave
  <2>1. view[n] \in Nat /\ validator_view[n] \in Nat /\ m.view \in Nat
    BY GossipAssumption, MessageType DEF GossipInv, TypeOK
  <2>2. m.view >= validator_view[n] - 1
    BY <2>1 DEF GossipInv, ViewsTrail
  <2>3. m \in kept[n]
    BY <2>2 DEF GossipInv, FreshKept
  <2> QED BY <2>1, <2>2, <2>3 DEF MessageAllowed, Pred
<1> QED BY <1>1, GossipInvariance, PTL

(* The worker gets a message at most once, never its own, and what it does  *)
(* not get was dropped at a full channel (incoming_message_handler). *)
THEOREM EachHandledAtMostOnce == Spec => []HandledAtMostOnce
<1>1. GossipInv => HandledAtMostOnce
  <2> SUFFICES ASSUME GossipInv, NEW n \in Peers
               PROVE  LET waiting == {channel[n][i] : i \in DOMAIN channel[n]}
                      IN  /\ Cardinality(waiting) = Len(channel[n])
                          /\ waiting \cap handled[n] = {}
                          /\ (waiting \cup handled[n]) \cap dropped[n] = {}
                          /\ waiting \cup handled[n] \cup dropped[n]
                               = {m \in accepted[n] : m.origin # n}
    BY Zenon DEF HandledAtMostOnce
  <2>1. Delivered(n) /\ channel[n] \in Seq(Message)
    BY DEF GossipInv, TypeOK
  <2>2. Cardinality({channel[n][i] : i \in DOMAIN channel[n]}) = Len(channel[n])
    BY <2>1, DistinctCount DEF Delivered
  <2> QED BY <2>1, <2>2 DEF Delivered, Range
<1> QED BY <1>1, GossipInvariance, PTL

(* A vote, a timeout or a TC that GossipValidator::validate discards would  *)
(* be refused by the worker, a proposal not voted for, in its view and in   *)
(* every later one: the validator's view never exceeds the worker's. *)
THEOREM DiscardsExpiredOnly == Spec => DiscardedIsExpired
<1> DEFINE PastUse(p, m) ==
             \A v \in view[p] .. MaxU64 :
               IF m.type = "Propose" THEN ~VotesFor(v, m) ELSE Refuses(v, m)
           A == \A n, p \in Peers : \A m \in Message :
                  (<<n, p, m>> \in wire \ wire' /\ m \notin accepted'[p]) =>
                    PastUse(p, m)
<1>1. GossipInv /\ [Next]_vars => [A]_vars
  <2> SUFFICES ASSUME GossipInv, Next,
                      NEW n \in Peers, NEW p \in Peers, NEW m \in Message,
                      <<n, p, m>> \in wire \ wire', m \notin accepted'[p]
               PROVE  PastUse(p, m)
    OBVIOUS
  <2>1. PICK a \in Peers, b \in Peers, k \in Message : Arrive(a, b, k)
    <3>1. \A a \in Peers : ~AdvanceView(a) /\ ~SetView(a) /\ ~Sweep(a)
      BY DEF AdvanceView, SetView, Sweep, engineVars
    <3>2. \A a \in Peers : ~WorkerReceive(a)
      BY DEF WorkerReceive, engineVars
    <3>3. \A a \in Peers, k \in Message : ~GossipMessage(a, k)
      BY DEF GossipMessage
    <3>4. \A a, b \in Peers : ~Send(a, b)
      BY Zenon DEF Send
    <3> QED BY <3>1, <3>2, <3>3, <3>4 DEF Next
  <2>2. n = a /\ p = b /\ m = k
    BY <2>1 DEF Arrive
  <2>3. accepted \in [Peers -> SUBSET Message]
    BY DEF GossipInv, TypeOK
  <2>4. ~Validate(p, m)
    BY <2>1, <2>2, <2>3 DEF Arrive
  <2>5. view[p] \in Nat /\ validator_view[p] \in Nat /\ m.view \in Nat
    BY GossipAssumption, MessageType DEF GossipInv, TypeOK
  <2>6. validator_view[p] <= view[p]
    BY <2>5 DEF GossipInv, ViewsTrail
  <2>7. m.view < view[p]
    BY <2>4, <2>5, <2>6 DEF Validate, Pred
  <2>8. \A v \in view[p] .. MaxU64 : m.view < v /\ m.view # v
    BY <2>5, <2>7, GossipAssumption
  <2> QED BY <2>8 DEF VotesFor, Refuses
<1> QED BY <1>1, GossipInvariance, PTL DEF Spec, DiscardedIsExpired

(***************************************************************************)
(* The network the workers may rely on.                                    *)
(***************************************************************************)
(* Gossiping a new message sends it. *)
LEMMA GossipMessageSends ==
  ASSUME GossipInv, NEW n \in Peers, NEW m \in Message, GossipMessage(n, m)
  PROVE  Network!Send(m)
<1>1. /\ m.origin = n /\ m \notin accepted[n]
      /\ accepted' = [accepted EXCEPT ![n] = @ \cup {m}]
      /\ handled' = handled
  BY DEF GossipMessage, workerVars
<1>2. accepted \in [Peers -> SUBSET Message]
  BY DEF GossipInv, TypeOK
<1>3. m \notin Sent
  BY <1>1 DEF Sent
<1>4. Sent' = Sent \cup {m}
  BY <1>1, <1>2, MessageType DEF Sent
<1> QED BY <1>1, <1>3, <1>4 DEF Network!Send

(* What a worker takes from its channel was sent, by somebody else, and is  *)
(* new to it. *)
LEMMA WorkerReceives ==
  ASSUME GossipInv, NEW n \in Peers, WorkerReceive(n)
  PROVE  \E m \in Message : Network!Receive(n, m)
<1> DEFINE m == Head(channel[n])
<1>1. /\ channel[n] # <<>> /\ accepted' = accepted
      /\ handled' = [handled EXCEPT ![n] = @ \cup {m}]
  BY DEF WorkerReceive, engineVars
<1>2. channel[n] \in Seq(Message) /\ Delivered(n)
  BY DEF GossipInv, TypeOK
<1>3. m \in Message /\ m \in Range(channel[n])
  BY <1>1, <1>2, HeadTailProperties, TailDistinct DEF Delivered
<1> HIDE DEF m
<1>4. m \in accepted[n] /\ m.origin # n /\ m \notin handled[n]
  BY <1>2, <1>3 DEF Delivered
<1>5. m \in Sent
  BY <1>3, <1>4 DEF Sent, GossipInv, OriginAccepted
<1>6. Sent' = Sent
  BY <1>1 DEF Sent
<1>7. Network!Receive(n, m)
  BY <1>1, <1>4, <1>5, <1>6 DEF Network!Receive
<1> QED BY <1>3, <1>7

(* A message that arrives has been sent already. *)
LEMMA ArriveUnseen ==
  ASSUME GossipInv, NEW n \in Peers, NEW p \in Peers, NEW m \in Message,
         Arrive(n, p, m)
  PROVE  Sent' = Sent /\ handled' = handled
<1>1. m \in accepted[m.origin] /\ handled' = handled
  BY DEF GossipInv, OriginAccepted, Arrive
<1>2. accepted' = accepted \/ accepted' = [accepted EXCEPT ![p] = @ \cup {m}]
  BY DEF Arrive
<1>3. accepted \in [Peers -> SUBSET Message]
  BY DEF GossipInv, TypeOK
<1>4. \A k \in Message : k \in accepted'[k.origin] <=> k \in accepted[k.origin]
  BY <1>1, <1>2, <1>3, MessageType
<1> QED BY <1>1, <1>4 DEF Sent

(* Every step sends, delivers or is not seen by the workers. *)
LEMMA NetworkSimulation ==
  ASSUME GossipInv, [Next]_vars
  PROVE  [Network!Next]_(Network!networkVars)
<1>1. ASSUME NEW n \in Peers, NEW m \in Message, GossipMessage(n, m)
      PROVE  Network!Next
  BY <1>1, GossipMessageSends DEF Network!Next
<1>2. ASSUME NEW n \in Peers, WorkerReceive(n) PROVE Network!Next
  BY <1>2, WorkerReceives DEF Network!Next
<1>3. ASSUME UNCHANGED <<accepted, handled>> PROVE UNCHANGED Network!networkVars
  BY <1>3 DEF Network!networkVars, Sent
<1>4. ASSUME NEW n \in Peers, NEW p \in Peers, NEW m \in Message, Arrive(n, p, m)
      PROVE  UNCHANGED Network!networkVars
  BY <1>4, ArriveUnseen, Zenon DEF Network!networkVars
<1>5. ASSUME NEW n \in Peers, NEW p \in Peers,
             AdvanceView(n) \/ SetView(n) \/ Send(n, p) \/ Sweep(n)
      PROVE  UNCHANGED <<accepted, handled>>
  <2>1. CASE AdvanceView(n)
    BY <2>1 DEF AdvanceView, engineVars
  <2>2. CASE SetView(n)
    BY <2>2 DEF SetView, engineVars
  <2>3. CASE Send(n, p)
    BY <2>3 DEF Send, workerVars
  <2>4. CASE Sweep(n)
    BY <2>4 DEF Sweep, workerVars
  <2> QED BY <1>5, <2>1, <2>2, <2>3, <2>4
<1>6. UNCHANGED vars => UNCHANGED <<accepted, handled>>
  BY DEF vars
<1> QED BY <1>1, <1>2, <1>3, <1>4, <1>5, <1>6 DEF Next

(* For any number of peers, any channel size and any interleaving of the    *)
(* two tasks of a node, the gossip layer of network.rs is a network that    *)
(* delivers only what was gossiped, at most once and never to its sender.   *)
THEOREM NetworkRefinement == Spec => ImplementsNetwork
<1>1. Init => Network!Init
  BY GossipAssumption DEF Init, Network!Init, Sent
<1>2. GossipInv /\ [Next]_vars => [Network!Next]_(Network!networkVars)
  BY NetworkSimulation
<1> QED
  BY <1>1, <1>2, GossipInvariance, PTL DEF Spec, ImplementsNetwork, Network!Spec
=============================================================================
