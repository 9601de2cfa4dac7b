---------------------- MODULE StatusSubscriptionProofs ----------------------
(***************************************************************************)
(* Proofs about StatusSubscription, for any sets of subscribers and        *)
(* updates and any capacity: SubscriptionInv is inductive, so no publisher *)
(* sends on a closed channel, nobody misses an update without being        *)
(* dropped for it, and updates arrive in the order of their publishing.    *)
(***************************************************************************)
EXTENDS StatusSubscription, SequenceTheorems, TLAPS

(* Facts about two sequences, one of what was forwarded and one of what is *)
(* buffered: forwarding the head does not change what was seen. *)
LEMMA ForwardSeen ==
    ASSUME NEW r \in Seq(Updates), NEW c \in Seq(Updates), c # <<>>
    PROVE  Append(r, Head(c)) \o Tail(c) = r \o c
OBVIOUS

(* Losing the head of the buffer takes one element out. *)
LEMMA LoseSeen ==
    ASSUME NEW r \in Seq(Updates), NEW c \in Seq(Updates), c # <<>>,
           NEW a, a = r \o c, NEW b, b = r \o Tail(c)
    PROVE  /\ Len(b) \in Nat /\ Len(r) \in Nat
           /\ \A i \in 1..Len(b) :
                 /\ (IF i <= Len(r) THEN i ELSE i + 1) \in 1..Len(a)
                 /\ b[i] = a[IF i <= Len(r) THEN i ELSE i + 1]
OBVIOUS

(* A send puts the update behind everything seen before. *)
LEMMA SendSeen ==
    ASSUME NEW r \in Seq(Updates), NEW c \in Seq(Updates), NEW u \in Updates,
           NEW a, a = r \o c, NEW b, b = r \o Append(c, u)
    PROVE  /\ Len(a) \in Nat
           /\ Len(b) = Len(a) + 1
           /\ \A i \in 1..Len(a) : b[i] = a[i]
           /\ b[Len(a) + 1] = u
OBVIOUS

LEMMA SeenType ==
    ASSUME TypeOK, NEW s \in Subscribers
    PROVE  /\ received[s] \in Seq(Updates) /\ channel[s] \in Seq(Updates)
           /\ Seen[s] = received[s] \o channel[s]
           /\ Len(Seen[s]) \in Nat
           /\ \A i \in 1..Len(Seen[s]) : Seen[s][i] \in Updates
BY DEF TypeOK, Seen

LEMMA SeenPublished ==
    ASSUME SubscriptionInv, NEW s \in Subscribers, NEW i \in 1..Len(Seen[s])
    PROVE  /\ Seen[s][i] \in Updates
           /\ publisher[Seen[s][i]] # "ready"
           /\ s \notin ahead[Seen[s][i]]
<1>1. Seen[s][i] \in Updates
  BY SeenType DEF SubscriptionInv
<1>. QED
  BY <1>1 DEF SubscriptionInv, Bookkeeping

-----------------------------------------------------------------------------
LEMMA InitEstablishes == Init => SubscriptionInv
<1>. SUFFICES ASSUME Init PROVE SubscriptionInv
  OBVIOUS
<1>1. TypeOK
  BY SubscriptionAssumption DEF Init, TypeOK
<1>2. ASSUME NEW s \in Subscribers PROVE Len(Seen[s]) = 0
  <2>1. received[s] = <<>> /\ channel[s] = <<>>
    BY DEF Init
  <2>2. \A r, c \in Seq(Updates) : r = <<>> /\ c = <<>> => Len(r \o c) = 0
    OBVIOUS
  <2>. QED
    BY <1>1, <2>1, <2>2, SeenType
<1>3. RegisteredIsOpen
  BY DEF Init, RegisteredIsOpen
<1>4. NoSilentGap
  BY DEF Init, NoSilentGap
<1>5. InPublishOrder
  BY <1>2 DEF InPublishOrder
<1>6. Bookkeeping
  BY <1>2 DEF Init, Bookkeeping
<1>. QED
  BY <1>1, <1>3, <1>4, <1>5, <1>6 DEF SubscriptionInv

(* Steps that neither send, publish nor drop: a subscriber's own. *)
LEMMA SubscribePreserves ==
    ASSUME SubscriptionInv, NEW s \in Subscribers, Subscribe(s)
    PROVE  SubscriptionInv'
<1>. USE DEF SubscriptionInv
<1>1. TypeOK'
  BY DEF TypeOK, Subscribe
<1>2. Seen' = Seen /\ Doomed' = Doomed
  BY DEF Subscribe, Seen, Doomed
<1>3. RegisteredIsOpen'
  BY DEF TypeOK, RegisteredIsOpen, Bookkeeping, Subscribe, ReadLocked
<1>4. Bookkeeping'
  BY <1>2 DEF TypeOK, Bookkeeping, Subscribe
<1>5. InPublishOrder'
  BY <1>2 DEF InPublishOrder, Subscribe
<1>6. NoSilentGap'
  <2>. SUFFICES ASSUME NEW t \in registered', t \notin Doomed', serve'[t] = "serving",
                       NEW u \in due'[t]
                PROVE  t \in ahead'[u] \/ \E i \in 1..Len(Seen'[t]) : Seen'[t][i] = u
    BY DEF NoSilentGap
  <2>1. CASE t = s
    BY <2>1 DEF TypeOK, Bookkeeping, Subscribe
  <2>2. CASE t # s
    <3>1. t \in registered /\ serve[t] = "serving" /\ u \in due[t]
      BY <2>2 DEF TypeOK, Subscribe
    <3>2. t \in ahead[u] \/ \E i \in 1..Len(Seen[t]) : Seen[t][i] = u
      BY <1>2, <3>1 DEF NoSilentGap
    <3>. QED
      BY <1>2, <3>2 DEF Subscribe
  <2>. QED
    BY <2>1, <2>2
<1>. QED
  BY <1>1, <1>3, <1>4, <1>5, <1>6

LEMMA ForwardPreserves ==
    ASSUME SubscriptionInv, NEW s \in Subscribers, Forward(s)
    PROVE  SubscriptionInv'
<1>. USE DEF SubscriptionInv
<1>1. TypeOK'
  <2>1. Head(channel[s]) \in Updates /\ Tail(channel[s]) \in Seq(Updates) /\ Len(Tail(channel[s])) <= Capacity
    BY SubscriptionAssumption DEF TypeOK, Forward
  <2>. QED
    BY <2>1 DEF TypeOK, Forward
<1>2. Seen' = Seen
  <2>1. ASSUME NEW t \in Subscribers PROVE received'[t] \o channel'[t] = received[t] \o channel[t]
    <3>1. CASE t # s
      BY <3>1 DEF TypeOK, Forward
    <3>2. CASE t = s
      <4>1. received'[s] = Append(received[s], Head(channel[s])) /\ channel'[s] = Tail(channel[s])
        BY DEF TypeOK, Forward
      <4>2. received[s] \in Seq(Updates) /\ channel[s] \in Seq(Updates) /\ channel[s] # <<>>
        BY DEF TypeOK, Forward
      <4>. QED
        BY <3>2, <4>1, <4>2, ForwardSeen
    <3>. QED
      BY <3>1, <3>2
  <2>. QED
    BY <2>1 DEF Seen
<1>3. Doomed' = Doomed
  BY DEF Forward, Doomed
<1>4. RegisteredIsOpen'
  BY DEF RegisteredIsOpen, Forward
<1>5. Bookkeeping'
  BY <1>2 DEF Bookkeeping, Forward
<1>6. InPublishOrder'
  BY <1>2 DEF InPublishOrder, Forward
<1>7. NoSilentGap'
  BY <1>2, <1>3 DEF NoSilentGap, Forward
<1>. QED
  BY <1>1, <1>4, <1>5, <1>6, <1>7

(* A failing send loses an update, but ends the subscription. *)
LEMMA SendFailsPreserves ==
    ASSUME SubscriptionInv, NEW s \in Subscribers, SendFails(s)
    PROVE  SubscriptionInv'
<1>. USE DEF SubscriptionInv
<1>1. TypeOK'
  <2>1. Tail(channel[s]) \in Seq(Updates) /\ Len(Tail(channel[s])) <= Capacity
    BY SubscriptionAssumption DEF TypeOK, SendFails
  <2>. QED
    BY <2>1 DEF TypeOK, SendFails
<1>2. \A t \in Subscribers \ {s} : Seen'[t] = Seen[t]
  BY <1>1 DEF TypeOK, SendFails, Seen
<1>. DEFINE old(i) == IF i <= Len(received[s]) THEN i ELSE i + 1
<1>3. /\ Len(Seen'[s]) \in Nat /\ Len(received[s]) \in Nat
      /\ \A i \in 1..Len(Seen'[s]) : old(i) \in 1..Len(Seen[s]) /\ Seen'[s][i] = Seen[s][old(i)]
  <2>1. received'[s] = received[s] /\ channel'[s] = Tail(channel[s]) /\ channel[s] # <<>>
    BY DEF TypeOK, SendFails
  <2>2. Seen'[s] = received[s] \o Tail(channel[s])
    BY <2>1 DEF Seen
  <2>3. Seen[s] = received[s] \o channel[s] /\ received[s] \in Seq(Updates) /\ channel[s] \in Seq(Updates)
    BY SeenType
  <2>. DEFINE r == received[s]
              c == channel[s]
              a == Seen[s]
              b == Seen'[s]
  <2>4. /\ r \in Seq(Updates) /\ c \in Seq(Updates) /\ c # <<>>
        /\ a = r \o c /\ b = r \o Tail(c)
    BY <2>1, <2>2, <2>3
  <2>. HIDE DEF r, c, a, b
  <2>5. /\ Len(b) \in Nat /\ Len(r) \in Nat
        /\ \A i \in 1..Len(b) :
              /\ (IF i <= Len(r) THEN i ELSE i + 1) \in 1..Len(a)
              /\ b[i] = a[IF i <= Len(r) THEN i ELSE i + 1]
    BY <2>4, LoseSeen
  <2>. QED
    BY <2>5 DEF r, a, b
<1>4. \A i, j \in 1..Len(Seen'[s]) : i < j => old(i) < old(j)
  BY <1>3
<1>. HIDE DEF old
<1>6. Doomed' = Doomed
  BY DEF SendFails, Doomed
<1>7. RegisteredIsOpen'
  BY DEF RegisteredIsOpen, SendFails
<1>8. Bookkeeping'
  <2>1. ASSUME NEW t \in Subscribers, NEW i \in 1..Len(Seen'[t])
        PROVE  publisher'[Seen'[t][i]] # "ready" /\ t \notin ahead'[Seen'[t][i]]
    <3>1. CASE t = s
      BY <1>3, <3>1 DEF Bookkeeping, SendFails
    <3>2. CASE t # s
      BY <1>2, <3>2 DEF Bookkeeping, SendFails
    <3>. QED
      BY <3>1, <3>2
  <2>. QED
    BY <2>1 DEF Bookkeeping, SendFails, TypeOK
<1>9. InPublishOrder'
  <2>. SUFFICES ASSUME NEW t \in Subscribers, NEW i \in 1..Len(Seen'[t]), NEW j \in 1..Len(Seen'[t]), i < j
                PROVE  Seen'[t][j] \notin earlier'[Seen'[t][i]] \cup {Seen'[t][i]}
    BY DEF InPublishOrder
  <2>1. CASE t = s
    <3>1. old(i) \in 1..Len(Seen[s]) /\ old(j) \in 1..Len(Seen[s]) /\ old(i) < old(j)
      BY <1>3, <1>4, <2>1
    <3>2. Seen[s][old(j)] \notin earlier[Seen[s][old(i)]] \cup {Seen[s][old(i)]}
      BY <3>1 DEF InPublishOrder
    <3>. QED
      BY <1>3, <2>1, <3>2 DEF SendFails
  <2>2. CASE t # s
    BY <1>2, <2>2 DEF InPublishOrder, SendFails
  <2>. QED
    BY <2>1, <2>2
<1>10. NoSilentGap'
  <2>. SUFFICES ASSUME NEW t \in registered', t \notin Doomed', serve'[t] = "serving",
                       NEW u \in due'[t]
                PROVE  t \in ahead'[u] \/ \E i \in 1..Len(Seen'[t]) : Seen'[t][i] = u
    BY DEF NoSilentGap
  <2>1. t # s /\ t \in Subscribers /\ t \in registered /\ serve[t] = "serving" /\ u \in due[t]
    BY DEF TypeOK, SendFails
  <2>2. t \in ahead[u] \/ \E i \in 1..Len(Seen[t]) : Seen[t][i] = u
    BY <1>6, <2>1 DEF NoSilentGap
  <2>. QED
    BY <1>2, <2>1, <2>2 DEF SendFails
<1>. QED
  BY <1>1, <1>7, <1>8, <1>9, <1>10

LEMMA DeparturePreserves ==
    ASSUME SubscriptionInv, NEW s \in Subscribers, Canceled(s) \/ ClientGone(s) \/ Leave(s)
    PROVE  SubscriptionInv'
<1>. USE DEF SubscriptionInv
<1>1. TypeOK'
  BY DEF TypeOK, Canceled, ClientGone, Leave
<1>2. /\ Seen' = Seen /\ Doomed' = Doomed
      /\ UNCHANGED <<closed, publisher, ahead, due, earlier>>
  BY DEF Canceled, ClientGone, Leave, Seen, Doomed
<1>3. RegisteredIsOpen'
  BY DEF TypeOK, RegisteredIsOpen, Bookkeeping, Canceled, ClientGone, Leave, ReadLocked
<1>4. /\ registered' \subseteq registered
      /\ \A t \in Subscribers : t # s => serve'[t] = serve[t]
      /\ s \in registered' => serve'[s] = "leaving"
      /\ serve'[s] \in {"leaving", "ended"}
  BY DEF TypeOK, Canceled, ClientGone, Leave
<1>5. Bookkeeping'
  <2>1. \A t \in registered' : serve'[t] \in {"serving", "leaving"}
    BY <1>4 DEF TypeOK, Bookkeeping
  <2>2. \A t \in Subscribers : serve'[t] = "idle" => t \notin closed' /\ due'[t] = {}
    BY <1>2, <1>4 DEF Bookkeeping
  <2>. QED
    BY <1>2, <2>1, <2>2 DEF Bookkeeping
<1>6. InPublishOrder'
  BY <1>2 DEF InPublishOrder
<1>7. NoSilentGap'
  <2>1. \A t \in registered' : serve'[t] = "serving" => t \in registered /\ serve[t] = "serving"
    BY <1>4 DEF TypeOK
  <2>. QED
    BY <1>2, <2>1 DEF NoSilentGap
<1>. QED
  BY <1>1, <1>3, <1>5, <1>6, <1>7

-----------------------------------------------------------------------------
(* The steps of a publisher.  An update that begins has been seen by       *)
(* nobody, for it was not published yet.                                   *)
LEMMA BeginPublishPreserves ==
    ASSUME SubscriptionInv, NEW u \in Updates, BeginPublish(u)
    PROVE  SubscriptionInv'
<1>. USE DEF SubscriptionInv
<1>1. TypeOK'
  BY DEF TypeOK, BeginPublish
<1>2. Seen' = Seen /\ Doomed' = Doomed
  BY DEF BeginPublish, Seen, Doomed
<1>3. /\ publisher[u] = "ready"
      /\ ahead'[u] = registered
      /\ \A w \in Updates : w # u => /\ publisher'[w] = publisher[w]
                                     /\ ahead'[w] = ahead[w]
                                     /\ earlier'[w] = earlier[w]
      /\ publisher'[u] = "sending"
      /\ earlier'[u] = {v \in Updates : publisher[v] \in {"dropping", "done"}}
  BY DEF TypeOK, BeginPublish
<1>4. ASSUME NEW s \in Subscribers, NEW i \in 1..Len(Seen[s])
      PROVE  Seen[s][i] \in Updates /\ Seen[s][i] # u
  BY <1>3, SeenPublished
<1>5. RegisteredIsOpen'
  BY <1>3 DEF RegisteredIsOpen, BeginPublish
<1>6. Bookkeeping'
  <2>1. \A s \in registered' : serve'[s] \in {"serving", "leaving"}
    BY DEF Bookkeeping, BeginPublish
  <2>2. \A s \in Subscribers : serve'[s] = "idle" => s \notin closed' /\ due'[s] = {}
    BY DEF Bookkeeping, BeginPublish
  <2>3. \A w \in Updates : publisher'[w] # "sending" => ahead'[w] = {}
    BY <1>3 DEF Bookkeeping
  <2>4. \A w \in Updates : \A v \in earlier'[w] : publisher'[v] \in {"dropping", "done"}
    BY <1>3 DEF TypeOK, Bookkeeping
  <2>5. \A s \in Subscribers : \A i \in 1..Len(Seen'[s]) :
           publisher'[Seen'[s][i]] # "ready" /\ s \notin ahead'[Seen'[s][i]]
    BY <1>2, <1>3, <1>4 DEF Bookkeeping
  <2>. QED
    BY <2>1, <2>2, <2>3, <2>4, <2>5 DEF Bookkeeping
<1>7. InPublishOrder'
  BY <1>2, <1>3, <1>4 DEF InPublishOrder
<1>8. NoSilentGap'
  <2>. SUFFICES ASSUME NEW t \in registered', t \notin Doomed', serve'[t] = "serving",
                       NEW w \in due'[t]
                PROVE  t \in ahead'[w] \/ \E i \in 1..Len(Seen'[t]) : Seen'[t][i] = w
    BY DEF NoSilentGap
  <2>1. t \in Subscribers /\ t \in registered /\ serve[t] = "serving" /\ w \in due[t] \cup {u} /\ w \in Updates
    BY DEF TypeOK, BeginPublish
  <2>2. CASE w = u
    BY <1>3, <2>1, <2>2
  <2>3. CASE w # u
    <3>1. t \in ahead[w] \/ \E i \in 1..Len(Seen[t]) : Seen[t][i] = w
      BY <1>2, <2>1, <2>3 DEF NoSilentGap
    <3>. QED
      BY <1>2, <1>3, <2>1, <2>3, <3>1
  <2>. QED
    BY <2>2, <2>3
<1>. QED
  BY <1>1, <1>5, <1>6, <1>7, <1>8

(* A channel with room: the update comes behind all others there, was not  *)
(* there before, and is not among those sent to everyone before another    *)
(* began, for its publisher is still sending.                              *)
LEMMA SendPreserves ==
    ASSUME SubscriptionInv, NEW u \in Updates, NEW s \in Subscribers, Visit(u, s), ~Full(s)
    PROVE  SubscriptionInv'
<1>. USE DEF SubscriptionInv
<1>1. /\ publisher[u] = "sending" /\ s \in ahead[u]
      /\ channel' = [channel EXCEPT ![s] = Append(@, u)]
      /\ ahead' = [ahead EXCEPT ![u] = @ \ {s}]
      /\ UNCHANGED <<registered, closed, serve, publisher, dropouts, due, earlier, received>>
  BY DEF Visit, SendOrSkip
<1>2. TypeOK'
  <2>1. Append(channel[s], u) \in Seq(Updates) /\ Len(Append(channel[s], u)) <= Capacity
    BY SubscriptionAssumption DEF TypeOK, Full
  <2>. QED
    BY <1>1, <2>1 DEF TypeOK
<1>3. Doomed' = Doomed
  BY <1>1 DEF Doomed
<1>4. \A t \in Subscribers \ {s} : Seen'[t] = Seen[t]
  BY <1>1, <1>2 DEF TypeOK, Seen
<1>5. /\ Len(Seen[s]) \in Nat
      /\ Len(Seen'[s]) = Len(Seen[s]) + 1
      /\ \A i \in 1..Len(Seen[s]) : Seen'[s][i] = Seen[s][i]
      /\ Seen'[s][Len(Seen[s]) + 1] = u
  <2>1. received'[s] = received[s] /\ channel'[s] = Append(channel[s], u)
    BY <1>1 DEF TypeOK
  <2>2. Seen'[s] = received[s] \o Append(channel[s], u)
    BY <2>1 DEF Seen
  <2>3. Seen[s] = received[s] \o channel[s] /\ received[s] \in Seq(Updates) /\ channel[s] \in Seq(Updates)
    BY SeenType
  <2>. DEFINE r == received[s]
              c == channel[s]
              a == Seen[s]
              b == Seen'[s]
  <2>4. /\ r \in Seq(Updates) /\ c \in Seq(Updates)
        /\ a = r \o c /\ b = r \o Append(c, u)
    BY <2>2, <2>3
  <2>. HIDE DEF r, c, a, b
  <2>5. /\ Len(a) \in Nat /\ Len(b) = Len(a) + 1
        /\ \A i \in 1..Len(a) : b[i] = a[i]
        /\ b[Len(a) + 1] = u
    BY <2>4, SendSeen
  <2>. QED
    BY <2>5 DEF a, b
<1>6. /\ ahead'[u] = ahead[u] \ {s}
      /\ \A w \in Updates : w # u => ahead'[w] = ahead[w]
      /\ \A w \in Updates : ahead'[w] \subseteq ahead[w]
  BY <1>1 DEF TypeOK
<1>7. RegisteredIsOpen'
  BY <1>1, <1>6 DEF RegisteredIsOpen
<1>8. Bookkeeping'
  <2>1. \A w \in Updates : publisher'[w] # "sending" => ahead'[w] = {}
    BY <1>1, <1>6 DEF Bookkeeping
  <2>2. ASSUME NEW t \in Subscribers, NEW i \in 1..Len(Seen'[t])
        PROVE  publisher'[Seen'[t][i]] # "ready" /\ t \notin ahead'[Seen'[t][i]]
    <3>1. CASE t # s
      <4>1. i \in 1..Len(Seen[t]) /\ Seen'[t][i] = Seen[t][i] /\ Seen[t][i] \in Updates
        BY <1>4, <3>1, SeenType
      <4>. QED
        BY <1>1, <1>6, <4>1 DEF Bookkeeping
    <3>2. CASE t = s /\ i \in 1..Len(Seen[s])
      <4>1. Seen'[t][i] = Seen[t][i] /\ Seen[t][i] \in Updates
        BY <1>5, <3>2, SeenType
      <4>. QED
        BY <1>1, <1>6, <3>2, <4>1 DEF Bookkeeping
    <3>3. CASE t = s /\ i = Len(Seen[s]) + 1
      BY <1>1, <1>5, <1>6, <3>3
    <3>. QED
      BY <1>5, <3>1, <3>2, <3>3
  <2>. QED
    BY <1>1, <2>1, <2>2 DEF Bookkeeping
<1>9. InPublishOrder'
  <2>. SUFFICES ASSUME NEW t \in Subscribers, NEW i \in 1..Len(Seen'[t]), NEW j \in 1..Len(Seen'[t]), i < j
                PROVE  Seen'[t][j] \notin earlier'[Seen'[t][i]] \cup {Seen'[t][i]}
    BY DEF InPublishOrder
  <2>1. CASE t # s
    BY <1>1, <1>4, <2>1 DEF InPublishOrder
  <2>2. CASE t = s /\ j \in 1..Len(Seen[s])
    <3>1. i \in 1..Len(Seen[s]) /\ Seen'[s][i] = Seen[s][i] /\ Seen'[s][j] = Seen[s][j]
      BY <1>5, <2>2
    <3>. QED
      BY <1>1, <2>2, <3>1 DEF InPublishOrder
  <2>3. CASE t = s /\ j = Len(Seen[s]) + 1
    <3>1. i \in 1..Len(Seen[s]) /\ Seen'[s][i] = Seen[s][i] /\ Seen'[s][j] = u
      BY <1>5, <2>3
    <3>2. Seen[s][i] \in Updates /\ s \notin ahead[Seen[s][i]]
      BY <3>1, SeenType DEF Bookkeeping
    <3>3. u \notin earlier[Seen[s][i]]
      BY <1>1, <3>2 DEF Bookkeeping
    <3>. QED
      BY <1>1, <2>3, <3>1, <3>2, <3>3
  <2>. QED
    BY <1>5, <2>1, <2>2, <2>3
<1>10. NoSilentGap'
  <2>. SUFFICES ASSUME NEW t \in registered', t \notin Doomed', serve'[t] = "serving",
                       NEW w \in due'[t]
                PROVE  t \in ahead'[w] \/ \E i \in 1..Len(Seen'[t]) : Seen'[t][i] = w
    BY DEF NoSilentGap
  <2>1. t \in Subscribers /\ w \in Updates
    BY <1>1 DEF TypeOK
  <2>2. t \in ahead[w] \/ \E i \in 1..Len(Seen[t]) : Seen[t][i] = w
    BY <1>1, <1>3 DEF NoSilentGap
  <2>3. CASE t # s
    <3>1. t \in ahead[w] => t \in ahead'[w]
      BY <1>6, <2>1, <2>3
    <3>. QED
      BY <1>4, <2>1, <2>2, <2>3, <3>1
  <2>4. CASE t = s /\ w = u
    BY <1>5, <2>4
  <2>5. CASE t = s /\ w # u
    <3>1. t \in ahead[w] => t \in ahead'[w]
      BY <1>6, <2>1, <2>5
    <3>2. \A i \in 1..Len(Seen[s]) : i \in 1..Len(Seen'[s]) /\ Seen'[s][i] = Seen[s][i]
      BY <1>5
    <3>. QED
      BY <2>2, <2>5, <3>1, <3>2
  <2>. QED
    BY <2>3, <2>4, <2>5
<1>. QED
  BY <1>1, <1>2, <1>7, <1>8, <1>9, <1>10

(* A full channel: the subscriber is doomed from here on. *)
LEMMA SkipPreserves ==
    ASSUME SubscriptionInv, NEW u \in Updates, NEW s \in Subscribers, Visit(u, s), Full(s)
    PROVE  SubscriptionInv'
<1>. USE DEF SubscriptionInv
<1>1. /\ publisher[u] = "sending" /\ s \in ahead[u]
      /\ dropouts' = [dropouts EXCEPT ![u] = @ \cup {s}]
      /\ ahead' = [ahead EXCEPT ![u] = @ \ {s}]
      /\ UNCHANGED <<registered, closed, serve, publisher, channel, due, earlier, received>>
  BY DEF Visit, SendOrSkip
<1>2. TypeOK'
  BY <1>1 DEF TypeOK
<1>3. Seen' = Seen
  BY <1>1 DEF Seen
<1>4. s \in Doomed' /\ \A t \in Subscribers : t \notin Doomed' => t \notin Doomed
  BY <1>1 DEF TypeOK, Doomed
<1>5. /\ ahead'[u] = ahead[u] \ {s}
      /\ \A w \in Updates : w # u => ahead'[w] = ahead[w]
      /\ \A w \in Updates : ahead'[w] \subseteq ahead[w]
  BY <1>1 DEF TypeOK
<1>6. RegisteredIsOpen'
  BY <1>1, <1>5 DEF RegisteredIsOpen
<1>7. Bookkeeping'
  <2>1. \A w \in Updates : publisher'[w] # "sending" => ahead'[w] = {}
    BY <1>1, <1>5 DEF Bookkeeping
  <2>2. \A t \in Subscribers : \A i \in 1..Len(Seen'[t]) :
           publisher'[Seen'[t][i]] # "ready" /\ t \notin ahead'[Seen'[t][i]]
    BY <1>1, <1>3, <1>5, SeenType DEF Bookkeeping
  <2>. QED
    BY <1>1, <2>1, <2>2 DEF Bookkeeping
<1>8. InPublishOrder'
  BY <1>1, <1>3 DEF InPublishOrder
<1>9. NoSilentGap'
  <2>. SUFFICES ASSUME NEW t \in registered', t \notin Doomed', serve'[t] = "serving",
                       NEW w \in due'[t]
                PROVE  t \in ahead'[w] \/ \E i \in 1..Len(Seen'[t]) : Seen'[t][i] = w
    BY DEF NoSilentGap
  <2>1. t \in Subscribers /\ w \in Updates /\ t # s /\ t \notin Doomed
    BY <1>1, <1>4 DEF TypeOK
  <2>2. t \in ahead[w] \/ \E i \in 1..Len(Seen[t]) : Seen[t][i] = w
    BY <1>1, <2>1 DEF NoSilentGap
  <2>3. t \in ahead[w] => t \in ahead'[w]
    BY <1>5, <2>1
  <2>. QED
    BY <1>3, <2>2, <2>3
<1>. QED
  BY <1>2, <1>6, <1>7, <1>8, <1>9

LEMMA EndPublishPreserves ==
    ASSUME SubscriptionInv, NEW u \in Updates, EndPublish(u)
    PROVE  SubscriptionInv'
<1>. USE DEF SubscriptionInv
<1>1. TypeOK'
  BY DEF TypeOK, EndPublish
<1>2. Seen' = Seen /\ Doomed' = Doomed
  BY DEF EndPublish, Seen, Doomed
<1>3. /\ UNCHANGED <<registered, channel, closed, serve, ahead, dropouts, due, earlier, received>>
      /\ ahead[u] = {} /\ publisher'[u] \in {"dropping", "done"}
      /\ \A w \in Updates : w # u => publisher'[w] = publisher[w]
  BY DEF TypeOK, EndPublish
<1>4. RegisteredIsOpen' /\ InPublishOrder' /\ NoSilentGap'
  BY <1>2, <1>3 DEF RegisteredIsOpen, InPublishOrder, NoSilentGap
<1>5. Bookkeeping'
  <2>1. \A w \in Updates : publisher'[w] # "sending" => ahead'[w] = {}
    BY <1>3 DEF Bookkeeping
  <2>2. \A w \in Updates : \A v \in earlier'[w] : publisher'[v] \in {"dropping", "done"}
    BY <1>3 DEF TypeOK, Bookkeeping
  <2>3. ASSUME NEW t \in Subscribers, NEW i \in 1..Len(Seen'[t])
        PROVE  publisher'[Seen'[t][i]] # "ready" /\ t \notin ahead'[Seen'[t][i]]
    <3>1. i \in 1..Len(Seen[t]) /\ Seen'[t][i] = Seen[t][i]
      BY <1>2
    <3>2. Seen[t][i] \in Updates /\ publisher[Seen[t][i]] # "ready" /\ t \notin ahead[Seen[t][i]]
      BY <3>1, SeenPublished
    <3>. QED
      BY <1>3, <3>1, <3>2
  <2>. QED
    BY <1>3, <2>1, <2>2, <2>3 DEF Bookkeeping
<1>. QED
  BY <1>1, <1>4, <1>5

(* Closing and removing happen under the write lock: no publisher has a    *)
(* channel ahead of it that the map no longer holds.                       *)
LEMMA DropSubscriberPreserves ==
    ASSUME SubscriptionInv, NEW u \in Updates, DropSubscriber(u)
    PROVE  SubscriptionInv'
<1>. USE DEF SubscriptionInv
<1>1. TypeOK'
  BY DEF TypeOK, DropSubscriber
<1>2. Seen' = Seen
  BY DEF DropSubscriber, Seen
<1>3. /\ UNCHANGED <<channel, serve, ahead, due, earlier, received>>
      /\ registered' = registered \ dropouts[u]
      /\ closed' = closed \cup (dropouts[u] \cap registered)
      /\ publisher[u] = "dropping" /\ publisher'[u] = "done"
      /\ \A w \in Updates : w # u => publisher'[w] = publisher[w]
  BY DEF TypeOK, DropSubscriber
<1>4. \A w \in Updates : ahead[w] = {}
  BY DEF DropSubscriber, ReadLocked, Bookkeeping
<1>5. \A t \in registered' : t \notin Doomed' => t \notin Doomed
  BY DEF TypeOK, DropSubscriber, Doomed
<1>6. RegisteredIsOpen'
  BY <1>3, <1>4 DEF RegisteredIsOpen
<1>7. InPublishOrder'
  BY <1>2, <1>3 DEF InPublishOrder
<1>8. NoSilentGap'
  BY <1>2, <1>3, <1>5 DEF NoSilentGap
<1>9. Bookkeeping'
  <2>1. \A t \in registered' : serve'[t] \in {"serving", "leaving"}
    BY <1>3 DEF Bookkeeping
  <2>2. \A t \in Subscribers : serve'[t] = "idle" => t \notin closed' /\ due'[t] = {}
    BY <1>3 DEF Bookkeeping
  <2>3. \A w \in Updates : publisher'[w] # "sending" => ahead'[w] = {}
    BY <1>3, <1>4
  <2>4. \A w \in Updates : \A v \in earlier'[w] : publisher'[v] \in {"dropping", "done"}
    BY <1>3 DEF TypeOK, Bookkeeping
  <2>5. ASSUME NEW t \in Subscribers, NEW i \in 1..Len(Seen'[t])
        PROVE  publisher'[Seen'[t][i]] # "ready" /\ t \notin ahead'[Seen'[t][i]]
    <3>1. i \in 1..Len(Seen[t]) /\ Seen'[t][i] = Seen[t][i]
      BY <1>2
    <3>2. Seen[t][i] \in Updates /\ publisher[Seen[t][i]] # "ready" /\ t \notin ahead[Seen[t][i]]
      BY <3>1, SeenPublished
    <3>. QED
      BY <1>3, <3>1, <3>2
  <2>. QED
    BY <2>1, <2>2, <2>3, <2>4, <2>5 DEF Bookkeeping
<1>. QED
  BY <1>1, <1>6, <1>7, <1>8, <1>9

-----------------------------------------------------------------------------
(* SubscriptionInv is an invariant of the publishing and forwarding code   *)
(* (manager.go: publishToSubscribers, dropSubscriber, subscribe).          *)
THEOREM SubscriptionInvariant == Spec => []SubscriptionInv
<1>1. SubscriptionInv /\ [Next]_vars => SubscriptionInv'
  <2>. SUFFICES ASSUME SubscriptionInv, [Next]_vars PROVE SubscriptionInv'
    OBVIOUS
  <2>1. ASSUME NEW s \in Subscribers, Subscribe(s) PROVE SubscriptionInv'
    BY <2>1, SubscribePreserves
  <2>2. ASSUME NEW s \in Subscribers, ServeStep(s) \/ ClientGone(s) PROVE SubscriptionInv'
    BY <2>2, ForwardPreserves, DeparturePreserves DEF ServeStep
  <2>3. ASSUME NEW s \in Subscribers, SendFails(s) PROVE SubscriptionInv'
    BY <2>3, SendFailsPreserves
  <2>4. ASSUME NEW u \in Updates, BeginPublish(u) PROVE SubscriptionInv'
    BY <2>4, BeginPublishPreserves
  <2>5. ASSUME NEW u \in Updates, PublishStep(u) PROVE SubscriptionInv'
    <3>1. ASSUME NEW s \in Subscribers, Visit(u, s) PROVE SubscriptionInv'
      BY <3>1, SendPreserves, SkipPreserves
    <3>. QED
      BY <2>5, <3>1, EndPublishPreserves, DropSubscriberPreserves DEF PublishStep
  <2>6. CASE UNCHANGED vars
    <3>1. Seen' = Seen /\ Doomed' = Doomed
      BY <2>6 DEF vars, Seen, Doomed
    <3>2. TypeOK' /\ RegisteredIsOpen'
      BY <2>6 DEF vars, SubscriptionInv, TypeOK, RegisteredIsOpen
    <3>3. NoSilentGap' /\ InPublishOrder'
      BY <2>6, <3>1 DEF vars, SubscriptionInv, NoSilentGap, InPublishOrder
    <3>4. Bookkeeping'
      BY <2>6, <3>1 DEF vars, SubscriptionInv, Bookkeeping
    <3>. QED
      BY <3>2, <3>3, <3>4 DEF SubscriptionInv
  <2>. QED
    BY <2>1, <2>2, <2>3, <2>4, <2>5, <2>6 DEF Next
<1>. QED
  BY <1>1, InitEstablishes, PTL DEF Spec

(* A client that is still served, and not marked for removal, has got or   *)
(* will find in its channel every update published since it joined.        *)
THEOREM NoGap == Spec => []NoSilentGap
<1>1. SubscriptionInv => NoSilentGap
  BY DEF SubscriptionInv
<1>. QED
  BY <1>1, SubscriptionInvariant, PTL

(* No client gets an update twice, or one that had been sent to everyone   *)
(* before another was begun after that other one.                          *)
THEOREM InOrder == Spec => []InPublishOrder
<1>1. SubscriptionInv => InPublishOrder
  BY DEF SubscriptionInv
<1>. QED
  BY <1>1, SubscriptionInvariant, PTL
=============================================================================
