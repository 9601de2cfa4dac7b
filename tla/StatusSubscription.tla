------------------------- MODULE StatusSubscription ------------------------
(***************************************************************************)
(* How ws-manager streams status updates to its clients                    *)
(* (components/ws-manager/pkg/manager/manager.go: onChange,                *)
(* publishToSubscribers, dropSubscriber, subscribe).                       *)
(*                                                                         *)
(* Every status change is published by a goroutine of its own.  A          *)
(* subscriber is a channel with room for Capacity updates in the map       *)
(* m.subscribers, guarded by the RW lock subscriberLock, and a goroutine   *)
(* that forwards the channel to the client.  Publishers hold the read      *)
(* lock, so several may be at work at a time, each visiting the map in an  *)
(* order of its own.  A publisher that finds a channel full skips it,      *)
(* gives up its read lock, and later, under the write lock, closes and     *)
(* removes the channels it skipped.  In between, other publishers may      *)
(* still write to them.                                                    *)
(***************************************************************************)
EXTENDS Integers, Sequences

CONSTANTS
    Subscribers,    \* calls of Subscribe, each with a key of its own
    Updates,        \* status updates, each with a publishing goroutine
    Capacity        \* capacity of a subscriber's channel, 250 in the code

ASSUME SubscriptionAssumption == Capacity \in Nat \ {0}

VARIABLES
    registered,     \* the keys in m.subscribers
    channel,        \* channel[s]: the updates buffered for s
    closed,         \* the subscribers whose channel was closed
    serve,          \* serve[s]: where the goroutine running subscribe() is
    publisher,      \* publisher[u]: where the goroutine publishing u is
    ahead,          \* ahead[u]: the subscribers its loop has yet to reach
    dropouts,       \* dropouts[u]: the subscribers it skipped
    due,            \* history: updates whose publishing began while s was registered
    earlier,        \* history: updates sent to everyone before that of u began
    received        \* history: the updates s has sent to its client

vars == <<registered, channel, closed, serve, publisher, ahead, dropouts,
          due, earlier, received>>

Init ==
    /\ registered = {}
    /\ channel = [s \in Subscribers |-> <<>>]
    /\ closed = {}
    /\ serve = [s \in Subscribers |-> "idle"]
    /\ publisher = [u \in Updates |-> "ready"]
    /\ ahead = [u \in Updates |-> {}]
    /\ dropouts = [u \in Updates |-> {}]
    /\ due = [s \in Subscribers |-> {}]
    /\ earlier = [u \in Updates |-> {}]
    /\ received = [s \in Subscribers |-> <<>>]

(* Some publisher holds the read lock: the write lock is not to be had. *)
ReadLocked == \E u \in Updates : publisher[u] = "sending"

-----------------------------------------------------------------------------
(* subscribe: make the channel and register it under the write lock. *)
Subscribe(s) ==
    /\ serve[s] = "idle"
    /\ ~ReadLocked
    /\ serve' = [serve EXCEPT ![s] = "serving"]
    /\ registered' = registered \cup {s}
    /\ UNCHANGED <<channel, closed, publisher, ahead, dropouts, due, earlier, received>>

\* Mutant of Forward: takes the newest buffered update first.
MutForwardNewest(s) ==
    /\ serve[s] = "serving"
    /\ channel[s] # <<>>
    /\ channel' = [channel EXCEPT ![s] = SubSeq(@, 1, Len(@) - 1)]
    /\ received' = [received EXCEPT ![s] = Append(@, channel[s][Len(channel[s])])]
    /\ UNCHANGED <<registered, closed, serve, publisher, ahead, dropouts, due, earlier>>

(* subscribe's loop: forward the next update, or fail to. *)
Forward(s) ==
    /\ serve[s] = "serving"
    /\ channel[s] # <<>>
    /\ channel' = [channel EXCEPT ![s] = Tail(@)]
    /\ received' = [received EXCEPT ![s] = Append(@, Head(channel[s]))]
    /\ UNCHANGED <<registered, closed, serve, publisher, ahead, dropouts, due, earlier>>

SendFails(s) ==
    /\ serve[s] = "serving"
    /\ channel[s] # <<>>
    /\ channel' = [channel EXCEPT ![s] = Tail(@)]
    /\ serve' = [serve EXCEPT ![s] = "leaving"]
    /\ UNCHANGED <<registered, closed, publisher, ahead, dropouts, due, earlier, received>>

(* A closed channel yields nil once its buffer is drained. *)
Canceled(s) ==
    /\ serve[s] = "serving"
    /\ channel[s] = <<>>
    /\ s \in closed
    /\ serve' = [serve EXCEPT ![s] = "leaving"]
    /\ UNCHANGED <<registered, channel, closed, publisher, ahead, dropouts, due, earlier, received>>

(* ctx.Done(): the client went away. *)
ClientGone(s) ==
    /\ serve[s] = "serving"
    /\ serve' = [serve EXCEPT ![s] = "leaving"]
    /\ UNCHANGED <<registered, channel, closed, publisher, ahead, dropouts, due, earlier, received>>

(* subscribe's deferred delete, under the write lock. *)
Leave(s) ==
    /\ serve[s] = "leaving"
    /\ ~ReadLocked
    /\ serve' = [serve EXCEPT ![s] = "ended"]
    /\ registered' = registered \ {s}
    /\ UNCHANGED <<channel, closed, publisher, ahead, dropouts, due, earlier, received>>

-----------------------------------------------------------------------------
Full(s) == Len(channel[s]) >= Capacity

(* publishToSubscribers takes the read lock... *)
BeginPublish(u) ==
    /\ publisher[u] = "ready"
    /\ publisher' = [publisher EXCEPT ![u] = "sending"]
    /\ ahead' = [ahead EXCEPT ![u] = registered]
    /\ due' = [s \in Subscribers |-> IF s \in registered THEN due[s] \cup {u} ELSE due[s]]
    /\ earlier' = [earlier EXCEPT ![u] = {v \in Updates : publisher[v] \in {"dropping", "done"}}]
    /\ UNCHANGED <<registered, channel, closed, serve, dropouts, received>>

\* Mutant of SendOrSkip: a full channel is skipped and forgotten.
MutSkipForgets(u, s) ==
    /\ channel' = IF Full(s) THEN channel ELSE [channel EXCEPT ![s] = Append(@, u)]
    /\ UNCHANGED dropouts

(* The non-blocking send on a channel *)
SendOrSkip(u, s) ==
    IF Full(s)
    THEN dropouts' = [dropouts EXCEPT ![u] = @ \cup {s}] /\ UNCHANGED channel
    ELSE channel' = [channel EXCEPT ![s] = Append(@, u)] /\ UNCHANGED dropouts

(* ...visits each channel in the map... *)
Visit(u, s) ==
    /\ publisher[u] = "sending"
    /\ s \in ahead[u]
    /\ ahead' = [ahead EXCEPT ![u] = @ \ {s}]
    /\ SendOrSkip(u, s)
    /\ UNCHANGED <<registered, closed, serve, publisher, due, earlier, received>>

(* ...and gives the read lock up. *)
EndPublish(u) ==
    /\ publisher[u] = "sending"
    /\ ahead[u] = {}
    /\ publisher' = [publisher EXCEPT ![u] = IF dropouts[u] = {} THEN "done" ELSE "dropping"]
    /\ UNCHANGED <<registered, channel, closed, serve, ahead, dropouts, due, earlier, received>>

\* Mutant of DropSubscriber: closes the channel but leaves it in the map.
MutDropWithoutDelete(u) ==
    /\ publisher[u] = "dropping"
    /\ ~ReadLocked
    /\ publisher' = [publisher EXCEPT ![u] = "done"]
    /\ closed' = closed \cup (dropouts[u] \cap registered)
    /\ dropouts' = [dropouts EXCEPT ![u] = {}]
    /\ UNCHANGED <<registered, channel, serve, ahead, due, earlier, received>>

\* Mutant of DropSubscriber: deletes the map entry without closing the channel.
MutDropWithoutClose(u) ==
    /\ publisher[u] = "dropping"
    /\ ~ReadLocked
    /\ publisher' = [publisher EXCEPT ![u] = "done"]
    /\ registered' = registered \ dropouts[u]
    /\ dropouts' = [dropouts EXCEPT ![u] = {}]
    /\ UNCHANGED <<channel, closed, serve, ahead, due, earlier, received>>

(* dropSubscriber, under the write lock; keys already gone are skipped. *)
DropSubscriber(u) ==
    /\ publisher[u] = "dropping"
    /\ ~ReadLocked
    /\ publisher' = [publisher EXCEPT ![u] = "done"]
    /\ closed' = closed \cup (dropouts[u] \cap registered)
    /\ registered' = registered \ dropouts[u]
    /\ dropouts' = [dropouts EXCEPT ![u] = {}]
    /\ UNCHANGED <<channel, serve, ahead, due, earlier, received>>

-----------------------------------------------------------------------------
ServeStep(s) == Forward(s) \/ Canceled(s) \/ Leave(s)

PublishStep(u) == (\E s \in Subscribers : Visit(u, s)) \/ EndPublish(u) \/ DropSubscriber(u)

Next ==
    \/ \E s \in Subscribers :
          Subscribe(s) \/ ServeStep(s) \/ SendFails(s) \/ ClientGone(s)
    \/ \E u \in Updates : BeginPublish(u) \/ PublishStep(u)

Spec == Init /\ [][Next]_vars

(* Goroutines that can run do.  Clients may subscribe or go away, updates  *)
(* may occur: none of these must.                                          *)
Fairness ==
    /\ \A s \in Subscribers : WF_vars(ServeStep(s))
    /\ \A u \in Updates : WF_vars(PublishStep(u))

FairSpec == Spec /\ Fairness

-----------------------------------------------------------------------------
TypeOK ==
    /\ registered \subseteq Subscribers
    /\ channel \in [Subscribers -> Seq(Updates)]
    /\ \A s \in Subscribers : Len(channel[s]) <= Capacity
    /\ closed \subseteq Subscribers
    /\ serve \in [Subscribers -> {"idle", "serving", "leaving", "ended"}]
    /\ publisher \in [Updates -> {"ready", "sending", "dropping", "done"}]
    /\ ahead \in [Updates -> SUBSET Subscribers]
    /\ dropouts \in [Updates -> SUBSET Subscribers]
    /\ due \in [Subscribers -> SUBSET Updates]
    /\ earlier \in [Updates -> SUBSET Updates]
    /\ received \in [Subscribers -> Seq(Updates)]

(* No publisher sends on a closed channel, which would panic and take      *)
(* ws-manager down (publishToSubscribers sends to whatever is in the map   *)
(* when it starts).                                                        *)
RegisteredIsOpen ==
    /\ registered \cap closed = {}
    /\ \A u \in Updates : ahead[u] \subseteq registered

(* A subscriber that skipped an update is marked for removal until it is   *)
(* out of the map.                                                         *)
Doomed == UNION {dropouts[u] : u \in Updates}

(* What has come to s: forwarded or in its channel. *)
Seen == [s \in Subscribers |-> received[s] \o channel[s]]

(* A subscription that is not about to be dropped has no gap: every update *)
(* whose publishing began since it joined was forwarded or waits in its    *)
(* channel, unless its publisher has not come to it yet.                   *)
NoSilentGap ==
    \A s \in registered :
        s \notin Doomed /\ serve[s] = "serving" =>
            \A u \in due[s] : s \in ahead[u] \/ \E i \in 1..Len(Seen[s]) : Seen[s][i] = u

(* Whatever happens to it, a client gets no update twice, and never one    *)
(* that was sent to everyone before the publishing of another began after  *)
(* that other one.                                                         *)
InPublishOrder ==
    \A s \in Subscribers : \A i, j \in 1..Len(Seen[s]) :
        i < j => Seen[s][j] \notin earlier[Seen[s][i]] \cup {Seen[s][i]}

(* What the goroutines hold: a subscriber that is registered has a         *)
(* goroutine that serves it, one that has not subscribed yet has no        *)
(* history, only a publisher that holds the read lock has channels ahead   *)
(* of it, and an update that reached a client or its channel is being      *)
(* published and does not come to that channel again.                      *)
Bookkeeping ==
    /\ \A s \in registered : serve[s] \in {"serving", "leaving"}
    /\ \A s \in Subscribers : serve[s] = "idle" => s \notin closed /\ due[s] = {}
    /\ \A u \in Updates : publisher[u] # "sending" => ahead[u] = {}
    /\ \A u \in Updates : \A v \in earlier[u] : publisher[v] \in {"dropping", "done"}
    /\ \A s \in Subscribers : \A i \in 1..Len(Seen[s]) :
          publisher[Seen[s][i]] # "ready" /\ s \notin ahead[Seen[s][i]]

(* The state is well formed, no send hits a closed channel, nobody misses  *)
(* an update without being dropped for it, and updates arrive in order.    *)
(* The conjunction is inductive.                                           *)
SubscriptionInv ==
    TypeOK /\ RegisteredIsOpen /\ NoSilentGap /\ InPublishOrder /\ Bookkeeping

(* A subscription that missed an update ends, so that its client can       *)
(* reconnect and take stock (manager.go, "dropping subscriber").           *)
MissedUpdateEndsSubscription ==
    \A s \in Subscribers : s \in Doomed ~> serve[s] = "ended"
=============================================================================
