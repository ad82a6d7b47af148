------------------------------ MODULE EventHub ------------------------------
(***************************************************************************)
(* httpapi.EventHub: push events on their way to the dashboards.  Every    *)
(* stream of ServeSSE has a channel of its own; Broadcast runs on the      *)
(* goroutine of a push and drops an event for a stream rather than wait    *)
(* for it.                                                                 *)
(*                                                                         *)
(* A stream is one connection.  It breaks when the browser goes away,      *)
(* which cancels its context, or silently when the write timeout of the    *)
(* server has passed: then the next write fails and cancels the context.   *)
(***************************************************************************)
EXTENDS Naturals, Sequences, FiniteSets

CONSTANTS
  Streams,    \* connections to /api/events
  Cap,        \* room of a channel, 32
  MaxEvents   \* bound: events broadcast

ASSUME CapAssumption == Cap \in Nat \ {0} /\ MaxEvents \in Nat

VARIABLES
  n,        \* events broadcast so far, numbered from 1
  subs,     \* the streams in the map of the hub
  chan,     \* their channels
  pc,       \* ServeSSE: new, select, write or left
  hand,     \* the event being written, 0 for none
  ctx,      \* streams whose context is done
  conn,     \* "up", "stale" (no write gets through) or "gone"
  since,    \* events before the stream subscribed
  got,      \* what the browser received
  missed    \* events dropped for want of room

vars == <<n, subs, chan, pc, hand, ctx, conn, since, got, missed>>

Init ==
  /\ n = 0
  /\ subs = {}
  /\ chan = [s \in Streams |-> << >>]
  /\ pc = [s \in Streams |-> "new"]
  /\ hand = [s \in Streams |-> 0]
  /\ ctx = {}
  /\ conn = [s \in Streams |-> "up"]
  /\ since = [s \in Streams |-> 0]
  /\ got = [s \in Streams |-> << >>]
  /\ missed = [s \in Streams |-> {}]

Full(s) == Len(chan[s]) >= Cap

\* Slip: the oldest event makes room for the new one.
OfferedOldestOut(s) == Append(IF Full(s) THEN Tail(chan[s]) ELSE chan[s], n + 1)

\* Slip: the channel takes one event too many.
OfferedOver(s) == IF Len(chan[s]) > Cap THEN chan[s] ELSE Append(chan[s], n + 1)

Offered(s) == IF Full(s) THEN chan[s] ELSE Append(chan[s], n + 1)

Broadcast ==
  /\ n < MaxEvents
  /\ n' = n + 1
  /\ chan' = [s \in Streams |-> IF s \in subs THEN Offered(s) ELSE chan[s]]
  /\ missed' = [s \in Streams |-> IF s \in subs /\ Full(s) THEN missed[s] \cup {n + 1}
                                  ELSE missed[s]]
  /\ UNCHANGED <<subs, pc, hand, ctx, conn, since, got>>

Subscribe(s) ==
  /\ pc[s] = "new"
  /\ subs' = subs \cup {s}
  /\ since' = [since EXCEPT ![s] = n]
  /\ pc' = [pc EXCEPT ![s] = "select"]
  /\ UNCHANGED <<n, chan, hand, ctx, conn, got, missed>>

Receive(s) ==
  /\ pc[s] = "select"
  /\ chan[s] # << >>
  /\ hand' = [hand EXCEPT ![s] = Head(chan[s])]
  /\ chan' = [chan EXCEPT ![s] = Tail(@)]
  /\ pc' = [pc EXCEPT ![s] = "write"]
  /\ UNCHANGED <<n, subs, ctx, conn, since, got, missed>>

\* Errors of the writes are not looked at; net/http cancels the context.
Write(s) ==
  /\ pc[s] = "write"
  /\ IF conn[s] = "up"
       THEN got' = [got EXCEPT ![s] = Append(@, hand[s])] /\ UNCHANGED ctx
       ELSE ctx' = ctx \cup {s} /\ UNCHANGED got
  /\ hand' = [hand EXCEPT ![s] = 0]
  /\ pc' = [pc EXCEPT ![s] = "select"]
  /\ UNCHANGED <<n, subs, chan, conn, since, missed>>

\* Slip: the context is looked at when an event wakes the stream.
UnsubscribeWoken(s) ==
  /\ pc[s] = "select"
  /\ s \in ctx
  /\ n > since[s]
  /\ subs' = subs \ {s}
  /\ chan' = [chan EXCEPT ![s] = << >>]
  /\ pc' = [pc EXCEPT ![s] = "left"]
  /\ UNCHANGED <<n, hand, ctx, conn, since, got, missed>>

\* The deferred function: out of the map, the channel closed.
Unsubscribe(s) ==
  /\ pc[s] = "select"
  /\ s \in ctx
  /\ subs' = subs \ {s}
  /\ chan' = [chan EXCEPT ![s] = << >>]
  /\ pc' = [pc EXCEPT ![s] = "left"]
  /\ UNCHANGED <<n, hand, ctx, conn, since, got, missed>>

WriteTimeout(s) ==
  /\ pc[s] \in {"select", "write"}
  /\ conn[s] = "up"
  /\ conn' = [conn EXCEPT ![s] = "stale"]
  /\ UNCHANGED <<n, subs, chan, pc, hand, ctx, since, got, missed>>

Disconnect(s) ==
  /\ pc[s] \in {"select", "write"}
  /\ conn[s] # "gone"
  /\ conn' = [conn EXCEPT ![s] = "gone"]
  /\ ctx' = ctx \cup {s}
  /\ UNCHANGED <<n, subs, chan, pc, hand, since, got, missed>>

Serve(s) == Receive(s) \/ Write(s) \/ Unsubscribe(s)

Next ==
  \/ Broadcast
  \/ \E s \in Streams : Subscribe(s) \/ Serve(s) \/ WriteTimeout(s) \/ Disconnect(s)

\* The goroutine of a stream runs.
Spec == Init /\ [][Next]_vars /\ \A s \in Streams : WF_vars(Serve(s))
-----------------------------------------------------------------------------
\* Every variable stays in its domain; the hub knows the streams that serve,
\* and no channel outgrows its room (events.go:27-50).
TypeOK ==
  /\ n \in 0 .. MaxEvents
  /\ subs = {s \in Streams : pc[s] \in {"select", "write"}}
  /\ chan \in [Streams -> Seq(1 .. n)] /\ \A s \in Streams : Len(chan[s]) <= Cap
  /\ pc \in [Streams -> {"new", "select", "write", "left"}]
  /\ hand \in [Streams -> 0 .. n]
  /\ ctx \subseteq Streams
  /\ conn \in [Streams -> {"up", "stale", "gone"}]
  /\ since \in [Streams -> 0 .. n]
  /\ got \in [Streams -> Seq(1 .. n)]
  /\ missed \in [Streams -> SUBSET (1 .. n)]

Underway(s) == (IF hand[s] = 0 THEN << >> ELSE <<hand[s]>>) \o chan[s]

\* A dashboard sees the events since it came in their order, none twice, and
\* without those, and only those, that found its channel full: what it has and
\* what is on its way to it make up the rest (events.go:27-50, 71-91).
NothingSkipped ==
  \A s \in Streams : conn[s] = "up" /\ pc[s] # "new" =>
    LET stream == got[s] \o Underway(s)
    IN  /\ {stream[k] : k \in 1 .. Len(stream)} = (since[s] + 1 .. n) \ missed[s]
        /\ \A k \in 2 .. Len(stream) : stream[k - 1] < stream[k]

\* A stream whose browser is gone leaves the hub, whether or not there is ever
\* another event; one cut off by the write timeout leaves once an event comes
\* (events.go:63-75).
BrokenStreamsLeave ==
  \A s \in Streams :
    /\ pc[s] # "new" /\ conn[s] = "gone" ~> pc[s] = "left"
    /\ pc[s] # "new" /\ conn[s] # "up" /\ chan[s] # << >> ~> pc[s] = "left"
-----------------------------------------------------------------------------
(* What BrokenStreamsLeave rests on. *)

\* A browser that is gone has canceled the context of its stream (events.go:73-74).
GoneIsNoticed == \A s \in Streams : conn[s] = "gone" => s \in ctx

\* The way out is one way: a done context stays done, what is lost never comes
\* back, and no event is sent on a channel that Unsubscribe has closed, which
\* would panic (events.go:27-50, 63-75).
NoWayBack ==
  [][\A s \in Streams :
       /\ s \in ctx => s \in ctx'
       /\ conn[s] # "up" => conn'[s] # "up" /\ got'[s] = got[s]
       /\ conn[s] = "gone" => conn'[s] = "gone"
       /\ pc[s] = "left" => UNCHANGED <<pc[s], chan[s], got[s], missed[s]>> /\ s \notin subs']_vars

\* What a stream may still receive and write.
Ahead(s) == 2 * (MaxEvents - n + Len(chan[s])) + (IF pc[s] = "write" THEN 1 ELSE 0)

\* A pending event may be chosen instead of a done context, as often as there are
\* events: every turn of a stream uses up some of what is ahead of it, or is its
\* last (events.go:71-89).
TurnsCount ==
  [][\A s \in Streams : pc[s] \in {"select", "write"} =>
       /\ Ahead(s)' <= Ahead(s)
       /\ Serve(s) => Ahead(s)' < Ahead(s) \/ pc'[s] = "left"]_vars
=============================================================================
