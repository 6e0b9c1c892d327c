------------------------------- MODULE Async -------------------------------
(***************************************************************************)
(* hiredis' asynchronous API: async.c over the dicts of dict.c, driven by  *)
(* redisPollTick() of adapters/poll.h, against a server that answers in    *)
(* order and publishes messages.  Commands and replies are whole here:     *)
(* their bytes are the subject of Context.                                 *)
(*                                                                         *)
(* One thread runs everything.  pc is where it is in the library, "idle"   *)
(* when the program has it, and "callback" while one of the program's      *)
(* callbacks runs (REDIS_IN_CALLBACK); the library goes on at back then.   *)
(* Every command has a callback, named by the command's number.            *)
(***************************************************************************)
EXTENDS Dict, Integers, FiniteSets

CONSTANT Options
    \* The ways the program and the server behave, each with its bounds:
    \* how many commands, and which; messages, pushes and monitor lines;
    \* whether the connection may break or the program end it, which timeouts
    \* are set, and whether the program ticks on after an error.

ASSUME AsyncAssumption ==
    \A o \in Options : \A op \in o.ops :
        op.kind \in {"subscribe", "unsubscribe", "monitor", "regular"}

VARIABLES
    options,
    ac,         \* the redisAsyncContext
    e,          \* the adapter's redisPollEvents
    pc, back,
    now,        \* the callback that runs, or was last to, and its reply
    tick,       \* redisPollTick()'s variables: the events, the stage it is in
    net,        \* the connection: commands up, replies down
    srv,        \* what the server keeps of it
    asked,      \* every command accepted
    told,       \* what the callbacks of regular commands were told
    heard,      \* the regular commands whose reply was taken off the reader
    notes       \* the connect and disconnect callbacks that were run

vars == <<options, ac, e, pc, back, now, tick, net, srv, asked, told, heard, notes>>
history == <<asked, told, heard, notes>>
world == <<net, srv>>

Variants == {"channel", "pattern"}
NoReply == [kind |-> "NULL"]
NoCallback == 0
Has(flag) == flag \in ac.flags
Raise(flags) == [ac EXCEPT !.flags = @ \cup flags]

\* redisAsyncConnectWithOptions(), whose attempt is under way or has failed.
redisAsyncInitialize ==
    [alive |-> TRUE, flags |-> IF options.noautofree THEN {"NO_AUTO_FREE"} ELSE {},
     err |-> "none", cleanup |-> FALSE, replies |-> <<>>, subReplies |-> <<>>,
     subs |-> [v \in Variants |-> dictInit], pending_unsubs |-> 0,
     obuf |-> <<>>, inbuf |-> <<>>]

Init ==
    /\ options \in Options
    /\ ac = redisAsyncInitialize
    /\ e = [state |-> "none", reading |-> FALSE, writing |-> FALSE, in_tick |-> FALSE,
            deleted |-> FALSE, deadline |-> "none"]
    /\ pc = "new" /\ back = "none" /\ now = [id |-> NoCallback, reply |-> NoReply]
    /\ tick = [stage |-> "none", out |-> FALSE, visited |-> 0]
    /\ net = [peer |-> "pending", up |-> <<>>, down |-> <<>>]
    /\ srv = [subs |-> [v \in Variants |-> {}], monitor |-> FALSE, extras |-> 0]
    /\ asked = <<>> /\ told = <<>> /\ heard = {} /\ notes = <<>>

(***************************************************************************)
(* The adapter.                                                            *)
(***************************************************************************)
\* The tick and the event functions write to the adapter's memory, whether
\* or not it is still theirs.
Touch(ev) == [ev EXCEPT !.state = IF @ = "freed" THEN "used" ELSE @]

refreshTimeout(ev) ==
    IF (IF Has("CONNECTED") THEN options.command_timeout ELSE options.connect_timeout)
    THEN [ev EXCEPT !.deadline = "armed"] ELSE ev

AddRead(ev) == [refreshTimeout(Touch(ev)) EXCEPT !.reading = TRUE]
AddWrite(ev) == [refreshTimeout(Touch(ev)) EXCEPT !.writing = TRUE]
DelWrite(ev) == [Touch(ev) EXCEPT !.writing = FALSE]

\* Bug: the adapter's memory goes while a tick is using it.
CleanupNow == [e EXCEPT !.state = "freed", !.deleted = TRUE]

redisPollCleanup ==
    IF e.in_tick THEN [e EXCEPT !.deleted = TRUE] ELSE [e EXCEPT !.state = "freed"]

\* _EL_CLEANUP(): once.
Cleanup == IF ac.cleanup THEN redisPollCleanup ELSE e

redisPollAttach ==
    /\ pc = "new"
    /\ e' = [e EXCEPT !.state = "attached"]
    /\ ac' = [ac EXCEPT !.cleanup = TRUE]
    /\ pc' = "attached"
    /\ UNCHANGED <<options, back, now, tick, world, history>>

redisAsyncSetConnectCallback ==
    /\ pc = "attached"
    /\ e' = AddWrite(e)
    /\ pc' = "idle"
    /\ UNCHANGED <<options, ac, back, now, tick, world, history>>

(***************************************************************************)
(* Callbacks.                                                              *)
(***************************************************************************)
Regular(id) == id # NoCallback /\ asked[id].kind = "regular"

\* __redisRunCallback(): callback id is told reply, and the library goes on
\* at step then.
Run(id, reply, then) ==
    /\ now' = [id |-> id, reply |-> reply]
    /\ IF id = NoCallback THEN pc' = then /\ UNCHANGED <<back, told>>
       ELSE /\ pc' = "callback" /\ back' = then
            /\ told' = IF Regular(id)
                       THEN [told EXCEPT ![id] = IF @ # "nothing" THEN "twice"
                                                 ELSE IF reply = NoReply THEN "NULL" ELSE "reply"]
                       ELSE told

\* __redisRunConnectCallback(), __redisRunDisconnectCallback().
Notify(note, then) ==
    /\ pc' = "callback" /\ back' = then
    /\ notes' = Append(notes, note)
    /\ now' = [id |-> NoCallback, reply |-> NoReply]
    /\ UNCHANGED <<asked, told, heard>>

CallbackReturns ==
    /\ pc = "callback" /\ pc' = back
    /\ UNCHANGED <<options, ac, e, back, now, tick, world, history>>

(***************************************************************************)
(* The end of a context.                                                   *)
(***************************************************************************)
\* Bug: pending callbacks may call new commands.
StoppedNever(a) == a.flags

\* After an error nothing new may be asked.
Stopped(a) == IF a.err = "none" THEN a.flags ELSE a.flags \cup {"DISCONNECTING"}

\* __redisAsyncDisconnect(), with the assertion that a clean disconnect
\* leaves no callback.
Disconnect(a) ==
    /\ ac' = [a EXCEPT !.flags = Stopped(a), !.cleanup = FALSE]
    /\ e' = Cleanup
    /\ pc' = IF a.err = "none" /\ a.replies # <<>> THEN "assertion"
             ELSE IF "NO_AUTO_FREE" \in a.flags THEN "next" ELSE "freeing"

\* __redisAsyncFree(): every callback left, then the adapter and the
\* disconnect callback.
SubscriptionCallbacks ==
    LET all == Entries(ac.subs["channel"]) \o Entries(ac.subs["pattern"])
    IN [i \in DOMAIN all |-> all[i].val.id]

RunPending ==
    /\ pc = "freeing"
    /\ UNCHANGED <<options, e, world, asked, heard, notes>>
    /\ \/ /\ ac.replies # <<>>
          /\ ac' = [ac EXCEPT !.replies = Tail(@)] /\ UNCHANGED tick
          /\ Run(Head(ac.replies), NoReply, "freeing")
       \/ /\ ac.replies = <<>> /\ ac.subReplies # <<>>
          /\ ac' = [ac EXCEPT !.subReplies = Tail(@)] /\ UNCHANGED tick
          /\ Run(Head(ac.subReplies), NoReply, "freeing")
       \/ /\ ac.replies = <<>> /\ ac.subReplies = <<>>
          /\ tick.visited < Len(SubscriptionCallbacks)
          /\ tick' = [tick EXCEPT !.visited = @ + 1] /\ UNCHANGED ac
          /\ Run(SubscriptionCallbacks[tick.visited + 1], NoReply, "freeing")

\* Bug: it is told of the end of connections that were never made.
EndToldAlways == TRUE

\* The disconnect callback is for connections that were made.
EndTold == Has("CONNECTED")

RunDisconnectCallback ==
    /\ pc = "freeing"
    /\ ac.replies = <<>> /\ ac.subReplies = <<>> /\ tick.visited = Len(SubscriptionCallbacks)
    /\ ac' = [ac EXCEPT !.cleanup = FALSE]
    /\ e' = Cleanup
    /\ IF EndTold THEN Notify("disconnected", "release")
       ELSE pc' = "release" /\ UNCHANGED <<back, now, history>>
    /\ UNCHANGED <<options, tick, world>>

redisFree ==
    /\ pc = "release" /\ pc' = "next"
    /\ ac' = [ac EXCEPT !.alive = FALSE]
    /\ net' = [peer |-> "closed", up |-> <<>>, down |-> <<>>]
    /\ UNCHANGED <<options, e, back, now, tick, srv, history>>

\* The program's two ways to end it, from a callback or outside of one.
Mine == pc \in {"idle", "callback"} /\ ac.alive

redisAsyncFree ==
    /\ options.ends /\ Mine /\ ~Has("FREEING")
    /\ now.reply.kind = "push" /\ pc = "callback" => options.freeInPush
    /\ ac' = Raise({"FREEING"})
    /\ pc' = IF pc = "callback" THEN pc ELSE "freeing"
    /\ UNCHANGED <<options, e, back, now, tick, world, history>>

CleanDisconnect == [ac EXCEPT !.flags = (@ \ {"NO_AUTO_FREE"}) \cup {"DISCONNECTING"}]

redisAsyncDisconnect ==
    /\ options.ends /\ Mine /\ ~Has("MONITORING")
    /\ Has("DISCONNECTING") => Has("NO_AUTO_FREE")
    /\ IF pc = "idle" /\ ac.replies = <<>> THEN Disconnect(CleanDisconnect)
       ELSE ac' = CleanDisconnect /\ UNCHANGED <<e, pc>>
    /\ UNCHANGED <<options, back, now, tick, world, history>>

(***************************************************************************)
(* Commands: __redisAsyncCommand().                                        *)
(***************************************************************************)
\* How many confirmations a name waits for: one more than before, or as many
\* as the name before it in the command.
Pending(d, name, pending) ==
    IF Found(d, name) THEN dictFind(d, name).pending_subs + 1 ELSE pending

Subscribe(d, names, id) ==
    FoldLeft(LAMBDA s, name :
                 [pending |-> Pending(s.d, name, s.pending),
                  d |-> dictReplace(s.d, name,
                            [id |-> id, pending_subs |-> Pending(s.d, name, s.pending),
                             unsubscribe_sent |-> FALSE])],
             [pending |-> 1, d |-> d], names).d

Unsent(d, name) == Found(d, name) /\ ~dictFind(d, name).unsubscribe_sent
Send(d, name) == Put(d, name, [dictFind(d, name) EXCEPT !.unsubscribe_sent = TRUE])

\* The dict after a request to unsubscribe from names, and how many of them
\* are not, or already, subscribed to: replies to ignore.
Unsubscribe(d, names) ==
    FoldLeft(LAMBDA s, name : IF Unsent(s.d, name) THEN [s EXCEPT !.d = Send(@, name)]
                              ELSE [s EXCEPT !.ignored = @ + 1],
             [d |-> d, ignored |-> 0], names)

\* Without names: all of them, or one reply to ignore.
UnsubscribeAll(d) ==
    LET unsent == SelectSeq(Entries(d), LAMBDA en : ~en.val.unsubscribe_sent)
    IN IF unsent = <<>> THEN [d |-> d, ignored |-> 1]
       ELSE Unsubscribe(d, [i \in DOMAIN unsent |-> unsent[i].key])

\* What command op, with callback id, does to the context before its bytes
\* are appended.
Registered(op, id) ==
    CASE op.kind = "subscribe" ->
            [ac EXCEPT !.subs[op.v] = Subscribe(@, op.names, id), !.flags = @ \cup {"SUBSCRIBED"}]
      [] op.kind = "unsubscribe" ->
            LET left == IF op.names = <<>> THEN UnsubscribeAll(ac.subs[op.v])
                        ELSE Unsubscribe(ac.subs[op.v], op.names)
            IN [ac EXCEPT !.subs[op.v] = left.d, !.pending_unsubs = @ + left.ignored]
      [] op.kind = "monitor" ->
            [ac EXCEPT !.replies = Append(@, id), !.flags = @ \cup {"MONITORING"}]
      [] op.kind = "regular" ->
            IF Has("SUBSCRIBED") THEN [ac EXCEPT !.subReplies = Append(@, id)]
            ELSE [ac EXCEPT !.replies = Append(@, id)]

\* The names of a variant with requests or replies under way.
Underway(v) ==
    {c.v : c \in {ac.obuf[i] : i \in DOMAIN ac.obuf} \cup {net.up[i] : i \in DOMAIN net.up}}
    \cup {r.v : r \in {net.down[i] : i \in DOMAIN net.down}
                      \cup {ac.inbuf[i] : i \in DOMAIN ac.inbuf}}

\* A program may wait for the reply to its last request about its
\* subscriptions before the next one; one that monitors asks nothing else.
Disciplined(op) ==
    /\ options.separate /\ op.kind \in {"subscribe", "unsubscribe"} => op.v \notin Underway(op.v)
    /\ op.kind = "monitor" => asked = <<>>
    /\ ~Has("MONITORING")

redisAsyncCommand(op) ==
    /\ Mine /\ Len(asked) < options.commands /\ Disciplined(op)
    /\ ac.flags \cap {"DISCONNECTING", "FREEING"} = {}
    /\ op.kind = "unsubscribe" => Has("SUBSCRIBED")
    /\ asked' = Append(asked, op)
    /\ told' = Append(told, "nothing")
    /\ ac' = [Registered(op, Len(asked) + 1) EXCEPT
                !.obuf = Append(@, [kind |-> op.kind, id |-> Len(asked) + 1, v |-> op.v,
                                    names |-> op.names])]
    /\ e' = AddWrite(e)
    /\ UNCHANGED <<options, pc, back, now, tick, world, heard, notes>>

(***************************************************************************)
(* Replies: redisProcessCallbacks(), one iteration of its loop at a time.  *)
(***************************************************************************)
Reply == Head(ac.inbuf)
Taken == [ac EXCEPT !.inbuf = Tail(@),
                    !.flags = IF Reply.push THEN @ \cup {"SUPPORTS_PUSH"} ELSE @]
processing == <<options, tick, world, asked>>

\* Bug: a disconnect waits for the end of subscriptions too.
AllAnsweredAndUnsubscribed == ac.obuf = <<>> /\ ac.replies = <<>> /\ ~Has("SUBSCRIBED")

AllAnswered == ac.obuf = <<>> /\ ac.replies = <<>>

NoMoreReplies ==
    /\ pc = "process" /\ ac.inbuf = <<>>
    /\ IF Has("DISCONNECTING") /\ AllAnswered THEN Disconnect(ac)
       ELSE pc' = "next" /\ UNCHANGED <<ac, e>>
    /\ UNCHANGED <<processing, back, now, told, heard, notes>>

\* Bug: a message is not thought to be about a subscription.
IsSubscribeReplyButMessage == Reply.kind \in {"subscribe", "unsubscribe"}

redisIsSubscribeReply == Reply.kind \in {"subscribe", "unsubscribe", "message"}

Spontaneous == Reply.push /\ ~redisIsSubscribeReply

RunPushCallback ==
    /\ pc = "process" /\ ac.inbuf # <<>> /\ Spontaneous
    /\ ac' = Taken
    /\ now' = [id |-> NoCallback, reply |-> Reply]
    /\ pc' = "callback" /\ back' = "process"
    /\ UNCHANGED <<processing, e, told, heard, notes>>

Heard == IF Reply.kind = "reply" /\ Regular(Reply.id) THEN heard \cup {Reply.id} ELSE heard

\* The callback that has waited longest gets the reply.
RunReplyCallback ==
    /\ pc = "process" /\ ac.inbuf # <<>> /\ ~Spontaneous /\ ac.replies # <<>>
    /\ ac' = [Taken EXCEPT !.replies = Tail(@)]
    /\ Run(Head(ac.replies), Reply, "processed")
    /\ heard' = Heard
    /\ UNCHANGED <<processing, e, notes>>

\* An error nobody asked for, as if the server had closed the connection.
SpontaneousError ==
    /\ pc = "process" /\ ac.inbuf # <<>> /\ Reply.kind = "error" /\ ac.replies = <<>>
    /\ Disconnect([Taken EXCEPT !.err = "OTHER"])
    /\ UNCHANGED <<processing, back, now, told, heard, notes>>

\* Bug: an unsubscription counts although a subscription is waiting.
AfterUnsubscribeAlways(a, v, name) == [a EXCEPT !.subs[v] = dictDelete(@, name)]

\* An unsubscription's reply, unless a later subscription waits for its own.
AfterUnsubscribe(a, v, name) ==
    IF ~Found(a.subs[v], name) THEN [a EXCEPT !.pending_unsubs = @ - 1]
    ELSE IF dictFind(a.subs[v], name).pending_subs = 0
    THEN [a EXCEPT !.subs[v] = dictDelete(@, name)] ELSE a

\* The last one, after which the callbacks that wait are regular ones again.
AfterLast(a, count) ==
    IF count = 0 /\ (\A v \in Variants : a.subs[v].used = 0) /\ a.pending_unsubs = 0
    THEN [a EXCEPT !.flags = @ \ {"SUBSCRIBED"}, !.replies = @ \o a.subReplies, !.subReplies = <<>>]
    ELSE a

Confirmed(d, name) == Put(d, name, [dictFind(d, name) EXCEPT !.pending_subs = @ - 1])

\* __redisGetSubscribeCallback(): what is left of the context, and whose the
\* reply is.  An array of three and more is taken for a message, which the
\* library asserts to begin with a string (async.c:484).
PubSub ==
    \/ Reply.push
    \/ /\ ~Has("SUPPORTS_PUSH")
       /\ Reply.kind = "reply" => Reply.big
       /\ Reply.kind # "line"
NoMessage == PubSub /\ Reply.kind = "reply" /\ asked[Reply.id].first # "STRING"
Owner == IF PubSub THEN (IF Reply.kind # "reply" /\ Found(ac.subs[Reply.v], Reply.name)
                         THEN dictFind(ac.subs[Reply.v], Reply.name).id ELSE NoCallback)
         ELSE IF ac.subReplies # <<>> THEN Head(ac.subReplies) ELSE NoCallback
AfterPubSub(a) ==
    CASE Reply.kind = "subscribe" -> [a EXCEPT !.subs[Reply.v] = Confirmed(@, Reply.name)]
      [] Reply.kind = "unsubscribe" ->
            AfterLast(AfterUnsubscribe(a, Reply.v, Reply.name), Reply.count)
      [] OTHER -> IF ~PubSub /\ a.subReplies # <<>> THEN [a EXCEPT !.subReplies = Tail(@)] ELSE a

RunSubscribedCallback ==
    /\ pc = "process" /\ ac.inbuf # <<>> /\ ~Spontaneous /\ Reply.kind # "error"
    /\ ac.replies = <<>>
    /\ IF \/ ~Has("SUBSCRIBED")
          \/ NoMessage
          \/ Reply.kind = "subscribe" /\ Owner = NoCallback
       THEN pc' = "assertion" /\ UNCHANGED <<ac, back, now, told>>
       ELSE ac' = AfterPubSub(Taken) /\ Run(Owner, Reply, "processed")
    /\ heard' = Heard
    /\ UNCHANGED <<processing, e, notes>>

\* After a callback: freed by it, or the next reply.  A monitor's callback
\* waits again.
Processed ==
    /\ pc = "processed"
    /\ IF Has("FREEING") /\ now.id # NoCallback THEN pc' = "freeing" /\ UNCHANGED ac
       ELSE /\ pc' = "process"
            /\ ac' = IF Has("MONITORING") THEN [ac EXCEPT !.replies = Append(@, now.id)] ELSE ac
    /\ UNCHANGED <<processing, e, back, now, told, heard, notes>>

(***************************************************************************)
(* Events.                                                                 *)
(***************************************************************************)
handling == <<options, world, history>>

\* redisPollTick(): there is something to read or room to write, or it is
\* too late for it.  The adapter does not look at ac->err.  A context that
\* frees itself is gone after an error; with NO_AUTO_FREE it is still there,
\* and ac->ev.data still points to the events that redisPollCleanup() freed
\* (poll.h:122).  A program that ticks on then (ticksOn) uses them.
redisPollTick ==
    LET in == e.reading /\ (net.down # <<>> \/ net.peer \notin {"pending", "open"})
        out == e.writing /\ net.peer # "pending"
    IN /\ pc = "idle" /\ ac.alive /\ (ac.err = "none" \/ options.ticksOn)
       /\ e.reading \/ e.writing
       /\ in \/ out \/ e.deadline = "expired"
       /\ e' = [Touch(e) EXCEPT !.in_tick = TRUE]
       /\ tick' = [tick EXCEPT !.stage = "read", !.out = out]
       /\ pc' = IF in THEN "handle" ELSE "next"
       /\ UNCHANGED <<ac, back, now, handling>>

StillThere == ~e.deleted

\* From one handler to the next.
NextHandler ==
    /\ pc = "next"
    /\ UNCHANGED <<ac, back, now, handling>>
    /\ \/ tick.stage = "none" /\ pc' = "idle" /\ UNCHANGED <<e, tick>>
       \/ /\ tick.stage = "read"
          /\ tick' = [tick EXCEPT !.stage = "write"] /\ UNCHANGED e
          /\ pc' = IF tick.out /\ StillThere THEN "handle" ELSE "next"
       \/ /\ tick.stage = "write"
          /\ tick' = [tick EXCEPT !.stage = "timeout"]
          /\ IF StillThere /\ e.deadline = "expired"
             THEN pc' = "timeout" /\ e' = [e EXCEPT !.deadline = "none"]
             ELSE pc' = "next" /\ UNCHANGED e
       \/ /\ tick.stage = "timeout" /\ pc' = "idle"
          /\ tick' = [tick EXCEPT !.stage = "none", !.out = FALSE]
          /\ e' = IF e.deleted THEN [e EXCEPT !.state = "freed"] ELSE [e EXCEPT !.in_tick = FALSE]

\* __redisAsyncHandleConnect(), or straight on.
HandleConnect ==
    /\ pc = "handle"
    /\ UNCHANGED <<options, e, tick, world>>
    /\ \/ Has("CONNECTED") /\ pc' = "io" /\ UNCHANGED <<ac, back, now, history>>
       \/ /\ ~Has("CONNECTED") /\ net.peer # "refused"
          /\ ac' = Raise({"CONNECTED"})
          /\ Notify("connected", "connected")
       \/ /\ ~Has("CONNECTED") /\ net.peer = "refused"
          /\ ac' = [ac EXCEPT !.err = "IO"]
          /\ Notify("failed", "failed")

ConnectFailed ==
    /\ pc = "failed" /\ Disconnect(ac)
    /\ UNCHANGED <<back, now, tick, handling>>

\* The connect callback may have ended it all.
ConnectDone ==
    /\ pc = "connected"
    /\ UNCHANGED <<back, now, tick, handling>>
    /\ IF Has("DISCONNECTING")
       THEN IF ac.replies = <<>> THEN Disconnect(CleanDisconnect)
            ELSE pc' = "next" /\ ac' = CleanDisconnect /\ UNCHANGED e
       ELSE pc' = (IF Has("FREEING") THEN "freeing" ELSE "io") /\ UNCHANGED <<ac, e>>

Fail(error) == Disconnect([ac EXCEPT !.err = error])

redisAsyncRead ==
    /\ pc = "io" /\ tick.stage = "read"
    /\ UNCHANGED <<options, back, now, tick, srv, history>>
    /\ \/ /\ net.peer # "reset"
          /\ \E n \in {1, Len(net.down)} \cap 1..Len(net.down) :
                /\ ac' = [ac EXCEPT !.inbuf = @ \o SubSeq(net.down, 1, n)]
                /\ net' = [net EXCEPT !.down = SubSeq(@, n + 1, Len(@))]
          /\ e' = AddRead(e) /\ pc' = "process"
       \/ net.peer = "shut" /\ net.down = <<>> /\ Fail("EOF") /\ UNCHANGED net
       \/ net.peer = "reset" /\ Fail("IO") /\ UNCHANGED net

redisAsyncWrite ==
    /\ pc = "io" /\ tick.stage = "write"
    /\ UNCHANGED <<options, back, now, tick, srv, history>>
    /\ \/ /\ net.peer # "reset" \/ ac.obuf = <<>>
          /\ \E n \in {1, Len(ac.obuf)} \cap 0..Len(ac.obuf) :
                /\ ac' = [ac EXCEPT !.obuf = SubSeq(@, n + 1, Len(@))]
                /\ net' = [net EXCEPT !.up = IF net.peer = "open" THEN @ \o SubSeq(ac.obuf, 1, n)
                                             ELSE @]
                /\ e' = AddRead(IF n = Len(ac.obuf) THEN DelWrite(e) ELSE AddWrite(e))
          /\ pc' = "next"
       \/ net.peer = "reset" /\ ac.obuf # <<>> /\ Fail("IO") /\ UNCHANGED net

\* Nothing is late: nothing is waited for, or it is the connection's timeout
\* that comes after the connection.
Idle == /\ Has("CONNECTED")
        /\ (ac.replies = <<>> /\ ac.subReplies = <<>>) \/ ~options.command_timeout

redisAsyncHandleTimeout ==
    /\ pc = "timeout"
    /\ UNCHANGED <<options, e, tick, world>>
    /\ \/ Idle /\ pc' = "next" /\ UNCHANGED <<ac, back, now, history>>
       \/ /\ ~Idle /\ ac' = [ac EXCEPT !.err = "TIMEOUT"]
          /\ IF Has("CONNECTED") THEN pc' = "late" /\ UNCHANGED <<back, now, history>>
             ELSE Notify("failed", "late")

\* The regular callbacks, and those that they add, hear of it at once.
RunLateCallbacks ==
    /\ pc = "late"
    /\ UNCHANGED <<options, tick, world, asked, heard, notes>>
    /\ \/ /\ ac.replies # <<>>
          /\ ac' = [ac EXCEPT !.replies = Tail(@)] /\ UNCHANGED e
          /\ Run(Head(ac.replies), NoReply, "late")
       \/ ac.replies = <<>> /\ Disconnect(ac) /\ UNCHANGED <<back, now, told>>

(***************************************************************************)
(* The server and the network.                                             *)
(***************************************************************************)
local == <<options, ac, pc, back, now, tick, history>>
Total(subs) == Cardinality(subs["channel"]) + Cardinality(subs["pattern"])
Up == net.peer = "open"
Item(kind, v, name, count) ==
    [kind |-> kind, v |-> v, name |-> name, count |-> count, push |-> options.resp3]

\* The subscriptions after each of names in turn, and the reply to each.
ChangedBy(kind, subs, v, name) ==
    [subs EXCEPT ![v] = IF kind = "subscribe" THEN @ \cup {name} ELSE @ \ {name}]
Serve(c, names) ==
    FoldLeft(LAMBDA s, name :
                 [subs |-> ChangedBy(c.kind, s.subs, c.v, name),
                  out |-> Append(s.out, Item(c.kind, c.v, name,
                                             Total(ChangedBy(c.kind, s.subs, c.v, name))))],
             [subs |-> srv.subs, out |-> <<>>], names)

\* An unsubscription without names is from all, or answered once for none.
NamesOf(c) ==
    IF c.names # <<>> THEN c.names
    ELSE IF srv.subs[c.v] = {} THEN <<"none">> ELSE SetToSeq(srv.subs[c.v])

ServerServes ==
    /\ Up /\ net.up # <<>>
    /\ LET c == Head(net.up)
           s == Serve(c, NamesOf(c))
           refused == ~options.resp3 /\ Total(srv.subs) > 0
           answer == [kind |-> IF refused THEN "error" ELSE "reply", id |-> c.id, v |-> "none",
                      push |-> FALSE, big |-> c.kind = "regular" /\ asked[c.id].big]
       IN IF c.kind \in {"subscribe", "unsubscribe"}
          THEN /\ net' = [net EXCEPT !.up = Tail(@), !.down = @ \o s.out]
               /\ srv' = [srv EXCEPT !.subs = s.subs]
          ELSE /\ net' = [net EXCEPT !.up = Tail(@), !.down = Append(@, answer)]
               /\ srv' = [srv EXCEPT !.monitor = @ \/ c.kind = "monitor"]
    /\ UNCHANGED <<local, e>>

\* Something it says unasked.
Says(item) ==
    /\ Up /\ srv.extras < options.extras
    /\ srv' = [srv EXCEPT !.extras = @ + 1]
    /\ net' = [net EXCEPT !.down = Append(@, item)]
    /\ UNCHANGED <<local, e>>
ServerPublishes == \E v \in Variants : \E name \in srv.subs[v] : Says(Item("message", v, name, 0))
ServerPushes ==
    options.resp3 /\ Says([kind |-> "push", v |-> "none", push |-> TRUE])
ServerShowsCommand ==
    srv.monitor /\ Says([kind |-> "line", v |-> "none", push |-> FALSE])

\* The connection is made, refused, or accepted only to say that there are
\* too many.
ConnectionEnds ==
    /\ net.peer = "pending"
    /\ \/ \E peer \in {"open", "refused"} : net' = [net EXCEPT !.peer = peer]
       \/ net' = [net EXCEPT !.peer = "shut",
                             !.down = <<[kind |-> "error", id |-> 0, v |-> "none", push |-> FALSE]>>]
    /\ UNCHANGED <<local, e, srv>>

ServerCloses ==
    /\ Up /\ options.breaks
    /\ \E peer \in {"shut", "reset"} : net' = [net EXCEPT !.peer = peer]
    /\ UNCHANGED <<local, e, srv>>

TimePasses ==
    /\ e.deadline = "armed"
    /\ e' = [e EXCEPT !.deadline = "expired"]
    /\ UNCHANGED <<local, world>>

Library ==
    \/ redisPollAttach \/ redisAsyncSetConnectCallback \/ CallbackReturns
    \/ RunPending \/ RunDisconnectCallback \/ redisFree
    \/ NoMoreReplies \/ RunPushCallback \/ RunReplyCallback \/ SpontaneousError
    \/ RunSubscribedCallback \/ Processed
    \/ NextHandler \/ HandleConnect \/ ConnectFailed \/ ConnectDone
    \/ redisAsyncRead \/ redisAsyncWrite \/ redisAsyncHandleTimeout \/ RunLateCallbacks

Program ==
    \/ redisAsyncFree \/ redisAsyncDisconnect
    \/ \E op \in options.ops : redisAsyncCommand(op)

World ==
    \/ ServerServes \/ ServerPublishes \/ ServerPushes \/ ServerShowsCommand
    \/ ConnectionEnds \/ ServerCloses \/ TimePasses

Done == pc = "idle" /\ (~ac.alive \/ ac.err # "none" \/ Len(asked) = options.commands)
        /\ UNCHANGED vars

Next == Library \/ redisPollTick \/ Program \/ World \/ Done

Spec == Init /\ [][Next]_vars

\* The program ticks, its callbacks return, a connection attempt ends and the
\* server reads what it is sent.
FairSpec ==
    /\ Spec
    /\ WF_vars(Library) /\ WF_vars(redisPollTick)
    /\ WF_vars(ConnectionEnds) /\ WF_vars(ServerServes)
-----------------------------------------------------------------------------
\* The tables of subscriptions are tables, and no assertion fails (async.c:436,
\* 484, 506 and 629).
TypeOK ==
    /\ \A v \in Variants : DictOK(ac.subs[v])
    /\ pc # "assertion"
    /\ Len(told) = Len(asked)

\* The callback of a regular command is told the command's own reply, or
\* NULL when the context goes before it comes; once, and no callback is left
\* out: not when the context is freed, and not of a reply that was read while
\* the program subscribes and unsubscribes.  A RESP2 program that asks for
\* arrays of three and more must be `separate` for that: see PubSub.
OwnReply ==
    /\ pc = "callback" /\ now.reply.kind = "reply" => now.id = now.reply.id
    /\ \A id \in DOMAIN told : told[id] # "twice"
    /\ \A id \in heard : told[id] # "nothing"
    /\ ~ac.alive => \A id \in DOMAIN told : Regular(id) => told[id] # "nothing"

\* A message goes to the callback of the last subscription the program made
\* to its channel or pattern: none is dropped, none goes to an older one, and
\* no callback of another command gets it.
LastSubscription(v, name) ==
    CHOOSE id \in DOMAIN asked :
        /\ asked[id].kind = "subscribe" /\ asked[id].v = v /\ name \in ToSet(asked[id].names)
        /\ \A i \in (id + 1)..Len(asked) :
              ~(asked[i].kind = "subscribe" /\ asked[i].v = v /\ name \in ToSet(asked[i].names))
MessagesArrive ==
    [][ac.inbuf # <<>> /\ Reply.kind = "message" /\ ac'.inbuf # ac.inbuf /\ pc = "process"
         => now'.id = LastSubscription(Reply.v, Reply.name)]_vars

\* The library and the adapter use nothing that was freed: not the context
\* after redisAsyncFree(), called from any callback or from none, and not the
\* adapter's events after their cleanup.  The program must not tick a context
\* with an error.
NothingFreedIsUsed ==
    /\ e.state # "used"
    /\ pc \notin {"idle", "next"} => ac.alive
    /\ tick.stage # "none" => e.state # "freed"

\* The program hears of its connection once, of its end once and only then,
\* and of nothing after it.
Notified ==
    /\ notes \in {<<>>, <<"failed">>, <<"connected">>, <<"connected", "disconnected">>}
    /\ ~ac.alive => notes # <<"connected">>

\* A context the program asked to free or to disconnect is freed.
Freed ==
    pc # "new" /\ ~options.noautofree /\ ac.flags \cap {"FREEING", "DISCONNECTING"} # {} ~> ~ac.alive
=============================================================================
