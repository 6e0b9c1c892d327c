---------------------------- MODULE AsyncProofs ----------------------------
(***************************************************************************)
(* Proofs about Async.  For any servers and subscriptions, and any         *)
(* programs that do not tick a context with an error: the library and the  *)
(* poll adapter use nothing that was freed, and the program hears of its   *)
(* connection and of its end once each.  For those of them that give       *)
(* regular commands only, as many as they like: every callback is told its *)
(* own reply or NULL, once, and no assertion of the library fails.         *)
(***************************************************************************)
EXTENDS Async, SequenceTheorems, FiniteSetTheorems, TLAPS

-----------------------------------------------------------------------------
(* Where the library is, or goes on when the running callback returns.     *)
Where == IF pc = "callback" THEN back ELSE pc

(* The program does not tick a context with an error.                      *)
Careful == ~options.ticksOn

(* In the middle of a tick, in the middle of the end, and the places that  *)
(* call one of the program's callbacks.                                    *)
Busy    == {"handle", "io", "connected", "process", "processed", "timeout"}
Broken  == {"late", "failed"}
Ending  == {"freeing", "release"}
Calling == {"connected", "process", "processed"} \cup Broken \cup Ending

Ended(flags) == "DISCONNECTING" \in flags \/ "FREEING" \in flags

Shape ==
  /\ DOMAIN ac = {"alive", "flags", "err", "cleanup", "replies", "subReplies", "subs",
                  "pending_unsubs", "obuf", "inbuf"}
  /\ DOMAIN e = {"state", "reading", "writing", "in_tick", "deleted", "deadline"}
  /\ DOMAIN tick = {"stage", "out", "visited"}
  /\ options \in Options

(* The adapter's memory: who knows that it is to go, and when it went.     *)
AdapterInv ==
  /\ e.state \in {"none", "attached", "freed"}
  /\ pc = "new" => e.state = "none"
  /\ ac.cleanup => e.state = "attached" /\ ~e.deleted
  /\ ~ac.cleanup => \/ pc = "new" /\ e.state = "none"
                    \/ Ended(ac.flags) /\ (e.state = "freed" \/ e.deleted)
  /\ e.deleted => e.in_tick
  /\ tick.stage # "none" => e.in_tick /\ e.state = "attached"
  /\ tick.stage = "none" /\ e.in_tick => e.state = "freed"

(* The context: alive wherever it is used, and its adapter still there     *)
(* wherever a tick goes on with it.                                        *)
ContextInv ==
  /\ Where \in {"new", "attached", "idle", "next", "assertion"} \cup Busy \cup Broken \cup Ending
  /\ pc = "callback" => Where \in Calling
  /\ Where \notin {"idle", "next"} => ac.alive
  /\ Where \in Busy \cup Broken => ac.cleanup /\ tick.stage # "none"
  /\ Where = "attached" => ac.cleanup
  /\ Where \in Ending => Ended(ac.flags)
  /\ Where = "release" => ~ac.cleanup
  /\ Where \in Broken => ac.err # "none"
  /\ Where \in {"idle", "next"} /\ ac.alive /\ ac.err = "none" => ac.cleanup
  /\ ~ac.alive => ~ac.cleanup
  /\ "DISCONNECTING" \in ac.flags /\ ac.err = "none" => "NO_AUTO_FREE" \notin ac.flags

(* What the program has been told of the connection.                       *)
NotesInv ==
  /\ notes \in {<<>>, <<"failed">>, <<"connected">>, <<"connected", "disconnected">>}
  /\ "CONNECTED" \in ac.flags <=> notes \in {<<"connected">>, <<"connected", "disconnected">>}
  /\ notes = <<"failed">> => ~ac.cleanup \/ Where \in Broken
  /\ notes = <<"connected", "disconnected">> => Where = "release" \/ ~ac.alive
  /\ Where = "release" \/ ~ac.alive => notes # <<"connected">>
  /\ Where \in {"new", "attached"} => notes = <<>>

IInv == Shape /\ AdapterInv /\ ContextInv /\ NotesInv

LEMMA InitInv == Init => IInv
BY DEF Init, redisAsyncInitialize, IInv, Shape, AdapterInv, ContextInv, NotesInv, Where, Ended,
       Busy, Broken, Ending, Calling

-----------------------------------------------------------------------------
(* What the shared parts of the actions do.                                *)

LEMMA Lists ==
  /\ <<"failed">> # <<>> /\ <<"connected">> # <<>> /\ <<"failed">> # <<"connected">>
  /\ <<"connected", "disconnected">> # <<>>
  /\ <<"connected", "disconnected">> # <<"failed">>
  /\ <<"connected", "disconnected">> # <<"connected">>
OBVIOUS

(* A list of one note with another one.                                    *)
LEMMA TwoNotes ==
  ASSUME NEW S, NEW a \in S, NEW b \in S
  PROVE Append(<<a>>, b) = <<a, b>>
<1> DEFINE s == Append(<<a>>, b)
           t == <<a, b>>
<1>1. <<a>> \in Seq(S) /\ Len(<<a>>) = 1 /\ <<a>>[1] = a
  OBVIOUS
<1>2. t \in Seq(S) /\ Len(t) = 2 /\ t[1] = a /\ t[2] = b
  OBVIOUS
<1>3. s \in Seq(S) /\ Len(s) = 2 /\ s[1] = a /\ s[2] = b
  BY <1>1, AppendProperties
<1> HIDE DEF s, t
<1>4. \A i \in 1 .. Len(s) : s[i] = t[i]
  BY <1>2, <1>3
<1>5. s = t
  BY <1>2, <1>3, <1>4, SeqEqual
<1> QED BY <1>5 DEF s, t

LEMMA NotesGrow ==
  /\ Append(<<>>, "connected") = <<"connected">>
  /\ Append(<<>>, "failed") = <<"failed">>
  /\ Append(<<"connected">>, "disconnected") = <<"connected", "disconnected">>
<1>1. /\ Append(<<>>, "connected") = <<"connected">>
      /\ Append(<<>>, "failed") = <<"failed">>
  OBVIOUS
<1>2. "connected" \in {"connected", "disconnected"} /\ "disconnected" \in {"connected", "disconnected"}
  OBVIOUS
<1> QED BY <1>1, <1>2, TwoNotes

LEMMA RunGoesTo ==
  ASSUME NEW id, NEW reply, NEW then \in Calling, Run(id, reply, then)
  PROVE  Where' = then
BY DEF Run, Where, Calling, Broken, Ending

LEMMA NotifyGoesTo ==
  ASSUME NEW note, NEW then \in Calling, Notify(note, then)
  PROVE  Where' = then /\ notes' = Append(notes, note)
BY DEF Notify, Where

(* The event functions leave alone whether the memory is there, and who    *)
(* is using it.                                                            *)
EventOnly(ev) ==
  /\ DOMAIN ev = DOMAIN e
  /\ ev.state = e.state /\ ev.in_tick = e.in_tick /\ ev.deleted = e.deleted

LEMMA Events ==
  ASSUME Shape, e.state # "freed"
  PROVE  /\ EventOnly(AddRead(e)) /\ EventOnly(AddWrite(e))
         /\ EventOnly(AddRead(DelWrite(e))) /\ EventOnly(AddRead(AddWrite(e)))
<1> DEFINE T(ev) == /\ DOMAIN ev = DOMAIN e
                    /\ ev.state = e.state /\ ev.in_tick = e.in_tick /\ ev.deleted = e.deleted
<1>1. T(e)
  OBVIOUS
<1>2. ASSUME NEW ev, T(ev) PROVE T(Touch(ev))
  BY <1>2 DEF Touch, Shape
<1>3. ASSUME NEW ev, T(ev) PROVE T(refreshTimeout(ev))
  BY <1>3 DEF refreshTimeout, Shape
<1>4. ASSUME NEW ev, T(ev) PROVE T(AddRead(ev)) /\ T(AddWrite(ev)) /\ T(DelWrite(ev))
  <2>1. T(refreshTimeout(Touch(ev))) /\ T(Touch(ev))
    BY <1>2, <1>3, <1>4
  <2> QED BY <2>1 DEF AddRead, AddWrite, DelWrite, Shape
<1> QED BY <1>1, <1>4 DEF EventOnly

-----------------------------------------------------------------------------
(* A step that keeps alive, cleanup, the adapter and the notes.            *)

(* What the flags may become: only Stopped() and the program end things,   *)
(* and a context without an error that is to end is freed by itself.       *)
FlagsKept ==
  /\ Ended(ac.flags) => Ended(ac'.flags)
  /\ "CONNECTED" \in ac'.flags <=> "CONNECTED" \in ac.flags
  /\ "DISCONNECTING" \in ac'.flags /\ ac'.err = "none" => "NO_AUTO_FREE" \notin ac'.flags

Onward ==
  \/ Where' = Where
  \/ Where \in Busy /\ Where' \in Busy \cup {"next", "assertion"}
  \/ Where \in Busy /\ Where' = "late" /\ ac'.err # "none"
  \/ Where \in Busy \cup {"idle"} /\ ac.alive /\ Where' = "freeing" /\ Ended(ac'.flags)

LEMMA Quiet ==
  ASSUME IInv, Shape', pc # "new", pc' # "new",
         e'.state = e.state, e'.in_tick = e.in_tick, e'.deleted = e.deleted,
         tick'.stage = tick.stage, notes' = notes,
         ac'.alive = ac.alive, ac'.cleanup = ac.cleanup,
         ac.err # "none" => ac'.err # "none",
         FlagsKept, Onward, pc' = "callback" => Where' \in Calling
  PROVE  IInv'
<1>1. Where # "new" /\ Where' # "new"
  BY DEF Where, IInv, ContextInv, Calling, Broken, Ending
<1>2. AdapterInv'
  BY DEF IInv, AdapterInv, FlagsKept
<1>3. ContextInv'
  BY <1>1 DEF IInv, ContextInv, FlagsKept, Onward, Busy, Broken, Ending, Calling
<1>4. NotesInv'
  BY <1>1, Lists DEF IInv, ContextInv, NotesInv, FlagsKept, Onward, Busy, Broken, Ending
<1> QED BY <1>2, <1>3, <1>4 DEF IInv

(* The same without anything but the place and the callback changing.      *)
LEMMA SamePlace ==
  ASSUME IInv, UNCHANGED <<options, ac, e, tick, notes, pc, back>>
  PROVE  IInv'
BY DEF IInv, Shape, AdapterInv, ContextInv, NotesInv, Where

-----------------------------------------------------------------------------
(* __redisAsyncDisconnect().                                               *)

LEMMA CleanupDoes ==
  ASSUME IInv, pc # "new", e' = Cleanup
  PROVE  /\ DOMAIN e' = DOMAIN e
         /\ e'.in_tick = e.in_tick
         /\ e'.state = "freed" \/ e'.deleted
         /\ e'.state \in {"attached", "freed"}
         /\ e'.deleted => e'.in_tick
         /\ tick.stage # "none" => e'.state = "attached"
         /\ tick.stage = "none" /\ e.in_tick => e'.state = "freed"
<1>1. CASE ac.cleanup /\ e.in_tick
  <2>1. e' = [e EXCEPT !.deleted = TRUE]
    BY <1>1 DEF Cleanup, redisPollCleanup
  <2> QED BY <1>1, <2>1 DEF IInv, Shape, AdapterInv
<1>2. CASE ac.cleanup /\ ~e.in_tick
  <2>1. e' = [e EXCEPT !.state = "freed"]
    BY <1>2 DEF Cleanup, redisPollCleanup
  <2> QED BY <1>2, <2>1 DEF IInv, Shape, AdapterInv
<1>3. CASE ~ac.cleanup
  <2>1. e' = e
    BY <1>3 DEF Cleanup
  <2> QED BY <1>3, <2>1 DEF IInv, AdapterInv
<1> QED BY <1>1, <1>2, <1>3

LEMMA DisconnectKeeps ==
  ASSUME IInv, NEW a, Disconnect(a), DOMAIN a = DOMAIN ac,
         Where \in Busy \cup Broken \cup {"idle"}, ac.alive, a.alive = ac.alive,
         pc # "callback",
         Ended(a.flags) \/ a.err # "none",
         "CONNECTED" \in a.flags <=> "CONNECTED" \in ac.flags,
         a.err = "none" => "NO_AUTO_FREE" \notin a.flags,
         UNCHANGED <<options, notes>>, tick' = tick
  PROVE  IInv'
<1>1. pc = Where /\ pc # "new"
  BY DEF Where, Busy, Broken
<1>2. /\ DOMAIN ac' = DOMAIN ac /\ ac'.alive /\ ~ac'.cleanup /\ ac'.err = a.err
      /\ ac'.flags = Stopped(a)
  BY DEF Disconnect, IInv, Shape
<1>3. /\ Ended(ac'.flags)
      /\ "CONNECTED" \in ac'.flags <=> "CONNECTED" \in ac.flags
      /\ "NO_AUTO_FREE" \in ac'.flags <=> "NO_AUTO_FREE" \in a.flags
  BY <1>2 DEF Stopped, Ended
<1>4. /\ pc' \in {"assertion", "next", "freeing"}
      /\ pc' = "next" => a.err # "none"
  BY DEF Disconnect
<1>5. Where' = pc'
  BY <1>4 DEF Where
<1>6. e' = Cleanup
  BY DEF Disconnect
<1>7. Shape'
  BY <1>1, <1>2, <1>6, CleanupDoes DEF IInv, Shape
<1>8. AdapterInv'
  BY <1>1, <1>2, <1>3, <1>4, <1>6, CleanupDoes DEF AdapterInv
<1>9. ContextInv'
  BY <1>2, <1>3, <1>4, <1>5 DEF ContextInv, Busy, Broken, Ending, Calling
<1>10. NotesInv'
  BY <1>1, <1>2, <1>3, <1>4, <1>5, Lists DEF IInv, NotesInv, Busy, Broken
<1> QED BY <1>7, <1>8, <1>9, <1>10 DEF IInv

-----------------------------------------------------------------------------
(* The beginning, and the end.                                             *)

LEMMA AttachKeeps == ASSUME IInv, redisPollAttach PROVE IInv'
<1>1. /\ pc = "new" /\ pc' = "attached" /\ Where = "new" /\ Where' = "attached"
      /\ UNCHANGED <<options, tick, notes>>
  BY DEF redisPollAttach, Where, history
<1>2. /\ DOMAIN e' = DOMAIN e /\ e'.state = "attached" /\ e'.in_tick = e.in_tick
      /\ e'.deleted = e.deleted
      /\ DOMAIN ac' = DOMAIN ac /\ ac'.cleanup /\ ac'.alive = ac.alive
      /\ ac'.flags = ac.flags /\ ac'.err = ac.err
  BY DEF redisPollAttach, IInv, Shape
<1>3. ac.alive /\ tick.stage = "none" /\ ~e.in_tick /\ ~e.deleted
  BY <1>1 DEF IInv, ContextInv, AdapterInv
<1> QED BY <1>1, <1>2, <1>3 DEF IInv, Shape, AdapterInv, ContextInv, NotesInv, Busy, Broken,
     Ending, Calling

LEMMA SetCallbackKeeps == ASSUME IInv, redisAsyncSetConnectCallback PROVE IInv'
<1>1. /\ pc = "attached" /\ pc' = "idle" /\ Where = "attached" /\ Where' = "idle"
      /\ UNCHANGED <<options, ac, tick, notes>>
  BY DEF redisAsyncSetConnectCallback, Where, history
<1>2. EventOnly(e')
  <2>1. e.state = "attached"
    BY <1>1 DEF IInv, ContextInv, AdapterInv
  <2> QED BY <2>1, Events DEF IInv, redisAsyncSetConnectCallback
<1> QED BY <1>1, <1>2 DEF EventOnly, IInv, Shape, AdapterInv, ContextInv, NotesInv, Busy, Broken,
     Ending, Calling

LEMMA ReturnKeeps == ASSUME IInv, CallbackReturns PROVE IInv'
<1>1. /\ pc = "callback" /\ pc' = back /\ Where = back
      /\ UNCHANGED <<options, ac, e, tick, notes, back>>
  BY DEF CallbackReturns, Where, history
<1>2. back \in Calling
  BY <1>1 DEF IInv, ContextInv
<1>3. Where' = Where /\ pc' # "new" /\ pc' # "callback"
  BY <1>1, <1>2 DEF Where, Calling, Broken, Ending
<1> QED BY <1>1, <1>3, Quiet DEF IInv, Shape, FlagsKept, Onward, ContextInv

LEMMA PendingKeeps == ASSUME IInv, RunPending PROVE IInv'
<1>1. /\ pc = "freeing" /\ Where = "freeing" /\ UNCHANGED <<options, e, notes>>
  BY DEF RunPending, Where
<1>2. /\ DOMAIN ac' = DOMAIN ac /\ DOMAIN tick' = DOMAIN tick /\ tick'.stage = tick.stage
      /\ ac'.alive = ac.alive /\ ac'.cleanup = ac.cleanup /\ ac'.err = ac.err
      /\ ac'.flags = ac.flags
  BY DEF RunPending, IInv, Shape
<1>3. \E id : Run(id, NoReply, "freeing")
  BY DEF RunPending
<1>4. Where' = "freeing"
  BY <1>3, RunGoesTo DEF Calling, Ending
<1>5. pc' # "new"
  BY <1>3 DEF Run
<1> QED BY <1>1, <1>2, <1>4, <1>5, Quiet DEF IInv, Shape, FlagsKept, Onward, ContextInv, Calling,
     Ending

LEMMA DisconnectCallbackKeeps == ASSUME IInv, RunDisconnectCallback PROVE IInv'
<1>1. pc = "freeing" /\ Where = "freeing" /\ UNCHANGED <<options, tick>> /\ e' = Cleanup
  BY DEF RunDisconnectCallback, Where
<1>2. /\ DOMAIN ac' = DOMAIN ac /\ ~ac'.cleanup
      /\ ac'.alive = ac.alive /\ ac'.err = ac.err /\ ac'.flags = ac.flags
  BY DEF RunDisconnectCallback, IInv, Shape
<1>3. Where' = "release" /\ pc' # "new"
      /\ notes' = IF "CONNECTED" \in ac.flags THEN Append(notes, "disconnected") ELSE notes
  <2>1. CASE EndTold
    <3>1. Notify("disconnected", "release")
      BY <2>1 DEF RunDisconnectCallback
    <3>2. pc' = "callback"
      BY <3>1 DEF Notify
    <3> QED BY <2>1, <3>1, <3>2, NotifyGoesTo DEF EndTold, Has, Calling, Ending
  <2>2. CASE ~EndTold
    <3>1. pc' = "release" /\ notes' = notes
      BY <2>2 DEF RunDisconnectCallback, history
    <3> QED BY <2>2, <3>1 DEF EndTold, Has, Where
  <2> QED BY <2>1, <2>2
<1>4. ac.alive /\ Ended(ac.flags) /\ notes # <<"connected", "disconnected">>
  BY <1>1 DEF IInv, ContextInv, NotesInv, Ending
<1>5. Shape'
  BY <1>1, <1>2, CleanupDoes DEF IInv, Shape
<1>6. AdapterInv'
  BY <1>1, <1>2, <1>3, <1>4, CleanupDoes DEF AdapterInv
<1>7. ContextInv'
  BY <1>2, <1>3, <1>4 DEF IInv, ContextInv, Busy, Broken, Ending, Calling
<1>8. NotesInv'
  <2>1. CASE "CONNECTED" \in ac.flags
    <3>1. notes = <<"connected">>
      BY <2>1, <1>4 DEF IInv, NotesInv
    <3>2. notes' = <<"connected", "disconnected">>
      BY <3>1, <2>1, <1>3, NotesGrow
    <3> QED BY <2>1, <3>2, <1>2, <1>3, Lists DEF NotesInv
  <2>2. CASE "CONNECTED" \notin ac.flags
    BY <2>2, <1>2, <1>3, Lists DEF IInv, NotesInv
  <2> QED BY <2>1, <2>2
<1> QED BY <1>5, <1>6, <1>7, <1>8 DEF IInv

LEMMA FreeKeeps == ASSUME IInv, redisFree PROVE IInv'
<1>1. /\ pc = "release" /\ pc' = "next" /\ Where = "release" /\ Where' = "next"
      /\ UNCHANGED <<options, e, tick, notes>>
  BY DEF redisFree, Where, history
<1>2. /\ DOMAIN ac' = DOMAIN ac /\ ~ac'.alive
      /\ ac'.cleanup = ac.cleanup /\ ac'.err = ac.err /\ ac'.flags = ac.flags
  BY DEF redisFree, IInv, Shape
<1> QED BY <1>1, <1>2, Lists DEF IInv, Shape, AdapterInv, ContextInv, NotesInv, Busy, Broken, Ending,
     Calling

-----------------------------------------------------------------------------
(* The replies.                                                            *)

(* A context that is alive, connected and ending as it was.                *)
Same(a) ==
  /\ DOMAIN a = DOMAIN ac
  /\ a.alive = ac.alive /\ a.cleanup = ac.cleanup /\ a.err = ac.err
  /\ \A f \in {"DISCONNECTING", "FREEING", "CONNECTED", "NO_AUTO_FREE"} :
        f \in a.flags <=> f \in ac.flags

LEMMA SameKeeps ==
  ASSUME IInv, Same(ac'), EventOnly(e'), UNCHANGED <<options, notes>>,
         tick'.stage = tick.stage, DOMAIN tick' = DOMAIN tick,
         pc # "new", pc' # "new", Onward, pc' = "callback" => Where' \in Calling
  PROVE  IInv'
<1>1. Shape'
  BY DEF IInv, Shape, Same, EventOnly
<1>2. FlagsKept
  BY DEF Same, FlagsKept, Ended, IInv, ContextInv
<1> QED BY <1>1, <1>2, Quiet DEF Same, EventOnly

LEMMA TakenSame == Shape => Same(Taken) /\ Same(ac)
BY DEF Shape, Same, Taken

LEMMA NoMoreRepliesKeeps == ASSUME IInv, NoMoreReplies PROVE IInv'
<1>1. /\ pc = "process" /\ Where = "process"
      /\ UNCHANGED <<options, tick, notes>>
  BY DEF NoMoreReplies, processing, Where
<1>2. CASE Has("DISCONNECTING") /\ AllAnswered
  <2>1. Disconnect(ac)
    BY <1>2 DEF NoMoreReplies
  <2> QED BY <1>1, <1>2, <2>1, DisconnectKeeps DEF Has, Ended, Busy, IInv, ContextInv
<1>3. CASE ~(Has("DISCONNECTING") /\ AllAnswered)
  <2>1. pc' = "next" /\ UNCHANGED <<ac, e>>
    BY <1>3 DEF NoMoreReplies
  <2>2. Onward
    BY <1>1, <2>1 DEF Onward, Where, Busy
  <2> QED BY <1>1, <2>1, <2>2, SameKeeps, TakenSame DEF IInv, EventOnly
<1> QED BY <1>2, <1>3

LEMMA PushCallbackKeeps == ASSUME IInv, RunPushCallback PROVE IInv'
<1>1. /\ pc = "process" /\ Where = "process" /\ Where' = "process" /\ pc' = "callback"
      /\ UNCHANGED <<options, e, tick, notes>> /\ ac' = Taken
  BY DEF RunPushCallback, processing, Where
<1>2. Onward
  BY <1>1 DEF Onward
<1> QED BY <1>1, <1>2, SameKeeps, TakenSame DEF IInv, EventOnly, Calling

LEMMA ReplyCallbackKeeps == ASSUME IInv, RunReplyCallback PROVE IInv'
<1>1. /\ pc = "process" /\ Where = "process" /\ UNCHANGED <<options, e, tick, notes>>
      /\ ac' = [Taken EXCEPT !.replies = Tail(@)]
      /\ Run(Head(ac.replies), Reply, "processed")
  BY DEF RunReplyCallback, processing, Where
<1>2. Where' = "processed" /\ pc' # "new"
  BY <1>1, RunGoesTo DEF Calling, Run
<1>3. Same(ac')
  BY <1>1, TakenSame DEF IInv, Same
<1>4. Onward
  BY <1>1, <1>2 DEF Onward, Busy
<1> QED BY <1>1, <1>2, <1>3, <1>4, SameKeeps DEF EventOnly, Calling

LEMMA SpontaneousErrorKeeps == ASSUME IInv, SpontaneousError PROVE IInv'
<1> DEFINE a == [Taken EXCEPT !.err = "OTHER"]
<1>1. /\ pc = "process" /\ Where = "process" /\ UNCHANGED <<options, tick, notes>>
      /\ Disconnect(a)
  BY DEF SpontaneousError, processing, Where
<1>2. /\ DOMAIN a = DOMAIN ac /\ a.alive = ac.alive /\ a.err = "OTHER"
      /\ "CONNECTED" \in a.flags <=> "CONNECTED" \in ac.flags
  BY TakenSame DEF IInv, Same, Shape
<1>3. ac.alive
  BY <1>1 DEF IInv, ContextInv
<1> HIDE DEF a
<1> QED BY <1>1, <1>2, <1>3, DisconnectKeeps DEF Busy

LEMMA PubSubSame == ASSUME Shape PROVE Same(AfterPubSub(Taken))
<1>1. Same(Taken)
  BY TakenSame
<1>2. ASSUME NEW a, NEW v, NEW name, NEW count, Same(a)
      PROVE  Same(AfterLast(AfterUnsubscribe(a, v, name), count))
  <2>1. Same(AfterUnsubscribe(a, v, name))
    BY <1>2 DEF Same, AfterUnsubscribe, Shape
  <2> QED BY <2>1 DEF Same, AfterLast, Shape
<1>3. Same([Taken EXCEPT !.subs[Reply.v] = Confirmed(@, Reply.name)])
  BY <1>1 DEF Same, Shape
<1>4. Same([Taken EXCEPT !.subReplies = Tail(@)])
  BY <1>1 DEF Same, Shape
<1> QED BY <1>1, <1>2, <1>3, <1>4 DEF AfterPubSub

LEMMA SubscribedCallbackKeeps == ASSUME IInv, RunSubscribedCallback PROVE IInv'
<1>1. pc = "process" /\ Where = "process" /\ UNCHANGED <<options, e, tick, notes>>
  BY DEF RunSubscribedCallback, processing, Where
<1>2. CASE ac' = AfterPubSub(Taken) /\ Run(Owner, Reply, "processed")
  <2>1. Where' = "processed" /\ pc' # "new"
    BY <1>2, RunGoesTo DEF Calling, Run
  <2>2. Onward
    BY <1>1, <2>1 DEF Onward, Busy
  <2> QED BY <1>1, <1>2, <2>1, <2>2, SameKeeps, PubSubSame DEF IInv, EventOnly, Calling
<1>3. CASE pc' = "assertion" /\ UNCHANGED ac
  <2>1. Onward
    BY <1>1, <1>3 DEF Onward, Where, Busy
  <2> QED BY <1>1, <1>3, <2>1, SameKeeps, TakenSame DEF IInv, EventOnly
<1> QED BY <1>2, <1>3 DEF RunSubscribedCallback

LEMMA ProcessedKeeps == ASSUME IInv, Processed PROVE IInv'
<1>1. pc = "processed" /\ Where = "processed" /\ UNCHANGED <<options, e, tick, notes>>
  BY DEF Processed, processing, Where
<1>2. Same(ac')
  BY DEF Processed, IInv, Shape, Same
<1>3. \/ pc' = "freeing" /\ "FREEING" \in ac.flags
      \/ pc' = "process"
  BY DEF Processed, Has
<1>4. Where' = pc' /\ pc' # "new"
  BY <1>3 DEF Where
<1>5. Onward
  BY <1>1, <1>2, <1>3, <1>4 DEF Onward, Busy, Ended, Same, IInv, ContextInv
<1> QED BY <1>1, <1>2, <1>3, <1>4, <1>5, SameKeeps DEF EventOnly

-----------------------------------------------------------------------------
(* A tick.                                                                 *)

LEMMA TickKeeps == ASSUME IInv, Careful, redisPollTick PROVE IInv'
<1>1. /\ pc = "idle" /\ ac.alive /\ ac.err = "none" /\ pc' \in {"handle", "next"}
      /\ Where = "idle" /\ Where' = pc'
      /\ UNCHANGED <<options, ac, notes>>
      /\ e' = [Touch(e) EXCEPT !.in_tick = TRUE]
      /\ tick'.stage = "read" /\ DOMAIN tick' = DOMAIN tick
  BY DEF redisPollTick, handling, history, Where, IInv, Shape, Careful
<1>2. ac.cleanup /\ e.state = "attached" /\ ~e.deleted
  BY <1>1 DEF IInv, ContextInv, AdapterInv
<1>3. /\ DOMAIN e' = DOMAIN e /\ e'.in_tick /\ e'.state = e.state /\ e'.deleted = e.deleted
  BY <1>1, <1>2 DEF Touch, IInv, Shape
<1>4. Shape' /\ AdapterInv'
  BY <1>1, <1>3, <1>2 DEF IInv, Shape, AdapterInv
<1>5. ContextInv' /\ NotesInv'
  BY <1>1, <1>2 DEF IInv, ContextInv, NotesInv, Busy, Broken, Ending, Calling
<1> QED BY <1>4, <1>5 DEF IInv

LEMMA NextHandlerKeeps == ASSUME IInv, NextHandler PROVE IInv'
<1>1. pc = "next" /\ Where = "next" /\ UNCHANGED <<options, ac, notes>>
  BY DEF NextHandler, handling, history, Where
<1>2. CASE tick.stage = "none" /\ pc' = "idle" /\ UNCHANGED <<e, tick>>
  BY <1>1, <1>2 DEF IInv, Shape, AdapterInv, ContextInv, NotesInv, Where, Busy, Broken, Ending,
     Calling
<1>3. CASE /\ tick.stage \in {"read", "write"}
           /\ tick'.stage \in {"write", "timeout"} /\ DOMAIN tick' = DOMAIN tick
           /\ EventOnly(e')
           /\ pc' = "next" \/ (~e.deleted /\ pc' \in {"handle", "timeout"})
  <2>1. Where' = pc' /\ pc' \notin {"new", "callback"}
    BY <1>3 DEF Where
  <2>2. ~e.deleted => ac.cleanup
    BY <1>1, <1>3 DEF IInv, AdapterInv
  <2>3. ac.cleanup => ac.alive
    BY DEF IInv, ContextInv
  <2>4. Shape' /\ AdapterInv'
    BY <1>1, <1>3, <2>1 DEF IInv, Shape, AdapterInv, EventOnly
  <2>5. ContextInv'
    BY <1>1, <1>3, <2>1, <2>2, <2>3 DEF IInv, ContextInv, Busy, Broken, Ending
  <2>6. NotesInv'
    BY <1>1, <1>3, <2>1 DEF IInv, NotesInv, Broken
  <2> QED BY <2>4, <2>5, <2>6 DEF IInv
<1>4. CASE /\ tick.stage = "timeout" /\ pc' = "idle"
           /\ tick' = [tick EXCEPT !.stage = "none", !.out = FALSE]
           /\ e' = IF e.deleted THEN [e EXCEPT !.state = "freed"] ELSE [e EXCEPT !.in_tick = FALSE]
  <2>1. Where' = "idle" /\ tick'.stage = "none" /\ DOMAIN tick' = DOMAIN tick
    BY <1>4 DEF Where, IInv, Shape
  <2>2. /\ DOMAIN e' = DOMAIN e /\ e'.deleted = e.deleted
        /\ e.deleted => e'.state = "freed" /\ e'.in_tick = e.in_tick
        /\ ~e.deleted => e'.state = e.state /\ ~e'.in_tick
    BY <1>4 DEF IInv, Shape
  <2>3. e.in_tick /\ e.state = "attached"
    BY <1>4 DEF IInv, AdapterInv
  <2>4. Shape' /\ AdapterInv'
    BY <1>1, <1>4, <2>1, <2>2, <2>3 DEF IInv, Shape, AdapterInv
  <2>5. ContextInv' /\ NotesInv'
    BY <1>1, <1>4, <2>1 DEF IInv, ContextInv, NotesInv, Busy, Broken, Ending
  <2> QED BY <2>4, <2>5 DEF IInv
<1>5. CASE /\ tick.stage = "read"
           /\ tick' = [tick EXCEPT !.stage = "write"] /\ UNCHANGED e
           /\ pc' = IF tick.out /\ StillThere THEN "handle" ELSE "next"
  <2>1. tick'.stage = "write" /\ DOMAIN tick' = DOMAIN tick
    BY <1>5 DEF IInv, Shape
  <2>2. EventOnly(e') /\ (pc' = "next" \/ (~e.deleted /\ pc' = "handle"))
    BY <1>5 DEF StillThere, EventOnly
  <2> QED BY <1>3, <1>5, <2>1, <2>2
<1>6. CASE /\ tick.stage = "write"
           /\ tick' = [tick EXCEPT !.stage = "timeout"]
           /\ IF StillThere /\ e.deadline = "expired"
              THEN pc' = "timeout" /\ e' = [e EXCEPT !.deadline = "none"]
              ELSE pc' = "next" /\ UNCHANGED e
  <2>1. tick'.stage = "timeout" /\ DOMAIN tick' = DOMAIN tick
    BY <1>6 DEF IInv, Shape
  <2>2. EventOnly(e') /\ (pc' = "next" \/ (~e.deleted /\ pc' = "timeout"))
    BY <1>6 DEF StillThere, EventOnly, IInv, Shape
  <2> QED BY <1>3, <1>6, <2>1, <2>2
<1> QED BY <1>2, <1>4, <1>5, <1>6 DEF NextHandler

(* The first event tells of the connection, and only the first.            *)
LEMMA HandleConnectKeeps == ASSUME IInv, HandleConnect PROVE IInv'
<1>1. pc = "handle" /\ Where = "handle" /\ UNCHANGED <<options, e, tick>>
  BY DEF HandleConnect, Where
<1>2. ac.alive /\ ac.cleanup /\ tick.stage # "none"
  BY <1>1 DEF IInv, ContextInv, Busy
<1>3. CASE Has("CONNECTED") /\ pc' = "io" /\ UNCHANGED <<ac, back, now, history>>
  <2>1. Onward /\ Where' = "io"
    BY <1>1, <1>3 DEF Onward, Where, Busy
  <2> QED BY <1>1, <1>3, <2>1, SameKeeps, TakenSame DEF IInv, EventOnly, history
<1>4. CASE ~Has("CONNECTED")
  <2>1. notes = <<>>
    BY <1>1, <1>2, <1>4 DEF IInv, NotesInv, Has, Broken
  <2>2. CASE ac' = Raise({"CONNECTED"}) /\ Notify("connected", "connected")
    <3>1. Where' = "connected" /\ notes' = <<"connected">> /\ pc' = "callback"
      BY <2>1, <2>2, NotifyGoesTo, NotesGrow DEF Calling, Notify
    <3>2. /\ DOMAIN ac' = DOMAIN ac /\ ac'.alive /\ ac'.cleanup /\ ac'.err = ac.err
          /\ ac'.flags = ac.flags \cup {"CONNECTED"}
      BY <1>2, <2>2 DEF Raise, IInv, Shape
    <3>3. Shape' /\ AdapterInv'
      BY <1>1, <1>2, <3>1, <3>2 DEF IInv, Shape, AdapterInv
    <3>4. ContextInv' /\ NotesInv'
      BY <1>1, <1>2, <3>1, <3>2, Lists DEF IInv, ContextInv, NotesInv, Busy, Broken, Ending, Calling
    <3> QED BY <3>3, <3>4 DEF IInv
  <2>3. CASE ac' = [ac EXCEPT !.err = "IO"] /\ Notify("failed", "failed")
    <3>1. Where' = "failed" /\ notes' = <<"failed">> /\ pc' = "callback"
      BY <2>1, <2>3, NotifyGoesTo, NotesGrow DEF Calling, Broken, Notify
    <3>2. /\ DOMAIN ac' = DOMAIN ac /\ ac'.alive /\ ac'.cleanup /\ ac'.err = "IO"
          /\ ac'.flags = ac.flags
      BY <1>2, <2>3 DEF IInv, Shape
    <3>3. Shape' /\ AdapterInv'
      BY <1>1, <1>2, <3>1, <3>2 DEF IInv, Shape, AdapterInv
    <3>4. ContextInv'
      BY <1>1, <1>2, <3>1, <3>2 DEF IInv, ContextInv, Busy, Broken, Ending, Calling
    <3>5. NotesInv'
      BY <1>4, <3>1, <3>2, Lists DEF NotesInv, Has, Broken
    <3> QED BY <3>3, <3>4, <3>5 DEF IInv
  <2> QED BY <1>4, <2>2, <2>3 DEF HandleConnect
<1> QED BY <1>3, <1>4 DEF HandleConnect

LEMMA ConnectFailedKeeps == ASSUME IInv, ConnectFailed PROVE IInv'
<1>1. /\ pc = "failed" /\ Where = "failed" /\ Disconnect(ac)
      /\ UNCHANGED <<options, tick, notes>>
  BY DEF ConnectFailed, handling, history, Where
<1>2. ac.alive /\ ac.err # "none"
  BY <1>1 DEF IInv, ContextInv, Broken
<1> QED BY <1>1, <1>2, DisconnectKeeps DEF Broken

LEMMA CleanDisconnectFlags ==
  ASSUME Shape
  PROVE  /\ DOMAIN CleanDisconnect = DOMAIN ac
         /\ CleanDisconnect.alive = ac.alive /\ CleanDisconnect.cleanup = ac.cleanup
         /\ CleanDisconnect.err = ac.err
         /\ CleanDisconnect.flags = (ac.flags \ {"NO_AUTO_FREE"}) \cup {"DISCONNECTING"}
BY DEF Shape, CleanDisconnect

LEMMA ConnectDoneKeeps == ASSUME IInv, ConnectDone PROVE IInv'
<1>1. pc = "connected" /\ Where = "connected" /\ UNCHANGED <<options, tick, notes>>
  BY DEF ConnectDone, handling, history, Where
<1>2. ac.alive
  BY <1>1 DEF IInv, ContextInv
<1>3. CASE Has("DISCONNECTING") /\ ac.replies = <<>>
  <2>1. Disconnect(CleanDisconnect)
    BY <1>3 DEF ConnectDone
  <2> QED BY <1>1, <1>2, <2>1, DisconnectKeeps, CleanDisconnectFlags DEF IInv, Ended, Busy
<1>4. CASE Has("DISCONNECTING") /\ ac.replies # <<>>
  <2>1. pc' = "next" /\ ac' = CleanDisconnect /\ UNCHANGED e
    BY <1>4 DEF ConnectDone
  <2>2. Onward
    BY <1>1, <2>1 DEF Onward, Where, Busy
  <2> QED BY <1>1, <2>1, <2>2, CleanDisconnectFlags, Quiet DEF IInv, Shape, FlagsKept, Ended
<1>5. CASE ~Has("DISCONNECTING")
  <2>1. pc' = (IF Has("FREEING") THEN "freeing" ELSE "io") /\ UNCHANGED <<ac, e>>
    BY <1>5 DEF ConnectDone
  <2>2. Onward
    BY <1>1, <1>2, <2>1 DEF Onward, Where, Busy, Has, Ended
  <2> QED BY <1>1, <2>1, <2>2, SameKeeps, TakenSame DEF IInv, EventOnly
<1> QED BY <1>3, <1>4, <1>5

LEMMA FailKeeps ==
  ASSUME IInv, pc = "io", NEW error, error # "none", Fail(error), UNCHANGED <<options, tick, notes>>
  PROVE  IInv'
<1> DEFINE a == [ac EXCEPT !.err = error]
<1>1. Where = "io" /\ ac.alive
  BY DEF Where, IInv, ContextInv
<1>2. DOMAIN a = DOMAIN ac /\ a.alive = ac.alive /\ a.err = error /\ a.flags = ac.flags
  BY DEF IInv, Shape
<1>3. Disconnect(a)
  BY DEF Fail
<1> HIDE DEF a
<1> QED BY <1>1, <1>2, <1>3, DisconnectKeeps DEF Busy

(* While it reads and writes the adapter is there.                         *)
LEMMA Attached == ASSUME IInv, pc = "io" PROVE e.state # "freed" /\ Where = "io"
BY DEF IInv, AdapterInv, ContextInv, Where, Busy

LEMMA ReadKeeps == ASSUME IInv, redisAsyncRead PROVE IInv'
<1>1. pc = "io" /\ UNCHANGED <<options, tick, notes>>
  BY DEF redisAsyncRead, history
<1>2. CASE /\ \E n \in {1, Len(net.down)} \cap 1..Len(net.down) :
                 /\ ac' = [ac EXCEPT !.inbuf = @ \o SubSeq(net.down, 1, n)]
                 /\ net' = [net EXCEPT !.down = SubSeq(@, n + 1, Len(@))]
           /\ e' = AddRead(e) /\ pc' = "process"
  <2>1. Same(ac')
    BY <1>2 DEF Same, IInv, Shape
  <2>2. EventOnly(e')
    BY <1>1, <1>2, Attached, Events DEF IInv
  <2>3. Onward
    BY <1>1, <1>2, Attached DEF Onward, Where, Busy
  <2> QED BY <1>1, <1>2, <2>1, <2>2, <2>3, SameKeeps
<1>3. CASE Fail("EOF") \/ Fail("IO")
  BY <1>1, <1>3, FailKeeps
<1> QED BY <1>2, <1>3 DEF redisAsyncRead

LEMMA WriteKeeps == ASSUME IInv, redisAsyncWrite PROVE IInv'
<1>1. pc = "io" /\ UNCHANGED <<options, tick, notes>>
  BY DEF redisAsyncWrite, history
<1>2. CASE /\ \E n \in {1, Len(ac.obuf)} \cap 0..Len(ac.obuf) :
                 /\ ac' = [ac EXCEPT !.obuf = SubSeq(@, n + 1, Len(@))]
                 /\ net' = [net EXCEPT !.up = IF net.peer = "open" THEN @ \o SubSeq(ac.obuf, 1, n)
                                             ELSE @]
                 /\ e' = AddRead(IF n = Len(ac.obuf) THEN DelWrite(e) ELSE AddWrite(e))
           /\ pc' = "next"
  <2>1. Same(ac')
    BY <1>2 DEF Same, IInv, Shape
  <2>2. e' = AddRead(DelWrite(e)) \/ e' = AddRead(AddWrite(e))
    BY <1>2
  <2>3. EventOnly(e')
    BY <1>1, <2>2, Attached, Events DEF IInv
  <2>4. Onward
    BY <1>1, <1>2, Attached DEF Onward, Where, Busy
  <2> QED BY <1>1, <1>2, <2>1, <2>3, <2>4, SameKeeps
<1>3. CASE Fail("IO")
  BY <1>1, <1>3, FailKeeps
<1> QED BY <1>2, <1>3 DEF redisAsyncWrite

LEMMA TimeoutKeeps == ASSUME IInv, redisAsyncHandleTimeout PROVE IInv'
<1>1. pc = "timeout" /\ Where = "timeout" /\ UNCHANGED <<options, e, tick>>
  BY DEF redisAsyncHandleTimeout, Where
<1>2. ac.alive /\ ac.cleanup /\ tick.stage # "none"
  BY <1>1 DEF IInv, ContextInv, Busy
<1>3. CASE Idle /\ pc' = "next" /\ UNCHANGED <<ac, back, now, history>>
  <2>1. Onward
    BY <1>1, <1>3 DEF Onward, Where, Busy
  <2> QED BY <1>1, <1>3, <2>1, SameKeeps, TakenSame DEF IInv, EventOnly, history
<1>4. CASE ac' = [ac EXCEPT !.err = "TIMEOUT"]
  <2>1. /\ DOMAIN ac' = DOMAIN ac /\ ac'.alive /\ ac'.cleanup /\ ac'.err = "TIMEOUT"
        /\ ac'.flags = ac.flags
    BY <1>2, <1>4 DEF IInv, Shape
  <2>2. CASE Has("CONNECTED") /\ pc' = "late" /\ UNCHANGED <<back, now, history>>
    <3>1. Onward
      BY <1>1, <2>1, <2>2 DEF Onward, Where, Busy
    <3> QED BY <1>1, <1>2, <2>1, <2>2, <3>1, Quiet DEF IInv, Shape, FlagsKept, history
  <2>3. CASE ~Has("CONNECTED") /\ Notify("failed", "late")
    <3>1. notes = <<>>
      BY <1>1, <1>2, <2>3 DEF IInv, NotesInv, Has, Broken
    <3>2. Where' = "late" /\ notes' = <<"failed">> /\ pc' = "callback"
      BY <2>3, <3>1, NotifyGoesTo, NotesGrow DEF Calling, Broken, Notify
    <3>3. Shape' /\ AdapterInv'
      BY <1>1, <1>2, <2>1, <3>2 DEF IInv, Shape, AdapterInv
    <3>4. ContextInv'
      BY <1>1, <1>2, <2>1, <3>2 DEF IInv, ContextInv, Busy, Broken, Ending, Calling
    <3>5. NotesInv'
      BY <2>1, <2>3, <3>2, Lists DEF NotesInv, Has, Broken
    <3> QED BY <3>3, <3>4, <3>5 DEF IInv
  <2> QED BY <1>1, <2>2, <2>3, <1>3 DEF redisAsyncHandleTimeout
<1> QED BY <1>3, <1>4 DEF redisAsyncHandleTimeout

LEMMA LateCallbacksKeep == ASSUME IInv, RunLateCallbacks PROVE IInv'
<1>1. pc = "late" /\ Where = "late" /\ UNCHANGED <<options, tick, notes>>
  BY DEF RunLateCallbacks, Where
<1>2. ac.alive /\ ac.err # "none"
  BY <1>1 DEF IInv, ContextInv, Broken
<1>3. CASE /\ ac' = [ac EXCEPT !.replies = Tail(@)] /\ UNCHANGED e
           /\ Run(Head(ac.replies), NoReply, "late")
  <2>1. Where' = "late" /\ pc' # "new"
    BY <1>3, RunGoesTo DEF Calling, Broken, Run
  <2>2. Same(ac')
    BY <1>3 DEF Same, IInv, Shape
  <2>3. Onward
    BY <1>1, <2>1 DEF Onward
  <2> QED BY <1>1, <1>3, <2>1, <2>2, <2>3, SameKeeps DEF EventOnly, Calling, Broken
<1>4. CASE Disconnect(ac)
  BY <1>1, <1>2, <1>4, DisconnectKeeps DEF Broken
<1> QED BY <1>3, <1>4 DEF RunLateCallbacks

-----------------------------------------------------------------------------
(* The program.                                                            *)

LEMMA MineWhere ==
  ASSUME IInv, Mine
  PROVE  /\ pc \in {"idle", "callback"} /\ ac.alive
         /\ pc = "idle" => Where = "idle"
         /\ pc = "callback" => Where \in Calling
BY DEF Mine, IInv, ContextInv, Where

LEMMA AsyncFreeKeeps == ASSUME IInv, redisAsyncFree PROVE IInv'
<1>1. /\ Mine /\ UNCHANGED <<options, e, back, tick, notes>>
      /\ pc' = IF pc = "callback" THEN pc ELSE "freeing"
  BY DEF redisAsyncFree, history
<1>2. /\ DOMAIN ac' = DOMAIN ac /\ ac'.alive = ac.alive /\ ac'.cleanup = ac.cleanup
      /\ ac'.err = ac.err /\ ac'.flags = ac.flags \cup {"FREEING"}
  BY DEF redisAsyncFree, Raise, IInv, Shape
<1>3. FlagsKept /\ Ended(ac'.flags)
  BY <1>2 DEF FlagsKept, Ended, IInv, ContextInv
<1>4. CASE pc = "callback"
  <2>1. Where' = Where /\ pc' = "callback"
    BY <1>1, <1>4 DEF Where
  <2> QED BY <1>1, <1>2, <1>3, <1>4, <2>1, MineWhere, Quiet DEF IInv, Shape, Onward
<1>5. CASE pc = "idle"
  <2>1. Where' = "freeing" /\ pc' = "freeing"
    BY <1>1, <1>5 DEF Where
  <2> QED BY <1>1, <1>2, <1>3, <1>5, <2>1, MineWhere, Quiet DEF IInv, Shape, Onward
<1> QED BY <1>1, <1>4, <1>5, MineWhere

LEMMA AsyncDisconnectKeeps == ASSUME IInv, redisAsyncDisconnect PROVE IInv'
<1>1. Mine /\ UNCHANGED <<options, back, tick, notes>>
  BY DEF redisAsyncDisconnect, history
<1>2. CASE pc = "idle" /\ Disconnect(CleanDisconnect)
  BY <1>1, <1>2, MineWhere, DisconnectKeeps, CleanDisconnectFlags DEF IInv, Ended
<1>3. CASE ac' = CleanDisconnect /\ UNCHANGED <<e, pc>>
  <2>1. Where' = Where
    BY <1>1, <1>3 DEF Where
  <2> QED BY <1>1, <1>3, <2>1, MineWhere, CleanDisconnectFlags, Quiet
     DEF IInv, Shape, FlagsKept, Ended, Onward
<1> QED BY <1>2, <1>3 DEF redisAsyncDisconnect

(* A command registers callbacks, and raises only flags of its own.        *)
LEMMA RegisteredSame ==
  ASSUME Shape, NEW op \in options.ops, NEW id
  PROVE  Same(Registered(op, id))
<1>1. op.kind \in {"subscribe", "unsubscribe", "monitor", "regular"}
  BY AsyncAssumption DEF Shape
<1>2. CASE op.kind = "subscribe"
  BY <1>2 DEF Registered, Same, Shape
<1>3. CASE op.kind = "unsubscribe"
  BY <1>3 DEF Registered, Same, Shape
<1>4. CASE op.kind = "monitor"
  BY <1>4 DEF Registered, Same, Shape
<1>5. CASE op.kind = "regular"
  BY <1>5 DEF Registered, Same, Shape
<1> QED BY <1>1, <1>2, <1>3, <1>4, <1>5

LEMMA CommandKeeps ==
  ASSUME IInv, NEW op \in options.ops, redisAsyncCommand(op)
  PROVE  IInv'
<1>1. /\ Mine /\ UNCHANGED <<options, pc, back, tick, notes>> /\ e' = AddWrite(e)
      /\ ac.flags \cap {"DISCONNECTING", "FREEING"} = {}
  BY DEF redisAsyncCommand
<1>2. Same(ac')
  <2> DEFINE r == Registered(op, Len(asked) + 1)
  <2>1. Same(r)
    BY RegisteredSame DEF IInv
  <2>2. \E x : ac' = [r EXCEPT !.obuf = x]
    BY DEF redisAsyncCommand
  <2> HIDE DEF r
  <2> QED BY <2>1, <2>2 DEF Same, IInv, Shape
<1>3. EventOnly(e')
  <2>1. pc # "new"
    BY <1>1, MineWhere
  <2>2. e.state # "freed"
    BY <1>1, <2>1 DEF IInv, AdapterInv, Ended
  <2> QED BY <1>1, <2>2, Events DEF IInv
<1>4. Where' = Where
  BY <1>1 DEF Where
<1> QED BY <1>1, <1>2, <1>3, <1>4, MineWhere, SameKeeps DEF Onward

-----------------------------------------------------------------------------
(* All steps.                                                              *)

LEMMA WorldKeeps == ASSUME IInv, World PROVE IInv'
<1>1. UNCHANGED <<options, ac, pc, back, tick, notes>> /\ (UNCHANGED e \/ TimePasses)
  BY DEF World, ServerServes, ServerPublishes, ServerPushes, ServerShowsCommand, Says,
     ConnectionEnds, ServerCloses, TimePasses, local, history
<1>2. CASE UNCHANGED e
  BY <1>1, <1>2, SamePlace
<1>3. CASE TimePasses
  <2>1. /\ DOMAIN e' = DOMAIN e /\ e'.state = e.state /\ e'.in_tick = e.in_tick
        /\ e'.deleted = e.deleted
    BY <1>3 DEF TimePasses, IInv, Shape
  <2> QED BY <1>1, <2>1 DEF IInv, Shape, AdapterInv, ContextInv, NotesInv, Where
<1> QED BY <1>1, <1>2, <1>3

LEMMA NextInv == ASSUME IInv, Careful, [Next]_vars PROVE IInv'
<1>1. CASE Library
  BY <1>1, AttachKeeps, SetCallbackKeeps, ReturnKeeps, PendingKeeps, DisconnectCallbackKeeps,
     FreeKeeps, NoMoreRepliesKeeps, PushCallbackKeeps, ReplyCallbackKeeps, SpontaneousErrorKeeps,
     SubscribedCallbackKeeps, ProcessedKeeps, NextHandlerKeeps, HandleConnectKeeps,
     ConnectFailedKeeps, ConnectDoneKeeps, ReadKeeps, WriteKeeps, TimeoutKeeps, LateCallbacksKeep
     DEF Library
<1>2. CASE redisPollTick
  BY <1>2, TickKeeps
<1>3. CASE Program
  BY <1>3, AsyncFreeKeeps, AsyncDisconnectKeeps, CommandKeeps DEF Program
<1>4. CASE World
  BY <1>4, WorldKeeps
<1>5. CASE UNCHANGED vars
  BY <1>5, SamePlace DEF vars, history
<1> QED BY <1>1, <1>2, <1>3, <1>4, <1>5 DEF Next, Done

LEMMA OptionsKept == ASSUME [Next]_vars PROVE UNCHANGED options
BY DEF Next, Library, redisPollTick, Program, World, Done, vars, redisPollAttach,
   redisAsyncSetConnectCallback, CallbackReturns, RunPending, RunDisconnectCallback, redisFree,
   NoMoreReplies, RunPushCallback, RunReplyCallback, SpontaneousError, RunSubscribedCallback,
   Processed, NextHandler, HandleConnect, ConnectFailed, ConnectDone, redisAsyncRead,
   redisAsyncWrite, redisAsyncHandleTimeout, RunLateCallbacks, redisAsyncFree,
   redisAsyncDisconnect, redisAsyncCommand, ServerServes, ServerPublishes, ServerPushes,
   ServerShowsCommand, Says, ConnectionEnds, ServerCloses, TimePasses, local, handling, processing

LEMMA Invariant == Spec => [](Careful => IInv)
<1>1. Init => (Careful => IInv)
  BY InitInv
<1>2. (Careful => IInv) /\ [Next]_vars => (Careful => IInv)'
  BY NextInv, OptionsKept DEF Careful
<1> QED BY <1>1, <1>2, PTL DEF Spec

(* Whatever the program does in its callbacks and outside of them, and     *)
(* however the connection ends, the library touches the context only       *)
(* before redisFree(), and the poll adapter its events only before their   *)
(* cleanup's free(): __redisAsyncFree() waits for REDIS_IN_CALLBACK to be  *)
(* over, redisPollCleanup() for in_tick.  It takes a program that does not *)
(* tick a context with an error: nothing clears ac->ev.data.               *)
THEOREM LibraryUsesNothingFreed == Spec => [](Careful => NothingFreedIsUsed)
<1>1. IInv => NothingFreedIsUsed
  <2> SUFFICES ASSUME IInv PROVE NothingFreedIsUsed
    OBVIOUS
  <2>1. e.state # "used" /\ (tick.stage # "none" => e.state # "freed")
    BY DEF IInv, AdapterInv
  <2>2. pc \notin {"idle", "next"} => ac.alive
    BY DEF IInv, ContextInv, Where, Calling, Broken, Ending
  <2> QED BY <2>1, <2>2 DEF NothingFreedIsUsed
<1> QED BY <1>1, Invariant, PTL

(* The program hears of its connection, or that there is none, once; of    *)
(* the end only of a connection that was made, once, and before the        *)
(* context goes: __redisRunConnectCallback() and                           *)
(* __redisRunDisconnectCallback() with REDIS_CONNECTED between them.       *)
THEOREM ConnectionNotified == Spec => [](Careful => Notified)
<1>1. IInv => Notified
  BY DEF IInv, NotesInv, Notified
<1> QED BY <1>1, Invariant, PTL

-----------------------------------------------------------------------------
(* A careful program that gives regular commands only: what it waits for,  *)
(* and what is on its way to it.                                           *)
PlainProgram == Careful /\ \A op \in options.ops : op.kind = "regular"

(* What comes down the connection is replies, pushes and the one error of  *)
(* a server that has too many clients; what goes up is regular commands.   *)
Answers ==
  [kind : {"reply"}, id : Nat, v : {"none"}, push : {FALSE}, big : BOOLEAN]
  \cup {[kind |-> "push", v |-> "none", push |-> TRUE],
        [kind |-> "error", id |-> 0, v |-> "none", push |-> FALSE]}
Requests ==
  {[kind |-> "regular", id |-> n, v |-> op.v, names |-> op.names] : n \in Nat, op \in options.ops}

(* The commands that a part of the connection holds, or holds replies to.  *)
Expects(x) == x.kind \in {"reply", "regular"}
Ids(s) == {s[i].id : i \in {j \in DOMAIN s : Expects(s[j])}}
Rising(s) ==
  \A i, j \in DOMAIN s : i < j /\ Expects(s[i]) /\ Expects(s[j]) => s[i].id < s[j].id
Ahead(A, B) == \A x \in A, y \in B : x < y

(* Those whose replies can still be read: what was not sent when the       *)
(* connection broke never is.                                              *)
Live    == net.peer \in {"pending", "open"}
ToServe == IF Live THEN Ids(net.up) ELSE {}
ToWrite == IF Live THEN Ids(ac.obuf) ELSE {}
Coming  == Ids(ac.inbuf) \cup Ids(net.down) \cup ToServe \cup ToWrite

Waiting == {ac.replies[i] : i \in DOMAIN ac.replies}

(* The library may still take replies off the reader.                      *)
Flowing == ac.alive /\ (ac.cleanup \/ pc = "new") /\ Where \notin Broken \cup Ending

PlainType ==
  /\ asked \in Seq(options.ops)
  /\ told \in Seq({"nothing", "reply", "NULL"}) /\ Len(told) = Len(asked)
  /\ ac.replies \in Seq(Nat) /\ Waiting \subseteq 1 .. Len(asked)
  /\ ac.subReplies = <<>> /\ \A v \in Variants : ac.subs[v] = dictInit
  /\ "SUBSCRIBED" \notin ac.flags /\ "MONITORING" \notin ac.flags
  /\ \A v \in Variants : srv.subs[v] = {}
  /\ ~srv.monitor
  /\ DOMAIN net = {"peer", "up", "down"} /\ DOMAIN srv = {"subs", "monitor", "extras"}
  /\ tick.visited = 0
  /\ ac.inbuf \in Seq(Answers) /\ net.down \in Seq(Answers)
  /\ net.up \in Seq(Requests) /\ ac.obuf \in Seq(Requests)

(* A command waits until its callback is told, and is then told once.      *)
WaitInv ==
  /\ \A i, j \in DOMAIN ac.replies : i < j => ac.replies[i] < ac.replies[j]
  /\ \A id \in DOMAIN told : told[id] = "nothing" <=> id \in Waiting
  /\ \A id \in heard : id \in DOMAIN told /\ told[id] # "nothing"

CallInv ==
  /\ Where = "release" \/ ~ac.alive => ac.replies = <<>>
  /\ pc = "callback" /\ now.reply.kind = "reply" => now.id = now.reply.id
  /\ Where # "assertion"

ErrInv == ac.cleanup \/ pc = "new" => ac.err = "none" \/ Where \in Broken

(* A connection that is not made yet carries nothing, and nothing is       *)
(* handled.                                                                *)
PendingInv ==
  net.peer = "pending" =>
    /\ ac.inbuf = <<>> /\ net.down = <<>> /\ net.up = <<>>
    /\ Where \notin Busy \ {"timeout"} /\ ~tick.out

(* The error comes instead of all replies.                                 *)
HasError(s) == \E i \in DOMAIN s : s[i].kind = "error"
ErrorInv == HasError(ac.inbuf) \/ HasError(net.down) => ~Live /\ Coming = {}

(* The replies come in the order of the callbacks, and of the callbacks    *)
(* that wait none is passed over by a reply to a later command.            *)
InLine(A, B, C, D, W) ==
  /\ Ahead(A, B \cup C \cup D) /\ Ahead(B, C \cup D) /\ Ahead(C, D)
  /\ A \cup B \cup C \cup D \subseteq W
  /\ \A r \in W, q \in A \cup B \cup C \cup D : r < q => r \in A \cup B \cup C \cup D
QueueInv ==
  /\ Rising(ac.inbuf) /\ Rising(net.down) /\ Rising(net.up) /\ (Live => Rising(ac.obuf))
  /\ InLine(Ids(ac.inbuf), Ids(net.down), ToServe, ToWrite, Waiting)
  /\ Live => Waiting \subseteq Coming

LineInv == Flowing => PendingInv /\ ErrorInv /\ QueueInv

PlainInv == PlainType /\ WaitInv /\ CallInv /\ ErrInv /\ LineInv

-----------------------------------------------------------------------------
(* The parts of a queue.                                                   *)

LEMMA IdsAppended ==
  ASSUME NEW S, NEW s \in Seq(S), NEW x \in S
  PROVE  /\ Ids(Append(s, x)) = IF Expects(x) THEN Ids(s) \cup {x.id} ELSE Ids(s)
         /\ Rising(s) /\ (Expects(x) => Ahead(Ids(s), {x.id})) => Rising(Append(s, x))
         /\ HasError(Append(s, x)) => HasError(s) \/ x.kind = "error"
<1> DEFINE t == Append(s, x)
<1>1. /\ DOMAIN t = 1 .. Len(s) + 1 /\ DOMAIN s = 1 .. Len(s) /\ Len(s) \in Nat
      /\ \A i \in 1 .. Len(s) : t[i] = s[i]
      /\ t[Len(s) + 1] = x
  OBVIOUS
<1> HIDE DEF t
<1>2. \A i \in DOMAIN t : i \in DOMAIN s \/ i = Len(s) + 1
  BY <1>1
<1>3. Ids(t) = IF Expects(x) THEN Ids(s) \cup {x.id} ELSE Ids(s)
  <2>1. ASSUME NEW y \in Ids(t) PROVE y \in IF Expects(x) THEN Ids(s) \cup {x.id} ELSE Ids(s)
    BY <1>1, <1>2 DEF Ids
  <2>2. ASSUME NEW y \in Ids(s) PROVE y \in Ids(t)
    BY <1>1 DEF Ids
  <2>3. Expects(x) => x.id \in Ids(t)
    BY <1>1 DEF Ids
  <2> QED BY <2>1, <2>2, <2>3
<1>4. Rising(s) /\ (Expects(x) => Ahead(Ids(s), {x.id})) => Rising(t)
  <2> SUFFICES ASSUME Rising(s), Expects(x) => Ahead(Ids(s), {x.id}),
                      NEW i \in DOMAIN t, NEW j \in DOMAIN t, i < j, Expects(t[i]), Expects(t[j])
               PROVE  t[i].id < t[j].id
    BY DEF Rising
  <2>1. i \in DOMAIN s /\ t[i] = s[i] /\ s[i].id \in Ids(s)
    BY <1>1, <1>2 DEF Ids
  <2>2. CASE j \in DOMAIN s
    BY <1>1, <2>1, <2>2 DEF Rising
  <2>3. CASE j = Len(s) + 1
    BY <1>1, <2>1, <2>3 DEF Ahead
  <2> QED BY <1>2, <2>2, <2>3
<1>5. HasError(t) => HasError(s) \/ x.kind = "error"
  BY <1>1, <1>2 DEF HasError
<1> QED BY <1>3, <1>4, <1>5 DEF t

LEMMA IdsTaken ==
  ASSUME NEW S, NEW s \in Seq(S), s # <<>>
  PROVE  /\ Ids(s) = Ids(Tail(s)) \cup (IF Expects(Head(s)) THEN {Head(s).id} ELSE {})
         /\ Rising(s) => /\ Rising(Tail(s))
                         /\ Expects(Head(s)) => Ahead({Head(s).id}, Ids(Tail(s)))
         /\ HasError(Tail(s)) => HasError(s)
         /\ Head(s).kind = "error" => HasError(s)
<1> DEFINE t == Tail(s)
<1>1. /\ DOMAIN s = 1 .. Len(s) /\ Len(s) \in Nat /\ Len(s) > 0 /\ DOMAIN t = 1 .. Len(s) - 1
      /\ \A i \in DOMAIN t : t[i] = s[i + 1] /\ i + 1 \in DOMAIN s
      /\ Head(s) = s[1] /\ 1 \in DOMAIN s
  OBVIOUS
<1> HIDE DEF t
<1>2. \A i \in DOMAIN s : i = 1 \/ (i - 1 \in DOMAIN t /\ t[i - 1] = s[i])
  BY <1>1
<1>3. Ids(s) = Ids(t) \cup (IF Expects(Head(s)) THEN {Head(s).id} ELSE {})
  <2>1. ASSUME NEW y \in Ids(s) PROVE y \in Ids(t) \cup (IF Expects(Head(s)) THEN {Head(s).id} ELSE {})
    <3>1. PICK i \in DOMAIN s : Expects(s[i]) /\ y = s[i].id
      BY DEF Ids
    <3>2. CASE i = 1
      BY <1>1, <3>1, <3>2
    <3>3. CASE i - 1 \in DOMAIN t /\ t[i - 1] = s[i]
      BY <3>1, <3>3 DEF Ids
    <3> QED BY <1>2, <3>2, <3>3
  <2>2. ASSUME NEW y \in Ids(t) PROVE y \in Ids(s)
    BY <1>1 DEF Ids
  <2>3. Expects(Head(s)) => Head(s).id \in Ids(s)
    BY <1>1 DEF Ids
  <2> QED BY <2>1, <2>2, <2>3
<1>4. Rising(s) => Rising(t)
  <2> SUFFICES ASSUME Rising(s), NEW i \in DOMAIN t, NEW j \in DOMAIN t, i < j,
                      Expects(t[i]), Expects(t[j])
               PROVE  t[i].id < t[j].id
    BY DEF Rising
  <2>1. i + 1 < j + 1 /\ t[i] = s[i + 1] /\ t[j] = s[j + 1] /\ i + 1 \in DOMAIN s /\ j + 1 \in DOMAIN s
    BY <1>1
  <2> QED BY <2>1 DEF Rising
<1>5. Rising(s) /\ Expects(Head(s)) => Ahead({Head(s).id}, Ids(t))
  <2> SUFFICES ASSUME Rising(s), Expects(Head(s)), NEW y \in Ids(t) PROVE Head(s).id < y
    BY DEF Ahead
  <2>1. PICK i \in DOMAIN t : Expects(t[i]) /\ y = t[i].id
    BY DEF Ids
  <2>2. 1 < i + 1 /\ i + 1 \in DOMAIN s /\ t[i] = s[i + 1]
    BY <1>1
  <2> QED BY <1>1, <2>1, <2>2 DEF Rising
<1>6. (HasError(t) => HasError(s)) /\ (Head(s).kind = "error" => HasError(s))
  BY <1>1 DEF HasError
<1> QED BY <1>3, <1>4, <1>5, <1>6 DEF t

LEMMA IdsJoined ==
  ASSUME NEW S, NEW s \in Seq(S), NEW t \in Seq(S)
  PROVE  /\ Ids(s \o t) = Ids(s) \cup Ids(t)
         /\ Rising(s \o t) <=> Rising(s) /\ Rising(t) /\ Ahead(Ids(s), Ids(t))
         /\ HasError(s \o t) <=> HasError(s) \/ HasError(t)
<1> DEFINE u == s \o t
<1>1. /\ DOMAIN s = 1 .. Len(s) /\ DOMAIN t = 1 .. Len(t) /\ Len(s) \in Nat /\ Len(t) \in Nat
      /\ DOMAIN u = 1 .. Len(s) + Len(t)
      /\ \A i \in DOMAIN s : i \in DOMAIN u /\ u[i] = s[i]
      /\ \A i \in DOMAIN t : Len(s) + i \in DOMAIN u /\ u[Len(s) + i] = t[i]
  OBVIOUS
<1> HIDE DEF u
<1>2. \A i \in DOMAIN u : \/ i \in DOMAIN s
                          \/ i > Len(s) /\ i - Len(s) \in DOMAIN t /\ u[i] = t[i - Len(s)]
  <2> SUFFICES ASSUME NEW i \in DOMAIN u, i \notin DOMAIN s
               PROVE  i > Len(s) /\ i - Len(s) \in DOMAIN t /\ u[i] = t[i - Len(s)]
    OBVIOUS
  <2>1. i > Len(s) /\ i - Len(s) \in DOMAIN t /\ Len(s) + (i - Len(s)) = i
    BY <1>1
  <2> QED BY <1>1, <2>1
<1>3. Ids(u) = Ids(s) \cup Ids(t)
  <2>1. ASSUME NEW y \in Ids(u) PROVE y \in Ids(s) \cup Ids(t)
    <3>1. PICK i \in DOMAIN u : Expects(u[i]) /\ y = u[i].id
      BY DEF Ids
    <3> QED BY <1>1, <1>2, <3>1 DEF Ids
  <2>2. ASSUME NEW y \in Ids(s) \cup Ids(t) PROVE y \in Ids(u)
    BY <1>1 DEF Ids
  <2> QED BY <2>1, <2>2
<1>4. ASSUME Rising(u) PROVE Rising(s) /\ Rising(t) /\ Ahead(Ids(s), Ids(t))
  <2>1. Rising(s)
    BY <1>1, <1>4 DEF Rising
  <2>2. Rising(t)
    <3> SUFFICES ASSUME NEW i \in DOMAIN t, NEW j \in DOMAIN t, i < j, Expects(t[i]), Expects(t[j])
                 PROVE  t[i].id < t[j].id
      BY DEF Rising
    <3>1. Len(s) + i < Len(s) + j
      BY <1>1
    <3> QED BY <1>1, <1>4, <3>1 DEF Rising
  <2>3. ASSUME NEW x \in Ids(s), NEW y \in Ids(t) PROVE x < y
    <3>1. PICK i \in DOMAIN s : Expects(s[i]) /\ x = s[i].id
      BY DEF Ids
    <3>2. PICK j \in DOMAIN t : Expects(t[j]) /\ y = t[j].id
      BY DEF Ids
    <3>3. i < Len(s) + j
      BY <1>1
    <3> QED BY <1>1, <1>4, <3>1, <3>2, <3>3 DEF Rising
  <2> QED BY <2>1, <2>2, <2>3 DEF Ahead
<1>5. ASSUME Rising(s), Rising(t), Ahead(Ids(s), Ids(t)) PROVE Rising(u)
  <2> SUFFICES ASSUME NEW i \in DOMAIN u, NEW j \in DOMAIN u, i < j, Expects(u[i]), Expects(u[j])
               PROVE  u[i].id < u[j].id
    BY DEF Rising
  <2>1. CASE i \in DOMAIN s /\ j \in DOMAIN s
    BY <1>1, <1>5, <2>1 DEF Rising
  <2>2. CASE i \in DOMAIN s /\ j \notin DOMAIN s
    <3>1. u[i].id \in Ids(s) /\ u[j].id \in Ids(t)
      BY <1>1, <1>2, <2>2 DEF Ids
    <3> QED BY <1>5, <3>1 DEF Ahead
  <2>3. CASE i \notin DOMAIN s
    <3>1. j \notin DOMAIN s /\ i - Len(s) < j - Len(s)
      BY <1>1, <2>3
    <3> QED BY <1>2, <1>5, <2>3, <3>1 DEF Rising
  <2> QED BY <2>1, <2>2, <2>3
<1>6. HasError(u) <=> HasError(s) \/ HasError(t)
  BY <1>1, <1>2 DEF HasError
<1> QED BY <1>3, <1>4, <1>5, <1>6 DEF u

(* A queue in two parts.                                                   *)
LEMMA Parts ==
  ASSUME NEW S, NEW s \in Seq(S), NEW n \in 0 .. Len(s)
  PROVE  /\ SubSeq(s, 1, n) \in Seq(S) /\ SubSeq(s, n + 1, Len(s)) \in Seq(S)
         /\ s = SubSeq(s, 1, n) \o SubSeq(s, n + 1, Len(s))
<1> DEFINE a == SubSeq(s, 1, n)
           b == SubSeq(s, n + 1, Len(s))
<1>1. /\ a \in Seq(S) /\ Len(a) = n /\ \A i \in 1 .. n : a[i] = s[i]
      /\ b \in Seq(S) /\ Len(b) = Len(s) - n
      /\ \A i \in 1 .. Len(s) - n : b[i] = s[n + i]
  OBVIOUS
<1> HIDE DEF a, b
<1>2. /\ a \o b \in Seq(S) /\ Len(a \o b) = Len(s)
      /\ \A i \in 1 .. Len(s) : (a \o b)[i] = IF i <= n THEN a[i] ELSE b[i - n]
  BY <1>1
<1>3. \A i \in 1 .. Len(s) : (a \o b)[i] = s[i]
  <2> SUFFICES ASSUME NEW i \in 1 .. Len(s) PROVE (a \o b)[i] = s[i]
    OBVIOUS
  <2>1. CASE i <= n
    BY <1>1, <1>2, <2>1
  <2>2. CASE i > n
    <3>1. i - n \in 1 .. Len(s) - n /\ n + (i - n) = i
      BY <2>2
    <3> QED BY <1>1, <1>2, <2>2, <3>1
  <2>3. i <= n \/ i > n
    <3>1. i \in Nat /\ n \in Nat
      OBVIOUS
    <3> QED BY <3>1
  <2> QED BY <2>1, <2>2, <2>3
<1>4. s = a \o b
  BY <1>2, <1>3, SeqEqual
<1> QED BY <1>1, <1>4 DEF a, b

LEMMA Primed ==
  /\ Ids(ac.inbuf)' = Ids(ac'.inbuf) /\ Ids(ac.obuf)' = Ids(ac'.obuf)
  /\ Ids(net.down)' = Ids(net'.down) /\ Ids(net.up)' = Ids(net'.up)
  /\ Rising(ac.inbuf)' <=> Rising(ac'.inbuf)
  /\ Rising(ac.obuf)' <=> Rising(ac'.obuf)
  /\ Rising(net.down)' <=> Rising(net'.down)
  /\ Rising(net.up)' <=> Rising(net'.up)
  /\ HasError(ac.inbuf)' <=> HasError(ac'.inbuf)
  /\ HasError(net.down)' <=> HasError(net'.down)
BY DEF Ids, Rising, HasError

-----------------------------------------------------------------------------
(* Steps that leave the queues alone.                                      *)
DataKept ==
  /\ UNCHANGED <<options, asked, told, heard, net, srv>> /\ tick'.visited = tick.visited
  /\ ac'.replies = ac.replies /\ ac'.subReplies = ac.subReplies /\ ac'.subs = ac.subs
  /\ ac'.inbuf = ac.inbuf /\ ac'.obuf = ac.obuf
  /\ "SUBSCRIBED" \notin ac'.flags /\ "MONITORING" \notin ac'.flags

LEMMA SameData ==
  ASSUME PlainInv, DataKept
  PROVE  /\ PlainType' /\ WaitInv' /\ (ErrorInv => ErrorInv') /\ (QueueInv => QueueInv')
         /\ ac'.replies = ac.replies /\ net' = net
<1>1. /\ Waiting' = Waiting /\ Requests' = Requests /\ Live' = Live
      /\ ToServe' = ToServe /\ ToWrite' = ToWrite /\ Coming' = Coming
  BY DEF DataKept, Waiting, Requests, Live, ToServe, ToWrite, Coming, Ids
<1>2. PlainType'
  BY <1>1 DEF PlainInv, PlainType, DataKept
<1>3. WaitInv'
  BY <1>1 DEF PlainInv, WaitInv, DataKept
<1>4. (ErrorInv => ErrorInv') /\ (QueueInv => QueueInv')
  <2>1. /\ Ids(ac.inbuf)' = Ids(ac.inbuf) /\ Ids(net.down)' = Ids(net.down)
        /\ Rising(ac.inbuf)' <=> Rising(ac.inbuf)
        /\ Rising(net.down)' <=> Rising(net.down)
        /\ Rising(net.up)' <=> Rising(net.up)
        /\ Rising(ac.obuf)' <=> Rising(ac.obuf)
        /\ HasError(ac.inbuf)' <=> HasError(ac.inbuf)
        /\ HasError(net.down)' <=> HasError(net.down)
    BY Primed DEF DataKept
  <2>2. ErrorInv => ErrorInv'
    BY <1>1, <2>1 DEF ErrorInv
  <2>3. QueueInv => QueueInv'
    BY <1>1, <2>1 DEF QueueInv, InLine, Ahead
  <2> QED BY <2>2, <2>3
<1> QED BY <1>2, <1>3, <1>4 DEF DataKept

LEMMA PlainQuiet ==
  ASSUME PlainInv, DataKept,
         ac'.alive \/ ac.replies = <<>>,
         Where' = "release" => ac.replies = <<>>,
         pc' = "callback" => now'.reply.kind # "reply" \/ (pc = "callback" /\ now' = now),
         Where' # "assertion",
         ac'.cleanup \/ pc' = "new" => ac'.err = "none" \/ Where' \in Broken,
         Flowing' => Flowing,
         Flowing' /\ net.peer = "pending" =>
           Where' \notin Busy \ {"timeout"} /\ (tick'.out => tick.out)
  PROVE  PlainInv'
<1>1. PlainType' /\ WaitInv'
  BY SameData
<1>2. CallInv'
  BY SameData DEF CallInv, PlainInv
<1>3. ErrInv'
  BY DEF ErrInv
<1>4. LineInv'
  <2> SUFFICES ASSUME Flowing' PROVE PendingInv' /\ ErrorInv' /\ QueueInv'
    BY DEF LineInv
  <2>1. PendingInv /\ ErrorInv /\ QueueInv
    BY DEF PlainInv, LineInv
  <2>2. PendingInv'
    BY <2>1 DEF PendingInv, DataKept
  <2> QED BY <2>1, <2>2, SameData
<1> QED BY <1>1, <1>2, <1>3, <1>4 DEF PlainInv

LEMMA PlainSame ==
  ASSUME PlainInv, UNCHANGED <<options, ac, pc, back, now, tick, net, srv, asked, told, heard>>
  PROVE  PlainInv'
<1>1. DataKept
  BY DEF DataKept, PlainInv, PlainType
<1>2. Where' = Where
  BY DEF Where
<1>3. Flowing' = Flowing
  BY <1>2 DEF Flowing
<1> QED BY <1>1, <1>2, <1>3, PlainQuiet DEF PlainInv, CallInv, ErrInv, LineInv, PendingInv

(* __redisAsyncDisconnect() ends the flow.                                 *)
LEMMA DisconnectPlain ==
  ASSUME IInv, IInv', PlainInv, NEW a, Disconnect(a), DOMAIN a = DOMAIN ac,
         a.alive, pc # "callback",
         a.err # "none" \/ a.replies = <<>>,
         a.replies = ac.replies, a.subReplies = ac.subReplies, a.subs = ac.subs,
         a.inbuf \in Seq(Answers), a.obuf = ac.obuf,
         "SUBSCRIBED" \notin a.flags, "MONITORING" \notin a.flags,
         UNCHANGED <<options, asked, told, heard, net, srv>>, tick' = tick
  PROVE  PlainInv'
<1>1. /\ ac'.alive /\ ~ac'.cleanup /\ ac'.replies = ac.replies /\ ac'.subReplies = ac.subReplies
      /\ ac'.subs = ac.subs /\ ac'.inbuf = a.inbuf /\ ac'.obuf = ac.obuf
      /\ ac'.flags = Stopped(a)
  BY DEF Disconnect, IInv, Shape
<1>2. pc' \in {"next", "freeing"}
  BY DEF Disconnect
<1>3. Where' = pc'
  BY <1>2 DEF Where
<1>4. Waiting' = Waiting /\ Requests' = Requests
  BY <1>1 DEF Waiting, Requests
<1>5. PlainType'
  BY <1>1, <1>4 DEF PlainInv, PlainType, Stopped
<1>6. WaitInv'
  BY <1>1, <1>4 DEF PlainInv, WaitInv
<1>7. CallInv' /\ ErrInv' /\ LineInv'
  BY <1>1, <1>2, <1>3 DEF CallInv, ErrInv, LineInv, Flowing
<1> QED BY <1>5, <1>6, <1>7 DEF PlainInv

LEMMA PlainPlaces ==
  ASSUME IInv, PlainInv
  PROVE  /\ "SUBSCRIBED" \notin ac.flags /\ "MONITORING" \notin ac.flags
         /\ Where # "assertion"
         /\ Where \in Busy => ac.alive /\ ac.cleanup /\ ac.err = "none" /\ Flowing
BY DEF PlainInv, PlainType, CallInv, ErrInv, IInv, ContextInv, Flowing, Busy, Broken, Ending

(* Replies are processed on a connection that was made.                    *)
LEMMA PendingProcess ==
  ASSUME IInv, PlainInv, Where \in Busy \ {"timeout"}
  PROVE  net.peer # "pending"
BY PlainPlaces DEF PlainInv, LineInv, PendingInv

LEMMA AttachPlain == ASSUME IInv, IInv', PlainInv, redisPollAttach PROVE PlainInv'
<1>1. /\ pc = "new" /\ pc' = "attached" /\ Where = "new" /\ Where' = "attached"
      /\ UNCHANGED <<options, tick, now, net, srv, asked, told, heard>>
  BY DEF redisPollAttach, Where, history, world
<1>2. DataKept /\ ac'.err = ac.err /\ ac'.alive = ac.alive
  BY <1>1, PlainPlaces DEF redisPollAttach, DataKept, IInv, Shape
<1>3. ac.alive
  BY <1>1 DEF IInv, ContextInv
<1>4. ac'.err = "none"
  BY <1>1, <1>2 DEF PlainInv, ErrInv, Broken
<1> QED BY <1>1, <1>2, <1>3, <1>4, PlainQuiet DEF Flowing, Busy, Broken, Ending

LEMMA SetCallbackPlain ==
  ASSUME IInv, IInv', PlainInv, redisAsyncSetConnectCallback PROVE PlainInv'
<1>1. /\ pc = "attached" /\ pc' = "idle" /\ Where = "attached" /\ Where' = "idle"
      /\ UNCHANGED <<options, ac, tick, now, net, srv, asked, told, heard>>
  BY DEF redisAsyncSetConnectCallback, Where, history, world
<1>2. DataKept
  BY <1>1, PlainPlaces DEF DataKept
<1>3. ac.alive /\ ac.cleanup /\ ac.err = "none"
  BY <1>1 DEF IInv, ContextInv, PlainInv, ErrInv, Broken
<1> QED BY <1>1, <1>2, <1>3, PlainQuiet DEF Flowing, Busy, Broken, Ending

LEMMA ReturnPlain == ASSUME IInv, IInv', PlainInv, CallbackReturns PROVE PlainInv'
<1>1. /\ pc = "callback" /\ pc' = back /\ Where = back
      /\ UNCHANGED <<options, ac, tick, back, net, srv, asked, told, heard>>
  BY DEF CallbackReturns, Where, history, world
<1>2. back \in Calling
  BY <1>1 DEF IInv, ContextInv
<1>3. Where' = Where /\ pc' # "new" /\ pc' # "callback"
  BY <1>1, <1>2 DEF Where, Calling, Broken, Ending
<1>4. DataKept
  BY <1>1, PlainPlaces DEF DataKept
<1>5. Flowing' => Flowing
  BY <1>1, <1>3 DEF Flowing
<1> QED BY <1>1, <1>3, <1>4, <1>5, PlainQuiet, PlainPlaces
     DEF PlainInv, CallInv, ErrInv, LineInv, PendingInv

LEMMA NoMoreRepliesPlain == ASSUME IInv, IInv', PlainInv, NoMoreReplies PROVE PlainInv'
<1>1. /\ pc = "process" /\ Where = "process"
      /\ UNCHANGED <<options, tick, back, now, net, srv, asked, told, heard>>
  BY DEF NoMoreReplies, processing, world, Where
<1>2. CASE Disconnect(ac) /\ AllAnswered
  BY <1>1, <1>2, DisconnectPlain, PlainPlaces DEF AllAnswered, PlainInv, PlainType, Busy
<1>3. CASE pc' = "next" /\ UNCHANGED <<ac, e>>
  <2>1. Where' = "next"
    BY <1>3 DEF Where
  <2> QED BY <1>1, <1>3, <2>1, PlainQuiet, PlainPlaces
       DEF DataKept, Flowing, Busy, Broken, Ending
<1> QED BY <1>2, <1>3 DEF NoMoreReplies

LEMMA ProcessedPlain == ASSUME IInv, IInv', PlainInv, Processed PROVE PlainInv'
<1>1. /\ pc = "processed" /\ Where = "processed"
      /\ UNCHANGED <<options, ac, tick, back, now, net, srv, asked, told, heard>>
      /\ pc' \in {"freeing", "process"}
  BY PlainPlaces DEF Processed, processing, world, Where, Has
<1>2. Where' = pc'
  BY <1>1 DEF Where
<1> QED BY <1>1, <1>2, PlainQuiet, PlainPlaces
     DEF DataKept, Flowing, Busy, Broken, Ending, PlainInv, LineInv, PendingInv

LEMMA NextHandlerPlain == ASSUME IInv, IInv', PlainInv, NextHandler PROVE PlainInv'
<1>1. /\ pc = "next" /\ Where = "next"
      /\ UNCHANGED <<options, ac, back, now, net, srv, asked, told, heard>>
      /\ pc' \in {"idle", "next", "handle", "timeout"}
      /\ pc' = "handle" => tick.out /\ StillThere
      /\ pc' = "timeout" => StillThere
      /\ tick'.visited = tick.visited /\ (tick'.out => tick.out)
  BY DEF NextHandler, handling, world, history, Where, IInv, Shape
<1>2. Where' = pc'
  BY <1>1 DEF Where
<1>3. DataKept
  BY <1>1, PlainPlaces DEF DataKept
<1>4. StillThere /\ tick.stage # "none" => ac.cleanup
  BY <1>1 DEF StillThere, IInv, AdapterInv
<1>5. Flowing' => Flowing
  BY <1>1, <1>2 DEF Flowing, Broken, Ending
<1>6. ac.cleanup => ac.err = "none"
  BY <1>1 DEF PlainInv, ErrInv, Broken
<1>7. Flowing' /\ net.peer = "pending" => Where' \notin Busy \ {"timeout"}
  BY <1>1, <1>2, <1>5 DEF PlainInv, LineInv, PendingInv, Busy
<1>8. ac'.alive \/ ac.replies = <<>>
  BY <1>1 DEF PlainInv, CallInv
<1> QED BY <1>1, <1>2, <1>3, <1>5, <1>6, <1>7, <1>8, PlainQuiet

(* What a step that calls the program's connection callbacks does.         *)
LEMMA NotifyDoes ==
  ASSUME NEW note, NEW then \in Calling, Notify(note, then)
  PROVE  /\ Where' = then /\ pc' = "callback" /\ now'.reply.kind # "reply"
         /\ UNCHANGED <<asked, told, heard>>
BY NotifyGoesTo DEF Notify, NoReply

LEMMA HandleConnectPlain == ASSUME IInv, IInv', PlainInv, HandleConnect PROVE PlainInv'
<1>1. pc = "handle" /\ Where = "handle" /\ UNCHANGED <<options, tick, net, srv>>
  BY DEF HandleConnect, Where, world
<1>2. Flowing /\ ac.err = "none" /\ ac.alive /\ net.peer # "pending"
  BY <1>1, PlainPlaces DEF Busy, PlainInv, LineInv, PendingInv
<1>3. CASE pc' = "io" /\ UNCHANGED <<ac, back, now, history>>
  <2>1. DataKept /\ Where' = "io"
    BY <1>1, <1>3, PlainPlaces DEF DataKept, history, Where
  <2> QED BY <1>2, <1>3, <2>1, PlainQuiet
<1>4. CASE ac' = Raise({"CONNECTED"}) /\ Notify("connected", "connected")
  <2>1. /\ Where' = "connected" /\ pc' = "callback" /\ now'.reply.kind # "reply"
        /\ UNCHANGED <<asked, told, heard>>
    BY <1>4, NotifyDoes DEF Calling
  <2>2. DataKept /\ ac'.alive = ac.alive /\ ac'.err = ac.err
    BY <1>1, <1>4, <2>1, PlainPlaces DEF DataKept, Raise, IInv, Shape
  <2> QED BY <1>2, <2>1, <2>2, PlainQuiet
<1>5. CASE ac' = [ac EXCEPT !.err = "IO"] /\ Notify("failed", "failed")
  <2>1. /\ Where' = "failed" /\ pc' = "callback" /\ now'.reply.kind # "reply"
        /\ UNCHANGED <<asked, told, heard>>
    BY <1>5, NotifyDoes DEF Calling, Broken
  <2>2. DataKept /\ ac'.alive = ac.alive
    BY <1>1, <1>5, <2>1, PlainPlaces DEF DataKept, IInv, Shape
  <2> QED BY <1>2, <2>1, <2>2, PlainQuiet DEF Broken
<1> QED BY <1>3, <1>4, <1>5 DEF HandleConnect

LEMMA ConnectFailedPlain == ASSUME IInv, IInv', PlainInv, ConnectFailed PROVE PlainInv'
<1>1. /\ pc = "failed" /\ Where = "failed" /\ Disconnect(ac)
      /\ UNCHANGED <<options, tick, net, srv, asked, told, heard>>
  BY DEF ConnectFailed, handling, history, world, Where
<1>2. ac.alive /\ ac.err # "none"
  BY <1>1 DEF IInv, ContextInv, Broken
<1> QED BY <1>1, <1>2, DisconnectPlain, PlainPlaces DEF PlainInv, PlainType

LEMMA CleanDisconnectKeeps ==
  ASSUME Shape
  PROVE  /\ CleanDisconnect.replies = ac.replies /\ CleanDisconnect.subReplies = ac.subReplies
         /\ CleanDisconnect.subs = ac.subs /\ CleanDisconnect.inbuf = ac.inbuf
         /\ CleanDisconnect.obuf = ac.obuf
BY DEF Shape, CleanDisconnect

LEMMA ConnectDonePlain == ASSUME IInv, IInv', PlainInv, ConnectDone PROVE PlainInv'
<1>1. /\ pc = "connected" /\ Where = "connected"
      /\ UNCHANGED <<options, tick, now, net, srv, asked, told, heard>>
  BY DEF ConnectDone, handling, history, world, Where
<1>2. Flowing /\ ac.err = "none" /\ ac.alive /\ net.peer # "pending"
  BY <1>1, PlainPlaces DEF Busy, PlainInv, LineInv, PendingInv
<1>3. CASE Disconnect(CleanDisconnect) /\ ac.replies = <<>>
  BY <1>1, <1>2, <1>3, DisconnectPlain, CleanDisconnectFlags, CleanDisconnectKeeps, PlainPlaces
     DEF IInv, PlainInv, PlainType
<1>4. CASE pc' = "next" /\ ac' = CleanDisconnect
  <2>1. Where' = "next"
    BY <1>4 DEF Where
  <2>2. DataKept /\ ac'.alive = ac.alive /\ ac'.err = ac.err
    BY <1>1, <1>4, PlainPlaces, CleanDisconnectFlags, CleanDisconnectKeeps DEF DataKept, IInv
  <2> QED BY <1>2, <1>4, <2>1, <2>2, PlainQuiet
<1>5. CASE pc' \in {"freeing", "io"} /\ UNCHANGED ac
  <2>1. Where' = pc'
    BY <1>5 DEF Where
  <2>2. DataKept
    BY <1>1, <1>5, PlainPlaces DEF DataKept
  <2> QED BY <1>2, <1>5, <2>1, <2>2, PlainQuiet
<1> QED BY <1>3, <1>4, <1>5 DEF ConnectDone

LEMMA FailPlain ==
  ASSUME IInv, IInv', PlainInv, pc = "io", NEW error, error # "none", Fail(error),
         UNCHANGED <<options, asked, told, heard, net, srv>>, tick' = tick
  PROVE  PlainInv'
<1> DEFINE a == [ac EXCEPT !.err = error]
<1>1. ac.alive
  BY DEF IInv, ContextInv, Where
<1>2. /\ DOMAIN a = DOMAIN ac /\ a.alive = ac.alive /\ a.err = error /\ a.flags = ac.flags
      /\ a.replies = ac.replies /\ a.subReplies = ac.subReplies /\ a.subs = ac.subs
      /\ a.inbuf = ac.inbuf /\ a.obuf = ac.obuf
  BY DEF IInv, Shape
<1>3. Disconnect(a)
  BY DEF Fail
<1> HIDE DEF a
<1> QED BY <1>1, <1>2, <1>3, DisconnectPlain, PlainPlaces DEF PlainInv, PlainType

LEMMA TimeoutPlain == ASSUME IInv, IInv', PlainInv, redisAsyncHandleTimeout PROVE PlainInv'
<1>1. pc = "timeout" /\ Where = "timeout" /\ UNCHANGED <<options, tick, net, srv>>
  BY DEF redisAsyncHandleTimeout, world, Where
<1>2. Flowing /\ ac.err = "none" /\ ac.alive
  BY <1>1, PlainPlaces DEF Busy
<1>3. CASE pc' = "next" /\ UNCHANGED <<ac, back, now, history>>
  <2>1. DataKept /\ Where' = "next"
    BY <1>1, <1>3, PlainPlaces DEF DataKept, history, Where
  <2> QED BY <1>1, <1>2, <1>3, <2>1, PlainQuiet DEF Busy
<1>4. CASE /\ ac' = [ac EXCEPT !.err = "TIMEOUT"]
           /\ \/ pc' = "late" /\ UNCHANGED <<back, now, history>>
              \/ Notify("failed", "late")
  <2>1. /\ Where' = "late" /\ (pc' = "callback" => now'.reply.kind # "reply")
        /\ UNCHANGED <<asked, told, heard>> /\ pc' \in {"late", "callback"}
    <3>1. CASE pc' = "late" /\ UNCHANGED <<back, now, history>>
      BY <3>1 DEF Where, history
    <3>2. CASE Notify("failed", "late")
      BY <3>2, NotifyDoes DEF Calling, Broken
    <3> QED BY <1>4, <3>1, <3>2
  <2>2. DataKept /\ ac'.alive = ac.alive
    BY <1>1, <1>4, <2>1, PlainPlaces DEF DataKept, IInv, Shape
  <2> QED BY <1>1, <1>2, <2>1, <2>2, PlainQuiet DEF Busy, Broken
<1> QED BY <1>3, <1>4 DEF redisAsyncHandleTimeout

LEMMA AsyncFreePlain == ASSUME IInv, IInv', PlainInv, redisAsyncFree PROVE PlainInv'
<1>1. /\ Mine /\ UNCHANGED <<options, back, now, tick, net, srv, asked, told, heard>>
      /\ pc' = IF pc = "callback" THEN pc ELSE "freeing"
  BY DEF redisAsyncFree, history, world
<1>2. /\ ac'.alive = ac.alive /\ ac'.cleanup = ac.cleanup /\ ac'.err = ac.err
      /\ DataKept
  BY <1>1, PlainPlaces DEF redisAsyncFree, Raise, IInv, Shape, DataKept
<1>3. CASE pc = "callback"
  <2>1. Where' = Where /\ pc' = "callback"
    BY <1>1, <1>3 DEF Where
  <2>2. Flowing' => Flowing
    BY <1>2, <1>3, <2>1 DEF Flowing
  <2> QED BY <1>1, <1>2, <1>3, <2>1, <2>2, PlainQuiet, PlainPlaces
       DEF PlainInv, CallInv, ErrInv, LineInv, PendingInv
<1>4. CASE pc = "idle"
  <2>1. Where = "idle" /\ Where' = "freeing" /\ pc' = "freeing"
    BY <1>1, <1>4 DEF Where
  <2>2. ac.cleanup => ac.err = "none"
    BY <2>1 DEF PlainInv, ErrInv, Broken
  <2> QED BY <1>1, <1>2, <2>1, <2>2, PlainQuiet DEF Flowing, Ending, Mine
<1> QED BY <1>1, <1>3, <1>4, MineWhere

LEMMA AsyncDisconnectPlain == ASSUME IInv, IInv', PlainInv, redisAsyncDisconnect PROVE PlainInv'
<1>1. /\ Mine /\ UNCHANGED <<options, back, now, tick, net, srv, asked, told, heard>>
  BY DEF redisAsyncDisconnect, history, world
<1>2. CASE pc = "idle" /\ ac.replies = <<>> /\ Disconnect(CleanDisconnect)
  BY <1>1, <1>2, DisconnectPlain, CleanDisconnectFlags, CleanDisconnectKeeps, PlainPlaces
     DEF Mine, IInv, PlainInv, PlainType
<1>3. CASE ac' = CleanDisconnect /\ UNCHANGED pc
  <2>1. Where' = Where
    BY <1>1, <1>3 DEF Where
  <2>2. DataKept /\ ac'.alive = ac.alive /\ ac'.err = ac.err /\ ac'.cleanup = ac.cleanup
    BY <1>1, <1>3, PlainPlaces, CleanDisconnectFlags, CleanDisconnectKeeps DEF DataKept, IInv
  <2>3. Flowing' => Flowing
    BY <1>3, <2>1, <2>2 DEF Flowing
  <2> QED BY <1>1, <1>3, <2>1, <2>2, <2>3, PlainQuiet, PlainPlaces
       DEF PlainInv, CallInv, ErrInv, LineInv, PendingInv
<1> QED BY <1>2, <1>3 DEF redisAsyncDisconnect

LEMMA TickPlain == ASSUME IInv, IInv', Careful, PlainInv, redisPollTick PROVE PlainInv'
<1>1. /\ pc = "idle" /\ Where = "idle" /\ ac.alive /\ ac.err = "none"
      /\ UNCHANGED <<options, ac, back, now, net, srv, asked, told, heard>>
      /\ tick'.visited = tick.visited
      /\ tick'.out => net.peer # "pending"
      /\ pc' \in {"handle", "next"}
      /\ pc' = "handle" => net.down # <<>> \/ net.peer # "pending"
  BY DEF redisPollTick, handling, history, world, Where, IInv, Shape, Careful
<1>2. Where' = pc'
  BY <1>1 DEF Where
<1>3. DataKept
  BY <1>1, PlainPlaces DEF DataKept
<1>4. Flowing' => Flowing
  BY <1>1 DEF Flowing, Broken, Ending
<1>5. Flowing' /\ net.peer = "pending" => pc' = "next"
  BY <1>1, <1>4 DEF PlainInv, LineInv, PendingInv
<1> QED BY <1>1, <1>2, <1>3, <1>4, <1>5, PlainQuiet DEF Busy

LEMMA TimePlain == ASSUME IInv, IInv', PlainInv, TimePasses PROVE PlainInv'
<1>1. UNCHANGED <<options, ac, pc, back, now, tick, net, srv, asked, told, heard>>
  BY DEF TimePasses, local, history, world
<1> QED BY <1>1, PlainSame


-----------------------------------------------------------------------------
(* Callbacks that are told something.                                      *)

(* A sequence of numbers that rises, and its head.                         *)
LEMMA HeadOfRising ==
  ASSUME NEW s \in Seq(Nat), s # <<>>, \A i, j \in DOMAIN s : i < j => s[i] < s[j]
  PROVE  /\ Tail(s) \in Seq(Nat) /\ Head(s) \in Nat
         /\ \A i, j \in DOMAIN Tail(s) : i < j => Tail(s)[i] < Tail(s)[j]
         /\ Head(s) \in {s[i] : i \in DOMAIN s}
         /\ {Tail(s)[i] : i \in DOMAIN Tail(s)} = {s[i] : i \in DOMAIN s} \ {Head(s)}
         /\ \A x \in {s[i] : i \in DOMAIN s} : x = Head(s) \/ Head(s) < x
<1> DEFINE t == Tail(s)
<1>1. /\ DOMAIN s = 1 .. Len(s) /\ Len(s) \in Nat /\ Len(s) > 0 /\ DOMAIN t = 1 .. Len(s) - 1
      /\ t \in Seq(Nat) /\ \A i \in DOMAIN t : t[i] = s[i + 1] /\ i + 1 \in DOMAIN s
      /\ Head(s) = s[1] /\ 1 \in DOMAIN s /\ \A i \in DOMAIN s : s[i] \in Nat
  OBVIOUS
<1> HIDE DEF t
<1>2. \A i \in DOMAIN s : i = 1 \/ (i - 1 \in DOMAIN t /\ t[i - 1] = s[i] /\ s[1] < s[i])
  <2> SUFFICES ASSUME NEW i \in DOMAIN s, i # 1
               PROVE  i - 1 \in DOMAIN t /\ t[i - 1] = s[i] /\ s[1] < s[i]
    OBVIOUS
  <2>1. i - 1 \in DOMAIN t /\ (i - 1) + 1 = i /\ 1 < i
    BY <1>1
  <2> QED BY <1>1, <2>1
<1>3. \A i \in DOMAIN t : s[1] < t[i]
  <2> SUFFICES ASSUME NEW i \in DOMAIN t PROVE s[1] < t[i]
    OBVIOUS
  <2>1. 1 < i + 1 /\ i + 1 \in DOMAIN s /\ t[i] = s[i + 1]
    BY <1>1
  <2> QED BY <1>1, <2>1
<1>4. \A i, j \in DOMAIN t : i < j => t[i] < t[j]
  <2> SUFFICES ASSUME NEW i \in DOMAIN t, NEW j \in DOMAIN t, i < j PROVE t[i] < t[j]
    OBVIOUS
  <2>1. i + 1 < j + 1
    BY <1>1
  <2> QED BY <1>1, <2>1
<1>5. {t[i] : i \in DOMAIN t} = {s[i] : i \in DOMAIN s} \ {Head(s)}
  <2>1. ASSUME NEW i \in DOMAIN t PROVE t[i] \in {s[j] : j \in DOMAIN s} \ {Head(s)}
    <3>1. t[i] # s[1]
      BY <1>1, <1>3
    <3> QED BY <1>1, <3>1
  <2>2. ASSUME NEW x \in {s[i] : i \in DOMAIN s} \ {Head(s)} PROVE x \in {t[i] : i \in DOMAIN t}
    <3>1. PICK i \in DOMAIN s : x = s[i]
      BY <2>2
    <3>2. i # 1
      BY <1>1, <2>2, <3>1
    <3>3. i - 1 \in DOMAIN t /\ t[i - 1] = x
      BY <1>2, <3>1, <3>2
    <3> QED BY <3>3
  <2> QED BY <2>1, <2>2
<1>6. Head(s) \in Nat /\ Head(s) \in {s[i] : i \in DOMAIN s}
  BY <1>1
<1>7. \A x \in {s[i] : i \in DOMAIN s} : x = Head(s) \/ Head(s) < x
  BY <1>1, <1>2
<1>8. t \in Seq(Nat)
  BY <1>1
<1> QED BY <1>4, <1>5, <1>6, <1>7, <1>8, Zenon DEF t

LEMMA TellDoes ==
  ASSUME PlainProgram, Shape, PlainInv, ac.replies # <<>>, NEW reply, NEW then,
         Run(Head(ac.replies), reply, then),
         ac'.replies = Tail(ac.replies), UNCHANGED <<options, asked>>,
         heard' \subseteq heard \cup {Head(ac.replies)}
  PROVE  /\ WaitInv'
         /\ told' \in Seq({"nothing", "reply", "NULL"}) /\ Len(told') = Len(told)
         /\ ac'.replies \in Seq(Nat)
         /\ Head(ac.replies) \in Waiting /\ Waiting' = Waiting \ {Head(ac.replies)}
         /\ \A r \in Waiting : r = Head(ac.replies) \/ Head(ac.replies) < r
         /\ pc' = "callback" /\ back' = then
         /\ now' = [id |-> Head(ac.replies), reply |-> reply]
<1> DEFINE h == Head(ac.replies)
<1>1. /\ ac.replies \in Seq(Nat) /\ Waiting \subseteq 1 .. Len(asked)
      /\ \A i, j \in DOMAIN ac.replies : i < j => ac.replies[i] < ac.replies[j]
      /\ asked \in Seq(options.ops)
      /\ told \in Seq({"nothing", "reply", "NULL"}) /\ Len(told) = Len(asked)
  BY DEF PlainInv, PlainType, WaitInv
<1>2. /\ Tail(ac.replies) \in Seq(Nat)
      /\ \A i, j \in DOMAIN Tail(ac.replies) : i < j => Tail(ac.replies)[i] < Tail(ac.replies)[j]
      /\ h \in Waiting /\ {Tail(ac.replies)[i] : i \in DOMAIN Tail(ac.replies)} = Waiting \ {h}
      /\ \A r \in Waiting : r = h \/ h < r
  BY <1>1, HeadOfRising DEF Waiting
<1>3. Waiting' = Waiting \ {h}
  BY <1>2 DEF Waiting
<1>4. h \in 1 .. Len(asked) /\ h \in DOMAIN told /\ DOMAIN told = 1 .. Len(asked)
  <2>1. h \in 1 .. Len(asked)
    BY <1>1, <1>2
  <2> HIDE DEF h
  <2> QED BY <1>1, <2>1
<1>5. told[h] = "nothing"
  BY <1>2, <1>4 DEF PlainInv, WaitInv
<1>6. h # NoCallback /\ asked[h].kind = "regular"
  <2>1. asked[h] \in options.ops
    <3> HIDE DEF h
    <3> QED BY <1>1, <1>4
  <2>2. h # 0
    <3> HIDE DEF h
    <3> QED BY <1>1, <1>4
  <2> QED BY <2>1, <2>2 DEF PlainProgram, Shape, NoCallback
<1>7. PICK w \in {"reply", "NULL"} : told' = [told EXCEPT ![h] = w]
  BY <1>5, <1>6 DEF Run, Regular
<1>8. pc' = "callback" /\ back' = then /\ now' = [id |-> h, reply |-> reply]
  BY <1>6 DEF Run
<1> HIDE DEF h
<1>9. told' \in Seq({"nothing", "reply", "NULL"}) /\ Len(told') = Len(told)
  BY <1>1, <1>4, <1>7, ExceptSeq
<1>10. DOMAIN told' = DOMAIN told
       /\ \A id \in DOMAIN told : told'[id] = IF id = h THEN w ELSE told[id]
  BY <1>4, <1>7
<1>11. WaitInv'
  <2>1. \A i, j \in DOMAIN ac'.replies : i < j => ac'.replies[i] < ac'.replies[j]
    BY <1>2
  <2>2. \A id \in DOMAIN told' : told'[id] = "nothing" <=> id \in Waiting'
    BY <1>3, <1>10 DEF PlainInv, WaitInv
  <2>3. \A id \in heard' : id \in DOMAIN told' /\ told'[id] # "nothing"
    BY <1>4, <1>10 DEF PlainInv, WaitInv, h
  <2> QED BY <2>1, <2>2, <2>3 DEF WaitInv
<1> QED BY <1>2, <1>3, <1>8, <1>9, <1>11 DEF h

LEMMA NoSubscriptions == ASSUME PlainInv PROVE Len(SubscriptionCallbacks) = 0
<1>1. \A v \in Variants : Entries(ac.subs[v]) = <<>>
  <2>1. FlattenSeq(<<>>) = <<>>
    BY Zenon DEF FlattenSeq
  <2>2. dictInit.table = <<>>
    BY DEF dictInit
  <2> QED BY <2>1, <2>2 DEF PlainInv, PlainType, Entries
<1>2. Entries(ac.subs["channel"]) \o Entries(ac.subs["pattern"]) = <<>>
  BY <1>1 DEF Variants
<1>3. DOMAIN SubscriptionCallbacks = {}
  BY <1>2 DEF SubscriptionCallbacks
<1>4. SubscriptionCallbacks \in Seq({}) /\ SubscriptionCallbacks = <<>>
  BY <1>3
<1> QED BY <1>4

(* The callbacks of commands whose replies will not come any more.         *)
LEMMA ToldNothing ==
  ASSUME PlainProgram, IInv, PlainInv, ac.replies # <<>>, ac.alive,
         ac' = [ac EXCEPT !.replies = Tail(@)], UNCHANGED tick,
         NEW then \in Broken \cup {"freeing"}, Where = then, pc # "new",
         Run(Head(ac.replies), NoReply, then),
         UNCHANGED <<options, net, srv, asked, heard>>
  PROVE  PlainInv'
<1>1. /\ ac'.replies = Tail(ac.replies) /\ ac'.subReplies = ac.subReplies /\ ac'.subs = ac.subs
      /\ ac'.inbuf = ac.inbuf /\ ac'.obuf = ac.obuf /\ ac'.flags = ac.flags
      /\ ac'.alive = ac.alive /\ ac'.cleanup = ac.cleanup /\ ac'.err = ac.err
  BY DEF IInv, Shape
<1>2. /\ WaitInv'
      /\ told' \in Seq({"nothing", "reply", "NULL"}) /\ Len(told') = Len(told)
      /\ ac'.replies \in Seq(Nat) /\ Waiting' \subseteq Waiting
      /\ pc' = "callback" /\ back' = then /\ now'.reply = NoReply
  BY <1>1, TellDoes DEF IInv
<1>3. Requests' = Requests
  BY DEF Requests
<1>4. PlainType'
  BY <1>1, <1>2, <1>3 DEF PlainInv, PlainType
<1>5. Where' = then
  BY <1>2 DEF Where
<1>6. CallInv'
  BY <1>1, <1>2, <1>5 DEF CallInv, NoReply, Broken
<1>7. ErrInv'
  BY <1>1, <1>2, <1>5 DEF PlainInv, ErrInv
<1>8. LineInv'
  BY <1>5 DEF LineInv, Flowing, Ending
<1> QED BY <1>2, <1>4, <1>6, <1>7, <1>8 DEF PlainInv

LEMMA PendingPlain == ASSUME PlainProgram, IInv, IInv', PlainInv, RunPending PROVE PlainInv'
<1>1. /\ pc = "freeing" /\ Where = "freeing"
      /\ UNCHANGED <<options, net, srv, asked, heard>>
  BY DEF RunPending, Where, world
<1>2. tick.visited = 0 /\ Len(SubscriptionCallbacks) = 0 /\ ac.subReplies = <<>>
  BY NoSubscriptions DEF PlainInv, PlainType
<1>3. /\ ac.replies # <<>>
      /\ ac' = [ac EXCEPT !.replies = Tail(@)] /\ UNCHANGED tick
      /\ Run(Head(ac.replies), NoReply, "freeing")
  BY <1>2 DEF RunPending
<1>4. ac.alive
  BY <1>1 DEF IInv, ContextInv
<1> QED BY <1>1, <1>3, <1>4, ToldNothing

LEMMA LatePlain == ASSUME PlainProgram, IInv, IInv', PlainInv, RunLateCallbacks PROVE PlainInv'
<1>1. /\ pc = "late" /\ Where = "late"
      /\ UNCHANGED <<options, tick, net, srv, asked, heard>>
  BY DEF RunLateCallbacks, Where, world
<1>2. ac.alive /\ ac.err # "none"
  BY <1>1 DEF IInv, ContextInv, Broken
<1>3. CASE /\ ac.replies # <<>> /\ ac' = [ac EXCEPT !.replies = Tail(@)]
           /\ Run(Head(ac.replies), NoReply, "late")
  BY <1>1, <1>2, <1>3, ToldNothing DEF Broken
<1>4. CASE Disconnect(ac) /\ UNCHANGED told
  BY <1>1, <1>2, <1>4, DisconnectPlain, PlainPlaces DEF PlainInv, PlainType
<1> QED BY <1>3, <1>4 DEF RunLateCallbacks

(* The end: no callback waits.                                             *)
LEMMA DisconnectCallbackPlain ==
  ASSUME IInv, IInv', PlainInv, RunDisconnectCallback PROVE PlainInv'
<1>1. /\ pc = "freeing" /\ Where = "freeing" /\ ac.replies = <<>>
      /\ UNCHANGED <<options, tick, net, srv>>
  BY DEF RunDisconnectCallback, Where, world
<1>2. /\ Where' = "release" /\ pc' \in {"callback", "release"}
      /\ pc' = "callback" => now'.reply.kind # "reply"
      /\ UNCHANGED <<asked, told, heard>>
  <2>1. CASE Notify("disconnected", "release")
    BY <2>1, NotifyDoes DEF Calling, Ending
  <2>2. CASE pc' = "release" /\ UNCHANGED history
    BY <2>2 DEF Where, history
  <2> QED BY <2>1, <2>2 DEF RunDisconnectCallback
<1>3. DataKept /\ ~ac'.cleanup
  BY <1>1, <1>2, PlainPlaces DEF RunDisconnectCallback, DataKept, IInv, Shape
<1> QED BY <1>1, <1>2, <1>3, PlainQuiet DEF Flowing, Ending

LEMMA FreePlain == ASSUME IInv, IInv', PlainInv, redisFree PROVE PlainInv'
<1>1. /\ pc = "release" /\ Where = "release" /\ pc' = "next"
      /\ UNCHANGED <<options, tick, now, srv, asked, told, heard>>
      /\ ac' = [ac EXCEPT !.alive = FALSE]
      /\ net' = [peer |-> "closed", up |-> <<>>, down |-> <<>>]
  BY DEF redisFree, Where, history
<1>2. /\ ac'.replies = ac.replies /\ ac'.subReplies = ac.subReplies /\ ac'.subs = ac.subs
      /\ ac'.inbuf = ac.inbuf /\ ac'.obuf = ac.obuf /\ ac'.flags = ac.flags
      /\ ~ac'.alive /\ ac'.cleanup = ac.cleanup
  BY <1>1 DEF IInv, Shape
<1>3. ~ac.cleanup /\ ac.replies = <<>>
  BY <1>1 DEF IInv, ContextInv, PlainInv, CallInv
<1>4. Waiting' = Waiting /\ Requests' = Requests
  BY <1>1, <1>2 DEF Waiting, Requests
<1>5. PlainType'
  <2>1. /\ DOMAIN net' = {"peer", "up", "down"} /\ net'.down = <<>> /\ net'.up = <<>>
    BY <1>1
  <2>2. net'.down \in Seq(Answers) /\ net'.up \in Seq(Requests')
    <3> HIDE DEF Answers, Requests
    <3> QED BY <2>1
  <2> QED BY <1>1, <1>2, <1>4, <2>1, <2>2 DEF PlainInv, PlainType
<1>6. WaitInv'
  BY <1>1, <1>2, <1>4 DEF PlainInv, WaitInv
<1>7. CallInv' /\ ErrInv' /\ LineInv'
  BY <1>1, <1>2, <1>3 DEF CallInv, ErrInv, LineInv, Flowing, Where
<1> QED BY <1>5, <1>6, <1>7 DEF PlainInv

-----------------------------------------------------------------------------
(* Replies that are taken off the reader.                                  *)

LEMMA AnswerKinds ==
  ASSUME NEW x \in Answers
  PROVE  \/ x.kind = "reply" /\ ~x.push /\ x.id \in Nat /\ Expects(x)
         \/ x.kind = "push" /\ x.push /\ ~Expects(x)
         \/ x.kind = "error" /\ ~x.push /\ ~Expects(x)
<1>1. CASE x \in [kind : {"reply"}, id : Nat, v : {"none"}, push : {FALSE}, big : BOOLEAN]
  BY <1>1 DEF Expects
<1>2. CASE x \in {[kind |-> "push", v |-> "none", push |-> TRUE],
                  [kind |-> "error", id |-> 0, v |-> "none", push |-> FALSE]}
  BY <1>2 DEF Expects
<1> QED BY <1>1, <1>2, Zenon DEF Answers

LEMMA TakenDoes ==
  ASSUME Shape, PlainInv, ac.inbuf # <<>>
  PROVE  /\ DOMAIN Taken = DOMAIN ac /\ Taken.inbuf = Tail(ac.inbuf)
         /\ Taken.alive = ac.alive /\ Taken.cleanup = ac.cleanup /\ Taken.err = ac.err
         /\ Taken.replies = ac.replies /\ Taken.subReplies = ac.subReplies
         /\ Taken.subs = ac.subs /\ Taken.obuf = ac.obuf
         /\ "SUBSCRIBED" \notin Taken.flags /\ "MONITORING" \notin Taken.flags
         /\ Reply \in Answers /\ Tail(ac.inbuf) \in Seq(Answers)
<1>1. Reply \in Answers /\ Tail(ac.inbuf) \in Seq(Answers)
  <2>1. ac.inbuf \in Seq(Answers)
    BY DEF PlainInv, PlainType
  <2> HIDE DEF Answers
  <2> QED BY <2>1 DEF Reply
<1> QED BY <1>1 DEF Taken, Shape, PlainInv, PlainType

LEMMA PushPlain == ASSUME IInv, IInv', PlainInv, RunPushCallback PROVE PlainInv'
<1>1. /\ pc = "process" /\ Where = "process" /\ ac.inbuf # <<>> /\ Spontaneous /\ ac' = Taken
      /\ now' = [id |-> NoCallback, reply |-> Reply]
      /\ pc' = "callback" /\ Where' = "process"
      /\ UNCHANGED <<options, tick, net, srv, asked, told, heard>>
  BY DEF RunPushCallback, Where, processing, world
<1>2. /\ ac'.inbuf = Tail(ac.inbuf) /\ ac'.replies = ac.replies /\ ac'.subReplies = ac.subReplies
      /\ ac'.subs = ac.subs /\ ac'.obuf = ac.obuf
      /\ ac'.alive = ac.alive /\ ac'.cleanup = ac.cleanup /\ ac'.err = ac.err
      /\ "SUBSCRIBED" \notin ac'.flags /\ "MONITORING" \notin ac'.flags
      /\ Reply \in Answers /\ ac'.inbuf \in Seq(Answers)
  BY <1>1, TakenDoes DEF IInv
<1>3. Flowing /\ ac.alive /\ ac.err = "none"
  BY <1>1, PlainPlaces DEF Busy
<1>4. Reply.kind = "push" /\ ~Expects(Reply)
  BY <1>1, <1>2, AnswerKinds DEF Spontaneous
<1>5. /\ Ids(ac'.inbuf) = Ids(ac.inbuf) /\ (Rising(ac.inbuf) => Rising(ac'.inbuf))
      /\ HasError(ac'.inbuf) => HasError(ac.inbuf)
  <2>1. ac.inbuf \in Seq(Answers)
    BY DEF PlainInv, PlainType
  <2>2. /\ Ids(ac.inbuf) = Ids(Tail(ac.inbuf)) \cup (IF Expects(Reply) THEN {Reply.id} ELSE {})
        /\ Rising(ac.inbuf) => Rising(Tail(ac.inbuf))
        /\ HasError(Tail(ac.inbuf)) => HasError(ac.inbuf)
    BY <1>1, <2>1, IdsTaken DEF Reply
  <2> QED BY <1>2, <1>4, <2>2
<1>6. /\ Waiting' = Waiting /\ Requests' = Requests /\ Live' = Live
      /\ ToServe' = ToServe /\ ToWrite' = ToWrite /\ Ids(net.down)' = Ids(net.down)
      /\ Ids(ac.inbuf)' = Ids(ac.inbuf)
  BY <1>1, <1>2, <1>5, Primed DEF Waiting, Requests, Live, ToServe, ToWrite
<1>7. PlainType'
  BY <1>1, <1>2, <1>6 DEF PlainInv, PlainType
<1>8. WaitInv'
  BY <1>1, <1>2, <1>6 DEF PlainInv, WaitInv
<1>9. CallInv' /\ ErrInv'
  BY <1>1, <1>2, <1>3, <1>4 DEF CallInv, ErrInv
<1>10. PendingInv'
  BY <1>1, PendingProcess DEF PendingInv, Busy
<1>11. ErrorInv'
  <2>1. Coming' = Coming
    BY <1>6 DEF Coming
  <2>2. HasError(ac.inbuf)' => HasError(ac.inbuf)
    BY <1>5, Primed
  <2>3. HasError(net.down)' => HasError(net.down)
    BY <1>1, Primed
  <2> QED BY <1>3, <1>6, <2>1, <2>2, <2>3 DEF PlainInv, LineInv, ErrorInv
<1>12. QueueInv'
  <2>1. /\ Rising(ac.inbuf)' /\ Rising(net.down)' /\ Rising(net.up)'
        /\ Live' => Rising(ac.obuf)'
    BY <1>1, <1>2, <1>3, <1>5, <1>6, Primed DEF PlainInv, LineInv, QueueInv
  <2>2. (Live => Waiting \subseteq Coming)'
    BY <1>3, <1>6 DEF PlainInv, LineInv, QueueInv, Coming
  <2> QED BY <1>3, <1>6, <2>1, <2>2 DEF PlainInv, LineInv, QueueInv, InLine, Ahead
<1> QED BY <1>7, <1>8, <1>9, <1>10, <1>11, <1>12 DEF PlainInv, LineInv

(* A reply is the one that the oldest callback waits for, and an error     *)
(* comes when none is.                                                     *)
LEMMA ReplyOwn ==
  ASSUME IInv, PlainInv, pc = "process", ac.inbuf # <<>>, ~Spontaneous
  PROVE  \/ /\ Reply.kind = "reply" /\ Expects(Reply) /\ ac.replies # <<>>
            /\ Head(ac.replies) = Reply.id
         \/ Reply.kind = "error" /\ ~Expects(Reply) /\ Coming = {}
<1>1. Flowing
  BY PlainPlaces DEF Busy, Where
<1>2. ErrorInv /\ QueueInv
  BY <1>1 DEF PlainInv, LineInv
<1>3. Reply \in Answers /\ ac.inbuf \in Seq(Answers)
  BY TakenDoes DEF IInv, PlainInv, PlainType
<1>4. CASE Reply.kind = "reply" /\ Expects(Reply)
  <2> DEFINE T == Ids(Tail(ac.inbuf))
             R == Ids(net.down) \cup ToServe \cup ToWrite
  <2>1. Ids(ac.inbuf) = T \cup {Reply.id} /\ Ahead({Reply.id}, T)
    BY <1>2, <1>3, <1>4, IdsTaken DEF Reply, QueueInv
  <2>2. /\ Coming = T \cup {Reply.id} \cup R /\ Ahead({Reply.id}, R)
        /\ Coming \subseteq Waiting
        /\ \A r \in Waiting, q \in Coming : r < q => r \in Coming
    BY <1>2, <2>1 DEF QueueInv, InLine, Coming, Ahead
  <2> HIDE DEF T, R
  <2>3. Reply.id \in Waiting /\ Reply.id \in Coming
    BY <2>2
  <2>4. ac.replies # <<>> /\ ac.replies \in Seq(Nat)
    BY <2>3 DEF Waiting, PlainInv, PlainType
  <2>5. /\ Head(ac.replies) \in Waiting /\ Head(ac.replies) \in Nat
        /\ \A x \in Waiting : x = Head(ac.replies) \/ Head(ac.replies) < x
    BY <2>4, HeadOfRising DEF PlainInv, WaitInv, Waiting
  <2>6. Head(ac.replies) = Reply.id
    <3> SUFFICES ASSUME Head(ac.replies) # Reply.id PROVE FALSE
      OBVIOUS
    <3>1. Head(ac.replies) < Reply.id
      BY <2>3, <2>5
    <3>2. Head(ac.replies) \in T \cup R
      BY <2>2, <2>3, <2>5, <3>1
    <3>3. Reply.id < Head(ac.replies)
      BY <2>1, <2>2, <3>2 DEF Ahead
    <3>4. Reply.id \in Nat
      BY <1>3, <1>4, AnswerKinds
    <3> QED BY <2>5, <3>1, <3>3, <3>4
  <2> QED BY <1>4, <2>4, <2>6
<1>5. CASE Reply.kind = "error" /\ ~Expects(Reply)
  <2>1. HasError(ac.inbuf)
    BY <1>3, <1>5, IdsTaken DEF Reply
  <2> QED BY <1>2, <1>5, <2>1 DEF ErrorInv
<1>6. Reply.kind # "push" \/ ~Reply.push
  BY DEF Spontaneous, redisIsSubscribeReply
<1> QED BY <1>3, <1>4, <1>5, <1>6, AnswerKinds

LEMMA ReplyPlain == ASSUME PlainProgram, IInv, IInv', PlainInv, RunReplyCallback PROVE PlainInv'
<1> DEFINE h == Head(ac.replies)
<1>1. /\ pc = "process" /\ Where = "process" /\ ac.inbuf # <<>> /\ ~Spontaneous
      /\ ac.replies # <<>> /\ ac' = [Taken EXCEPT !.replies = Tail(@)]
      /\ Run(h, Reply, "processed") /\ heard' = Heard
      /\ UNCHANGED <<options, tick, net, srv, asked>>
  BY DEF RunReplyCallback, Where, processing, world
<1>2. /\ ac'.inbuf = Tail(ac.inbuf) /\ ac'.replies = Tail(ac.replies)
      /\ ac'.subReplies = ac.subReplies /\ ac'.subs = ac.subs /\ ac'.obuf = ac.obuf
      /\ ac'.alive = ac.alive /\ ac'.cleanup = ac.cleanup /\ ac'.err = ac.err
      /\ "SUBSCRIBED" \notin ac'.flags /\ "MONITORING" \notin ac'.flags
      /\ Reply \in Answers /\ ac'.inbuf \in Seq(Answers)
  BY <1>1, TakenDoes DEF IInv, Shape
<1>3. Flowing /\ ac.alive /\ ac.err = "none" /\ ErrorInv /\ QueueInv
  BY <1>1, PlainPlaces DEF Busy, PlainInv, LineInv
<1>4. \/ Reply.kind = "reply" /\ Expects(Reply) /\ h = Reply.id
      \/ Reply.kind = "error" /\ ~Expects(Reply) /\ Coming = {}
  BY <1>1, ReplyOwn
<1>5. heard' \subseteq heard \cup {h}
  BY <1>1, <1>4 DEF Heard
<1>6. /\ WaitInv'
      /\ told' \in Seq({"nothing", "reply", "NULL"}) /\ Len(told') = Len(told)
      /\ ac'.replies \in Seq(Nat) /\ Waiting' = Waiting \ {h}
      /\ \A r \in Waiting : r = h \/ h < r
      /\ pc' = "callback" /\ back' = "processed" /\ now' = [id |-> h, reply |-> Reply]
  BY <1>1, <1>2, <1>5, TellDoes DEF IInv
<1>7. Where' = "processed"
  BY <1>6 DEF Where
<1>8. /\ Requests' = Requests /\ Live' = Live
      /\ ToServe' = ToServe /\ ToWrite' = ToWrite /\ Ids(net.down)' = Ids(net.down)
      /\ Ids(ac.inbuf)' = Ids(Tail(ac.inbuf))
  BY <1>1, <1>2, Primed DEF Requests, Live, ToServe, ToWrite
<1>9. PlainType'
  BY <1>1, <1>2, <1>6, <1>8 DEF PlainInv, PlainType
<1>10. CallInv' /\ ErrInv'
  BY <1>2, <1>3, <1>4, <1>6, <1>7 DEF CallInv, ErrInv
<1>11. PendingInv'
  BY <1>1, PendingProcess DEF PendingInv, Busy
<1>12. /\ Ids(ac.inbuf) = Ids(Tail(ac.inbuf)) \cup (IF Expects(Reply) THEN {Reply.id} ELSE {})
       /\ Rising(Tail(ac.inbuf)) /\ (Expects(Reply) => Ahead({Reply.id}, Ids(Tail(ac.inbuf))))
       /\ HasError(Tail(ac.inbuf)) => HasError(ac.inbuf)
  <2>1. ac.inbuf \in Seq(Answers) /\ Rising(ac.inbuf)
    BY <1>3 DEF PlainInv, PlainType, QueueInv
  <2> QED BY <1>1, <2>1, IdsTaken DEF Reply
<1>13. ErrorInv'
  <2>1. Coming' \subseteq Coming
    BY <1>8, <1>12 DEF Coming
  <2>2. HasError(ac.inbuf)' \/ HasError(net.down)' => HasError(ac.inbuf) \/ HasError(net.down)
    BY <1>1, <1>2, <1>12, Primed
  <2> QED BY <1>3, <1>8, <2>1, <2>2 DEF ErrorInv
<1>14. QueueInv'
  <2>1. /\ Rising(ac.inbuf)' /\ Rising(net.down)' /\ Rising(net.up)'
        /\ Live' => Rising(ac.obuf)'
    BY <1>1, <1>2, <1>3, <1>8, <1>12, Primed DEF QueueInv
  <2> DEFINE A == Ids(Tail(ac.inbuf))
  <2> HIDE DEF h
  <2>2. ASSUME NEW B, NEW C, NEW D, InLine(Ids(ac.inbuf), B, C, D, Waiting),
               Coming = Ids(ac.inbuf) \cup B \cup C \cup D
        PROVE  InLine(A, B, C, D, Waiting \ {h})
    <3>1. Ahead(A, B \cup C \cup D) /\ Ahead(B, C \cup D) /\ Ahead(C, D)
      BY <1>12, <2>2 DEF InLine, Ahead
    <3>2. h \notin A \cup B \cup C \cup D /\ Ids(ac.inbuf) \subseteq A \cup {h}
      <4>1. CASE Expects(Reply) /\ h = Reply.id
        <5>1. Ahead({h}, A) /\ Ahead({h}, B \cup C \cup D) /\ Ids(ac.inbuf) = A \cup {h}
          BY <1>12, <2>2, <4>1 DEF InLine, Ahead
        <5>2. h \in Nat
          BY <1>2, <4>1, AnswerKinds
        <5> HIDE DEF A
        <5> QED BY <5>1, <5>2 DEF Ahead
      <4>2. CASE Coming = {}
        BY <1>12, <2>2, <4>2
      <4> QED BY <1>4, <4>1, <4>2
    <3> HIDE DEF A
    <3>3. A \subseteq Ids(ac.inbuf)
      BY <1>12 DEF A
    <3> QED BY <2>2, <3>1, <3>2, <3>3 DEF InLine
  <2>3. InLine(Ids(ac.inbuf), Ids(net.down), ToServe, ToWrite, Waiting)
    BY <1>3 DEF QueueInv
  <2>4. InLine(A, Ids(net.down), ToServe, ToWrite, Waiting \ {h})
    BY <2>2, <2>3 DEF Coming
  <2>5. (Live => Waiting \subseteq Coming)'
    BY <1>3, <1>4, <1>6, <1>8, <1>12 DEF QueueInv, Coming
  <2> QED BY <1>6, <1>8, <2>1, <2>4, <2>5 DEF QueueInv, InLine, Ahead
<1> QED BY <1>6, <1>9, <1>10, <1>11, <1>13, <1>14 DEF PlainInv, LineInv

LEMMA SpontaneousErrorPlain ==
  ASSUME IInv, IInv', PlainInv, SpontaneousError PROVE PlainInv'
<1> DEFINE a == [Taken EXCEPT !.err = "OTHER"]
<1>1. /\ pc = "process" /\ Where = "process" /\ ac.inbuf # <<>>
      /\ Disconnect(a)
      /\ UNCHANGED <<options, tick, net, srv, asked, told, heard>>
  BY DEF SpontaneousError, Where, processing, world
<1>2. /\ DOMAIN a = DOMAIN ac /\ a.inbuf = Tail(ac.inbuf) /\ a.err = "OTHER"
      /\ a.replies = ac.replies /\ a.subReplies = ac.subReplies
      /\ a.subs = ac.subs /\ a.obuf = ac.obuf /\ a.alive = ac.alive
      /\ "SUBSCRIBED" \notin a.flags /\ "MONITORING" \notin a.flags
      /\ Tail(ac.inbuf) \in Seq(Answers)
  BY <1>1, TakenDoes DEF IInv, Shape
<1>3. ac.alive
  BY <1>1, PlainPlaces DEF Busy
<1> HIDE DEF a
<1> QED BY <1>1, <1>2, <1>3, DisconnectPlain

(* Nothing is left to the callbacks of subscriptions.                      *)
LEMMA NoSubscribedCallback == ASSUME IInv, PlainInv PROVE ~RunSubscribedCallback
BY ReplyOwn DEF RunSubscribedCallback

-----------------------------------------------------------------------------
(* Commands and replies under way.                                         *)

(* What stays when only the queues change.                                 *)
LEMMA QueuesMove ==
  ASSUME PlainInv, UNCHANGED <<options, asked, told, heard>>, tick'.visited = tick.visited,
         ac'.replies = ac.replies, ac'.subReplies = ac.subReplies, ac'.subs = ac.subs,
         "SUBSCRIBED" \notin ac'.flags, "MONITORING" \notin ac'.flags,
         DOMAIN net' = DOMAIN net, DOMAIN srv' = DOMAIN srv, srv'.subs = srv.subs, ~srv'.monitor,
         ac'.inbuf \in Seq(Answers), net'.down \in Seq(Answers),
         net'.up \in Seq(Requests), ac'.obuf \in Seq(Requests)
  PROVE  PlainType' /\ WaitInv' /\ Waiting' = Waiting
<1>1. Waiting' = Waiting /\ Requests' = Requests
  BY DEF Waiting, Requests
<1>2. PlainType'
  BY <1>1 DEF PlainInv, PlainType
<1>3. WaitInv'
  BY <1>1 DEF PlainInv, WaitInv
<1> QED BY <1>1, <1>2, <1>3

LEMMA MovesOn ==
  ASSUME NEW A, NEW B, NEW C, NEW D, NEW W, NEW M, Ahead(M, B), InLine(A, M \cup B, C, D, W)
  PROVE  InLine(A \cup M, B, C, D, W) /\ Ahead(A, M)
BY DEF InLine, Ahead

LEMMA ReadPlain == ASSUME IInv, IInv', PlainInv, redisAsyncRead PROVE PlainInv'
<1>1. /\ pc = "io" /\ Where = "io"
      /\ UNCHANGED <<options, now, tick, srv, asked, told, heard>>
  BY DEF redisAsyncRead, Where, history
<1>2. Flowing /\ ac.alive /\ ac.err = "none" /\ ErrorInv /\ QueueInv /\ net.peer # "pending"
  BY <1>1, PlainPlaces, PendingProcess DEF Busy, PlainInv, LineInv
<1>3. ASSUME NEW n \in 1 .. Len(net.down),
             ac' = [ac EXCEPT !.inbuf = @ \o SubSeq(net.down, 1, n)],
             net' = [net EXCEPT !.down = SubSeq(@, n + 1, Len(@))],
             pc' = "process"
      PROVE  PlainInv'
  <2> DEFINE m == SubSeq(net.down, 1, n)
             rest == SubSeq(net.down, n + 1, Len(net.down))
  <2>1. /\ net.down \in Seq(Answers) /\ ac.inbuf \in Seq(Answers)
        /\ net.up \in Seq(Requests) /\ ac.obuf \in Seq(Requests)
        /\ DOMAIN net = {"peer", "up", "down"}
    BY DEF PlainInv, PlainType
  <2>2. m \in Seq(Answers) /\ rest \in Seq(Answers) /\ net.down = m \o rest
    <3> HIDE DEF Answers
    <3>1. n \in 0 .. Len(net.down)
      BY <2>1
    <3> QED BY <2>1, <3>1, Parts
  <2>3. /\ ac'.inbuf = ac.inbuf \o m /\ net'.down = rest /\ net'.up = net.up
        /\ net'.peer = net.peer /\ DOMAIN net' = DOMAIN net /\ ac'.obuf = ac.obuf
        /\ ac'.replies = ac.replies /\ ac'.subReplies = ac.subReplies /\ ac'.subs = ac.subs
        /\ ac'.flags = ac.flags /\ ac'.alive = ac.alive /\ ac'.err = ac.err
        /\ ac'.cleanup = ac.cleanup
    BY <1>3, <2>1 DEF IInv, Shape
  <2> HIDE DEF m, rest
  <2>4. ac'.inbuf \in Seq(Answers) /\ net'.down \in Seq(Answers)
    <3> HIDE DEF Answers
    <3> QED BY <2>1, <2>2, <2>3
  <2>5. PlainType' /\ WaitInv' /\ Waiting' = Waiting
    BY <1>1, <2>1, <2>3, <2>4, QueuesMove, PlainPlaces DEF PlainInv, PlainType
  <2>6. Where' = "process"
    BY <1>3 DEF Where
  <2>7. CallInv' /\ ErrInv' /\ PendingInv'
    BY <1>2, <1>3, <2>3, <2>6 DEF CallInv, ErrInv, PendingInv
  <2>8. /\ Ids(net.down) = Ids(m) \cup Ids(rest)
        /\ Rising(net.down) => Rising(m) /\ Rising(rest) /\ Ahead(Ids(m), Ids(rest))
        /\ HasError(net.down) <=> HasError(m) \/ HasError(rest)
    BY <2>2, IdsJoined
  <2>9. /\ Ids(ac'.inbuf) = Ids(ac.inbuf) \cup Ids(m)
        /\ Rising(ac'.inbuf) <=> Rising(ac.inbuf) /\ Rising(m) /\ Ahead(Ids(ac.inbuf), Ids(m))
        /\ HasError(ac'.inbuf) <=> HasError(ac.inbuf) \/ HasError(m)
    BY <2>1, <2>2, <2>3, IdsJoined
  <2>10. /\ Live' = Live /\ ToServe' = ToServe /\ ToWrite' = ToWrite
         /\ Ids(ac.inbuf)' = Ids(ac.inbuf) \cup Ids(m) /\ Ids(net.down)' = Ids(rest)
    BY <2>3, <2>9, Primed DEF Live, ToServe, ToWrite
  <2>11. ErrorInv'
    <3>1. Coming' = Coming
      BY <2>8, <2>10 DEF Coming
    <3>2. HasError(ac.inbuf)' \/ HasError(net.down)' => HasError(ac.inbuf) \/ HasError(net.down)
      BY <2>3, <2>8, <2>9, Primed
    <3> QED BY <1>2, <2>10, <3>1, <3>2 DEF ErrorInv
  <2>12. QueueInv'
    <3>1. /\ InLine(Ids(ac.inbuf), Ids(m) \cup Ids(rest), ToServe, ToWrite, Waiting)
          /\ Ahead(Ids(m), Ids(rest)) /\ Rising(m) /\ Rising(rest)
      BY <1>2, <2>8 DEF QueueInv
    <3>2. /\ InLine(Ids(ac.inbuf) \cup Ids(m), Ids(rest), ToServe, ToWrite, Waiting)
          /\ Ahead(Ids(ac.inbuf), Ids(m))
      BY <3>1, MovesOn
    <3>3. /\ Rising(ac.inbuf)' /\ Rising(net.down)' /\ Rising(net.up)'
          /\ Live' => Rising(ac.obuf)'
      BY <1>2, <2>3, <2>9, <2>10, <3>1, <3>2, Primed DEF QueueInv
    <3>4. (Live => Waiting \subseteq Coming)'
      BY <1>2, <2>5, <2>8, <2>10 DEF QueueInv, Coming
    <3> QED BY <2>5, <2>10, <3>2, <3>3, <3>4 DEF QueueInv, InLine, Ahead
  <2> QED BY <2>5, <2>7, <2>11, <2>12 DEF PlainInv, LineInv
<1>4. CASE (Fail("EOF") \/ Fail("IO")) /\ UNCHANGED net
  BY <1>1, <1>4, FailPlain
<1>5. CASE /\ \E n \in {1, Len(net.down)} \cap 1..Len(net.down) :
                 /\ ac' = [ac EXCEPT !.inbuf = @ \o SubSeq(net.down, 1, n)]
                 /\ net' = [net EXCEPT !.down = SubSeq(@, n + 1, Len(@))]
           /\ pc' = "process"
  BY <1>3, <1>5
<1> QED BY <1>4, <1>5 DEF redisAsyncRead

LEMMA SentOn ==
  ASSUME NEW A, NEW B, NEW C, NEW D, NEW W, NEW M, Ahead(M, D), InLine(A, B, C, M \cup D, W)
  PROVE  InLine(A, B, C \cup M, D, W) /\ Ahead(C, M)
BY DEF InLine, Ahead

LEMMA WritePlain == ASSUME IInv, IInv', PlainInv, redisAsyncWrite PROVE PlainInv'
<1>1. /\ pc = "io" /\ Where = "io"
      /\ UNCHANGED <<options, now, tick, srv, asked, told, heard>>
  BY DEF redisAsyncWrite, Where, history
<1>2. Flowing /\ ac.alive /\ ac.err = "none" /\ ErrorInv /\ QueueInv /\ net.peer # "pending"
  BY <1>1, PlainPlaces, PendingProcess DEF Busy, PlainInv, LineInv
<1>3. ASSUME NEW n \in 0 .. Len(ac.obuf),
             ac' = [ac EXCEPT !.obuf = SubSeq(@, n + 1, Len(@))],
             net' = [net EXCEPT !.up = IF net.peer = "open" THEN @ \o SubSeq(ac.obuf, 1, n)
                                       ELSE @],
             pc' = "next"
      PROVE  PlainInv'
  <2> DEFINE m == SubSeq(ac.obuf, 1, n)
             rest == SubSeq(ac.obuf, n + 1, Len(ac.obuf))
  <2>1. /\ net.down \in Seq(Answers) /\ ac.inbuf \in Seq(Answers)
        /\ net.up \in Seq(Requests) /\ ac.obuf \in Seq(Requests)
        /\ DOMAIN net = {"peer", "up", "down"}
    BY DEF PlainInv, PlainType
  <2>2. m \in Seq(Requests) /\ rest \in Seq(Requests) /\ ac.obuf = m \o rest
    <3> HIDE DEF Requests
    <3> QED BY <2>1, Parts
  <2>3. /\ ac'.inbuf = ac.inbuf /\ net'.down = net.down
        /\ net'.up = IF net.peer = "open" THEN net.up \o m ELSE net.up
        /\ net'.peer = net.peer /\ DOMAIN net' = DOMAIN net /\ ac'.obuf = rest
        /\ ac'.replies = ac.replies /\ ac'.subReplies = ac.subReplies /\ ac'.subs = ac.subs
        /\ ac'.flags = ac.flags /\ ac'.alive = ac.alive /\ ac'.err = ac.err
        /\ ac'.cleanup = ac.cleanup
    BY <1>3, <2>1 DEF IInv, Shape
  <2> HIDE DEF m, rest
  <2>4. ac'.obuf \in Seq(Requests) /\ net'.up \in Seq(Requests)
    <3> HIDE DEF Requests
    <3> QED BY <2>1, <2>2, <2>3
  <2>5. PlainType' /\ WaitInv' /\ Waiting' = Waiting
    BY <1>1, <2>1, <2>3, <2>4, QueuesMove, PlainPlaces DEF PlainInv, PlainType
  <2>6. Where' = "next"
    BY <1>3 DEF Where
  <2>7. CallInv' /\ ErrInv' /\ PendingInv'
    BY <1>2, <1>3, <2>3, <2>6 DEF CallInv, ErrInv, PendingInv
  <2>8. /\ Ids(ac.obuf) = Ids(m) \cup Ids(rest)
        /\ Rising(ac.obuf) => Rising(m) /\ Rising(rest) /\ Ahead(Ids(m), Ids(rest))
    BY <2>2, IdsJoined
  <2>9. /\ Ids(net.up \o m) = Ids(net.up) \cup Ids(m)
        /\ Rising(net.up \o m) <=> Rising(net.up) /\ Rising(m) /\ Ahead(Ids(net.up), Ids(m))
    BY <2>1, <2>2, IdsJoined
  <2>10. /\ Live' = Live /\ Ids(ac.inbuf)' = Ids(ac.inbuf) /\ Ids(net.down)' = Ids(net.down)
         /\ (HasError(ac.inbuf)' \/ HasError(net.down)') => HasError(ac.inbuf) \/ HasError(net.down)
         /\ Rising(ac.inbuf)' /\ Rising(net.down)' /\ (Live' => Rising(ac.obuf)')
    BY <1>2, <2>3, <2>8, Primed DEF Live, QueueInv
  <2>11. CASE net.peer = "open"
    <3>1. /\ ToServe = Ids(net.up) /\ ToServe' = ToServe \cup Ids(m)
          /\ ToWrite = Ids(m) \cup Ids(rest) /\ ToWrite' = Ids(rest)
      BY <2>3, <2>8, <2>9, <2>10, <2>11, Primed DEF Live, ToServe, ToWrite
    <3>2. Coming' = Coming
      BY <2>10, <3>1 DEF Coming
    <3>3. ErrorInv'
      BY <1>2, <2>10, <3>2 DEF ErrorInv
    <3>4. Ahead(Ids(m), Ids(rest)) /\ Rising(m)
      BY <1>2, <2>8, <2>11 DEF QueueInv, Live
    <3>5. /\ InLine(Ids(ac.inbuf), Ids(net.down), ToServe \cup Ids(m), Ids(rest), Waiting)
          /\ Ahead(ToServe, Ids(m))
      BY <1>2, <3>1, <3>4, SentOn DEF QueueInv
    <3>6. Rising(net.up)'
      BY <1>2, <2>3, <2>9, <2>11, <3>1, <3>4, <3>5, Primed DEF QueueInv
    <3>7. QueueInv'
      BY <1>2, <2>5, <2>10, <3>1, <3>2, <3>5, <3>6 DEF QueueInv, InLine, Ahead
    <3> QED BY <2>5, <2>7, <3>3, <3>7 DEF PlainInv, LineInv
  <2>12. CASE net.peer # "open"
    <3>1. ToServe = {} /\ ToServe' = {} /\ ToWrite = {} /\ ToWrite' = {}
      BY <1>2, <2>10, <2>12 DEF Live, ToServe, ToWrite
    <3>2. Coming' = Coming
      BY <2>10, <3>1 DEF Coming
    <3>3. ErrorInv'
      BY <1>2, <2>10, <3>2 DEF ErrorInv
    <3>4. Rising(net.up)'
      BY <1>2, <2>3, <2>12, Primed DEF QueueInv
    <3>5. QueueInv'
      BY <1>2, <2>5, <2>10, <3>1, <3>2, <3>4 DEF QueueInv, InLine, Ahead
    <3> QED BY <2>5, <2>7, <3>3, <3>5 DEF PlainInv, LineInv
  <2> QED BY <2>11, <2>12
<1>4. CASE Fail("IO") /\ UNCHANGED net
  BY <1>1, <1>4, FailPlain
<1>5. CASE /\ \E n \in {1, Len(ac.obuf)} \cap 0..Len(ac.obuf) :
                 /\ ac' = [ac EXCEPT !.obuf = SubSeq(@, n + 1, Len(@))]
                 /\ net' = [net EXCEPT !.up = IF net.peer = "open" THEN @ \o SubSeq(ac.obuf, 1, n)
                                             ELSE @]
                 /\ e' = AddRead(IF n = Len(ac.obuf) THEN DelWrite(e) ELSE AddWrite(e))
           /\ pc' = "next"
  BY <1>3, <1>5
<1> QED BY <1>4, <1>5 DEF redisAsyncWrite

(* The program's next command: its callback waits behind all others.       *)
LEMMA CommandPlain ==
  ASSUME PlainProgram, IInv, IInv', PlainInv, NEW op \in options.ops, redisAsyncCommand(op)
  PROVE  PlainInv'
<1> DEFINE id == Len(asked) + 1
           c == [kind |-> op.kind, id |-> id, v |-> op.v, names |-> op.names]
<1>1. /\ Mine /\ UNCHANGED <<options, pc, back, now, tick, net, srv, heard>>
      /\ ac.flags \cap {"DISCONNECTING", "FREEING"} = {}
      /\ asked' = Append(asked, op) /\ told' = Append(told, "nothing")
      /\ ac' = [Registered(op, id) EXCEPT !.obuf = Append(@, c)]
  BY DEF redisAsyncCommand, world
<1>2. op.kind = "regular"
  BY DEF PlainProgram, IInv, Shape
<1>3. Registered(op, id) = [ac EXCEPT !.replies = Append(@, id)]
  BY <1>2, PlainPlaces DEF Registered, Has
<1>4. /\ asked \in Seq(options.ops) /\ Len(told) = Len(asked)
      /\ told \in Seq({"nothing", "reply", "NULL"})
      /\ ac.replies \in Seq(Nat) /\ Waiting \subseteq 1 .. Len(asked)
      /\ ac.obuf \in Seq(Requests)
  BY DEF PlainInv, PlainType
<1>5. /\ ac'.replies = Append(ac.replies, id) /\ ac'.obuf = Append(ac.obuf, c)
      /\ ac'.inbuf = ac.inbuf /\ ac'.subReplies = ac.subReplies /\ ac'.subs = ac.subs
      /\ ac'.flags = ac.flags /\ ac'.alive = ac.alive /\ ac'.err = ac.err
      /\ ac'.cleanup = ac.cleanup
  BY <1>1, <1>3 DEF IInv, Shape
<1>6. id \in Nat /\ c \in Requests /\ Expects(c) /\ c.id = id
  <2>1. id \in Nat
    BY <1>4
  <2> HIDE DEF id
  <2> QED BY <1>2, <2>1 DEF Requests, Expects
<1> HIDE DEF c
<1>7. /\ Requests' = Requests /\ Live' = Live /\ ToServe' = ToServe
      /\ Ids(ac.inbuf)' = Ids(ac.inbuf) /\ Ids(net.down)' = Ids(net.down)
  BY <1>1, <1>5, Primed DEF Requests, Live, ToServe
<1>8. Waiting' = Waiting \cup {id} /\ \A r \in Waiting : r < id /\ r \in Nat
  <2>1. /\ DOMAIN ac'.replies = 1 .. Len(ac.replies) + 1
        /\ DOMAIN ac.replies = 1 .. Len(ac.replies) /\ Len(ac.replies) \in Nat
        /\ \A i \in 1 .. Len(ac.replies) : ac'.replies[i] = ac.replies[i]
        /\ ac'.replies[Len(ac.replies) + 1] = id
    BY <1>4, <1>5, <1>6
  <2>2. Waiting' = Waiting \cup {id}
    <3>1. ASSUME NEW i \in DOMAIN ac'.replies PROVE ac'.replies[i] \in Waiting \cup {id}
      <4>1. CASE i \in 1 .. Len(ac.replies)
        BY <2>1, <4>1 DEF Waiting
      <4>2. CASE i = Len(ac.replies) + 1
        BY <2>1, <4>2
      <4> QED BY <2>1, <4>1, <4>2
    <3>2. ASSUME NEW i \in DOMAIN ac.replies PROVE ac.replies[i] \in Waiting'
      BY <2>1 DEF Waiting
    <3>3. id \in Waiting'
      BY <2>1 DEF Waiting
    <3>4. Waiting' \subseteq Waiting \cup {id}
      BY <3>1 DEF Waiting
    <3>5. Waiting \subseteq Waiting'
      BY <3>2 DEF Waiting
    <3> QED BY <3>3, <3>4, <3>5
  <2> QED BY <1>4, <2>2
<1>9. PlainType'
  <2>1. asked' \in Seq(options'.ops) /\ Len(asked') = id
    BY <1>1, <1>4
  <2>2. told' \in Seq({"nothing", "reply", "NULL"}) /\ Len(told') = id
    BY <1>1, <1>4
  <2>3. ac'.replies \in Seq(Nat)
    <3> HIDE DEF id
    <3>1. ac.replies \in Seq(Nat) /\ id \in Nat
      BY <1>4, <1>6
    <3> QED BY <1>5, <3>1
  <2>4. Waiting' \subseteq 1 .. id
    <3>1. Len(asked) \in Nat /\ id = Len(asked) + 1 /\ Waiting \subseteq 1 .. Len(asked)
      BY <1>4
    <3>2. 1 .. Len(asked) \subseteq 1 .. id /\ id \in 1 .. id
      BY <3>1
    <3> HIDE DEF id
    <3> QED BY <1>8, <3>1, <3>2
  <2>5. ac'.obuf \in Seq(Requests)
    <3> HIDE DEF Requests
    <3> QED BY <1>4, <1>5, <1>6
  <2> QED BY <1>1, <1>5, <1>7, <2>1, <2>2, <2>3, <2>4, <2>5 DEF PlainInv, PlainType
<1>10. WaitInv'
  <2>1. ASSUME NEW i \in DOMAIN ac'.replies, NEW j \in DOMAIN ac'.replies, i < j
        PROVE  ac'.replies[i] < ac'.replies[j]
    <3>1. /\ DOMAIN ac'.replies = 1 .. Len(ac.replies) + 1
          /\ DOMAIN ac.replies = 1 .. Len(ac.replies) /\ Len(ac.replies) \in Nat
          /\ \A k \in 1 .. Len(ac.replies) : ac'.replies[k] = ac.replies[k]
          /\ ac'.replies[Len(ac.replies) + 1] = id
      BY <1>4, <1>5, <1>6
    <3>2. i \in DOMAIN ac.replies /\ ac'.replies[i] = ac.replies[i] /\ ac.replies[i] \in Waiting
      <4>1. i \in 1 .. Len(ac.replies)
        BY <2>1, <3>1
      <4> QED BY <3>1, <4>1 DEF Waiting
    <3>3. CASE j \in DOMAIN ac.replies
      BY <2>1, <3>1, <3>2, <3>3 DEF PlainInv, WaitInv
    <3>4. CASE j = Len(ac.replies) + 1
      BY <1>8, <3>1, <3>2, <3>4
    <3> QED BY <3>1, <3>3, <3>4
  <2>2. /\ DOMAIN told' = 1 .. id /\ DOMAIN told = 1 .. Len(asked)
        /\ \A i \in DOMAIN told : i # id /\ i \in DOMAIN told' /\ told'[i] = told[i]
        /\ told'[id] = "nothing" /\ \A i \in DOMAIN told' : i \in DOMAIN told \/ i = id
    BY <1>1, <1>4
  <2> HIDE DEF id
  <2>3. \A i \in DOMAIN told' : told'[i] = "nothing" <=> i \in Waiting'
    BY <1>8, <2>2 DEF PlainInv, WaitInv
  <2>4. \A i \in heard' : i \in DOMAIN told' /\ told'[i] # "nothing"
    BY <1>1, <2>2 DEF PlainInv, WaitInv
  <2> QED BY <2>1, <2>3, <2>4 DEF WaitInv
<1>11. Where' = Where /\ ac.alive
  BY <1>1 DEF Where, Mine
<1>12. CallInv' /\ ErrInv' /\ (PendingInv => PendingInv') /\ (Flowing' => Flowing)
  <2>1. Where # "release"
    BY <1>1 DEF IInv, ContextInv, Ended, Ending
  <2> QED BY <1>1, <1>5, <1>11, <2>1
       DEF PlainInv, CallInv, ErrInv, PendingInv, Flowing
<1>13. SUFFICES ASSUME Flowing, QueueInv, ErrorInv PROVE ErrorInv' /\ QueueInv'
  BY <1>9, <1>10, <1>12 DEF PlainInv, LineInv
<1>14. /\ Ids(ac.obuf)' = Ids(ac.obuf) \cup {id}
       /\ Live => Rising(ac.obuf)'
  <2>1. /\ Ids(ac'.obuf) = Ids(ac.obuf) \cup {id}
        /\ Rising(ac.obuf) /\ Ahead(Ids(ac.obuf), {id}) => Rising(ac'.obuf)
    BY ZenonT(30), <1>4, <1>5, <1>6, IdsAppended
  <2>2. Live => Rising(ac.obuf) /\ Ahead(Ids(ac.obuf), {id})
    BY <1>8, <1>13 DEF QueueInv, InLine, ToWrite, Ahead
  <2> QED BY <2>1, <2>2, Primed
<1>15. /\ HasError(ac.inbuf)' => HasError(ac.inbuf)
       /\ HasError(net.down)' => HasError(net.down)
       /\ Rising(ac.inbuf)' /\ Rising(net.down)' /\ Rising(net.up)'
  BY <1>1, <1>5, <1>13, Primed DEF QueueInv
<1>16. ToWrite' = IF Live THEN ToWrite \cup {id} ELSE ToWrite
  BY <1>7, <1>14 DEF ToWrite
<1>17. ErrorInv'
  BY <1>7, <1>13, <1>15, <1>16 DEF ErrorInv, Coming
<1>18. QueueInv'
  <2>1. ASSUME NEW A, NEW B, NEW C, NEW D, InLine(A, B, C, D, Waiting)
        PROVE  /\ InLine(A, B, C, D, Waiting \cup {id})
               /\ Waiting \subseteq A \cup B \cup C \cup D
                     => InLine(A, B, C, D \cup {id}, Waiting \cup {id})
    <3>1. \A q \in A \cup B \cup C \cup D : q < id /\ ~(id < q)
      BY <1>6, <1>8, <2>1 DEF InLine
    <3> HIDE DEF id
    <3>2. Ahead(A \cup B \cup C \cup D, {id})
      BY <3>1 DEF Ahead
    <3>3. InLine(A, B, C, D, Waiting \cup {id})
      BY <2>1, <3>1 DEF InLine
    <3> QED BY <2>1, <3>2, <3>3 DEF InLine, Ahead
  <2>2. /\ InLine(Ids(ac.inbuf), Ids(net.down), ToServe, ToWrite, Waiting)
        /\ Live => Waiting \subseteq Coming
    BY <1>13 DEF QueueInv
  <2>3. InLine(Ids(ac.inbuf), Ids(net.down), ToServe, ToWrite', Waiting')
    BY <1>8, <1>16, <2>1, <2>2 DEF Coming
  <2>4. InLine(Ids(ac.inbuf), Ids(net.down), ToServe, ToWrite, Waiting)'
    BY <1>7, <2>3 DEF InLine, Ahead
  <2>5. (Live => Waiting \subseteq Coming)'
    BY <1>7, <1>8, <1>16, <2>2 DEF Coming
  <2> QED BY <1>7, <1>14, <1>15, <2>4, <2>5 DEF QueueInv
<1> QED BY <1>17, <1>18

(* The server's answer to the next command, and what it says unasked.      *)
LEMMA ServedOn ==
  ASSUME NEW A, NEW B, NEW C, NEW D, NEW W, NEW M, Ahead(M, C), InLine(A, B, C \cup M, D, W)
  PROVE  InLine(A, B \cup M, C, D, W) /\ Ahead(B, M)
BY DEF InLine, Ahead

LEMMA ServesPlain == ASSUME PlainProgram, IInv, IInv', PlainInv, ServerServes PROVE PlainInv'
<1> DEFINE c == Head(net.up)
<1>1. /\ net.up # <<>> /\ net.up \in Seq(Requests) /\ net.down \in Seq(Answers)
      /\ ac.inbuf \in Seq(Answers) /\ ac.obuf \in Seq(Requests)
      /\ DOMAIN net = {"peer", "up", "down"} /\ DOMAIN srv = {"subs", "monitor", "extras"}
      /\ net.peer = "open" /\ Live
      /\ UNCHANGED <<options, ac, pc, now, tick, asked, told, heard>> /\ back' = back
  BY DEF ServerServes, PlainInv, PlainType, Up, Live, local, history
<1>2. c \in Requests /\ Tail(net.up) \in Seq(Requests)
  <2> HIDE DEF Requests
  <2> QED BY <1>1
<1>3. c.kind = "regular" /\ c.id \in Nat /\ Expects(c)
  <2>1. \A op \in options.ops : op.kind = "regular"
    BY DEF PlainProgram, IInv, Shape
  <2> HIDE DEF c
  <2> QED BY <1>2, <2>1 DEF Requests, Expects
<1>4. Total(srv.subs) = 0
  <2>1. srv.subs["channel"] = {} /\ srv.subs["pattern"] = {}
    BY DEF PlainInv, PlainType, Variants
  <2>2. Cardinality({}) = 0
    BY FS_EmptySet
  <2> QED BY <2>1, <2>2 DEF Total
<1>5. PICK big \in BOOLEAN :
        /\ net' = [net EXCEPT !.up = Tail(@),
                              !.down = Append(@, [kind |-> "reply", id |-> c.id, v |-> "none",
                                                  push |-> FALSE, big |-> big])]
        /\ srv' = [srv EXCEPT !.monitor = @ \/ c.kind = "monitor"]
  <2>1. (c.kind = "regular" /\ asked[c.id].big) \in BOOLEAN
    OBVIOUS
  <2>2. c.kind \notin {"subscribe", "unsubscribe"} /\ ~(Total(srv.subs) > 0)
    BY <1>3, <1>4
  <2>3. /\ net' = [net EXCEPT !.up = Tail(@),
                              !.down = Append(@, [kind |-> "reply", id |-> c.id, v |-> "none",
                                                  push |-> FALSE,
                                                  big |-> c.kind = "regular" /\ asked[c.id].big])]
        /\ srv' = [srv EXCEPT !.monitor = @ \/ c.kind = "monitor"]
    BY <2>2, Zenon DEF ServerServes
  <2> HIDE DEF c
  <2> QED BY <2>1, <2>3
<1> DEFINE x == [kind |-> "reply", id |-> c.id, v |-> "none", push |-> FALSE, big |-> big]
<1> HIDE DEF c
<1>6. x \in Answers /\ Expects(x) /\ x.id = c.id /\ x.kind = "reply"
  BY <1>3 DEF Answers, Expects
<1>7. /\ net'.up = Tail(net.up) /\ net'.down = Append(net.down, x) /\ net'.peer = net.peer
      /\ DOMAIN net' = DOMAIN net /\ DOMAIN srv' = DOMAIN srv /\ srv'.subs = srv.subs
      /\ ~srv'.monitor
  BY <1>1, <1>3, <1>5 DEF PlainInv, PlainType
<1> HIDE DEF x
<1>8. PlainType' /\ WaitInv' /\ Waiting' = Waiting
  <2>1. net'.down \in Seq(Answers) /\ net'.up \in Seq(Requests)
    <3> HIDE DEF Answers, Requests
    <3> QED BY <1>1, <1>2, <1>6, <1>7
  <2> QED BY <1>1, <1>7, <2>1, QueuesMove, PlainPlaces
<1>9. Where' = Where
  BY <1>1 DEF Where
<1>10. CallInv' /\ ErrInv' /\ (Flowing' => Flowing) /\ PendingInv'
  BY <1>1, <1>7, <1>9 DEF PlainInv, CallInv, ErrInv, Flowing, PendingInv
<1>11. SUFFICES ASSUME QueueInv, ErrorInv PROVE ErrorInv' /\ QueueInv'
  BY <1>8, <1>10 DEF PlainInv, LineInv
<1>12. /\ Ids(net.up) = Ids(Tail(net.up)) \cup {c.id}
       /\ Rising(Tail(net.up)) /\ Ahead({c.id}, Ids(Tail(net.up)))
  BY <1>1, <1>3, <1>11, IdsTaken DEF c, QueueInv
<1>13. /\ Ids(Append(net.down, x)) = Ids(net.down) \cup {c.id}
       /\ Ahead(Ids(net.down), {c.id}) => Rising(Append(net.down, x))
       /\ HasError(Append(net.down, x)) => HasError(net.down)
  BY <1>1, <1>6, <1>11, IdsAppended DEF QueueInv
<1>14. /\ Live' = Live /\ ToServe = Ids(Tail(net.up)) \cup {c.id} /\ ToServe' = Ids(Tail(net.up))
       /\ ToWrite' = ToWrite /\ Ids(ac.inbuf)' = Ids(ac.inbuf)
       /\ Ids(net.down)' = Ids(net.down) \cup {c.id}
  BY <1>1, <1>7, <1>12, <1>13, Primed DEF Live, ToServe, ToWrite
<1>15. Coming' = Coming
  BY <1>14 DEF Coming
<1>16. ErrorInv'
  BY <1>1, <1>7, <1>11, <1>13, <1>14, <1>15, Primed DEF ErrorInv
<1>17. /\ InLine(Ids(ac.inbuf), Ids(net.down) \cup {c.id}, Ids(Tail(net.up)), ToWrite, Waiting)
       /\ Ahead(Ids(net.down), {c.id})
  BY <1>11, <1>12, <1>14, ServedOn DEF QueueInv
<1>18. /\ Rising(ac.inbuf)' /\ Rising(net.down)' /\ Rising(net.up)'
       /\ Live' => Rising(ac.obuf)'
  BY <1>1, <1>7, <1>11, <1>12, <1>13, <1>14, <1>17, Primed DEF QueueInv
<1>19. QueueInv'
  BY <1>8, <1>11, <1>14, <1>15, <1>17, <1>18 DEF QueueInv, InLine, Ahead
<1> QED BY <1>16, <1>19

LEMMA PushesPlain == ASSUME IInv, IInv', PlainInv, ServerPushes PROVE PlainInv'
<1> DEFINE x == [kind |-> "push", v |-> "none", push |-> TRUE]
<1>1. /\ net.up \in Seq(Requests) /\ net.down \in Seq(Answers)
      /\ ac.inbuf \in Seq(Answers) /\ ac.obuf \in Seq(Requests)
      /\ DOMAIN net = {"peer", "up", "down"} /\ DOMAIN srv = {"subs", "monitor", "extras"}
      /\ net.peer = "open" /\ Live
      /\ UNCHANGED <<options, ac, pc, now, tick, asked, told, heard>> /\ back' = back
      /\ srv' = [srv EXCEPT !.extras = @ + 1]
      /\ net' = [net EXCEPT !.down = Append(@, x)]
  BY DEF ServerPushes, Says, PlainInv, PlainType, Up, Live, local, history
<1>2. x \in Answers /\ ~Expects(x) /\ x.kind = "push"
  BY DEF Answers, Expects
<1>3. /\ net'.up = net.up /\ net'.down = Append(net.down, x) /\ net'.peer = net.peer
      /\ DOMAIN net' = DOMAIN net /\ DOMAIN srv' = DOMAIN srv /\ srv'.subs = srv.subs
      /\ ~srv'.monitor
  BY <1>1 DEF PlainInv, PlainType
<1> HIDE DEF x
<1>4. PlainType' /\ WaitInv' /\ Waiting' = Waiting
  <2>1. net'.down \in Seq(Answers)
    <3> HIDE DEF Answers
    <3> QED BY <1>1, <1>2, <1>3
  <2> QED BY <1>1, <1>3, <2>1, QueuesMove, PlainPlaces
<1>5. Where' = Where
  BY <1>1 DEF Where
<1>6. CallInv' /\ ErrInv' /\ (Flowing' => Flowing) /\ PendingInv'
  BY <1>1, <1>3, <1>5 DEF PlainInv, CallInv, ErrInv, Flowing, PendingInv
<1>7. SUFFICES ASSUME QueueInv, ErrorInv PROVE ErrorInv' /\ QueueInv'
  BY <1>4, <1>6 DEF PlainInv, LineInv
<1>8. /\ Ids(Append(net.down, x)) = Ids(net.down)
      /\ Rising(Append(net.down, x))
      /\ HasError(Append(net.down, x)) => HasError(net.down)
  BY <1>1, <1>2, <1>7, IdsAppended DEF QueueInv
<1>9. /\ Live' = Live /\ ToServe' = ToServe /\ ToWrite' = ToWrite
      /\ Ids(ac.inbuf)' = Ids(ac.inbuf) /\ Ids(net.down)' = Ids(net.down)
  BY <1>1, <1>3, <1>8, Primed DEF Live, ToServe, ToWrite
<1>10. Coming' = Coming
  BY <1>9 DEF Coming
<1>11. ErrorInv'
  BY <1>1, <1>3, <1>7, <1>8, <1>9, <1>10, Primed DEF ErrorInv
<1>12. /\ Rising(ac.inbuf)' /\ Rising(net.down)' /\ Rising(net.up)'
       /\ Live' => Rising(ac.obuf)'
  BY <1>1, <1>3, <1>7, <1>8, <1>9, Primed DEF QueueInv
<1>13. QueueInv'
  BY <1>4, <1>7, <1>9, <1>10, <1>12 DEF QueueInv, InLine, Ahead
<1> QED BY <1>11, <1>13

(* There are no subscriptions to publish to and nothing to monitor.        *)
LEMMA SaysNothingElse == ASSUME PlainInv PROVE ~ServerPublishes /\ ~ServerShowsCommand
BY DEF PlainInv, PlainType, ServerPublishes, ServerShowsCommand

(* What breaks off a connection takes with it.                             *)
LEMMA ConnectionEndsPlain == ASSUME IInv, IInv', PlainInv, ConnectionEnds PROVE PlainInv'
<1> DEFINE x == [kind |-> "error", id |-> 0, v |-> "none", push |-> FALSE]
<1>1. /\ net.up \in Seq(Requests) /\ net.down \in Seq(Answers)
      /\ ac.inbuf \in Seq(Answers) /\ ac.obuf \in Seq(Requests)
      /\ DOMAIN net = {"peer", "up", "down"} /\ DOMAIN srv = {"subs", "monitor", "extras"}
      /\ net.peer = "pending" /\ Live
      /\ UNCHANGED <<options, ac, pc, now, tick, srv, asked, told, heard>> /\ back' = back
  BY DEF ConnectionEnds, PlainInv, PlainType, Live, local, history
<1>2. x \in Answers /\ ~Expects(x)
  BY DEF Answers, Expects
<1>3. /\ net'.up = net.up /\ net'.peer # "pending" /\ DOMAIN net' = DOMAIN net
      /\ net'.down = net.down \/ (net'.down = <<x>> /\ net'.peer = "shut")
  BY <1>1 DEF ConnectionEnds
<1> HIDE DEF x
<1>4. <<x>> \in Seq(Answers) /\ Ids(<<x>>) = {} /\ Rising(<<x>>)
  <2> HIDE DEF Answers
  <2>1. <<x>> \in Seq(Answers) /\ DOMAIN <<x>> = {1} /\ <<x>>[1] = x
    BY <1>2
  <2> QED BY <1>2, <2>1 DEF Ids, Rising
<1>5. PlainType' /\ WaitInv' /\ Waiting' = Waiting
  <2>1. net'.down \in Seq(Answers)
    BY <1>1, <1>3, <1>4
  <2> QED BY <1>1, <1>3, <2>1, QueuesMove, PlainPlaces DEF PlainInv, PlainType
<1>6. Where' = Where
  BY <1>1 DEF Where
<1>7. CallInv' /\ ErrInv' /\ (Flowing' => Flowing) /\ PendingInv'
  BY <1>1, <1>3, <1>6 DEF PlainInv, CallInv, ErrInv, Flowing, PendingInv
<1>8. SUFFICES ASSUME QueueInv, ErrorInv, PendingInv PROVE ErrorInv' /\ QueueInv'
  BY <1>5, <1>7 DEF PlainInv, LineInv
<1>9. ac.inbuf = <<>> /\ net.down = <<>> /\ net.up = <<>>
  BY <1>1, <1>8 DEF PendingInv
<1>10. Ids(<<>>) = {} /\ Rising(<<>>) /\ ~HasError(<<>>)
  BY DEF Ids, Rising, HasError
<1>11. /\ Ids(ac.inbuf) = {} /\ Ids(net.down) = {} /\ ToServe = {}
       /\ Ids(ac.inbuf)' = {} /\ Ids(net.down)' = {} /\ ToServe' = {}
       /\ ToWrite' = IF Live' THEN ToWrite ELSE {}
  BY <1>1, <1>3, <1>4, <1>9, <1>10, Primed DEF ToServe, ToWrite
<1>12. /\ Rising(ac.inbuf)' /\ Rising(net.down)' /\ Rising(net.up)'
       /\ Live' => Rising(ac.obuf)'
  BY <1>1, <1>3, <1>4, <1>8, <1>9, <1>10, Primed DEF QueueInv
<1>13. ErrorInv'
  <2>1. CASE net'.down = net.down
    BY <1>1, <1>9, <1>10, <2>1, Primed DEF ErrorInv
  <2>2. CASE net'.peer = "shut"
    BY <1>11, <2>2 DEF ErrorInv, Live, Coming
  <2> QED BY <1>3, <2>1, <2>2
<1>14. QueueInv'
  <2>1. CASE Live'
    BY <1>1, <1>5, <1>8, <1>11, <1>12, <2>1 DEF QueueInv, InLine, Ahead, Coming
  <2>2. CASE ~Live'
    BY <1>11, <1>12, <2>2 DEF QueueInv, InLine, Ahead
  <2> QED BY <2>1, <2>2
<1> QED BY <1>13, <1>14

LEMMA ClosesPlain == ASSUME IInv, IInv', PlainInv, ServerCloses PROVE PlainInv'
<1>1. /\ net.up \in Seq(Requests) /\ net.down \in Seq(Answers)
      /\ ac.inbuf \in Seq(Answers) /\ ac.obuf \in Seq(Requests)
      /\ DOMAIN net = {"peer", "up", "down"} /\ DOMAIN srv = {"subs", "monitor", "extras"}
      /\ Live /\ net'.peer \in {"shut", "reset"} /\ DOMAIN net' = DOMAIN net
      /\ net'.up = net.up /\ net'.down = net.down
      /\ UNCHANGED <<options, ac, pc, now, tick, srv, asked, told, heard>> /\ back' = back
  BY DEF ServerCloses, PlainInv, PlainType, Up, Live, local, history
<1>2. PlainType' /\ WaitInv' /\ Waiting' = Waiting
  BY <1>1, QueuesMove, PlainPlaces DEF PlainInv, PlainType
<1>3. Where' = Where
  BY <1>1 DEF Where
<1>4. CallInv' /\ ErrInv' /\ (Flowing' => Flowing) /\ PendingInv'
  BY <1>1, <1>3 DEF PlainInv, CallInv, ErrInv, Flowing, PendingInv
<1>5. SUFFICES ASSUME QueueInv, ErrorInv PROVE ErrorInv' /\ QueueInv'
  BY <1>2, <1>4 DEF PlainInv, LineInv
<1>6. /\ Ids(ac.inbuf)' = Ids(ac.inbuf) /\ Ids(net.down)' = Ids(net.down)
      /\ ToServe' = {} /\ ToWrite' = {} /\ ~Live'
      /\ HasError(ac.inbuf)' \/ HasError(net.down)' => HasError(ac.inbuf) \/ HasError(net.down)
      /\ Rising(ac.inbuf)' /\ Rising(net.down)' /\ Rising(net.up)'
  BY <1>1, <1>5, Primed DEF Live, ToServe, ToWrite, QueueInv
<1>7. ErrorInv'
  BY <1>1, <1>5, <1>6 DEF ErrorInv
<1>8. QueueInv'
  <2>1. ASSUME NEW A, NEW B, NEW C, NEW D, InLine(A, B, C, D, Waiting)
        PROVE  InLine(A, B, {}, {}, Waiting)
    <3>1. A \cup B \cup C \cup D \subseteq Nat
      <4>1. Waiting \subseteq 1 .. Len(asked)
        BY DEF PlainInv, PlainType
      <4>2. A \cup B \cup C \cup D \subseteq Waiting
        BY <2>1 DEF InLine
      <4>3. 1 .. Len(asked) \subseteq Nat
        OBVIOUS
      <4> QED BY <4>1, <4>2, <4>3
    <3>2. ASSUME NEW r \in Waiting, NEW q \in A \cup B, r < q PROVE r \in A \cup B
      <4>1. r \in A \cup B \cup C \cup D
        BY <2>1, <3>2 DEF InLine
      <4>2. CASE r \in C \cup D
        <5>1. q < r
          BY <2>1, <4>2 DEF InLine, Ahead
        <5>2. q \in Nat /\ r \in Nat
          BY <3>1, <4>1
        <5> QED BY <3>2, <5>1, <5>2
      <4> QED BY <4>1, <4>2
    <3> QED BY <2>1, <3>2 DEF InLine, Ahead
  <2>2. InLine(Ids(ac.inbuf), Ids(net.down), {}, {}, Waiting)
    BY <1>5, <2>1 DEF QueueInv
  <2> QED BY <1>2, <1>6, <2>2 DEF QueueInv, InLine, Ahead
<1> QED BY <1>7, <1>8

-----------------------------------------------------------------------------
(* All steps of plain programs.                                            *)

LEMMA PlainStarts == Init => PlainInv
<1> SUFFICES ASSUME Init PROVE PlainInv
  OBVIOUS
<1>1. /\ asked = <<>> /\ told = <<>> /\ heard = {} /\ pc = "new" /\ Where = "new"
      /\ now.reply = NoReply
      /\ ac.replies = <<>> /\ ac.subReplies = <<>> /\ ac.inbuf = <<>> /\ ac.obuf = <<>>
      /\ ac.alive /\ ~ac.cleanup /\ ac.err = "none" /\ ac.flags \subseteq {"NO_AUTO_FREE"}
      /\ \A v \in Variants : ac.subs[v] = dictInit /\ srv.subs[v] = {}
      /\ ~srv.monitor /\ DOMAIN srv = {"subs", "monitor", "extras"}
      /\ net = [peer |-> "pending", up |-> <<>>, down |-> <<>>]
      /\ tick.visited = 0 /\ ~tick.out
  BY DEF Init, redisAsyncInitialize, Where
<1>2. net.down = <<>> /\ net.up = <<>> /\ DOMAIN net = {"peer", "up", "down"}
  BY <1>1
<1>3. /\ Ids(<<>>) = {} /\ Rising(<<>>) /\ ~HasError(<<>>) /\ Waiting = {}
  BY <1>1 DEF Ids, Rising, HasError, Waiting
<1>4. \A S : <<>> \in Seq(S)
  OBVIOUS
<1>5. PlainType
  BY <1>1, <1>2, <1>3, <1>4 DEF PlainType
<1>6. WaitInv /\ CallInv /\ ErrInv
  BY <1>1, <1>3 DEF WaitInv, CallInv, ErrInv, NoReply
<1>7. PendingInv /\ ErrorInv
  BY <1>1, <1>2, <1>3 DEF PendingInv, ErrorInv, Busy
<1>8. QueueInv
  BY <1>1, <1>2, <1>3 DEF QueueInv, InLine, Ahead, ToServe, ToWrite
<1> QED BY <1>5, <1>6, <1>7, <1>8 DEF PlainInv, LineInv

LEMMA PlainNext == ASSUME PlainProgram, IInv, IInv', PlainInv, [Next]_vars PROVE PlainInv'
<1>1. CASE Library
  BY <1>1, AttachPlain, SetCallbackPlain, ReturnPlain, PendingPlain, DisconnectCallbackPlain,
     FreePlain, NoMoreRepliesPlain, PushPlain, ReplyPlain, SpontaneousErrorPlain,
     NoSubscribedCallback, ProcessedPlain, NextHandlerPlain, HandleConnectPlain,
     ConnectFailedPlain, ConnectDonePlain, ReadPlain, WritePlain, TimeoutPlain, LatePlain
     DEF Library
<1>2. CASE redisPollTick
  BY <1>2, TickPlain DEF PlainProgram
<1>3. CASE Program
  BY <1>3, AsyncFreePlain, AsyncDisconnectPlain, CommandPlain DEF Program
<1>4. CASE World
  BY <1>4, ServesPlain, PushesPlain, SaysNothingElse, ConnectionEndsPlain, ClosesPlain, TimePlain
     DEF World
<1>5. CASE UNCHANGED vars
  BY <1>5, PlainSame DEF vars, history
<1> QED BY <1>1, <1>2, <1>3, <1>4, <1>5 DEF Next, Done

LEMMA PlainInvariant == Spec => [](PlainProgram => IInv /\ PlainInv)
<1> DEFINE Plain == PlainProgram => IInv /\ PlainInv
<1>1. Init => Plain
  BY InitInv, PlainStarts
<1>2. Plain /\ [Next]_vars => Plain'
  <2> SUFFICES ASSUME Plain, [Next]_vars, PlainProgram' PROVE IInv' /\ PlainInv'
    OBVIOUS
  <2>1. PlainProgram
    BY OptionsKept DEF PlainProgram, Careful
  <2>2. IInv'
    BY <2>1, NextInv DEF PlainProgram
  <2> QED BY <2>1, <2>2, PlainNext
<1> QED BY <1>1, <1>2, PTL DEF Spec

(* Every callback of a program that gives regular commands, and does not   *)
(* tick a context with an error, is told the reply to its own command, or  *)
(* NULL when the context goes before it comes: once, and none is left out, *)
(* however many commands are under way, whatever the server pushes in      *)
(* between, wherever the connection breaks and whichever callback frees    *)
(* the context or disconnects.  Replies carry no number: that the order of *)
(* redisAsyncContext's list is the order of the replies is all that        *)
(* __redisShiftCallback() goes by.                                         *)
THEOREM RepliesToTheirOwn == Spec => [](PlainProgram => OwnReply)
<1>1. PlainInv => OwnReply
  <2> SUFFICES ASSUME PlainInv PROVE OwnReply
    OBVIOUS
  <2>1. pc = "callback" /\ now.reply.kind = "reply" => now.id = now.reply.id
    BY DEF PlainInv, CallInv
  <2>2. \A id \in DOMAIN told : told[id] # "twice"
    <3>1. told \in Seq({"nothing", "reply", "NULL"})
      BY DEF PlainInv, PlainType
    <3> QED BY <3>1
  <2>3. \A id \in heard : told[id] # "nothing"
    BY DEF PlainInv, WaitInv
  <2>4. ~ac.alive => \A id \in DOMAIN told : Regular(id) => told[id] # "nothing"
    <3> SUFFICES ASSUME ~ac.alive PROVE \A id \in DOMAIN told : told[id] # "nothing"
      OBVIOUS
    <3>1. ac.replies = <<>>
      BY DEF PlainInv, CallInv
    <3>2. Waiting = {}
      BY <3>1 DEF Waiting
    <3> QED BY <3>2 DEF PlainInv, WaitInv
  <2> QED BY <2>1, <2>2, <2>3, <2>4 DEF OwnReply
<1> QED BY <1>1, PlainInvariant, PTL

(* No assertion of async.c fails on such programs: no clean disconnect     *)
(* finds a callback that waits (async.c:436), and no reply comes to a      *)
(* context that has none (async.c:629).                                    *)
THEOREM NoAssertionFails == Spec => [](PlainProgram => TypeOK)
<1>1. DictOK(dictInit)
  <2>1. FlattenSeq(<<>>) = <<>>
    BY Zenon DEF FlattenSeq
  <2>2. Len(<<>>) = 0 /\ 1 .. 0 = {}
    OBVIOUS
  <2>3. dictInit.used = 0 /\ dictInit.table = <<>> /\ dictInit.size = 0
    BY DEF dictInit
  <2>4. dictInit.used = Len(Entries(dictInit)) /\ Len(dictInit.table) = dictInit.size
    BY <2>1, <2>2, <2>3 DEF Entries
  <2>5. 1 .. dictInit.size = {}
    BY <2>2, <2>3
  <2> QED BY <2>4, <2>5 DEF DictOK
<1>2. PlainInv => TypeOK
  BY <1>1 DEF PlainInv, PlainType, CallInv, Where, TypeOK
<1> QED BY <1>2, PlainInvariant, PTL
=============================================================================
