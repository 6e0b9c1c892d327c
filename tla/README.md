# Verification of the NetworkProgramming-Homework chat servers

This directory holds TLA+ specifications of the two servers of the repository,
`src/homework3` and its predecessor `src/homework2_V2`, and of the Redis client
library that is built with them, `src/homework3/hiredis-1.1.0`.  They are
model-checked with TLC and, where it matters most, proved with TLAPS.

## 1. The system

`homework3` is a multi-user chat server with a small shell, mail and chat
groups.  Clients connect to TCP port 6001 with a line-based client such as
telnet; accounts, mail and groups are kept in Redis.

| Part | Source (`src/homework3/`) | State | Operations |
|---|---|---|---|
| Main loop | `src/main.c`, `c_infoFunc.c` | `list[MAX_CLIENT]` (id, name, address of each slot), `s_fifofd[]`, `c_fifofd[]`, `all_fds`, `max_fd` | accept + login + fork + open two FIFOs; `who`, `tell`, `yell`, `name`, `gyell`, `quit`; EOF of a child |
| Child server | `src/strProcess.c` | its socket and two FIFO ends, `fd_set`, `cname` | one exchange per command line, reading of messages, quit |
| Shell | `src/shell.c`, `processingStr.c`, `parse.c`, `npfunc.c`, `exec.c`, `ownCmdHandler.c` | list of numbered pipes, pipes and children, the environment | parse a line, pipes, `cmd\|n`, `setenv`/`printenv` |
| Login | `src/login.c` | Redis string per account, `user_list` | prompt loop, register, check the password |
| Mail | `src/mailBox.c` | Redis list per account | `mailto`, `listMail`, `delMail` |
| Groups | `src/group.c` | Redis sorted set per group, `groupList` | `createGroup`, `delGroup`, `addTo`, `leaveGroup`, `remove`, `listGroup`, `gyell` |
| Redis connection | `src/redis.c` | one `redisContext rc` and one `reply`, opened before any fork | `redisCommand` from main and from every child |
| Signals | `src/my_signal.c` | - | SIGCHLD handler without SA_RESTART |
| hiredis, blocking | `hiredis-1.1.0/hiredis.c`, `net.c`, `read.c`, `sds.c` | `redisContext`: socket, `obuf`, reader with its stack of tasks, error | connect, append, write, read, parse, reconnect, free |
| hiredis, asynchronous | `async.c`, `dict.c`, `adapters/poll.h` | `redisAsyncContext`: callbacks, subscriptions, flags; the adapter's events | command, tick, disconnect, free, callbacks |

How they interact.  Main forks one child per client.  For slot `i`, main writes
`/tmp/server.i` and the child reads it; the child writes `/tmp/client.i` and
main reads it.  Both are byte streams without message boundaries.  A command
that needs main is an exchange: command word, acknowledgement (an int),
argument, perhaps a second acknowledgement and argument, perhaps a reply.  Main
performs its half with *nested blocking* reads and writes inside the scan of
its `select` loop.  Broadcasts to a slot travel in the same pipe as that slot's
acknowledgements and replies.  Every process that was ever forked shares the
Redis connection opened by `initRedis()`.

`homework2_V2` is the earlier version of the same server: no login, no Redis,
no `gyell`, no SIGCHLD handler (the call is commented out), a `fork()` that
nobody checks.

### What makes it hard

Interleavings of main and the children over unframed pipes; state sampled
before a command and used after it; a session ending in the middle of somebody
else's broadcast; slots and FIFO names reused; system calls interrupted by
SIGCHLD; full pipes; one Redis connection shared by forked processes;
check-then-act on Redis; lines typed ahead into a dialogue that takes one
`read()` for one line; bytes that come in pieces of any size; callbacks that
end the context they run in.  The list with source lines is `hazards` in
`PROJECT.json`.

### What would make it correct

- Main loop and children: the three arrays agree about every slot; nobody's
  messages reach somebody else; an exchange is not confused by traffic of other
  clients; main is never left waiting; one client's departure does not end the
  server for the others; no descriptor is used after its number was reused.
- Login and mail: an account, once there, keeps its password;
  accounts are listed; numbers identify mails; deleting one deletes that one.
- Shell: the receiver of a line gets what its commands produce; pipelines end;
  `cmd|n` feeds the n-th next line; a session does not run out of descriptors.
- Groups: only the owner changes a group, and does so while still the owner;
  `groupList` names exactly the groups that exist.
- Redis connection: a call returns, with the reply to its own command.
- hiredis: commands and replies arrive whole, once and in order whatever the
  pieces; no socket is lost; each callback is told its own reply once; nothing
  that was freed is used; what is to end ends.

## 2. The modules

| Module | What it is | Code |
|---|---|---|
| `Sessions` | main and all child servers over the two pipes of each slot | `main.c`, `c_infoFunc.c`, `strProcess.c`, `my_signal.c` |
| `SessionsProperties` | its properties, and the mapping to `Seating` | |
| `Seating` | abstract: the client table as a set of numbered seats | |
| `SessionsV2` | the predecessor, composed from the steps of `Sessions` it shares | `homework2_V2/src/main.c`, `strProcess.c` |
| `Descriptors` | the same main loop, seen as numbers of descriptors | `main.c` |
| `Accounts` | the login dialogue and the mail commands over one key space | `login.c`, `mailBox.c` |
| `Shell` | one line after another, its processes, pipes and descriptors | `shell.c`, `processingStr.c`, `parse.c`, `npfunc.c`, `exec.c`, `ownCmdHandler.c`, `my_signal.c`, `mailBox.c` |
| `Groups` | group commands of all children, at the grain of Redis commands | `group.c`, `register_user` |
| `RedisCalls` | abstract: a call returns its own reply | |
| `SharedRedis` | the one connection and its forked contexts | `redis.c`, `hiredis.c` |
| `Sds`, `Format`, `Reader` | byte strings, the formatter and the parser, as operators | `sds.c`, `hiredis.c`, `read.c` |
| `Context` | a context from connect to free over those three | `hiredis.c`, `net.c` |
| `Dict`, `Async` | the asynchronous context, its subscriptions and the poll adapter | `dict.c`, `async.c`, `adapters/poll.h` |
| `*Proofs` | theorems and proofs | |
| `MC*` | instances for TLC | |

Definitions keep the names of the C functions they translate; the exact lines
are in `PROJECT.json`, `map`.  Operators that begin with the comment "Bug:" are
plausible wrong versions of the definition after them, used to show that a
property can fail.

### Sessions

`mpc` is main's program counter: `select`, `login`, `openS`/`openC` (the two
blocking `open()`s), `scan` (the `for` loop over `read_fds`, `ready` being what
is left of the sample), `arg` (a nested blocking read), `deliver` (the writes of
a tell, yell or gyell, one a step), `dead`, `undefined`.  A child's `pc` runs
from `new` and `pending` (in the listen queue) through `opening`/`openingW` to
`loop`, and then `ack`, `reply`, `drain`, `busy`, `leaving`, `gone`.

Data.  A pipe from a child holds a sequence of *words*, one for each write; a
read returns all of them joined, which is how two writes become one unknown
command.  A pipe from main holds *units*, one the size of an `int`: an
acknowledgement is one unit, any other message two, so that a child that reads
an acknowledgement may take half a message for it.  Reads and writes of a pipe
are atomic; a write that does not fit waits.

- `Meet` moves main and a child blocked in its own `open()` together, because
  either call is what the other waits for.
- `Write` is one `write(s_fifofd[i], ...)`: it waits for room, and without a
  reader it is SIGPIPE and the end of main.
- `Exit` is any end of a child; it may set `intr`, the SIGCHLD that makes main's
  blocking call return EINTR.  `Handler` says whether `set_signal_action()` has
  been called: it is in `homework3`, it is commented out in `homework2_V2`.
- `PromptExit` is an assumption about scheduling, not a fact of the code: a
  child that has written `quit` closes its ends before main gives its slot to
  another client.  It is FALSE in the runs `shared` and `v2`.
- `lost` is the write end that main still has open after `open()` has
  overwritten `s_fifofd[i]` (the EOF path neither closes nor clears it).
- `holder`, `mixed` and `bare` are history: who last sat in a slot; whose
  exchange has met a stray write (a broadcast in the middle of it, a command
  joined to another) or a read that SIGCHLD interrupted; and which clients have
  left an argument empty, so that their child wrote nothing, or out, so that it
  died (`strProcess.c:74`, `:86`, `:100`).  The properties about exchanges are
  about the clients outside both sets: what the runs show is that nothing *else*
  disturbs them.  An empty argument does: see "Further facts" in section 3.

`login()` is abstracted to its outcomes here (`Login`, `LoginWhenFull`,
`LoginHangup`), and which groups exist to the constant `Members`.  After main's
death only the deaths of the children are of interest and modelled.  Not in the
model: ids outside the table in `tell`, EINTR on a blocked write, partial
writes.

### SessionsV2

Uses the actions of `Sessions` for everything the two servers do alike.  Its
own: `Accept` (no login, a new client is "no_name", the table is looked at
without a check that it is full), a `fork()` whose failure is not checked (main
then blocks in `open()` for a child that does not exist), and zombies, because
nothing waits for them.

### Descriptors

Which numbers `s_fifofd[]`, `c_fifofd[]` and `all_fds` hold, when the kernel
gives out the lowest free one.  `accept()` takes a number first, which
`close(connectfd)` gives back; two stay with the client.  Unused slots hold -1
and the scan evaluates `FD_ISSET(-1, ...)` for them; as built (gcc, no
optimisation, x86-64) this tests bit 63, the constant `AliasBit`.  `most` and
`hangups` are history.  Seating a client when the table is full is undefined
behaviour and left to Sessions.

### Accounts

Main holds the dialogue with one client at a time; `inbox` is what that client
has sent and main has not read, lines that may come joined, and `hung` that it
is gone.  Every step is one `read()` or one Redis command and the code up to
the next.  Strings, mailboxes (`<name>noMailBox`) and `user_list` share one key
space, `db`, so that an account can be named like another's mailbox or like
`user_list`; the empty name is a key like any other.  A read may give an empty
line: the client sent one, or has hung up, or a child server ended while main
waited, whose SIGCHLD interrupts the read (`my_signal.c:10`).  `unlisted` and `blurred` are history: accounts whose LPUSH never
came because main ended at a hang-up, and mailboxes whose numbering a deletion
or two senders between LLEN and LPUSH have disturbed.  `delMsg` is
`delMail()`'s buffer, which is passed to LREM even when it was never filled
(it then holds what the last call left there, or `NoMail`).

### Shell

A line is its parts between bars; a command is the number of bytes it writes,
or `Echo`.  `ParseLine` is what happens before the first process, `Pipe` and
`Fork` and `Wait` are `ExecArgsPipe()` for one command, `Exec`, `CommandEnds`
and `sigchld_handler` are the rest of the world's.  The SIGCHLD handler may reap
the command before `waitpid()` does, which then leaves `status` as it was.  A
pipe holds `Cap`; a command that writes more waits for a reader that is only
started after it has ended.  `list` is what `subServer()` holds, `local` what
`shell()` makes of its by-value parameter.  `dest` is the client, or the pipe of
`mailto n < line`.

### Groups

Each step is one Redis command and the code up to the next.  `snap`, `keep`,
`todo`, `num` are the local data a command carries from one Redis command to
the next: that they may be stale is the point.  A command that is refused at
its first Redis command has no step.  `upset` is history: a group gets into it
when one of five *named causes* in the code strikes.

1. An account has the group's name, or `register_user` does a SET over a group.
2. `addTo` gives the next member the score *members + 1*, which after
   departures can be no higher than the owner's: the new one is the owner.
3. The owner removes itself with `remove`.
4. `leaveGroup` acts on a count of members that is no longer true: two members
   that leave at once leave a listed group nobody can create, delete or leave,
   and a non-member's leaveGroup racing an addTo unlists a live one.
5. The message that `delGroup` writes between DEL and ZREM ends the child.

The properties hold for every group no cause has struck, so each cause is
reported in the model's own terms and everything else is shown to be safe.
`OneSession` is an assumption of the properties: the code lets an account log
in twice, and then its two sessions can undo each other's checks.  Replies are
taken to reach their own caller; when they do not is `SharedRedis`'s business.
Left out: ZSCAN's pattern matching, a group called `groupList`, the order of
`groupList`, `listGroup` (reads only).

### SharedRedis

`obuf` and `rbuf` are the output buffer and the reader of a process's copy of
`rc`; `requests` and `replies` the two directions of the only socket.  The
order is hiredis': append the command; if the reader has a reply return it at
once, otherwise write the buffer and read whatever the socket has.  A reply is
represented by its command.  `overlap` is chosen at the start: in executions
where it is FALSE no process starts a call while another is in one.  Replies are
not split by a read here (they are in `Context`).

### Sds, Format, Reader, Context

One hiredis context, byte for byte.  `Sds` is `sds.c` as operators: header
types whose length fields wrap, preallocation, `sdscatlen`, `sdscatfmt`,
`sdsrange`; the limits of the types are constants.  `Format` is
`redisvFormatCommand()` and `redisFormatSdsCommandArgv()`: the scan of a
printf-like format with its flags, width and length modifiers, and the length
that is computed before the command is built.  `Reader` is `read.c` with the
reply-object functions of `hiredis.c`: a task stack for nested replies,
`pos`/`buf` with the discarding of consumed bytes, the buffer that is freed when
it grew too large, every RESP2 and RESP3 type.

`Context` is the state machine: `c` the context, `pc` where the library is in
the call the program made, `net` by descriptor both directions of a socket as
bytes.  `send()` and `recv()` move one, some or all bytes, are interrupted, time
out or fail; an address fails and the next is tried; `connect()` is refused, or
under way.  The program connects in one of the ways `Options` lists (TCP, Unix
socket, own descriptor; blocking or not; SO_REUSEADDR and a source address; a
push callback or none), appends commands, asks for replies, writes and reads by
itself, reconnects and frees.  `appended`, `served`, `answered` and `handed` are
what the properties compare.

### Dict, Async

`Dict` is the chained hash table with its growing and its order of entries.
`Async` has commands and replies whole.  `pc` is where the one thread is in the
library, `callback` while one of the program's callbacks runs; the library goes
on at `back`.  `redisPollTick()` is the actions `redisPollTick`, `NextHandler`
and what they lead to: `HandleConnect`, `redisAsyncRead`, `redisAsyncWrite`,
`redisAsyncHandleTimeout`, then `redisProcessCallbacks()` one iteration at a
time, and the end: `Disconnect`, `RunPending`, `RunDisconnectCallback`,
`redisFree`.  In a callback, and outside of one, the program may ask, disconnect
or free (`redisAsyncCommand`, `redisAsyncDisconnect`, `redisAsyncFree`).  The
event functions of the adapter mark its memory "used" when it was freed, which
is what `NothingFreedIsUsed` excludes.  `asked`, `told`, `heard` and `notes` are
history.

What the code gets wrong here is in the model and kept out of the passing run by
a *named* restriction of the program:

- `freeInPush`: `redisAsyncFree()` from the push callback is not noticed
  (`async.c:596-600` against `:411-414`); with it `Freed` fails.
- `separate`: `pending_subs` is carried over to the next name of a SUBSCRIBE
  (`async.c:881-886`), and a pending unsubscription's entry is found again by a
  re-subscription (`:909`, `:914`); a context can then stay SUBSCRIBED, and in
  RESP2 an array of three or more is taken for a message (`:479`) and dropped,
  or, if it does not begin with a string, fails the assertion of `:484`
  (`NoMessage`).  With replies of that size and requests that are not separated
  `OwnReply` fails, and so does `TypeOK`, which excludes a failed assertion.
- A program that monitors asks nothing else, and ends with `redisAsyncFree()`:
  the monitor's callback is put back for ever (`async.c:653-655`), so that a
  disconnect waits for ever.
- The number of commands is bounded, and with it callbacks that ask again from
  `redisAsyncHandleTimeout()`, which would be called at once and for ever
  (`async.c:804-806`).
- `Freed` is not claimed with REDIS_OPT_NOAUTOFREE, with which
  `redisAsyncFree()` inside a failed connect's callback is forgotten
  (`async.c:449`).
- `ticksOn`: with REDIS_OPT_NOAUTOFREE a context with an error is still there,
  its events have been freed, and `ac->ev.data` still points to them
  (`poll.h:122`); a program that ticks it makes the adapter use them
  (`poll.h:54-66`).  With `ticksOn` and that option `NothingFreedIsUsed` fails;
  a context that frees itself is gone by then.

## 3. The runs

| Run | Instance | What it shows |
|---|---|---|
| `seats` | 3 clients, 2 slots, tell/yell, 3 requests, all departures | `TableInv`, `OneChildPerSlot`, `OwnMessagesOnly`, `InStep`, `DiesOnlyAfterDeparture`; `SeatsSpec`: the table implements `Seating` |
| `live` | 2 clients, every command, arguments also empty and missing, 2 requests, fairness | `InStep`; `Answered`: every wait ends, unless one of the reasons in `Stuck` holds |
| `shared` | 3 clients, children slow to exit | **violated** `OneChildPerSlot`: a finding |
| `v2` | homework2_V2: 2 clients, who/name, arguments also empty and missing, 3 requests, children slow to exit, failing forks, fairness | `Undisturbed`: as long as the table has never been full, such clients never meet each other's exchanges, and main ends only when a child has died of a `name` without its argument; `NamesDistinct`; `Accepted`: whoever connects is accepted |
| `leak` | 3 slots, descriptors 5-15, bit 12 | `NoAliasing`, `Accounted`, `DiesLate` |
| `users` | one client at the prompts, two sessions with mail; 5 lines and mail commands in all, interrupted reads | `AccountsListed`, `Numbered`, `PasswordsStay`, `MailKept` |
| `shell` | 3 of 23 lines, pipes of 3 bytes, 10 descriptors, fairness | `Delivered`, `NumberedNeverRun`, `LeaksOnePerCommand`; `Finishes` |
| `race` | 3 children, one group, 6 commands in all, and a newcomer called like the group | `StillOwner`, `Agreement`, `ChangedByOwner`, `AccountsStay` |
| `redis` | main and 2 children, 3 calls each, fairness | without overlap `CleanContexts`, `CallsSpec` (implements `RedisCalls`), `Returns`; with it `AnswerElsewhere`: what a starved call waits for is in another process |
| `reply` | the same | **violated** `OwnReply`: a finding |
| `protocol` | a context in six ways, up to two commands, connections, pushes, malformed replies | `CommandsArrive`, `RepliesInOrder`, `SocketsOwned`, `NothingWithheld` |
| `async` | seven programs and servers, up to four commands, fairness | `TypeOK` (no assertion fails), `OwnReply`, `NothingFreedIsUsed`, `Notified`, `MessagesArrive`; `Freed` |

Bounds.  *Sessions*: `MaxReq` bounds the requests of a client, `Cap` a pipe.
Two clients are enough for every disturbance of an exchange (one acts, one is
met); three are needed for a slot's old child, its new client and a third one.
Two requests each let a command follow one whose trace is still in the pipe; a
`Cap` of 6 units lets a child that does not read be written full.  The clients
of `seats` are interchangeable and declared symmetric; no liveness property is
checked with symmetry.  *Descriptors*: `Limit` is lower than a real process's
1024 so that exhaustion is reached.  *Accounts*: five lines make a registration
after a failed login, and with two interrupted reads a login to the new account
too; three mail commands make a mail, another and a deletion, or two senders at
once and a deletion, and leave two lines of a registration that is under way.  One of
the names typed is another's mailbox key, one is `user_list`'s.  *Shell*: lines
whose commands write nothing, less, as much and more than a pipe holds, fail,
read, or cannot be found, numbered and own ones; three lines make the first
command that outlives its descriptors possible, ten descriptors run out.
*Groups*: six commands in all let a group be made, joined, left and joined again
with a low score while others act; a group's state depends on no other group, so
one suffices, and the proof covers the rest.  *SharedRedis*: two forked children
and three calls each; a reply goes astray with two.  *Context*: all sizes are
scaled down (string types change at 2, 8, 32 and 128 bytes, integers end at 8,
buffers of 4 to 8 bytes), so that every boundary is crossed with commands and
replies of a dozen bytes; `send()` moves 5 bytes or all, `recv()` one or all.
*Async*: two channels whose hashes collide, a pattern; each of the seven
programs has its own small bounds, and they differ in what may happen: timeouts,
breaks, pushes, RESP3, subscriptions in one command or several, monitoring.

Deadlock is not checked where a system may stop: clients stop, and main's death,
a full pipe or a stolen reply may stop the rest; where stopping would be wrong a
property says so (`Answered`, `Accepted`, `Returns`, `NotStranded`, `Finishes`).
It is checked in `protocol` and `async`.

Fairness.  `Sessions` and `SessionsV2` assume weak fairness of main's steps and
of each child's: they are processes the kernel schedules, and their steps are
enabled when their system calls can return.  Nothing is assumed of clients
(whether they type, answer the login prompt, or leave) nor of a shell command's
end.  `SharedRedis` assumes that Redis serves what is in the socket and that a
read with data returns.  `Shell` assumes that the child server goes on and that
commands end when they can; nothing ends the server's standard input.  `Async`
assumes that the library's steps and the program's callbacks are run and that
the program ticks, that a connection attempt ends, and that the server reads
what it is sent; it may or may not answer in time, say more, or close.

### Findings

- `shared`: the FIFOs belong to the slot, not to the child.  A child that is
  slow to exit after `quit` satisfies `open()` for the next client of the slot,
  and two children end up on one pair of pipes.
- `reply`: two processes in Redis calls at the same time can get each other's
  replies: for the groups this means a permission decided by somebody else's
  answer.

Further facts that the models show without contradicting anything the
repository says:

- An empty argument stops the server, without any stray write or departure.  A
  client that types `tell`, `yell` or `name` with one makes its child write no
  bytes (`strProcess.c:74`, `:86`, `:100`).  After `yell`, main stays in its
  nested read (`main.c:183`) until that client types another command; after
  `tell` or `name` the child waits for main's answer (`main.c:170`, `:172`, `:196`) and
  both wait for ever.  Meanwhile nobody else is served or accepted.  This is the
  set `bare`, which `InStep` and `Answered` name; both fail without it, and they
  show that main waits in vain for no other reason but a stray write or an
  interrupted read.
- Main ends when a broadcast meets a departure (`DiesOnlyAfterDeparture`); a
  plain `quit` while main is in `open()` for another client ends main through
  EINTR.
- Once a client's pipe has the descriptor `FD_ISSET(-1)` stands for, any request
  of that client ends main if a slot is free.  With the real bit this takes 29
  clients at once, or fewer clients and as many hang-ups as the difference
  (`DiesLate` has the sum).
- Numbered pipes never work: `list` is passed by value (`shell.c:13`), so what
  was remembered is lost before the next line (`NumberedNeverRun`).
- A child server loses one descriptor a command (`exec.c:11-43`), so a session
  ends after about a thousand of them (`LeaksOnePerCommand`); a command that
  writes more than a pipe holds to the next one hangs the session
  (`exec.c:35`; the guard of `Finishes`).
- The excuses that `AccountsListed`, `Numbered` and `MailKept` name: a hang-up
  between SET and LPUSH, an account called like a key, deletions and two senders
  at once, an unfilled `delMsg`.
- Two ends of `net.c` leave a context without an error (`net.c:498`, `:540`,
  which `hiredis.c:870` tells the caller to look at); `redisReconnect()` of a
  context made from a descriptor connects by TCP (`hiredis.c:789`); a conversion
  longer than its buffer becomes text (`hiredis.c:469-478`).  REDIS_OPT_* for
  PREFER_IPV4 and NOAUTOFREE, and for PREFER_IPV6 and NO_PUSH_AUTOFREE, are the
  same bits (`hiredis.h:157`), which `RepliesInOrder` excuses by name.
- The five causes of Groups, and the restrictions of Async in section 2.

## 4. What is proved

All for arbitrary constants that meet the named `ASSUME`s.

- **Sessions.**  `TypeCorrect`; `TableCorrect`: `TableInv`, inductive on top of
  the types, one lemma an action.  `SeatsCorrect`: under `PromptExit`,
  `SeatInv`; `TableInv` says nothing of who sits where, so it must be
  strengthened by the place of every child that is starting or at work, by
  where main is while a child opens its pipes, and by the fact that a lone
  `quit` in a pipe belongs to a child that has ended: that is what keeps
  main's reading of `quit` from freeing a slot in use.  `OneChild` follows from
  the first of these.  `SeatingImplemented`: each action maps to a step of
  `Seating` or leaves the seats alone; `Vacate` needs `SeatInv`.
  `DiesAfterDeparture` rests on: a pipe main can write to has had a reader
  (`open()` returns only when there is one), so without one its child has gone.
  `OwnMessages`, for `PromptExit`, on: a slot whose ends main has closed has an
  empty pipe, and one whose ends are both good holds only its present client's
  messages; only the EOF path, which closes one end (`main.c:144`), is neither.
  `ExchangesInStep`, for `PromptExit`: `InStep` says what a pipe holds when both
  ends are waiting, and is not inductive; `ExchangeInv` says of each client
  outside `mixed` and `bare` what both pipes hold wherever its child is.  It needs
  `SeatInv`, both as to the children (`ChildSeats`: nobody else writes into these
  pipes) and as to the slots in use (`HolderSeats`: what main waits for belongs
  to a client whose child has been started).
- **SessionsV2.**  Both theorems assume `SessionsV2Assumption` (no handler, all
  begin with the name `no_name`), which the run's module assumes of its
  instance.  `NamesStayDistinct` needs no strengthening but the types.
  `QuietClientsUndisturbed`: clients that use who, name and the shell
  (`QuietClients`), whatever follows `name`, and children that exit promptly;
  `QuietInv` says that nobody is ever in `mixed`, that whatever is in a slot's
  pipes, but for a lone `quit`, belongs to an exchange in progress, and that main
  is in `arg` only for such an exchange: hence no write meets another exchange,
  and the one write that can meet a pipe without a reader is main's answer to a
  `name` whose child has died of the missing argument (`Stranded`).  The run `v2`
  has the same commands and children slow to exit; that is the one thing in which
  the run says more, for two clients and two slots.
- **Groups.**  `GroupsCorrect`: for one session an account, `GroupInv` is
  inductive.  It is a statement per group: a group in the hands of a child
  between two updates is listed, empty, and in no other child's hands
  (`OneUpdate`); that is what makes `StillOwner` (no second child can become
  owner meanwhile) and `Agreement` inductive together.  `OwnersAct`,
  `ListAgrees`, `MembershipByOwner` and `AccountsKept` follow.
- **SharedRedis.**  `ContextsClean`: without overlap all buffers are empty
  between calls and at most one command is in the socket.
  `CallsImplemented`: hence `RedisCalls` is implemented.
  `AnswersAccountedFor` is about calls that do overlap.  The invariant counts:
  the calls that read are at most as many as the commands and replies in the
  socket and the replies and unsent commands the processes keep (`Covered`, with a
  subset of the kept ones so that nothing is counted for a process twice); a
  starving call keeps nothing itself (`AllSent`), so somebody else does.
- **Descriptors.**  The invariant is `TypeOK`, `NoAliasing`, `Accounted`,
  `DiesLate` and *most >= the number of seated clients*.  `NoAliasing` does not
  survive without knowing that a new number is not open; `DiesLate` rests on
  the lemma that the lowest free number is at most First plus the number of busy
  ones, and on `Accounted` for how many those are.  Theorems `TypeCorrect`,
  `TablesTrue`, `LeakCounted`, `LifeBounded`.
- **Accounts.**  `ListComplete`: `AccountsListed`.  It is not inductive without
  two facts: between GET and SET the name that is being registered is still
  free (main is the only process that registers), and what mail does to the
  keys it touches never makes or unmakes a string and never touches `user_list`.
  `PasswordsKept`: `PasswordsStay`, an action property from the same invariant;
  the first of the two facts is what makes SET safe, the second what makes LPUSH
  and LREM.  `MailNumbered` and
  `OnlyOwnersDelete` add to it `MailInv`: the type of what mailboxes hold, for a
  mailbox that is not `blurred` that it has at most one sender past its LLEN and
  that this sender's number is the mailbox's length (`NumInv`; without it the LPUSH
  could use any number), and that what a child is about to delete is what it has
  looked for (`DeleteInv`).  What LREM leaves of a list is a recursive function;
  `WithoutKeeps` is proved of it by induction over the naturals.
- **Shell.**  `NeverRun`: `list` stays empty, because only `local` is ever added
  to, and no line begins with a numbered command; hence no remembered command is
  run, whatever was typed.  `LeakCounted`: `used` exceeds the descriptors that
  are accounted for by an amount that depends on `pc` alone: two at a pipe, one
  more while a command runs, two for mail's own pipe.  `OutputDelivered`:
  `Progress` compares the server with `After(line)`, what the parts of the line
  should have done one after another: before a command ends the receiver has what
  the parts before it give and `fdd` holds what the last of them wrote; after it,
  what the parts up to it give.  `AfterIs` unfolds that recursive function, by
  induction.  Nothing is assumed of lines but that they are not empty.
- **Sds, Format, Context** (`ContextProofs`).  `CatLenExact` and
  `CatPieceExact`: for any limits of the header types, appending never loses a
  byte to a length field, since a string is moved to a larger type before its
  field would wrap.  The invariant of a string, `Sound`, is `SdsOK` and what
  type 1, whose field is a bit narrower, holds at most.  `DropFirstExact`:
  dropping from the front leaves exactly the rest, what both ends of a context
  rely on.  From these `FormatArgvExact` and `FormattedExact`, by induction over
  the arguments: both formatters build the command's bytes, of the length that
  was computed before.
  `NoSocketLost`: `SocketsOwned`; `SockInv` adds which descriptors the context
  can have where the library is, and what state their sockets are in.
  `ServerReadsCommands`: `Talk` says that what is in the socket on its way up,
  followed by the output buffer, is what the server is still owed, the commands
  appended and not served, and that a context that is not connected yet has said
  nothing.  That the server takes the next command and no other out of these
  bytes is `WireTells`: no command is the beginning of another, because a
  number's digits and the CRLF after them determine it (`Decimal` is one to one),
  then the number of bulks, the length of each and its bytes, one after another.
  The theorem has one hypothesis, `CallsMean`: a call's format and arguments
  spell the vector the program wrote them for, and an invalid format spells
  none; no invariant can give that, it says what the constant `Calls` means by
  its `argv`.  `MCContext` assumes it of the calls of the run `protocol`, so TLC
  evaluates it: this is where the scan of the formats is checked.
  `RepliesUnsplit`: what `redisGetReply()` returns does not depend on how the
  bytes were cut into reads.  `Ahead` relates a reader that has already consumed
  part of an item to one that has every byte still before it; a line or a bulk
  that is not there yet leaves the reader where it was (`LineAgrees`,
  `BulkAgrees`), one item more is the same item for both (`StepAgrees`), and items
  are handled one after another until bytes are missing, an item fails or the
  stack is empty (`ItemsGo`, by induction over the fuel of the loop).
  `ReaderStaysSound`: in every state of `Spec` the reader is as the parser expects
  it: positions within the buffer, a stack no deeper than the tasks allocated,
  and items that wait for elements (`ReadInv`).  It uses `ServerAssumption`, that
  a server sends characters, which TLC evaluates in the run `protocol`.
  `RepliesStayInOrder` and `NothingIsWithheld`: `RepliesInOrder` and
  `NothingWithheld`, from the invariant `Order`.  Neither property is inductive:
  what was given out is right, but nothing in it says that what comes next will
  be.  `Order` therefore says what is owed (`Unbroken`): there are pieces of
  bytes, one for each reply that was said and not given, such that the parser,
  with the bytes on their way, goes on exactly as a fresh parser does through
  those pieces (`Resumes`, which is about the parser's future and so survives
  whatever the parser is in the middle of).  `RepliesUnsplit`'s lemmas keep it
  when bytes are read (`ResumesFed`), when the server says more (`ResumesSaid`),
  when the parser stops for want of bytes (`ResumesNext`) and when it gives a
  reply (`ResumesMade`, `ResumesAnew`).  Besides, only a malformed reply can have
  made an error, nothing is said before there is a connection, and a program
  waits only with a parser that was asked and had no reply (`Idle`), which is
  what makes a wait with nothing on its way a proof that all was given.  The
  hypothesis of both is `RepliesParse`: the bytes of one reply alone, in one piece,
  parse to that reply and leave nothing, and malformed bytes alone parse to no
  reply.  It is about single values of `Encode`, a recursive function, and says
  nothing of order, of several replies or of pieces; `MCContext` assumes it, so
  TLC computes it for every reply and every malformed text of the run `protocol`.
- **Async.**  `LibraryUsesNothingFreed`: the invariant says, for each place the
  library can be in, that the context is still there; that `cleanup` is set
  exactly while the adapter is attached and not marked deleted; and that in
  the middle of a tick (`stage`) the adapter's memory stays, because
  `redisPollCleanup()` only marks it.  Whatever was cleaned up without an error
  is DISCONNECTING or FREEING, which is why no command reaches the adapter after
  its end.  `ConnectionNotified`: with CONNECTED exactly when the connect
  callback was run, and the disconnect callback only on the way to
  `redisFree()`.  The actions fall into those that keep memory and notes as they
  are (`Quiet`), and `__redisAsyncDisconnect()` (`DisconnectKeeps`); programs,
  subscriptions and servers are arbitrary, but for programs with `ticksOn`
  (`Careful`).
  `RepliesToTheirOwn` and `NoAssertionFails` are about executions in which the
  program's commands are regular ones (`PlainProgram`: no SUBSCRIBE, UNSUBSCRIBE
  or MONITOR; any number of commands, callbacks that ask, disconnect and free,
  pushes, timeouts, broken connections, RESP2 and 3).  Replies carry no number,
  so `PlainInv` has to say that the callbacks that wait are in the order in which
  their replies will come: along the reader's buffer, the way down, the way up
  and the output buffer (`QueueInv`), with nothing left out while the connection
  lives, no error in between (`ErrorInv`), and every callback told at most once
  (`WaitInv`, `CallInv`).

Induction over the naturals is used through the lemma `Induction`, which states
it with a set: the library's theorem takes an operator, which the provers here
cannot instantiate, so it is derived from a fact about finite sets (an injection
of a finite set into itself is onto).

Only model-checked.  Liveness (`Answered`, `Accepted`, `Returns`, `Finishes`,
`Freed`) is out of the prover's reach.  That the parser undoes
what a server's encoder does to one reply (`RepliesParse` above) would be an
induction over a tree of replies of any depth; it is computed for the run's
replies.  What `Parsed` makes of a format (`CallsMean` above) is likewise checked
for the run's calls.  `MessagesArrive`, and `OwnReply` and `TypeOK` of Async for
programs that subscribe, are checked in the run's seven programs: outside of
their restrictions they fail (section 2, `separate`).  Without `PromptExit` the
run `shared` refutes what `SeatsCorrect` rests on, and `InStep` is not claimed.
The type invariants of Sessions, Groups, SharedRedis and Descriptors are proved
and no run repeats them.

## 5. The plan

What is left, the most important first.

1. Proofs: the message properties of Async for one subscription at a time.
2. A run of `Sessions` in which two slots have one name: `gyell` sends by name
   (`main.c:226`), the one listed hazard no property covers.
3. Composition: Groups and Accounts over SharedRedis (calls that do not overlap
   give them their assumption).
4. Liveness of `Context` under a server that answers.

## 6. What is not modelled, and why

- Listing and printing commands (`listGroup`, `listMail`, `printenv`, `clear`)
  change no state.  Sizes of buffers of the servers and the wording of messages
  are abstracted; writes outside of arrays (`malloc(8)` for a part of a line,
  `char id[4]` of `delMail`, more words than an array holds) are undefined
  behaviour with no state to model.
- The recursion of the login dialogue and the buffers it never frees have no
  effect but the use of memory.
- Of hiredis: failing `malloc()`, keep-alive, `ssl.c`, the Windows layer,
  adapters other than `poll.h` (each is glue to an event library that is not
  here), functions of `sds.c` and `hiredis.c` that nothing in the repository
  calls, callbacks that are NULL, `test.c`, examples and benchmarks.
- Build files and committed binaries have no behaviour of their own; the
  Makefile's flags (no optimisation) are used by `Descriptors`.
