# ft_irc, specified

TLA+ models of `ircserv`, the IRC server under `src/src` and `src/includes`:
what it keeps, what a line from a client does to it, how its event loop turns
bytes into lines, and what becomes of the answers.  The prototype server its
loop grew out of is modelled too.  TLC checks the models on small instances;
TLAPS proves their invariants and most of their laws for any number of clients,
descriptors, nicknames, channels and messages.

## The system

`ircserv` is one process with one thread.  `SocketServer` polls the sockets,
cuts what arrives into lines and hands each line to `MessageTranslator`, which
works on two singletons, `Everyone` (the users) and `Channel` (the channels),
and answers through `Sender`.  Nothing is written to disk: a restart forgets all.

| component | state | operations | talks to |
|---|---|---|---|
| `SocketServer` | `poll_fds_`, `message_buffer_`, `indices_to_remove` | accept, receive, split, close, sweep | `MessageTranslator::Execute`, `Everyone::IsCreated`, `DeleteUser` |
| `MessageTranslator` | command table, passwords | one handler per command, behind one gate | `Everyone`, `Channel`, `Sender` |
| `Everyone` | records per descriptor, `everyone_nickname_`, `nick_list_` | create, delete, PASS, NICK, USER, joined channels | `Channel::LeaveChannel` when a user goes |
| `Channel` | per name: members, operators, invited, modes, key, limit, topic | join, leave, kick, invite, mode, topic, text | `Everyone` for registration and the joined list, `Sender` |
| `Sender` | what `sendResponse` has on its stack | format, `send` until done or refused | the socket |
| `ErrorCode` | none | code to text, `is_nick` | |
| `IntrusivePtr`, `RefCounted` | a count per singleton | copy, assign, destroy | |
| sample server (`yyamasak/sample_socket/server`) | `poll_fds_`, `message_buffer_`, the Parser's `clients_` | as `SocketServer`, with PASS, NICK, USER, QUIT in `Parser` | |

What is hard about it, and what makes each part correct:

* **Everything is keyed by the file descriptor**, and descriptors are reused at
  once.  Whatever is not forgotten when a connection ends (buffer, user,
  membership, rank, invitation) belongs to the next client.
* **Membership is kept twice**, in the user's record and in the channel, and
  `DeleteUser` trusts the record.  Both must always agree.
* **Nicknames are kept three times**, and a rename updates two of them.  The
  nickname a user has must still lead to that user.
* **Registration is three commands in any order**, and two handlers share the
  refusal of the orders that leave out the password.
* **MODE applies its letters one by one** and may stop in the middle: bits and
  the values they guard must still agree.
* **The stream is cut anywhere**, clients vanish at any moment, lines come in
  packs, a zero byte ends a C string; the scan collects indices that it uses
  after erasing.  Lines must come out as they were sent, and nobody may be
  dropped for a neighbour.
* **One thread sends to everybody** over sockets that fill up or are reset: it
  must not hang on one client, and what a client gets must make sense.

`hazards` in PROJECT.json has these one by one, with the line and the
properties about each.

## Modules

| module | models | of |
|---|---|---|
| `Everyone` | the registry and, as `EveryoneSpec`, what a client of the class may do with it | `Everyone.cpp` |
| `Channel` | the channels: the effect, the answer and the messages of each method | `Channel.cpp` |
| `ChatRooms` | what the channels promise, without commands or records: who enters, leaves, rules, is invited | abstract |
| `MessageTranslator` | the dispatcher on top of both: one step is one line, or one departure | `MessageTranslator.cpp` |
| `SocketServer` | the event loop, its clients and the kernel between them | `SocketServer.cpp` |
| `Sender` | `sendResponse`, piece by piece, over sockets with limited room | `Sender.cpp` |
| `Delivery` | what a client may rely on in its stream | abstract |
| `IntrusivePtr` | the counted pointers to the singletons, and `GetInstance` | `IntrusivePtr.h`, `RefCounted.cpp` |
| `SampleServer` | the prototype's loop and Parser | `yyamasak/sample_socket/server` |
| `EveryoneProofs`, `MessageTranslatorProofs`, `RoomsProofs`, `StepsProofs`, `SocketServerProofs`, `SenderProofs`, `IntrusivePtrProofs`, `SampleServerProofs` | theorems | |
| `MCEveryone`, `MCTranslator`, `MCSocketServer`, `MCSender`, `MCSampleServer`, `MCIntrusivePtr` | small instances | |

`MessageTranslator` extends `Channel`, which extends `Everyone`: the three share
their variables as the classes share the singletons.  Three abstract
specifications are implemented by detailed ones:

* `EveryoneSpec` by `MessageTranslator` (`RegistryContract`): whatever handlers
  do, the registry is used as its own specification says;
* `ChatRooms` by `MessageTranslator` (`RoomsContract`), with
  `members[c]` the `joined_player` of channel `c`, `operators[c]` its
  `is_master`, `guests[c]` the connected part of `register_player`, `closed`
  the channels with mode `i`;
* `Delivery` by `Sender` (`StreamContract`), on the streams themselves.

### How the state corresponds

In `Everyone`, `Channel` and `MessageTranslator`:

* A record (`struct Someone`) is split into one function per field, indexed by
  the connection: `level`, `nick_name` (its last element), `join_channel`, and
  the sets `everyone_id` and `is_admin`.  A connection without a record has the
  values `CreateUser` would give it, so "create it if it is missing, then use
  it" is one formula.  `everyone_nickname` maps a nickname to the record it
  points to; a pointer to a deleted record is `Dangling`.
* `channels[c]` is the `ChannelInfo` of the name `c`; `NoChannel` is a name
  without entry, `Bare` the empty entry `operator[]` makes.
* `alive`, `actor` and `sent` are not in the code: whether the process runs,
  whose line the last step was, and what it sent.  The properties about who is
  told what speak of `sent`.
* A handler is one action: its guard is the gate in `Execute`, its refusals are
  the `...Answer` operator of the method it calls (one IF per early return, in
  the order of the code), its effect the method's `After...`.
* Undefined behaviour is a choice among what the program can do.  Following the
  `end()` iterator gives a number that is no client's, or ends the process;
  following a dangling pointer may also give any client, since the memory may
  hold another record by then.  `box[0]` of no words, and copying from the null
  record WHOIS can insert, end the process.
* `BrokenPipe` is what `send` may do to the dispatcher: if a receiver of the
  last step's messages has reset its connection, SIGPIPE ends the process.  It
  is a step of its own, after the line or departure that sent something, and
  hides what that line's handler had still to do, since nothing outlives the
  process.
* The answers of `Answers` and `TooFewWords` are the early returns that change
  nothing, for lines with too few words.

In `SocketServer`, `pc` and `i` say where the thread is; `owner` and `backlog`
are the kernel's, `inbox` is the socket's receive queue.  One server step is one
system call with the bookkeeping around it, or one executed line; clients
connect, send a byte, close or reset between any two.  A chunk is appended as
the code appends it, as a C string, so a zero byte hides what follows it, and a
chunk that starts with one looks like the end of the connection.  A line is
reduced to what the loop looks at, whether it makes or deletes the user.

In `Sender`, `call` is one run of `sendResponse`: receiver, length,
`bytes_sent`, and as history the room in the socket when it began.  One step is
one `send`: the kernel takes any part of the rest there is room for, refuses
(full, or reset), or takes bytes for a peer that is gone, which it throws away;
the latter may also raise SIGPIPE (`send` is called without `MSG_NOSIGNAL`, and
nothing in the program ignores the signal), which ends the process: `Sender`
then stops, and says nothing of it; what it means for the server is `BrokenPipe`
in `MessageTranslator`.

In `SampleServer`, `slots` is the memory of the vector and `size` how much of it
counts: `closeClient` erases during the scan, after which the same index is the
neighbour or the slot behind the end, whose old value is still there.  `erase`
of the end iterator crashes or drops the last element, whoever that is: an open
connection, or the listening socket.

In `IntrusivePtr` each method is a function from heap to heap, and a call that
runs several of them (`GetInstance`, a constructor) is their composition.  Its
clients do all that the template offers; the server only makes objects in
`GetInstance` and only assigns to pointers that are still null.

## Runs

| run | instance | distinct states, about | shows |
|---|---|---|---|
| `membership` | 3 clients, 2 channels and an illegal name; SKIP NICK JOIN PART KICK MODE o PRIVMSG WHOIS QUIT, lines that are only answered | 77 000 | the two sides of membership agree, rank goes with membership, nobody is moved but by an operator, those who stay are told; the process ends only in the ways listed in `EndsOnlyBy`; the dispatcher implements `EveryoneSpec` |
| `modes` | 2 clients, 1 channel, all letters and a wrong one, 1 number, the topic set and emptied | 157 000 | mode bits and what they guard agree wherever MODE stopped; only operators change a channel; invitations are spent; a limit that is kept stays kept; the channels implement `ChatRooms` |
| `protocol` | 3 clients, a channel and a name that is too long; PASS to QUIT in every order, with too few words too | 175 000 | registration is gated, nickname indexes agree with the records, one welcome per registration, no channel before it; channel messages stay inside |
| `event_loop` | 3 connections, 2 descriptors, chunks of 3, a zero byte, fair thread | 308 000 | lines are reassembled exactly and executed in the end, a reused descriptor inherits nothing, the poll list is exact, nobody is dropped without a reason, dead connections are closed |
| `delivery` | 2 clients, 3 bytes of room, 3 messages of 2 or 4 bytes, fair thread | 232 000 | every client's stream is one `Delivery` allows, what fits arrives whole, no client holds up the thread |
| `sample_server` | 3 connections, 2 descriptors, 1 nickname, 3 lines | 1 614 000 | with indices that are off by one, poll still watches only open descriptors, none twice, but no longer all of them: `WrongIndexCost` says which are lost; nicknames stay unique over entries left behind |
| `pointers` | 2 members, 3 locals, 3 objects | 2 900 | counts are exact, nothing is used after its deletion or forgotten, the singleton stays the same |

Each property is broken by a mutant of the code it watches (`\* mutant:` in the
modules): a forgotten erase, a dropped guard, a loop that stops early, a sweep
from the wrong end.

Why the bounds are enough:

* The hazards of the protocol need at most an operator, a member and an outsider
  (3 clients), a nickname to give up, one to take and one in use (3 nicknames),
  and a second channel for the loop over a user's channels.  The command sets
  split the protocol by question, because the state space of all commands
  together is out of reach; every command that changes state is in at least one,
  and the proofs are for all `Commands` at once.  `modes` needs no third client:
  the target of +o or of an invitation is the other one.  Its only limit is 1;
  `Numbers` may hold any integers, and that negative ones (`+l -1`, which the
  code takes) change nothing is left to the theorems.
* `EndsOnlyBy` is checked without BLANK: a step does not tell its command, so
  that where blank lines are possible every end might be one of them.
* `event_loop`: three connections on two descriptors make reuse and double
  removals happen.  The scripts hold a zero byte before an empty line, a
  carriage return, a QUIT with an unfinished line behind it, and a client that
  only connects and goes.  `BUFFER_SIZE = 3` makes chunks shorter and longer
  than a line, the split of `\r\n` included.
* `delivery`: 3 bytes of room are less than one message and more than another,
  so messages are cut by a full socket, taken in pieces, and follow cut ones.
* `sample_server`: the off-by-one needs a neighbour and an end of the list (two
  descriptors) and a connection to inherit an entry (a third client).
* `pointers`: three locals are what an assignment between two pointers needs
  beside a third that shares or does not share their object.

The bounds are `Script` (bytes), `MaxMessages`, `MaxLines`; nothing else is
capped.  Clients, well-formed nicknames and, in the sample server, descriptors
are interchangeable, which the symmetry sets say; the runs with liveness use
none.  No run checks deadlock: the process may end by a crash, and the loops may
sleep in poll when all clients are done.

`JoinLimit` is 10 as in the code and not reached with two channels.  SKIP is the
code's own shortcut through registration.  SetOpePass and `is_admin` are the
tests' only: `CreateUser` is always called with flag 0, so the administrator's
branches are in the operators but no run reaches them.

### Fairness

`SocketServer` has weak fairness of `ServerStep`, `Sender` of `Send`: the
thread runs its loop, and its next step stays possible until it is taken.
Clients owe nothing: they need not read, send, or hang up.  With that,

* `LinesGetExecuted`: no complete line of a connected client waits for ever;
* `GoneGetClosed`: no connection of a client that is gone stays open for ever;
* `SendReturns`: every call of `sendResponse` returns, unless SIGPIPE ends the
  process, because a socket without room answers EAGAIN and the code gives up.  An ended
  process is excepted here and in `StreamContract`, so neither says anything of
  SIGPIPE: that is `EndsOnlyBy`.

The first two are stated as "infinitely often not waiting", which is the same as
"waiting leads to not waiting" and cheaper to check.

### What the code does that a document denies

| run | property | |
|---|---|---|
| `keeps_running` | `KeepsRunning` | a line of blanks reads `box[0]` of an empty vector.  This is all the run shows; that the other ways to end the process are the three of `EndsOnlyBy` and no more is the business of the run `membership` and of `EndsForAReason` |
| `old_nickname` | `RenameForgetsOldNick` | a renamed user can still be addressed by the old nickname, and the entry dangles when the user goes |
| `self_kick` | `LiveChannelHasMembers` | the only member kicks itself: the channel stays, empty and without operators |
| `limit_lowered` | `LimitKeepsOut` | `==` in the limit's comparison: a channel above a new limit is open |
| `invitation_inherited` | `InvitationsDieWithUser` | an invitation is kept for a descriptor, not for a user |

`findings` in PROJECT.json quotes the line each of them contradicts.  Three more
divergences are plain from the code and have no run:

* The test of `Everyone` registers users by NICK and USER without a password and
  expects `IsRegister` to be true (`TranslatorTest.cpp:55-73`, with a comment to
  that effect at 71; again at 113-116 and 135-141).  In the code as it is
  `SetUser` and `SetNickname` refuse the second of the two, and
  `RegistrationGate` states what the code does: those tests fail.
* The test expects the operator's password to make an administrator
  (`TranslatorTest.cpp:527`), and `Pass` only registers.
* The comment above the loop of `sendResponse` (`Sender.cpp:61`) says that it
  goes on until all is sent, and it gives up when the socket is full, which
  `Delivery` allows as a message that ends early.

Some hazards have no property because no document says what is right: that
INVITE compares the limit when there is none any more (`Channel.cpp:99`), that
an eleventh channel may be joined (`Channel.cpp:121`), and that INVITE announces
a JOIN (`MessageTranslator.cpp:438`).  They are modelled as they are, and so are
the administrator's branches, which nothing can reach.

## Proofs

All theorems hold for any values of the constants that satisfy the named ASSUMEs
of the modules: the special values are different from the ordinary ones, numbers
are no nicknames, chunks have at least one byte, sockets have room. Only what is
counted is assumed finite: pointers, and in `LimitsAreKept` the descriptors.
`JoinLimit` is any natural number, the limits in `Numbers` any integers.

**The registry** (`EveryoneProofs`). `RegistryInv` is inductive for
`EveryoneSpec`. The nickname properties are not inductive one by one: that the
current nickname resolves to its user needs that `nick_list` holds every
nickname in use, since that is what `SetNickname` tests, and erasing on
departure is right only because no two users share one. `RegistrationGate` needs
nothing but the two refusals. `PointersAreLive` says how stale an entry can be:
it points to a record that is there, or it is one of those that a departure left
dangling; never to the record of another connection that was closed.

**One channel** (`MessageTranslatorProofs`, first part). A lemma per operation:
what joining, leaving, kicking, setting and clearing modes do to the channel's
own invariant (rank within members, key with mode, no invitation held by a
member), for any channel value.

**The server** (`MessageTranslatorProofs`, second part). `ServerInv` is the
registry's invariant, the channels' invariant and `MembershipMutual`, with one
step per action. The conjuncts need each other: `DeleteUser` clears the record,
so channels lose a departed member only by `MembershipMutual`;
`MembersAreRegistered` is what makes `LeaveChannel` succeed inside `DeleteUser`
(it refuses the unregistered), and it rests on the registration levels never
shrinking. `ServerKeepsContract` is the refinement of `EveryoneSpec`, hence the
registry's theorems hold of the server.

**Rooms** (`RoomsProofs`). `ServerKeepsRooms` is the refinement of `ChatRooms`.
It needs `RoomsInv`, which adds to `ServerInv` that nobody is an administrator
(who would be above the rules) and that a channel without an entry is blank
(creating one opens no closed room).

**Steps** (`StepsProofs`). The action properties: who changes a channel
(`OperatorsDecide`), who is moved (`NobodyIsMoved`), how a channel is emptied
(`SelfKickOnly`), who hears what (`TrafficInside`,
`PresenceIsAnnounced`), when a client is welcomed (`WelcomedOnce`, under the
assumption that SKIP, a developer's shortcut that always welcomes, is not among
the commands). They are laws about one channel, proved per command; the one
command that touches several is a departure, where `DeleteUser` leaves each
channel of the record, and the law is proved for each of them.

Four theorems there say how far the flaws of the violation runs reach.
`EveryEntryChecked`: the one way into an existing channel is a JOIN of one's own
that passed the tests of every mode set at that moment. `LimitsAreKept`: no step
takes a channel within its limit beyond it, since membership grows by one actor
at a time and `==` is met before it is passed; so a limit set too low
(`limit_lowered`) is the only way for `==` to go wrong. `EndsForAReason` lists
what ends the process, and proves that there is nothing besides: a message to a
client that has reset its connection (`BrokenPipe`), a line of blanks, an
operator who names a nickname without a record in KICK or MODE, or a command
that follows a nickname whose record is gone. The first may follow any
step that sent something; of the lines that end the process by themselves the
list leaves out EXIT, which only an administrator may use, and nicknames that
somebody answers to.
`NextStartsFresh`: a descriptor without a record has nothing of its last user,
so that the invitation of `invitation_inherited` is all that a reused descriptor
inherits.

**The event loop** (`SocketServerProofs`). `LoopInv` ties together what
different steps of one pass change: an entry of the poll list whose descriptor
is closed is listed for removal or just being served; what is listed lies behind
the scan, in ascending order, and is clean. Hence the sweep from the last index
leaves the others right, a descriptor that accept returns is in no entry, and
`PollListExact`, `FreeFdIsClean` and `UserIsConnections` (the user behind a
descriptor was made by the connection that has it now, a theorem only: a run of
it would repeat `FreeFdIsClean`) follow.
`DroppedForAReason` needs in addition why a client that is still there may be
taken for gone: what poll reported of it is unread until its turn comes
(`Justified`), so an empty message can only come from a zero byte of its own.

`LinesAreFaithful` needs `StreamInv`: of a connection that has not sent a zero
byte, what was read is, in this order, the part that has been cut into lines, up
to and including a newline, the buffer, and the message that is being received;
and outside the loop over its lines the buffer has no newline. `LinesOf` ranks
the newlines of a stream by counting, not by recursion, so that reading on by
one newline adds one line and leaves those before as they were, and no induction
over the stream is needed. `ExecutedIsSent` drops the conditions of
`LinesFaithful`: in the middle of a pass, and after the connection is closed and
its descriptor is somebody else's, what was executed is still the lines of a
prefix of what that client sent.

**Sending** (`SenderProofs`). `SenderInv` says that the end of the receiver's
stream is the byte `bytes_sent` counts to, and that the room in its socket is at
least what the call found less what it has used, since only this thread writes
and the client only reads. The refinement of `Delivery` and `WholeIfItFits`
follow. `EverySendCounts` is the variant behind `SendReturns`: every send ends
the call or lessens what remains, and no step of a client adds to it.

**Pointers** (`IntrusivePtrProofs`). `Sound` says that counts are exact and
pointers live; one lemma per method shows that it keeps `Sound` and which single
pointer it moves, and compositions follow. The delicate one is `operator=`,
which releases before it copies: the pointer on the right keeps its object
alive, unless it is the one on the left, which the test `this != &other`
excludes. `OneInstance` needs besides that `instance_` is not cleared while the
process runs and that a member is null only inside its constructor.

**The prototype** (`SampleServerProofs`). Its loop goes on with an index whose
element `closeClient` has erased, and erases what `find` did not find.
`SampleInv` says what saves it: which slots of the vector's memory still count
(those of the list, and the one behind its end while the loop serves it or has
it listed) and that these are of different descriptors; what is listed is behind
the scan, ascending, and has no entry in the Parser. Hence the indices stay
within the vector's memory and the list polls open descriptors only, none twice.
It does not poll all of them: `WrongIndicesCost` states the price. Nobody's
connection is closed who has an entry and is there (`DropStep`); but when an
index is erased behind the end, the last element of the list goes, an open
connection with an entry or the listening socket among them, and is never polled
again. That no pollfd of an open descriptor is lost in any other way is
`LostStep`, which follows what each erasure moves (`ErasedIs`). `NicksStayUnique` is
inductive by itself, because the entries of ended connections still count when a
nickname is tested.

Only model-checked is liveness (`LinesGetExecuted`, `GoneGetClosed`,
`SendReturns`), which the prover does not do. The properties of the violation
runs are false of the code, as their runs show, and have no theorem.

## Not modelled

* `tobaba/`: an earlier snapshot of the same classes.  It has no `Sender.hpp` and
  does not build; its loop is the sample server's, its classes are the modelled
  ones with fewer commands.
* `yyamasak/sample_socket/client`: a console client that sends a line and waits.
  Of the sample server, what is only answered (PING, CAP, a wrong password) and
  `isLoggedIn`, which nothing reads, are left out; its directory lacks
  `create_code_message`, so it is modelled as written, not as linked.
* `bircd/`: the select() example the exercise came with; not part of `ircserv`.
* `main` parses two arguments and starts the server.
* The tests were read for what they say of the program.
* Of `ErrorCode`, the texts; `is_nick` is membership in `BadNicks`, not its
  character classes.
* The words that are only echoed, the texts of the replies, logging, and
  start-up or poll failures, which end the program.  A comma list (`JOIN #a,#b`)
  is that many lines.  `everyone_username_`, `Clear` and `GetUserIdUser` have no
  reader or caller in the server.
* Event loop and dispatcher are checked apart: the loop knows of a line only
  whether it makes or deletes the user, and the dispatcher sees lines and
  departures in any order, which includes every order the loop produces.  A
  `send` that returns an error inside a handler is `Sender`'s: handlers ignore
  its result.  One that ends the process is `BrokenPipe`.
