# Specifications of chaos-common-crest

TLA+ modules, TLC configurations and TLAPS proofs for the C library that lets
control-system programs publish data over HTTP (`src/chaos_crest.c` on the
mongoose event loop), for the acquisition program built on it
(`src/het/src/hetAcquire.c`), and for the client code beside it (`http_lib.c`,
the base64 codec, `RestApi.cs`). `chaos_crest.c:24` defines `MOONGOOSE`: the code
between `#ifndef MOONGOOSE` and its `#else` is not part of the program described.

## 1. The system

| Part | State | Operations | How it interacts |
|---|---|---|---|
| `http_post`, `ev_handler` and the mongoose loop (`chaos_crest.c`, `mongoose.c`) | the global `s_exit_flag`; `mgr.user_data`; the manager's list of connections with flags and buffers; the lookup of a host name | `http_post`, `mg_mgr_poll`, `mg_mgr_free`, the event callbacks | called by every operation that talks to the server; callbacks write the global the caller polls |
| JSON calls (`chaos_crest_json_*`), `connect` | none | one post each; nothing | `http_post`, from any thread |
| Handle API (`chaos_crest.c`) | table of control units (CUs), the text of each output attribute, sequence id, statistics | `add_cu`, `update`, `update_by_name`, `register`, `push`, `push_time`, `reg_time`, `cu_cmd`, `close` | one or two posts per CU through `http_post` |
| Dataset texts (`update_attribute`, `dump_attribute_value`, buffer of `push_cu_int`) | text, format and allocated length of an attribute | formatting, growth, concatenation | inside `update`, `register`, `push` |
| Base64 (`encode.c`, `decode.c`) | none | encode, decode | `update_attribute` |
| HET acquisition (`hetAcquire.c`, `hetDriver.c`, `start_hetn.sh`) | VME registers, event counter, decoder state | set-up, polling, DMA readout, decoding, push, restart | the handle API |
| Threaded client (`http_lib.c`) | socket, answer buffer, two counters, mutex, condition variable | `http_client_init/deinit`, `http_request`, the receiving thread | without mongoose only |
| `DOTNET/RestApi.cs` | retry bound | HTTP GET commands, each retried up to five times | stand-alone |
| BSON text extraction (`getBsonValue*`, `cu_get*`) | a static buffer | scanning | without mongoose only; not modelled |
| Demonstrators, LabVIEW, IDE projects, tests, the rest of mongoose | - | - | not modelled (section 7) |

What is hard in it:

* the result of a post passes through ONE global flag, which the connections of
  earlier posts and the posts of other threads write as well;
* a post does not close its connection, the next post does; `mgr.user_data` points
  to a local variable of a function that has returned;
* a post ends only when an event sets the flag: there is no timeout;
* a name is looked up over UDP: datagrams are lost, repeated, late;
* a chunked body is put together in the buffer it arrives in;
* registering or pushing all CUs is a sequence of posts, each of which may
  fail, on top of one sequence counter shared by all CUs;
* lengths are computed in one place and relied on in another;
* the acquisition cuts a stream of events into blocks, resets hardware in several
  steps, and is killed and started again at any of them;
* the threaded client has two threads, a mutex it sometimes does not hold when it
  unlocks it, and signals that nobody waits for;
* a repeated request may be executed twice, or later than the answer to its repetition.

## 2. Modules

| Module | Models | Theorems in |
|---|---|---|
| `PostRPC` | what `http_post` promises: one call at a time, decided at most once, returning that decision | |
| `CrestPost` | `http_post`, `ev_handler`, the mongoose client loop, several posts on one handle; implements `PostRPC` | `CrestPost_proofs` |
| `NamedPost`, `ChunkedBody` | one post to a host name: the DNS client, a chunked reply; implements `PostRPC` | `NamedPost_proofs` |
| `CrestThreads` | the same call from several threads with a handle each | `CrestThreads_proofs` |
| `CrestHandle` | the handle API over `PostRPC` | `CrestHandle_proofs` |
| `CrestDataset` | the texts of attributes and the buffer of a post, as lengths | `CrestDataset_proofs` |
| `Base64` | the codec | `Base64_proofs` |
| `HetAcquire` | the acquisition program, its driver and the board | `HetAcquire_proofs` |
| `HttpLib` | the threaded client | `HttpLib_proofs` |
| `RestRetry` | the .NET client and its server | `HttpLib_proofs` |
| `MC*` | values of the constants for TLC | |

How they fit together. `CrestHandle` uses the actions of `PostRPC` as its
transport (`RPC == INSTANCE PostRPC`); `CrestPost` and `NamedPost` implement it
under a refinement mapping (`ImplementsRPC`): a server given by address or by
name is the same to the handle. `CrestThreads` replaces the events of a
connection by one decision and one event, and looks at what the shared flag
makes of them when two handles are used at once. `CrestDataset` takes the length
of base64 text that `Base64` proves (`EncodedLength`). `HetAcquire` uses the
handle as `ds` and `server`: an update, and a push that arrives or does not.

### CrestPost

One thread. `pc` says where it is: outside (`idle`), at the test of the `while`
(`loop`), in a poll (`conns`), in the last loop of `mg_mgr_free` (`free`), done
(`closed`). `exitFlag` is `s_exit_flag`, `userData` the post whose frame
`mgr.user_data` points into, `conn[p]` the connection opened by post `p`, with
the flags of `mg_connection` that the client side uses and counters in place of
the buffers, `todo` and `fd` what the current poll still has to do and what
`select` told it.

| Action | Code |
|---|---|
| `Call`, `ConnectHttp` | `http_post` up to its loop, `mg_connect_http` |
| `Return` | the test of the loop, and what follows it |
| `Select`, `PollDone` | `mg_socket_if_poll` before and after its walk of the list |
| `Handle(p)` | `mg_mgr_handle_conn` on one connection: close (`CloseConn`), finish or fail the connect (`ConnectError`), read (`RecvOutcome`, `Received`), write (`SendOutcome`) |
| `ReplyEvent`, `CloseEvent`, `NoEvent` | `ev_handler`, reached through `mg_http_handler` |
| `CloseHandle`, `FreeConn`, `Freed` | `chaos_crest_close`, `mg_mgr_free` |
| `Accept`, `Refuse`, `Answer`, `SendSegment`, `Finish` | the server (not in this repository) |

Bytes are counted in segments: a request is `ReqSegs`, a reply `ReplySegs` of
which the first `HeadSegs` complete its headers; every split of the stream into
reads is explored. A reply is framed by `Content-Length` ("length"), by the end
of the stream ("close"), or cannot be parsed ("junk"). Faults are switched by
the constant `Faults`: the connection is refused ("refuse"), the server answers
before it has the whole request ("early", what `test/testServer.js:23-24`
does), it closes at any moment ("silent"), `mg_connect_http` returns NULL
("nullconn").

Left out here: host names and chunked replies (`NamedPost`), a second thread
(`CrestThreads`), a receive buffer limit (unlimited by default), mongoose's
timers (none are set).

### NamedPost and ChunkedBody

One post. `dns` is the connection of the lookup (`retries` and `req` of its
request, `queued` queries in its buffer), `conn` that of the post: it exists
while the name is `resolving` and joins the list, ahead of the lookup's, when
`resolve_cb` has an address (`ResolveTo`). `wire` and `inbox` hold queries and
datagrams under way; they are lost, doubled and delayed by `Lose`, `NameServer`
and `Timeout`, the last being the five seconds after which a query is repeated.

| Action | Code |
|---|---|
| `Call` | `mg_connect_opt`, `mg_resolve_async_opt` |
| `HandleDns`: `Polled`, `Connected`, `Answered`, `Sent`, `DnsClosed` | the events of `mg_resolve_async_eh`, in the order `mg_mgr_handle_conn` raises them |
| `ResolveFailed`, `ResolveTo`, `Unresolved` | `resolve_cb`, or no call of it |
| `HandleConn`: `CloseConn`, `Received`, `Written` | the connection of the post, as in `CrestPost`, with chunked bodies |
| `HandleChunked`, `ParseChunk` | `mg_handle_chunked`, `mg_http_parse_chunk` |

What the code does here and a reader may not expect: the last retry is counted
and queued but given up before it is sent (`LastRetryUnsent`); an answer that
waits in the socket when the lookup gives up is not read; the first datagram
ends the lookup, whatever it is an answer to, since no transaction id is
compared; a chunk with an extension or a trailer, or with more than six digits, is
never recognised, and is delivered as it came when the connection closes; a
chunked reply cut by the server is delivered with its status as a success, which
is why `BodyWhole` excepts it (`WholeOnSuccess`, section 5).

Left out: names in the hosts file (the connect is then direct, as in
`CrestPost`; `localhost` that is missing there gives NULL), IPv6, name servers
over TCP. Sizes have base 3 and up to two digits instead of base 16 and six.

### CrestThreads

Every access to `s_exit_flag` is a step of its own: the reset in `http_post`
(`Reset`), the test of the loop (`Test`), the assignment in `ev_handler`
(`Event`), and the two reads in `ret = (s_exit_flag == 200) ? 0 : s_exit_flag`
(`First`, `Second`; the compiler may make them one, and both are possible). It is
a data race, and the model gives it sequentially consistent accesses, which is
what an aligned `int` and a call between them yield. History: `disturbed[t]`
says of the post of `t` in progress that it began with a connection left over from
another thread's post, or that another thread was in `http_post` meanwhile;
`clean[t]` are the posts that returned undisturbed, whatever the ones before them met.

### CrestHandle

`cus[u]` is the record of CU `u` with the texts of its output attributes
(`unset` before the first update, `default` after a registration) and the sign
of `nin`. `op` is the call in progress: which CU it has come to, which dataset
(outputs or inputs), and the results added up so far. A call is walked through
`Begin`, then per post `Send`, `Decide` (the server), `PostReturns`, then
`Inputs`, `NextCU` or `Finish`. `store[u]` is the last body the server accepted
from a CU. `npush`, `totPush`, `maxPush`, `minPush` are the fields of the handle;
`acked` and `last` are history.

`Leftover` is what an `int` nobody assigned may hold (its sign is all that
matters): `nin` of a CU without inputs. `HeadLen`, `AttrLen` and `AllocSize` are
lengths in characters; `Fits` says whether a body fits the buffer allocated for it.

Assumed of the server: it answers 200 only to a body it has accepted, and
accepts only JSON documents. Left out: a CU without outputs, failed allocations,
several threads on one handle.

### CrestDataset

One CU. A text is its length. `attrs[a]` is what was declared, `mem[a]` the bytes
behind `ds_t.data`, `alloc[a]` its `alloc_size`, `text[a]` and `want[a]` the length
of the text in it and of the one `snprintf` was asked for. `Begin`, `Sum`,
`Header`, `Dump`, `Brace`, `Posted` are `push_cu_int`: `size` its buffer, `len`
what it holds, `full` what it would hold without any bound, `end` the number of
bytes the final `strcat` has written up to. `Begin(TRUE)` comes from
`register_cu`, which first formats the defaults. Left out: sizes whose
allocation overflows an `int`, names that cut the 255 characters of the format,
failed allocations.

### Base64

`EncodeByte` and `DecodeChar` are one round of the loops, `EncodeEnd` and
`DecodeEnd` the remainders; `CallEncode` encodes an input and goes on to decode
the result, `CallDecode` decodes any text. Characters are their positions in
`b64_table`, with two more: `Pad` ('=') and one that is not in it. `j` is the number
of characters read, `g` (history) of whole groups. The table is a bijection, so
the search for a character in it is the identity on positions; the arithmetic on
bits is that of the code, in division and remainder. A text of one character of the
table, at the end or before padding, leaves no byte to allocate: `realloc(dec, 0)`
frees and returns NULL (glibc), and `b64_decode_ex` returns NULL without having
assigned the length (`NoBlock`, where `pc` is "null").

### HetAcquire

`pc` is where `main`, `ResetMemoria` (`rm_*`), `AbilitazioneTriggerAut` (`aut_*`) or
`PollingVme` is. Each writing of a register in `ResetMemoria` and in
`AbilitazioneTriggerAut` is a step; the writings that set the board up are one step in
`Configure` (`hetAcquire.c:285-291`) and one in `InitT2` (`hetDriver.c:228-238`). `sr1`, `sr3`, `sr4` are the
registers, as sets of bits; `mem` the memory of the board, a FIFO of words that
are their kinds; `ds` the dataset of the handle and `server` the last one that
arrived. `Crash` stops the program anywhere, `Restart` is the loop of
`start_hetn.sh`: the program begins anew, the board stays as it was left.

The board is not in the repository. Assumed of it: the words of an event come in
the order the decoder looks for, an event that has begun goes on, it holds words
back while the memory is full, and a reset of the memory takes place when
register 1 allows it and register 4 asks for it. The two pushes before the loop
are one action (`Prime`).

Seen in the code: `exit` and what follows `while(1)` is not reached otherwise than
by the trigger loop giving up; a poll that succeeds at its last try returns 99 as
if it had failed; `regs[6]` is byte-swapped before the loop and not in it; after a
DMA error the old EVENTS and FIFO are published with a new STATUS; EVENTS starts
from 0 after every restart. Driver functions that `main` does not call are left out.

### HttpLib

`cpc` and `rpc` are where the requesting and the receiving thread are, `mutex`
who locked it last, `life` how far `http_client_deinit` has come. The stream from
the server is a sequence of tokens: the text of a header line, the digits of a
chunk size, or a byte. `ReadHeader`, `HeaderLine` are `getResponseHeader`;
`Lock`, `ReadBody` with `DropByte`, `CopyByte`, `SizeByte`, `Unlock` are
`getResponse`. `Unlock` unlocks a mutex that may not be locked, or may be locked by
the other thread, as the code does when the header fails; a mutex of the default
type is then free. `read` is a cancellation point (`Cancelled`), so that a
receiver that waits there when it is cancelled reads no more (`CanRead`); one that is
elsewhere goes on, and after `free` what it reads of the handle is anything.
`Room[k]` is the size of the buffer of request `k` and `Copied` what
`http_get_answer` makes of it: a message longer than the buffer is cut without a NUL,
any other is copied with its NUL, which is one byte past the buffer if the message
fills it. A header line "NO CARRIER", which ends the header with an error
(`http_lib.c:225-229`), is no token of the model.

### RestRetry

`call` is the command, `query` the request of the running loop, `count` its tries.
`Send`, then `Arrived` (`Answered`, `Listed`, `Cleared`, or `Torn`, an exception
while the rest is read) or `Nothing` (any failure, or the timeout), up to `GiveUp`.
Requests that were given up are `strays`, executed at any time (`ExecuteLate`) or
never. The server keeps open queries and snapshots, which are created, deleted and
restored. A reply of `[]` to a snapshot is success, any other text is failure, and no
reason to try again. A variable set to nothing makes no request (`SetNothing`).

Seen in the code: an error text is an answer like any other; an empty list of
queries makes one request that clears no id; `false` after a lost answer does not
mean that nothing was done; a repeated `queryhst` leaves a query open that nobody
knows of.

### Seeded faults

An operator `BadX` stands before the definition it is a wrong version of. No
specification uses it; with the definition replaced by it, the property is
violated in its run.

| Fault | In place of | Breaks |
|---|---|---|
| `BadReceivedKept`: a delivered reply stays in the buffer | `Received` (`CrestPost`) | `OwnResult`, `OwnBuffer`, `FirstEventWins` |
| `BadReturnStatus`: 200 is returned as it is | `Return` | `ImplementsRPC` |
| `BadReceivedNoDrain`: `MG_F_SEND_AND_CLOSE` is not set | `Received` | `AtMostTwoOpen` |
| `BadConnectSilent`: a failed connect sets no flag | `ConnectError` | `PostReturns` |
| `BadCloseKeeps`: a closed connection stays in the list | `CloseConn` | `HandleCloses` |
| `BadResolveFailed`: a failed lookup sets the number of its error | `ResolveFailed` | `TypeOK`, `ImplementsRPC` (`NamedPost`) |
| `BadAnswered`: the request is kept after its answer | `Answered` | `CalledOnce` |
| `BadPolled`: retries counted from zero | `Polled` | `LastRetryUnsent` |
| `BadDnsClosed`: an open lookup is not reported | `DnsClosed` | `NamedPostReturns` |
| `BadHandleChunked`: parsed data is parsed again | `HandleChunked` | `Reassembled` |
| `BadParseChunk`: the last line end is not waited for | `ParseChunk` | `BodyWhole` |
| `BadZero`: the flag is not reset | `Zero` (`CrestThreads`) | `OwnUnlessDisturbed` |
| `BadFlagOf`: the assignment commented out in the code | `FlagOf` | `NoThinAir` |
| `BadFlagSilent`: a failed connect is not reported | `FlagOf` | `EveryPostReturns` |
| `BadMoreCUsOnError`: the walk does not stop at an error | `MoreCUs` (`CrestHandle`) | `PrefixStored` |
| `BadFailedLost`: the error of a post is dropped | `Failed` | `SuccessMeansStored` |
| `BadFailedCounts`: a failed post advances the sequence id | `Failed` | `SeqCountsAcks` |
| `BadWritten`: `sprintf` | `Written` (`CrestDataset`) | `InMemory` |
| `BadAllocSize`: room for elements instead of bytes | `AllocSize` | `NeverGrows`, `VectorWhole` |
| `BadDumpSkips`: what does not fit is left out | `Dump` | `BodyIsPrefix` |
| `BadDumpBound`: each attribute may fill the whole buffer | `Dump` | `OverrunByOne` |
| `BadSextets`, `BadTail`, `BadTail8`: a wrong shift, no padding, a byte too many | `Sextets`, `Tail64`, `Tail8` | `RoundTrip`, `EncodedLength`, `DecodedLength` |
| `BadStartDecoder`: the decoder goes on where it was | `StartDecoder` (`HetAcquire`) | `CountsWhole` |
| `BadRestoreSR1`: the reset stays enabled | `RestoreSR1` | `RegistersRight` |
| `BadUpdated`: EVENTS is not updated with the FIFO | `Updated` | `EventsMatchFifo` |
| `BadEnough`: a quarter is not enough | `Enough` | `Drained` |
| `BadLockKeeps`: the old answer stays | `Lock` (`HttpLib`) | `OwnAnswer` |
| `BadLockNone`: the receiver does not lock | `Lock` | `CopyExclusive` |
| `BadCopyByte`: the end of a body is not noticed | `CopyByte` | `NeverStarves` |
| `BadTest`: only a reply that has not begun is waited for | `Test` | `QuietAtDeinit` |
| `BadSignal`: a failure is not signalled | `Signal` | `RequestReturns` |
| `BadFailure`: the exhausted tries of one id are not looked at | `Failure` (`RestRetry`) | `CleanMeansCleared` |
| `BadSuccess`: any answer to a snapshot is success | `Success` | `SuccessMeansDone` |
| `BadTried`: a failed try is not counted | `Tried` | `CallReturns` |

## 3. Runs

| Run | Specification | Properties | Shows |
|---|---|---|---|
| `post_safety` | `CrestPost!Spec` | `OwnResult`, `OwnBuffer`, `FirstEventWins`, `ImplementsRPC` | a post returns what was decided of its own request and gets no other reply in its buffer, though connections of earlier posts are polled with it and the server may refuse, answer early, close silently or send what is no HTTP; callers pass a receive buffer or none |
| `post_live` | `CrestPost!FairSpec` | `AtMostTwoOpen`, `PostReturns`, `HandleCloses` | with a server that answers and closes, every post and `chaos_crest_close` return, and connections do not pile up |
| `post_silent` | `CrestPost!FairSpec` | `PostReturns` is violated | section 5 |
| `handle_safety` | `CrestHandle!Spec` | `SuccessMeansStored`, `PrefixStored`, `SeqCountsAcks` | what a 0 promises, what a walk over the CUs leaves behind when it fails, the sequence ids |
| `handle_leftover` | `CrestHandle!Spec` | `NoCrash` is violated | section 5 |
| `two_handles` | `CrestThreads!FairSpec` | `OwnUnlessDisturbed`, `NoThinAir`, `EveryPostReturns` | what is left of these promises when two threads use a handle each: a post that has the library to itself returns its own result, an error was decided of some post, and every post returns |
| `named_post` | `NamedPost!FairSpec` | `TypeOK`, `Reassembled`, `BodyWhole`, `CalledOnce`, `LastRetryUnsent`, `ImplementsRPC`, `NamedPostReturns` | the lookup decides once and always, and the chunks become the body |
| `dataset_texts` | `CrestDataset!Spec` | `InMemory`, `NeverGrows`, `VectorWhole`, `BodyIsPrefix`, `OverrunByOne` | where texts fit and where they are cut |
| `base64_codec` | `Base64!Spec` | `RoundTrip`, `EncodedLength`, `DecodedLength` | the codec is one, and has the lengths its callers count on |
| `http_threads` | `HttpLib!FairSpec` | `OwnAnswer`, `CopyExclusive`, `NeverStarves`, `QuietAtDeinit`, `RequestReturns` | the protocol of the two threads: whose answer a request gets, that it is not copied while it is written, which bodies have an end, and where the receiver is when the handle is freed under it |
| `het_board` | `HetAcquire!Spec` | `CountsWhole`, `RegistersRight`, `EventsMatchFifo`, `Drained` | events are counted right across blocks, DMA errors and restarts |
| `rest_calls` | `RestRetry!RestFairSpec` | `CleanMeansCleared`, `SuccessMeansDone`, `CallReturns` | what is promised by a command that may be executed twice or late |

### Bounds

| Run | Instance | Why it is enough |
|---|---|---|
| `post_safety` | `MaxPosts` 2, `ReqSegs` 2, `HeadSegs` 2, `ReplySegs` 3, all framings and faults, `Buffers` both | a request may be half written, a head half read and a body half read while the next post begins; only one earlier connection can be in its window at a time (`AtMostTwoOpen`) except after early answers |
| `post_live` | `MaxPosts` 3, `ReqSegs` 2, `HeadSegs` 1, `ReplySegs` 2, "refuse", `Buffers` both | the third post is the first that could see three connections |
| `handle_safety` | two CUs with and without inputs, three posts, lengths 130, 216, 400 (a vector of 32 `int32`) | a walk that fails at its first, its second and after its last CU, and one call after it |
| `two_handles` | two threads, two posts each | a result may be taken by the other thread, erased before its test, or change between the two reads; the second post meets the flag and the connections that were left |
| `named_post` | `MaxDigits` 2, `MaxRetries` 2 (as in the code), `MaxInbox` 2, three bodies | one repeated, one late and one lost datagram; sizes of one and two digits; the second chunk of the longest body looks like a chunk |
| `dataset_texts` | two attributes of 11 kinds, values of 0 to 300 characters, heads of 30, 109 and 133 | lengths on both sides of every `if` and every allocation |
| `base64_codec` | inputs of up to 7 bytes of {0, 93, 255}, texts of up to 6 characters | two whole groups and every remainder |
| `http_threads` | two requests, `MaxBuffer` 3, `Room` <<1, 2>>, five replies, "cut" and "spurious" | a reply before, during and after its wait, the previous one still unread, one longer than the buffer; messages shorter than the caller's buffer, as long, and longer |
| `het_board` | `Block` 6, `MaxData` 1 (an event has five or six words), `MaxEvents` 3, `PollTries` 1, `TrigPolls` 3, `TrigMod` 2, `Burst` 1, `MaxFaults` 1 | an event may begin at every place of a block and cross into the next one; one DMA error or one crash at every step |
| `rest_calls` | `Retry` 2, two ids of which one is refused, one snapshot, four calls, two late requests | a try that fails and one that succeeds; a request of one call executed during the next two |

The counters `MaxPosts`, `MaxRequests`, `MaxCalls`, `MaxEvents`, `MaxFaults`,
`MaxInbox`, `MaxStrays` and `MaxAttrs` bound the instances and nothing of the
program. The theorems of section 4 hold for every value of them.

### Fairness

* `CrestPost`: `Running`, the thread inside a call goes on (nothing makes the
  caller call). The server takes a connection up or refuses it, answers,
  sends and closes; `PostReturns` is checked without "early", because an early
  answer can be lost with the connection, and without "silent" (section 5).
  These are weak fairness conditions on steps that stay possible until taken.
* `CrestThreads`: each thread inside a call goes on, and each post is decided. Each
  thread makes `MaxPosts` posts: one that posted for ever could erase the result of
  another one again and again, and `EveryPostReturns` says nothing of that.
* `NamedPost`: `http_post` polls, time passes, the server that was reached
  answers and closes. Nothing is assumed of the name server: `NamedPostReturns`
  holds when it never answers.
* `HttpLib`: both threads are scheduled, and the server closes its end at some
  time. It need not answer: `RequestReturns` rests on the closing alone.
* `HetAcquire`: the program runs, and the start script restarts it. Nothing is
  assumed of the board.
* `RestRetry`: the client goes on; its timeout ends every wait. The server may do
  nothing.

Deadlock is checked in every run. Where a program ends, or a bound is used up and
nobody is inside a call, the step `Terminated` (or the condition of the
bound) stutters, so that any other standstill is reported.

## 4. Proofs

TLAPS checks the theorems below for every value of the constants that the named
assumptions of the modules (`HttpAssumption`, `NamedAssumption` and so on) allow: what the
bounds and the sets of inputs are. TLC evaluates each of them in the runs. Each module's argument is an inductive
invariant, of which the properties are parts or consequences.

`CrestPost_proofs` (`IInv`, `Invariance`). `FlagInv` ties `s_exit_flag` to the
post that set it; `OldPostsSpent` says that a connection of an earlier post holds
nothing that could still make an event, which is what `OwnResult` needs and is not
inductive without `StreamInv` (how much of a reply was sent, received and
delivered), `ControlInv` (which connections a poll has still to handle) and
`ResultInv`. From it follow `OwnResultHolds`, `FirstEventWinsHolds`,
`OwnBufferHolds` (callers with and without a buffer) and `Refinement`: each step of
the event loop is a step of `PostRPC` or leaves its variables alone. They assume
`MaxReplies = 1`. `WindowInvHolds` and `AtMostTwoOpenHolds` assume in addition a
server that does not answer early: a request decided has then been sent
completely, so that its connection, marked `MG_F_SEND_AND_CLOSE`, goes in the next
poll, and a third connection cannot be opened before that poll.

`CrestHandle_proofs` (`HInv`). `PrefixStored` says that a walk has stored what
it has passed, `FlightInv` what the post under way carries, `WalkInv` and
`TransportInv` where call and transport are in relation to each other.

`CrestThreads_proofs` (`ThreadsInv`). `AloneInv`: while the post in progress is not
disturbed, its thread is alone in the library and the flag is 0 or its own decision,
whatever became of earlier posts (`OwnUnlessDisturbedHolds`); `SecondInv`: then the second
read of the flag sees what the first saw; `FlagInv`: the flag was never set to
what nobody decided. `OneImplementsRPCHolds`: in a process with one thread, whose posts
nothing can disturb, `CrestThreads` implements `PostRPC` as `CrestPost` and `NamedPost`
do, with each access to the flag a step of its own. With two threads it does not: TLC
finds a post that returns the answer to the other thread's, undecided itself, so no run
of the pair has it as a property.

`NamedPost_proofs`. `LookupInv`: `LookupLife` ties each stage of the lookup's
connection to what is left of its request; `QueryCount` is the sum of queries sent,
queued and given up. Hence the callback runs once, and at most `max_retries`
queries leave. `PostInv` ties
the connection of the post and the server to each other (`ConnLife`, `ServerLife`), says
that what `select` reported still holds when a connection is handled (`StillReady`) and
that what `http_post` returns was decided (`Decided`); it gives the types and the
refinement (`ImplementsRPCHolds`): every step of the lookup and of the event loop is a
step of `PostRPC` or leaves its variables alone. `BodyInv` adds the bytes: `Reassembled`,
itself inductive with the rest, says that the receive buffer holds what the chunks received
whole carry, put together, followed by the beginning of the rest of the stream as it
came; `Delivery`, when a reply is delivered. `BodyWhole` follows for every body. The
work is in the lemmas: what a stream is, chunk by chunk (`EncodedRec`, `PayloadRec`), what
parsing a size written on the wire returns (`ParseWire`), and what one call of the handler
does to the buffer (`HandleBuffer`), by induction over the chunks and the digits of a size.

`CrestDataset_proofs` (`DatasetInv`). `BufferInv` relates the loop over the
attributes to the size computed before it. The arithmetic behind `NeverGrows` is
that 3n + 16 characters are never fewer than the base64 text of n bytes; behind
`VectorWhole`, that the format leaves what the name takes. `OverrunByOne` is a sharp bound,
since the run reaches it.

`Base64_proofs` (`Base64Inv`). `EncodeInv` and `DecodeInv` say that the groups
read so far are the groups written, `TextInv` where padding stands; the lemmas in
front of them are the arithmetic of three octets and four sextets. `DecodedLength`
covers every text, those that give NULL included.

`HetAcquire_proofs` (`HetInv`). `BoardInv`: what the memory holds is a piece of the
board's stream. `BlockInv` and `Scanned` say of each prefix of a block what the
decoder's state and counter are, which is why `CountsWhole` is exact although
the decoder forgets its state between blocks. `DsInv`, `RegInv` and `TriesInv`
are the dataset, the registers across every crash, and the polls left.

`HttpLib_proofs` (`HttpInv`). `MutexInv`: a thread between its lock and its unlock
holds the mutex, as long as no header failed with more to come; and `Finished`:
a receiver whose header failed touches the answer no more.

`OwnAnswer`, `NeverStarves` and `QuietAtDeinit` rest on `AnswerInv`. `StreamInv` lays the replies one
behind the other in the stream, `End[k]` being where reply `k` ends. `PlaceInv` says what
the receiver's locals are after each token of a reply: of its header (`InHeader`), of a
body with a length (`InLength`), of the chunk it is in (`InChunk`). `ShownInv` says
whose content the buffer holds and whose status was published; `TurnInv`, that the
reply being delivered, if any, is for the one request that waits, since no reply
is made before its request and no request before the last one has returned. Hence a
receiver is between two replies, or at the end of the stream, when no request waits,
which is when the handle may be freed. The lemmas in front give the tokens of a
reply by position, and the steps `HeaderStep`, `LengthStep`, `ChunkedStep` through them. The theorems assume `OrderlyServer`, a
server whose replies can be told apart: a positive status, a length or chunks, no
empty chunk before the last, no line end in a chunk; and room for a byte. The
replies of the run are such. Without it `OwnAnswer` is false (section 5). The caller's buffer may have any
size: the message is the body as `http_get_answer` copies it. No
assumption is made of a body with a length: it may be empty, longer than the buffer, or
hold line ends. A wait that ends without a signal is excepted in the three properties.

`RestRetry` (`RestInv`, proved there too). `LoopInv`: how the tries, the request in
progress and the requests given up go together; `CleanInv`: ids that were
told are never given again, and all of them but those still to do and those the
server refuses are cleared, after any number of late executions; `DoneInv`: a
request still under way is one of an earlier call or of a failed try of this one, a
good answer means that the server did it, and what it did without a good answer is
behind a failed try.

Induction over data is done inside the logic: a set of natural numbers that holds 0 and
the successor of each member is all of `Nat` (`SetInduction`, from the well-foundedness
of `<`), which gives what a recursive function such as `End` is equal to. Hence the
models use recursive functions, not recursive operators.

All safety properties of the passing runs are proved, and all type invariants that are
stated. Model-checked only: liveness (`PostReturns`, `HandleCloses`,
`EveryPostReturns`, `NamedPostReturns`, `RequestReturns`, `Drained`, `CallReturns`),
which is out of the prover's reach.

## 5. What the code does not do

Two runs end in a violation:

* `post_silent`: a server that closes a connection without a reply leaves
  `http_post` in its loop (`chaos_crest.c:155`): the close event sets no flag, the
  assignment being commented out (`chaos_crest.c:126`), and there is no timeout.
  `chaos_crest.h:217` promises "zero if success".
* `handle_leftover`: `nin` of a CU without inputs is never assigned
  (`chaos_crest.c:449`), and the record comes from `realloc`. `chaos_crest_close` and
  a push of the inputs follow a NULL pointer when it happens to be positive.

Three properties that a reader may expect are false of the code. They are stated in
their modules, and TLC finds each violated when it is added to the invariants of the
run named:

* `NoWildWrite` (`CrestPost`, `post_safety`): every reply goes to the buffer of its own
  caller. `http_post` sets `mgr.user_data` only if it is given a receive buffer
  (`chaos_crest.c:146`) and never resets it. A post with NULL, after one with a buffer
  on the same handle, therefore has its reply copied through the dead frame of
  the earlier post (`chaos_crest.c:111-117`). The library itself always passes a
  buffer, but `http_post` is public. What holds is `OwnBuffer`: the reply of a post
  that has a buffer.
* `SuccessMeansOwn` (`CrestThreads`, `two_handles`): a post that returns 0 was accepted.
  While two threads post, one may take the 200 that was decided of the other's post,
  or find the flag reset to 0 between the two reads of `chaos_crest.c:159`.
* `WholeOnSuccess` (`NamedPost`, `named_post`): a post that returns 0 has the whole body.
  The close of a connection delivers what has come by then (`mongoose.c:6503-6512`),
  and the status alone decides. `CrestPost` compares the status only.

Seen while modelling, and part of the models or left out as noted:

* `mg_connect_http` returning NULL hangs the post in the same way
  (`chaos_crest.c:153`; fault "nullconn").
* Inputs have no text, so a CU with inputs is registered with a document
  that is not JSON (`chaos_crest.c:859`).
* The post buffer is computed without the header (`chaos_crest.c:773`): the body of the CU that
  `test/crest_cu_test.c:89-92` builds is cut.
* A registration resets the number of pushes and not their total time, so the
  average exceeds the maximum (`:803`); the minimum starts at 0 (`:805`);
  `chaos_crest_reg_time` reads counters nothing assigns (`:956`).
* `chaos_crest_cu_cmd` sends nothing and returns an uninitialised variable (`:983`).
* Vectors of `int16` are encoded with the number of elements as number of bytes, so
  that half of them is sent: `Bytes` in `CrestDataset`, and in no property, since
  nothing in the repository says what they should be sent as. Short vectors and
  binaries are cut, the allocation leaving out the format.
* `b64_decode_ex` returns NULL for a text of one character and leaves the length
  unassigned (`decode.c:106-113`).
* With two handles in two threads a post whose result was erased polls on until an
  event of the other thread sets the flag.
* `http_wait_answer` waits although the answer is there (`http_lib.c:98`) and is
  woken only by the next signal; on a connection that is kept alive there may be none,
  and `RequestReturns` rests on the closing. `getResponse` unlocks a mutex it does not
  hold (`http_lib.c:401`).
* `http_get_answer` writes the NUL of a message that fills the caller's buffer one byte
  past it, and cuts a longer one without a NUL (`http_lib.c:89`).
* After `http_client_deinit` has freed the handle, the receiver still tests `p->exit` in
  it, and a header that fails at the end of the stream is still unlocked and
  signalled (`http_lib.c:79-81`): the model allows it, and `QuietAtDeinit` says that this
  is all, for a server in order.
* `http_lib` matches replies with requests by counting. A reply that it takes for two
  (a status line it cannot parse, and a body with blank lines), or an empty chunk before
  the last, shifts the count: TLC then finds a request that is given the reply to an earlier one
  (`OwnAnswer`, with such a reply added to those of the run).
* A wrong register 3 is corrected by a write to register 1 (`hetDriver.c:237`).

## 6. What could follow

* `HetAcquire` over `CrestHandle` over `PostRPC` in one state space: at present
  the first has a push that arrives or not.
* `CrestPost` with `MaxReplies` 2: what a second reply on a connection does.
* A bound on the connections of a handle when the server answers early.
* `CrestHandle` with a CU without outputs and with failed allocations.

## 7. Not modelled

* The rest of mongoose: servers, TLS, websocket, MQTT, CoAP, CGI, the file system,
  and most of its header. It is vendored, `http_post` does not reach it, and
  it makes up some 20,000 of the 27,000 lines under `src/`; the modelled share
  of all lines is therefore small, although the program's own C code is covered in
  all parts that keep state.
* Scanning values out of a BSON text (`getBsonValue*`, `cu_get*`): a scan of
  characters without state, in a build without mongoose only.
* `#ifndef MOONGOOSE` variants of the handle API; the client they use is `HttpLib`.
* Demonstrators for the CAEN and HET boards, which print registers once.
* Form data and header helpers of `http_lib` that nothing calls.
* A CU without outputs, failed allocations, several threads on one handle.
* "NO CARRIER" in a header (`http_lib.c:225-229`).
* A second reply on one connection (`MaxReplies` is 1 in every run and proof, as in HTTP
  one request has one reply); an earlier post's second reply could decide a later post.
* Tests (read as documentation), LabVIEW bindings, IDE projects, prebuilt binaries.
