# TLA+ models of the oss_core SIP core

This directory holds TLA+ models of the parts of `src/` whose behaviour depends on
ordering, interleaving or framing. TLC checks them. `PROJECT.json` lists:

- the components;
- the runs;
- the mutants that show each checked property can fail;
- the map from every modelled definition to the source lines it translates;
- the findings;
- the hazards.

## The system and its parts

`src/` contains four files with behaviour worth modelling. The rest are accessors,
constructors, tests, or declarations whose implementation is not in the repository.

| Part | Source | What it does | Model |
|---|---|---|---|
| Datagram parser | `sipparser/SIPMessage.cpp` `parse`, `messageSplit`, `headerTokenize`, `headerSplit`, `hdrGetExpandedForm`, `commitData` | Strips leading junk, splits the header block from the body, unfolds continuation lines, and stores headers by key with their first-seen offset. `commitData` re-emits the message. | `SIPMessageParse` (operators) |
| Stream parser | `consumeOne`, `consume`, `read` | A byte-wise state machine (`_consumeState`) drives the TCP/TLS/WS reader. `read()` feeds it 1024-byte `readsome` buffers and seeks the stream back to the end of a completed message. | `SIPMessageParse`, `SIPStreamRead` |
| Header store | `hdrGet`, `hdrSet`, `hdrRemove`, `hdrList*`, `commitData`, `setData` | Mutates `_headers` (name → values and creation offset) and `_headerOffSet`. `commitData` writes the headers sorted by offset. | `SIPHeaderStore` (`setBody`/`updateLength` not modelled) |
| Classification | `isRequest`, `isResponse`, `isResponseTo`, `isResponseFamily`, `isErrorResponse`, `isFinalResponse`, `is1xx`..`is6xx`, `isMidDialog`, `getTransactionId`, `setStartLine` | Classifies the start line with the ABNF verifiers, caches the answers in the tribools `_isRequest` and `_isResponse` (which `parse` resets), and builds the transaction key from CSeq, Via and Call-ID. | `SIPMessageClass`; `SIPMessage` composes it with the header store |
| Message locking | `SIPMessage.cpp` `_rwlock` in `hdrGet`, `hdrSet` and the other `hdr*` mutators, `parse`, `getTransactionId`, `createContextId`, `createResponse`, `getHeaderNames` | A readers-writer lock guards `_headers`, the classification caches and `_logContext` against threads that share one message. | `SIPMessageLock`; `SIPMessage` composes it |
| Thread pool | `utl/Thread.cpp` `thread_pool::schedule`, `schedule(task, millis)`, `thread_pool_timed_task`, `thread_pool_runnable` | Hands tasks to a bounded `Poco::ThreadPool` and returns `used()` or -1. A timed task calls `schedule` from the timer thread when its timer fires. | `ThreadPool`; `ThreadUtil` composes it with `Thread` |
| Thread | `utl/Thread.cpp` `Thread::run`, `stop`, `isTerminated`, `waitForTermination` | A restartable worker thread with two non-recursive mutexes and a terminate flag. | `Thread` |
| Transport init | `sipfsm/SIPStack.cpp` `transportInit` (both), `initTransportFromConfig`, `initVirtualTransportFromConfig`, `registerConfiguredTransport`, `setTransportThreshold`, `initializeTlsContext` | Reads the listener configuration, picks the default listener, and binds the listeners, once each or over port ranges. | `SIPStackTransport` (ranged), `SIPStackConfig` (reader and plain `transportInit`), `SIPStack` (both entries) |
| SIP URI | `sipparser/SIPURI.cpp` `setScheme`, `setUserInfo`, `setHostPort`, `setHost`, `setPort`, `setParams`, `setParam`, `removeParam`, `setHeaders` and the getters `getScheme`, `getUser`, `getPassword`, `getHostPort`, `getHost`, `getPort`, `getParams`, `getParam`, `getHeaders`, `getHeader`, `getIdentity` | Keep a URI as its text `_data` and read or rewrite one part of it by running the ABNF parsers of RFC 3261 over the whole text. | `URIRecord` (abstract), `SIPURI`, `SIPURIObject` (composition) |
| SIP URI parameters | `sipparser/SIPURI.cpp` `getParamEx`, `getParam`, `hasParam`, `setParamEx`, `setParam`, `removeParam`, `setParams` | Read and rewrite the `;name=value;lr` parameter string of a URI. | `URIParams` (abstract), `SIPURIParams` |

The parts interact in two places:

- The stream parser calls the datagram parser (`parse()`) when the blank line that
  ends the headers arrives. It then reads `Content-Length` through `hdrGet`, so one
  set of operators serves both parsers.
- `SIPStack::run` and `stop` drive the transport service's `run`/`stop`. A `Thread`
  object is the primitive behind such services.

## Modules

- **`SIPMessageParse`** has no variables. Bytes are abstracted to the classes the
  parser distinguishes:
  - CR, LF, SP, HT and `:`;
  - `l`, the compact name of Content-Length;
  - `a`, any other token character, and the compact name of Accept-Contact;
  - the digits `0` and `1`;
  - `CTL`, any other control byte;
  - `HIGH`, a byte above 0x7F.

  Each function of the parser is one operator with the source's name. `ConsumeOne`
  is the `switch` of `consumeOne`, one CASE arm per state, with the same guards in
  the same order. A message is a record: `cs`, `data`, `idle` (the size of
  `_idleBuffer`), `body`, `expectedBodyLen`, `finalized`, `startLine`, `headers`
  (a sequence in offset order of `[key, raw, values]`) and `bad`. The record also
  has `ub`, which `HeaderTokenize` sets when it would `pop_back` an empty list.
  That call is undefined behaviour, so the model records it and goes on.
- **`SIPStreamRead`** models one stream connection and extends `SIPMessageParse`.
  Its variables:
  - `stream`: the bytes the peer sent;
  - `sent`: the sends;
  - `avail`: the bytes that have arrived;
  - `pos`: the istream position;
  - `msg`: the `SIPMessage` being filled;
  - `received`: the messages handed up;
  - `closed`: a parse error dropped the connection;
  - `lastRead`: the last `read()`'s result, its `totalRead` and how far it moved
    `pos`.

  `ReadMessage` is `read()`. `ReadRound` is one round of its loop: it takes
  `min(BufSize, avail - pos)` bytes and consumes them. `ReadOutcome` is what the
  loop does with `consume`'s result: return, or recurse into the next round. Its totalRead arithmetic is the code's. `Read`
  is the caller. On TRUE it hands the message up and starts a new `SIPMessage`. On
  FALSE with `totalRead = 0` it closes the connection. On any other FALSE it waits.
  `Send` is the peer appending a message or a keep-alive, and `Arrive` is the
  network making one more byte readable.
- **`Thread`** models one `Thread` object. Its variables:
  - `pc` and `ret`: each caller's place in `run()`/`stop()`/`setTask()`, and
    where `stop()` returns to;
  - `threadMutex` and `termMutex`: the mutex owners;
  - `terminateFlag`;
  - `pThread`: the worker it points to, or 0;
  - `worker`: each `boost::thread` created, as `none`, `running` or `done`;
  - `polls`: whether the task polls `isTerminated()`. `Init` picks it from
    `TaskKinds` and it never changes: a `setTask` call replaces the task with
    one of the same kind;
  - `lastOp`: each caller's previous call. A caller calls `setTask` first, or
    after its own `stop()`, as the header asks;
  - `taskRace`: `setTask`'s write of `_task` happened while a worker was running;
  - `assertFailed`.

  `setTask` is two steps: `SetTaskCheck` takes `_terminateFlagMutex` for the
  assert on the flag, and `SetTaskWrite` writes `_task` after releasing it.

  There is one action per mutex acquisition. The critical section runs in the same
  step, which is sound because every other access to that state takes the same
  mutex. `TaskReturn` and `TaskPoll` are the task: a task that returns on its own,
  or one that loops on `isTerminated()`.
- **`SIPStackTransport`** models one call of the ranged `transportInit`. The
  listener vectors, the `_enableX` flags and the ports other sockets hold (`busy`)
  are chosen in `Init`, from small sets the cfg gives. The variables `pc`, `ti`,
  `li` and `p` are the position in the three nested loops: transport, listener,
  port. `has` holds the `hasX` flags, and `port` holds what `setPort` recorded.
  Ports are `PortBits` wide, and `p` wraps modulo `2^PortBits`, as the 16-bit
  counter wraps at 65536. `BindFails` is `addXTransport` throwing. That happens
  when the port is busy, or when a listener of the same transport on the same
  address took it. The code of `addXTransport` is outside the repository.
- **`SIPStackConfig`** models one call of `initTransportFromConfig`. The file is
  the variable `cfg`, chosen in `Init`. It holds the `interfaces[]` entries as
  records of the flags and ports the reader branches on, plus the legacy default
  keys, the carp entry, the port ranges and the rate ratio. An absent section is
  an empty sequence. `pc` walks the sections in the code's order:
  - `Start`: the TLS context result, then the carp virtual listeners;
  - `ReadInterface`: one entry of the loop, including the default-entry logic
    (`TakesDefault`) and `registerConfiguredTransport` (`Register`, which expands
    0.0.0.0 into the local IPv4 addresses);
  - `LegacyDefault` and `FirstDefault`: the two fallbacks for the default
    listener;
  - `Settings`: the port ranges (`SetRange`, with the `unsigned short` cast) and
    `setTransportThreshold`.

  Then `CheckListeners`, `NextTransport`, `AddTransport` and `AddTransportFails`
  model `transportInit()`. It adds each listener once, on its own port, and the
  first exception ends the call. `dflt` is the default listener address, and the
  history variable `dfltFrom` records which section set it. "auto" without a
  default address makes the reader return early (`pc = "return"`).
- **`SIPStack`** composes the two ways of starting the transports. `entry` says
  which one the application took, and the other component's variables stay at an
  idle value. The configuration component is instantiated with its variables
  renamed (`cpc`, `clisteners`, ...).
- **`SIPHeaderStore`** models one message's header store. Header names are
  `1..NumKeys`, numbered in `std::map` order, and values come from a small set plus
  `Empty`. Its variables:
  - `headers`: `_headers`, a function from the names present to `[off, vals]`;
  - `headerOffSet`: `_headerOffSet`;
  - `finalized`: `_finalized`;
  - `data`: the text the last `commitData` wrote, as a sequence of lines;
  - `created`: a history variable, the names in the order they were created;
  - `ops`: the number of mutator calls so far.

  Every mutator, `commitData`, `setData` and `parse` is one action, since each call
  holds the write lock. `Commit` is `commitData`'s offset-keyed sort map: of two
  headers with the same offset, the later name wins. `HdrSetIndex` has the
  `operator[]` insertion of an empty entry. The default constructor that sets that
  entry's offset is not in the repository, so the offset is any value up to
  `_headerOffSet`. The constant `IndexOnAbsent` says whether callers may pass an
  index for a header that is absent.
- **`SIPMessageClass`** models the classification of one message. A start line is a
  record with these fields:
  - its kind: `request` or `status` for a line that passes `requestLineVerify` or
    `statusLineVerify`, `other` for one that passes neither, `empty`;
  - its first token;
  - the status code it begins with;
  - `c8`, the character at index 8 (`ub` past the end of a short line).

  Method names, CSeq numbers, branches and Call-IDs are sequences of characters.
  The code compares them by prefix, by suffix and without case, and builds the
  transaction id by concatenating them. The variables are:
  - `msg`: the headers that matter (CSeq, Via branch, Call-ID, From/To tags);
  - `startLine`;
  - `isReq` and `isResp`: the caches, `TRUE`, `FALSE` or `Indet`;
  - `last`: a history variable, the last call and its answer.

  Each query is one step that returns an answer and may fill a cache. `Parse`
  resets both caches, as `parse` does at lines 257-258. `SetStartLine` resets
  neither. It is part of `NextSetStartLine` only, because no code in `src/` calls
  it. The response-class tests read `_startLine[8]`. That read is any character
  when it is past the end of the string, which is undefined behaviour.
  `GetTransactionId` is `getTransactionId` as an operator.
- **`SIPMessageLock`** models `_rwlock` with the threads that share one message.
  Each call is a sequence of steps, `Prog[op]`: lock steps (`R+`, `R-`, `W+`,
  `W-`) and accesses to three locations (the header map, the `_isRequest` cache
  and `_logContext`), in the code's order. `HdrGet` releases its read lock
  before the caller copies the string it returned a reference to.
  `GetTransactionId` holds a read lock around three `HdrGet`s.
  `CreateContextId` reads under a read lock, calls `HdrGet`, and writes under
  the write lock. `CreateResponse` calls `isRequest()` (`IsReq`, a write while the
  cache is indeterminate) and `HdrGet`s under a read lock. `HdrSet` writes under
  the write lock, and `Parse` resets all three locations under it.
  `GetHeaderNames` takes no lock. The variables are:
  - `op`, `pc`: each thread's call and step;
  - `readers`, `writer`, `waiting`: the lock;
  - `cached`: whether `_isRequest` is determinate;
  - `calls`: calls made, at most `MaxCalls`.

  The lock type is declared outside `src/`. `WriterPreferring` picks its
  policy: whether a new read lock waits for a queued writer, as with
  `boost::shared_mutex`. `CallsOf` gives the calls each thread makes.
- **`SIPMessage`** composes `SIPHeaderStore`, `SIPMessageClass` and
  `SIPMessageLock`: three views of one `SIPMessage` object. They abstract the
  packet differently, and no call of one reads what another changes. So `entry`
  picks the part that a behaviour follows, and the other parts stay as the
  constructor left them.
- **`ThreadPool`** models `thread_pool` over `Poco::ThreadPool`, whose code is
  outside the repository. Its documented behaviour is taken as given: `start()`
  takes a thread while fewer than `MaxCapacity` are busy, and throws otherwise.
  The variables are:
  - `call[k]`: where task `k`'s scheduler is;
  - `task[k]`: the runnable;
  - `used`: the busy threads;
  - `result[k]`: what `schedule` returned.

  `Schedule` is `start()` with the catch path that returns -1. `ReturnUsed` is
  the later read of `used()`, a separate step that other tasks can interleave
  with. `ScheduleTimed` arms the timer. `TimerFire` is
  `thread_pool_timed_task::run`: it calls `schedule`, drops the result and
  deletes itself. `Run` is `thread_pool_runnable::run` on a pool thread.
- **`ThreadUtil`** composes `Thread` and `ThreadPool` the same way, through
  `entry`.
- **`URIParams`** is the abstract specification of the URI parameters: a
  dictionary `dict` from parameter names to a value, `Absent`, or `Flag` (for `lr`,
  which has no value), and `last`, the last call with its result. `Set` and
  `Remove` are the dictionary operations. Setting `lr` twice is refused, and so is
  removing a parameter that has no value.
- **`SIPURIParams`** models the parameter string itself: `params` is a sequence of
  one-character strings, and `last` and `ops` record the calls. `GetParamEx`,
  `SetParamEx` and `RemoveParamEx` are the string operations, with the code's key
  building (`";" + name + "="`, `";lr"`), its lower-casing, and its splice with
  `tailOffSet--`. `FindNext` and `PValueEnd` stand for `findNextIterFromString` and
  the pvalue parser, whose code is outside the repository. `SetParam` and
  `RemoveParam` are the public calls; `Apply` writes the new string back as
  `setParams` does. `Dict` maps a string to the dictionary that `getParam` and
  `hasParam` see, and `INSTANCE URIParams WITH dict <- Dict` makes
  `ImplementsParamDict` the refinement to check.
- **`URIRecord`** is the abstract URI of the specification (`SipUri`): a record
  `rec` of scheme, user, password, host, port, parameters and headers. `Update`
  writes one component (the scheme, the userinfo, host and port, the parameters,
  or the headers) and keeps the others.
- **`SIPURI`** models `SIPURI`'s text `data` and its setters. The leaf ABNF rules
  (scheme, userinfo, hostport, uri-parameters, headers) live outside the
  repository. They are operators built from the RFC 3261 grammar over the model's
  characters, and each returns the offset where its match ends, the start offset
  when it fails, as the library's `parse` does. `HostPortParse`, `UriParamsParse`
  and `UriHeadersParse` are the file's three composed parsers. Each getter is an
  operator with the code's own route through them: `getUser` starts after the
  first `:`, `getHost` and `getPort` split `getHostPort` at every `:`, and
  `getHeader` splits at `&`. Each setter is an action: `check_empty`, then the
  `Ex` operator, then `Call` records the result in `last` and counts it in `ops`.
  `parts` is `Parts(data)`, the split of the whole text by the grammar. It is a
  variable, set in every step, because TLC evaluates a refinement mapping under a
  prime without caching, and that is too slow for these parsers.
  `INSTANCE URIRecord WITH rec <- parts` is `ImplementsURIRecord`.
- **`SIPURIObject`** composes `SIPURI` and `SIPURIParams` as `SIPMessage` does:
  `entry` picks the part that a behaviour follows. It renames `SIPURIParams`'s
  `last` and `ops` to `plast` and `pops`.
- Heavy intermediate results, such as `parse()`'s output inside `consumeOne`, are
  passed as operator arguments (`HeadersEnd`, `ConsumeNext`, `ReadOutcome`) and
  never bound to a LET that is referenced several times. TLC's coverage
  instrumentation expands every such reference.
- **`MC_SIPStreamRead`**, **`MC_SIPHeaderStore`**, **`MC_SIPMessage`**, **`MC_SIPStack`**, **`MC_SIPStackTransport`**, **`MC_SIPURIParams`**, **`MC_SIPURI`**, **`MC_SIPURIObject`**, **`MC_Thread`** and **`MC_ThreadUtil`** give the constants for TLC: message
  byte strings and caller model values.

Each mutated operator is defined just before the operator it replaces and is
marked `Mutant:` in its comment. No specification uses the mutants.

## Runs

| Run | Checks | Shows |
|---|---|---|
| `stream_framing` (pass) | `TypeOK`, `ReceivedMatchesSent`, `NoValidMessageRejected`, `AllMessagesRead` | Take 2 sends from {a bare message, a message with a 1-byte body framed by `l:1`, a message whose `l` header is folded onto a continuation line, a CRLF keep-alive}. Read them through a 3-byte buffer, with bytes arriving one at a time in every interleaving with `read()`. The messages handed up are exactly the non-keepalive sends, in order, each equal to what the datagram parser makes of its bytes. None is rejected. Under fair byte delivery and fair calls of `read()`, every message sent is eventually handed up. |
| `stream_leading_space` (violation) | `NoUndefinedBehaviour` | A start line beginning with SP reaches `lines.pop_back()` on an empty list. |
| `sip_message` (pass) | `TypeOK`, `CommitMatchesInsertionOrder`, `CacheMatchesStartLine`, `AnswersMatchStartLine`, `NoDataRace`, `CallsReturn` | Store entry: start from a parsed message whose header 1 has two values and whose header 2 is empty. Make any 4 calls of `hdrSet` (with and without an index), `hdrRemove` and `hdrList*` with 2 names, 2 values and indexes 0..2, with `commitData`, `setData` and re-`parse` of the committed text in between. `commitData` always writes each header once, in creation order, with all its non-empty values in list order. Offsets stay below `_headerOffSet`. Classification entry: parse any of eight packets (an INVITE, its ACK with CSeq method `Ack`, a 180 and a 404 to it, a branch-less BYE and its 200, a foreign start line, a packet `messageSplit` rejects), then make any sequence of the classification calls and re-parses. A definite cache always holds the ABNF verdict on the current start line. Every definite answer is the right one for the current message. Lock entry (`NoDataRace`, `CallsReturn`): two threads make 2 calls each on one message with a reader-preferring lock. Both call `getTransactionId` and `hdrSet`; one also calls `createResponse`, and the other calls `parse`. No location is written while another thread accesses it, and every call returns (64,702 states in all). These are the calls whose lock steps keep them apart; a second `createResponse` caller, `createContextId` and `getHeaderNames` race, and are reproduced from the hazards. |
| `header_index_on_absent` (violation) | `CommitMatchesInsertionOrder` | `hdrSet(name, v, 1)` on an absent header returns false, but it leaves an empty entry whose offset can equal another header's. `commitData` then drops that other header entirely. |
| `stack_transport` (pass) | `TypeOK`, `OutcomeMatchesRanges`, `PlainOutcome`, `DefaultIsListener` | Ranged entry: up to 2 UDP and up to 2 TCP listeners on one or two addresses, at most one WS and one TLS listener, at least one non-TLS listener, UDP enabled or not, and none, some or all of each range `[1, 2]` busy. Every listener whose range has a free port is bound. The call throws exactly when nothing bound. Config entry: `interfaces[]` lists of up to two of four entries (a default entry on a concrete address, "auto", 0.0.0.0 marked default, explicit UDP), with or without the legacy default keys ("auto" or an invalid address), a carp entry (with or without its virtual address), port ranges and a rate ratio, a default address or none, and port 1 busy or not. `transportInit()` returns only with every registered listener of an enabled transport added. The default listener taken from `interfaces[]` is always a registered listener. |
| `transport_port_wrap` (violation) | `Terminates` | With a range that ends at the largest port and every port busy, the `unsigned short` counter wraps to 0, and `p <= max` keeps the loop going forever. |
| `uri_params` (pass) | `GettersMatchParts`, `ImplementsParamDict`, `RoundTrip` | URI side: start from `sip:a@h;x=1?s=b`, `sip:h:5` or an empty URI, and make up to 3 setter calls. Every getter, `getIdentity` included, reads the component the grammar splits the whole text into. Every setter that returns true is read back by its getter: `setHost` keeps the port and `setPort` keeps the host. Parameter side: as before, up to 4 `setParam`/`removeParam` calls with the names `a`, `b` and `lr` on the strings "", `;a=1`, `;lr` and `;lr;a=2` behave as a dictionary, seen through `getParam`/`hasParam` (6,724 states, 21 s). |
| `uri_record` (violation) | `ImplementsURIRecord` | `setParams("")` on `sip:a@h;x=1?s=b` gives `sip:a@h`. The headers are lost with the parameters, so a setter writes two components. |
| `thread_owner` (pass) | `TypeOK`, `NoAssertFailure`, `FlagMatchesThread`, `CallsReturnUnlessPolling` | One owner makes up to 4 `run()`/`stop()`/`setTask()` calls in any order. It calls `setTask` only first or after its own `stop()`. `TaskKinds = {FALSE, TRUE}`, so the task either returns by itself or polls `isTerminated()`. For both tasks, no assert fails, the flag and `_pThread` agree between calls, and a set flag means no worker is running. For a task that returns by itself, every call returns, including `run()` on a running thread, which calls `stop()`. Pool entry (`MC_ThreadUtil`): three tasks go to `schedule()` and one to `schedule(task, millis)`, on a pool of two threads, with every order of starts, returns, timer firings and runs; the busy count stays within the pool (`TypeOK`). |
| `thread_poll_deadlock` (violation) | `CallsReturn` | `stop()` can hang forever: the join holds `_terminateFlagMutex`, which the polling task needs to see the flag. |
| `thread_concurrent_stop` (violation) | `NoAssertFailure` | Two callers race: a `stop()` that lands between another `stop()`'s flag write and its join fails `assert(!_pThread)`. |
| `pool_timer_drop` (violation) | `TimedTasksRun` | Two scheduled tasks occupy both threads. The delayed task's timer then fires, and `schedule` returns -1, which `thread_pool_timed_task::run` drops. The task never runs. |

### Bounds

- **Stream.** `BufSize = 3` is smaller than every message (5 to 10 bytes). So a
  message always spans rounds, and a buffer can end inside one message and begin
  the next, which is what the seek-back must handle. `MaxSends = 2` gives a
  message boundary inside a buffer, and a keep-alive before or after a message
  (15,360 states). Three sends (145,646 states) pass too, but take two minutes
  with the liveness check.
- **Transport, ranged entry.** 2-bit ports (0..3) with every range `[1, 2]`: port 0 lies below
  the range and port 3 above it, so the pass run never reaches the top port and
  `transport_port_wrap` moves a range to end there. Two
  listeners of one transport on one address compete for the same ports, and on two
  addresses they do not. The busy sets `{}`, `{1}` and `{1, 2}` give a free first
  port, a retry, and an exhausted range (the ranged entry of `stack_transport`).
- **Header store.** Two names are enough for two headers to share an offset, and
  for a removal and re-creation to reverse their order. Two values and indexes
  0..2 hit the replace, out-of-range and absent cases of `hdrSet`. `MaxOps = 4`
  allows remove, re-create, append and pop in one behaviour (60,258 states).
- **Classification.** Eight packets give every kind of start line, and each
  branch of every query. They include a cached and an uncached answer, a
  re-parse that must clear a cache, the exception of `isResponse` on an empty
  line, and the Call-ID fallback of `getTransactionId`. The arguments are the
  methods INVITE, ACK and BYE, the family codes 100, 200 and 400, and the codes 0
  and 404 for `is1xx`..`is6xx` (614 states). No method is a prefix or a suffix of
  another, and every argument code has three digits. With those inputs, the
  prefix and suffix tests of `isRequest(method)`, `is4xx(code)` and `isResponseTo`
  mean equality. `MC_MalformedLines` and `MC_DigitCallIds` add the inputs that
  break `AnswersMatchStartLine` and `KeysSeparateTransactions` (a property no
  run checks: the run's messages cannot collide).
- **Message locking.** Two threads suffice for the deadlock (one holds a read
  lock, the other queues to write) and for every two-party race. Two calls per
  thread let a read overlap a write in both orders, and let a call follow a
  `parse` that reset the cache. The reproductions are constants of
  `MC_SIPMessage`: `WriterPreferring = TRUE` for the deadlock, and for data races
  `MC_BothRespond` (the cache), `MC_ContextCalls` (hdrGet's reference) and
  `MC_HeaderNamesCalls` (`getHeaderNames`).
- **Thread pool.** With `MaxCapacity = 2`, three immediate tasks give a refused
  `schedule()`. One delayed task lets a timer fire on both a free pool and a
  full one (6,213 states with the thread entry).
- **Thread.** `MaxCalls = 4` per caller covers run/run (restart through the
  self-stop), run/stop/run, and stop on a terminated thread. Two callers suffice
  for every race between two calls.
- **URI parameters.** Three names, one of them `lr`, and four start strings give
  an absent, a first, a middle and a last parameter for every operation. Four
  calls allow set, replace, remove and set again (581 states). The names are
  lower-case and none is a prefix of another. The two cases that break this are
  listed as hazards, with the constants that reproduce them (`MC_CaseNames`,
  `MC_PrefixNames`).
- **URI.** The three start URIs have, between them, a userinfo with a user, a
  port, a parameter and a header, and none of these (the empty URI becomes
  `sip:invalid`). One argument for each setter, with an empty one where the code
  has a branch for it (userinfo, params) and port `0` for `setPort`'s no-port
  branch. Three calls let a setter follow another that changed the same part
  (1,875 states alone). The arguments are valid for their rule, and the hosts
  are hostnames. `MC_SIPURI` keeps the arguments that break `RoundTrip` and
  `GettersMatchParts` (`MC_V6HostPorts`, `MC_BadSchemes`, `MC_PartialParams`),
  and each is a hazard.
- **Transport configuration.** Two entries per list let a default entry come
  first or second, and let two entries register the same address and port, which
  makes `addXTransport` throw. The four entry kinds reach every branch of the
  default logic that keeps the default a listener: taken, refused for 0.0.0.0, and
  left to the legacy keys or to the first entry. The kinds that break it are
  `MC_WsDefaultSeqs`, `MC_AnyUdpSeqs` and `MC_TlsPortSeqs` in `MC_SIPStack`. Each
  is a hazard in `PROJECT.json`. The composed run has 184,198 states and takes
  about 20 seconds.

### Fairness

- **Stream.** The network delivers every sent byte (`WF Arrive`). The I/O service
  calls `read()` whenever the socket is readable (`WF Read`). `WF Read` is written
  with `ENABLED` replaced by `Read`'s guard: every round of `read()` takes at least
  one byte, so a `Read` step always changes `pos`. The peer's sends are not fair.
- **Transport.** `transportInit` and `initTransportFromConfig` run on one thread, so their steps are weakly fair
  (`WF_vars(Next)`); the liveness property `Terminates` is checked only by
  `transport_port_wrap`. The environment's busy ports are fixed for the call.
- **URI and URI parameters.** Only safety is checked (box formulas), so no
  fairness is assumed.
- **Thread.** Every runnable thread is scheduled, and a mutex that stays free is
  eventually taken (weak fairness on each caller's and each worker's steps). An
  application is not forced to make another call.
- **Message locking.** Each thread's lock and access steps are weakly fair. A
  waiting thread's step is enabled whenever the lock is free for it, and calls
  are bounded, so the lock eventually stays free for it. No thread is forced to
  make a call.
- **Thread pool.** Pool threads run their tasks, a caller inside `schedule()`
  returns, and the timer service fires armed timers (weak fairness on `Run`,
  `ReturnUsed` and `TimerFire`). No caller is forced to call `schedule`.

### Deadlock checking

The header-store cfgs check deadlock, because `commitData` is always enabled. So
does `SIPMessage.cfg`: there, the lock part ends in `Finished`, a stuttering step
once every thread has made its calls. A lock deadlock is therefore reported. All
the other cfgs say `CHECK_DEADLOCK FALSE`:

- `transportInit` and `initTransportFromConfig` are calls that end by returning or
  throwing.
- The URI model stops after `MaxOps` calls.
- The stream model stops when the peer has made its sends and the reader has read
  them. A real connection idles in that state.
- `thread_owner` stops when the owner has made its calls and the task has returned.
  With a polling task, a stopped state can also be the join deadlock. That is what
  `thread_poll_deadlock` reports as a violation of `CallsReturn`, so the pass run
  checks liveness only for the task that returns by itself
  (`CallsReturnUnlessPolling`).

## Findings

See `PROJECT.json` for the full findings.

- `read()` subtracts the used part of the last buffer from `totalRead`, instead of
  the unused part. `TotalReadIsConsumed` in `SIPStreamRead` states the comment's
  meaning, and TLC finds it violated under `SIPStreamRead.cfg`. No run checks it,
  because no caller reads the value; it is a hazard.
- `setParams` runs a whole-URI parser from the end of hostport. On a URI with
  parameters it matches nothing there, and the headers rule that follows also
  fails, so the URI's headers are dropped (`uri_record`). `setParam` and
  `removeParam` go through `setParams` and drop them too.
- The run limit left no room for violation runs on other URI defects. They are
  hazards with reproductions:
  - `getHost`/`getPort` split an IPv6 reference at its colons (`MC_V6HostPorts`);
  - `setScheme` does not check the scheme (`MC_BadSchemes`);
  - `setParams` accepts a string that is uri-parameters only in a prefix
    (`MC_PartialParams`);
  - `getHeader` returns the only header's value whatever name is asked for.
- `headerTokenize` calls `pop_back` on an empty list for a start line beginning with
  white space.
- The stream parser rejects HTAB inside header values. The specification allows
  it. No run checks this case, because the run limit left no room for it. It is a
  hazard in `PROJECT.json`: `MC_TabMessages` with `NoValidMessageRejected`
  reproduces it.
- The ranged `transportInit` rejects a TLS-only configuration: `hasTLS` is read
  from the TCP listeners. The specification already records this (line 212), so
  `stack_transport` leaves out TLS-only configurations. It is a hazard in
  `PROJECT.json`: `MC_AllConfigs` with `OutcomeMatchesRanges` reproduces it.
- `initTransportFromConfig` can make the default listener an address nothing
  listens on: a WS-only or TLS-only default entry, a first entry 0.0.0.0 with
  `udp-enabled = true`, or the `tsl-port` typo. The run limit left no room for a
  violation run, so these are hazards. `DefaultIsListener` with the constants
  named there reproduces each. Other hazards: "auto" without a default address returns silently
  before `transportInit`, and the
  port-range keys are checked before the `unsigned short` cast.
- `setParam` searches the lower-cased name but appends the name as given, while
  `getParam` and `removeParam` search case-sensitively. `setParam("A", v)` then
  overwrites `a`. Also, `getParamEx` matches `;lr` as a prefix, so `;lrx=1` makes
  `hasParam("lr")` true. Both are hazards with the constants that reproduce them.
- The ranged `transportInit` loops forever when a range ends at 65535 and every
  port is busy.
- `hdrSet(name, value, index > 0)` on an absent header inserts an empty entry with
  a default offset. `commitData` can then drop another header.
- `setStartLine` keeps the classification caches, so a message can be both a
  request and a response. This is a hazard with a reproduction:
  `SIPMessage_StartLine.cfg` (`SpecSetStartLine`) breaks `CacheMatchesStartLine`
  and `RequestXorResponse`.
- A timed task that fires while every pool thread is busy is dropped without a
  trace. The specification says timers enqueue their handlers onto the worker
  pool (`pool_timer_drop`).
- `_rwlock` gives three data races, each a hazard with a reproduction:
  - `hdrGet` returns a reference into `_headers`, which callers such as
    `createContextId` copy after the read lock is released;
  - `isRequest()` fills `_isRequest` under a shared read lock in
    `createResponse`;
  - `getHeaderNames` iterates `_headers` without the lock.

  `getTransactionId` takes a second read lock inside `hdrGet`. That deadlocks
  when the lock prefers writers.
- The run limit left no room for violation runs on three more classification
  defects. They are hazards with reproductions:
  - `isResponseTo` tests `!_isResponse`, so it returns indeterminate on a
    response that is not yet classified;
  - on a start line that passes neither ABNF check, the family tests and
    `isRequest(method)` give definite answers (`MC_MalformedLines`);
  - `getTransactionId` concatenates without a separator, so a branch-less request
    with a Call-ID that starts with a digit collides with another transaction
    (`MC_DigitCallIds`).
- `setTask` checks the terminate flag and writes `_task` in two steps. With two
  callers, a `setTask` whose check passed can overwrite the task that another
  caller's `run()` has just started (`NoTaskRace` with `MC_TwoCallers`, a hazard).
- `Thread::stop()` can deadlock against a task that polls `isTerminated()`.
- Concurrent `stop()` calls fail `assert(!_pThread)`.

The specification claims that `run()`'s self-stop re-acquires held mutexes. The
code does not do that: `thread_owner` shows such calls return.

## Not modelled, and why

- **`setBody` and `updateLength`.** The body is abstracted away, and
  `updateLength` is `hdrSet` of Content-Length.
- **Subnets, external addresses, aliases, the rate white list and the
  null-route flag.** These are data the reader passes on, without control that
  depends on them.
- **`SIPStack::run`, `stop`, `sendRequest` and `sendRequestDirect`.** They are
  one-line forwards to transport and dispatch objects whose code is not in the
  repository.
- **The lock type.** It is defined outside `src/`, so its policy is the constant
  `WriterPreferring`. The pass run takes a reader-preferring lock.
- **The text of `createRequest`, `createResponse`, `reformatResponse`,
  `createContextId` and `createLoggerData`.** Only their lock steps are modelled
  (`SIPMessageLock`). They format text from headers whose own classes
  (`SIPTo`, `SIPCSeq`, `SIPVia`) are outside the repository. Their only control
  is a chain of throws on missing headers.
- **Concurrent classification with its values.** `SIPMessageLock` finds the
  race on the cache. It does not model which value a stale cache holds.
- **The transaction state machines and the B2BUA.** Only their headers are in the
  repository.
- **`semaphore`, `thread_sleep`, `join`.** They forward to `Poco::Semaphore`,
  `select()` and `joinAll`. `schedule_with_arg` and the `static_*` variants do
  what `schedule` does, with another argument or with the default pool.
- **ABNF, BSON, DNS, CARP.** Accessors only.
- **RAFT, BSON documents and queue, the key-value store, the UA event loop.**
  Only their headers are in the repository.
- **`setHostPort(IPAddress)`, `getHostPort(host, port)`, `getHeaders(tokens)`,
  `escapeUser`, `escapeParam` and `verify()`.** The address formatting, the
  port conversion and the `SIP-URI` rule are in libraries outside the
  repository. The port conversion wraps a port above 65535.
- **Logging, `_logContext`, the string contents of names and values.** Abstracted
  away.
