# AssetManagerClient in TLA+

TLA+ specifications of the AssetManagerClient library: what its two network
clients do under every interleaving of their threads and every failure the code
handles, what the facade in front of them does with messages and bundles, how an
OSC message is packed, what the command line tool makes of its input, and how the
scripts of the reference manual behave under keyboard, mouse and timers. TLC
checks the specifications on small instances; TLAPS proves the safety properties
of all passing runs for all values of the constants.

Paths are relative to the repository; `tcp_client.cpp:239` is
`src/tcp_client.cpp`, line 239; `search.js`, `navtree.js` and `resize.js` are in
`doc/html`.

## 1. Inventory

| Part | State | Operations | Talks to |
|---|---|---|---|
| `am::TCPClient`, `AsyncTCPClient` (`src/tcp_client.*`) | thread and service flags, `connected_`, `connecting_`, `write_in_progress_`, `msg_to_send_`, frame deque, last frame written and when, endpoint iterator, socket, condition variable, mutex | `Send`, `BlockUntilQueueIsEmpty`, destructor; on the I/O thread `Run`, `DoSend`, `HandleConnect`, `HandleWrite`, `DoClose` | its own I/O thread through `io_service::post`, plain shared flags and a condition variable; the server over TCP |
| `am::UDPClient`, `AsyncUDPClient` (`src/udp_client.*`) | thread and service flags, `write_in_progress_`, `msg_to_send_`, datagram deque, socket, condition variable, mutex | `Send`, `BlockUntilQueueIsEmpty`, destructor; on the I/O thread `Run`, `DoSend`, `HandlerWrite` | the same way; the server over UDP |
| `am::AssetManagerClient` (`src/asset_manager_client.cpp`) | options, bundle and its flag, the two clients | `SetOption`, six core messages, `SendCustomTCP`, `SendCustomUDP`, `StartBundle`, `EndBundle`, `BlockUntilQueuesAreEmpty`, destructor | calls both clients; packs with oscpack and tnyosc |
| oscpack (`third_party/src/oscpack`) | none | `voscpack`, `oscpack`, `oscsize` | called by the facade |
| tnyosc (`third_party/include/tnyosc.hpp`) | message address, types, data, cache; bundle bytes | `append*`, `set_address`, `byte_array`, `clear`, `set_timetag` | called by the facade for core messages |
| `am_client` (`src/am_client.cpp`) | base address, host, protocol; position in the arguments or in the line | `ProcessArguments`, `ProcessInput`, `main` | calls the facade |
| search script (`search/search.js`) | field, filter, last search, two timers, results window and its frame; in the frame, the focus, the rows that match and are unfolded | `SearchBox`: handlers of the field, the filter menu, the close button, both timers; `SearchResults`: `Search`, `Nav`, `NavChild`, `ProcessKeys`, `Toggle` | the browser calls the handlers; the two objects share the frame, the focus and the field |
| navigation tree (`navtree.js`) | per node: items made, expanded, sign, list displayed, slides waiting | `initNavTree`, `newNode`, `getNode`, `expandNode`, the handler of the sign | jQuery's queue of slides |
| resizable panel (`resize.js`) | width and height in every tab, one cookie | `initResizable`, `resizeWidth`, `restoreWidth`, `resizeHeight`, the cookie functions | the cookie, which all tabs share |
| `tests/main_test.cpp` | none | a script of calls, without assertions | calls the facade |
| build files, pages of the manual, jQuery | none of the program's own | none | none |

Hard behaviour, and where it comes from:

* **Two threads without atomics.** The application thread reads
  `thread_is_running_`, `service_is_ready_`, `write_in_progress_`,
  `msg_to_send_` and `connecting_` while the I/O thread writes them. Some writes
  are under the mutex, most are not.
* **A condition variable with a condition made of three flags**, and handlers
  that change a flag without notifying (success of a connect, broken pipe,
  `DoClose`).
* **Chains of completion handlers.** Each of `DoSend`, `HandleConnect` and
  `HandleWrite` may start the next operation; each must start exactly one.
* **Failures**: the thread cannot be created, the host does not resolve, a
  connect fails on one endpoint or on all, the server drops the connection
  (noticed as a broken pipe or as another error), a write takes part of a frame,
  a datagram cannot be sent.
* **Retransmission**: TCP reports a broken pipe one write too late, so the last
  frame written is kept and sent again after a reconnect, if it is recent.
* **Destruction** while the other thread runs, or is still resolving.
* **Limits**: a bundle is filled up to a number of bytes that leaves out its own
  prefixes; a cached byte array is made again in the same vector.
* **Events and timers** of the manual: a search that was cancelled or overtaken is
  still on its way; the focus moves between keydown and keyup; a timer that was
  forgotten fires; a page is replaced under the focus; a sign is clicked while
  earlier slides are still running; tabs write the same cookie.

What makes each part correct is in section 5. All hazards, each with its line,
are in `PROJECT.json`.

## 2. Modules

| Module | What it is |
|---|---|
| `OrderedLink` | abstract: messages are received in the order in which they were sent, some may be lost, over TCP the latest may be repeated |
| `TcpClient` | `TCPClient` and `AsyncTCPClient`, both threads |
| `TcpProperties` | its properties, the inductive invariant, the refinement of `OrderedLink` |
| `TcpProofs` | the TLAPS proofs |
| `UdpClient` | `UDPClient` and `AsyncUDPClient`, both threads |
| `UdpProperties` | its properties, inductive invariant and refinement |
| `UdpProofs` | the TLAPS proofs |
| `AssetManagerClient` | options, routing and bundles of the facade, with its properties |
| `OscPack` | `voscpack` step by step and `oscsize`, with their properties |
| `TnyOsc` | `tnyosc::Message` and its cached bytes |
| `AmClient` | the command line tool |
| `Sequential` | the four parts above, which run on one thread and share no state, side by side |
| `Recursion` | proofs for the parts that need it: induction over sets of numbers, and that a recursive definition has a solution |
| `OscPackProofs`, `AmClientProofs` | the inductive invariants of `voscpack` and of the tool, and the lemmas about sums and words they rest on |
| `SequentialProofs` | the invariants of the facade and of `Message`; the theorems about all four parts |
| `SearchBox` | the search field, filter menu, timers and results window |
| `SearchResults` | the results page in the frame and its keys |
| `SearchPanel` | `SearchBox` composed with `SearchResults`; an implementation of `SearchBox` |
| `SearchProofs` | the TLAPS proofs about them |
| `NavTree`, `SidePanel` | the navigation tree; the panel it is in |
| `Manual` | the three scripts on one page, and the instance for TLC |
| `ManualProofs` | the TLAPS proofs about the tree, the panel and the page |
| `MCSearchBox` | the instance of `SearchBox` for TLC |

The `.cfg` files give the constants their values for one run each and are run
with the module that holds the properties. Mutated forms of a definition
(`MutexForgotten`, `ReconnectTwice`, ...) stand beside the definition they vary:
each is a slip the code could have, no action uses them, and put in the place of
the definition each makes a property fail.

### How the clients are modelled

`apc` is where the application thread is, `ipc` where the I/O thread is. The
application makes any sequence of `Send`, `BlockUntilQueueIsEmpty` and finally
the destructor. It calls from one thread, as the library expects. Every read and
write of a flag that the other thread could observe in between is a step:

* `AsyncTCPClient::Send` is `RaiseMsgToSend` then `PostDoSend`: the flag is
  visible before the handler is in the queue.
* `BlockUntilQueueIsEmpty` is `SpinUntilReady`, then `CheckFlags` one flag at a
  time with the mutex held, `EnterWait`, and on a notification `CheckFlags`
  again. `apc = "check_w"` is *before* the lock; from `check_m` on the mutex is
  held.
* The destructor reads `thread_is_running_` (`Destructor`), then
  `service_is_ready_` (`CloseOrTimedJoin`), stops the service and joins.
* `Run` is `ResolveOk` or the failing resolve of `LeaveRun`; its end clears the
  two flags in two steps.
* A completion handler is one step: the application sees only flags, and between
  two writes of a handler there is nothing it could do that it could not do
  before or after. The exception is the broken-pipe branch of `HandleWrite`,
  which clears three flags and raises one of them again: two steps
  (`HandleWriteBrokenPipe`, `ReconnectAfterBrokenPipe`, `ipc = "epipe"`).
* A handler that locks the mutex needs `MutexFree`.

Data: a frame or datagram is the number of the `Send` call that made it, the
length prefix is left out. `posts` is the io_service queue, in order; `connectOps`
and `writeOps` (`sendOps`) are the operations that are outstanding, as sequences,
so that "at most one" is something to check and not something assumed.
`link` is the socket and the server's end: `closed`, `opening`, `up`, `garbled`
(part of a frame went out, the server's framing is lost), `gone` (the server
dropped us and we have not noticed), `broken` (`DoClose` has closed a socket that was
`gone` and has a write outstanding). The outcome of an operation is chosen in the
step that runs its handler: on a `gone` link a write may still appear to succeed,
break the pipe, or fail otherwise. On a `broken` one it may have broken the pipe
before it could be aborted: its handler then opens the socket again and connects,
behind `DoClose`, since that branch does not ask whether the client is closed
(`tcp_client.cpp:177-182`). `Tick` ages the last frame written.

Undefined behaviour: a write handler that finds the deque empty calls `front()`
and `pop_front()` on it; `HandleWriteAfterClear` goes to `ipc = "undefined"`,
where nothing is promised any more. It is reachable, but only after the
destructor's `DoClose`, which is part of what `BufferStable` says. The unlocked
spin of `tcp_client.cpp:236` is a data race; the model takes a build that reads
the flags anew each time, as the repository's CMake files produce by default.

### How the facade and OSC packing are modelled

`AssetManagerClient` is called from one thread, an operation is one step, and
what it hands to the clients is recorded in `tcp` and `udp`. A message is a
number; a packet is its length in bytes and the messages in it, since the length
is what `AppendBundle` decides by. The six core messages differ only in contents
and are one action; a volume out of range produces no message and no step, and
neither does a message that `voscpack` refuses.

`OscPack` packs one message: the address, the tags (which are checked), the
arguments, with one action per branch of its loops. `written` is how far the pointer
moved, `size` what was counted, `len` the one variable in which every branch but that
of a character keeps a length; each branch advances `written` and `size` by itself,
as in the code. `oscsize` is the operator `OscSize`; its loop is the
recursive function `Sums`, a sum that can be reasoned about.

`TnyOsc` is the one module in which bytes are kept, since its question is which
bytes a reader sees: a byte is zero or named for what it is part of. `create_cache`
is `resize` (which keeps old bytes) and three copies. `reused` remembers that the
message was changed after its bytes had been read. The address may be empty, and
`append_array` copies bytes of the pointer it was given ("stack").

`AmClient` walks along the arguments and the words of a line as the code does. A
line of input is read in one step; the calls to the facade are recorded with the
position of the word that caused them.

`Sequential` chooses in its initial state which of the four parts runs; the others
rest in a state of their own `Init`. They share no state, so nothing is lost by
that (`PartsAreApart` proves that each runs as in its own specification).

### How the scripts of the manual are modelled

JavaScript handlers run to completion, so a handler is one step. Between two
handlers anything may happen, and what the user does is several events: a key is
pressed (`PressInField`, which edits the text), repeated, and released
(`ReleaseEdit`, `ReleaseDown`, ..., all of them `OnSearchFieldChange`), and each event
goes to whatever has the focus at that moment. `held` is the key that is down,
`focus` the part of the page that has the focus. A search loads a page into the
frame: `loading` is the page on its way, `frame` the one that is there, and
`FrameLoaded` comes at any time. `timers` counts the search timers that really run
and `keyTimeout` says whether the script knows one, since `Search` resets the
variable without stopping the timer.

`missed` is a history variable: what the results on display need not follow, because
the script never saw it (an edit whose keyup went elsewhere) or decided against it
(a filter chosen with nothing to search for).

In `SearchResults` a page is rows 1 to `Rows`, of which those in `visible` match, a row with
more than one result has `Kids`, and `cur` is the result with the focus. In
`SearchPanel` a step of one of the two objects that moves the focus into or out of the
frame is a step of both: `FirstResult`, `MouseToResults`, `FieldFromResults`, `KeyDown`,
`KeyPress`, `PageArrives`.

`NavTree` numbers the nodes of `NAVTREE` parents first. `items[n]` counts the list items
made for a node, so that "made once" is something to check. jQuery's slides
are external: a list has a queue of them, and one that finds its list
already as it should be ends at once.

`SidePanel` has one cookie and any number of tabs; the browser may forget the cookie.

Words, pages and rows are members of small sets; positions on the screen, the
encoding of symbol names and scrolling are left out.

## 3. Plan

| Order | Work | State |
|---|---|---|
| 1 | `TcpClient`, `TcpProperties`, `OrderedLink`, `TcpProofs` | done |
| 2 | `UdpClient`, `UdpProperties`, `UdpProofs` | done |
| 3 | `AssetManagerClient`, `OscPack`, `TnyOsc`, `AmClient`, composed in `Sequential`; `Recursion`, `OscPackProofs`, `AmClientProofs`, `SequentialProofs` | done |
| 4 | `SearchBox`, `SearchResults`, composed in `SearchPanel`; `SearchProofs` | done |
| 5 | `NavTree`, `SidePanel`, composed with the search panel in `Manual`; `ManualProofs` | done |
| 6 | `ClientSystem`: the facade over both clients. `BlockUntilQueuesAreEmpty` and the destructor call one client after the other; the clients share nothing, so what can be said of them together is little more than what is said of each | left out |
| 7 | proofs of what sums and a grammar decide: `ReturnsOscSize`, `SizersRefuseAlike`, `ArgumentsAreTaken`, `CommandsAreSent` | done |
| 8 | proofs of liveness | `TextGetsItsResults`; for the rest see section 6 |

## 4. Runs

Passing:

| Run | Instance | What it shows |
|---|---|---|
| `tcp_safety` | 4 frames, 2 drops, 2 endpoints, every fault, spurious wakeups; about 145 000 states | the invariants, the inductive invariant and the refinement below |
| `tcp_liveness` | 4 frames, 2 drops, 2 endpoints, all faults but `resolve`, `short` and `wakeup`; about 56 000 states | `BlockReturns`, `QueueDrains`, `RetransmissionDelivers`, `ValidConnectionDelivers` |
| `udp` | 4 datagrams, every fault, spurious wakeups | the UDP invariants, action property, refinement and liveness below |
| `sequential` | facade: 4 messages of 20, 740 or 1500 bytes; `voscpack`: every format of up to 3 arguments, all remainders modulo 4; `Message`: two addresses and the empty one, 3 tags with the comma; `am_client`: 3 arguments, 3 words in a line; about 1.3 million states | the properties of these four parts |
| `search_box` | 2 filters, a word and the same with a space, 2 timers; about 1.15 million states | consistency of the panel and the menu, and that a text left alone gets its results |
| `manual` | a page of 3 rows, 2 of which match, one with 2 children; a tree of 5 nodes on 3 levels with 3 slides a list; 2 tabs, 2 widths, 2 heights | focus and keys among the results, the tree, the cookie |

Why the bounds are enough: a frame can be last written, outstanding, queued or
posted, so four frames fill every place once; with two drops a retransmission is
itself interrupted; two endpoints distinguish "next endpoint" from "last
endpoint"; with `MINUTE = 3`, `TIMEOUT_SECONDS = 1` and `MaxAge = 3` an age is
fresh, stale and wrapped round. Two bundles of 740-byte messages meet the limit
exactly, and 1500 bytes is the largest message the facade can make. Padding depends
on lengths modulo 4 only; an address of 3 bytes ends in one zero, one of 4 bytes in
four, so that a shorter message is made over a longer one. An option or a command,
its value and what follows it are three words. Two timers are one that was forgotten and one that replaces it; two
filters distinguish the last from one behind it. Two matching rows, one with
children, next to one that does not match, give every combination of neighbours the
arrow keys tell apart; three slides in a list are one running and two that wait for
it. The proofs remove these bounds for the safety properties (section 6).

Each of the other runs checks a statement of a header or a test that the code
does not keep; TLC's trace shows how:

| Run | Statement | What happens |
|---|---|---|
| `tcp_block_drains` | `BlockDrains` (`tcp_client.hpp:47`) | one `Send`: `write_in_progress_` is read FALSE; `DoSend` queues the frame behind a connect and clears `msg_to_send_`, read FALSE; `HandleConnect` starts the write and clears `connecting_`, read FALSE. `DoSend` and the success branch of `HandleConnect` change the flags without the mutex |
| `tcp_resolve_fails` | `BlockReturns` (`main_test.cpp:70`) | `resolve()` throws, nobody notifies |
| `tcp_stale` | `NoStaleRetransmission` (`tcp_client.hpp:54`) | 60 seconds have a seconds field of 0 |
| `tcp_short_write` | `ValidConnectionDelivers` (`asset_manager_client.hpp:161`) | `async_write_some` takes part of a frame |
| `udp_send_fails` | `BlockReturns` (`main_test.cpp:70`) | the failed datagram blocks the deque for ever |
| `message_stale` | `MessageIsComplete` (`tnyosc.hpp:31`, `:340`) | a message with an address of 3 bytes is read, its address is set to one of 4: the old comma stands where the first zero behind the new address should be |

Other differences between the code and its documentation or evident intent,
visible in the modules without a run:

* `asset_manager_client.hpp:222` speaks of bundles of up to 1500 bytes. `Full` leaves
  out the four bytes in front of the message, so a bundle of several messages
  has up to 1504; and a message of more than 1484 bytes makes a bundle that is longer,
  with an empty one in front of it. `OverrunBounded` and `EmptyOnlyBeforeLarge` say
  that this is all.
* `SetOption` toggles (`options_ ^= option`), while `asset_manager_client.hpp:84`
  says that an option cannot be removed.
* `oscsize` gives another number than `voscpack` (`SizersDiffer` says how far it is
  off), while `oscpack.h:58` calls it the exact size; it is too small for every
  message without a number of four bytes (`OscSizeIsTooSmall`).
* `io_service::work` keeps `run()` going after an error, so the thread does not
  end as `tcp_client.hpp:108` says: only `LeaveRun` leaves, after `stop()` or a
  failed resolve.
* The destructor does not wait for a thread that is still resolving
  (`CloseOrTimedJoin`, `StopOrTimedJoin`).
* UDP's `BlockUntilQueueIsEmpty` returns while the only datagram is still being
  sent: `DoSend` has set `write_in_progress_` from the empty deque (`MustWait`).
* `am_client` never prints that an argument is missing: an option at the end reads
  `argv[argc]` (`MissingValue`). It returns without `BlockUntilQueuesAreEmpty`.
* `Message::clear` also removes the comma that begins the tags. For an empty address
  `create_cache` makes room for "/tnyosc" (`tnyosc.hpp:391`), the default of
  `tnyosc.hpp:203`, but copies the empty one: the room keeps what the vector held.
* `append_array` puts bytes of its own pointer among the tags, not those of the array
  (`tnyosc.hpp:325`).
* `msg_to_send_` is one flag for any number of posted handlers: the first `DoSend`
  clears it for all, which is another way for `BlockUntilQueueIsEmpty` to return too
  early.
* A write that broke the pipe makes its handler connect again, also when the
  destructor's `DoClose` came first (`tcp_client.cpp:177-182`). Nothing is written on
  that connection (`ClosedInv`).
* `search.js:226` compares the text without its spaces with the last search, while
  `Search` looks for the text with its inner spaces (`search.js:337`): type `ab`, and
  put a space between the letters, and the results of `ab` stay.
* In the filter menu, down goes one entry behind the last (`search.js:297`); the search
  there fails until up is pressed.
* A comment calls ten years "one week" (`resize.js:31`).
* In `NavTree`, a slide up that begins while an outer list is hidden ends without
  hiding anything: the list of a collapsed node may show.

Runs without a deadlock check are those in which the program may really stop: a
caller blocked for ever behind a failed resolve or send. The passing runs without
those faults check for deadlock.

## 5. Properties

TCP (`TcpProperties`):

* `OneOperation`, `BufferStable`: one asynchronous operation at a time, over a
  buffer that stays the front of the deque until its handler has popped it.
* `FlagsTellTheTruth`: the flags agree with the operations outstanding and the
  socket, through drops and reconnects. Everything else depends on it.
* `NoIdleBacklog`, `QueueDrains`: no path leaves frames queued with nothing
  under way.
* `WaiterHasWaker`, `BlockReturns`: no lost wakeup, although several handlers
  change flags without notifying.
* `RefinesOrderedLink`: whatever drops and retransmissions happen, the server
  never receives an older frame after a newer one.
* `RetransmissionDelivers`, `ValidConnectionDelivers`: what the retransmission
  and TCP are for. A frame is excepted if it is too old to be sent again, if no
  endpoint can be reached, or if the server drops us once more.

UDP (`UdpProperties`): `BufferStable` (in spite of the odd `write_in_progress_`),
`NoIdleDatagram`, `ErrorIsFinal`, `WaiterHasWaker`, `NothingLost` (no step of
either thread drops or reorders an accepted datagram), `RefinesOrderedLink`,
`BlockEnds`, `DatagramsLeave`.

One thread (`Sequential`):

* facade: `EveryMessageOnce`, `OverrunBounded`, `EmptyOnlyBeforeLarge`,
  `StrayEndIsIgnored`;
* `OscPack`: `SizeIsWritten`, `ReturnsOscSize` (against the sizes of OSC 1.0),
  `SizersRefuseAlike`; proved only: `AssertionHolds` (the assertion of
  `oscpack.c:213`), `SizersDiffer`;
* `TnyOsc`: `ReadersSeeTheMessage`, the cached bytes against the OSC message built
  anew: always of its length, with the address, the tags and the arguments in their
  places, and byte for byte until the message is changed after it was read. From then
  on the zeros that end and pad the address and the tags may be other bytes, which
  the run `message_stale` shows to be a fault;
* `AmClient`: `ArgumentsAreTaken` and `CommandsAreSent` compare what the two loops
  did with a grammar of the whole input.

Manual:

* `SearchBox`: `PanelConsistent`, `MenuStaysUnderMouse`, and `TextIsSearched`: a text
  that the user leaves alone ends up with its results, whatever timers were
  restarted, forgotten and overtaken before. Those are its own if it has no spaces;
  otherwise its own or those of the text without them (section 4);
* `SearchPanel`: `FocusIsDisplayed` (the keyboard is never trapped on a hidden
  result), `KeysWalkTheList` (up and down visit the results on display one by one);
* `NavTree`: `TreeAgrees`; `SidePanel`: `WidthRemembered`.

### Fairness

The clients' `FairSpec` has weak fairness on `AppContinues` (once the application has
entered a library call, its thread is scheduled) and on `IoThread` (the service runs a
handler that is ready, and every operation on a socket completes with a result or
an error, which the kernel's timeouts guarantee). Nothing makes the application
call anything, the server drop us or time pass. Spurious wakeups are left out of
the fair TCP runs: weak fairness does not exclude one after every wait, and with it a
caller that keeps taking the mutex from the I/O thread. The run `udp` has them, and
its liveness properties except `MutexHogged`: wakeups that never stop, or an
application that never stops calling `BlockUntilQueueIsEmpty`.

`FairSpec` of `SearchBox` has weak fairness on `KeyTimerFires` and `FrameLoaded`: the
browser's timers fire and pages arrive. Nothing is assumed of the user, who may
type for ever or leave a key pressed; `TextIsSearched` starts from a user who stops.

## 6. Proofs

All proofs are for every value of the constants. They rest on the named
assumptions of the modules (`ConstantsOK`, `SequentialOK`, `SearchBoxOK`,
`SearchPanelOK`, `ManualOK`), which TLC evaluates for its instances.

**`TcpProofs`** proves `Spec => []IndInv`, from it the six safety properties of
`tcp_safety`, and `Spec => RefinesOrderedLink`. None of the safety properties is
inductive. `IndInv` adds what they rest on:

* `ThreadInv`: which combinations of `apc` and `ipc` occur, and what the thread
  flags say in each;
* `LinkInv`: while the client is open (`OpenInv`), each flag agrees with the
  operations outstanding, a write goes over the front of a non-empty deque on a
  connected socket, and a non-empty deque has something under way; once the
  destructor's `DoClose` has run (`ClosedInv`), nothing is left to write and nothing
  is written any more, although a late broken pipe may open the socket again;
* `WakerInv`: whoever waits, *or has decided to*, waits for a frame posted or
  queued, and a raised `msg_to_send_` or `connecting_` has such a frame behind it;
* `OrderInv`: last received, last written, queued, posted, sent, in this order.

Each part has its own step lemma (`ScalarStep`, `QueueStep`, `ThreadStep`,
`LinkStep`, `WakerStep`, `OrderStep`) with one case per action; `IndStep` puts them
together. The refinement follows from `OrderInv`: a `Send` is `Submit`, a
`HandleWriteOk` on a live link is `Receive`, everything else stutters.

**`UdpProofs`** goes the same way, with `SocketInv` in the place of `LinkInv`: a
send is outstanding exactly while the deque has a front and the socket is open,
and a closed socket keeps a non-empty deque, which is what makes an error final.
Its `OrderInv` is strict, since no datagram is sent twice; `RefinesOrderedLink`
follows from it. `NothingLost` is proved from `SocketInv`: a completed write moves
the very datagram that is the front of the deque (`PipelineStep`). TLC checks both
`IndInv` as invariants of `tcp_safety` and `udp`.

**`Recursion`.** The library's theorems on induction take an operator as a parameter,
which no prover here can be given. `Recursion` does without: a set of numbers that is
not empty has a least element (from the library's `WFMin`, which takes sets only), so a
set with zero and with the successor of each of its numbers has all of them
(`SetInduction`); and for a first value and a step there is a function that follows
them (`RecursionExists`). A recursive definition is `CHOOSE f : f = F(f)`, which says
nothing until such an `f` is shown to exist. `SumsAre` and `StepsAre` do so for the two
recursive functions of these models, and from there on their equations can be used.

**`OscPackProofs`.** `PackInv` adds to `TypeOK` and `SizeIsWritten` what has been counted so far and
what `len` holds: the address and `k` bytes while the tags are checked, all of which
were supported, with `len` the number of the tags; the sum up to the argument before
`k` while the arguments are packed. A padded string is an OSC
string (`PaddedString`), so the sum over all arguments is the size of the OSC message,
and every sum on the way is a multiple of four (`SumsOfFours`), which is why the
assertion at the end of `voscpack` holds. `SizersAre` compares the sums of `voscpack` and
`oscsize` position by position (`SumsInBalance`).

**`AmClientProofs`.** The properties compare the two loops with a grammar of the whole
input; the invariants say the same of the part in front of the position. `TakenInv`:
the options are those given last in front of `i`, and the base address is the last
argument. `SentInv`: the calls are those of the commands in front of `it`, in order
and once each, and there was no mistake among them. `GivenBehind` and `NextStep`
carry this over one word or one word and its value, which are the steps of the loop
as well as of the grammar. `ToolInv` is both, with the types.

**`SequentialProofs`.** `FacadeInv` strengthens the facade's invariants by `BundleInv`
(a bundle is longer than its header exactly if it has a message, and none is kept
outside a bundle) and by what an empty packet at the end of `udp` implies about the
bundle behind it (`EmptyInv`). Every action has one of six effects on the packets, and there
is one lemma per effect. `MessageInv` adds to `ReadersSeeTheMessage` that a message not
changed since it was read has its cache or never had one; `OscMessageIs` and `CacheIs`
say what is at each position of the OSC message and of the cache, and `ReadStep`
compares them. `PartsAreApart` carries the invariants of all four parts to
`Sequential`, where the theorems are stated; the types of all parts together are
`SequentialTypeCorrect`.

**`SearchProofs`.** `BoxInv` (the types and the two safety properties together) is
inductive for `SearchBox`. `PanelStepsAreBoxSteps` shows that each step of
`SearchPanel` is one of `SearchBox` or a stutter, hence `PanelSpec => Spec`, and
`BoxInv` holds in the panel. `PanelInv` adds `FrameRows`: the rows that match are those
of the page in the frame. `BelowWalks` and `AboveWalks` prove that the keys walk the list when
the matching rows are a block, which sorted rows are (`RowsAreBlocks`).

`TextGetsItsResults` is about liveness: the results of the text, or of the text without
its spaces, which for a text without spaces are the same. `FollowInv` adds to `BoxInv` that the last page
asked for is the one for the last text and filter, and that a text was searched for
or has a timer, unless something was missed. A text that is watched therefore has its
results or a running timer (`TimerOrResults`), a timer that fires asks for them
(`TimerSearches`), and they stay (`ResultsStay`). The fairness of `FairSpec` speaks of
`ENABLED`, which the provers do not know; `TimersFire` and `PagesArrive` are the same with
the guards in its place, `timers > 0` and `loading # NoPage`, under which the two actions
can always be taken and always change something. What the theorem leaves to TLC is the
last part of `TextIsSearched`: that the timers which were forgotten come to an end, by
induction over their number. As long as one is left, it may load the right page once
more.

**`ManualProofs`.** `ScriptsAreApart` carries the theorems of the parts to the page.
`TreeInv` adds `SlidesVisited` to `TreeAgrees`: a list slides only if its items were
made. The width is remembered because of `SideInv`: while the browser has the
cookie, it is the width displayed in the tab used last. `ManualTypeCorrect` puts the
types of the three together.

Model-checked only: the liveness properties (`BlockReturns`, `QueueDrains`,
`RetransmissionDelivers`, `ValidConnectionDelivers`, `BlockEnds`, `DatagramsLeave`,
`TextIsSearched`). Weak fairness is defined by `ENABLED`, and they need induction of a
temporal formula over the length of a queue or the number of timers; the provers have
a rule for neither. The induction of `Recursion` does not help, since a temporal
formula cannot define a set.

## 7. Not modelled

* Contents of messages (decibels, byte order, the length prefix of a frame).
* What the network does to a datagram after it left the host.
* Several application threads in one client: the header does not promise it.
* A compiler that hoists the flag reads out of the spin loop.
* What the I/O thread does with destroyed members after `timed_join(0)`: the model
  stops at `apc = "gone"`, which it reaches with the thread still resolving.
* `BlockUntilQueuesAreEmpty` and the destructor of the facade as calls into both
  clients: each client is modelled with its own caller.
* `tnyosc::Bundle`, which the library does not use.
* `showRoot` of the navigation tree and everything else that only scrolls, positions
  or decorates; the encoding of symbol names in the search.
* The pages of the manual and jQuery, whose events and slides are external to the
  scripts' modules; the build files; `main_test.cpp`, a script without assertions.
