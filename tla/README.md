# TktUsbManager in TLA+

TktUsbManager is a kernel plugin for the PSP. It reads a list of named USB
endpoints from `ms0:/SEPLUGINS/tktusbmanager.cfg`, describes them to the USB bus
driver, and lets other plugins look endpoints up by name (`tktUsbGetEndpointR`,
`tktUsbGetEndpointW`) and transfer data over them (`tktUsbRead`, `tktUsbWrite`).
The repository has no tests and no documentation beside its comments; these
modules state what the code keeps to, and check and prove it. Paths below are
relative to the repository.

## The system

| Part | Code | State | Operations |
| --- | --- | --- | --- |
| transfers | `src/tktusbmanager/usb/endpoint.c` | a `UsbdDeviceReq` on each caller's stack, an event flag per endpoint | `requestTktUsbEndpoint` under `read`/`writeTktUsbEndpoint`, the callback `usbRequestDone` |
| manager | `src/tktusbmanager/main.c`, `usb/endpoints.c`, `usb/usb.c` | the table `usbEndpoints`, `usbDriver`, which layers of the bus are up | `module_start`, `module_stop`, the lookups |
| driver description | `src/tktusbmanager/usb/driver.c` | endpoint numbers and descriptors inside `usbDriver` | `initializeTktUsbDriver`, register, start, stop |
| configuration | `src/tktusbmanager/config/config.c`, `common/file.c`, `common/memory.c` | the text, the parsed list, the ids of all blocks | `loadConfigFile`, `unloadConfig` |
| text filters | `config/config.c:160-266` | the text | blanking of comments and tail commas |
| JSON parser | `parson/parson.c`, `common/parson.c` | values, objects and arrays held by block ids | parse, get, free |
| example plugin | `examples/usbreadwrite/pspplugin/main.c` | one thread with a buffer | looks up two endpoints, reads one and echoes to the other; is terminated on unload |
| example on the host | `examples/usbreadwrite/pc/.../main.cpp` | a string, a buffer | writes the string, reads the echo, resets the device |

How they interact:

- `module_start` runs in the loader's thread: it loads the configuration, builds
  the table, unloads the configuration, fills in the driver and brings the bus
  up. Any of these calls of the kernel may fail, and it then returns 0 where it stands.
  `module_stop` makes its four calls whatever each of them answers.
- Clients run in threads of their own. They hold pointers into the table, and call
  into `endpoint.c` at any time after that.
- The bus driver holds pointers to requests and runs `usbRequestDone` in its own
  thread. It and a caller share the request and the event flag, and nothing else.
- `loadConfigFile` hands the filtered text to parson and walks the object it returns;
  parson's memory, like the configuration's, is blocks of the kernel that are freed by
  id.
- The program on the host and the plugin share the wire: two endpoints, one each way,
  with neither lengths nor timeouts.

What is hard about it: a completion that races the wait for it; one event flag
per endpoint for all its callers; requests on stacks of threads that may be
terminated; a wait with no timeout; failures midway through starting, with a stop
that tries to undo everything and
looks at no answer; blocks owned by ids that move and are freed by hand; error paths at
every depth of a recursive descent; two ends of a wire that both block. The
`hazards` of `PROJECT.json` list each at its line, with the properties aimed at it.

## The modules

### UsbEndpoint (and TransferService)

One variable per piece of state that outlives a step: `pc` and `calls` for each
thread, `request` for the structure on its stack, `queued` and `finished` for the
pointers the bus holds before and after it has completed them, `flag` for each
event flag, `returned` for what the last call returned; `outcome` is history: what
the bus did for the request of each thread's latest call.

| Action | Code |
| --- | --- |
| `Prepare` | `tktUsbRead`/`tktUsbWrite` up to the last field set, `endpoint.c:127-137` |
| `Submit`, `Refused` | `sceUsbbdReqRecv`/`sceUsbbdReqSend`, and the early return, `endpoint.c:139-142` |
| `WaitEventFlag` | the wait, `endpoint.c:144-150`, with `PSP_EVENT_WAITCLEAR` |
| `Return` | `endpoint.c:174-180` and `202` |
| `Complete` (external) | the bus stores `retcode` and `recvsize` through the pointer |
| `RequestDone` | `usbRequestDone`, `endpoint.c:97-111`, with `sceKernelSetEventFlag` |
| `Kill` | the plugin terminates its thread, `examples/usbreadwrite/pspplugin/main.c:108` |

A pointer the bus holds names the frame it points into (`thread`, `call`). When
that frame is dead, the store and the read through it are undefined behaviour: the
model lets each hit whatever request the same, restarted thread has put in its
place, or nothing, or (the read) still see the old endpoint. It does not let them
hit other threads' memory: a terminated thread's stack is taken to be used again
only by that thread when it is restarted. This is the one assumption about
memory in the module.

`TransferService` is what a caller is promised: its call is open until it is
refused or until one transfer has been made for it, and returns that transfer's
outcome. `UsbEndpoint` implements it for *safe* threads: those that share no
endpoint with another thread and are not terminated inside a call. For other
threads it does not: two threads that share an endpoint can take each other's
signal, and a thread then returns before its own transfer is done. Nothing in the
repository promises otherwise, so no finding is recorded, but anyone who uses
`tktUsbRead` from two threads on one endpoint should know it. What holds for them is
`EarlyWakesAreMatched`: the requests that their calls have left to the bus (`Deserted`)
are no more than the calls that still await a signal although their own request has
given its own (`Overtaken`).

### TktUsbManager

`step` is where `module_start` or `module_stop` stands; `config`, `built`, `table`
and `driver` are the configuration, `usbEndpoints_`, `usbEndpoints` and
`usbDriver`; `eventFlags` counts the event flags created; `usb` says which of the
four layers are up; `handle` holds what each client last asked for and got. Each
step of `initializeUsbEndpoints`, `startUsb`, `registerAndStartUsb` and `stopUsb`
is an action, and each call of the kernel that can fail has both outcomes. Names
are sequences of bytes, because which names are cut to what is the point;
descriptors are reduced to the fields that differ from one configuration to the
next: endpoint addresses, `bNumEndpoints` and `wTotalLength`.

Assumed: a configuration lists no more than 8 endpoints (the code does not check
it), parson refuses a key that is there already (`json_object_add`), clients look
endpoints up only after `module_start` has returned (the loader starts them
later). A call that fails is taken to have changed nothing: it has brought up no layer,
or taken none down. `stopUsb` discards what its calls return, and so `TakeDown` goes on
whether or not its layer is down.

### ConfigFile

`loadConfigFile` and `unloadConfig` as steps over `blocks`, the live blocks of the
kernel, each with its size and with how many bytes of the file it begins with.
`buffer` and `contentsSize` are those of `readFileLoop`; `contentsId`, `jsonId`,
`endpointsId` and `nameIds` the ids that `loadConfigFile`, `parseConfigFile` and
the configuration hold. Ids are handed out again once they are free, so freeing
one twice could hit another owner's block: `wildFree` records any free of an id
that is not live. Freeing id 0, which `loadConfigFile` does when `readFile` gave it
nothing, is harmless. The parser's value is one block, and whether filters and
parser succeed is a choice.

`sceIoRead` is taken to return as much as the buffer holds or the file has. A read
that fails is modelled (`ReadErrors`): its code goes into the length, and `step`
becomes `undefined` when the closing NUL falls outside the block. The properties
promise nothing after a failed read; that is a defect of `file.c:91-92`, recorded
as a hazard.

### ConfigText

The three filters `parseConfigFile` runs over the text before it is parsed. `step` is
the filter that runs, `text` the contents up to the NUL, whose place is `End`, and `at`
is `contentsPtr`; `given` is history, the text as each filter was given it. One action
is one way through the body of a `while( 1 )`: `LineComment`, `NoLineComment`,
`BlockComment`, `BlockCommentOpen` (the return of 1), `NoBlockComment`, `TailComma`,
`NoComma`. What each filter is for is defined apart from its loop: `LineComments` and
`TailCommas` as sets of places, `BlockComments` by an automaton that reads the text
a character at a time.

The model says what the code does where one may wish for more: two slashes begin a
comment inside a string or a block comment too, and of two commas before a bracket only
the second is blanked.

### JsonMap and ParsonObject

`ParsonObject` is `JSON_Object`: `object` has the cells of the hash table and the items
in the order of addition, `next` is the `new_object` of `json_object_grow_and_rehash`,
`adding` the name and value of the call under way. `Add` and what follows it are
`json_object_add` with the caller that frees the key and the value on failure:
`AddFound`, `AddHere`, or `Grow`, `Rehash` (one pass of the loop) and `Grown`, or
`GrowFails`, with any subset of the seven tables refused. `Get`, `GetAt`,
`GetPastTheEnd` are the lookups and `Free` is `json_object_free`. Left out are the hash kept beside each
item, which only saves comparing names, and `cell_ixs`, which is written and never read.
`item_capacity` is computed in the code as a float; `(7 * capacity) \div 10` is the same
number for every table that fits in the memory of the machine (up to 2^24 cells).

`JsonMap` is what its callers rely on: a map in order of addition, to which an addition
takes effect whole or not at all, and fails only for a name that is there or for want of
memory. `ParsonObject` implements it, with `items` for the entries.

### ParsonParse

`json_parse_string` and `json_value_free`. `text` holds the tokens consumed so far and
the one ahead; the next is drawn when the parser gets to it, so that all texts are
tried. `stack` has a frame for each `parse_object_value` and `parse_array_value` under
way, `mode` says where the innermost stands (`"value"` is a call of `parse_value`,
`"return"` the return from it), `blocks` are the live ids. Each allocation may fail, and
every error path frees what the code frees there, in that order. A call of `parse_value`
that fails before it holds anything is one step.

`json_array_make` sets neither `itemIdsId` nor `itemsId`. When an array that has never
grown is freed or grows, those ids are what the block held before: either they name no
live block, and freeing them does nothing, or they do, and `mode` becomes `"undefined"`
(`Strays`), about which nothing is claimed.

Values nest in the code, and `json_value_free` descends into them. The model keeps of a
value's items what the parser looks at again, their names, and what they mean; the blocks
under them are in `below`, in the order in which `json_value_free` gets to them, and `bare`
says whether an array among them has never grown. `Extended` is where an item's blocks
pass to its container.

`Sentences` defines the texts of the grammar and what they mean apart from the parser,
by the length of the text (`Grammar`, a recursive function: `Phrases` makes the phrases of
`n` tokens from the shorter ones): JSON with an optional comma after the last element, names
that differ within an object, and nesting up to `MAX_NESTING` (`Shallow`, which counts
the brackets of the text). What follows the first value is not looked at, as in the code.

### ParsonString

`get_quoted_string`: `skip_quotes` finds the closing quote, `process_string` copies up to
it, one plain character or escape to an action; `at` is `*string`, then `input_ptr`, and
`output` what is before `output_ptr`. The text is a quote or a letter, `Inside`, which is
a sequence of units, and an end: closed, unclosed, or with its last quote escaped. A unit has
its characters and what they mean, as JSON says: a character (`IsPlain`: UTF-8 of one code
point), a short escape, a number, or `Bad` (`IsBad`: it begins with a control character, an
unknown escape, or `\u` without digits). The reference, `WellFormed` and `Decoded`, reads
`output` back as UTF-8 and compares with the `CodePoints` of the units, pairs put together.
`Quoted` says that the text is closed at the end of the units, and nothing less: a unit that
ends in a comma before the NUL does not close it. The four digits of
an escape are one element of the text, `Hex` plus their value, counted as four
characters by `Width`; `Lengths` adds them up, and `LengthTo(i)` is how many characters
there are between the opening quote and place `i`.

### UsbReadWrite

The example, both ends and the wire. The plugin is `plugin`, `thread`, `buffer`, `size`,
with a request for each direction (`recv`, `send`) that is open from its submission to
its return, which is what `TransferService` promises of it. The host is `host`,
`string`, `out` (still to be sent) and `in` (received). One action each for the calls of
`mainThread` and their results; `PacketOut` and `PacketIn` move one packet of a bulk
transfer. `Interrupt` ends the program on the host, `Detach` pulls the cable, and
`TerminateThread` is what `module_stop` does after it has set `ended`.

Assumed of the bus: packets of one transfer arrive in order and once; a transfer ends with
a packet that is not full or with its buffer; an empty string is one empty packet; data
wait on the sender's side until someone reads; a device reset either cancels open
requests or leaves them alone (both are tried); a request made while the cable is out may
be refused, or stay open. `broken` is history: a run has been broken off and none has
printed its result since.

### TktUsbSystem

`TktUsbManager` extended with the calls of `UsbEndpoint` (`Call`), whose endpoints are
the pointers that lookups return: an entry of the table, as a reader or a writer. A
client calls on the entry of its last lookup, at any time from the return of
`module_start` to the end of `module_stop`, which takes the layers down regardless of
calls in flight. Assumed of the bus: it refuses requests while the driver is not registered,
serves them while USB is active, and gives up what it holds once the driver is stopped.

### MC modules

`MCUsbEndpoint`, `MCTktUsbManager`, `MCConfigFile`, `MCConfigText`, `MCParsonObject`,
`MCParsonParse`, `MCParsonString`, `MCUsbReadWrite` and `MCTktUsbSystem` give the
constants their values.

## What is checked

| Run | Properties | Bounds, and why they are enough |
| --- | --- | --- |
| `endpoint_private` | `CallsReturn`, `ServiceSpec` | two threads with an endpoint for each direction, two calls each: a second call meets whatever the first has left |
| `endpoint_shared` | `QuiescentIsClean`, `EarlyWakesAreMatched` | three threads on one endpoint, two calls each: signals can be taken twice over, and two requests are deserted at once; threads are symmetric |
| `endpoint_disturbed` | `TypeOK`, `WokenByOwnRequest`, `NoDanglingRequest`, `NoLostSignal` | one safe thread; one that is terminated and restarted while the bus holds its request; one that shares an endpoint with it and also uses a third |
| `manager` | `TypeOK`, `WholeTable`, `AnnouncedIsServed`, `Reachable`, `HandleHonest`, `LayersNested` | up to two endpoints of either direction, names of 0 to 3 bytes for a field of 2, so that names are cut and cut to the same bytes; every call of the bring-up and of the take-down may fail |
| `config_file` | `TypeOK`, `InBounds`, `WholeText`, `FreesLive`, `NothingLeft` | files of 0 to 5 bytes for buffers of 2: below, at and above the edge of one and of two buffers; up to two endpoints; five ids, one more than are ever live beside one that was freed |
| `config_text` | `TypeOK`, `LineCommentsBlank`, `BlockCommentsBlank`, `TailCommasBlank`, `CommentsGone`, `FiltersEnd` | all texts of up to six characters out of `/` `*` `,` `]`, space and newline (`}` is treated like `]`, the other white space that `isspace` accepts like a space, and any other character like `]` by all but the last filter): long enough for a closed block comment between a comma and its bracket, `,/**/]`, and for two comments of either kind that touch |
| `parson_object` | `TypeOK`, `InsertsFit`, `OwnsItsBlocks`, `MapSpec` | four names of which three collide around the last cell, five values, a table that grows from 2 cells to 8: probes go round the end, and collide anew after each growth; values are symmetric |
| `parson_parse` | `NothingLeft`, `ParsesGrammar` | all texts of up to ten tokens with nesting up to 2, two names and a name with a NUL; a table begins with room for 4 instead of 16. The first addition makes an empty table grow, the next ones do not grow it, and the fifth item of an array, the tenth token, makes a full one grow again; an object grows again only with its third member, which takes twelve tokens, and that is left to the proofs |
| `parson_parse_errors` | `AcceptsValuesOnly` (violated) | texts of up to three tokens |
| `parson_string` | `StaysInside`, `MeansWhatItSays`, `RefusesTheBad` | strings of up to three units, with the numbers next to each bound of UTF-8 and of the surrogates, a comma, and bad units of each kind, one of which ends in a quote: a pair and a neighbour |
| `usb_read_write` | `OwnEcho`, `NothingStale`, `EchoArrives` | buffers of two packets of two bytes, strings of 0 to 5 bytes: below, at and above a packet and the buffer; three runs, so that what one leaves meets the next and is seen by a third |
| `system` | `RequestsReachTheirEndpoint`, `WokenByOwnTransfer`, `StopReturnsCalls` | two files of two endpoints, three clients, one of them with a name of its own and two that ask for one to which a longer name is cut; a call each, at any moment of the start and the stop |

- `WokenByOwnRequest`: after the wait, a safe thread reads the fields of its own
  completed request. `NoDanglingRequest`: the bus holds no pointer into a frame it
  has left. `NoLostSignal`: while it waits, its request is still with the bus.
- `QuiescentIsClean`: on a shared endpoint signals and requests still balance: once
  every caller has returned, nothing is left for the next one to trip on.
  `EarlyWakesAreMatched`: until then, a call that goes on before its own transfer has
  ended has taken the signal of another that still waits; none does so by itself.
- `CallsReturn`: every call of a safe thread returns.
- `WholeTable`: clients find the whole table or none, each entry with a flag of its
  own. `AnnouncedIsServed`: what the host is told matches what requests go to.
  `Reachable`, `HandleHonest`: a lookup finds the endpoint it should, and nothing
  else. `LayersNested`: no layer of the bus comes up before those it rests on, and none
  is pulled from under another unless the call that was to take that one down has failed.
- `InBounds`, `WholeText`: reads and the closing NUL stay in their block, and the
  text is the file. `FreesLive`, `NothingLeft`: every failure gives back exactly what
  was allocated.

- `LineCommentsBlank`, `BlockCommentsBlank`, `TailCommasBlank`: each filter changes
  just what it is for; `CommentsGone`: together they leave no comment. `FiltersEnd`: none
  of the loops, which have no condition, runs forever.

- `InsertsFit`: whenever an item is stored the probe has stopped at a free cell and there
  is room, so that no write goes to `cells[OBJECT_INVALID_IX]` and the additions of a
  rehash neither fail nor grow. `OwnsItsBlocks`: a failed growth leaves no table behind,
  and the key and value are freed once. `MapSpec`: an object is a map through all of it.
- `NothingLeft` of the parser: every error path at every depth gives back
  exactly what the parse has allocated. `ParsesGrammar`: without a shortage of memory, the
  parser accepts just what begins with a value, and builds its meaning.
- `StaysInside`: the two passes over a string agree about where it ends, and the output
  fits its block. `MeansWhatItSays`, `RefusesTheBad`: the bytes are the shortest UTF-8 of
  the code points written, and only bad units are refused.
- `OwnEcho`: a run prints the string it was started with, whatever earlier runs did, if
  they were not broken off. `NothingStale`: a run leaves nothing in either direction, also
  when the reset has failed the read. `EchoArrives`: a run with a string that fits ends;
  the two ends do not wait for each other to read.
- `RequestsReachTheirEndpoint`: from the file through the table, the driver and a lookup
  to the request, name, place, number and direction belong together.
  `WokenByOwnTransfer`: two clients disturb each other only if their names are cut to the
  same bytes. `StopReturnsCalls`: no call in flight is stranded by `module_stop`,
  whichever of its calls fail, except that of stopping the driver itself.

The finding: `AcceptsValuesOnly` is what `parson.h:106` says of `json_parse_string`. The
run refutes it with the text `-`: `parse_number_value` (`parson.c:1601-1623`) looks at
`errno` alone, which the `strtol` of newlib, the C library of the PSP's toolchain, leaves
at 0 when it finds no digits, and so the text is the number 0. `ParsesGrammar` excepts
this one text.

Deadlock is not checked: in each of these models the system may stop (clients need not
call, a load or a parse ends, a stopped module does nothing, a plugin without a host waits), and a call on a shared endpoint
may indeed wait forever.

Fairness, in `config_text`: weak fairness of the next step, because one thread runs the
filters and calls nothing that blocks. In `endpoint_private`: weak fairness of each thread's own steps (the
kernel schedules a ready thread), of `Complete` for each request (the host serves every
endpoint it was offered: without it no read ever ends, by design) and of
`RequestDone` (the bus runs `func` for each request it completed). Calls are not
fair: a client may stop calling. In `usb_read_write`: weak fairness of the plugin's
thread, of the packets and of the end of a run; neither runs nor the cable are fair, so
`EchoArrives` holds without a new run or a reset to help. In `system`: weak fairness
of each client's own steps, of `module_stop` once it has begun (its loader's thread goes
on), and for each client of `RequestDone` and of `Cancel`, the bus giving requests up once
the driver is stopped; that the kernel agrees to stop the driver is not assumed. Transfers are not
fair, so that it is the stop alone that returns the calls. Safety properties assume none.

Each property has a mutant, an operator defined just before the one it stands in for,
that shows what kind of slip in the code it catches: a wait without
`PSP_EVENT_WAITCLEAR`, one with a timeout, a flag cleared before the wait, an
unchecked result, an off-by-one in the slot of an endpoint, a name with room for a
NUL, a missing or doubled free.

## What is proved

The proofs hold for any constants that satisfy the named assumptions
`EndpointAssumption`, `ConfigAssumption`, `LoadAssumption`, `TextAssumption`,
`ExampleAssumption`, `ObjectAssumption`, `SystemAssumption`, `UnitsAssumption`,
`MaxUnitsAssumption` and `MeansAssumption` (each unit is of one of the kinds of JSON),
`TokensAssumption` (a token is of one kind, that of the character it begins with, on which
`parse_value` switches) and `BoundsAssumption` (`MaxTokens` and `MaxNesting` are numbers),
all of which TLC evaluates on the instances above.

- `UsbEndpointProofs`: `TypeCorrect`; `SafeInvariant` and from it `OwnRequest`,
  `NoDangling`, `SignalToCome`; and `Implements`, `Spec => ServiceSpec`. None of the three
  properties is inductive: they rest on `Token` (from the submission to the wait a
  safe thread has exactly one token under way, which is its pointer in `queued`, its
  pointer in `finished`, or the flag) and `Filled` (once the bus gives the request up
  its fields are the outcome). `UsersInv` keeps other threads' pointers away from the
  endpoint, terminated ones included. For threads that share an endpoint `Quiescent`
  (`QuiescentIsClean`) rests on `CountInvariant`: the requests that are still to signal
  and the flag are together no more than the calls that await them, so that nothing is left
  when nobody waits. `FreshInv` (no pointer is held twice, none before its submission) makes
  each submission and each signal count for one. `EarlyWakesMatched`
  (`EarlyWakesAreMatched`) follows too: the calls that are not overtaken have as many requests
  (`own`, an injection), and what the count leaves bounds the others.
- `ConfigFileProofs`: `LoadInvariant`, made of `OwnerInv` (which ids are live at each
  step, and that no two owners hold the same), `ResultInv` and `ReadInv` (the block
  ends one buffer behind what has been read); `NoOverrun`, `TextIsFile`,
  `NoDoubleFree`, `NoLeak` and `TypeCorrect` follow.
- `ConfigTextProofs`: `TypeCorrect` (no filter leaves a text of any length), and
  `LineCommentsAreBlank`, `TailCommasAreBlank` and `CommentsAreGone` from `TextInv`: at
  each iteration the text is what the filter was given with the comments, or the tail
  commas, before `at` blanked, and the search for line comments goes on just behind the
  end of a line, so that no comment reaches over it. `BlockCommentsAreBlank` compares two
  readers: `Reads`, which takes one character at a time, and the loop of the filter, which
  jumps from `/*` to `*/`. `BlockReadInv` says where the first stands when the second is at
  `at`: outside a comment, or behind the star that opens it. `StaysOutside` and
  `StaysInside` carry that over the characters the filter jumps, and `ReadToOpening` and
  `ReadToClosing` over the delimiters, where `/*/` is the case that matters.
- `ParsonStringProofs`: `PassesAgree` (`StaysInside`), `StringEndsAtFirstQuote` and
  `ReadsStayInText` from `StringInv`, for any text that ends in a NUL. The two passes are
  two loops that go past escapes in different ways: `Standing` reads the text a character
  at a time and says which are the first of a plain character or an escape, and which are
  second; both loops are shown to be at a first one at each iteration, so that the second
  loop cannot go past the quote where the first has stopped, whatever escape is before it.
  `LengthAhead` bounds what each iteration writes by what it reads. `BytesAreUtf8` says of
  every code point up to the last what the run says of the numbers at the bounds.
  `StringsMeanWhatTheySay` (`MeansWhatItSays`) and `OnlyTheBadIsRefused` (`RefusesTheBad`)
  hold for strings of any number of any units. They follow from `MeansInv`: `Laid` is where in
  the text each unit stands (`StartOf`, the sum of the lengths before it), which no step
  changes but every step needs; `SkipUnits` says at which places of a good string
  `skip_quotes` can stand, and `CopyUnits` that `process_string` has read `k` units, each good
  as far as those before it go, and that its output is UTF-8 for the points of just these
  `k`, with `j` characters of the next one copied as they are. A lead surrogate is not read
  without its trail, so that there is no place between them; `PairMoves` and `BadUtf16ForReason` are the steps where
  that matters. `DecodedTogether` says that two well-formed outputs behind one
  another decode to what each does, `BytesDecode` that the bytes of a code point decode to
  it, and `PointsByOne` what one more unit means.
- `UsbReadWriteProofs`: `TypeCorrect`, `PrintsItsOwn` (`OwnEcho`) and `LeavesNothing`
  (`NothingStale`) from `ExampleInvariant`. The two properties speak of one place of the
  host each; `RunInv` says for every place where the string of an undisturbed run is
  (`Outward`: partly read, the rest still with the host; `Overrun`: longer than the
  buffer; `Arrived`, `Buffered`, `Returning`), and `RequestsInv` that an open read holds
  whole packets and has room for one more. That a packet never overruns a buffer rests
  on `NextMultiple` and `BufferSize % PacketSize = 0`.
- `ParsonObjectProofs`: `TypeCorrect`, `StoresFit` (`InsertsFit`), `NoLeak`
  (`OwnsItsBlocks`) and `Implements` (`MapSpec`: the hash table refines `JsonMap`) from
  `ObjectInvariant`, for any hash function and number of names. `Sound` says of a table
  what the code nowhere states: every item is reached by its probe with no free cell
  before it, no two cells hold one item, no two items one name, and there are fewer items
  than cells. `FreeCell` is the pigeonhole principle, `SearchEnds` and `FoundIsHeld` follow
  from it, and `InsertedIsSound` is the step that keeps `Sound`. `RehashInv` relates the
  new object to the old one while it grows, and `BlocksInv` gives every live block one
  owner.
- `ParsonParseProofs`: `NoLeak` (`NothingLeft`) from `ParseInvariant`, which needs no
  assumption about any constant: it holds for texts of any length and nesting, with any
  tokens. `BlocksInv` gives every live block one owner: a call under way holds its value
  and a key it has read, the value just returned holds its own blocks, no two of them hold
  the same, and together they are `blocks`. `StackOk` says what the calls look like when
  the innermost ends: all others wait for a value, and those that wait in an object hold
  the key it is for, so that an error path frees a key exactly when there is one; `ModeInv`
  says when the innermost has a key. `GivesUpStep` is the error paths, `AddStep` the
  passing of blocks from a value to its container, growth of the tables included, and
  `Joined` and `OwnedOnce` the reason why a list of what is freed names no block twice. As
  in the property, nothing is claimed once the unset ids of an array that has never grown
  have named a live block.
  `ParserMeetsGrammar` (`ParsesGrammar`) says that the descent and the grammar agree, for
  texts of any length, any limit of the nesting and any names. The property speaks of the
  ends of a parse; `GrammarInv` speaks of each step. `ReadInv` says of what has been read
  that it is what the calls under way hold the parts of: for each call, from the outermost,
  its bracket, the items it has and the comma or the name behind them (`ReadLink`, chained
  by `Reach`). `DueInv` is the other direction, without which a refusal says nothing: each
  sentence that the text may still turn out to be is what has been read followed by what
  the calls expect (`DueLink`: items whose names are not there yet, then the closing
  bracket, for each call from the innermost), so that where the token ahead cannot begin
  what is due, no sentence is left (`NoneDue`). `DepthInv` counts the brackets of what has
  been read by the number of calls, since the parser counts calls and the grammar brackets;
  a container at the limit may be opened but only an empty one is a value, which the parser
  finds out when it gets to the value inside, a name and a colon later in an object. `ValueCases` and
  `ListCases` invert the tables of the grammar, and the lemmas under them (`TablesKept`,
  `EntrySized`, `AllSized`) show by induction over the number of tokens that each table holds
  just the phrases of its length. `ErrorPaths` says that every error path is taken for want
  of memory, for a token that cannot begin what is due, for a name that is there, or for the
  nesting.
- `TktUsbSystemProofs`, first about the manager: `TypeCorrect` and `ManagerInvariant`,
  which says at each step how far the table, the driver and the layers have come; `Whole`,
  `Served`, `Findable`, `Honest` and `Nested` follow from it, whichever calls of the
  start and of the stop fail. Then about the
  whole: `ManagerKept` and `CallsKept` say that the composition is a
  `TktUsbManager` and, to its clients, a `UsbEndpoint`, so that the theorems about each hold
  in it. `SystemInvariant` is what neither part could promise: before `module_start` returns
  nobody calls (`QuietInv`), from then on table and driver stay as they are, and every
  request is for an endpoint of its own client (`Mine`) at its place in the driver (`Bound`);
  `ReachTheirEndpoint` follows. `WokenByOwn` (`WokenByOwnTransfer`) is the argument of `Token`
  and `Filled` again, with what a client can reach by its names (`Apart`) in place of a
  fixed assignment of threads to endpoints.

Where a proof needs an induction over places of a text or lengths of a sequence, it takes
the least counterexample (`PlaceByPlace`, from the well-foundedness of `<`), and what is
computed place by place is a recursive function (`Reads`, `Lengths`, `Standing`).

Only model-checked: `CallsReturn`, `FiltersEnd`, `EchoArrives` and `StopReturnsCalls`
(liveness under fairness is beyond the prover). Every other property of a passing run is
proved for all constants.

## What is not modelled

The constant fields of descriptors, the string descriptor, and the bus callbacks that
only return 0 (`driver.c:274-324`); the contents of transfers, except in the example. Of
parson: serialization, comparison, copies and the rest of the interface, which are
commented out in this repository's `parson.c`; the function pointers that
`json_set_allocation_functions` sets once; how `strtol` reads digits. An overlong list
of endpoints, a failed read of the file beyond its first effect, and the kernel's answer
to stopping what never started: see the hazards with a note. The event flags that a failed
start leaves with the kernel are visible in `eventFlags`; `freeTktUsbEndpoint` exists but
has no caller. Import stubs, exports and build files have no behaviour.

## Plan

1. `EchoArrives` and `StopReturnsCalls` rest on steps that a proof can reach, such as that
   nothing takes a wait's signal away; the conclusion from fairness stays with TLC.
2. The descriptors of `driver.c` beyond addresses and lengths, if their constant fields ever
   come to depend on the configuration.
