# Verification of the EtherNet/IP driver

TLA+ models of the EPICS driver and device support in
`src/ether_ipApp/src`, the configurations that check them with TLC, and proofs
that TLAPS checks. Paths below are relative to `src/ether_ipApp/src` unless they
begin with `src/`.

## The system

The IOC reads and writes tags of Allen-Bradley PLCs over EtherNet/IP. Records
(device support, `devEtherIP.c`) never talk to a PLC: they read and write the
driver's copy of a tag, the `TagInfo`. For each PLC one *scan task*
(`drvEtherIP.c`) connects, and transfers the tags of its *scan lists*, each with
a period, in multi-requests that `ether_ip.c` encodes, sends and decodes.

| component | state | operations | talks to |
|---|---|---|---|
| Registry (`drvEtherIP.c`) | PLCs, their scan lists, the tags of each list, callbacks of each tag; `drvEtherIP_private.lock`, `PLC.lock` | define_PLC, find_PLC, add_tag (may move a tag to a faster list, may grow it), add_callback, remove_callback, restart, reset_statistics | called by device support and the IOC shell, walked by the scan task |
| Tag transfer (`process_ScanList` and what it calls) | `TagInfo`: data, valid_data_size, do_write, is_writing, elements, sizes; the connection's buffer and its limit | connect, complete_PLC_ScanList_TagInfos, determine_MultiRequest_count, build, send, receive, invalidate_PLC_tags | the PLC; callbacks into device support |
| Schedule (`PLC_scan_task`) | scan_time and scheduled_time of each list | walk, scan what is due, re-schedule, sleep | tag transfer |
| Output records (`devEtherIP.c`) | VAL, UDF, SEVR, PACT, RPRO of the record | xxx_write, check_xxx_callback, check_link | `TagInfo` under `data_lock`; `scanOnce` of EPICS base |
| Input records (`devEtherIP.c`) | value, UDF, alarm | read routines, scan_callback | as above |
| Link parsing (`analyze_link`) | `DevicePrivate` of the record | init_record, check_link | registry |
| Session (`ether_ip.c`) | socket, session, transaction counter, buffer | EIP_startup, EIP_shutdown, EIP_read_tag, EIP_write_tag, list_services, ... | TCP |
| CIP encoding (`ether_ip.c`) | none | tags, paths, typed values, multi-requests | - |

What is hard about it:

- *Three threads meet in a TagInfo.* The scan task looks at `do_write` and
  `is_writing` in three loops over the same tags (count, build, receive) and gives
  up `data_lock` in between, for a whole network transfer. Any record may request
  a write at each of these places.
- *A record waits for a callback* (PACT) that also means "new value" and "connection
  lost", and gets a value that another thread processes later (`scanOnce`).
- *Errors.* A disconnect at any point of a transfer, a PLC that refuses single
  items, tags that cannot be sized, a write that the PLC executed although its
  answer was lost.
- *Limits.* What does not fit into the PLC's buffer is left for the next transfer;
  a tag that never fits ends the scan of its list.
- *Time.* Lists with their own periods share one task, with transfers that take
  longer than a period and lists that fail.
- *Replies* that come after their time-out and are read as the answer to the next
  request.
- *Two kinds of locks*, with an order that is written down at the top of
  `drvEtherIP.c`, and the lock sets of linked records around them.

What makes each part correct, in short. Transfer: every answer is taken for what it
is, no requested value is lost or overwritten by a read, no tag of a list is
skipped, and nothing is shown as valid that was not read on this connection.
Schedule: no list too often, too late or never. Output records: record and tag
agree whenever nothing is under way, nothing is written that nobody asked for, and no
record waits forever. Session: an answer belongs to the request it is
handled with. Registry: a tag is on one list, the fastest anybody asked for, and
the locks are taken in order. Encoding: what is decoded is what was encoded, and the
sizes computed beforehand are those of the result.

## Modules

| module | models | instance | proofs |
|---|---|---|---|
| `TagPromise` | what the driver promises about a tag (abstract) | - | - |
| `TagTransfer` | the scan task's transfers, the TagInfos, and the other threads that use them; implements `TagPromise` | `MCTagTransfer` | `TagTransferProofs` |
| `OutputRecord` | `ao` records, their callbacks, `scanOnce` and operators, on top of `TagTransfer` (EXTENDS) | `MCOutputRecord` | `OutputRecordProofs` |
| `TagData` | links (analyze_link), typed access to the data of a tag, bits, texts, and what each kind of record reads, compares, writes and takes over | `DataChecks`, evaluated with `MCRegistry` | `DataProofs` |
| `ScanSchedule` | the loop of `PLC_scan_task` with time | `MCScanSchedule` | `ScanScheduleProofs` |
| `Registry` | PLCs, scan lists, tags, callbacks; records that register and change their links; the commands; the locks and who waits for whom | `MCRegistry` (links parsed by `TagData`) | `RegistryProofs` |
| `SessionPromise` | what a connection promises to the driver (abstract) | - | - |
| `Session` | one connection: startup, sizing reads, multi-requests and shell commands, with late, torn and coalesced answers; implements `SessionPromise` | `MCSession` | `SessionProofs` |
| `CipMessage` | the bytes of tags, paths, requests, multi-requests and frames | `MessageChecks`, evaluated with `MCSession` | `MessageProofs` |
| `SequenceFacts` | no code: induction, recursion and concatenation, for the proofs about messages and data | - | itself |

The same code is seen from several sides. `TagTransfer` has no time: in each pass any set of
lists may be due (`due' \in SUBSET ScanList`). `ScanSchedule` has a transfer in one step. What it
checks, that every list gets its turn, is what the fairness of `TagTransfer` assumes. `Session` has the
transactions of `TagTransfer` (`Send`, `PlcAnswers`, `ResponseOk`, `TransferFails`) with what may
go wrong on the wire; that an answer belongs to its request (`PromiseKept` of `Session`) is what
`ResponseOk` assumes. `Registry` keeps the lists, which are fixed in the others: `PassUndisturbed` says
that they do not change under a scan task, which is why the others may fix them.

### TagTransfer

One PLC, fixed tags on fixed lists. The variables are the fields of the C
structures: `data`, `do_write`, `is_writing`, `elements`; `valid` for
`valid_data_size > 0`; `sized` for the `cip_*_size` fields, as the number of elements
for which they were computed (0: none). `phase` says where the holder of
`PLC.lock` is:

    idle -> complete -> pass -> count -> build -> sent -> answered -> receive -> count ...
                                   \-> scanned -> pass -> idle
    any of them -> invalidate -> idle        (disconnect_PLC)

A step is what happens under one `data_lock`, so that `DeviceWrite` may
come between any two steps. The lists are walked as in C: `remaining` are the tags
from `info_position` on, `todo` those the present loop still visits, `batch` the
`<count>` tags of this transfer, `unhandled` (history) the tags of the list that
this scan did not transfer yet.

| action | code |
|---|---|
| Connect, CompleteTag, CompleteOk, CompleteFails | assert_PLC_connect, complete_PLC_ScanList_TagInfos |
| BeginPass, StartList, ListScanned, EndPass | PLC_scan_task |
| CountTag, CountDone, CountNone | determine_MultiRequest_count and the check of its result |
| BuildItem, Send | loop 1 of process_ScanList |
| PlcAnswers | external: the PLC executes the items and answers each as it likes |
| ResponseOk, ReceiveWritten, ReceiveIgnored, ReceiveRead, TransferDone | loop 2 |
| ReceiveCrash | loop 2 after an item with an error status: `data_size` keeps the value it had before, which `memcpy` then copies from a null pointer |
| TransferFails | every `return false` of process_ScanList |
| disconnect_PLC, InvalidateTag, InvalidateDone | disconnect_PLC, invalidate_PLC_tags |
| CallCallbacks | the callbacks of one tag |
| DeviceWrite | the part of xxx_write that touches the TagInfo |
| drvEtherIP_restart, AddElements | the same; drvEtherIP_add_tag for a tag that exists |

The place of an item is counted from the answer to a read (`ItemRoom`). What make_CIP_WriteData builds
into it (`ItemBytes`, `BuiltWriteSize`) are all elements, or, for a string tag (`StringTag`), the text of
`TextLength` characters with its terminator, cut to the place: a shorter text leaves old bytes of the
buffer behind it.

`landed` is a history variable for the refinement: the value of a write that the
PLC took, until the scan task handles the answer. `TagPromise` says, without tasks,
lists and locks: a write that is owed is settled only when the PLC took the
*newest* requested value or refused it; nothing replaces an owed value but a newer
request; values come from the PLC on this connection only.

### OutputRecord

`ao_write` in its two passes (request and wait, or complete), `check_ao_callback`,
dbPutField (`Put`, and `PutActive` for a record with PACT) and `scanOnce`. Processing
under the record's lock is one step. While a tag's callbacks are called
(`notify`), each record on it takes its turn. For a REAL tag (`realTags`, any set of tags) the callback compares
VAL, for an integer tag RVAL (`Compared`). It puts the tag's value into VAL only; RVAL follows when
`scanOnce` processes the record (ao_write). The conversion between the two is the identity. The record support of `ao`, dbPutField
and scanOnce are EPICS base, hence external: modelled as documented by EPICS and
used here. Two records with different values on one tag are a limit that the
manual documents (`src/Manual.md`:505-512), so
`Synchronised` speaks of the only record on a tag.

A put to an active record stays in VAL until the record is processed again after its write. A callback that
comes in between replaces it with the tag's value, and the put is lost: the code does this, so no property says
that every put is written. `ChangesAreProcessed` says what does hold: whatever is in VAL is processed.

### ScanSchedule

`now` is the wall clock; it advances in transfers, in attempts to connect and in
sleep, by amounts that the configuration chooses. `BeginPass`, `ConnectFails`,
`NotDue`, `ScanOk`, `ScanFails`, `PassDone`, then `Sleep`, `Slow` (already late) or
`SchedulingProblem`, and `Wake`. Restarts and resets of the statistics come
whenever `PLC.lock` is free. `promised` and `since` are history.

### Session

One TCP connection, and whoever has `PLC.lock` uses it: `doing` and `step` say which function and
how far it has come (ListServices, RegisterSession, attribute 1..5 of the identity, the read that
sizes tag 1..n, a multi-request, a part of the list of tags, a phase of describing a type).

| action | code |
|---|---|
| Send | generateTransactionId, EIP_make_SendRRData, EIP_send_connection_buffer |
| Read | EIP_read_connection_buffer: the first answer that is there is used; what follows it may be swallowed as a whole or in part, since the function reads as much as it gets |
| TimeOut, TimeOutInside | the same, with nothing or a piece of an answer in time; the rest comes later |
| SendFails | the socket is closed or refuses |
| PlcAnswers | external: any request in any order, good only with the session of this connection |
| Conclude | what the caller does: EIP_list_services, EIP_register_session, EIP_check_interface, complete_PLC_ScanList_TagInfos, process_ScanList, EIP_list_tags, EIP_describe_type |
| EIP_startup, StartScan, StartCommand, drvEtherIP_restart | the users of the connection |

TCP neither loses nor reorders, so `stream` is a sequence; what is lost is an answer that
came too late or was swallowed. `Send` does not give an ID again while an answer to it may still come:
the counter of the code goes round after 2^31 requests (`NextTransIdNum`).

`SessionPromise` knows a phase, the request that waits, and whose answer the caller got: every
request gets the answer to itself or fails.

### Registry

Threads: a scan task per PLC; `Shell`, the main thread, which loads the records and then runs
commands; `Stats`, the thread of a record that resets the statistics (it stands for every walk over all PLCs under
`drvEtherIP_private.lock`); and for each record the thread that changes its link. dbScanLock takes the lock of the
record's *lock set*, which linked records share (`LockSet`, a constant): the thread that changes a link holds that of
its record from dbPutField to the end of add_callback, `Stats` that of its record while it is processed, and a callback of an output
record waits until nobody does (`Holding`, `Blocked`). A function that takes a lock and gives it back is one step; locks that are kept
over several steps are variables (`privateLock`, `plcLock`), mutexes are recursive. A record registers in steps (find,
add, callback), each under locks of its own, and others may come in between.

| action | code |
|---|---|
| NewRecord, dbPutField | the IOC loads records; a link is changed at runtime (external) |
| del_record | remove_callback and freeing the DevicePrivate, under the record's lock set |
| drvEtherIP_find_PLC, drvEtherIP_add_tag, drvEtherIP_add_callback | the same; NewTagFails and KnownTagFails when there is no memory, and the lock that add_callback then keeps |
| BeginPass, PassFails, EndPass, Callback | PLC_scan_task as far as it uses lists, tags, callbacks and locks |
| drvEtherIP_define_PLC, drvEtherIP_initHook, drvEtherIP_restart, drvEtherIP_reset_statistics | the same, the latter two with a step for each lock they take |

The link of a record is parsed by `analyze_link` of `TagData`. `WaitsFor` says whom a thread needs before
it can go on; a deadlock is a set of threads each of which waits for one in the set.

check_link's change branch is not an action: add_record has recorded the new text before
the record is processed again, so that check_link finds no difference (finding 7).

### TagData and CipMessage

These have operators, one per function of the code, and no state. Their properties compare them with
what the protocol or a reader of the record expects, over all inputs of a bounded set, once in the initial
state of a run. A byte of `TagData` has `ByteBits` bits, a constant
that is at least 2 (an mbboDirect record has 16 bits, and a LINT eight bytes). The runs take 2, so that all values of a
word of four bytes can be tried; the theorems hold for 8 as for any other number. The masks of the code, which are shifted
out of a word, are sets of bit numbers. A text is read from the record's own element (`Struct_text`) and always written to the
first one (`put_CIP_STRING`), as in the code. `CipMessage` has
bytes of 8 bits, and tokens instead of characters.

## Runs

| run | configuration | shows |
|---|---|---|
| `transfer` | two tags on one list, a number and a string, two values, the first tag may grow once; limit 57 bytes | all safety properties of `TagTransfer`, `PromiseKept` (refinement) and `WriteGoesOn` (liveness) |
| `skip_writes` | one tag | finding: a write request survives a disconnect |
| `grow_tag` | one tag that grows | finding: a request with more bytes than counted |
| `big_tag` | a tag that can be read but not written in one request | finding: the rest of its list is not scanned any more |
| `output_record` | one record on one tag, REAL or integer, two values | the properties of `OutputRecord`; `UsesTransfer`: the records use the tag as `TagTransfer` allows |
| `unasked_write` | the same, nobody puts values | finding: the record writes all the same |
| `valid_while_down` | the same, with puts | finding: a record without alarm while the PLC is down |
| `schedule` | three lists in three assignments of periods, the first may fail | `NoOversleep`, `PeriodKept`, `NotStarved` |
| `long_period` | one list with a period above the limit of the delay | finding: null pointer |
| `session` | three IDs, two tags, two sessions, one late request, two commands | an answer is used for its own request only, the connection does not stay out of step; and the checks of `CipMessage` |
| `registry` | one PLC, two tags, an output record with two links and an input record with two, linked, one allocation that fails | tags on lists that are fast enough, callbacks of the right records, nobody disturbs a pass, deadlocks only as known; and the checks of `TagData` |
| `changed_link` | one record that changes to a tag that nobody had before | finding: the tag is never scanned |

The properties, beyond the type invariant of each module:

- `KindKept`, `NoLostUpdate`: the loops of process_ScanList agree on read or write, and
  carry the newest value, whatever is requested in between.
- `SentAsCounted`: the places of the items are those that determine_MultiRequest_count counted, and the
  request keeps the limit. Unless its tag has grown, no item is longer than its place, and only
  that of a string is shorter. (`BuiltAsCounted`, without these exceptions, is what the comment in the code says.)
- `AllTagsTransferred`: a scan that returns OK transferred every tag with sizes.
- `NothingValidWhileDown`, `ValidIsScanned`: no stale value is shown as valid.
- `OwedDataKept`, `PromiseKept`: see `TagPromise`.
- `WriteGoesOn`: a request is taken up and a write ends while the connection stays up.
- `Synchronised`: the only record on a tag, with nothing under way, has the tag's value
  and no alarm.
- `ChangesAreProcessed`: a value in VAL that the record was not processed with is about to be, by scanOnce or
  when the record completes.
- `PactIsOwed`, `PactEnds`: a record is active only while a write is owed or its callback is
  about to come, and does not stay so.
- `UnsetNeverWritten`: the value a record has before anybody set it is never written. This is
  for records without FORCE: a record with FORCE that was processed while disconnected is not
  UDF any more, and writes its initial value once the tag is valid.
- `BitsAreOwn`: writing the bits of one link leaves all other bits of the array as they are, across
  the border of two words, and they read back, of several bits the first one just where it is bit 0 of
  its element (devEtherIP.c:215). The driver reads all elements that have the bits of an index; with a B flag it does so
  just if the bits do not go on in the next element, which is written all the same.
- `ValueComesBack`: a number that fits its type arrives in its own element, and input and output records see
  it; and after any write or any change in the PLC the record's callback and its write routine agree, so that no
  record writes in circles. Exempt is a value for which an mbbo with states has none. The kinds of records have their
  limits: one bit for bo, at most 16 for mbboDirect and for mbbo without states, whose VAL is cut to 16 bits (devEtherIP.c:657).
- `TextComesBack`: the same for texts, which are cut to the room of the tag or of the record, for records on the first element;
  and texts that fit leave the next string of an array as it is.
- `NoOversleep`, `PeriodKept`, `NotStarved`: see ScanSchedule above.
- `SessionKnown`: after the registration every request has the session that the PLC gave to this very
  connection, and not one from before.
- `SizesAreOwn`: no tag is sized from the answer for another tag, although EIP_read_tag hands out the size
  before it compares the IDs.
- `PromiseKept` of `Session`: see `SessionPromise`. `Resync`: once late or torn answers are in the socket,
  the connection gets rid of them: the scan fails and drops it, also when a shell command left them there.
- `TagReadsBack`, `PathNamesTag`: printing and parsing a tag again gives the same tag; a path names its tag,
  in as many bytes as counted.
- `RequestsApart`, `RepliesApart`, `FrameHoldsRequest`: offsets and sizes take the items of a transfer
  apart, whatever the buffer held before: each request is at the start of the place that was counted for it, and what a
  shorter one leaves of its place holds old bytes of the buffer, which the PLC has to ignore; the frame around a request of odd or even size brings it to its slot.
- `WriteStaysInside`: a string that is written keeps to the room counted for it and is a text that ends.
- `ServesAll`: a tag is scanned at least as often, and up to as many elements, as each of its records
  asked for, unless memory ran out.
- `CallsItsRecords`: a tag calls back the records whose links name it and no others, also while callbacks
  of a pass are still to be made; no DevicePrivate that was freed is used.
- `PassUndisturbed`: nobody changes lists, tags or callbacks of a PLC during a pass of its scan task.
- `OnlyLinksDeadlock`: threads wait for each other in a circle only if one of them holds the lock set of an output
  record, or a `PLC.lock` was kept by a failing add_callback. The former is in del_record of that very output record, or it changes
  the link of another record of the set, input or output, or it resets the statistics for a record of the set. All of
  these happen in the code; the property says that nothing else closes a circle among these threads. A record that
  resets the statistics and is processed through the FLNK of an output record is not among them: then the scan task itself takes
  `drvEtherIP_private.lock` while it holds `PLC.lock`.
- `NoTagLeftOut` (refuted): a tag that a record uses is not skipped for ever.

### Bounds

*Tags and the limit.* Two tags with read requests of 20 bytes and elements of 4: two reads
take 52 bytes, a read and a write 58 to 66, a write alone at most 44. The second tag is a string of 10 bytes with
texts (`Texts`) that are shorter than its place and longer. With a limit of 57 a
transfer of the list is one request or two, depending on what is requested, a claimed write
may have to wait for the next transfer, and every tag fits on its own (`EveryTagFits`).
More tags add no new neighbour relation; the walk along lists of any length is proved.
*Values.* Two, so that "the newest" and "an older" value differ, and `NoValue` for memory
that was never allocated. *Lists.* One in `transfer`: lists of a pass follow each other and
share nothing but the connection; three in `schedule`. *Growth.* `AddElements` takes a tag from
`FirstElements` to `LastElements` once.
*Time.* Transfers take 0 or 2, connecting 1, the time-out after errors is 3, and a delay above
3 is not believed; periods are 1, 2, 4, 5 and 6, so that they are shorter and longer than
transfers, time-outs and the limit. `Horizon` (16) ends the model after several passes.
`MaxLate` of `ScanSchedule` is the bound of `OneFails` for three lists of which the first may fail, 10 (`WorstCase`);
TLC refutes 8, and finds no state that is late by 10.
*Connection.* Three IDs: one for the request that waits, one for a request that is late
(`MaxLate` = 1), one for an answer in the socket. Two tags, so that the answer for one may be taken for the other; two
sessions, so that a new connection gets another one; `ListParts` = 2, so that the list of tags has a part
that is not the last; two commands (`MaxCommands`).
*Registry.* One PLC and two records of different kinds. Three of their four links name a tag: two name the same array
with different periods and indices (so that one moves it to a faster list, and one makes it longer); "bad" cannot be
parsed. `MaxFailures` = 1: any one allocation. In `registry` the output record, the input record and
the one that resets the statistics share a lock set, so that each of them may close a circle (`Unlinked`, where each is on its own, holds the
same properties; `changed_link` uses it). More PLCs and records are left to the proof.
*Data.* `ByteBits` is 2. Arrays of three elements filled with zeros, ones and a pattern; every bit link into the first two elements with one to four
bits; numbers next to every power of two (`Edges`); for the longer checks the bits next to the border of two words
(`NearBorder`). `MAX_STRING_SIZE` is 5 instead of 40, with texts up to 5 characters in tags of up to 5, and two strings of 84 bytes as they are in an array. Elements of paths are on both
sides of 1 byte, 2 bytes and 4; names have odd and even length; multi-requests have one to three items of one to three bytes in places of one to four.

### Fairness

`WF_vars(ScanStep)`: the scan task is a thread that is never blocked forever. Its waits are those
for the PLC, which end by the time-out (`TransferFails`), for `PLC.lock`, which other
threads hold for finite sections, and its sleep. The environment is not fair: the PLC
need never answer, and no operator need ever put a value. `SF_vars(BeginPass /\ l \in due')`:
every list comes due again and again, as long as passes are made; `NotStarved` shows under
which conditions. `OutputRecord` adds weak fairness of the scanOnce thread, which EPICS base
runs for good. In `Session`, whoever has `PLC.lock` goes on with its transaction, since a read ends by
its time-out at the latest, and the scan task comes round (`WF_vars(Transaction)`,
`WF_vars(StartScan)`); PLC and users are not fair. In `Registry` the scan tasks go on, and a thread that waits for a lock gets it
if it comes free again and again (`SF_vars` of RecordStep, restart and reset_statistics): the scan task sleeps between its
passes, for much longer than a waiting thread needs. No link must change, no transfer must fail. In the instances of `ScanSchedule` nothing is fair; it has safety properties only,
with a bound instead of "eventually".

`NotStarved` has conditions that the code does not enforce (`OneFails`): one list fails, and reconnecting
takes less than the time-out. With two failing lists, each of which takes as long as the time-out,
the lists behind them are never scanned (set `Failing = {1, 2}` in `ScanSchedule.cfg`).

## Findings

1. *Write requests survive a disconnect* (`skip_writes`). invalidate_PLC_tags resets `is_writing`,
   not `do_write`, where the comment (drvEtherIP.c:463-465) says that all writes are skipped after an error.
2. *Sizes of a tag that grows* (`grow_tag`). drvEtherIP_add_tag raises `elements` of a tag whose sizes
   were computed; the next write is longer than counted and copies more than `data` holds. The
   comment at drvEtherIP.c:412-416 says that the write sizes are exact.
3. *A tag that is too big to write* (`big_tag`) ends the scan of its list with OK, with the tags behind
   it not transferred, in every scan from then on (drvEtherIP.c:614-620, 652).
4. *Unasked writes* (`unasked_write`). A second value arrives before scanOnce processes the record, and the
   record writes the first one back (devEtherIP.c:317-319).
5. *Valid while down* (`valid_while_down`). A record that waits for its write when the connection is
   lost completes without alarm (drvEtherIP.c:469-470, devEtherIP.c:337).
6. *Long periods* (`long_period`). With only periods above a minute, PLC_scan_task uses a null pointer
   (drvEtherIP.c:909-929).
7. *Changed links* (`changed_link`). A link that is changed at runtime to a tag that is new on a connected PLC is never read:
   the sizes of requests are only determined when connecting, and nobody restarts the driver, although the comment
   at devEtherIP.c:1140-1141 says so and changes.md:254-255 says that links may be changed.
Two more follow from the model and have no run of their own:

- *Short texts*. The write of a string sends the text and not the structure (ether_ip.c:1686), which is what was counted for it, although the
  comment at drvEtherIP.c:412-416 says that the sizes are exact. The item keeps old bytes of the buffer: `SentAsCounted` and
  `RequestsApart` say so, and `BuiltAsCounted` is refuted for a tag that never grows, too (`GrowTag.cfg` with `StringTag <- OneTag`,
  `ElementSize <- WordAndString` and `LastElements <- Single`).
- *Texts of later elements*. so_write and lso_write compare the text of the record's element and write the first
  one of the tag (devEtherIP.c:2116, 2243, ether_ip.c:1610-1642), although string arrays are supported (changes.md:97):
  in `TextComesBack` a text comes back on the first element only, and `LaterTextsStay` proves that what a record on a later element
  writes never gets there.

## Proofs

`TagTransferProofs` holds for any finite set of tags, any lists, values, sizes and limits
(`TagAssumption`; it has nothing but the types of the constants).

- `Inductive`: `Spec => []IInv`. `KindKept` and `NoLostUpdate` alone are not inductive. `IInv` adds
  that the answers still to be handled are answers to the items of the request (`AnswersMatch`),
  that the scan task works on a connection and that the loop of disconnect_PLC leaves nothing valid
  behind it (`ConnectionState`), and that the buffer is unused outside of process_ScanList and has
  only tags with sizes (`BatchState`). The proof has three parts that are inductive on top of each other: types,
  the exchange of requests and replies, and the connection. Each has one step per action.
- From it: `TypeCorrect`, `KindsKept`, `UpdatesKept`, `DownIsInvalid`, `ValidAreScanned`, and the action
  property `DataKept`.
- `ListsTransferred`: under `EveryTagFits`, which `big_tag` shows to be necessary, lists of any length
  are transferred completely. `WalkState` is the invariant of the walk: what is not transferred
  yet is in this transfer or behind it, and the counting loop takes the tags in list order.
- `RequestsAsCounted`: `SentAsCounted`, without sums over sets. There is a function `before` with the bytes counted
  before each item (`Counted`); the building loop goes through the same items in the same order, and has built
  `before[t]` when it comes to `t` (`BuiltSoFar`), because an item gets the place that was counted for it. How much of the place an item
  takes follows from the sizes.
- `FixedTagsAsCounted`: with tags that never grow (`LastElements = FirstElements`) and are no strings (`StringTag = {}`) the stronger
  `BuiltAsCounted` holds, which the comment in the code states: growing, which `grow_tag` shows, and strings are the
  only reasons why it fails.
- `Refinement`: `Spec => PromiseKept`, step by step: answers to writes map to `Settle`, `SettleOlder` or `Refuse`,
  reads to `Show` or `Blank`, a disconnect to `Down`, and everything else to stuttering.

`ScanScheduleProofs`, for any number of lists, any periods, durations and limits
(`ScheduleAssumption`):

- `ScheduleInductive`: what the walk knows of the lists it passed (`WalkState`: the next turn is not later than
  any of their times) and that the schedule of a list is what its last scan left (`ScheduledAsPromised`).
- From it: `ScheduleTypes`, `NeverOversleeps` and the action property `PeriodsKept`.
- `NobodyStarved`: `NotStarved`, with the bound that `OneFails` states in terms of the longest transfer, the longest attempt to
  connect, the number of lists and the place of the one that fails. How late a list is depends on where the walk is when
  the list comes due, so the invariant gives a bound for each place (`TurnOf`): in the pass in which it comes due, after a
  pass that the failing list ended, and in the one after that, which reaches the list because the failing one waits for
  its time-out. It needs that the walk does not forget a list whose statistics were reset (`WalkPromised`).
- `ShortDelaysHandled`: if the wait after errors and some period are at most the limit (`DueSoon`), no delay is ever taken for
  wrong, and the null pointer of `long_period` is not reached (`SmallDelays`: what the walk schedules next is near).

`OutputRecordProofs`, for any records on any tags (`RecordAssumption`, with what `TagTransfer` assumes):

- `RecordInductive`: `RecordSpec => [](FieldTypes /\ RecordInv)`, with FORCE or without. `PactIsOwed` and `Synchronised` need
  that the callbacks of one tag at a time are called, after the step that handled it (`NotifyState`), and
  that the only record on a tag waits for the value it put there (`WaitsForItsValue`). A step of the driver either
  leaves the values and writes of all tags alone or announces one tag (`DriverEffect`); each step of a
  record has a lemma of its own. From it: `RecordTypes`, `ActiveAreOwed`, `NoneUnprocessed`, `InStep`. That an integer tag's RVAL and
  not VAL is compared needs `ChangesAreProcessed`: where VAL and RVAL differ the record is about to be processed.
- `RecordsUseTransfer`: without FORCE, each step of the records is one that `TagTransfer` allows other threads,
  and `IInv` of `TagTransfer` holds with them. It needs that a record that writes, or is about to, has a value
  (`SetBeforeUse`), which is what fails with FORCE. `OnlySetValuesWritten` follows.

`SessionProofs`, for any number of IDs, tags, sessions and late answers (`SessionAssumption`,
`NoRequestAssumption`):

- `SessionInductive`: no other message of the connection has the ID that is waited for (`Own`); the answer to the
  registration is on the wire only while it is waited for, so that the session cannot change afterwards (`Registration`); a
  closed connection is quiet (`Closed`). From it: `SessionTypes`, `SessionsKnown`, `SizesOwn`, `AnswersOwn`.
- `SessionRefines`: every step is one of `SessionPromise` or a stutter.
- `RequestsAlwaysApart`, `RepliesAlwaysApart`, `RequestAlwaysArrives`, `PathAlwaysNamesTag`, `TagAlwaysReadsBack`,
  `WriteAlwaysInside`: the checks that the run evaluates, as instances of the theorems below. What is left to show for
  them is that the inputs of the run are among those the theorems allow.

`MessageProofs` states what the operators of `CipMessage` compute for all inputs. The induction theorems of the
library need an operator as a parameter, so `SequenceFacts` has induction over a *set* of numbers (`Induction`) and says that a recursive
function or a fold is what its steps make of it (`Recursion`, `JoinStep`, `Least`); the lemmas about messages, and those about data, rest on these.

- `EveryRequestFound`: the PLC finds any requests, however many, in a multi-request that was built with the sizes counted for them
  in a buffer with any old content: each at the start of its place, exactly if it takes the whole place, and none reaches into
  another, as long as no request is longer than its place (for strings this is `EveryWriteInside`). The invariant of building (`Written`) says what header, offsets and items are already in their place
  (`Holds`) and that the next item goes behind all of them.
- `EveryReplyFound`: each reply is found in the response, whatever the replies are and however long the extended status.
- `EveryRequestArrives`: a request of any size, odd or even, comes out of its frame at the slot unchanged.
  All three need that sizes and offsets fit into their 16 bits; the buffer of the code is much smaller.
- `EveryTagNamed`: a path of any names and elements, read segment after segment, names its tag and is as long as counted.
- `EveryWriteInside`: a string is written within its room, for any text and any room.
- `EveryTagReadsBack`, `EveryTextReadsBack`: a tag that was parsed from any text is the same after printing and parsing
  it. `Reached` is the invariant of parsing: after `k` tokens the parser is before a name, at the end, or done, and what it
  has of the tag are the nodes up to there. A tag that no text is parsed to, say with two elements after one name, is
  not read back, hence the set `Tag`.

`RegistryProofs`, for any PLCs, tags, records, links and failing allocations (the assumptions of `Registry`):

- `RegistryInductive`: types; who holds which lock and why (`Locking`); what a record has at each step of its
  registration (`Registration`); one thread at a time holds a lock set (`OneHolder`); callbacks still to be made are callbacks of the tag, and are only there while the
  lock is held (`Calling`); `ServesAll`. From it: `RegistryTypes`, `AllServed`, `CallbacksExact`, `PassesUndisturbed`.
- `DeadlocksOnlyByLinks`: suppose a circle without the two exceptions. Whoever holds a PLC.lock is a scan task in a
  pass, or Shell that disconnects (`Locking`). Both wait only for the holders of the lock sets of output records that they are to call
  back: another record of the set, `Stats`, or the record itself, which by `Calling` and
  `Registration` is then in del_record: none of them is in the circle. So no holder of a PLC.lock is in the
  circle, and no thread in it waits for such a lock. The holder of the private lock waits for nothing else, and is not in it
  either; which leaves nobody to wait for.

- `BitsAlwaysOwn`, `ValuesAlwaysComeBack`, `TextsAlwaysComeBack`: the checks of `TagData` that the run evaluates, from
  `AllBitsAreOwn`, `AllValuesComeBack` and `AllTextsComeBack` below.

`DataProofs`, for bytes of any number of bits, any `MAX_STRING_SIZE` (`DataAssumption`), and arrays of any length with any bytes
in them (`ArraysOf`):

- What numbers are. Powers of two are positive and `2^(m+n) = 2^m * 2^n`, which the provers do not know of the recursive function
  `Two`; a number below `2^n` is the sum of its bits and the sum of its bytes, and each can be had from the other (`Number`, `BitsOf`,
  `Unsigned`, `Pack`). So writing a word and reading it gives the same set of bits, and leaves what other elements hold.
- `IndexedBitsAreOwn`, `FlaggedBitsAreOwn`: put_bits goes through the elements with a mask. The invariant of its loop says
  that after `j` bits the array has the first `j` of them in their place and all others as they were, and that element and mask
  are the quotient and the remainder of the place of the last bit; get_bits likewise. For any number of bits, any index
  and any B flag, in any array that has these bits; of several bits the first one is read back just where it is bit 0 of
  its word. `FlaggedBitsAreOwn` says when the driver reads all elements that are written. `BoolComesBack` is about links without an index.
- `NumbersComeBack`: any value that a type can hold, not only those near powers of two; a negative number is what remains modulo `2^n`
  (`Signed`). `InputsSeeTheSame`, `BitValuesComeBack`: the input records, the latter for one bit or links that begin at bit 0 of a word.
- `RecordsFollow`, `RecordsSettle`: any tag, link and value, for `ao` and `int64out`, for `bo` with its one bit, `mbboDirect` and `mbbo` without states with at most
  16, and `mbbo` with states as long as it has one for the value in the tag (`HasVal`).
- `LongTextsComeBack`, `TextsComeBack`: for records on the first element and texts without a 0 among their characters, in a tag of any room and with
  any leftovers (`Stored`: as many characters as have room, then a 0; what is read ends at the first 0). `LaterTextsStay`: a text that fits into a string of an array leaves what records
  on later elements read, whichever record writes.
- `AllBitsAreOwn`, `AllValuesComeBack`, `AllTextsComeBack`: what `DataChecks` evaluates, as instances of these.

The theorems about data and messages are inductions that do without the library's induction theorems: a set that has 0, and `n + 1`
with every `n`, has all numbers (`Induction`). This reaches recursive functions; the project has no RECURSIVE operators.

Only model-checked: the liveness properties (`WriteGoesOn`, `PactEnds`, `Resync`, and `NoTagLeftOut`, which is
refuted), which are out of the prover's reach. Every other property of a passing run is stated by a theorem.

## Not modelled

- Mutexes that cannot be taken; `malloc` that fails, but in `Registry`; the DevicePrivate that was freed and is still
  found when calloc fails in init_record (devEtherIP.c:1194).
- Torn reads: callbacks read `info->data` without `data_lock` (devEtherIP.c:176); the model reads the old or the
  new value.
- A PLC that executes a write after the connection was closed.
- A wall clock that is set, and lists that are added while the scan task sleeps.
- A SCAN field that changes at runtime (devEtherIP.c:1126): a record gets its callbacks and period when its link is parsed.
- Addresses of PLCs (drvEtherIP.c:1247), and how the mutex of the transaction counter is created (ether_ip.c:3131): two scan tasks
  may create two, and give the same ID twice, but the IDs of two connections never meet on one socket.
- In `OutputRecord`: periodic records, alarms other than INVALID, and the control of `bo`, `mbbo`, `int64out`, `so` and `lso`, which
  is that of `ao`; what they compare and write is in `TagData`. Input records change nothing but themselves and have operators only.
- Threads that meet in the lock set of an output record in other ways than through links and statistics; records behind an
  FLNK of an output record, which the scan task processes (devEtherIP.c:341).
- What a text of more than 83 characters in an array does to the next string (it is cut to the data of the whole tag,
  ether_ip.c:1636), and tags of the CIP STRING type 0xD0, which the records are not meant for (`src/Manual.md`:736-740): the
  branches are in `TagData`, no property is about them. What the code reads from behind the data of such a tag is left out.
- REAL and LREAL in `TagData`, waveforms of them, linear conversions and break point tables of EPICS base.
- Flags of links that ask for statistics, the statistics themselves, reports and the commands that print them. Reports that
  walk along lists without a lock read what `Registry` may change, and are not in it.
- Forward_Open and Forward_Close, which the driver does not use; list_tags for IDs above 0xFFFF (ether_ip.c:2701).
- The command line program, displays and example databases.

## Plan

What is left, in the order in which it would add most:

1. Two records with puts on one tag (the manual's limit), and periodic records, in `OutputRecord`.
2. `Registry` with addresses, and with SCAN fields that change.
