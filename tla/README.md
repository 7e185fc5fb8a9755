# A specification of cs3103_p2p

TLA+ modules, TLC instances and TLAPS proofs for the peer-to-peer file sharing
program in this repository (`src/`). Line numbers below are those of the files
under `src/src/`.

## 1. The system

A **tracker** (one UDP thread) keeps two lists in memory: who announced which
chunk, and which file names it has heard of. Every other host runs one process
with two threads: the **client** thread works through a menu (download, upload,
query, quit), the **server** thread accepts TCP connections of other clients and
starts a thread for each. Both share one **storage**, a folder of files. A
**relay** is a separate Linux program with two halves: over TCP it passes one message
at a time to a connection named by its address, over UDP it tells hosts their
public address and passes signals on.

| component | state | operations | talks to |
|---|---|---|---|
| Storage (`core/storage`) | `<name>` (complete file), `<name>.p2pdownloading` (records appended), `myMutex` | `saveChunk`, `getChunk`, `addFileToDownloadFolder`, `getFinalChunkNumber`, `getArrOfChunkNumbers` | called by client and server threads |
| Tracker (`tracker/tracker`, `core/tracker_entries`) | `peer_list`, `file_list` | requests 1 to 7 of `listen` | datagrams with the clients |
| Download (`p2p_client::download_file`, `p2p_client_helper`) | global `peer_list`, `check_downloaded_chunks`, the tracker socket | ask, draw an entry, connect, receive, save, inform | tracker, other peers' servers, storage |
| Client menu requests | none besides the sockets | `upload_file`, `query_*`, `quit`, `inform_...` | tracker |
| P2P server (`p2p_server`) | `listen_sock`, the listener's `client_sock` | `listen`, `process_request` | clients, storage |
| Relay, TCP half (`TURN`) | `connectionThreads`, `connectionSocketFds` under `threadMutex` | `waitForConnection`, `setupConnectionForTCP`, `getSockFromIP`, `relayTCPconnection`, `removeThread` | `connect_to_TURN_get_public_ip`, `send_to_TURN_public_ip` |
| Relay, UDP half (`TURN`) | none besides the socket (and `strtok`'s static one) | `setupUDPserver` | `get_signaller_public_ip_port`, `send_to_signal_public_ip`, `read_from_signal_public_ip` |
| RecvBuffer (`core_functions`) | a ring of `Q_LEN` packets | `producer`, `consumer` | its one caller is in `unused_code` |
| Packet classes, `get_private_IP`, `print_server`, the rest of `unused_code` | | formatting, one system call | no live caller, or no state |

What is hard here: saves and reads from different threads; a crash between two
disk operations of a save; TCP data that arrives in parts or not at all; peers
that leave in the middle of a download; a tracker that may abort and restart;
one variable shared by all threads of the server; lists and tables that must
agree although different statements change them. PROJECT.json lists each hazard
at its line with the properties that would catch it.

What makes each component correct:

- *Storage*: what was acknowledged is served as received, before and after
  completion; a file under its plain name is whole; the only copy of the chunks is
  not deleted early.
- *Tracker*: what was uploaded is listed until the uploader leaves, and then not;
  the two lists agree; a query is answered.
- *Download*: comes back to the menu unless a peer keeps it in `recv`; what it
  reports complete has no gap, as long as chunks arrive in one piece; finds every
  chunk if nothing fails; stays inside its table.
- *Server*: every request is answered once, to the connection that asked, and
  every connection is closed (shown where no two threads overlap, section 3).
- *Download and server together*: a file that a live peer has whole is downloaded.
- *Relay*: a message reaches the address it is sent to; the maps hold those who
  are connected and no one else; a request gets a reply.
- *Signalling*: a host learns its own address; no datagram stops the server.
- *RecvBuffer*: it never counts more packets than it has slots or fewer than none, and
  no thread misses its wakeup. That packets come out in order is its promise and not
  what it does; section 2 says what remains of it.

## 2. The modules

`ChunkStore` is the abstract specification of a store of one file: the set of
chunks held, whether the file is complete, and reads that return a held chunk or
an error. Nothing in it mentions files or formats.

`Storage` is `storage.cpp` for one file name. `part` and `full` are the two files,
as sequences of records and of cells. A save is five steps (`StartSave`,
`AppendChunk` or `Duplicate`, `NotYetComplete` or `StartAssembly`,
`AssembleChunk` for each record, `DeletePart`) because a crash can fall between
its disk operations; the mutex keeps the other calls out meanwhile
(`Unlocked`). The refinement maps `held` and `complete` to what a reader can get.
A chunk is its number, its final flag and whether its bytes are all there; a
*short* record is what one `recv` may leave. Four specifications differ in what may
fail: `Spec`, `FairSpec` (the saving thread goes on), `CrashSpec`, `ShortSpec`.

`Tracker` is the tracker's loop with the clients' menus as the senders of its
datagrams. `net[p]` holds the datagrams of host p in order; a handler takes one
and changes the lists and the reply in one step, as the single thread does. A
datagram is its flag, its two leading words and its list of items: enough to
show what a parser that expects another order of words makes of it. `Abort` is
the assertion on an uninitialized member (`tracker_entries.h:125`), which may or
may not fail, and `peer_list.back()` of an empty list. `Restart` starts with
empty lists. `waiting[p]` is the request a client is blocked on; only
`download_file` gives up.

`Download` is `download_file` with its helpers, against a local store that is
`ChunkStore` reduced to its set and its flag. `slots` is the size of
`check_downloaded_chunks`, `done` the entries set in it, `peer_list` the global
map. One `recv` returns the answer asked for (`ReceiveChunk`), nothing
(`ReceiveNothing`), something else (`ReceiveOther`), or does not return. Something else is
a chunk of any file, since the server answers on the connection accepted last, whichever
client that is; an answer cut short; or two answers in one. All are saved under the name
asked for, as `saveChunk` does: a record has the number and the final mark of the header
it came with, `held[f]` is what the part file of f then holds and `final[f]` the last
number marked final in it. A record cut short makes the rest of the file unreadable
(`Garbled`): from there a save is refused, completes the file, or ends the process, and what
the file contains is not followed further. `SaveCrashes` is `chunkFlags` written past
its end, or a garbled size. Sources go up and down at any moment; `Announced` and `Has`
differ because `upload_file` announces chunks 1 to n for n chunks held, whichever they are.

`P2PServer` is the listening loop and `process_request`. A thread is where its
code stands, the connection its `recv` is blocked on and the connection whose
request it holds. All other uses of the socket read `client_sock` when they run.

`Exchange` composes `Download` and `P2PServer` by `INSTANCE`, one server being the
one source: the client's i-th `connect` is the server's connection i, and what the
client's `recv` returns is one or two of the answers that threads sent on that connection,
or nothing once it is shut or closed. The environment actions of both (which answer comes, whether one
comes at all) are thereby replaced by the other program. The server holds every
chunk, stays up and lacks neither memory nor descriptors, so what goes wrong
comes from the two programs. `ImplementsDownload` is the refinement back to
`Download!AnsweredSpec`, the specification in which every `recv` returns.

`Relay` is the TCP half of `TURN_Signal_server.cpp`. A connection `c` stands for its
thread too; `pc[c]` is where `setupConnectionForTCP` stands, with a step of its own
wherever another thread can come between: after `recv`, between the two
`strtok` calls, between `find` and the read through the iterator, between that
and `relayTCPconnection`, between `close` and `removeThread`. `files` is the process's
descriptor table: `close` frees a number and `accept` takes the lowest free one,
while both maps go on holding numbers. `itr[c]` is the entry found, named by the
connection it belongs to. The read through an erased iterator gives any
descriptor, -1, or ends the process. Clients are those of the two programs
that talk to it; `peer[c]` is where they stand.

`Signaller` is its UDP half with the hosts: `net` is a set of datagrams, from which
one is taken with or without leaving a copy, or lost. `given` holds the
strings that hosts took for their address and passed on, by means outside this
code. The `strtok` calls of the TCP threads appear as `PortOfAnother` and `NoPort`.

`RecvBuffer` is `RecvBuffer` of `core_functions`: `mu` the mutex (only `recvfrom` is a
step taken with it locked; the other critical sections are one action), `asleep`
a wait on the condition variable, `Notify` the `notify_all` after the unlock. A
slot's bytes are a tag. `data_len` has `Q_LEN` bytes where `Q_LEN` numbers are written
(`core_functions.h:44`), so all but the first `Q_LEN / sizeof(int)` lengths lie past its end
(`Past`), where `recv_buffer` may lie too: a `Store` may damage any of these lengths, and the
length it writes there may damage the packet received. `damaged` are the slots whose length
is not the one written; a consumer that uses one copies the packet or junk, or ends the
process (`Overcopy`).

`PacketQueue` says what is left of a bounded queue of packets: one goes in at the end and
one is dropped at the front at a time, never beyond the capacity, and none is dropped
while one is awaited. The one handed out is the oldest or a damaged copy of it if
the queue is full, and anything at all otherwise, because the consumer copies the slot
of `next_in` with the length of `next_out`. Even then the packet that fills the queue may have
damaged the oldest one.

`MCStorage`, `MCTracker`, `MCDownload` and `MCRelay` give constants their values; the
other modules need none. A module `XProofs` holds the proofs about `X`: there is one
for each but the two abstract ones. `ExchangeProofs` takes the theorems about
`Download` and `P2PServer` through instances of their proof modules.

Operators whose comment begins with "Seeded fault" are variants of the operator
below them with a plausible bug. No specification uses them; replacing the
operator by its variant must break the property named with it in PROJECT.json,
which shows that the property can fail.

## 3. The runs

Passing:

- **storage** (three chunks, two readers). Every order of saves, duplicates, empty
  answers and imports. Three chunks are the least with a first, a middle and a
  final one; two readers, so that one reads while another holds an answer. Checks
  `ExtensionTells` (a file under its plain name is whole, a part that no save is working
  on lacks a chunk), `AckedIsServed`, `FlagsInRange`, `ListedIsServed`, and that
  `FairSpec` implements `ChunkStore!FairStoreSpec`: a file whose chunks are all
  held becomes complete.
- **storage_crash** (four chunks, one reader). Crash at any step, any number of
  times. `AckedOnDisk` and the action property `DeletedOnlyWhenWhole`.
- **tracker** (two peers, files of one and of two chunks, three datagrams,
  no NAT). Three datagrams are enough for upload, upload of the other peer or
  file, and exit or query; `MaxSent` bounds them.
- **download** (files of two chunks and of one, two sources, two downloads).
  Two downloads are needed for a leftover `peer_list` and for a part file that the first one
  spoilt. Two chunks are the least that can be missed, joined or come in either order; the
  file of one has its final mark on another number, so that a chunk of the one saved as the
  other's ends it too early or runs over its flags. One source
  announces a chunk it does not hold; chunks of an earlier session may be there. About
  560,000 states. `CompleteIsWhole` says of a file reported complete that it has the numbers
  from 1 to one marked final: the file's own last one unless another file's chunk was saved
  in its place, and nothing if a `recv` returned a part of a chunk. `DownloadsEnd` says that
  a download ends, or stays in one `recv` for ever.
- **server** (two connections, three returns of accept). Two connections and a failed
  accept give every overlap of two live threads; three threads let the
  third find what two overlapping ones left behind. `AnsweredOnce` and
  `NewestIsServed`/`NewestIsClosed` hold with any overlap, `LoneIsAnswered` for a
  connection that had none.

- **relay** (three connections: two that read, with one address between them, and one
  that sends; three descriptors). A client leaves and comes back with the same
  address, before or after its old entry is removed, and its descriptor is
  given out again while the sender holds it: three is the least number with
  a sender, an addressee and a newcomer. Descriptors never run out.
- **signaller** (two hosts, four datagrams, one text that looks like an address and one
  that does not). Four datagrams are a request, a signal that is late, the request
  it answers by mistake, and a signal to the mistaken address: the shortest
  way to `HostNotFound`. `LearnsOwnAddress` and `DiesByMistake` state what that
  mistake needs.
- **recvbuffer** (two producers, two consumers, three slots, two tags; an int of two bytes,
  so that one length fits into `data_len` and two lie past its end). Three slots
  separate the slot before, at and after `next_in`; two threads of each kind are the
  least for a wakeup to reach the wrong one. About 490,000 states.
- **exchange** (one file of two chunks, two downloads, so at most four
  connections). The second download meets the threads the first left behind.

Violations, each of a statement of the repository:

- **storage_short_whole**: a partially received chunk completes the file
  (`CompletedIsWhole`, the first half of `ExtensionTells`, under `ShortSpec`).
- **tracker_inform**: a report of a downloaded chunk is parsed in another word
  order than it is sent in and never listed.
- **exchange_incomplete**: a client alone with a server that has the whole file, nothing
  failing, may end with an incomplete file: the thread of its first connection
  has sent its answer and then shuts `client_sock`, which is by now its second.

Disagreements between the repository's words and its code that have no run of their
own (the models contain them, and the passing properties are stated around them):

- A crash during the assembly leaves a partial file under the plain name, where
  `README.adoc:125` distinguishes partial files by their extension, and a crash before it
  leaves every chunk in a `.p2pdownloading`: both halves of `ExtensionTells` are checked
  without crashes, and false with them. Of the second case `OnlyNothingCompletes`
  (section 5) says what can still end it.
- Behind a NAT `deleteIP` compares the datagram's source address with the private address
  in the entries, so an exit deletes nothing (`README.adoc:29-30`):
  `ExitedIsForgotten` is checked and proved without NAT, and `NoNAT` is needed.
- A chunk whose `recv` returned nothing is marked downloaded
  (`p2p_client.cpp:223`), reported to the tracker, and not tried from another peer,
  where `README.adoc:84-85` says it is.
- An answer goes to the connection accepted last (`p2p_server.cpp:129`), so one client
  can get another's chunk; `AnsweredOnce` and `LoneIsAnswered` say what remains.
- Such a chunk is saved under the name its receiver asked for (`p2p_client.cpp:216`), number,
  size and final mark included. "File Complete" may then be printed over a file with another
  one's chunks in it, and a chunk of its own is refused when its number came from the other:
  that is why `CompleteIsWhole` says whose final mark it may be.
- Two answers returned by one `recv` are appended as one record each, but only the first is
  looked at for its number and, when no record before is final, for its final mark
  (`storage.cpp:41-90`). A part file can thus get its last chunk without anybody noticing, as
  the crash in the first item leaves it: TLC finds it when `healthy` starts from
  `Clean` in place of `Sound`, so `HealthyDownloadCompletes` supposes that no earlier download left that.
- `recv` has no timeout (`p2p_client.cpp:208`), so a peer that neither answers nor closes keeps
  the client in one download, against `README.adoc:84-85`: `DownloadsEnd` says so.
- `consumer()` is said to "load the datagram to their own buffer", "each time a datagram is
  loaded into the queue by the producer" (`core_functions.cpp:41-46`). It copies the slot
  `next_in` that is written next (`core_functions.cpp:55`): unless the ring is full, a packet
  consumed before, or none. `FullGivesOldest` and `PacketQueue` say what remains.
- `data_len` is allocated with `Q_LEN` bytes for `Q_LEN` numbers (`core_functions.h:44`), under a
  comment that promises room for "'MAX_SIZE of packet_size'" (`core_functions.h:38`).
- `CHUNK_NOT_FOUND_ERROR` is sent on the listening socket (`p2p_server.cpp:140`), so a
  client whose chunk is missing gets no message (`SendNotFound`).
- `200 OK successfully sent data` is sent whatever `send` returned
  (`TURN_Signal_server.cpp:211`), and `send_to_TURN_public_ip` returns 1 after a 404 too.

Deadlock is checked except for `ShortSpec` (over a garbled part the program has no
defined next step), the server and the relay (all connections over, threads
blocked, or the process dead), the signaller (a host may wait for a lost
datagram), the ring (the process may end, producers may end) and the exchange (all
downloads done).

## 4. Fairness

`Storage!FairSpec`: the thread inside `saveChunk` keeps running (nothing blocks
it while it holds the mutex). `Tracker!FairSpec`: the tracker's loop goes on and
each peer's datagrams are received in the end (one socket queue). No fairness for
clients. `Download!FairSpec`: `download_file` goes on as long as it need not wait for a peer;
nothing is assumed of `recv`, which has no timeout. `Download!AnsweredSpec` adds that it
returns; no run assumes that, `Exchange` shows it of one client and one server.
`P2PServer!FairSpec`: each thread whose call can return goes on; none for accept or for
clients.

In `P2PServer`, `Relay` and `Signaller` fairness is weak fairness with the
enabling condition of the step written out (`Due`, `ThreadDue`, `ReplyDue`, ...):
either the condition fails again and again or the step is taken again and again. Each
condition holds in exactly those states in which the step can be taken, so the formulas
are the `WF_vars` of the same actions, in a form the proof system can use. A recv
that has something to return is due; accept is due when a connection and a descriptor
are there.

`Relay!FairSpec`: the accepting loop and each thread whose call can return go on;
nothing is assumed of clients, so an entry is only promised to go once its
client has left. `Signaller!FairSpec`: the server handles a host's request that
is there, and a host inside `recvfrom` takes a datagram that is there; loss is
never excluded, `WaiterReturns` names it. `RecvBuffer!FairSpec`: threads go on, except in
`recvfrom`, where a producer has the mutex and a datagram need not come; then the
consumers stand still for good, which `PacketQueue` allows (`receiving`). Fairness is
weak, so no thread is promised the mutex, and only that *some* consumer takes
packets follows. `Exchange!FairSpec`: both programs go on, connections are
accepted and what is sent arrives; that every `recv` of the client returns is a result here.

## 5. The proofs

`StorageProofs`, for every `LastChunk >= 1`, every set of readers, from the
assumptions of `Storage` (`LastChunkAssumption`; `NoFile` is not a sequence of records
or cells, `NotFound` not an answer of `getChunk`):

- `DiskInv` is inductive under `CrashSpec`. Besides types it says that the part
  holds genuine records, each number once; which of the two files exist in each
  phase of a save; that the check knows the final number; and that during the
  assembly all chunks are in the part and the records before `k` in their places.
  `AckedOnDisk` alone is not inductive: `DeletePart` keeps it only because the
  assembly has put every record in place.
- Without crashes, `WholeOrAbsent` and `PartLacks` join it (`IInv`): no partial complete
  file exists outside an assembly, and no part with every chunk outside a save. Those are
  the conjuncts `Crash` breaks.
- From these follow `TypeOK`, `CompletedIsWhole`, `ExtensionTells`, `AckedIsServed`,
  `FlagsInRange`, `ListedIsServed` (under `Spec`), `AckedOnDisk` and `DeletedOnlyWhenWhole` (under `CrashSpec`).
- `SavesEnd`: `SaveRank`, the records of the part still to be copied and the steps before
  and after, falls with every step of a save and is never negative. With the fairness of
  the saving thread that is why the file is completed in the end.
- Under crashes, `PartsAreReadable` (`Defined`: the loops over the part stay in step with
  its records as long as no `recv` is short) and `OnlyNothingCompletes`: a part left
  with every chunk in it (`WaitsInVain`, `storage.cpp:79`) stays one whatever chunk
  arrives, each being a duplicate; what ends it is an answer that never came, whose
  number 0 is appended, or the user's own copy of the file.
- `ListedIsServed` also needs `PartFits`: the numbers of the part are distinct, so it has no
  more records than the file has chunks, and a buffer for the whole file holds them.
- `ImplementsTheStore`: `Spec` implements the safety part of `ChunkStore`, with one
  step lemma per action that changes what a reader sees. The abstract state
  changes at `AppendChunk` (Save), `DeletePart` (Complete), `AddFile` and `GetChunk`;
  all other steps stutter.

`TrackerProofs`, for any peers, files, numbers of chunks and `MaxSent`, from
`FilesAssumption`:

- `TypeOK`: a datagram is one of those a menu sends, and an entry read from it in
  whatever order of words has words and numbers where an entry has them.
- `FileListSound` is inductive with `TypeOK`; the lemma behind it is that the
  item `peer_list.back()` looks at names the file of every entry just added
  (`EntriesAreOfLatest`).
- `UploadedIsListed`, if the source address of a peer is no other peer's own
  (`OwnAddresses`). Invariant: an uploaded entry also carries the address of a peer.
- `PrefixListed`, if no file is named like an address (`NamesApart`: the entry of a
  misread report is of a file named by an address). It holds for any number of
  chunks: a number that wraps is smaller than the one announced.
- `ExitedIsForgotten`, without NAT and with distinct addresses (`NoNAT`), and with
  `NamesApart`. Not inductive: the
  invariant (`ExitInv`) says that the exit of a client that has quit is the last of its
  datagrams under way, and that a dead tracker's lists are empty. TLC
  finds it violated at once when `SourceIP` gives two hosts another address than their own.

- `RequestsGetCloser`: what `EventuallyAnswered` repeats. While the tracker runs, the request
  a client is blocked on is the last of its datagrams and stays it (`AsksMatch`: a client
  that waits sends nothing), and every datagram taken from that client shortens the row
  in front of it. Only the number of repetitions is left to TLC.

`RelayProofs`, for any connections, addresses, assignment of addresses and
descriptors, from `RelayAssumption` (addresses are told apart from the unset one;
descriptors are natural numbers):

- The invariant is `TypeOK`, `RegistryExact`, `Sockets`, `Lookups` and
  `RelayedToAddressee` together. `Sockets` says what `connectedSocketFd` stands for at
  each point of a thread's life, and implies `OwnDescriptor`. `Lookups` says what a
  thread between `find` and the relay knows: the connection it found has the address
  named, is registered or over, and the number read through the iterator is
  its descriptor or its client has left. The last disjunct is
  what the read after the unlock costs: an erased entry means `removeThread`, which
  follows `close`, which follows the client's leaving.
- `WaitersHaveCause`: a client that waits for a reply has its request in the mailbox, or its
  thread has taken it and not finished with it. No two sides wait for each other.
- Liveness: `AcceptedAreAnswered` (a client whose connection was accepted gets its reply,
  under `FairSpec`) and `EndedAreForgotten` (`EndedIsForgotten` itself: the entry of a client
  that has left is removed). Each is a chain of a few steps of the thread; what other threads
  and clients do meanwhile leaves the chain where it is or ends it. `RequestAnswered`
  is stronger, since it begins before `accept`: that every connection of the backlog has its
  turn is model-checked only.
- Steps are grouped by what they leave alone (`Quiet`: threads stay where they are;
  `Works`: a serving thread goes on serving), so that each conjunct is
  proved over few cases.

`RecvBufferProofs`, for any threads, tags, number of slots and size of an int:

- `TypeOK` needs `Exclusion`: the thread inside `recvfrom` has the mutex, and its wait's
  predicate is still true when it stores. `Around` states `next_in` by sums
  instead of modulo; `Modulo` turns one into the other.
- `NoLostWakeup` is preserved by each action on its own: whoever changes `occupied` is about
  to notify all, and sleeping needs a false predicate.
- `NobodyIsStuck`: as long as a producer has not returned with an error and there is a consumer,
  some thread can move. If none could, the mutex would be free and all would sleep with
  false predicates, so the ring would be both empty and full.
- `FullGivesOldest`, from `Around`.
- `ImplementsTheQueue`: a store appends (`StoreAppends`: the slot written is none of the
  queued ones; the zero written past it reaches the oldest only when the store fills the
  ring), a consume removes the oldest (`ConsumeTails`), a step that ends
  the process stops the queue, everything else stutters. The
  lengths take no part in it, damaged or not: only what is handed out depends on
  them. The fairness half of `ImplementsQueue` is model-checked only.

`SignallerProofs`, for any hosts, texts and number of datagrams, over a network that
loses, reorders and duplicates, from `SignallerAssumption`:

- `Sound` says what each datagram on its way says of its senders: an address
  is that of the host it goes to; a signal names an address somebody took for his; its
  text goes to such an address, or a `strtok` was disturbed. What a network holds
  in any order and number of copies is a set, so one lemma (`NetStep`) carries `Sound`
  over every step that adds sound datagrams.
- With it `DiesByMistake` becomes inductive: `given` holds addresses of hosts only, until
  a host mistakes a signal for its address. `LearnsOwnAddress` follows from `Sound`.
- `WaitersHaveCause`: a host in `recvfrom` has its request or a datagram to it on the way, or
  one was lost, dropped or misdirected, or the server is dead. `WaitersReturn`
  (`WaiterReturns` itself, under `FairSpec`) follows by two steps of fairness.

`P2PServerProofs`, for any connections and number of threads, from `ConnsAssumption`:

- `AnsweredOnce` needs `RequestsOnce`: a request is to come, under way, in one thread's
  hands, or answered, and in one of these only.
- `LoneIsAnswered` needs `LoneServed`: a connection that no thread overlapped is closed,
  or it is `client_sock` and the one thread alive stands where `Serves` says: what it is
  blocked on, what it holds and why it is about to close. Other lone connections are
  closed, and no thread touches what is closed.
- `NewestIsInHand`: with any overlap, the connection accepted last, unless closed,
  has its own thread alive and reading from it, and the request on it is unread, in some
  thread's hands, answered, or about to be closed. It is inductive with `IInv`, because a
  thread that closes closes the newest connection and no other.
- `NewestIsClosedByItsThread` and `NewestIsServedByThreads`, under `FairSpec`: the thread of that
  connection reads what there is to read, by a count of calls (`Calls`) that only its
  own steps lower and nobody raises; a thread with the request answers on the connection
  or closes it; and where the client has left the connection is closed. They are
  `NewestIsClosed` and `NewestIsServed` for each thread that may be the one; that some
  thread is the one at every moment is `NewestIsInHand`. To join the two, a quantifier
  over threads has to be moved across the temporal operator, which the proof system
  cannot do: the properties themselves are model-checked.

`DownloadProofs`, for any files, sources, announcements and downloads, from
`DownloadAssumption` (finitely many sources, which hold chunks of the file):

- `IndexInRange`: a source that announced chunk c announced 1 to c, so a reply has at least
  as many entries as its largest number (`ListingBounds`). It needs an empty
  `peer_list` before the reply (`TableFits`), which is what `fresh` says.
- `HealthyDownloadCompletes`: while nothing failed, each chunk is marked, still to be drawn
  or being received, and what is marked is held (`NothingMissed`). That the case of no entry
  left is then a complete file needs a sound part file to start from (`Sound`).
- `CompleteIsWhole` and a second half, that a reported file with nothing but its own chunks
  saved under its name (`Clean`) has all of them, answers joined or not and crashes included.
  `CompleteExact` says of each file that the number checked is that of a final record in
  the part, its own last one if the part is clean, and that a complete file
  has every number up to a final one. A save's effect on it is in `AppendBounds` and
  `SaveBounds`, once for a part of any records and once (`SaveOwn`) for a sound one.
- `DownloadsNearTheirEnd`: every step of `download_file` returns to the menu, goes from the
  request to the loop, or lowers `AskRank` (one retry) or `LoopRank` (three steps for each entry
  left). So it goes on for ever only if a `recv` does; that is `DownloadsEnd`, which needs
  the number of repetitions as well and stays with TLC.

`ExchangeProofs`, for any number of chunks and downloads, from `ExchangeAssumption`:

- `Spec` implements `Download!Spec` and `P2PServer!Spec` (`ImplementsTheDownload`,
  `ImplementsTheServer`), so the invariants above hold of the two halves; the assumptions
  they rest on are proved of the constants given (`HalvesAssumptions`). The client's half
  needs no invariant, because each step of it is one of `Download` with a stronger guard;
  the server's half needs `LinkCurrent`, that a client has one connection at a time.
- `LoneDownloadCompletes` joins them. `LoneKept`: a connection served alone is
  not shut before its client leaves. With it, an answer that is wrong or does not come
  is received on a connection that overlapped another (`Blamed`), and `Download`'s
  `HealthyDownloadCompletes` says that without one the download is complete.

- `WaitingClientsAreAttended`: while the client's `recv` has nothing to return, its connection is
  in the backlog with its request and can be accepted, or it is the newest one, its thread
  lives and reads from it, and its request is unread, held, or about to be closed. It takes
  `NewestIsInHand`'s reasoning to a client that cannot give up, and is what lets
  `Exchange` show that every `recv` returns, which `Download` leaves open.

Every safety property of a passing run is a theorem. Not proved: `InformedIsListed` and
`ServedDownloadCompletes`, and `CompletedIsWhole` under `ShortSpec`, which the violation runs
show false.

Liveness. Proved as the runs state them are `WaiterReturns` and `EndedIsForgotten`; proved for
each thread are `NewestIsServed` and `NewestIsClosed`. The others are model-checked
only, with the part that can be proved beside them:

| model-checked only | why | proved |
|---|---|---|
| fairness in `ImplementsStore` | as many steps as the part has records: induction | `SavesEnd` |
| fairness in `ImplementsQueue` | some consumer, not a given one | `NoLostWakeup`, `NobodyIsStuck` |
| fairness in `ImplementsDownload` | the fairness of one half from that of the other | `WaitingClientsAreAttended` |
| `EventuallyAnswered` | any number of datagrams in front: induction | `RequestsGetCloser` |
| `DownloadsEnd` | any number of entries: induction | `DownloadsNearTheirEnd` |
| `RequestAnswered` | the backlog has its turn | `AcceptedAreAnswered` |
| `NewestIsServed`, `NewestIsClosed` | a quantifier over threads | the two theorems above |

## 6. Abstractions and limits

- One file name in `Storage`; the files of a folder do not interact. What a disk operation
  writes is there in the end: the results of open, write and close are not looked at
  (`storage.cpp:76-79`, `143-157`), so on a full disk an append may be lost although
  the save goes on, and the part deleted behind a complete file that was never written. Neither is
  modelled, and `AckedOnDisk` and `DeletedOnlyWhenWhole` suppose it does not happen.
  `CopyFile` over an existing file (`storage.cpp:266`) is one step; a crash inside it is not
  modelled (`addFileToDownloadFolder` has no live caller).
- In `Download` a `recv` returns nothing or at least a whole header of 9 bytes, and at most two
  answers; a joined pair is cut in its second one only. After a record cut short no more is
  said of the file than that it may be found complete or not.
- In `Storage` chunks of one version of one file. Two versions under one name are not
  modelled; another file's chunks under the name are, in `Download`.
- In `RecvBuffer` a length is the one written or damaged, and of the memory behind `data_len`
  only the lengths and `recv_buffer` are followed: what else lies there is covered by
  the end of the process (`Overflow`, `Overcopy`) only.
- In `P2PServer` a request arrives in one piece and well formed, as `download_file` sends it.
  `parse_packet` takes the second and third word without looking (`p2p_server.cpp:161-175`) and
  `recv_buffer` is not terminated after a `recv` that fills it.
- Contents, formatting and lengths of texts are abstracted; chunk numbers wrap at
  256 where the code keeps a `uint8_t`.
- Datagrams of one host stay in order and are lost only while no tracker
  runs. Loss at other times delays or removes a request as `GiveUp` and `Die`
  do; a lost query blocks its client for ever, by the code's own wait.
- A socket handle of the peers is its connection; reuse of a handle by the client half
  of the process is not modelled. Reuse of descriptors is, in `Relay`.
- A dead process takes no step and its clients are not followed further. The two halves
  of the relay are one process: `StrtokRaces`, `PortOfAnother` and `NoPort` are enabled
  whenever the victim is between its two calls, which over-approximates the other half.
- In `Relay` a message is one segment: `recv` returns exactly what one `send` gave. A
  message relayed into a connection that still waits for its address is taken for it;
  `answer` records it as "data". The one byte written past `tempRecv_data` is not modelled.
  A `send` never blocks: an addressee that does not read while its buffers are full would keep
  the sender's thread in it (`TURN_Signal_server.cpp:209`). `accept` fails when the
  client is gone (`AcceptFails`), not for want of descriptors: they never run out in the model.
- In `Signaller` an unresolved name is one that is no host's address; the wait inside
  `gethostbyname` is not modelled. A disturbed `strtok` gives another message's word
  (`PortOfAnother`) or no word, which ends the server (`NoPort`) if the address is one;
  other combinations, as of a word that is not a number, are left out.
- `Exchange` has one file, and answers arrive whole, alone or two in one `recv`: another file's
  chunk and one cut short are left to `Download`, failed accepts and lack of memory to
  `P2PServer`.
- A crash after the last missing chunk was appended and before the assembly
  (`storage.cpp:79`) leaves a file that no later chunk completes: `CrashSpec` contains the
  state, so `ExtensionTells` is a property of `Spec` only.
- Request 2 and `ask_updated_peer_list` are unreachable (`connection` never returns
  -1 for a server without exiting first) and left out; request 8 does nothing.

## 7. Not modelled

- `get_private_IP`, `print_server`, the packet classes: formatting or one system call,
  without state.
- `src/unused_code`, outside the build, but for the loop that calls
  `RecvBuffer::producer`.
- Socket set-up (`P2P_Server::start`, `tracker::init`): each step fails or not before
  anything else runs; the models begin after it. `setupSocketForSignallerServer` is
  `Signaller!Restart`, without the calls that make it fail.

## 8. What is left

1. `Swarm`: tracker, two peers' storages and downloads composed; `Download` against
   `Storage` instead of its abstract store.
2. `Exchange` with two clients of one server, and with a server that lacks chunks.
