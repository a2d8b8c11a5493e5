# NNTI in TLA+

TLA+ models of NNTI, the network transport library of the Trios data services
(`src/nnti`), with TLC configurations that check them on small instances and
TLAPS proofs of what holds for every instance.

## The system

NNTI gives applications registered memory and the operations send, put, get,
scatter, gather and remote atomics on it, over one of six interconnects.  An
application connects to a peer by URL, registers buffers, starts operations,
each of which fills a *work request*, and waits for work requests with
`NNTI_wait`, `NNTI_waitany` or `NNTI_waitall`.  A server registers a *receive
queue* for requests and buffers that clients may put to or get from.

| component | source | state it keeps | operations |
|---|---|---|---|
| public API | `nnti/nnti.c` | `available_transports`, one table of functions per transport | init, fini, dispatch of every call |
| MPI transport | `nnti/nnti_mpi.cpp` | per buffer a queue of work requests and three tags; per work request up to nine `MPI_Request`s and a state machine; one request and one result structure for atomics | all |
| InfiniBand transport | `nnti/nnti_ib.cpp` | queue pairs per peer, pools of work requests, RDMA acknowledgements, leader/follower progress engine | all but scatter, gather |
| Gemini transport | `nnti/nnti_gni.cpp` | connections with mailboxes and credits, resend queues, backlog, progress engine | all but scatter, gather |
| Portals transport | `nnti/nnti_ptls.cpp` | match entries and one event queue per buffer | no atomics |
| DCMF, PAMI transports | `nnti/nnti_dcmf.cpp`, `nnti/nnti_pami.cpp` | callbacks that advance work requests, request queue with a doorbell | no atomics |
| buffer pool | `nnti/buffer_queue.cpp` | a deque of registered buffers, a count, a maximum | init, pop, push, fini |
| utilities | `nnti/nnti_utils.c`, `nnti/fprint_types.cpp` | none | parse URLs, print |
| support | `support/*` | locks, counters, log, timers, traces | wrappers |

The hard parts are the same in all transports.  Nothing runs in the
background: operations of peers advance only while some thread waits.  Several
threads wait at once, and each of them handles whatever events it finds.  A
one-sided operation is a state machine spread over two processes, with command,
data and acknowledgement in separate messages.  Waits time out and are
repeated, are interrupted and cancelled.  Queues, pools and credits are
bounded.  The list of hazards with their lines is in `PROJECT.json`.

What makes the components correct:

* one-sided transfers: data goes from the place an operation names to the place
  it names; a complete operation has moved its data; an event at the target is
  delivered after the data, and once per operation (on Blue Gene the code keeps
  one completion per buffer, so that is less than it says, see Runs); everything
  that was started completes as long as both sides keep waiting;
* atomics: an operation is executed once, in one step, and its initiator gets
  the value before it;
* requests: each is received once, as it was sent, and none while another is
  still to be read from the same element;
* work requests: a segmented transfer moves the bytes it names and no others, and
  the completion of each chunk finds the work request it belongs to;
* buffer pool: one owner per buffer, exact count, bounded pinned memory;
* registration: what is registered is pinned, handles that buffers share are
  counted, and nothing stays pinned when the last of them is gone;
* connections: both ends are ready when either may be used, the two maps of a
  process agree, connecting and disconnecting end;
* progress engines: one thread polls, no wakeup is lost, no completion is lost
  or reported twice, timeouts and interrupts end the wait they belong to;
* mailboxes: no slot is overwritten before it is read, messages of a connection
  arrive in order, credits are neither lost nor invented;
* API: a call goes on in an open transport only.

## Modules

| module | models | source |
|---|---|---|
| `BufferQueue` | the buffer pool | `buffer_queue.cpp` |
| `BufferQueueProofs` | theorems about it | |
| `Nnti` | the API's table of transports, init, fini, dispatch | `nnti.c`, init and fini of three transports |
| `Registration` | memory handles and the table of buffers | `nnti_ib.cpp`, `nnti_gni.cpp` |
| `NntiProofs` | theorems about both | |
| `NntiLibrary` | the API with registration, or the buffer pool | |
| `MpiMatching` | MPI's matching of sends and receives (external) | |
| `OneSided` | abstract: what one-sided transfers promise | |
| `MpiRdma` | put, get, target progress and wait | `nnti_mpi.cpp` |
| `MpiRdmaProofs` | theorems about it | |
| `MpiRequests` | send, request queue, wait, waitany, waitall | `nnti_mpi.cpp` |
| `MpiRequestsProofs` | theorems about it | |
| `RemoteAtomics` | abstract: what remote atomics promise | |
| `MpiAtomics` | atomic operations and their service | `nnti_mpi.cpp` |
| `MpiTransport` | transfers or atomics of the MPI transport | `nnti_mpi.cpp` |
| `IbConnect` | connecting, accepting, disconnecting | `nnti_ib.cpp` |
| `IbConnectProofs` | five theorems about it | |
| `IbProgress` | wait and the leader/follower progress engine | `nnti_ib.cpp` |
| `IbProgressProofs` | theorems about it | |
| `WorkRequests` | segmented puts, gets, atomics, their completions, cancelling | `nnti_ib.cpp`, `nnti_gni.cpp` |
| `WorkRequestsProofs` | theorems about it | |
| `RequestChannel` | abstract: what a connection promises for requests | |
| `GniMailbox` | requests, credits, mailboxes, the request queue | `nnti_gni.cpp` |
| `GniMailboxProofs` | theorems about credits, mailboxes and the request queue, and the refinement of `RequestChannel` | |
| `Messaging` | the programs that run on the next three | the transports' common part |
| `BlueGene` | what the Blue Gene transports have in common | `nnti_dcmf.cpp`, `nnti_pami.cpp` |
| `Dcmf`, `Pami`, `Portals` | a transport each | `nnti_dcmf.cpp`, `nnti_pami.cpp`, `nnti_ptls.cpp` |
| `Transports` | the programs on either of the three, and what they may rely on | |
| `MC*` | instances for TLC | |

How they compose: `Nnti` extends `Registration` and makes its calls; `NntiLibrary`
puts it and `BufferQueue` beside each other, and `MpiTransport` does so with `MpiRdma`
and `MpiAtomics`: a program of the run uses one of the two, which share no state
(in `nnti_mpi.cpp` they meet in the loop of `NNTI_mpi_wait` only);
`MpiRdma`, `MpiAtomics` and `MpiRequests` extend `MpiMatching`; `Transports`
instantiates `Dcmf`, `Pami` and `Portals`, which extend `Messaging` (the first two through
`BlueGene`).  `MpiRdma` and `Transports` implement the same `OneSided`,
`MpiAtomics` implements `RemoteAtomics` and `GniMailbox` implements
`RequestChannel`.

### BufferQueue

The state is that of `trios_buffer_queue_t` (`queue`, `current_size`,
`create_on_fly`) and, since the structure does not know them, the buffers each
client holds, those whose registration succeeded and those whose size a client
reduced.  Each function holds `bq->mutex` from its first to its last line, so
each way through `init`, `pop`, `push` and `fini` is one action.  Allocations
and frees may fail in every call that makes them; `failed` remembers that, so
that properties can say what holds as long as none has.  A buffer is the
address of its structure, which `malloc` may hand out again.

### MpiMatching, MpiRdma, OneSided

`MpiMatching` is the one place that says what MPI does: messages of a channel
(sender, receiver, tag) are taken in order, channels overtake each other, a
receive from `MPI_ANY_SOURCE` takes from any.  `MpiRdma` extends it with the
transport's structures.  The correspondence:

| module | code |
|---|---|
| `phase[w]` | `mpi_wr->op_state` (`RDMA_WRITE_INIT`/`RDMA_READ_INIT` = "init", `RTS`/`RTR_COMPLETE` = "cmd_done", `RDMA_*_COMPLETE` = "done") and, for operations, not started or freed |
| `request[w, "cmd" or "data"]` | `mpi_wr->request[...]`: null, active, or done at MPI but not yet tested |
| `cmd_msg`, `last_op`, `wr_queue` | the fields of the same name |
| `thread[t]` | the call `t` is in, its work request, how far its pass over `target_buffers` is |
| `moved`, `events` | history: the places data was moved between, the events delivered |

Puts and gets are two actions each, because `nnti_mpi_lock` is released between
the command and the data.  A wait is cut where the code releases its locks:
a step of `check_target_buffer_progress` per buffer, the test of the own
request, the handling of its event, the end.

`ImplementsOneSided` is the refinement: an operation is *landed* when its data
is in place, *complete* when its wait freed it.  `OneSided` promises that what
is started lands, so the refinement has a liveness part.

### MpiAtomics, RemoteAtomics

A rank has a single request structure, a single result structure and a single
posted receive, all in `transport_global_data`; the module has them as
functions of the rank.  `request_msg[r]` is the operation whose arguments the
structure holds.  As MPI may read a send's buffer late, the request that
arrives is what the structure held at the send or what it holds at the match.
`MPI_Send` of the result may block, with `nnti_mpi_lock` and the variable's
lock held.  `RemoteAtomics` says that an operation takes effect in one step,
once, and that its initiator sees the value from before.

### MpiRequests

A request queue on MPI is one work request with one posted receive per slot.
`NNTI_mpi_wait` finds a receive that is done, returns its slot, and posts the
receive for the slot again before it returns.

| module | code |
|---|---|
| `op_state[w]` | `mpi_wr->op_state`; "INIT", "RTS_COMPLETE" and "COMPLETE" stand for the states of sends, puts and the queue; "unposted" and "freed" are outside the life of the structure |
| `request[w]` | the `MPI_Request`s: null, active, done at MPI but not tested, or freed by a test of a copy |
| `Current(w)` | what `request_ptr` and `request_count` select |
| `request_index` | of the queue's work request, set by the test in `NNTI_mpi_wait` |
| `thread[t]` | the call rank `t` is in, its list, how far it is, and `which` |
| `held`, `told`, `received` | the server: the slot it was told of, and history: the request that was in it then, and what it has read |

The three waits differ in what they test.  `NNTI_mpi_wait` tests the handles in
the work request, where MPI sets them to null; `waitany` and `waitall` test
copies, and leave freed handles behind (`Done`).  A call with a list of one is a
`wait`, as in the code.  `TestAny` and `TestAll` each stand for the test and the
`process_event` that follows.  A rank has one thread, so nothing comes in
between.  Of a put only the initiator's two messages are here; the target takes
them at any time, in order.  Left out: unregistering, gets, atomics and targets
in lists, the progress pass, which is in `MpiRdma` and `MpiAtomics`, and
`waitany` with the queue in its list: it does not set `request_index`, so the
receive would be posted for whichever slot the last `wait` found.

### IbProgress

`NNTI_ib_wait`, `progress`, `poll_all` and `NNTI_ib_interrupt` of the
InfiniBand transport.  `progress` lets one waiting thread lead: it polls two
completion queues, handles what it finds for everybody, and blocks in `poll()`;
the others follow, asleep on `nnti_progress_cond` without a poll of their own.

| module | code |
|---|---|
| `pc[t]` | "enter" to "leave" are places in `progress`: entry under the lock, asleep on the condition, polling either queue, in `poll()`, after it where the queues are armed again, on the way out; "check" and "finish" are in `NNTI_ib_wait` |
| `state[w]` | `ib_wr->state`, abstracted to what `is_wr_complete` tells apart; "consumed" is a request that wait has cleaned up |
| `fate[w]` | what the hardware made of it, the status of its completion |
| `cq`, `armed`, `events` | the two completion queues, `ibv_req_notify_cq`, the completion channels |
| `connecting`, `pipe` | the listening socket, `interrupt_pipe` |
| `in_progress` | `progress`'s static variable of that name |
| `remaining`, `wr_complete`, `made_progress` | locals of `progress`: `timeout-elapsed_time` and the two flags |
| `due[t]` | `elapsed_time >= timeout`: all there is of time |

The leader's loop is one action per system call or lock release, since
completions, interrupts and other threads come between.  `wr_complete` is
computed once, at entry, and kept in the state for that reason.  Left out:
`NNTI_ib_cancel` and the abort flag, receive requests, the rounding of timeouts
to milliseconds, the contents of the status, and that a dropped operation is
reported as `NNTI_EDROPPED`; every failure is `NNTI_EIO`.

### GniMailbox, RequestChannel

A request on Gemini is written into a mailbox of the server, one mailbox per
connection.  Three parties count for themselves and no message carries an
index: the client the slots, the server the requests of each connection (which
gives the slot) and the request queue the requests of all (which gives the
element).

| module | code |
|---|---|
| `pc[c]` | "fetch", "swap", "post": in `credits_available` and `execute_send_wr`, called from `NNTI_gni_send` or, if `Resending`, from `resend_all`; "progress", "resend": in `NNTI_gni_wait` |
| `credits`, `seen`, `mbox_index` | of `send_mbox`; `seen` is `amo_result` after the fetch |
| `resend` | the connection's queue in `wr_resend_map` |
| `posted`, `delivered`, `completed` | the network: what was posted, how much is written and announced to both sides, how many completions the client has handled |
| `spc`, `waits_for`, `attached` | where the server is, what it waits for, the element its work request is for |
| `reqs_received`, `req_index`, `head`, `tail`, `element`, `mbox_backlog` | the fields and states of the same name |
| `copied`, `received` | history: requests copied out of each mailbox, requests the application got |

The two remote operations that take a credit are two actions, and so are
copying a request and returning its credit.  `RequestChannel` is a bounded FIFO
per connection; `put` is what was posted, `taken` what was copied.

Left out: several sending threads per client, more than one work request for
the queue at a time, postings that fail, cancelling, interrupts and aborts, and
RDMA, of which only remains that the server may wait for something else.

### WorkRequests

How a transfer between buffers that were registered in segments is taken apart,
on InfiniBand and on Gemini, and what its completions do.  The sizes of the
segments are data here, and each byte is followed from the place it is read to
the place it is written (`moved`).

| module | code |
|---|---|
| `at[t]` | the counters of the loop over the chunks: for the source and the destination the segment, the offset in it and what remains of it, and the last segment of the source |
| `wr[t]` | the work request: its memory, `key`, `state`, `result`, the chunks not yet posted, how many there are (`sge_count`) and how many completed |
| `counter` | `nnti_wrmap_counter`; on Gemini the hash of a chunk's address is its key |
| `keys` | `wrmap` and `sge_by_sgehash`: key to the memory of a work request, which need not be anyone's any more |
| `posted`, `cq`, `broken` | the adapter: a queue pair carries chunks out in order and is in error after a failure, Gemini's engines finish in any order |

InfiniBand makes all chunks and then posts them one after another; Gemini posts
each as it is made.  Posting fails and chunks fail, up to `MaxFaults`.  A wait
begins by looking for a cancellation, polls for everybody and ends when its work
request is complete.

### Messaging, BlueGene, Dcmf, Pami, Portals, Transports

`Messaging` is the program: processes register their buffers, connect, make
their transfers, each after the ones it depends on, wait, release buffers and
disconnect; further threads wait for what others do to a process's buffers.
Each transport's module says by which steps.

| module | code |
|---|---|
| `pc[p]`, `wr[p]` | the call a process is in, and the work request it is about |
| `state[t]` | of a transfer: "landed" when its data is in place, "complete" when its wait returned |
| `events[b]`, `received` | history: what waits for a target buffer, and for the request queue, told |
| `net` (`BlueGene`) | control messages, dispatched by callbacks |
| `wr_queue`, `wc` | a buffer's work requests, and its work completion, to which the initiator of a transfer writes |
| `req_index`, `req_processed`, `reset_limit`, `req_buffer`, `wc_buffer` | the request queue: indices given, requests processed, and its elements |
| `unblock`, `answering` (`Dcmf`) | the word of each client in `unblock_buffer`, and what `fetch_req_index_thread` is answering |
| `conn_list`, `conn_ack`, `storing`, `attrs` (`Pami`) | the exchange of attributes on connecting |
| `data_eq`, `op_state`, `put_end`, `req_eq` (`Portals`) | the two event queues and what was recorded of their events |
| `matching`, `filled`, `queue_count`, `req_queue` | the two descriptors of Portals' request queue |

On the Blue Gene transports a target does not see a transfer: its initiator
tells it by a second put, when that waits (DCMF) or in the call (PAMI).  DCMF
lacks an atomic fetch, so a thread of the server gives out indices; PAMI's
clients draw them by a remote fetch-and-add.  `Transports` adds the network and the callbacks
as steps of their own and states the properties once for all three.  Left out:
waiting for several work requests and timeouts on the Blue Gene transports,
`NNTI_cancel`, and failures, which the Blue Gene transports do not handle.

### Registration, Nnti

| module | code |
|---|---|
| `initialized` | `available_transports[t].initialized` and the operations filled in |
| `opened`, `up` | `ib_initialized`, `gni_initialized`, the static flag in `NNTI_mpi_init`; and whether the device and the locks are there |
| `bufhash` | `buffers_by_bufhash`, by the address of the first segment |
| `handles` | the memory handles: `ref_count`, `mr_list`; handles are not made twice, so that one used after its release is seen |
| `buf[b]` | the `NNTI_buffer_t`: `transport_private` and the segments with their keys |
| `mem_lock` | `nnti_mem_lock` of Gemini; InfiniBand has none |
| `pc`, `call`, `registered` | a thread's call, and history: what the caller asked for |

The steps of a registration are those between which InfiniBand holds no lock:
looking in the table, making or counting the handle, pinning, entering.
`Habits` lists, per transport, what callers do beyond the careful minimum.  The
run leaves out the habits the code is not right for:

* `together` on InfiniBand: two registrations of the same memory
  fail an assertion, or count on a handle that is being released
  (`nnti_ib.cpp:1393`);
* `overlap` on Gemini: segments that begin where others are registered are
  answered with an error and the lock is kept for ever (`nnti_gni.cpp:1592`),
  and a single segment that begins where several are registered is given a key
  that was never set;
* `resegment`: a second registration of the same segments goes through an array
  that only the first one allocates (`nnti_ib.cpp:1614`);
* `reuse`: the table keeps a buffer that was unregistered while others of its
  address remain (`nnti_ib.cpp:1703`), and gives the wrong handle when that
  buffer is registered for other memory;
* `again` on MPI: the flag in `NNTI_mpi_init` outlives `fini`, and the second
  init makes no locks (`nnti_mpi.cpp:355`);
* `failed`: a transport whose init failed counts as initialised (`nnti.c:285`).

### IbConnect

Two processes set up a pair of queue pairs over a TCP socket, with blocking
reads on both sides.  A socket has two ends; an end stands for its
`ib_connection`.

| module | code |
|---|---|
| `qp[e]` | the state of the queue pairs of an end |
| `written[e]` | what was written to the socket: the parameters, then the word of `tcp_exchange` |
| `connections_by_peer`, `connections_by_qpn` | the maps of that name |
| `pc`, `at` | where a thread is in connecting, accepting or disconnecting, and with which end |

The server side runs in whichever thread of the other process leads its
progress.  `Habits` again names what the run leaves out.  With `reconnect`, a
process that disconnects and connects again while its peer has not disconnected
is accepted, but the peer keeps the first connection in its map
(`nnti_ib.cpp:5740`) and the two disagree.  With `twice`, two threads that
connect to one peer make two connections, of which one is never disconnected
(1150).  And `Reaches` has no cycle: two processes with a thread each that
connect to each other wait for ever (1210), since neither accepts, and with more
threads may make two connections.  Not in the model: that
`NNTI_ib_connect` goes on with a connection whose `init_connection` failed
(1198), as it does not look at the result.

## Runs

| run | expected | what it shows |
|---|---|---|
| `library` | pass | the API on three transports, two threads, three buffers: what is registered is pinned, handles are counted, calls find an open transport and return; or the pool, two clients, four structures, `initial_size` 1, `max_size` 2, all faults, restarts: ownership, count, bounded pinned memory and full sizes |
| `mpi` | pass | three ranks, two puts to one buffer and a get back: events, request handles, refinement of `OneSided`, return of waits; or atomics of clients with one operation at a time and a single-threaded server: refinement of `RemoteAtomics` and completion |
| `mpi_requests` | pass | send, queue and lists: no request is lost or overwritten, no freed handle is tested, waits end |
| `connections` | pass | three processes connect, disconnect and connect again over three sockets |
| `ib_progress` | pass | one leader, no missed completion, no sleeper left behind; waits return unless a leader spins or oversleeps |
| `transfers` | pass | segmented transfers and atomics of two threads on InfiniBand and Gemini, with one fault and one cancellation |
| `segment_length` | violation | a length that ends within a segment, or an offset that starts within one, moves other bytes than those named |
| `first_key` | violation | the return of a segmented transfer on InfiniBand erases key 0, by which the completion of another is to be found |
| `gni_mailbox` | pass | a client and a server: credits add up, requests are kept until received, a connection is a bounded FIFO channel, every request is received |
| `gni_shifted` | violation | resetting the queue's index with requests in the backlog sends requests to elements the server does not wait for |
| `messaging` | pass | two clients and a server on DCMF, PAMI and Portals: refinement of `OneSided`, requests received once, events after data and of each transfer once (on PAMI the last of them again), two transfers to one buffer, released buffers are quiet, nothing waits for ever |
| `pami_offset` | violation | a get from within a buffer on PAMI gets its first bytes |

The violations are findings: `PROJECT.json` quotes the line that states the
property and the line that breaks it.  The passing runs of the same modules are
the uses the code is right for.  Uses left out of them, each of which breaks a
property of its module when it is put into the instance:

* MPI transport: one thread per rank.  Two threads of a rank that put to one buffer swap
  their data, as the tag says which buffer and not which put
  (`nnti_mpi.cpp:981`).  Two threads of a target that wait while commands
  arrive: a completion is handled after the lock it was seen under is released
  (1599), and a work request may complete without its data.  Two gets of a rank
  into one buffer from the same peer swap their answers if these come
  from two of the peer's buffers (1103), since the peer sends them in the
  order in which it looks at its buffers.  Buffers that
  are not source and target at once, which can starve peers; timeouts other than
  0 (line 1606 ends a wait only if its timeout is greater than 0).
* MPI requests: `waitall` for sends, whose handles complete in one test; a
  put in the list needs two, and what completed in the first is tested again
  (`nnti_mpi.cpp:2079`), also if all are puts but one is ahead.  The queue by
  itself: `waitany` on several work requests does not set `request_index`
  (1841), from which the status and the slot to post again are taken (2569,
  2828).  Clients that have no
  more requests under way than the queue has slots (`Window`): the slot that was
  reported is posted last, and with one request more it may be written over
  before the server has read it, although the doc says that
  `NNTI_clear_work_request` prepares it for reuse.  Waits with timeouts for the
  queue only: a `waitany` that times out reads `wr_list[*which]` with `which`
  unset (line 1898).
* MPI atomics: one operation at a time per client, as the result structure and
  its tag are shared by all; one serving thread (line 2418 tests the one posted
  receive under the lock, which is served and posted again after the lock is
  released).
* Buffer pool: `failed` marks pools in which a library call failed.  Such a pool
  can hold a buffer it does not count (`buffer_queue.cpp:185`), and the
  properties about the count make no claim on it.
* InfiniBand: no use is left out, but nothing is claimed of the code a wait
  returns: `progress` returns the failure of whatever operation it handled
  (`nnti_ib.cpp:6810`) to the leader's caller, and the waiter of the failed
  operation finds it complete and returns `NNTI_OK`.  `WaitEnds` names the two states in which a
  wait may hang: `Spins`, a leader whose request was complete when it entered
  and which leaves only after another event (6706, 6826), and `Oversleeps`, a
  wait with timeout 0 that has handled one event.  Both happen in `ib_progress`.
* InfiniBand and Gemini transfers: whole sources, as `segment_length` says, and
  destinations with room for them; freed work requests are not given out again
  (`Reuses`): with that, a transfer that gets the memory of a cancelled
  one gets its completions too, as only one key is taken out of `wrmap`
  (`nnti_ib.cpp:3429`).  Keys are counted from 0 as in the code, and
  `CompletionsFindTheirWorkRequest` names key 0 after the return of a segmented
  transfer as the exception (`ZeroErased`); `first_key` checks it without the exception.
  `Hangs` names what a wait does not return from: that lost key; on Gemini a chunk
  that was not posted or failed, as its completion is dropped
  (`nnti_gni.cpp:7467`), and a cancellation during the wait, which is looked at
  only when one begins (`nnti_ib.cpp:3201`).  The status of an atomic says OK
  whatever its completion said.
* Blue Gene: no more requests than the queue has elements.  When it goes round,
  the mark that an element has its request is still the one of the request
  before (`nnti_pami.cpp:1853`, `nnti_dcmf.cpp:1931`) and the server reads too
  early.  A target buffer has one completion, to which every initiator of a transfer
  to it writes, so that of two transfers the owner may see the second only
  (`overwritten`, exempt in `TargetsLearn`); DCMF tells of it when the initiator waits, which
  it may never do (`forgotten`); PAMI does not reset `op_complete`
  (`nnti_pami.cpp:1903`) and pushes the work request back (1545), so that the last
  transfer is reported again (`ReportedAgain`, the exception in `EventsFollowData`).  All
  of this is in the run.  Not in it: a get at an offset on PAMI (`pami_offset`); two
  results to one `RESULT` buffer on PAMI, as the wait for the first frees the work request
  and the second finds an empty queue (1464, 1549); initiators other than the server of
  transfers to one buffer.  On DCMF a client's question may be erased (`Erased`), on
  Portals an event may be taken by another thread, whose wait polls on
  (`Overlooked`, `Robbed`); the liveness properties name these.  Two results to
  one buffer on Portals come one at a time, the second asked for by a request
  that follows the event of the first: `last_event` and `op_state` are those of the one work
  request (`nnti_ptls.cpp:2607`), and a second event before it is cleared takes the place of the first.  Locks of DCMF
  are left out: callbacks take the lock that the thread advancing the network
  holds.
* Gemini: `RequestsAreReceived` makes an exception for a queue whose index is
  shifted, which `gni_shifted` reaches, and is checked with timeouts.  Without
  them the server misses its backlog, which is looked at only after `progress`
  has returned (`nnti_gni.cpp:3247`), and a client that waits
  for a send without credit is not woken, as a returned credit raises no event.

**Bounds.**  All state is finite without state constraints: operations are a
finite set and each runs once; `MaxConnects`, `MaxPipe`, `MaxFaults`,
`MaxHandles` and `MaxSockets` cap connections and unread interrupts of
`IbProgress`, faults, memory handles and sockets; `MaxReports` caps how often a wait on Blue
Gene returns with the same completion, 2, the least in which one comes again.

* The pool of `library` has as many structures as two clients and `max_size` can hold at once.
* `mpi` has, of transfers, two puts of two ranks to one buffer, the least that has two
  commands waiting on one work request and data of one overtaking the command of
  another, and a get by their target from one of the putters, so that two ranks
  wait for each other; one rank waits with timeouts, one for ever, one never.  Of atomics it has three, of two clients, at one
  variable.
* `mpi_requests` has two slots and three requests of two clients, two under way
  at once, so that the slots are used in turn and one is written while the other
  is read; one client waits for its two requests and a put one by one, for any
  of two in either order of kinds, and for all.
* `ib_progress` has two threads, one that waits as long as it takes and one with
  timeouts, and two requests that complete in one queue, so that a completion is
  left behind for the next leader after one event has been read for both; its
  safety is proved for any number of threads, requests, connections and
  interrupts, its liveness is about a thread and the leader it depends on, and
  two threads change roles.
* `transfers` pairs transfers between buffers of one and two segments, cut
  at the same place and at different ones, with a transfer of another thread.
  A transfer has at most three chunks, so that one is first, one in the middle and one
  last; one fault falls on either side of every other step.
* `gni_mailbox` has a client with four requests, two slots and two elements, so
  that the client runs out of credits and mailbox and queue go round twice;
  clients share nothing but the queue, and that credits add up for any number of them
  is proved.  `gni_shifted` gives it four credits, with which the server's
  counts run ahead of the queue most easily.
* `messaging` has a get, a put with an event and a send after a request; two
  puts to one buffer with events, whose owner waits after each or both, and which the server
  waits for in either order or, of one, not at all; two results to one buffer; and
  two or three requests of one client or two.
  `pami_offset` has a request and a get at offset 1.  On Portals the queue has two descriptors of
  one or two requests, so that both are filled, passed over and attached again.
* `library` has three handles and three buffers: two share a handle in
  every order of arriving and leaving while a third has its own; memory of one
  segment, two segments that begin with it, and allocated memory.
* `connections` has three sockets, enough to connect, disconnect and connect
  again while another process connects, and a process that is client and server
  in two threads.

**Symmetry** is not used, since most runs check liveness.  `OrderedSpec` of `MCGniMailbox` has the one client send its
requests in one order, which loses nothing since requests differ in nothing but
their names.

**Fairness.**  The liveness runs assume that MPI delivers what can be matched,
that a thread inside a call is scheduled, and that a thread with something to
wait for goes back to waiting.  The last is what the library requires of its
callers: nothing advances outside `NNTI_wait`.  No fairness is assumed for
starting operations, for timeouts, or for which work request a thread waits on.
In `MpiRequests` the server reads what it was
told of and waits again, and the waits of clients have no timeouts.
In `IbProgress` each thread is scheduled in each of its roles (entering,
leading, leaving `NNTI_ib_wait`), a timed sleep ends and time passes; there is
none for completions, connections, interrupts, spurious wakeups and calls of
wait.  In `GniMailbox` the network delivers, a client inside a call is scheduled
and waits for what it has sent, and the server is a loop that creates a work
request for its queue, waits until it is complete and destroys it.  That is
strong fairness: the server may wait for other things in between, during which
these are disabled, but it comes back.  None is assumed for sending.
In `WorkRequests` a thread that has begun goes on, waits again when a wait ended
with another's failure, and the adapter carries out what is posted; none for
posting a first time, failing and cancelling.  In `Transports` threads in calls
go on, and what is on the network arrives.  In `Nnti` every thread in a call runs, with
strong fairness because the lock of Gemini is given to each that asks for it;
none for making calls.  `MpiTransport` and `NntiLibrary` assume what the module in
use does.  In `IbConnect` threads in calls run, and a process that
others connect to goes on to wait and so to accept: strong, since it may be in a
call of its own in between.

## Proofs

`BufferQueueProofs` has five theorems, for every set of clients, every finite
set of buffers and all sizes.

* `Typing`: the type invariant is inductive by itself.
* `OneOwner`: `ExclusiveOwnership` is inductive together with it: what `pop`
  hands out leaves the deque, and what `create_buffer` returns is unused.
* `CountIsExact`: the property speaks of an open pool; it becomes inductive with
  the fact that `fini` leaves an empty deque to the next `init` when no free
  failed (`CountInv`).  Two lemmas say that the number of buffers out changes
  by one, which needs `OneOwner`.
* `PinnedMemory`: `PinnedInv` adds that registered memory is always reachable
  and, in a pool that may not create on the fly, counted.
* `FullSize`: `QueuedBuffersAreFullSize`.  What is reduced is in a client's
  hands (`ReducedIsHeld`), and what is in a client's hands is not in the deque,
  by `OneOwner`.

The assumptions are that sizes are natural numbers and the set of structures is
finite.

`IbProgressProofs` proves the safety of the progress engine for every set of
threads and requests and every assignment of requests to threads, queues and
timeouts; its assumptions are the types of the constants.

* `Typing`: the type invariant is inductive by itself.
* `Inductive`: the inductive invariant `IInv` holds.  `OneLeader` and
  `SleepersAreWoken` need only that a thread in a call has a request (`Names`).
  `NoMissedCompletion` speaks of a leader in `poll()` and says nothing of the
  steps that bring it there.  `Announced` adds that a queue that is not armed
  has an unread event or a leader that is about to arm it, and `RoundIsGood`
  that a leader which has found the data queue empty, or both, knows of every
  completion that arrived since by such an event.
* `LeadersAreUnique`, `NobodyIsLeftAsleep`, `NoCompletionIsMissed`: the three
  properties of the run, as consequences.

`GniMailboxProofs` is about every set of clients and requests and all sizes of
mailboxes and queue; the assumptions are those of `GniMailbox` on its constants.
It proves first that credits are exact.

* `Inductive`: `IInv` holds.  `CreditsAccounted` alone is not inductive.
  `HasHead` says that a credit on its way back has a request in the backlog to
  belong to.  `NotNegative` says that a client about to swap has seen a positive
  count, so that the counter, which is an integer in `Types`, stays a natural
  number.  `Types` does not bound the credits: the bounds come out of the sum.
* `CreditsAreExact`: `CreditsAccounted`, as a consequence.
* `NoMailboxOverflows`: no more requests are posted and not copied than a
  mailbox has slots.  This is the guard of `Put` in `RequestChannel`.

It goes on from there to the requests themselves.  The invariant `Channelled` has
three parts besides `IInv`.

* `OnePlace`: at its client a request that was sent is in one place: posted, in
  the resend queue, or being executed, from the head of that queue or before it
  is put there.  So it is posted once.
* `InOrder`: the client counts the slots it has written, the server the requests
  it was told of, and no message carries an index.  `SlotsCounted` says that the
  n-th request was posted to slot n modulo the size of the mailbox, `Behind` in
  which order the counts follow each other.  What is not yet copied has its
  credit taken, so by `IInv` the counts are less than a mailbox apart, and
  `MailboxHolds`, that these requests are still in their slots, survives the next
  posting.  `Backlog` gives each entry of the backlog the number of its request.
* `QInv`: what is in an element that the server may fill next has been received
  by the application (`FreeIsReceived`).
* `RequestsAreKept`: `KeptUntilReceived`, as a consequence.
* `ConnectionsAreChannels`: every step of `GniMailbox` is a step of
  `RequestChannel` under the mapping, or a stutter.  Posting is `Put`, whose guard
  is the bound on credits; copying is `Take`, which takes the first that was put
  because of `MailboxHolds`.

`NntiProofs` is about `Nnti` and `Registration`, for any threads, buffers,
handles, memory and transports.  It assumes of the constants that memory is a
non-empty sequence of segments, that allocated memory is one segment, and that
there are finitely many buffers.  The API lets callers do things that go wrong
(`Habits`), and each theorem says which of them it leaves out: `Careful` callers
do not call after an init that has failed, and do not start MPI a second time;
`Orderly` callers do not register a buffer that is still in the table, nor
segments that are registered, call from several threads on Gemini only, where
there is a lock, and register memory of overlapping extent on InfiniBand only.
The run `library` has habits that are both, and its `Habits` allow everything else.

* `CallsStayOpen`: `CallsAreOfAnOpenTransport`.  A thread that opens or closes
  is alone (`Alone`), and what is marked and has opened is up until it is
  closed (`OpenIsUp`), but for MPI's flag, which is never reset.
* `RegistrationIsInductive`: the invariant `RegInv`.  It has to say what each
  thread has read on its way through the table and that it is still so
  (`Found`), which needs that one thread at a time is between looking and
  writing (`Excl`), and that the buffer it works on is its own (`Own`).  `Counted`
  says that `ref_count` is the number of buffers that are registered with a
  handle or about to be; `Tabled` and `Names` relate the table, the handles and
  what buffers hold; `Same` and `Sole` what memory in use may have in common.
  `Regions` says which regions are pinned.
* `RegisteredStaysPinned`, `CountsStayTrue`: the two properties of the run, as
  consequences.
* `NothingAborts`: no assertion fails and no freed handle is used, which is the
  part of `CallsReturn` that is about safety.

`IbConnectProofs` proves `EstablishedIsReady` for any processes, threads, number
of sockets and habits of callers, those the run leaves out included; it assumes
that `MaxSockets` is a natural number.

* `Inductive`: `IInv` holds.  The property relates the two ends by what they
  wrote: `HeardOrWaits` says that an end is ready only if the other has written
  that it is, or a thread is about to read it; `WordIsTrue` that what was
  written stays true.  Both need that a word is not taken back, which is so
  because the queue pairs of an end are created by one thread and before
  anything else is written (`CreatesFirst`, `FreshIsUntouched`).
* `ReadyAtBothEnds`: the property, as a consequence.

For `MapsAgree` and `PeersReachEachOther` it assumes, besides that a thread is of
one process (`ThreadsAssumption`), that callers are `Orderly`: no `reconnect`, no
`twice`, and of two processes only one connects to the other.  Each is needed:
TLC finds `MapsAgree` violated with either habit, and when two processes with two
threads each connect to each other at once, which makes two sockets and leaves
one end out of a map.

* `MapsAreInductive`: `MapsInv` holds.  Its core is `OneSocket`: of the sockets
  from one process to another one is in use, that is found in a map, or held by
  a thread, or waiting to be accepted.  A client takes a new one when neither
  side finds a connection; a server that has accepted an older one and not
  entered it yet has its client waiting (`ClientWaits`), and no other thread of
  that client is then about the same peer (`OnePerPeer`).  `Entered` says what
  is found while a call is under way, `KnownIsOpen`, `OpenIsKnown` and
  `QpnIsKnown` what is found between calls; so `del_conn_peer`, which looks for
  the connection anew after it has been closed, takes out that one.
* `MapsStayTrue` and `PeersFindEachOther`: the two properties, as consequences;
  the ends that two processes find are those of one socket.

`WorkRequestsProofs` proves `CompletionsFindTheirWorkRequest` for any finite set
of threads, any transfers and buffers, and any number of failures and
cancellations, and also, other than the run, for memory that is given out again
after it was freed (`Reuses`).  Keys are counted from 0.  The exception in the property
is the defect that `first_key` shows.

* `KeysAreInductive`: `WInv` holds.  The property speaks of completions in the
  queue only; a chunk is there after it was made and posted, so
  `ChunksAreLinked` says of chunks at all three places that their key is entered
  and names their work request, until its wait returns.  The key stays because
  keys are entered once, which they are as they come from a counter that is above
  all of them (`KeysAreCounted`), and because a wait that returns takes out what
  names its own work request, or key 0 for a segmented one: `OwnKey`, and `Apart`, by which
  no other transfer under way has that memory.  `Finds` has the exception: key 0, once it
  has been taken out (`ZeroErased`), and as the counter is above it, it does not come back.  With `Reuses` a late completion of a cancelled
  transfer may be counted for another, which breaks `MovesWhatIsNamed` but
  takes no key from anyone.
* `CompletionsFindTheirs`: the property, as a consequence.

`MpiRequestsProofs` proves both invariants of `MpiRequests`, for any ranks,
requests, puts and slots and any lists of work requests to wait for, under the
restrictions given above for the run: `OneByOne` says that `waitall` is for sends
and that the queue is waited for alone, and `RoomForAll`, for the slots only,
that `Window` is not above the number of slots.  Each is needed: TLC finds both
properties violated when the queue is in the list of a `waitany`,
`HandlesAreLive` with a put in that of a `waitall`, and `HeldIsIntact` with a
`Window` of one more.

* `HandlesAreInductive`: `HInv` holds.  A wait for several leaves completed
  handles in the work request, freed; they are not tested again as the
  work request is complete then (`Handled`), which it is only while its wait is
  about to finish it (`Completing`, `Finishing`), so that no wait begins with one
  that is complete (`Testing`).
* `HandlesStayLive`: `HandlesAreLive`, as a consequence.
* `SlotsAreInductive`: `SInv` holds.  `EachPostedOnce` says that each slot either
  has one receive posted or is full, and `FullAreApart` that full slots have each
  a request of its own, which its client counts as under way.  The slot that the
  server has been told of is neither safe nor full: its receive is posted again
  before the wait returns.  But it is posted last (`HeldIsLast`), so to write over
  it all others must be full; with the one that is held and the one that arrives
  these are more requests than slots, against `WithinWindow`.
* `HeldStaysIntact`: `HeldIsIntact`, as a consequence.

`MpiRdmaProofs` proves `RequestHandleIsUnique`, `OneEventPerTransfer` and the safety
part of `ImplementsOneSided` for any ranks, buffers, puts, gets and timeouts, if
each rank has one thread (`OneThread`), as in the run.  TLC finds
`RequestHandleIsUnique` violated with two threads that wait at a target: while one is about to handle a
completion, the other handles it too and starts the data, and the first then takes
the work request for done with its receive still posted (`nnti_mpi.cpp:1599`).

* `TransfersAreInductive`: `RInv` holds.  `OneEach` gives an active request one
  send or one receive, and an inactive one neither.  A request is started when
  the phase of its work request says so, and `Inactive` relates the two: a target
  that takes commands has no data under way, one that moves data no command.  A
  target answers a get under the port the command names, so `Commands` says that
  what arrives in `cmd_msg` was sent as a command, and `Queued` that the progress
  engine of a rank finds its own work requests only: the thread of the rank is in
  one call, and while that is about one of them (`InCall`) no other rank changes
  it.  `NoRequests` is the restriction of the model to an empty receive queue.
* `HandlesStayUnique`: the property, as a consequence.
* `DataStaysPaired`: `RInv /\ DInv` holds, under `ToldApart` besides.  It says
  that operations differ in the places they copy from or to, which is
  how the history variable `moved` knows them, and that two gets of a rank into one buffer
  from one peer are from one buffer of the peer, the use whose answers are swapped
  otherwise (1103).  `MCMpiTransport` assumes both, so TLC sees that the run is such a use.
  That the right data lands is not inductive: tags name buffers, not operations, so
  the invariant must say why first in, first out is enough.  `Messages` and `Receives`
  list what can be under way, and for which operation.  Between the match of its
  command and of its data an operation is `Taken`; a target has at most one of
  these and its `cmd_msg` is that command (`Served`).  A rank sends the data of puts in
  the order of their commands (`PutsInOrder`), even while a put is between its
  two sends (`Midway`), and posts the receives of gets in that order (`GetsInOrder`,
  there receives come first); so the data or receive that the matching picks is that
  of the operation whose command was taken.  `Through` and `CommandFirst` relate
  the requests to what has `Landed`.  By `Known` the receive of a target's
  next command is posted, or matched, or being handled in a wait.  `Complete` says that what is done has landed,
  `Counted` is the event count with what makes cardinalities add up.  `TransferIs`
  and the lemmas for `TakesCommand`, `TakesPut` and `TakesGet` are the heart of it.
* `EventsAreCounted`: `OneEventPerTransfer`, from `Counted`.
* `TransfersAreOneSided`: the initial state is one of `OneSided`, and
  each step is one of its steps or none (`Step`, `StepIsOneSided`): an operation
  starts with its first message or receive, lands when its data is matched, and is
  complete when its wait frees it.

Only model-checked are `MpiAtomics` with its refinement of `RemoteAtomics`, and `Transports`
with `RequestsReceivedOnce`, `EventsFollowData`, `ReleasedIsQuiet` and its refinement of
`OneSided`; `MovesWhatIsNamed` of `WorkRequests`, which sums lengths over sequences of
segments and would need induction over data; and all liveness, that of the
refinements included, which TLAPS cannot handle (nor `ENABLED`).  No module uses recursion.

## Not modelled

`PROJECT.json` lists all components.  Left out for good: printing, parsing of
URLs, logging, timing, tracing and the build, which have no protocol; the XDR
declarations, from which code is generated.  MPI errors end the job, because the
error handler that would return them is commented out (`nnti_mpi.cpp:405`).
Exhausted memory is modelled in the pool only; elsewhere the code asserts or
goes on with a null pointer.  The build option of work request pools, the
acknowledgements of `use_rdma_target_ack`, which is off by default, and the
receive queue of InfiniBand are to be done.

## Plan

Done: the buffer pool; the API with registration; puts, gets, atomics, requests
and waits of the MPI transport; connections, progress engine and work requests
of InfiniBand; requests and work requests of Gemini; Portals, DCMF and PAMI.
To come, in this order:

1. InfiniBand's receive queue, pools of work requests and RDMA acknowledgements
   (`ACK_COMPLETE` does not count as complete); Gemini's connections;
   `waitany` and `waitall` on top of the progress engine.
2. `GniMailbox` with several sending threads per client, which share the result
   of the remote operations (`nnti_gni.cpp:6727`) and draw slots in another
   order than they post (6784); with postings that fail after a credit was taken
   (6800); with several work requests for the queue (2863).
3. Unregistering on MPI with requests pending, in `MpiRdma` and `MpiRequests`.
4. Failing sockets in `IbConnect`, and what `NNTI_ib_connect` makes of them.
5. Proofs: the refinement of `RemoteAtomics` by `MpiAtomics`, whose server pairs
   commands and answers as `DInv` does for data; the invariants of `Transports`.
