# WebCM in TLA+

WebCM boots a RISC-V Linux in the browser. `webcm.cpp`, compiled to WebAssembly,
runs the emulated machine; inside the machine `https-proxy` accepts the HTTP and
HTTPS connections of every program and forwards each request to the browser. This
directory models the parts of that system that keep state and can go wrong in an
order nobody tried, checks them with TLC and proves the main results with TLAPS.

The state of the work: every component of `webcm.cpp` and of `https-proxy` is
modelled, checked and proved about. Every safety property of the runs is a theorem but
for `RepliesReadBack`, which rests on a recursive definition, and so is the refinement of
`FetchService` by `FetchPath`. Liveness is checked by TLC; its halves that speak of states
and steps are proved for the sessions and the DNS servers. What is left out is at the end.

## The system

| Component | State it keeps | Operations | What makes it correct |
|---|---|---|---|
| Host runtime (`webcm.cpp:96-322`) | the table `fetches` from uid to `fetch_object`, the browser's fetches, the registers and memory of the guest | the run loop, three soft-yield calls, two fetch callbacks | a callback never meets a freed object; no use of a closed fetch; what a poll waits for stays; no wait is endless |
| Guest fetch client (`https-proxy.cpp:88-184`) | locals of `handle_request`: uid, request, response, body | `rdcycle`, three yields, response or 400 | each request is fetched once and answered with its own response; the body fits its buffer; nothing is leaked |
| Certificate store (`cert_store.cpp`, SNI callback `https-proxy.cpp:660-674`) | CA in memory, cache of leaves, five files | load, create, save, install, issue | key belongs to certificate; leaves verify; "up to date" is true; the mutex is locked once |
| Sessions (`https-proxy.cpp:217-383, 677-778`) | connection, read buffer, request | accept, detect TLS, handshake, read, respond, shut down | no byte is lost, repeated or parsed undecrypted; each session writes its own response; idle peers do not keep others out |
| DNS answer (`https-proxy.cpp:390-488`) | none (pure) | parse a query, write an answer | reads stay inside the message; the answer decodes to the question and the address |
| DNS servers (`https-proxy.cpp:490-655`) | one receive buffer per socket, the peer | receive, answer, accept | each query is answered once, whole, to its sender; no client keeps the others from theirs |
| Text conversions (`https-proxy.cpp:96-134, 174-183`, `webcm.cpp:136-147, 190-210`) | fixed character arrays | `strsvcopy`, the vector of C strings, splitting of header lines | what fits its array arrives unchanged, in order; the rest is cut, never run together |
| Proxy start-up (`https-proxy.cpp:782-842`) | none | arguments, `ensure_ca`, start the servers | one process serves an address; nobody is served before all of it is there |
| Host start-up (`webcm.cpp:41-63, 257-298`) | the offset of the next chunk | configure, decompress | the machine runs with both images, byte for byte, or not at all |
| Terminal page, Dockerfiles, `skel`, miniz | | | not modelled: no protocol of their own, or vendored |

How they interact. The guest executes the soft-yield instruction with (type, uid,
buffer) in a0, a1, a2; `cm_run` breaks and `handle_softyield` reads and writes the
guest's registers and memory (calls through shared state). The browser calls
`on_fetch_success` or `on_fetch_error`, with a raw pointer to a table entry, but only
while the program is in `emscripten_sleep`. A session calls `handle_request`
synchronously and so blocks the only thread of the proxy; a poll blocks the whole
machine. The TLS library calls the SNI callback during a handshake, and it calls the
certificate store, whose files the clients of the guest read.

Hard behaviours: callbacks between the steps of a call that keeps an iterator;
several guest processes with one table on the host; a process that dies between two
yields or two file operations and is started again; files emptied before they are
written; waits without a timeout. `PROJECT.json` lists each of them at its line, with
the property that covers it or the reason why none does.

## The modules

| Module | What it is |
|---|---|
| `FetchHost` | the host, with an open guest: any order of yields, on well-formed request buffers |
| `HostMain` | all of `main` of `webcm.cpp`: boot, then `FetchHost` |
| `FetchService` | abstract: what the network path promises to the HTTP clients |
| `FetchPath` | `FetchHost` with the proxy's `handle_request` as guest; implements `FetchService` |
| `Headers` | how text crosses between guest and browser |
| `CertStore` | the certificate store and its files |
| `DnsResponse` | `build_dns_response`, byte by byte |
| `DnsResolver` | `DnsResponse` with a decoder of DNS messages, which reads the replies |
| `DnsUdp`, `DnsTcp` | the two DNS servers |
| `ProxySessions` | listener, detector and sessions, with `FetchService` as `handle_request` |
| `ProxyMain` | `main` of `https-proxy.cpp` and the constructors of the servers |
| `MC...` | small instances for TLC |
| `FetchHostProofs`, `HostMainProofs`, `FetchPathProofs`, `HeadersProofs`, `CertStoreProofs`, `DnsProofs`, `ProxySessionsProofs`, `ProxyMainProofs` | theorems |

How they are composed. `HostMain` and `FetchPath` extend `FetchHost`. `FetchPath`
implements `FetchService`, and `ProxySessions` has an instance of `FetchService` for the
one call it makes of `handle_request`, so that what the sessions rely on is what the path
is shown to provide. `DnsUdp` and `DnsTcp` take from `DnsResponse` only which messages are
answered; `ProxyMain` takes from `CertStore` only whether `ensure_ca` succeeds, and from
the servers that they have one operation pending.

`map` in `PROJECT.json` gives the lines behind each definition. Operators named `Mut...`
are faults that the code does not have: each property is checked to fail when the fault
replaces the definition that follows it. They are not part of any specification.

### FetchHost

`host` is where `main` is: "run" (in `cm_run`), "handle" (in `handle_softyield`), "wait"
(in the loop of `POLL_RESPONSE`), "sleep" (at the end of an iteration), "halted",
"failed" (stopped by `handle_softyield`). `fetches[u]` is "absent", "waiting" (an object whose `done` is false) or "done";
`net[u]` is the `emscripten_fetch_t` of uid `u`: never made, pending, complete with an
outcome, or closed. `mem[g]` is what the buffer at a2 holds.

One action per way through the code: `Softyield`, `Slice` and `Halt` are the ways
`cm_run` ends, `Resume` the next iteration. `RequestDuplicate`, `RequestStart`,
`PollUnknown`, `PollWait`, `PollRespond`, `BodyCopy` and `Fault` are the cases of
`handle_softyield`, each from its condition to its `return`. The callbacks are enabled
only in "sleep" and "wait": JavaScript has one thread. `BodyCopy` does not look at `done`,
as the code does not, so a guest that asks for the body of a fetch in flight aborts it.

The guest may yield with any type and uid, in any order. The buffer of a REQUEST, though, is
one that `fill_mmio_req` can make: at most 64 headers, every string ended. The host trusts both
(`webcm.cpp:137` loops up to `headers_count` unchecked), and what it would do with
another buffer, which only a program that is not the shipped client hands over, is undefined
and not modelled. `AskedAsRequested` in `Headers` shows that the client's buffers are such.

An outcome is a status and a length. A fetch that failed has status 0 and no body
(`OutcomesAssumption`): `XMLHttpRequest` clears the response on a network error, and
`handle_request` looks at the status only when the length is 0. Nor is there a body with a
status that has none (`NullBodyAssumption`), for which Beast would refuse to prepare the
response. `Statuses` are the codes that Beast lists: `int_to_status` (`https-proxy.cpp:174`)
turns any other into 0, and that is what the client is sent; `FetchService` promises a status
only as far as that. How headers are split, cut to 255 bytes and limited to 64 is in `Headers`.

### HostMain

`pc` is the step of `main`: "create" (`cm_create_new`), the image that is being put into
memory, "run" (the loop of `FetchHost`) or "exited". `stream` gives each image a length
and an end, whole or broken: the images are made by the build, and `main` checks what it
gets. `Put` is one call of `uncompress_cb`, a dictionary or what is left of the image, at
`offset`; `memory` remembers which byte of which image is where. `Failed` is both ways to
`exit(1)`: `cm_write_memory` refuses the range, or the stream ends in an error.

### Headers

One request and one response text pass through the arrays of `yield_mmio_req` and
`yield_mmio_res`, a header at a time: `FillUrl`, `FillField`, `Filled` (`fill_mmio_req`),
`Fetch` (the C strings the browser reads), `SplitLine`, `SplitEnds` (the loop on the
response headers), `Respond` (`res.set`), `Responded` (`res.keep_alive(false)` and
`res.prepare_payload()`). `strsvcopy` is modelled by what it leaves in the
array, so that a missing NUL would be seen by `CString`. Sizes are constants: 4096, 32, 256
and 64 in the code. `AskedAsRequested` gives each header that is passed on the place it has
among them (`Place`).

`set`, `keep_alive` and `prepare_payload` do to the fields what Beast's functions do, and are
marked external: `set` takes out the field of the same name, in upper or lower case (`Same`,
over the table `Lowercase`), and puts the new one last; `keep_alive(false)` takes
"keep-alive" from Connection and adds "close" for HTTP/1.1, and takes both away for 1.0;
`prepare_payload` sets Content-Length to the length of the body and takes a last "chunked"
from Transfer-Encoding; a field left without a token is erased. So
`ResponseAsReceived` gives the client the browser's fields at their places, but for these
three, which come last and are the proxy's own (`Frame`). A name Beast knows, a token of
a value and the number of bytes in the body are one character each, and the commas between
tokens are left out. That `prepare_payload` throws for a status that has no body is
`NullBodyAssumption` in `FetchPath`: the browser gives such a response no body.

### FetchPath and FetchService

`FetchPath` replaces the open guest by a set of proxy processes. The machine starts one
(`webcm.cpp:266`); the command line takes an address, so a user may start more. `pc[g]`
is the place in `handle_request`, `uid`, `req`, `head` its locals, `reply` the response it
last returned. `cpu` is the process in the middle of a yield: the kernel saves registers
on a context switch, so its result in a0 is its own, and the program that executed the
instruction is the one that continues. `mcycle` is the counter `rdcycle` reads; only its
order matters, so it moves by one at each reading and `Uids` bounds it.

A process may die at any point of guest code (`Die`: the build has no exceptions, so
anything thrown aborts) and be started again (`Restart`). It cannot die while the host
serves its call, because the guest is frozen. The entry it leaves in the table is an
orphan, which nothing in the code frees; `orphans` remembers which those are.

`FetchService` knows nothing of yields, tables or uids: a request is accepted, sent to
the browser once, settled, answered. The refinement mapping (`JobOf`, `ReplyOf`) reads how
far a request has got from the state of its fetch in the browser, so an answer made from
another request's fetch, a second fetch of the same request or a 400 without a failed
fetch is a step the service does not have.

### CertStore

`disk` holds five files: CA certificate, CA key, the copy in the trust store, `cert.pem`
and the link, each with its content and modification time in whole seconds. Every operation
on a file is a step. `Put` writes one: opening for writing empties the file, closing writes
it (the contents are smaller than a stdio buffer, so nothing reaches the file in between).
`load_ca` takes four steps: it opens the certificate, opens the key, reads the certificate,
and reads the key, after which both parse or not; the copy to the trust store reads the
certificate after it emptied the trust store's. What was read is in `content`. Between any
two steps another process may write. Only the three `stat` calls of `UpToDate` are one step.
`pc[p]` is the next operation of a process. A key pair is a member of `Cas`; a certificate
and a key match when they come from the same pair; `create_ca` takes a fresh one. A
process may be killed at any point (`Die`), and any operation whose failure the code
notices may fail (`GiveUp`, `SkipFile`). `issued` remembers every leaf handed to a client,
`torn` that a process died with `cert.pem` emptied and not written.

`issue_for_host` takes `mutex_` and calls `ensure_ca`, which takes it too. The model has
that path (`"relock"`); `NoRelock` says that it is not taken.

Nothing in the code keeps two processes out of `ensure_ca` at once, and `Spec` lets them:
a proxy started by hand runs `ensure_ca` before it finds the port in use. Then a process can
read the certificate of one pair and the key of another: it reads the old certificate next to
an emptied key, and the key after another process has saved a new pair; or two write their
pairs over each other. `CreateApart` says that while one process creates and saves
a CA no other creates one, nor has opened the certificate in `load_ca` and not yet come to the
end of it. `StartApart` says, besides, that no two create or install one at once;
`ApartSpec` are the behaviours of `Spec` that keep to `StartApart`. Without these conditions
TLC finds a process with a mixed pair.

### DnsResponse and DnsResolver

`DnsResponse` is the walk of `build_dns_response` over `message`, whose buffer is longer
than what was received: `RefuseHeader` and `Header`, then per question `Question`, the
labels of its name (`Label`, `Pointer`, `NameEnds`), `NoType` or `Type`, and `Finish`.
`read` holds the indexes of the buffer the last step looked at. The two oddities of the
code are there: the byte after a name is skipped when it is zero, whatever ended the name
(`AfterName`), and the pointer of an answer keeps the low byte of the position (`Answer`).

`DnsResolver` adds what a resolver does with the reply: `Name`, `QuestionAt`, `AnswerAt`,
`Questions` and `Answers` read a message by the format of RFC 1035, and were written
without looking at the code. `RepliesReadBack` compares what they read in the query with
what they read in the response.

### DnsUdp and DnsTcp

`DnsUdp`: the socket's `queue` in the kernel, the one `recv_buffer_` and
`remote_endpoint_`, and the completion `handler` that is ready. `Received` and
`ReceiveFailed` complete the pending receive, `OnReceive` runs the handler, answers and
asks for the next datagram. Resolvers send their query until it is answered; a full queue
drops it; other programs send what is no query. `owed` counts, for each resolver, the
queries the socket took less the replies it was sent. A send completes at once: `asio`
tries it before it returns, and the loopback takes a datagram without waiting.

`DnsTcp`: `phase` is the operation a session has pending, `announced` the length the client
claims, `sent` what it has sent, `filled` how far `recv_buffer_` is written. A client sends
its query in pieces of any size, one byte of the length among them; a `Chatty` one goes on
with a second query, which the server never reads, so that the close at the end of the
session resets the connection and may cost the client its response (`OnWritten`). A session
without a pending operation is gone.

### ProxySessions

Everything in the proxy runs on one thread: an action is one completion handler, and none
runs while `handle_request` is in another (`Ready`). `phase[c]` is the pending operation of
the session of `c`, "handle" inside `handle_request`. Bytes are units, the parts of a TLS
handshake and of a request, and what may follow or replace them. `rcvd` counts those taken
from the socket; they pass through `buffer` (`buffer_`) and, under TLS, `engine` (the
`ssl::stream`), and end in `consumed`. `Receive` takes any part of what has arrived.

`OnDetectSsl` and `OnDetectPlain` hand the socket over, `OnHandshake` drops from `buffer_`
what the detector read, `OnRead` and `SendResponse` enclose the call, `OnWritePlain` and
`OnWriteSsl` are `do_eof`, `OnReadEnd`, `OnError` and `OnShutdown` the other ends. A close
with unread bytes may reset the connection, and the client may lose its response (`Close`).
`OnAcceptError` is an accept that fails because `MaxOpen` descriptors are taken: the
connection stays in the backlog. `Die`, `Restart` and `Stop` are those of `FetchService`.
Clients that are not `Careless` send their script, read and leave.

The certificate a handshake presents is in `CertStore`. Whether there is one is in the hello:
`sni_callback` returns OK to a hello that names no host, and when `issue_for_host` gives it
nothing, and the context has no certificate of its own, so that the handshake of a client
that did nothing wrong then fails (`Bare`, `Broken`). A `Request` is one the HTTP parser of
Beast accepts; an upload over its limit of 1 MB ends the session like any other junk.

### ProxyMain

`pc[p]` is the server that the `main` of process `p` makes next. The UDP socket's
constructor throws when it cannot bind, which aborts (`DnsUdp`); the other three report the
error and are run all the same (`Broken`): their accept fails at once, and again whenever
it is started again. `ready[p]` is the queue of handlers of the `io_context`, which nobody
runs before `ioc.run` (`Serving`). Other programs may hold ports. `resolved` is the process
whose address a program of the machine was last told. `Exit` covers every end: bad
arguments, no CA, the abort, a kill.

## The runs

| Run | Instance | What it shows |
|---|---|---|
| `host_main` | image lengths 3, 4, 6 with memories of 4 and chunks of 2; 1 buffer, 2 uids, 2 requests, 4 outcomes; `FairMainSpec` | `BootsWhole`; `TableTracksOpenFetches`, `WaitKeepsTable`, `WaitEnds` for any guest |
| `fetch_path` | 2 processes, 2 uids, 2 requests, 3 outcomes, one with a status Beast does not list; `FairPathSpec` | `YieldsSucceed`, `BodyFits`, `NoLeak`, `ImplementsService`, `EveryRequestAnswered`, `EveryFetchFreed` |
| `headers` | arrays of 5, 3 and 3 characters, 3 headers; lists of up to 5 fields, texts of up to 4 lines, 800 of them with fields that frame the message under both versions of HTTP | `AskedAsRequested`, `ResponseAsReceived` |
| `cert_store` | 2 processes under `StartApart`, 2 hosts, 3 key pairs, 3 seconds | `CaPairMatches`, `IssuedVerify`, `NoRelock`, `UpToDateUnlessTorn` |
| `cert_store_torn` | 1 process, 1 host, 2 key pairs, 2 seconds | a counterexample to `UpToDateIsInstalled` |
| `dns_resolver` | bodies of up to 7 bytes over {0, 1, 192} under 3 counts of questions, short headers, and 112 queries of one question; `FairSpec` | `ReadsInMessage`, `ResponseFits`, `Terminates`, `RepliesReadBack` |
| `dns_two_questions` | 2 queries of two questions | a counterexample to `QuestionSectionCopied` |
| `dns_udp` | 2 resolvers, 2 kinds of other datagrams, a queue of 3; `FairUdpSpec` | `EachQueryAnsweredOnce`, `LookupsEnd` |
| `dns_tcp` | 3 connections, 1 careless and 1 chatty, 2 descriptors, a buffer of 4; `FairTcpSpec` | `OnlyWholeQueries`, `ClientsAnswered` |
| `proxy_sessions` | 2 careless connections, 5 scripts, one of them a TLS hello without a certificate, 2 outcomes | `BytesInOrder`, `OwnResponse`, `NoResetOfSingleRequest` |
| `proxy_sessions_live` | 3 plain connections, 1 careless, 2 descriptors; `FairSpec` | `PatientClientsServed` |
| `proxy_main` | 2 processes; `FairSpec` | `OneServes`, `ResolvedIsComplete`, `ReadyIsServed` |

Most runs also check a type invariant, which says more than types where the code has
arrays or queues with a limit: `Headers` that no loop writes beyond its array, `DnsTcp`
that no announced length does, `ProxyMain` that the queue of handlers does not grow. The
largest runs are `cert_store` (0.4 million states), `proxy_sessions` (0.3 million),
`dns_tcp` (0.3 million, a minute), `fetch_path` (0.13 million, a minute),
`proxy_sessions_live` and `host_main` (70 thousand); the others take seconds.

Bounds.
 * Host: two uids let one fetch wait while another settles, is polled or is closed; the
   handler never relates more than the uid it was given to the others. The four outcomes
   are the combinations that differ to the code: through each callback, with and without a
   body. The image lengths end inside a chunk, fill the memory and exceed it.
 * `fetch_path`: two uids are two requests, one in each process, or one before and one
   after a restart; two names of requests, so that an answer to the wrong one is seen. The
   safety results, the refinement among them, do not rest on these bounds: they are proved.
 * `cert_store`: of two processes one serves while the other starts, dies and starts again;
   three key pairs are three starts that had to create one (each of the first
   two dies in a different place); three values of the clock give every order of three
   modification times, which is what `UpToDate` compares.
 * `dns_resolver`: seven bytes hold a name of one label or a pointer, type and class, and
   every part of them; 0, 1 and 192 are the bytes the code compares with. The queries have
   names of up to two labels, types and classes that are an address's in one byte only, and
   additional records. `BufferSize` is 36, enough for the longest of them.
 * `dns_udp`: a queue of three keeps two queries of one resolver with a datagram between
   them. `dns_tcp`: a buffer of 4 is two bytes of length and two of message, and the
   lengths 0, 2 and 3 are a message that is refused, one that just fits, and one too long.
 * `proxy_sessions`: two connections, since sessions share the thread and the listener
   only. `Careless` clients may stop anywhere. In the live run one of three never ends
   its session, so one descriptor serves the other two in turn; TLS clients are not in that run, whose states they
   would multiply by thirty.
 * `proxy_main`: two processes, proved for any number.

Deadlock is checked in all runs: `Off`, `Over`, `Done` and `Returned` stutter where the
system has stopped. Symmetry is used over model values that no definition orders, in runs
without liveness: hosts and key pairs in `cert_store`, connections in `proxy_sessions`.

Fairness, and why the code justifies it.
 * `FetchHost`, `HostMain`: the program keeps running (weak fairness of `HostStep`: the
   loops of `main` and of the poll have no other exit), and the browser settles every fetch
   (weak fairness of `Callback(u)`): the code sets `timeoutMSecs = 0`, so this is the
   browser's own timeout, and the liveness results say nothing of how long it takes. Weak
   fairness is enough for the callbacks in "wait" because the host stays there until
   the fetch is done. Nothing is fair about the boot.
 * `FairPathSpec` adds strong fairness of each process's steps: a guest is able
   to run only between two sleeps of the host, so its step is enabled again and again but
   not continuously; the Linux scheduler does not starve a runnable process. Nothing makes
   a process start a request, die or restart. Results are relative to the death of
   the process and to the end of the machine (`Halt`, `Fault`), which the properties name.
 * `DnsResponse`: the function goes on.
 * `DnsUdp`: handlers run; a receive that is tried again and again is not always the one
   that fails; a resolver that keeps asking finds room in the queue some time. It does not
   assume that other programs stop sending.
 * `DnsTcp`, `ProxySessions`: the `io_context` runs every ready handler; clients that are
   not careless send what they have to, read their answer and leave. Nothing is assumed of
   careless ones.
 * `ProxyMain`: the thread runs the queue of handlers, in order. That a broken acceptor
   does not starve the others follows from the order, not from an assumption on handlers.

### What does not hold

The trust store. `install_ca_to_trust_store` returns early with the comment "Already installed and up to
date" (`cert_store.cpp:259`) if three files exist and the copies are not older than the CA
certificate. It opens `cert.pem` for writing at line 290, which empties it, and
writes it at 293. A process killed in between leaves an empty file with a fresh
modification time, and every later start believes it is up to date: programs in the guest
trust no CA at all. `cert_store_torn` shows that behaviour. `UpToDateUnlessTorn` shows
that, while no two processes start at once, it is the only one: a death anywhere else, and a file that could
not be opened, are repaired at the next start. `UpToDateUnlessOneTear` is its theorem.

Several questions. The loop under "Copy question section and add answers"
(`https-proxy.cpp:419`) writes an answer right behind its question. In a DNS message all
questions come before the first answer, so a reply to two questions does not read back;
`dns_two_questions` shows it. Resolvers send one question per query, for which
`RepliesReadBack` holds.

Seen while modelling, part of the models, and contradicted by a comment of the code, but
without a run of their own:
 * after a name that ends in a compression pointer, type and class are read one byte late
   (`https-proxy.cpp:436`; `AfterName`);
 * "use position in response" (`:451`) keeps the low byte of the position, so the answer to
   a question behind byte 255 has another name (`Answer`);
 * the calls under "Set the timeout." (`:236, 344, 368, 687`) are commented out: a client
   that goes silent keeps its session (no action ends it in `ProxySessions`);
 * "the connection is closed gracefully" (`:319`): not when a second request has arrived,
   whose unread bytes make the kernel reset the connection (`Close`);
 * `strsvcopy` cuts a url, a header or a value without an error (`Headers`).

## The proofs

All theorems hold for every value of the constants under the named assumptions of the
modules: `OutcomesAssumption` (above), `UidsAssumption` (cycle counts are natural
numbers), `NobodyAssumption`, `CasAssumption` (marker values are not members of the sets),
`ClockAssumption` (a positive bound of the clock), `BufferSizeAssumption` and
`MessagesAssumption` (a buffer of 12 to 512 bytes, a message no longer than it),
`ResponseIpAssumption` (four bytes), `QueryAssumption`, `QueueSizeAssumption` and
`NoiseAssumption` (a query has a header, the queue a place, and the other datagrams are no
resolver's query), `RecvBufferSizeAssumption` and `LengthsAssumption` (the buffer holds more than the
length, and only messages that fit are answered), `ScriptsAssumption` (clients send units), `NoneAssumption` and
`OtherAssumption` (marker values again), and both `SizesAssumption`: the arrays of a request
have a place at least; the memories of the kernel and of the root file system do not
overlap. `CharsAssumption` and `ExchangesAssumption` say that no NUL is in a request
or in the response headers, which the HTTP parser refuses and a C string cannot have. None
of them limits the number of processes, uids, requests, fields, images, hosts, messages,
resolvers or connections.

`FetchHostProofs`. `HostInv` is inductive: the types, the agreement of table and browser
(`TableTracksOpenFetches`), the entry under a poll (`WaitedFetchStays`), and what a handler
relies on, that a buffer of a REQUEST holds a request and that a complete fetch has an
outcome. `HostForm` states the forms a host step can take, so that the same lemmas serve
the open guest and the proxy. From `HostInv` follow `TypeCorrect`, `TableSafe`, `WaitSafe`
and, as an action property, `WaitStable`.

`HostMainProofs`, for memories, dictionaries and images of every length. While an image is
put, the write position is right behind what has been put of it, for which there was room,
and the memory holds that and nothing else (`Putting`); behind the end of its stream, the
image is whole (`InMemory`). `BootInv` says which of the two holds of which image at
each step of `main`, and is inductive because a chunk is written where the last one ended (`PutMore`) and
no address belongs to both images (`Apart`): `RunsWholeImages`. `BootLeft`, the bytes still to
be put and the steps between, shrinks with every step of the boot (`BootDescends`). `MainRunsHost`: `MainSpec`
implements `Spec` of `FetchHost`, so that its theorems hold of the whole program.

`FetchPathProofs`. `YieldsSucceed` is not inductive: that the next yield succeeds depends
on what the earlier ones left in the table. `PathInv` adds who owns the processor
(`CpuOwner`); that a uid not yet read has no fetch, that a request in progress owns its uid
alone and is not an orphan (`UidsFresh`); that every entry has an owner or is an orphan
(`NoLeak`); and, per place in `handle_request`, what the guest knows of its fetch between
two yields (`BetweenYields`) and what the host knows of the call it serves
(`DuringYield`). The core of the argument: uids are strictly increasing readings, so
no two requests share an entry; the only steps that change an entry are a callback,
which keeps it in flight, and the owner's own calls. `NoSpuriousBadRequest`,
`BodyAlwaysFits`, `NothingLeaks` and `PathTypeCorrect` follow.

`PathImplementsService` is the refinement: the initial state of `FetchPath` is one of
`FetchService` under the mapping, and every step is a step of it or a stutter. Guest steps,
host steps and callbacks are matched one by one with `Accept`, `Send`, `Settle`, `Answer` and the
rest. Beyond `PathInv` it needs `RefInv`: every fetch that was started has the request it
was started for (`FetchesNamed`); while a request, a response head or a body is on its way
between the buffers of guest and host, the buffer holds that of the process's own uid
(`Carried`); and a reply names only fetches that were made (`ReplyStands`), so that no
later step changes what it means.

`HeadersProofs`, for arrays of every size, any request and any header text. `ReadBack` is the
lemma behind the strings: what `CString` reads of an array that `strsvcopy` filled is the
string, cut. Both lists of headers are stated by positions: `Lists` says that a sequence has
what belongs to each of a set of positions, in order, and nothing else. It is kept when a
position is added behind the others (`ListGrows`) and when one is taken out
(`ListShrinks`), and when a loop ends no entry there is room for is missing (`ListEnds`,
`PlaceInArrays`); the positions of a set take every place up to its size (`PlaceTaken`, by
the pigeonhole principle, as there is no induction). `AskInv` says so of the fields of the
request that are passed on: `RequestForwarded`. `AnswerInv` says so of the header lines of the
text, at each of its three stages: the loop stands at the beginning of a line and has the
pairs of the lines before it (`NextLine`, `Divided`); the arrays have all there is room for;
the response has the last of each name among the entries it was given, so that the one
`res.set` erases is found at its place (`RespondKeeps`). What the proxy adds behind them is the
tail of the list (`Tailed`): a name is found where the list has it (`NamedAt`, `ValueRead`), it
is taken out without moving anything else (`OthersLeft`), and its new value goes to the end
(`TailSet`), which for the three fields of the frame gives `RespondedKeeps`. That needs
`LowercaseAssumption`: their three names differ in more than case. `ResponseForwarded` follows, and
`TypeCorrect`: neither loop writes beyond its arrays, whatever the text of the response.
`LoopsLeft` counts what the three loops have left to do; every step leaves less (`LoopsDescend`).

`CertStoreProofs`. `TypeCorrect` and `NeverRelocks` hold for any number of processes, whatever
they do at once: a process serves only after `ensure_ca` set `ca_loaded_` (`LoadedByMain`).
`PairMatches` and `LeavesStayValid` hold for any number of processes too, in the
behaviours with `[]CreateApart`, and need that: two processes that find the disk empty together can
interleave their writes into a certificate and a key that do not match, and one that loads
while another saves can read half of each pair. It is a condition on
the moments when a CA is made, not on who runs: once one is complete on disk, processes
may start, load, die and serve as they like. The machine starts one. The strengthening, `StoreInv`, says
that a key on disk always has its certificate next to it (`SavedInOrder`: the certificate
is written first, and nothing is written once both parse), so that nobody has a CA while one
is made; that what a process has read of the certificate is still what is on disk when it
reads the key; and that there is a key on disk before a leaf is issued (`LeavesVerify`).

`UpToDateUnlessOneTear`, under `[]StartApart`, is about the modification times, and needs
more than `[]CreateApart`: of two processes that install at once, one may empty the trust store
after the other has filled both copies, and die there. The times
look up to date when the copies are not older than the certificate, so the theorem needs that no
copy is made before its original is final. `InstallInv` says so: nothing but the system's
own `cert.pem` is there before the CA is complete, and what is copied later is not
older (`InOrder`); `cert.pem` is written only when the trust store has the certificate
(`PemLast`); and what a process is about to write is the certificate on disk (`Copying`). An
empty `cert.pem` is being written or was left by a process that died (`torn`).

`DnsProofs`, `build_dns_response`, for every message. The invariant relates `pos`, `q` and the lengths
of what was copied: a question takes at least five bytes of the message and gives at most
sixteen more than it takes, so the response is bounded by the buffer whatever number of
questions the header claims (`ResponseBounded`), and its length fits the prefix
of the TCP server (`LengthPrefixHolds`). Each step reads below `length`, but for the header
(`ReadsStayInMessage`). `StepsLeft` counts down: at one offset the walk asks for a question,
reads a name and then a type, and each turn of its two loops moves `pos` forward, so every
step leaves fewer (`WalkDescends`), and there are at most three for each byte of the buffer.
What a reply consists of is stated by offsets, without a decoder: `BuiltInv` follows each part into
`response` and says that nothing written later changes it but the two bytes of the count
(`HeaderBuilt`, `TypeAppends`, `FinishBuilt`). `ReplyInFull` is the result for a message
with one question: its number, the flags and counts of a reply, the question as it was asked,
and for an address the record with `response_ip`. It covers what `RepliesReadBack` says of the bytes,
for every name and length; that those bytes, read as a DNS message, mean the same question is TLC's.

`RepliesInFull` is the result for a message with any number of questions, answered or cut short.
`Laid` says of an offset of the message that everything before it has been copied question
after question: there are two functions of the number of a question, where it begins in the
message and how many records came before it (`LaidOut`), and at the place in the reply these
give stands the question as it was asked, followed, if it asks for an address, by a record
(`QuestionLaid`). A record names its own question in one byte, so the theorem says which
byte that is and not that it is always the question's offset. A name is what leads from label to label (`LabelsLead`)
to a zero or a pointer. Each question extends the functions by one (`TypeLaid`); the walk over a name
keeps what was laid (`NameLaid`); and the last step, which writes the count,
writes to two bytes that no question has (`FinishLaid`). `LaidInv` is this for `pos`, or for the
start of the question while its name is read.

`DnsProofs`, the UDP server, for any number of resolvers and any queue. What a resolver is owed is
counted by the places its query has in the queue (`AppendPlaces`, `TailPlaces`) and in the
buffer, so `EachQueryAnsweredOnce` needs from `UdpInv` that the buffer and the endpoint are
of the same datagram whenever a handler is ready, and that no receive
is pending then (`BufferMatches`, `Types`): one started while a datagram is in the buffer
would lose it.

`DnsProofs`, the TCP server, for any number of connections and any lengths. A session waits for a
message only if the message fits behind its length (`InBounds`), and no client sends
more than it has to (`Total`); `TcpTypeOK` (the buffer is not overrun) and `OnlyWholeQueries` are
inductive with that.

`ClientsAnswered` says that every careful client is answered; two theorems say what of it does not
depend on fairness. `ConnectionsDescend`: every step takes something from `ConnectionLeft` of
one connection - a phase of its session, bytes its client may send, its leaving - and
changes nothing of another, so that no connection is served forever, nor by the work
for others. `ServedWhenQuiet`: in a state where no handler can run and no careful client
can send, each careful client has what its query is due (`Due`), or waits in the backlog
while careless ones hold every descriptor; only a chatty one may have lost its answer. It needs that the acceptor never stops and that a
connection without a session is in its backlog (`Listening`), and what a client has got by
the time its session is in a phase (`Kept`); `ServerInv` is both with `TcpInv`.

`ProxySessionsProofs`, for any number of connections and any scripts. `ProxyInv` says that
while a session is inside `handle_request`, the call is for its request (`Calling`) - so
no two sessions are inside at once -, that whoever writes has a response of its own
(`Answering`), that the stream is encrypted from the detector on (`Streaming`), and that a
connection waits in the backlog once (`Waiting`). `SessionStep` does all handlers but
those that call `handle_request` and return from it.

`StreamInv` adds, for each connection, that the units taken from the socket are consumed or
in `buffer` and `engine`, in order (`Conserved`); how much each phase has consumed, from
nothing to a whole request behind its handshake (`Used`); and what the detector saw: a plain
session's first units are no TLS hello, an SSL session's are one (`Detected`). `BytesStayInOrder`
and `TypeCorrect` follow. For `SingleRequestsNotReset`: a close resets only when units are
left unread; a session that closes has consumed its request, the start of something that is
no request, or the whole stream, so that a client with unread units had sent more than
one request (`ClosedOnMore`).

The same is proved for `PatientClientsServed`, with `SessionInv`: the listener accepts as long as the process
lives, connections without a session wait for it, a call of `handle_request` is that of a
session (`Listens`), and what a client has got fits its phase (`Fate`). `SessionLeft` adds the steps of a session, with those of its call, the
units to be taken, decrypted and sent, and the leaving of the client. `SessionsDescend`: every
step lowers it for one connection and changes no other, but for a death, which ends the sessions there are, and the
restart and stop of the process, which touch none. `PatientClientsKept`, an action property: for a client that sends one
request and stays (`Patient`: in a TLS session, one whose hello got a certificate), the
result goes from waiting to answered, and nothing but the death of
the process resets it. `PatientClientsServedWhenQuiet`: when nothing is left to run,
no such client is in a session that did not answer it, and no client that stays although its
hello got no certificate (`Nameless`) is in a session at all: its handshake failed, which
frees the descriptor. The core is `CanMoveOn`: a session between
accept and request has taken less than its client may send, or has a handler to run, in each
phase, plain or TLS; `CanFail` is the same for a handshake that cannot succeed.

`ProxyMainProofs`, for any number of processes. `MainInv` says how far each process has
made its servers (`MadeInOrder`), that a listening server's port is its own
(`ListenersOwn`), that only a process in `ioc.run` was resolved (`ResolvedRuns`), and that
each server has at most one handler ready (`HandlersOnce`). A process behind the UDP port
owns it, and a port has one owner: `OneProxyServes`. The queue is an injection into the
four servers, so it has at most four entries: `TypeCorrect`.

Model-checked only: all liveness (`WaitEnds`, `EveryRequestAnswered`, `EveryFetchFreed`,
`Terminates`, `LookupsEnd`, `ClientsAnswered`, `PatientClientsServed`, `ReadyIsServed`), which
is out of reach of the prover; and `RepliesReadBack`, whose decoder is recursive. Of
`Terminates` the part that is about steps is proved, `WalkDescends`: what TLC adds is that
the walk always has a step to take. Of `ClientsAnswered` and `PatientClientsServed` the
measures and the states at rest are proved: what TLC adds is that the scheduler, the
browser and the careful clients do take the steps that `CanHandle`, `CanAccept`, `CanFetch`,
`CanSend` and the rest name. That these predicates are `ENABLED` of the actions under fairness,
which the prover cannot expand, follows from reading their guards.
`UpToDateIsInstalled` and `QuestionSectionCopied` are refuted.

## Not modelled

 * The terminal page, the Dockerfiles, the Makefile and `skel`: no state of their own. What
   they start, and in which order, is where `FetchPath` and `ProxyMain` begin.
 * miniz, but for the loop around its dictionary (`Chunk`, `Left` in `HostMain`).
 * Wording of messages, and the bodies of requests and responses beyond their length.
 * The configuration of the machine, but for the sizes of its memories.
 * Virtual memory: a buffer can be read and written or it cannot (`Fault`).
 * The kernel of the guest, the emulator, OpenSSL, Boost and the browser, except for what
   the code relies on, stated above. In particular a send on the loopback that does not
   complete at once: the UDP server frees its buffer then, and the reply is what the
   memory holds by that time.
 * Expiry of certificates, and a clock that moves backwards.
 * Errors the code does not look at when it closes a file (`BIO_free`, `close`).
