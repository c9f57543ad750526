# Verification of webserv

TLA+ models of the HTTP server in `src/`: a C++98 program with one process, one
`select()` loop, no threads, a directory of files it serves and changes, and CGI
scripts it forks.  `main.cpp` is named in the Makefile and is not in the
repository; the models take it that it reads the configuration with `Config`, makes the
servers with `WebServer`, constructs a `TcpServer` of them and calls `startListen`.

## 1. Inventory

| component | code | state | operations |
|---|---|---|---|
| event loop and connections | `startListen`, `acceptConnection`, first half of `checkRequest`, `sendResponse`, `handle_sigint` | `clientSockets[MAX_CLIENTS]`, `_requests` (descriptor -> answer), `readfds`/`writefds`, `_endserver`, `total_sent`; in the kernel: descriptors, backlogs, socket buffers | accept, read and answer, flush, close, shutdown |
| CGI calls | `handle_cgi_request`, `time_dif`, `ft_usleep` | the child, the pipe, `base`, `time`, the clock's first value (static) | fork, poll with `WNOHANG`, kill, read byte by byte, answer |
| upload | `handleUpload`, `handleMultipartRequest`, `checkBodysize` | the text so far (one copy for each stack frame), the file on disk | receive, recurse, refuse, store |
| routing and handlers | second half of `checkRequest`, `getServerUsing`, `getLocation`, `findMethod`, `extractCGIScript`, `autoIndex`, `handleRoot`, `handleFavicon`, `showUpload`, `handleFormulario`, `handleDelete` | the configuration (constant), the files below the working directory | one handler for each method and URL |
| listening sockets | constructor of `TcpServer` | `serverSockets` | socket, bind, listen; any failure exits |
| configuration file | `Config` | the text, the cut servers | `takeServersConfig`, the scan for braces |
| server and location directives | `Server`, `Location`, `WebServer` | `_directives` and the index into them, one field for each directive | `splitDirectives`, `createServer`, the setters, `validateServers`, `validateLocation` |
| utilities | `Utils.cpp`, `Colors.hpp` | none | pure helpers |
| unused code | `handleClientRead`, `handleClientWrite`, `buildResponse`, `readRequest`, `checkClientComplete`, `strToNumber`; `requestIsComplete` is never set | | never reached |

**How they interact.**  The loop calls `checkRequest` with a slot's descriptor; it
reads, picks server and location, runs one handler to its end and returns, having
put an answer in `_requests[sd]`, or not.  The next `select` then polls that
descriptor for writing; `sendResponse` flushes the whole answer and the loop closes
the connection.  A handler can also throw (`getServerUsing`) or call
`exitWithError`, and both end the loop.  CGI calls and uploads run inside
`checkRequest`: while they wait, no other connection is served.  `handleUpload`
calls `checkRequest` again to read more.  All servers of a configuration share one
process, one slot table and one working directory.  SIGINT sets `_endserver`
between any two instructions.

**What is hard here.**  Descriptors are reused while `_requests` and the fd_sets
are keyed by them.  A full slot table leaves accepted connections open and
forgotten.  `select` woken by SIGINT leaves its sets as they were passed in and the
round goes on.  Listening sockets block.  Peers reset between `select` and `send`,
and SIGPIPE is not ignored.  Requests come in pieces.  CGI limits are kept on a
wall clock with unsigned differences, the child may fill the pipe while the parent
waits for it, and a process it leaves behind holds the pipe open.  `remove` takes
directories as well as files, and a descriptor leaks with each CGI call and each
listing, two when `fork` fails.  The configuration is read with one index that the loops of two functions and
a dozen setters move, with no look at whether a word is there.  `PROJECT.json` lists these under `hazards`, each at its line.

**What makes each component correct.**

* event loop: a peer gets its own answer, once, whole or not at all; the table and
  the kernel agree; whatever is in the table is read and flushed in the end; SIGINT
  ends the process.
* CGI: output is answered whole or not at all; the call is bounded; only late
  scripts are killed.
* upload: what is stored is what was sent, however it was cut into pieces, and
  nothing is stored that is too large or incomplete.
* handlers: a request is answered, or it is clear which are not (only scripts), and which
  end the process (a Host nobody has, an upload that is no whole form or has no place to
  go); the disk changes only where the configuration lets it, and the upload pages are a store of files.
* configuration: what is accepted is what the grammar allows, it is read as it is
  written, and what is accepted can be served.
* all together: what a peer reads is what was written before, and the process ends for
  a reason.

## 2. Modules

| module | models | kind |
|---|---|---|
| `ConfigSplit` | the scan of the configuration's text | state machine |
| `ServerConfig` | words, directives, servers; extends `ConfigSplit` | state machine |
| `ConfigMeaning` | what the words of a server say, and which are right; extends `ServerConfig` | operators, properties |
| `Startup` | the listening sockets, and the whole start; extends `ConfigMeaning` | state machine |
| `MCStartup` | configurations to try, and what they mean | |
| `StartupProofs` | theorems about `Startup` | TLAPS |
| `MeaningProofs` | the theorems that words are read as they say, whatever they are | TLAPS |
| `EventLoop` | the loop, the kernel, the peers, the signal | state machine |
| `ConnService` | a service with MAX_CLIENTS seats: what the loop promises a connection | abstract |
| `MCEventLoop` | kinds of requests for TLC, symmetry | |
| `EventLoopProofs` | theorems about `EventLoop`, and that it is a `ConnService` | TLAPS |
| `Cgi` | one CGI call with script, leftover process, pipe and clock | state machine |
| `CgiProofs` | theorems about `Cgi` | TLAPS |
| `Upload` | one upload in pieces, and the cutting of the file out of the text | state machine |
| `MCUpload` | the files and tails that are tried | |
| `UploadProofs` | theorems about `Upload` | TLAPS |
| `Site` | routing and handlers on the disk, one whole request after another | state machine |
| `FileStore` | a store of named files: what the upload pages promise | abstract |
| `SiteStore` | when a site is a FileStore, and the refinement mapping | refinement |
| `SiteProofs` | the theorem that such a site is a FileStore | TLAPS |
| `SiteSafetyProofs` | theorems about `Site`, whatever its configurations | TLAPS |
| `MCSite`, `MCSiteStore` | configurations, paths and requests for TLC | |
| `Webserv` | the loop with the handlers: extends `EventLoop`, instantiates `Site` | composition |
| `MCWebserv` | one site and a request of each kind | |
| `WebservProofs` | the theorem that the whole server is an `EventLoop`, and theorems about the whole | TLAPS |

`EventLoop` leaves open what a handler does with a request: the constant `Outcomes`
gives, for each kind of request, whether an answer is stored, none is stored, or the
process ends, and what is left open: a directory, one end of a pipe, or, when `fork`
fails, both.  `Webserv` decides this by `Site!checkRequest` and the descriptors that are
left; of a CGI call it knows that it takes a pipe if there are two descriptors, that it
may or may not get a child, and that it leaves an answer or none, which is what `Cgi`
shows of it.

### Correspondence

**ConfigSplit, ServerConfig, Startup.**  The text is a sequence of tokens: a blank, a
brace, `;`, a word or a piece of a path.  `start`, `end`, `pair` are the locals of
`splitServersConfig` and `searchEndBracket`, `words` is `_directives`, `i` the index that
`createServer` and `setLocation` share, `server` and `location` the objects being filled.
`pc` says which function is at work.  There is one action for each directive, and in it
its checks in the code's order; `ServerValue` and `LocationValue` are the part that the
setters of one value have in common, `TakesList` that of the setters of a list.  An
error of any kind ends the program (`refused`, `malformed`); reading `_directives` past
its end is not defined and ends the behaviour (`undefined`).  `stat`, `inet_pton` and
`getcwd` are the constants `Directories`, `Files`, `HostOf`, `CurDir`.  `Listen` is one
round of the constructor's loop.

**EventLoop.**  `clientSockets`, `requests`, `readfds`, `writefds`, `totalSent`,
`endserver` are the variables of the code; `pc`, `li`, `si` say where it is.  One
action is the code between two system calls: `SelectReturns`/`SelectFails`/`Sigint`
(lines 115-156), `SkipListener`/`Accept`/`AcceptFails` (159-176, 227-243),
`SkipRead`/`CheckRequest` (183-188), `SkipWrite`/`SendPiece`/`SendFails`/
`SendKills`/`FinishResponse` (190-199, 1328-1346), `ShutdownFree`/`Shutdown503`/
`ShutdownKills`/`Exit` (203-226).  `owner` is the kernel's descriptor table:
`accept`, `pipe` and `opendir` take the lowest free number, and one that a handler leaves
open is `leaked`: `Lost` says which those are, `Unforked` when a call that found no pipe
or no child stores no answer.  A peer is `open`, has closed
(`fin`), has reset (`reset`, the next send fails) or is `broken` (the send after
that raises SIGPIPE).  An answer is identified by the client it was made for and
sent in `ResponseLen` pieces; `heard[c]` holds whose pieces `c` was sent.

**Cgi.**  A tick is one `usleep(500)`.  `WaitLimit` and `ReadLimit` stand for the
5000 ms and 3000 ms; `base` is the local of that name in both functions, `wall` what
`time_dif` returns, `elapsed` the time that really passed.  Time passes while the
parent sleeps or waits in `read`.

**Upload.**  The text is a sequence of tokens that each stand for a piece of text
ending with its only newline, and `Bytes` without one, so that cutting at boundaries
and at the n-th newline is what the code does.  `depth` counts the stack frames of
the recursion `checkRequest` -> `handleUpload` -> `checkRequest` (line 1095).

**Site.**  `Dispatch` is the if-chain of `checkRequest` with one action for each
branch, in its order.  URLs and paths are sequences of pieces, so that "longest
prefix that matches" is `IsPrefix` on them; `/uploads` matches the location
`/upload` as in the code.  `conf` maps addresses to servers; a Host that is no
address in it throws.  The field `form` of a request says whether its body is a whole form
with a named file: without the end marker `handleUpload` and `checkRequest` call each
other until the stack is full, without the name `exitWithError` is called
(`UploadRecurses`; `Upload` has the recursion step by step).  `handle_cgi_request` stores
an answer, or none: `pipe` or `fork` fails, or the pipe cannot be read (789-800, 839-873).

**Webserv.**  `HandleRequest` is `EventLoop!Handles` and `Site!checkRequest` in one step,
on the same request; `reply` is the text in `_requests` that `EventLoop` knows only the
owner of.  `Starves` says when a handler finds no descriptor: for the file it opens, or
for the directory that `autoIndex` opens a second time in `getFilesIndex`.  `Openings` says
what a request opens, `Act` what becomes of its answer: a script has its pipe kept open at
one end or, unforked, at both, and with no two descriptors left it has none.  `wants`,
`before`, `got` and `starved` are what the peers saw: they are for the properties, and
no guard reads them.

## 3. Runs

| run | instance | what it shows |
|---|---|---|
| `startup` | about 1,800 configurations written clause by clause (up to two clauses of a server or of a location, two locations, two servers), about 2,200 texts made by leaving one token out of such a configuration, all 3,906 texts of up to 5 tokens, and servers whose words are loose, missing or in any order, braces among them | the scan accepts exactly its grammar; what is written is what is read, whatever the order of clauses; words are read as they say also where nobody would write them so; what is refused deserves it; what is accepted can be served; the start always ends |
| `loop_safety` | 3 peers, 2 slots, 3 descriptors, answers of 2 pieces, window 1, 1 segment | the slot table under competition (more peers than slots, every descriptor reused) and answers to slow, closing and resetting peers |
| `loop_liveness` | 2 peers, 2 listeners, 2 slots, no symmetry, `FairSpec` | the loop implements `ConnService`; requests are read, answers flushed, SIGINT stops or blocks |
| `loop_sigint` | 2 peers | violation, see section 6 |
| `webserv` | 2 peers with a request of any of 6 kinds (get, upload, delete, listing, script, unknown host), 2 slots, 4 descriptors | what one peer reads of what another writes, while answers wait and descriptors are reused and run out; that nobody but who asked for a script is left without an answer; what ends the process.  SIGINT and the shutdown, which send no page and write no file, are left to the runs of the loop |
| `cgi` | limits 3 and 6, lag 2, pipe 3, output 4, a leftover process, one clock jump, clock modulo 24 | what is answered, to the tick and the byte: output reaches past the ReadLimit/MaxLag = 3 bytes that can be read in time and past what the pipe holds; the call is bounded while the clock is honest, and returns in any case |
| `upload` | every file of up to 3 pieces (lines and bytes), 1 to 3 headers, with and without a second part, limit 8 tokens, depth 4 | every way to cut the request into pieces |
| `upload_stored` | same | violation, see section 6 |
| `site` | 5 configurations, 15 URLs, 4 methods, bodies below, at and above the limits | dispatch, answers and changes |
| `site_store` | default server, alone and beside a second that lists directories; 2 names, 2 contents | the upload pages implement `FileStore` |
| `site_delete`, `site_name` | default server | violations, see section 6 |

What a configuration means is said in `MCStartup` of its clauses (`ServerOf`,
`RightServer`): a value by the last clause with its key, correctness by what the clauses
before it were.  It knows nothing of words, indices or where a list ends, and it is
against this that `ReadAsWritten` holds the machine.  `ConfigMeaning` says it of words, of
any words: which of them belong to the server and which to the location named at a place
(`OwnWords`, `WordsIn`), and of these by the places of the names alone what each field is
(`Said`) and which directives are right (`RightWords`); against this stand
`MeansItsWords` and `AcceptsWhatIsRight`.  Here a list that no semicolon ends takes all
words behind it, braces too; a word in a location that names nothing is wrong unless it is
the value behind a directive (the setters of one value leave the index at the value, and
`setLocation` steps past it); a location without a brace of its own ends with
the words.  `CutsAreServers` does the same for the scan with `IsConfig`, a grammar of
depths without a cursor.

**Bounds.**  Every bound of the loop, the calls and the uploads is a constant: `MaxSegments`, `ResponseLen`, `Window`,
`NumFds`, `MAX_CLIENTS`, `Clients`; `MaxOutput`, `Capacity`, `Jumps`, `ClockMod`,
`MaxElapsed`; `MaxDepth`, `MaxBody`, `Payloads`.  Descriptors are few enough to be
reused and to run out; there are peers without a slot; an answer needs more than one
send and more than the window; output exceeds what can be read in time and what the
pipe holds; the clock wraps; the recursion reaches the end of the stack; a body may
be below, at and above the limit.  In `startup` every directive occurs, right and wrong,
first and repeated, and every place of a text is once without its token; two clauses
are enough for what one directive can do to another, since each setter looks at its own
field only, and `root` of a location, which looks at the server's, is tried with it.  In
`webserv` four descriptors are those of two connections and of one failed `fork`, so that the
next file, listing or pipe finds too few: the bound of `DiesForAReason` is reached by a
script that gets no child and two open connections.  `ReadLimit` is a multiple of `MaxLag`, so that the last byte in
time is in time by nothing; `MaxElapsed` is one past the bound of `CallIsBounded`.  A
peer sends one segment: with a second segment `loop_safety` is out of reach, and what
it would add (text behind a request whose answer is pending) is in the theorems and, as
an end of file in the same place, in the run.  Symmetry is over peers and only in
safety runs: the loop compares descriptors, never peers.

**Deadlock** is not checked: a process that has ended, a call that has returned and a
server blocked in `accept` with no peer left are ends the system really has.

**Fairness.**  `EventLoop!Fairness` is weak fairness of the loop's own steps (the
process is scheduled), strong fairness of `SelectReturns` (`select` does not fail for
ever) and weak fairness of `Drain`: a peer that is still there reads in the end.
The last is needed because `sendResponse` spins on EAGAIN (line 1338): a peer that
neither reads nor goes away holds up the whole server.  `Startup` is a program that
runs to its end by itself: weak fairness of its steps is all `Decides` needs.  Peers are not obliged to
connect, send or close.  `Cgi!FairSpec` is weak fairness of the parent's steps only;
the script owes nothing.  `Returns` assumes that no process it left behind keeps the
pipe open for ever, and `LimitIsSeen`: the clock is compared with `base + limit` modulo
2^64, so when the clock is set to just before its first value and that sum is within
one sleep of the last value, the loop can sleep over the only ticks at which the limit
shows; TLC finds the call waiting for ever without this premise.

## 4. Proofs

`EventLoopProofs` proves, for any number of peers, slots, listeners and
descriptors, from `ConstantsAssumption` alone: `TypeOK`, `SlotTable`,
`PendingIsOwned`, `AnswerIntegrity` as invariants and `NoStaleBits`,
`ClosedOnlyAnswered`, `SlotKeepsConnection`, `ForgottenOnlyWhenFull` as action
properties.  The inductive invariant is `IInv == TypeOK /\ Consistent /\ ReadyBits`.
`Consistent` says how table, descriptors, answers and counters go together (a
connection has one descriptor, a slot's descriptor is open, a pending answer is its
owner's and in the table, what a peer was sent is what `totalSent` counts).  None of
the properties is inductive alone: that an answer goes to its own peer needs that
the descriptor was not handed out again since, and that needs `ReadyBits`, which
says that the bits of the last `select` still to be looked at are of descriptors in
the table and that those already looked at are of no later use.  There is one lemma
for each group of actions (`ScheduleSteps`, `AcceptSteps`, `CheckRequestSteps`,
`SendPieceSteps`, `FinishSteps`, ...).

The second half of `EventLoopProofs` proves `LoopIsService`, that is `Spec => ImplementsService`, under the
mapping that `EventLoop` ends with.  The mapping needs `SInv`: besides `IInv`, that a
connection which was sent its whole answer is closed before anything else happens
(`Unfinished`; else it would be both served and answered), and that pieces are pieces of
something (`Audible`).  `ConnService` counts seats, the loop fills slots:
`SeatsAreSlots` puts the slots in use and the seated connections in bijection, and
`AcceptIsSeat` follows from it.  Each action is then a step of the service
(`ConnectIsArrive`, `AcceptIsSeat`, `CheckRequestIsAsk`, `FinishIsAnswer`,
`ShutdownIsRefuse`, `EndIsGoDown`), or changes nothing it sees (`QuietStep`).

`WebservProofs` proves `WebIsLoop`: with the handlers of `Site` put in, every step of the
server is a step of `EventLoop`, so that its theorems hold of the server
(`WebServes` names two).  The invariant is `WholeRequests`: no peer of `Webserv` sends the
rest of a request whose start was lost.  Of the server as a whole it proves, SIGINT and
the shutdown included:

* `DiesForAReason`, from `WebInv`.  Two things are needed besides the loop's invariant.
  `Ready`: while no signal has come, a descriptor whose bit the scan has still to look at
  has text or a peer that left; else a pass over an empty socket, which throws, would have
  no reason.  `LeakCount`: there are no more lost descriptors than peers whose script or
  listing was run (`Charged`) and peers whose script was run and that have no answer
  (`Silenced`), who may have cost a second one.  A charge once made must stay: that the
  silenced stay without an answer is `AnsweredOnce`, each peer asks once and a call leaves
  either an answer or two open ends.  `AllAccounted` counts: with no descriptor free, each
  is held by an unanswered connection, each by another, or was lost to a peer, at most
  two to one.
* `Heeded`, from `HeedInv`: a request that was read and is not a script's has its answer in
  `_requests` under its own descriptor as long as its connection is open.  It rests on
  `SilenceIsOfScript` (a pass that neither answers nor ends the process is a script's, with
  descriptors or without) and on the loop's invariant, by which an answer is erased only
  with its connection closed (`StaysHeeded`).
* `WebTypeOK`, from `TypedInv`, for which the types of `Site` are taken over from
  `SiteSafetyProofs` by an instance.
* `ReadsAreFresh`, from `FreshInv`.  `LastWrite` says that a file is as one of its
  writers left it, one that nobody who wrote to it had seen answered when asking;
  `AnsweredLater` that nobody is answered before the request was handled, so that those
  whose answers a peer had seen come before it; `AllFresh` says of the answers that wait
  in `_requests` what the property says of those that were sent.  The last is where the
  loop comes in: an answer reaches its reader long after the file was read, and over a
  descriptor that others had before.

`StartupProofs` proves, for every text, file system, table of names and set of taken
addresses, `Configured` and `ExitsOnlyForAddress` from `ReadInv` (the server and the
location being read are well formed so far, the sockets are those of the first servers),
and with it `SplitInv`, on which the rest builds: every piece cut is a block in braces,
and within a block the tokens so far are one deeper than `pair` and were never at depth 0.
The setters come in a few kinds (`SetsServer`,
`SetsPort`, `SetsLocation`, `SetsMethods`, ...), and each kind is dealt with once.
`ExitsOnlyForAddress` is where the two meet: `validateServers` compares hosts and ports
for equality, `bind` does not, and what is left between them is 0.0.0.0.

`CutsAreServers`, that the scan accepts the grammar and cuts as the grammar does, needs
`CutInv`: up to the cursor the text is `Clean` (no piece of it breaks the grammar), the
blocks behind the cursor are the servers cut so far, in order (`Pieces`), and the cursor
is between blocks, behind the word `server` or in a block whose depth is `pair`.  A
refusal is then a place where the grammar breaks (`Rejected`).  The grammar speaks of all
positions at once and the scan of one after another: `DepthStep` and `CountStep` carry a
depth from one position to the next, `PiecesGrow` the list of blocks.  `TypeOK` of the
start rests on `InText` and `WordInv`: every index is into a text that is there.

`MeaningProofs` proves, for every text, file system and table of names, `MeansItsWords`
and `AcceptsWhatIsRight`: one index that two loops and twenty setters move through the
words, with no look at what is there, reads what the words say by their places alone.
Neither is inductive.  `SaidInv` is: while a server is read, all that has been read of it
is what the words *behind* the index say, all of them are right (`OwnAt`), and the
index is at a word of the server, never inside a value, a list or a location; while a
location is read the same holds of it and of its own words (`InAt`), and the server is
what the words before the location say.  One directive more is then one word more
among those behind the index (`Adds`), and what this does to each field is said once
(`AddsServer`, `AddsLocation`, `AddsPage`).  The steps of the setters come in kinds:
`OwnValueRead` and `InValueRead` for those of one value, `InListRead` for those of a list,
and a step is refused, or reads past the end, exactly where its directive is wrong
(`RightOwn`, `RightIn`).  At the end of the words nothing is ahead of the index and the
server is what they all say; `validateServers` and `validateLocation` decide the rest
(`RightTogether`).

`CgiProofs` proves `TypeOK` and `WholeOutput` for all limits, lags, capacities and
clock moduli.  `WholeOutput` needs `Balance` (what was written is in the pipe or was
read) and that end of file means an empty pipe without a writer.  `KilledOnlyLate`,
`CallIsBounded` and `SmallOutputAnswered` follow from `ClockInv`: as long as nobody sets
the clock, `wall` is what really passed since `base` and the limit is not looked for past
the clock's end; and in the second loop each sleep has brought a byte, so that the time
is bounded by the bytes.

`UploadProofs` proves all safety properties of `Upload`, for every file, number of
headers, tail, cut and limit: `TypeOK`, `StoredWhole`, `LimitHolds`, `RefusedForBody` and
`ReplacedOnlyWhole`, from `UploadInv`: `Stream` (the text so far and what is still to come
are the request, whatever the cuts were) and `Decided` (an answer was decided on a text
that is a prefix of the request, a 200 on all of it).  That the whole request is stored
as it was sent is then a matter of where its tokens are.

`SiteProofs` proves `SiteIsStore`, that is `Spec => ImplementsStore`, for every set of
configurations, paths, requests and contents that `SiteAssumption` and
`StoreAssumption` admit.  The inductive invariant is `UploadsInPlace`: the path of the
upload directory is never a file, and when the directory was removed no upload is
left.  Without its second part a list of the removed directory might still owe names.
The argument: lemmas on paths as sequences of pieces; `Routed`, every URL of the store
finds the location `/upload`, so that its GET, POST and DELETE are decided by that
location alone; one lemma for each operation of the store (`PutSteps`, `ListSteps`,
`GetSteps`, `RemoveSteps`) that follows the if-chain and shows which branch is taken;
`OtherSteps`, by `Shape`, for all other requests: the disk changes only by an upload
or a delete, and neither hits a file of the store.

`SiteSafetyProofs` proves `TypeOK`, `Answered`, `Outlives` and `ChangesAreListed` under
`SiteAssumption` alone.  `Answered` names what may be left without an answer, a script that
passed every check, and `Outlives` what may end the process; that there is
always a branch is not seen at once, and neither that the disk keeps its type: an upload makes a file
of a path, `DELETE` removes a directory, and that no path is both needs that
`CanStore` looks for a directory of that name.

**Assumptions.**  `ConstantsAssumption`: there is a listener, a slot and a descriptor, and
names of peers are no words of the model.  `CgiAssumption` and `CgiClockAssumption`:
limits and lags are numbers; twice the first limit, the second and two sleeps fit in the
clock's range, as 5000 ms and 3000 ms do in 64 bits; ticks are counted for as long as a call
may take.  `StartupAssumption`: 0.0.0.0 is an address of the machine, ports are numbers, and
nobody else holds the port 0; and no word of digits is the name of a directive or a
brace, which `MeansItsWords` needs for the code of an `error_page`, the one value that need not end in a semicolon, and so
the one that `ConfigMeaning` might take for a name.  `UploadAssumption`: tokens of the frame, of lines and of
bytes differ, a part has a header, and nothing behind the file looks like its end.  `SiteAssumption`, which is `PathsFit`: the directories
are paths, URLs and locations are sequences of pieces, a location is a directory (which
`setPath` has checked), and the path of an upload to one that takes it is one of `Paths`.
`WebAssumption`: any handler may do anything, a request comes as one segment, there are
finitely many peers, and `PathsFit` holds of the site.  TLC evaluates each on the runs.

**What proving changed.**  `DiesForAReason` once counted the listings of the directories
that there are; a directory that was listed and then removed has cost its descriptor all the
same, so `Listers` counts those that there may be.  With a `fork` that fails a script may cost
two: the bound charges the second only to those that have no answer, and the proof had to
show that they never get one.  `ReadsAreFresh` once spoke of every
GET of a file; a location with an index, a script or a page of the server's own answers
otherwise, so it speaks of those that are answered from the file (`ReadsFile`).  On the
instances that TLC checks neither made a difference.  The proofs about words found what
`ConfigMeaning` first had wrong: where a list begun before a brace hides it, and that in
a location the value behind a directive names nothing and is not wrong for it.  The pages of
errors are written as functions (`WithPage`), since the prover knows nothing of `:>`.

**Only model-checked.**  Liveness (`EventuallyRead`, `EventuallyFlushed`, `StopsOrBlocks`,
`Returns`, `Decides`), because fairness is out of the prover's reach, and `ReadAsWritten`,
which compares with configurations that only `MCStartup` has, clause by clause: for every
configuration it would be an induction over its clauses and over the printing of each.
That the words of a text are read as they say, whoever wrote them, is proved; what only
TLC checks is that a configuration printed clause by clause says what its clauses do.
Every other property of the passing runs is
a theorem.  Where a proof does need induction over data, a least counterexample takes its
place (`LowestIsLeast`, `InOrderHasRank`): the well-foundedness of the naturals is in the
library as a fact about a relation, which the provers can use.

## 5. What is not modelled

* `main.cpp`, which is not in the repository: what it does with an exception is unknown,
  and every exception is taken for the end of the program.
* `socket` and `listen` failing during the set-up, which end the program as `bind` does.
* Words of digits are numbers of the instance or are none: what a stringstream does with
  one that is too large for its type is in `NumberOf` and the ranges (`IsPort`, `IsCode`).
* In `Webserv`, requests in pieces and more than one request for each peer (`EventLoop`
  and `Upload` have the pieces); the time of a CGI call (`Cgi`).
* The text of answers: headers, the fixed `Content-Length: 100` of error pages that
  have no body, the response that `handleRoot` writes twice into one (1239-1251).
* `FD_SETSIZE`: descriptors above it do not occur under the usual limits.
* A close with unread data in the receive buffer, which sends RST: `Close` by the
  server is seen by the peer as it reads; `Drain` is possible while connected.
* `usleep` cut short by a signal during a CGI call, and a read error of the pipe that
  persists (`ReadFails` has no fairness).
* Blocking `accept` is restarted after SIGINT, as `signal()` of glibc sets it up.
* Zombies of killed scripts (825) are not counted: `fork` may fail at any call, whether
  they are the reason or not.
* Why `bind` finds an address taken: another process, a port the user may not have, a
  socket of an earlier run in TIME_WAIT.  The set of taken addresses is arbitrary.
* A last brace glued to the word before it: the configurations written clause by clause
  have a blank there; the texts of tokens and the proofs do not ask for it, but
  `ConfigMeaning` takes the words as `splitDirectives` cuts them.
* URLs with `..` or `//`, permissions, a boundary inside
  the file, what scripts do to the disk.

## 6. Disagreements between code and text

Each is a run whose property states the text, which TLC finds violated.

* `loop_sigint`: "Caught signal ..., exiting..." (103).  When SIGINT wakes `select`,
  the sets hold every bit, the round goes on, and `accept` blocks.
* `upload_stored`: "Extraer los datos binarios de la imagen" (1131).  Four newlines are
  dropped whatever the number of headers, and the last line end stays.
* `site_delete`: `allow_methods GET POST` (default.conf:30).  DELETE is admitted where
  POST is listed (671).
* `site_name`: `server_name localhost` (default.conf:3).  A request by name ends the
  process (405).

Three more are in the models without a run: "Close all client sockets with 503 response
on shutdown" (203), while only slots are visited and a connection without one, or still
in the backlog, is cut (`ConnService!GoDown`); `log("Error reading from pipe")` (852) goes
with the 500 for a script that printed nothing, while a read that fails gets no 500
(`Cgi!Answer`); and the server's `client_max_body_size` (default.conf:6) is never
consulted, so that a location without one has the limit 0 (`Site!FitsBody`, 455).

## 7. Plan

Done, in this order: `EventLoop` with `ConnService`, its proofs; `Cgi` and its proofs;
`Upload`; `Site` with `FileStore` and the proof that it implements it; `ConfigSplit`,
`ServerConfig` and `Startup` with their proofs; the proof that the loop implements
`ConnService`; `Webserv` and the proof that it is the loop;
`UploadProofs`, `SiteSafetyProofs`, and the theorems about `Webserv` as a whole;
`ConfigMeaning` and `MeaningProofs`.

To prove: that what `Startup` accepts satisfies `PathsFit`, the assumption that `Site` makes
of its configurations (it asks that paths begin with `/`, which the setters do not look at,
so that it would be proved of the texts whose paths do); that a configuration printed
clause by clause says what its clauses do, which with `MeansItsWords` gives
`ReadAsWritten`.

To extend the model: requests in pieces in `Webserv`; one call of `Cgi` in place of the
outcomes it leaves in `Webserv`.
