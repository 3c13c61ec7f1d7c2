# Verification of the PoDP proxy and its storage nodes

This directory holds TLA+ models of the proof-of-concept for *Proof of Data
Possession*: a proxy that keeps an authentication table (a Merkle tree over a
B+ tree, numbered by radix path identifiers) of each file it forwards to
several storage nodes, and that later challenges a node to return the hashes of
some blocks. The models are translated from the C++ of `proxy_server/`; the
thesis (`thesis_and_presentation/msc-thesis/PoDP_Anukriti_Shrimal.tex`, "tex"
below) is used only for what it promises.

## 1. The system

| Part | Source | State | Operations |
|---|---|---|---|
| REST server | `RestServer.cpp` | `mBoundary` (static), the path `transfer.tmp`, sessions | `postMethodHandler`, `readChunkSize`, `readChunk`, `challengeMethodHandler`, `getMethodHandler`; run by `hardware_concurrency()` worker threads |
| Forwarding | `SendFile.cpp` | none | `sendFile`, `challenge`, `getFile`: a `curl` process each |
| Key-value store | `DBHandler.cpp` | RocksDB: tables on the proxy, files on the nodes | `writeFile`, `readFile` |
| B+ tree | `BPlusTree.cpp`, `Utils.h` | nodes linked by pointers, records | `insert`, `del`, `find`, `find_range`, `destroy_tree` |
| Authentication table | `generateBTree`, `BPlusTree::evaluate`, `generate_rpi`, `dumpDataOnDB`, `RpiAuth.cpp`, `Utils.cpp` | the table; what `parse` makes of it | build, store, parse and sort, draw, `validate` |
| Block size | `getBlockSize` in `Utils.cpp` | two locals of a loop | the loop |
| Start-up | `main.cpp`, `ParseConfig.cpp` | the configuration | read once |
| Measurements | `test.cpp`, `perftest.sh`, `testing/multi_post.lua` | none | not part of the program; what they send is |
| Libraries | `dependency/` | restbed, asio, boost, RocksDB | vendored |

The same executable is the proxy (mode `ps`, `ON_CLUSTER`) and a storage node
(mode `cn`, `ON_DB`).

How they interact:

- **Upload.** The client's POST sets `mBoundary` and waits for the body. When it
  is there, `readChunkSize` cuts it up *with the boundary that `mBoundary` holds
  by then*. If the upload is secured and the proxy has nodes, `generateBTree`
  builds the tree, stores the table and the session is closed with the root
  hash. The data is written to `transfer.tmp`; a thread per node runs
  `curl -F FileData=@transfer.tmp`; the handler joins the threads, removes the
  path and closes the session (again). On a node the same handler stores the data.
- **Parse.** restbed collects the body: chunk by chunk (`readChunkSize` and `readChunk`
  take turns) or at once when there is a Content-Length. It keeps the sizes of the
  chunks in the body, and the loop over the parts skips them with the line ends it
  finds. Without a part that holds the file the whole text is searched (`goto TryAgain`).
- **GET.** The proxy picks a node, asks it with `curl` and answers what curl printed.
- **Challenge.** The proxy reads and sorts the table, draws a fifth of the blocks,
  picks a node, asks it with `curl`, compares the hashes with the table's, folds
  a top hash from every block and answers the first of them.

What is hard to test: POSTs that interleave between header and body (they share
`mBoundary`, and handlers on several threads share `transfer.tmp`); nodes that are
down while nobody reads curl's exit status; a proxy that dies between storing
the table and the last node; challenges that overlap with uploads of the same
name; a boundary that changes in the middle of a parse, between two parts or between the two reads
of one iteration; chunk sizes that are told from lines by counting; a hash fold written with level
arithmetic that only shows in trees of particular shapes; splits and merges that climb the tree; the numeric edges of
the block size and of the draw. `PROJECT.json` lists each under `hazards`.

What makes each part correct:

- server: a node holds whole uploads under their own names; all nodes hold the
  same; a question put to a node is concluded, its hashes are rejected as a mismatch only for a reason,
  right ones are accepted only when the node has the blocks; a GET returns what all nodes hold; an upload whose
  body is complete and handled is answered; `transfer.tmp` is removed;
- parse: the file is the one sent, whatever other boundary replaces its own; the name and the
  flag are found together; it ends, but for a body of `multi_post.lua` that a longer boundary overtakes;
- tree: no record lost, leaked or left dangling; balanced; pointers agree; an index;
- table: every block once with its hash, identifiers that lead to the root;
  `validate` notices exactly the wrong hashes, reads within bounds, accepts what is intact;
- block size: terminates, in 8 to 25 blocks.

## 2. Modules

| Module | What it is |
|---|---|
| `PdpServer` | proxy and nodes: uploads, forwarding, challenges, crashes, failures, losses |
| `ReplicatedFiles` | what the uploads promise; `PdpServer` refines it (`ImplementsPromise`) |
| `PdpServerProofs` | its types, the serial invariant, the refinement and the properties of replicas, challenges, GETs and `transfer.tmp`, proved |
| `UploadParse` | how a body is fetched and cut up: what `PdpServer`'s `ParseName` and `ParseFlag` rely on |
| `UploadParseProofs` | all its safety properties, for files of any length and any number of sessions, proved |
| `BPlusTree` | the tree, one action per function |
| `OrderedIndex` | what an index promises; `BPlusTree` refines it (`ImplementsIndex`) |
| `BPlusTreeInvariant` | what is true of the tree in every state, in the middle of a call, too: `Shape` and `Sorted` |
| `SequenceFacts` | lemmas about sequences, induction over numbers and functions defined by recursion |
| `BPlusTreeShapeProofs` | what each action does to the nodes, fact by fact; `Shape` is kept; types, parents and balance, proved |
| `BPlusTreeOrderProofs` | every action keeps the bounds of the nodes |
| `BPlusTreeIndexProofs` | `Sorted` is kept; `find`, the index, the chain of the leaves and `find_range`, proved |
| `RpiAuth` | a file's table and its challenges; uses the insertions of `BPlusTree` |
| `AgreeingDraws` | for 8 and 9 blocks, the draws `validate` accepts: checked by `RpiAuth`, used by `PdpServer` |
| `RpiAuthProofs` | the draw, and what `validate` says of the hashes, proved |
| `BlockSize`, `BlockSizeProofs` | `getBlockSize` and what is proved about it |
| `MCPdpServer`, `MCUploadParse`, `MCBPlusTree`, `MCRpiAuth`, `MCBlockSize` | values of the constants for TLC |

Definitions that a comment calls a *mutant* are broken variants of the
definition that follows; with one in its place, the property `PROJECT.json`
names is violated, which shows that the property depends on that line.

### PdpServer

A session is a member of `Uploads` or `Queries`; `pc[u]` is where its handler is:

| `pc[u]` | code |
|---|---|
| `idle` -> `reading` | `Post`: `postMethodHandler` sets `boundary[Proxy]` and calls `fetch` (`PostRefused`: the 400 for neither kind of body, after the boundary was set) |
| `reading` -> `parsing`/`opening` | `ParseName`: with one's own boundary the name is found; with another's it is not, and the `goto TryAgain` still finds the data |
| `parsing` -> `hashing`/`opening` | `ParseFlag`: `Secured` is found if the boundary is one's own by then, too |
| `hashing` -> `acking` -> `opening` | `StoreTree` (or `StoreTreeFails`, whose status nobody reads), `AckRoot`: `generateBTree`, `close(OK, rootHash)` |
| `opening` -> `writing` -> `sending` | `OpenTmp`, `WriteTmp`: open (which truncates), write, close, start threads |
| `sending` -> `done` | `Finish`: join, remove, close |

`tmp` is the file at the path `transfer.tmp`, `inode` the contents of the files
ever created there and `fd` the one an upload has open, so that a file that was
removed while it was open and one that is created anew are told apart.
`send[u][n]` follows the thread and the curl of upload `u` for node `n`: `ReadTmp`
(open and read the path, or fail), `NodePost` (the node's own `mBoundary`),
`NodeStore`, or `SendFails`. A query is a record, a challenge's or a GET's: `ReadTree` (parse, draw, pick),
`NodeAnswer` or `NodeSilent`, `Validate`; `AskFile`, `NodeReturns` or `NodeSilent`,
`AnswerGet`. What a GET returns ends in the line end that `curl -w'\n'` prints.

Abstractions: a file is a sequence of blocks of one size; a hash is the block it
is the hash of (SHA-256 taken as injective); the table of a file is therefore its
blocks. `curl`'s open and read of the path are one step, as is a write. Two
different POSTs have different boundaries, as browsers and curl make them; a torn
copy of the `std::string` (a data race of two workers) is left out. All have boundaries of one length, as curl's
do, so the second read of `mBoundary` in an iteration, of which only the length counts, changes nothing here;
`UploadParse` has boundaries of two lengths, and what happens then. `validate`'s
verdict on right hashes is looked up in `Agreeing`.
A crash ends the proxy with its threads and curl processes; its database, the file at the
path and requests a node already received remain. `ParseReturns` is what
`RpiAuth::parse`, which lacks its `return`, may return.

### UploadParse

A text is a sequence of lines, a line a sequence of pieces: boundaries, the three
markers the code looks for, names, data, chunk sizes, other text. `find` and `substr` are
then operators on lines (`Before`, `Behind`, `LineBehindEmpty`), and the arithmetic on
positions that wraps when `find` returns `npos` is modelled by where it ends up. `Words` are the
pieces there are and `Chars` says how many characters each has, for `erase` counts characters (`Erased`): what is left of
a piece that was not erased to its end is another piece.
`Request` writes the body as the clients of the repository send it: curl's forms in
chunks (`perftest.sh`, `SendFile.cpp`) and the one `multi_post.lua` writes.

| action | code |
|---|---|
| `Post` | `postMethodHandler`: set `mBoundary`, fetch a size or the whole body |
| `ReadChunkSize`, `ReadChunk`, `LastChunk` | the callbacks that fetch one another until the size is 0 |
| `ReadBody` | the callback of the Content-Length path, which calls `readChunkSize` without data |
| `FindPart` | an iteration of the loop over the parts up to its erase: `find` with what `mBoundary` holds (`:239`), and what the part adds to the fields |
| `TryAgain` | no boundary, no file yet: the `goto` into the loop's body with the whole text as the part |
| `Erase` | the end of an iteration: from the place found on, as many characters as `mBoundary` has by now (`:298`); after `TryAgain`, whose place is `npos`, the sum wraps and its length less one is erased |
| `Save` | the loop is left: `transfer.tmp` or `writeFile`, which stops at a NUL |

Fetches and POSTs need a thread that is not in the loop over the parts (`FreeWorker`); with one
thread no boundary changes during a parse, with two it may change between any two parts, and between the find and the
erase of one. What lies between these two reads of `mBoundary` is one step with the find. In a form of curl the boundary is followed by
a line end and the beginning of a header, so that an erase with the length of another boundary - 38 characters or 40 - leaves all
markers. In `multi_post.lua`'s body a marker follows each boundary directly: there the name may be lost, or the file.

The data is right with any sequence of boundaries in which the own one, once replaced, does not come back
before the parse ends (`BoundaryStaysAway`): so it is on one thread, with two sessions, and when
uploads have boundaries of their own, each of which is proved (section 4). `PdpServer` supposes the last.

`PdpServer` relies on three things checked here: the data is right with those
boundaries (`FileAsSent`), the name and the flag are right with the own one (`ParsedAsSent`), and
on one thread they are found both or neither (`FieldsTogether`); so its `ParseName` reads the
boundary once for the name and `ParseFlag` once more for the flag.

### BPlusTree

`heap` maps addresses to nodes; `root`, `records` and `todo` complete the state.
`todo` is the call under way between two steps: `insert_into_parent(left, key,
right)` or `delete_entry` on a node that lost an entry; so each function of the
code is an action and each recursive call a new step. `del` frees nodes when the
calls return; `todo.dead` holds them until then. `make_leaf` and `make_node` take the
smallest free address, of ranges set apart: a leaf never reuses the address of an
inner node, but its own kind's freed addresses are reused. Without a free one the program
exits, so the actions that allocate are not enabled then (`FreeLeaves`, `FreeInner`).

### RpiAuth

Runs the loop of `generateBTree` with the actions of `BPlusTree`, dumps the tree
(`evaluatenode`, `generate_rpi`, `dumpDataOnDB`), then repeats challenges: `Parse`
with the unstable `sortByLevel`, `Draw`, `Ask`, `CompareHashes`, `FoldBlock`.
Hashes are symbolic terms, identifiers the numbers their digits denote. The
levels of the loops, the bounds from powers of the order, the index used for `h`
and the comparison of neighbouring hashes are kept as they are in the code.

### BlockSize

The loop of `getBlockSize`, a step per iteration.

## 3. Runs

| Run | Question | Bounds |
|---|---|---|
| `serial_faults` | Are files never mixed up, right hashes current, and is `ServiceInv` kept, in spite of faults? | 1 worker, 2 uploads, 1 challenge or GET, 2 nodes; 1 crash, 1 failure, 1 loss |
| `serial_calm` | Do the replicas agree, does a node's answer mismatch only for a reason, is a GET current, is the promise kept? | 1 worker, 2 uploads of 4 kinds, 1 challenge or GET, 2 nodes, no faults |
| `concurrent` | Is `transfer.tmp` always cleaned up, every upload that is handled answered, every question concluded? | 2 workers, 2 uploads, 1 challenge or GET, 1 node, `parse` returning either value, under `FairSpec` |
| `upload_text` | Does the parse find the file, and the name and flag, whatever happens to the boundary, and does it end, unless overtaken? | 2 uploads of 4 kinds of bodies (three pieces, no data, forwarded, `multi_post.lua`'s), 1 or 2 threads, under `FairSpec` |
| `tree3` | Does the tree keep its shape, its records, its chain, and find ranges that begin at a held key, with a key inserted again, too? | order 3, 7 keys, a second record for one |
| `tree4` | The same, where halves are unequal and leaves are redistributed | order 4, 10 keys |
| `auth` | Is the table right, does drawing end, does `validate` notice wrong hashes? | 8 to 25 blocks, challenges of files of up to 14 blocks, any of those drawn lost, under `FairSpec` |
| `block_size` | Is the block size right? | all lengths to 1000, those around multiples of 65536, the largest ints |

Why the bounds are enough. Two uploads are what it takes for one to clobber
another's boundary or file; two nodes for replicas to differ; one crash,
failure and loss are enough to separate any two steps, and further ones only
repeat. In `upload_text` three pieces are a first chunk and further
ones, which other code reads; two uploads and two threads let one change the boundary between any two
parts of the other, and between find and erase; boundaries of 38 and of 40 characters are those in use; its files hold no line end, no NUL and come last, as what the parse can take:
`MCUploadParse` has the bodies it cannot, and section "What the code does not do" says what they show.
With two sessions a replaced boundary does not come back (`TwoStayAway`); what a third one can do is there, too.
`SentAssumption` has TLC evaluate that the bodies of the run are of the form the proofs suppose.
Data of 8 and 9 blocks are the smallest secured files (`getBlockSize`),
of different lengths, so that an overlay of one by the other shows. Seven keys
of order 3 reach trees of height 3, in which splits and merges climb twice and
inner nodes are redistributed either way (leaves never are at this order: an empty
leaf always fits into its neighbour); ten keys of order 4 reach the split of an inner
node, and redistribute leaves either way. 25 blocks are the most a file has (`BlocksInRange`), so `auth` covers
*every* file's table; 14 blocks have trees of the same height as 9, with draws
of up to three blocks. The bounded counters are `MaxCrashes`, `MaxFailures`,
`MaxLosses`; `LeafAddresses` and `InnerAddresses` bound the heap, generously enough never to be
exhausted; `Challenged` bounds whose blocks are drawn.

`CHECK_DEADLOCK FALSE` is set where sessions simply end (`PdpServer`), where
`getBlockSize` returns, where uploads are saved (`UploadParse`) and where files above `Challenged` stop after being
stored; in the tree runs deadlock is checked: in every state some call can be made or continued.
Symmetry (of uploads and of nodes) is used only for safety.

**Fairness.** `PdpServer!Fairness`: a thread of the proxy, a curl process and a
node's handler that can run a step eventually runs it, as the operating system
schedules threads and processes. Clients need not send anything, not even the rest of a body whose header they sent:
nothing is assumed of `Post` and of `ParseName`, which is the fetch of the last chunk, so `PostAnswered` begins with a
body that is complete and handled; that the loop over its parts ends is a question of `UploadParse`. Faults need not happen. `RpiAuth!FairSpec`: the loop that draws is carried on; a remainder that
changes nothing stutters, so `rand()` is only assumed not to return such
remainders for ever. `UploadParse!FairSpec`: a thread in the loop over the parts is carried on; fetches and clients are not
assumed to make progress. `BlockSize!FairSpec`: the loop runs on.

### What the code does not do

Each of these runs checks a statement of the thesis or of a comment and finds it violated.

| Run | Promise | Code |
|---|---|---|
| `mixed_files` | tex:211, the file is sent to the nodes | with two workers `transfer.tmp` is shared (`RestServer.cpp:316`) |
| `lost_name` | tex:214, the client can query the file it sent | another POST replaced `mBoundary` (`RestServer.cpp:177`), even with one worker: answered 200, stored under `""`, without a table |
| `endless_parse` | `multi_post.lua`:38, the file posted always replaces the stored one | with two workers a POST of curl's between find and erase (`RestServer.cpp:239`, `:298`): the erase takes the `na` of `name="FileData"`, and `goto TryAgain` never ends |
| `intact_file` | tex:225, verifying proves possession | top hashes folded from different blocks differ for most draws (`RpiAuth.cpp:259`) |

`intact_file` is about a correct set of hashes. For 8 blocks a third of the
draws are accepted, for 9 about one in seven; the answer still carries the first
top hash, without a Content-Length. `PdpServer` calls these verdicts `match` and `differs`.

More disagreements were met while modelling. Each is stated in its module, under
"what documents say and the code does not do", and TLC refutes it when it is
added to the configuration named, but no run is spent on it:

| Property | Refuted with | Promise | Code |
|---|---|---|---|
| `RootAfterReplication` | `concurrent` | tex:212, the root hash is sent after each replica saved the file | `RestServer.cpp:314` closes the session before the first byte is forwarded |
| `EveryBlockDrawable` | `auth` | tex:232, any random block | `rand() % blockcount` without 0: never the last block (`RestServer.cpp:92`) |
| `ExactFileReturned` | `serial_calm` | `curl_cmd`:2, a GET is the file | the proxy's `curl -w'\n'` adds a line end (`SendFile.cpp:40`) |
| `ChallengeAnswered` | `concurrent` | tex:222, the challenge is answered | `RpiAuth::parse` returns nothing (`RpiAuth.cpp:88`); read as `false`, the session stays open |
| `RootRebuilt` | `auth` | tex:222, the root value is re-evaluated | the first child is hashed twice (`BPlusTree.cpp:404`), the fold ends at level 1 |
| `EveryFileGetsABlockSize` | `block_size` | tex:211, a block size is calculated | below 8 bytes the division precedes the test for 0 (`Utils.cpp:137`) |
| `RangeIsComplete` | `tree3` | `BPlusTree.cpp:458`, the keys in the range | `BPlusTree.cpp:470` gives up at the end of the first leaf |
| `ValueUpdated` | `tree3` | `BPlusTree.cpp:911`, the value is updated | `BPlusTree.cpp:914` frees the record the leaf points to |

The parse has more limits. With `Requests <- ...` in `upload_text` (and `Sessions = {s1, s2, s3}` for the last), with one worker of TLC:

| Bodies | Refuted | Code |
|---|---|---|
| `TextFiles`, a file with a CR LF, though `SETUP`:54-56 has curl's file stored | `FileAsSent` | lines are taken for chunk sizes and the other way round (`RestServer.cpp:283`) |
| `NulFiles`, a file with a NUL | `FileAsSent` | on a node `writeFile` takes a C string (`RestServer.cpp:338`) |
| `BrowserFiles`, sent with a Content-Length | `FileAsSent` | there is no chunk size to skip (`RestServer.cpp:265`) |
| `FlagLast`, the flag behind the file | `FileAsSent` | the flag's value is added to the file (`RestServer.cpp:294`) |
| `NoFiles`, a body without `FileData` | `ParseEnds` | `goto TryAgain` for ever (`RestServer.cpp:302`) |
| `FlagFirst`, the flag before the name, two threads | `SecuredIsNamed` | a boundary that changes in between leaves a flag without a name (`RestServer.cpp:239`) |
| `SameBoundary`, three uploads, two of them of one boundary, two threads | `FileAsSent` | a boundary is replaced, `goto TryAgain` finds the file and leaves most of the text, the boundary is posted again, and the loop adds a line of that text to the file (`RestServer.cpp:239`, `:294`) |

## 4. Proofs

All proofs are checked by TLAPS; they use the named assumptions of the modules.

### The server and the block size

- `TypeCorrect`: `Spec => []TypeOK` for all constants. `TypeOK` is inductive by itself;
  the one point that needs more than types is that `WriteTmp` writes through
  an open descriptor, and that an answer needs a node.
- `SerialFilesAreWhole`: with `Workers = 1`, `Spec => []StoredFilesAreWhole`, with any
  number of crashes, failures and lost blocks. `StoredFilesAreWhole` is not inductive;
  `SerialInv` adds why it holds:
  `OneHandler` (one session at a time is in a handler), `UploadInv` (what `pc` says about
  request, name and threads: a parsed name is the request's own, threads run only while
  their upload is `sending`), `TmpInv` (during `writing` the descriptor is that of
  the truncated file at the path, during `sending` the path holds all of the upload's data) and `PayloadInv`
  (what curl read is its upload's data). Requests that outlive a crashed proxy keep
  their payload, and a node whose boundary was overwritten stores them under
  the empty name, about which the property says nothing. With two workers `OneHandler` is lost and
  `mixed_files` shows the consequence.
- `Refinement`: with `Workers = 1` and `MaxCrashes = 0`, `Spec => ImplementsPromise`. The
  upload under way in `ReplicatedFiles` is the one in a handler, its missing nodes
  those whose thread is not done. `CalmInv` adds to `SerialInv` that no request
  outlives its handler and that a node's boundary is that of the request it handles. Each step maps
  to `Begin` (`ParseName`), `Register` (`StoreTree`), `Deliver` (`NodeStore`), `Miss`
  (`SendFails`), `End` (`Finish`), `Lose` (`NodeLoses`) or a stutter.
- `TmpAlwaysRemoved`: `Spec => []TmpRemoved` for any number of workers. The invariant says
  that an upload past its open is `writing` or `sending` until its own remove, and that
  only a crash takes it elsewhere.
- `UploadsTakeTurns`, `ServiceInvariant`: with `Workers = 1`, `Spec => []SerialInv` and
  `Spec => []ServiceInv`, with any number of crashes, failures and losses. `ServiceInv` adds to
  `SerialInv` the facts that hold until the first fault of a kind: `NoCrashInv` (no request outlives its
  handler), `ParsingInv` (no other upload comes between the parts of a body), `IntactInv` (only a disk loses blocks),
  `AgreeInv` (nodes differ only in the file of the upload under way, and only by whether its thread is done),
  `RegisteredInv` (a node holds the file of the table, unless the upload that stored the table is not done with
  it) and, whatever has crashed, `QueryInv` (what a challenge or a GET read is still so: no upload runs in
  between; the exception is a file that a node stored late for a proxy that died, `StoredForTheDead`). So no
  challenge is accepted on the old file when the proxy died between the storing of a table and the sending.
  Each action has a step, and under it one for each part it can disturb.
- `ReplicasAlwaysAgree`, `RegisteredOnEveryNode`, `NoFalseAlarms`, `MatchesAreCurrent`, `GetsAreCurrent`:
  consequences of `ServiceInv`; the last two are action properties, proved from `ServiceInv` in the state
  before the answer.
- `InvHolds`, `ResultInRange`, `LongFilesSucceed`: `getBlockSize` for all lengths an int holds and all
  limits with `MAX_BLOCK_COUNT >= 2 * MIN_BLOCK_COUNT`. The invariant ties the count to the quotient by the
  current size; the lemmas are about division.

### The B+ tree

For any order from 3 on, any set of keys and any sequence of insertions (of held keys, too), deletions and
destructions. No run's bound is left in these theorems: heaps are finite and keys are numbers, that is all.
What the runs check holds between calls and is not inductive, since a call of the code is many steps: while a split is to be put into the
parent, the new node on the right is linked to nothing above it; while a deletion climbs, the node it repairs has a key too
few and the emptied ones wait to be freed. `BPlusTreeInvariant` says what is true then:

- `Shape`: `TypeOK`; the children of a node differ and have it as their parent (`ChildrenAgree`); a parent points
  to its nodes, but to the unlinked right half of a split (`ParentsPoint`); `RootSound`; what the call under way refers to
  (`CallSound`); `Sizes`, with one key less allowed where the repair is; and *some* assignment of heights, one
  more for a node than for its children (`Graded`).
- `Sorted`: *some* assignment of bounds to the nodes, `lo` and `hi`, such that a node's keys are within them and separate
  those of its children, and such that the bounds of a leaf begin where those of the one linked before it end
  (`Bounded`; the left half of a split is looked for with both halves' bounds, `Tops`); every key is paired with one of its own records;
  an emptied leaf holds nothing its neighbour does not; the records allocated are those the leaves point to.

Heights and bounds are not in the program: each step of the proofs names the new ones from the old, so that no path through the tree is followed.

- `ShapeKept`: `Spec => []Shape`. The module first states what each action does to each node, as a
  formula without the nested updates of the action; then one lemma for each kind of change. `TreeTypes`, `ParentsAlwaysAgree` and
  `AlwaysBalanced` (`TypeOK`, `ParentsAgree`, `Balanced`) follow; for the last a node's depth is the height of the root less its own.
- `AlwaysSorted`: `Spec => []Sorted`, from `Shape`. A split gives its key to the two halves as their common bound, a merge
  joins the bounds of two nodes, a redistribution moves the bound between them to the new key in the parent.
- `RecordsAlwaysFound` (`EveryRecordFound`): the descent of `find_leaf` stays at nodes whose bounds the key is within, and the bounds of leaves do not overlap.
- `TreeImplementsIndex` (`ImplementsIndex`): the initial states and each step map to the abstract index's; the steps that split, merge,
  redistribute and free change no item.
- `LeafChainAlwaysAscends`, `RangesFromHeldKeysComplete`: by induction over how many leaves begin further on, what a walk
  along the chain gathers ascends and is all that is held there; the walk of `find_range` stops taking at the first key beyond its end.

`find_leaf`, the walks and `Depth` are recursive functions. That they satisfy their equations, and induction over the height or
the rest of the chain, are proved in `SequenceFacts` from the least number of a set (`LeastNumber`, `NatSetInduction`,
`MeasureInduction`), with the set in place of the predicate.

### The parse

`ParseTypes` (`TypeOK`) holds for any sessions, requests and numbers of threads. The other properties are refuted for some bodies
(section 3), so their theorems have a hypothesis, `LineFilesAreSent`: the requests are what `Request` makes of *some* set of files
that `AreLineFiles`. It is the form of what the repository's clients send: curl's with the file last (`perftest.sh`,
`SendFile.cpp`) or `multi_post.lua`'s, each piece a line or part of one, of words that are no marker the code looks for, no NUL and no
boundary of an upload. The number of sessions, threads, files, pieces, words and boundaries is not bounded, and the boundaries of two uploads
may be the same.

- `FilesAsSent`, `SecuredAreNamed`, `AllParsed` (`FileAsSent`, `SecuredIsNamed`, `ParsedAsSent`) have `BoundaryStaysAway` as a second hypothesis, a
  formula about the steps; `OneThread`, `OwnStaysAway` and `TwoStayAway` prove it on one thread, when the uploads under way have different
  boundaries, and with two sessions. Without it `SameBoundary` refutes the first.
- `FieldsFoundTogether` (`FieldsTogether`) needs the first hypothesis only, since on one thread the second holds.

The argument. What a complete body is made of follows from its fetches, by induction over the chunks: `FetchedTo` says which text is there when
some of them are still to come, and `Waits` that the parse will make of the whole what was sent. The parse of that text is a set `P` of pairs of
the text left and the fields found (`CutsRight`): cutting off a part leads from one pair of the set to another; in each, the file found so far is the whole one, or the text
left still shows it; when no part is left all is found. curl's bodies have four or five such pairs, `multi_post.lua`'s five, which are computed
one by one; only the lines of the file are passed by induction, over `FurtherData` and with the lemmas of `SequenceFacts`.

A session in the loop is then in one of two cases. `Exactly`: text and fields are a pair of the set; its text holds no boundary but its own, so that
with another nothing is found. `Partly`: the own boundary was replaced, and `goto TryAgain` or an erase by another boundary's length has left
a text that the set does not have. Of that text it is only known that it is one of `Kept`: it holds no other's boundary, and if it shows the marker of the file, and none
was found before, the file behind the marker is the one sent. For `erase` this follows by induction over the characters (`ErasedKept`): erasing a piece of a text either
leaves what is behind the marker as it was, or takes the marker, too; the lengths in `Chars` do not matter. `Cuts` says so
between two iterations, `Erasing` between find and erase. In the second case the own boundary may be in what is left: should it come back then, `SameBoundary` happens, and this
is the one place where `BoundaryStaysAway` is used. `Alone` adds that with one thread nothing but the file is found with another's boundary. `SentInv`, the inductive invariant,
says for some set of boundaries that every request is sound (`Sound`) and that `Waits`, `Cuts`, `Erasing` and `Alone`, or what a saved session has, hold of each session where it is.

### The challenge

- `WrongHashesNoticed`: `Spec /\ []TableLeadsToRoot => []WrongHashNoticed`. The hypothesis is what `auth` checks of the one table that every number
  of blocks from 8 to 25 has, so the two together say of all files the server secures, of all draws and losses, what the run alone says up to 14 blocks. `VerdictInv` carries the
  table's hashes from the parse through any number of challenges, and from the comparison that the hashes are right while top hashes are folded.
- `AlwaysAFifthAsked`: the loop that draws asks for a fifth of the blocks, rounded up (as the code's doubles do for up to 26 blocks), all different (`drawn` is a set, and each rank in it has one block:
  `RankedMember`), and the index of `validate`'s second loop stays within the hashes. It has no hypothesis; `DrawInv` is inductive.

### Only model-checked

- Liveness (`PostAnswered`, `QueryConcluded`, `ParseEnds`, `DrawingEnds`, `Terminates`): TLAPS does not handle fairness.
- `RpiAuth`: `TableLeadsToRoot`, `HashesReadInBounds`, `AgreeingDrawsAreRight` are about whole tables and folds over them,
  and the last two about identifiers and draws for which only calculation tells what happens. 25 blocks are the most there are, so `auth` covers every file's table.

## 5. Not modelled

- The second and third close of a session that was answered (`RestServer.cpp:314`, `:336`, `:195`): what it does is restbed's.
- Markers, boundaries and headers that occur inside a file or a name; a `std::string` copied while another thread assigns it.
- `main`, `ParseConfig`: start-up, before there is any other thread.
- The printing functions of the tree, `height`, `path_to_root`, `node_count`: change nothing.
- Files longer than the largest int, whose length `RestServer.cpp:308` passes as another or a negative number.
- The headers in front of the markers (`Content-Disposition`), which an erase by two characters too many does not reach.
- The bytes of files and hashes: the node hashes one byte too
  many for a last partial block, which is never challenged. Floating point: `blockperc`
  reaches 20 with a fifth of the blocks, rounded up, for every count up to 26.
- Failures of `malloc` and `popen`, and memory leaks. A `system` that fails is a `SendFails`.
- A proxy without nodes, which closes neither uploads nor challenges (`Nodes # {}` is assumed).
- The measurement programs, which assert nothing, and the vendored libraries.

## 6. Plan

Done: the server with its abstract specification, and the proofs of the refinement and of all
its safety properties; the parse, and the proofs of all its safety properties; the tree and its index, and the proofs of all their properties; the table and `validate`; the
block size and its proofs.

Next, in this order:

1. `RpiAuth`: that `dumpDataOnDB` and the sort keep every block, from `Shape` and `Sorted` of the tree, which would take the
   hypothesis from `WrongHashesNoticed`.
2. `NodeServer`: a node with several workers of its own, fed by more than one proxy
   request at a time (its boundary is then clobbered within one upload).
3. Larger draws in `RpiAuth`, and order 4, where `test.cpp` measures.

The share of all lines in the repository that the models map stays small whatever is
added: all but about 3000 lines of program text are test data and the vendored libraries under `proxy_server/dependency`.
