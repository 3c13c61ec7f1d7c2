------------------------------ MODULE PdpServer ------------------------------
(***************************************************************************)
(* The data-possession proxy and its storage nodes: RestServer.cpp run as  *)
(* the proxy ("ps" mode, ON_CLUSTER) in front of several copies of itself  *)
(* run as storage nodes (ON_DB), together with SendFile.cpp (curl child    *)
(* processes) and DBHandler.cpp (RocksDB).                                 *)
(*                                                                         *)
(* A client POSTs a file to the proxy.  The proxy keeps the boundary of    *)
(* the multipart body in a STATIC variable, fetches the body, parses it    *)
(* with that variable, stores the file's authentication table when the     *)
(* upload is secured, answers the root hash, writes the data to the one    *)
(* path "transfer.tmp", lets a thread per node send that file, joins the   *)
(* threads and removes the path.  A client CHALLENGE makes the proxy ask a *)
(* random node for the hashes of a random fifth of the blocks; a GET makes  *)
(* it ask a random node for the file.                                      *)
(*                                                                         *)
(* Data is a sequence of blocks, all of one size; a hash is modelled as    *)
(* the block it is the hash of (SHA-256 taken as injective), so the        *)
(* authentication table of a file is the sequence of its blocks.           *)
(***************************************************************************)
EXTENDS Naturals, Sequences, FiniteSets

CONSTANTS
    Uploads,        \* the POST sessions
    Queries,        \* the CHALLENGE and GET sessions
    Nodes,          \* the storage nodes: mSendFiles
    Proxy,          \* the proxy, a server that is not a node
    Names,          \* file names
    NoName,         \* the name parsed when no boundary is found: ""
    Data,           \* block values
    Lost,           \* a block the node no longer holds as it was stored
    Newline,        \* what curl -w'\n' prints behind an answer
    None,           \* no upload, no node, no answer
    Requests,       \* the uploads clients may ask for
    Workers,        \* threads that run the proxy's handlers (worker_limit)
    ParseReturns,   \* what RpiAuth::parse returns: it has no return statement
    Agreeing,       \* the challenges, as pairs of the number of blocks and the
                    \* blocks drawn, for which RpiAuth::validate folds the same
                    \* top hash from every block (module RpiAuth)
    MaxCrashes, MaxFailures, MaxLosses   \* bounds on what the environment does

ASSUME ServersAssumption ==
    /\ IsFiniteSet(Uploads) /\ IsFiniteSet(Queries) /\ IsFiniteSet(Nodes)
    /\ Nodes # {} /\ Proxy \notin Nodes
    /\ None \notin Uploads \cup Nodes
    /\ NoName \notin Names
    /\ Workers \in Nat \ {0}
    /\ ParseReturns \in SUBSET BOOLEAN /\ ParseReturns # {}
    /\ MaxCrashes \in Nat /\ MaxFailures \in Nat /\ MaxLosses \in Nat

\* getBlockSize cuts every secured file of at least 8 bytes into 8 to 25
\* blocks (module BlockSize).
ASSUME RequestsAssumption ==
    /\ Lost \notin Data /\ None \notin Data
    /\ None \notin Requests
    /\ Requests \subseteq [name: Names, data: Seq(Data), secured: BOOLEAN]
    /\ \A r \in Requests : r.secured => Len(r.data) \in 8..25

\* None is not an upload under way either (module ReplicatedFiles).
ASSUME NoneAssumption ==
    \A k \in Names \cup {NoName}, r \in Requests, m \in SUBSET Nodes :
        None # [key |-> k, data |-> r.data, missing |-> m]

Servers == Nodes \cup {Proxy}
Keys    == Names \cup {NoName}
Files   == Seq(Data \cup {Lost})   \* <<>> is what a failed Get returns, too

VARIABLES
    boundary,   \* mBoundary of each server: whose boundary it holds
    table,      \* the proxy's RocksDB: the authentication tables
    store,      \* each node's RocksDB
    pc,         \* where the handler of each upload is
    req,        \* what the client of each upload sent
    key,        \* the file name the proxy parsed
    resp,       \* what the client was answered first
    tmp,        \* the upload whose open created the file at "transfer.tmp"
    inode,      \* the contents of the file each upload created
    fd,         \* the file each upload holds open for writing
    send,       \* where the thread of each upload and node is
    payload,    \* what its curl read from "transfer.tmp"
    query,      \* the challenges and the files asked for
    crashes, failures, losses

files    == <<tmp, inode, fd>>
sends    == <<send, payload>>
counters == <<crashes, failures, losses>>
vars     == <<boundary, table, store, pc, req, key, resp, files, sends,
              query, counters>>

-----------------------------------------------------------------------------
(* Handlers, workers and values                                            *)

PostStates  == {"idle", "reading", "parsing", "hashing", "acking", "opening",
                "writing", "sending", "done", "refused", "dropped"}
InHandler   == {"parsing", "hashing", "acking", "opening", "writing", "sending"}
SendStates  == {"idle", "start", "read", "posted", "done"}
Asked       == {"asking", "getting"}        \* a node was asked
InQuery     == Asked \cup {"answered", "got"}
QueryStates == InQuery \cup {"idle", "done", "hung", "dropped"}
Answers     == {"none", "root", "ok", "bad"}
Verdicts    == {"none", "match", "differs", "mismatch", "error", "file"}

\* Sessions whose handler occupies a thread of the proxy's io_service.
BusyPosts   == {u \in Uploads : pc[u] \in InHandler}
\* (The first is a mutant: a GET needs no thread.)
BusyChallenges == {q \in Queries : query[q].pc \in {"asking", "answered"}}
BusyQueries == {q \in Queries : query[q].pc \in InQuery}
\* (The first is a mutant: one handler more than there are threads.)
FreeWorkerOffByOne == Cardinality(BusyPosts) + Cardinality(BusyQueries) <= Workers
FreeWorker  == Cardinality(BusyPosts) + Cardinality(BusyQueries) < Workers

\* What is left in a file of contents old when new is written from its start.
Overlay(old, new) == new \o SubSeq(old, Len(new) + 1, Len(old))

\* The sets of blocks a challenge of a file of n blocks can draw: a fifth of
\* them, rounded up, out of 1..n-1 (rand() % n, with 0 drawn again).
Draws(n) == {S \in SUBSET (1..(n - 1)) : Cardinality(S) = (n + 4) \div 5}

\* The hashes of the given blocks of a file, with the blocks they belong to.
Hashes(file, blocks) == {<<b, file[b]>> : b \in blocks}

\* What the client is told of right hashes.
TopHash(n, blocks) == IF <<n, blocks>> \in Agreeing THEN "match" ELSE "differs"

\* A challenge: the proxy's copy of the table, the blocks drawn, the node
\* picked, the hashes it returned and what the client is told; of a GET, the
\* node and the file it returned.
Challenge ==
    [pc: QueryStates, name: Keys, tree: Seq(Data), blocks: SUBSET Nat,
     node: Nodes \cup {None}, answer: SUBSET (Nat \X (Data \cup {Lost})),
     file: Seq(Data \cup {Lost, Newline}), verdict: Verdicts]

NoQuery == [pc |-> "idle", name |-> NoName, tree |-> <<>>, blocks |-> {},
            node |-> None, answer |-> {}, file |-> <<>>, verdict |-> "none"]

Init ==
    /\ boundary = [s \in Servers |-> None]
    /\ table = [f \in Keys |-> <<>>]
    /\ store = [n \in Nodes |-> [f \in Keys |-> <<>>]]
    /\ pc = [u \in Uploads |-> "idle"]
    /\ req = [u \in Uploads |-> None]
    /\ key = [u \in Uploads |-> NoName]
    /\ resp = [u \in Uploads |-> "none"]
    /\ tmp = None
    /\ inode = [u \in Uploads |-> <<>>]
    /\ fd = [u \in Uploads |-> None]
    /\ send = [u \in Uploads |-> [n \in Nodes |-> "idle"]]
    /\ payload = [u \in Uploads |-> [n \in Nodes |-> <<>>]]
    /\ query = [q \in Queries |-> NoQuery]
    /\ crashes = 0 /\ failures = 0 /\ losses = 0

-----------------------------------------------------------------------------
(* The proxy's POST handler                                                *)

\* postMethodHandler: remember the boundary, then wait for the body.
Post(u, r) ==
    /\ pc[u] = "idle" /\ FreeWorker
    /\ req' = [req EXCEPT ![u] = r]
    /\ boundary' = [boundary EXCEPT ![Proxy] = u]
    /\ pc' = [pc EXCEPT ![u] = "reading"]
    /\ UNCHANGED <<table, store, key, resp, files, sends, query, counters>>

\* postMethodHandler for a request that has neither a chunked body nor a
\* Content-Length: the boundary is overwritten before the request is refused.
PostRefused(u) ==
    /\ pc[u] = "idle" /\ FreeWorker
    /\ boundary' = [boundary EXCEPT ![Proxy] = u]
    /\ pc' = [pc EXCEPT ![u] = "refused"]
    /\ resp' = [resp EXCEPT ![u] = "bad"]
    /\ UNCHANGED <<table, store, req, key, files, sends, query, counters>>

\* readChunkSize with the last chunk: the loop over the parts of the body,
\* with the boundary that mBoundary holds now, up to the name.  Without the
\* right one neither the fields FileName and Secured nor the end of FileData
\* is found, and the data comes from the goto TryAgain over the whole body
\* (module UploadParse).  The boundaries of these uploads are of one length, as
\* curl's are, so that the erase of an iteration takes just what was found.
ParseName(u) ==
    /\ pc[u] = "reading" /\ FreeWorker
    /\ \/ /\ boundary[Proxy] = u
          /\ key' = [key EXCEPT ![u] = req[u].name]
          /\ pc' = [pc EXCEPT ![u] = IF req[u].secured THEN "parsing" ELSE "opening"]
       \/ /\ boundary[Proxy] # u
          /\ key' = [key EXCEPT ![u] = NoName]
          /\ pc' = [pc EXCEPT ![u] = "opening"]
    /\ UNCHANGED <<boundary, table, store, req, resp, files, sends, query, counters>>

\* The next part, found with what mBoundary holds by then: the flag.
ParseFlag(u) ==
    /\ pc[u] = "parsing"
    /\ pc' = [pc EXCEPT ![u] = IF boundary[Proxy] = u THEN "hashing" ELSE "opening"]
    /\ UNCHANGED <<boundary, table, store, req, key, resp, files, sends, query, counters>>

\* generateBTree: build the tree and store its table in the proxy's database.
StoreTree(u) ==
    /\ pc[u] = "hashing"
    /\ table' = [table EXCEPT ![key[u]] = req[u].data]
    /\ pc' = [pc EXCEPT ![u] = "acking"]
    /\ UNCHANGED <<boundary, store, req, key, resp, files, sends, query, counters>>

\* RocksDB does not take the table: dumpDataOnDB ignores the status.
StoreTreeFails(u) ==
    /\ pc[u] = "hashing"
    /\ failures < MaxFailures
    /\ failures' = failures + 1
    /\ pc' = [pc EXCEPT ![u] = "acking"]
    /\ UNCHANGED <<boundary, table, store, req, key, resp, files, sends, query, crashes, losses>>

\* Mutant: the handler returns once it has closed the session.
AckRootReturns(u) ==
    /\ pc[u] = "acking"
    /\ resp' = [resp EXCEPT ![u] = "root"]
    /\ pc' = [pc EXCEPT ![u] = "done"]
    /\ UNCHANGED <<boundary, table, store, req, key, files, sends, query, counters>>

\* session->close(OK, rootHash), before anything is sent to the nodes.
AckRoot(u) ==
    /\ pc[u] = "acking"
    /\ resp' = [resp EXCEPT ![u] = "root"]
    /\ pc' = [pc EXCEPT ![u] = "opening"]
    /\ UNCHANGED <<boundary, table, store, req, key, files, sends, query, counters>>

\* Mutant: the file at the path is opened without being truncated.
OpenTmpKeeps(u) ==
    /\ pc[u] = "opening"
    /\ tmp' = IF tmp = None THEN u ELSE tmp
    /\ fd' = [fd EXCEPT ![u] = tmp']
    /\ pc' = [pc EXCEPT ![u] = "writing"]
    /\ UNCHANGED <<boundary, table, store, req, key, resp, inode, sends, query, counters>>

\* myfile.open("transfer.tmp"): truncate the file at the path or create one.
OpenTmp(u) ==
    /\ pc[u] = "opening"
    /\ LET f == IF tmp = None THEN u ELSE tmp IN
       /\ tmp' = f
       /\ inode' = [inode EXCEPT ![f] = <<>>]
       /\ fd' = [fd EXCEPT ![u] = f]
    /\ pc' = [pc EXCEPT ![u] = "writing"]
    /\ UNCHANGED <<boundary, table, store, req, key, resp, sends, query, counters>>

\* myfile << fileData, close it, start one thread per node.
WriteTmp(u) ==
    /\ pc[u] = "writing"
    /\ inode' = [inode EXCEPT ![fd[u]] = Overlay(@, req[u].data)]
    /\ fd' = [fd EXCEPT ![u] = None]
    /\ send' = [send EXCEPT ![u] = [n \in Nodes |-> "start"]]
    /\ pc' = [pc EXCEPT ![u] = "sending"]
    /\ UNCHANGED <<boundary, table, store, req, key, resp, tmp, payload, query, counters>>

\* Mutant: the threads are not joined.
FinishUnjoined(u) ==
    /\ pc[u] = "sending"
    /\ tmp' = None
    /\ inode' = [v \in Uploads |-> IF v = tmp THEN <<>> ELSE inode[v]]
    /\ resp' = [resp EXCEPT ![u] = IF @ = "none" THEN "ok" ELSE @]
    /\ pc' = [pc EXCEPT ![u] = "done"]
    /\ UNCHANGED <<boundary, table, store, req, key, fd, sends, query, counters>>

\* Mutant: the file is only removed after an upload whose name was found.
FinishNamedOnly(u) ==
    /\ pc[u] = "sending"
    /\ \A n \in Nodes : send[u][n] = "done"
    /\ tmp' = IF key[u] # NoName THEN None ELSE tmp
    /\ resp' = [resp EXCEPT ![u] = IF @ = "none" THEN "ok" ELSE @]
    /\ pc' = [pc EXCEPT ![u] = "done"]
    /\ UNCHANGED <<boundary, table, store, req, key, inode, fd, sends, query, counters>>

\* All threads joined: remove("transfer.tmp"), whoever created the file that
\* is there, and close the session.  Nobody reads a removed file again.
Finish(u) ==
    /\ pc[u] = "sending"
    /\ \A n \in Nodes : send[u][n] = "done"
    /\ tmp' = None
    /\ inode' = [v \in Uploads |-> IF v = tmp THEN <<>> ELSE inode[v]]
    /\ resp' = [resp EXCEPT ![u] = IF @ = "none" THEN "ok" ELSE @]
    /\ pc' = [pc EXCEPT ![u] = "done"]
    /\ UNCHANGED <<boundary, table, store, req, key, fd, sends, query, counters>>

-----------------------------------------------------------------------------
(* SendFile::sendFile: a curl process per node, its exit status ignored    *)

\* Mutant: a thread waits for the file instead of failing.
ReadTmpWaits(u, n) ==
    /\ send[u][n] = "start" /\ tmp # None
    /\ payload' = [payload EXCEPT ![u][n] = inode[tmp]]
    /\ send' = [send EXCEPT ![u][n] = "read"]
    /\ UNCHANGED <<boundary, table, store, pc, req, key, resp, files, query, counters>>

\* curl reads the file that is at the path when it gets to it.
ReadTmp(u, n) ==
    /\ send[u][n] = "start"
    /\ \/ /\ tmp # None
          /\ payload' = [payload EXCEPT ![u][n] = inode[tmp]]
          /\ send' = [send EXCEPT ![u][n] = "read"]
       \/ /\ tmp = None                      \* curl fails, nobody looks
          /\ send' = [send EXCEPT ![u][n] = "done"]
          /\ UNCHANGED payload
    /\ UNCHANGED <<boundary, table, store, pc, req, key, resp, files, query, counters>>

\* The node's postMethodHandler.
NodePost(u, n) ==
    /\ send[u][n] = "read"
    /\ boundary' = [boundary EXCEPT ![n] = u]
    /\ send' = [send EXCEPT ![u][n] = "posted"]
    /\ UNCHANGED <<table, store, pc, req, key, resp, files, payload, query, counters>>

\* Mutant: a node keeps the file it already has under a name.
NodeStoreKeepsOld(u, n) ==
    /\ send[u][n] = "posted"
    /\ store' = [store EXCEPT ![n][key[u]] = IF @ = <<>> THEN payload[u][n] ELSE @]
    /\ payload' = [payload EXCEPT ![u][n] = <<>>]
    /\ send' = [send EXCEPT ![u][n] = "done"]
    /\ UNCHANGED <<boundary, table, pc, req, key, resp, files, query, counters>>

\* The node's readChunkSize: parse with the node's own mBoundary, writeFile.
NodeStore(u, n) ==
    /\ send[u][n] = "posted"
    /\ LET f == IF boundary[n] = u THEN key[u] ELSE NoName IN
       store' = [store EXCEPT ![n][f] = payload[u][n]]
    /\ payload' = [payload EXCEPT ![u][n] = <<>>]
    /\ send' = [send EXCEPT ![u][n] = "done"]
    /\ UNCHANGED <<boundary, table, pc, req, key, resp, files, query, counters>>

\* The node is down, drops the connection or its RocksDB does not take the
\* file; the thread returns all the same.
SendFails(u, n) ==
    /\ send[u][n] \in {"read", "posted"}
    /\ failures < MaxFailures
    /\ failures' = failures + 1
    /\ payload' = [payload EXCEPT ![u][n] = <<>>]
    /\ send' = [send EXCEPT ![u][n] = "done"]
    /\ UNCHANGED <<boundary, table, store, pc, req, key, resp, files, query, crashes, losses>>

-----------------------------------------------------------------------------
(* The proxy's CHALLENGE handler                                           *)

\* Mutant: no node is picked.
ReadTreeNoNode(q, f) ==
    /\ query[q].pc = "idle" /\ FreeWorker /\ table[f] # <<>>
    /\ \E S \in Draws(Len(table[f])) :
          query' = [query EXCEPT ![q] =
              [NoQuery EXCEPT !.pc = "asking", !.name = f, !.tree = table[f], !.blocks = S]]
    /\ UNCHANGED <<boundary, table, store, pc, req, key, resp, files, sends, counters>>

\* challengeMethodHandler up to the curl call: parse the table, draw blocks,
\* pick a node.  read_json throws when there is no table, and the session of
\* a parse that "returns false" is never closed.
ReadTree(q, f) ==
    /\ query[q].pc = "idle" /\ FreeWorker
    /\ \/ /\ table[f] = <<>>
          /\ query' = [query EXCEPT ![q] =
                [NoQuery EXCEPT !.pc = "done", !.name = f, !.verdict = "error"]]
       \/ /\ table[f] # <<>> /\ FALSE \in ParseReturns
          /\ query' = [query EXCEPT ![q] = [NoQuery EXCEPT !.pc = "hung", !.name = f]]
       \/ /\ table[f] # <<>> /\ TRUE \in ParseReturns
          /\ \E S \in Draws(Len(table[f])), n \in Nodes :
                query' = [query EXCEPT ![q] =
                    [NoQuery EXCEPT !.pc = "asking", !.name = f, !.tree = table[f],
                                    !.blocks = S, !.node = n]]
    /\ UNCHANGED <<boundary, table, store, pc, req, key, resp, files, sends, counters>>

\* The node's part of challengeMethodHandler: the hash of every block asked
\* for; a block past the end of the file gets no hash that could be right.
NodeAnswer(q) ==
    /\ query[q].pc = "asking"
    /\ LET file == store[query[q].node][query[q].name] IN
       query' = [query EXCEPT ![q] = [@ EXCEPT !.pc = "answered",
                    !.answer = Hashes(file, query[q].blocks \cap DOMAIN file)]]
    /\ UNCHANGED <<boundary, table, store, pc, req, key, resp, files, sends, counters>>

\* The node is down: curl prints an empty line, which is no hash; a GET takes
\* it for the file.
NodeSilent(q) ==
    /\ failures < MaxFailures
    /\ failures' = failures + 1
    /\ \/ /\ query[q].pc = "asking"
          /\ query' = [query EXCEPT ![q] = [@ EXCEPT !.pc = "answered"]]
       \/ /\ query[q].pc = "getting"
          /\ query' = [query EXCEPT ![q] = [@ EXCEPT !.pc = "got", !.file = <<Newline>>]]
    /\ UNCHANGED <<boundary, table, store, pc, req, key, resp, files, sends, crashes, losses>>

\* Mutant: only the hashes that came back are compared.
ValidateReturned(q) ==
    /\ query[q].pc = "answered"
    /\ LET c == query[q] IN
       query' = [query EXCEPT ![q] =
            [NoQuery EXCEPT !.pc = "done", !.name = c.name,
                !.verdict = IF c.answer \subseteq Hashes(c.tree, c.blocks)
                            THEN TopHash(Len(c.tree), c.blocks) ELSE "mismatch"]]
    /\ UNCHANGED <<boundary, table, store, pc, req, key, resp, files, sends, counters>>

\* Mutant: the session is closed only when the hashes match.
ValidateMatchOnly(q) ==
    /\ query[q].pc = "answered"
    /\ query[q].answer = Hashes(query[q].tree, query[q].blocks)
    /\ query' = [query EXCEPT ![q] = [NoQuery EXCEPT !.pc = "done",
                    !.name = query[q].name, !.verdict = "match"]]
    /\ UNCHANGED <<boundary, table, store, pc, req, key, resp, files, sends, counters>>

\* RpiAuth::validate and the answer to the client: an empty body when a hash
\* is not that of the table, a top hash when they all are; the Content-Length
\* is left out when the top hashes folded from the blocks differ.
Validate(q) ==
    /\ query[q].pc = "answered"
    /\ LET c == query[q] IN
       query' = [query EXCEPT ![q] =
            [NoQuery EXCEPT !.pc = "done", !.name = c.name,
                !.verdict = IF c.answer = Hashes(c.tree, c.blocks)
                            THEN TopHash(Len(c.tree), c.blocks) ELSE "mismatch"]]
    /\ UNCHANGED <<boundary, table, store, pc, req, key, resp, files, sends, counters>>

-----------------------------------------------------------------------------
(* The proxy's GET handler: getMethodHandler and SendFile::getFile         *)

AskFile(q, f) ==
    /\ query[q].pc = "idle" /\ FreeWorker
    /\ \E n \in Nodes :
          query' = [query EXCEPT ![q] =
              [NoQuery EXCEPT !.pc = "getting", !.name = f, !.node = n]]
    /\ UNCHANGED <<boundary, table, store, pc, req, key, resp, files, sends, counters>>

\* The node's getMethodHandler, and the line end curl prints behind the file.
NodeReturns(q) ==
    /\ query[q].pc = "getting"
    /\ query' = [query EXCEPT ![q] = [@ EXCEPT !.pc = "got",
                    !.file = Append(store[query[q].node][query[q].name], Newline)]]
    /\ UNCHANGED <<boundary, table, store, pc, req, key, resp, files, sends, counters>>

\* The client gets what curl printed, whatever it is.
AnswerGet(q) ==
    /\ query[q].pc = "got"
    /\ query' = [query EXCEPT ![q] =
            [NoQuery EXCEPT !.pc = "done", !.name = query[q].name, !.verdict = "file"]]
    /\ UNCHANGED <<boundary, table, store, pc, req, key, resp, files, sends, counters>>

-----------------------------------------------------------------------------
(* The environment                                                         *)

\* A node's disk loses or alters one block of a file.
NodeLoses(n, f) ==
    /\ losses < MaxLosses
    /\ \E b \in DOMAIN store[n][f] :
          /\ store[n][f][b] # Lost
          /\ store' = [store EXCEPT ![n][f][b] = Lost]
    /\ losses' = losses + 1
    /\ UNCHANGED <<boundary, table, pc, req, key, resp, files, sends, query, crashes, failures>>

\* The proxy dies with its threads and curl processes and is restarted.  The
\* database and the file at the path survive; a request a node has already
\* received is still handled there.
Crash ==
    /\ crashes < MaxCrashes
    /\ crashes' = crashes + 1
    /\ boundary' = [boundary EXCEPT ![Proxy] = None]
    /\ pc' = [u \in Uploads |->
                IF pc[u] \in InHandler \cup {"reading"} THEN "dropped" ELSE pc[u]]
    /\ fd' = [u \in Uploads |-> None]
    /\ send' = [u \in Uploads |-> [n \in Nodes |->
                IF send[u][n] \in {"start", "read"} THEN "idle" ELSE send[u][n]]]
    /\ payload' = [u \in Uploads |-> [n \in Nodes |->
                IF send[u][n] = "posted" THEN payload[u][n] ELSE <<>>]]
    /\ query' = [q \in Queries |->
                IF query[q].pc \in InQuery \cup {"hung"}
                THEN [NoQuery EXCEPT !.pc = "dropped", !.name = query[q].name]
                ELSE query[q]]
    /\ UNCHANGED <<table, store, req, key, resp, tmp, inode, failures, losses>>

-----------------------------------------------------------------------------

PostStep(u) ==
    \/ \E r \in Requests : Post(u, r)
    \/ PostRefused(u) \/ ParseName(u) \/ ParseFlag(u)
    \/ StoreTree(u) \/ StoreTreeFails(u) \/ AckRoot(u)
    \/ OpenTmp(u) \/ WriteTmp(u) \/ Finish(u)

SendStep(u, n) ==
    ReadTmp(u, n) \/ NodePost(u, n) \/ NodeStore(u, n) \/ SendFails(u, n)

QueryStep(q) ==
    \/ \E f \in Names : ReadTree(q, f) \/ AskFile(q, f)
    \/ NodeAnswer(q) \/ NodeReturns(q) \/ NodeSilent(q)
    \/ Validate(q) \/ AnswerGet(q)

Environment == Crash \/ \E n \in Nodes, f \in Names : NodeLoses(n, f)

Next ==
    \/ \E u \in Uploads : PostStep(u)
    \/ \E u \in Uploads, n \in Nodes : SendStep(u, n)
    \/ \E q \in Queries : QueryStep(q)
    \/ Environment

Spec == Init /\ [][Next]_vars

\* A thread that can run a step of a handler runs it: the operating system
\* schedules every thread and every curl process.  Clients need not arrive, nor
\* send the whole body: nothing is said of Post and ParseName.
Fairness ==
    /\ \A u \in Uploads :
         WF_vars(ParseFlag(u) \/ StoreTree(u) \/ AckRoot(u)
                 \/ OpenTmp(u) \/ WriteTmp(u) \/ Finish(u))
    /\ \A u \in Uploads, n \in Nodes :
         WF_vars(ReadTmp(u, n) \/ NodePost(u, n) \/ NodeStore(u, n))
    /\ \A q \in Queries : WF_vars(NodeAnswer(q) \/ NodeReturns(q) \/ Validate(q) \/ AnswerGet(q))

FairSpec == Spec /\ Fairness

-----------------------------------------------------------------------------
(* What the service promises                                               *)

\* Type correctness of the proxy, the nodes, the threads and the challenges: a
\* handler that runs has a request, a question has a node it is put to.
TypeOK ==
    /\ boundary \in [Servers -> Uploads \cup {None}]
    /\ table \in [Keys -> Seq(Data)]
    /\ store \in [Nodes -> [Keys -> Files]]
    /\ pc \in [Uploads -> PostStates]
    /\ req \in [Uploads -> Requests \cup {None}]
    /\ key \in [Uploads -> Keys]
    /\ resp \in [Uploads -> Answers]
    /\ tmp \in Uploads \cup {None}
    /\ inode \in [Uploads -> Seq(Data)]
    /\ fd \in [Uploads -> Uploads \cup {None}]
    /\ send \in [Uploads -> [Nodes -> SendStates]]
    /\ payload \in [Uploads -> [Nodes -> Seq(Data)]]
    /\ query \in [Queries -> Challenge]
    /\ crashes \in 0..MaxCrashes /\ failures \in 0..MaxFailures
    /\ losses \in 0..MaxLosses
    /\ \A u \in Uploads : pc[u] \notin {"idle", "refused"} => req[u] \in Requests
    /\ \A q \in Queries : query[q].pc \in Asked => query[q].node \in Nodes

\* A file whose blocks are those of d, the lost ones apart.
IsCopy(file, d) ==
    /\ DOMAIN file = DOMAIN d
    /\ \A b \in DOMAIN d : file[b] \in {d[b], Lost}

\* The name was never used for an unsecured upload.
OnlySecured(f) == \A u \in Uploads : req[u] # None /\ req[u].name = f => req[u].secured

\* No upload is in a handler and no node has a request left to store.
Quiet ==
    /\ BusyPosts = {}
    /\ \A u \in Uploads, n \in Nodes : send[u][n] # "posted"

\* The static boundary, the one transfer.tmp and the ignored exit status of
\* curl never mix up files: what a node holds under a name is the whole data
\* of one upload that was sent under that name.
StoredFilesAreWhole ==
    \A n \in Nodes, f \in Names :
        store[n][f] # <<>> => \E u \in Uploads :
            /\ req[u] # None /\ req[u].name = f
            /\ IsCopy(store[n][f], req[u].data)

\* transfer.tmp exists only while some upload is between its open and its
\* remove, unless the proxy died in between: nothing is left behind, however
\* the open, write and remove calls of several uploads interleave.
TmpRemoved ==
    tmp # None => \/ crashes > 0
                  \/ \E u \in Uploads : pc[u] \in {"writing", "sending"}

\* When no upload is under way and nothing failed, every node holds the same
\* file under a name.
ReplicasAgree ==
    Quiet /\ failures = 0 /\ crashes = 0 /\ losses = 0 =>
        \A n, m \in Nodes, f \in Names : store[n][f] = store[m][f]

\* ... and that file is the one the proxy's authentication table describes,
\* if the name was never used for an unsecured upload.
RegisteredFileOnEveryNode ==
    Quiet /\ failures = 0 /\ crashes = 0 =>
        \A n \in Nodes, f \in Names :
            OnlySecured(f) => IsCopy(store[n][f], table[f])

\* The hashes of a node are rejected as a mismatch only for a reason: it lost a
\* block or did not answer, the proxy died during an upload, or an unsecured
\* upload replaced the file without replacing its table.  That validate may
\* fail right hashes, too - the verdict "differs" - is IntactFileMatches of
\* RpiAuth.
NoFalseAlarm ==
    \A q \in Queries : query[q].verdict = "mismatch" =>
        \/ losses > 0 \/ failures > 0 \/ crashes > 0
        \/ \E u \in Uploads : req[u] # None /\ req[u].name = query[q].name /\ ~req[u].secured

\* A node has stored f for an upload in the midst of which the proxy died,
\* before or after that.
StoredForTheDead(n, f) ==
    \E u \in Uploads : pc[u] = "dropped" /\ key[u] = f /\ send[u][n] = "done"

\* When the proxy answers a client with a top hash, the node it asked holds
\* the challenged blocks as the table of that moment has them, provided no
\* disk lost a block and the node did not store the file for a dead proxy: the
\* answer is never about another version, not even when the proxy had died
\* between the storing of the table and the sending of the file.
MatchIsCurrent ==
    [][\A q \in Queries :
         LET c == query[q] IN
         /\ c.pc = "answered" /\ query'[q].verdict \in {"match", "differs"}
         /\ losses = 0 /\ ~StoredForTheDead(c.node, c.name)
         => \A b \in c.blocks :
               /\ b \in DOMAIN store[c.node][c.name]
               /\ store[c.node][c.name][b] = table[c.name][b]]_vars

\* A client that GETs a file gets what every node holds when it is answered:
\* no upload comes between the question to a node and the answer, whichever
\* node is picked, unless something failed.
GetIsCurrent ==
    [][\A q \in Queries :
         /\ query[q].pc = "got" /\ query'[q].pc = "done"
         /\ crashes = 0 /\ failures = 0 /\ losses = 0
         => \A n \in Nodes : query[q].file = Append(store[n][query[q].name], Newline)]_vars

\* Every upload whose body is there and is being handled is answered in the end,
\* whatever other uploads do to the boundary and to transfer.tmp.  That the loop
\* over the parts ends is ParseEnds of UploadParse.
PostAnswered == \A u \in Uploads : pc[u] \in InHandler ~> resp[u] # "none"

\* A challenge or GET that was put to a node is concluded.
QueryConcluded == \A q \in Queries : query[q].pc \in Asked ~> query[q].pc = "done"

-----------------------------------------------------------------------------
(* Refinement: with one worker and no crash the handler's many steps, the   *)
(* curl processes and the nodes' handlers do what ReplicatedFiles promises. *)

\* The upload in a handler, as ReplicatedFiles sees it.
UploadUnderWay ==
    IF BusyPosts = {} THEN None
    ELSE LET u == CHOOSE u \in BusyPosts : TRUE IN
         [key |-> key[u], data |-> req[u].data,
          missing |-> {n \in Nodes : send[u][n] # "done"}]

Promise == INSTANCE ReplicatedFiles
    WITH Contents <- {r.data : r \in Requests}, Empty <- <<>>,
         CanMiss <- MaxFailures > 0,
         registered <- table, replica <- store, upload <- UploadUnderWay

\* The uploads are carried out one at a time, each on all nodes, however the
\* handlers, the curl processes and the nodes interleave.
ImplementsPromise == Promise!Spec

-----------------------------------------------------------------------------
(* The inductive invariant: with one worker the uploads take turns          *)

\* At most one session is in a handler at a time.
OneHandler ==
    /\ \A u, v \in BusyPosts : u = v
    /\ BusyPosts # {} => BusyQueries = {}

\* What an upload's pc says about its request, its key and its threads.
UploadInv ==
    \A u \in Uploads :
        /\ pc[u] \in {"idle", "refused"} => req[u] = None
        /\ key[u] \in Names => req[u] # None /\ key[u] = req[u].name
        /\ pc[u] \in {"parsing", "hashing", "acking"} => key[u] \in Names /\ req[u].secured
        /\ \A n \in Nodes :
            /\ send[u][n] \in {"start", "read"} => pc[u] = "sending"
            /\ send[u][n] = "idle" => pc[u] \notin {"sending", "done"}
            /\ send[u][n] = "posted" => pc[u] \in {"sending", "dropped"}
            /\ pc[u] \notin {"sending", "done", "dropped"} => send[u][n] = "idle"

\* transfer.tmp belongs to the upload whose handler runs, and holds all of
\* its data by the time the threads read it.
TmpInv ==
    \A u \in Uploads :
        /\ pc[u] = "writing" => tmp # None /\ fd[u] = tmp /\ inode[tmp] = <<>>
        /\ pc[u] = "sending" => tmp # None /\ inode[tmp] = req[u].data

\* What curl sends is the data of the upload it was started for.
PayloadInv ==
    \A u \in Uploads, n \in Nodes :
        send[u][n] \in {"read", "posted"} => payload[u][n] = req[u].data

\* Without crashes no request outlives its handler, and the boundary a node
\* holds is that of the request it handles.
NoCrashInv ==
    crashes = 0 => \A u \in Uploads :
        /\ pc[u] # "dropped"
        /\ \A n \in Nodes : send[u][n] = "posted" => boundary[n] = u

SerialInv ==
    /\ TypeOK /\ OneHandler /\ UploadInv /\ TmpInv /\ PayloadInv
    /\ StoredFilesAreWhole

\* No other upload comes between the parts of a body.
ParsingInv == \A u \in Uploads : pc[u] = "parsing" => boundary[Proxy] = u

\* Only a disk loses blocks.
IntactInv ==
    losses = 0 => \A n \in Nodes, f \in Names :
                      \A b \in DOMAIN store[n][f] : store[n][f][b] # Lost

\* Where an upload's thread is done its data is stored, and nodes differ in
\* no file but that of the upload under way.
AgreeInv ==
    crashes = 0 /\ failures = 0 /\ losses = 0 =>
        /\ \A u \in BusyPosts, n \in Nodes :
              send[u][n] = "done" => store[n][key[u]] = req[u].data
        /\ \A n, m \in Nodes, f \in Names :
              \/ store[n][f] = store[m][f]
              \/ \E u \in BusyPosts : /\ key[u] = f
                                     /\ (send[u][n] = "done") # (send[u][m] = "done")

\* The upload has put its table in the database, or passed that by.
PastTree == {"acking", "opening", "writing", "sending"}

\* From the storing of its table on, a secured upload is the one the table
\* describes; a node holds the file of the table unless its thread is not done.
RegisteredInv ==
    crashes = 0 /\ failures = 0 =>
        \A f \in Names : OnlySecured(f) =>
            /\ \A u \in BusyPosts :
                  pc[u] \in PastTree /\ key[u] = f => table[f] = req[u].data
            /\ \A n \in Nodes :
                  \/ IsCopy(store[n][f], table[f])
                  \/ \E u \in BusyPosts :
                        pc[u] \in PastTree /\ key[u] = f /\ send[u][n] # "done"

\* The table and the file a query read are still those of its file's name, the
\* file unless a request of a dead proxy came late.
QueryIs(c) ==
    LET file == store[c.node][c.name] IN
    /\ c.pc \in InQuery => c.node \in Nodes /\ c.name \in Names
    /\ c.pc \in {"asking", "answered"} =>
          c.tree = table[c.name] /\ c.blocks \subseteq DOMAIN c.tree
    /\ c.pc = "asking" => c.answer = {}
    /\ c.pc # "done" => c.verdict = "none"
    /\ c.pc = "answered" /\ losses = 0 /\ ~StoredForTheDead(c.node, c.name) =>
          \/ c.answer = Hashes(file, c.blocks \cap DOMAIN file)
          \/ failures > 0 /\ c.answer = {}
    /\ c.pc = "got" /\ losses = 0 /\ failures = 0 /\ ~StoredForTheDead(c.node, c.name) =>
          c.file = Append(file, Newline)

QueryInv == \A q \in Queries : QueryIs(query[q])

ServiceInv ==
    /\ SerialInv /\ NoCrashInv /\ ParsingInv /\ IntactInv
    /\ AgreeInv /\ RegisteredInv /\ QueryInv

-----------------------------------------------------------------------------
(* What documents say and the code does not do                             *)

\* PoDP_Anukriti_Shrimal.tex:212: the root hash is sent to the client only
\* after the file was saved on each replica.
RootAfterReplication ==
    \A u \in Uploads : resp[u] = "root" => \A n \in Nodes : send[u][n] = "done"

\* PoDP_Anukriti_Shrimal.tex:222: the server answers the client's challenge.
ChallengeAnswered == \A q \in Queries : query[q].pc # "idle" ~> query[q].pc = "done"

\* PoDP_Anukriti_Shrimal.tex:214: at any later point the client can query the
\* server for a proof about the file it sent; so an upload that was answered OK
\* was parsed under the name it was sent with.
AnsweredUploadIsNamed ==
    \A u \in Uploads : resp[u] \in {"root", "ok"} => key[u] = req[u].name

\* curl_cmd:2, a GET of the file that was uploaded is the file: the client is
\* never sent anything but what an upload sent.
ExactFileReturned ==
    \A q \in Queries : query[q].pc = "got" /\ losses = 0 /\ failures = 0 =>
        \/ query[q].file = <<>>
        \/ \E u \in Uploads : req[u] # None /\ query[q].file = req[u].data
=============================================================================
