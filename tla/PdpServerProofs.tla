------------------------- MODULE PdpServerProofs -------------------------
(***************************************************************************)
(* Theorems about PdpServer.  TypeOK holds for any number of workers, and  *)
(* nothing of an upload stays at "transfer.tmp".  With one worker the      *)
(* uploads take turns (SerialInv), hence no two of them mix at that path   *)
(* or at the nodes; without a crash of the proxy it implements             *)
(* ReplicatedFiles: uploads are carried out one at a time, each node gets  *)
(* the data of the current upload under its name, and nothing else changes *)
(* a node's files.  The nodes agree, hold what the proxy's table           *)
(* describes, and the answers to challenges and GETs are about the files   *)
(* of that moment (ServiceInv).                                            *)
(***************************************************************************)
EXTENDS PdpServer, FiniteSetTheorems, SequenceTheorems, TLAPS

-----------------------------------------------------------------------------
(* Sequences                                                               *)

\* Writing over a truncated file leaves the data written, nothing else.
LEMMA OverlayEmpty ==
    ASSUME NEW S, NEW d \in Seq(S)
    PROVE  Overlay(<<>>, d) = d
<1>1. SubSeq(<<>>, Len(d) + 1, Len(<<>>)) = <<>>
  OBVIOUS
<1>2. d \o <<>> = d
  OBVIOUS
<1> QED
  BY <1>1, <1>2 DEF Overlay

\* What a file contains after a write is made of what was there and what was
\* written.
LEMMA OverlayType ==
    ASSUME NEW S, NEW old \in Seq(S), NEW new \in Seq(S)
    PROVE  Overlay(old, new) \in Seq(S)
<1>1. SubSeq(old, Len(new) + 1, Len(old)) \in Seq(S)
  OBVIOUS
<1> QED
  BY <1>1 DEF Overlay

-----------------------------------------------------------------------------
(* Type correctness                                                        *)

\* The types are right at first.
LEMMA InitTypeOK == Init => TypeOK
BY ServersAssumption, RequestsAssumption
   DEF Init, TypeOK, Servers, Keys, Files, PostStates, SendStates, Answers,
       NoQuery, Challenge, QueryStates, InQuery, Asked, Verdicts

\* Each case proves the types of the variables the action changes; the rest
\* keeps its value.
LEMMA PostStepTypeOK ==
    ASSUME TypeOK, NEW u \in Uploads, PostStep(u)
    PROVE  TypeOK'
<1> USE DEF files, sends, counters
<1>0. /\ pc[u] \notin {"idle", "refused"} => req[u] \in Requests
      /\ \A r \in Requests : r.name \in Names /\ r.data \in Seq(Data)
  BY RequestsAssumption DEF TypeOK
<1>1. ASSUME NEW r \in Requests, Post(u, r) PROVE TypeOK'
  <2>1. req' \in [Uploads -> Requests \cup {None}] /\ req'[u] = r
    BY <1>1 DEF Post, TypeOK
  <2>2. boundary' \in [Servers -> Uploads \cup {None}]
    BY <1>1 DEF Post, TypeOK
  <2>3. pc' \in [Uploads -> PostStates]
    BY <1>1 DEF Post, TypeOK, PostStates
  <2>4. \A v \in Uploads : pc'[v] \notin {"idle", "refused"} => req'[v] \in Requests
    BY <1>1, <2>1 DEF Post, TypeOK
  <2> QED
    BY <1>1, <2>1, <2>2, <2>3, <2>4 DEF Post, TypeOK
<1>2. ASSUME PostRefused(u) PROVE TypeOK'
  <2>1. resp' \in [Uploads -> Answers]
    BY <1>2 DEF PostRefused, TypeOK, Answers
  <2>2. boundary' \in [Servers -> Uploads \cup {None}]
    BY <1>2 DEF PostRefused, TypeOK
  <2>3. pc' \in [Uploads -> PostStates]
    BY <1>2 DEF PostRefused, TypeOK, PostStates
  <2>4. \A v \in Uploads : pc'[v] \notin {"idle", "refused"} => req'[v] \in Requests
    BY <1>2 DEF PostRefused, TypeOK
  <2> QED
    BY <1>2, <2>1, <2>2, <2>3, <2>4 DEF PostRefused, TypeOK
<1>3. ASSUME ParseName(u) PROVE TypeOK'
  <2>1. req[u].name \in Names
    BY <1>0, <1>3 DEF ParseName
  <2>2. key' \in [Uploads -> Keys]
    BY <1>3, <2>1 DEF ParseName, TypeOK, Keys
  <2>3. pc' \in [Uploads -> PostStates]
    BY <1>3 DEF ParseName, TypeOK, PostStates
  <2>4. \A v \in Uploads : pc'[v] \notin {"idle", "refused"} => req'[v] \in Requests
    BY <1>3 DEF ParseName, TypeOK
  <2> QED
    BY <1>3, <2>2, <2>3, <2>4 DEF ParseName, TypeOK
<1>4. ASSUME StoreTree(u) PROVE TypeOK'
  <2>1. req[u].data \in Seq(Data)
    BY <1>0, <1>4 DEF StoreTree
  <2>2. table' \in [Keys -> Seq(Data)]
    BY <1>4, <2>1 DEF StoreTree, TypeOK
  <2>3. pc' \in [Uploads -> PostStates]
    BY <1>4 DEF StoreTree, TypeOK, PostStates
  <2>4. \A v \in Uploads : pc'[v] \notin {"idle", "refused"} => req'[v] \in Requests
    BY <1>4 DEF StoreTree, TypeOK
  <2> QED
    BY <1>4, <2>2, <2>3, <2>4 DEF StoreTree, TypeOK
<1>5. ASSUME AckRoot(u) PROVE TypeOK'
  <2>1. resp' \in [Uploads -> Answers]
    BY <1>5 DEF AckRoot, TypeOK, Answers
  <2>2. pc' \in [Uploads -> PostStates]
    BY <1>5 DEF AckRoot, TypeOK, PostStates
  <2>3. \A v \in Uploads : pc'[v] \notin {"idle", "refused"} => req'[v] \in Requests
    BY <1>5 DEF AckRoot, TypeOK
  <2> QED
    BY <1>5, <2>1, <2>2, <2>3 DEF AckRoot, TypeOK
<1>6. ASSUME OpenTmp(u) PROVE TypeOK'
  <2>1. tmp' \in Uploads /\ fd' \in [Uploads -> Uploads \cup {None}]
    BY <1>6 DEF OpenTmp, TypeOK
  <2>2. inode' \in [Uploads -> Seq(Data)]
    BY <1>6 DEF OpenTmp, TypeOK
  <2>3. pc' \in [Uploads -> PostStates]
    BY <1>6 DEF OpenTmp, TypeOK, PostStates
  <2>4. \A v \in Uploads : pc'[v] \notin {"idle", "refused"} => req'[v] \in Requests
    BY <1>6 DEF OpenTmp, TypeOK
  <2> QED
    BY <1>6, <2>1, <2>2, <2>3, <2>4 DEF OpenTmp, TypeOK
<1>7. ASSUME WriteTmp(u) PROVE TypeOK'
  <2>1. req[u].data \in Seq(Data)
    BY <1>0, <1>7 DEF WriteTmp
  <2>2. fd[u] \in Uploads => Overlay(inode[fd[u]], req[u].data) \in Seq(Data)
    BY <2>1, OverlayType DEF TypeOK
  <2>3. inode' \in [Uploads -> Seq(Data)]
    BY <1>7, <2>2 DEF WriteTmp, TypeOK
  <2>4. fd' \in [Uploads -> Uploads \cup {None}]
    BY <1>7 DEF WriteTmp, TypeOK
  <2>5. send' \in [Uploads -> [Nodes -> SendStates]]
    BY <1>7 DEF WriteTmp, TypeOK, SendStates
  <2>6. pc' \in [Uploads -> PostStates]
    BY <1>7 DEF WriteTmp, TypeOK, PostStates
  <2>7. \A v \in Uploads : pc'[v] \notin {"idle", "refused"} => req'[v] \in Requests
    BY <1>7 DEF WriteTmp, TypeOK
  <2> QED
    BY <1>7, <2>3, <2>4, <2>5, <2>6, <2>7 DEF WriteTmp, TypeOK
<1>8. ASSUME Finish(u) PROVE TypeOK'
  <2>1. inode' \in [Uploads -> Seq(Data)]
    BY <1>8 DEF Finish, TypeOK
  <2>2. resp' \in [Uploads -> Answers]
    BY <1>8 DEF Finish, TypeOK, Answers
  <2>3. pc' \in [Uploads -> PostStates]
    BY <1>8 DEF Finish, TypeOK, PostStates
  <2>4. \A v \in Uploads : pc'[v] \notin {"idle", "refused"} => req'[v] \in Requests
    BY <1>8 DEF Finish, TypeOK
  <2> QED
    BY <1>8, <2>1, <2>2, <2>3, <2>4 DEF Finish, TypeOK
<1>9. ASSUME ParseFlag(u) PROVE TypeOK'
  <2>1. pc' \in [Uploads -> PostStates]
    BY <1>9 DEF ParseFlag, TypeOK, PostStates
  <2>2. \A v \in Uploads : pc'[v] \notin {"idle", "refused"} => req'[v] \in Requests
    BY <1>9 DEF ParseFlag, TypeOK
  <2> QED
    BY <1>9, <2>1, <2>2 DEF ParseFlag, TypeOK
<1>10. ASSUME StoreTreeFails(u) PROVE TypeOK'
  <2>1. pc' \in [Uploads -> PostStates]
    BY <1>10 DEF StoreTreeFails, TypeOK, PostStates
  <2>2. \A v \in Uploads : pc'[v] \notin {"idle", "refused"} => req'[v] \in Requests
    BY <1>10 DEF StoreTreeFails, TypeOK
  <2>3. failures' \in 0..MaxFailures
    BY <1>10, ServersAssumption DEF StoreTreeFails, TypeOK
  <2> QED
    BY <1>10, <2>1, <2>2, <2>3 DEF StoreTreeFails, TypeOK
<1> QED
  BY <1>1, <1>2, <1>3, <1>4, <1>5, <1>6, <1>7, <1>8, <1>9, <1>10 DEF PostStep

\* The steps of curl and of the node it sends to keep the types.
LEMMA SendStepTypeOK ==
    ASSUME TypeOK, NEW u \in Uploads, NEW n \in Nodes, SendStep(u, n)
    PROVE  TypeOK'
<1> USE DEF files, sends, counters
<1>1. ASSUME ReadTmp(u, n) PROVE TypeOK'
  <2>1. send' \in [Uploads -> [Nodes -> SendStates]]
    <3>1. \E s \in SendStates : send' = [send EXCEPT ![u][n] = s]
      BY <1>1 DEF ReadTmp, SendStates
    <3> QED
      BY <3>1 DEF TypeOK
  <2>2. payload' \in [Uploads -> [Nodes -> Seq(Data)]]
    <3>1. tmp # None => inode[tmp] \in Seq(Data)
      BY DEF TypeOK
    <3>2. CASE tmp # None
      <4>1. payload' = [payload EXCEPT ![u][n] = inode[tmp]]
        BY <1>1, <3>2 DEF ReadTmp
      <4> QED
        BY <3>1, <3>2, <4>1 DEF TypeOK
    <3>3. CASE tmp = None
      <4>1. payload' = payload
        BY <1>1, <3>3 DEF ReadTmp
      <4> QED
        BY <4>1 DEF TypeOK
    <3> QED
      BY <3>2, <3>3
  <2> QED
    BY <1>1, <2>1, <2>2 DEF ReadTmp, TypeOK
<1>2. ASSUME NodePost(u, n) PROVE TypeOK'
  <2>1. send' \in [Uploads -> [Nodes -> SendStates]]
    BY <1>2 DEF NodePost, TypeOK, SendStates
  <2>2. boundary' \in [Servers -> Uploads \cup {None}]
    BY <1>2 DEF NodePost, TypeOK
  <2> QED
    BY <1>2, <2>1, <2>2 DEF NodePost, TypeOK
<1>3. ASSUME NodeStore(u, n) PROVE TypeOK'
  <2>1. send' \in [Uploads -> [Nodes -> SendStates]]
    BY <1>3 DEF NodeStore, TypeOK, SendStates
  <2>2. payload' \in [Uploads -> [Nodes -> Seq(Data)]]
    BY <1>3 DEF NodeStore, TypeOK
  <2>3. payload[u][n] \in Files
    <3>1. payload[u][n] \in Seq(Data)
      BY DEF TypeOK
    <3> QED
      BY <3>1 DEF Files
  <2>4. store' \in [Nodes -> [Keys -> Files]]
    BY <1>3, <2>3 DEF NodeStore, TypeOK
  <2> QED
    BY <1>3, <2>1, <2>2, <2>4 DEF NodeStore, TypeOK
<1>4. ASSUME SendFails(u, n) PROVE TypeOK'
  <2>1. send' \in [Uploads -> [Nodes -> SendStates]]
    BY <1>4 DEF SendFails, TypeOK, SendStates
  <2>2. payload' \in [Uploads -> [Nodes -> Seq(Data)]]
    BY <1>4 DEF SendFails, TypeOK
  <2>3. failures' \in 0..MaxFailures
    BY <1>4, ServersAssumption DEF SendFails, TypeOK
  <2> QED
    BY <1>4, <2>1, <2>2, <2>3 DEF SendFails, TypeOK
<1> QED
  BY <1>1, <1>2, <1>3, <1>4 DEF SendStep

\* A challenge starts from NoQuery, which is a challenge.
LEMMA NoQueryType == NoQuery \in Challenge
BY DEF NoQuery, Challenge, QueryStates, InQuery, Asked, Verdicts, Keys

\* The steps of a challenge or a GET keep the types.
LEMMA QueryStepTypeOK ==
    ASSUME TypeOK, NEW q \in Queries, QueryStep(q)
    PROVE  TypeOK'
<1> USE DEF files, sends, counters
<1>0. query[q] \in Challenge /\ NoQuery \in Challenge
  BY NoQueryType DEF TypeOK
<1>1. ASSUME NEW f \in Names, ReadTree(q, f) PROVE TypeOK'
  <2>1. table[f] \in Seq(Data) /\ f \in Keys
    BY DEF TypeOK, Keys
  <2>2. \A S \in Draws(Len(table[f])) : S \in SUBSET Nat
    BY <2>1 DEF Draws
  <2>3. PICK c : /\ query' = [query EXCEPT ![q] = c]
                 /\ \/ c = [NoQuery EXCEPT !.pc = "done", !.name = f, !.verdict = "error"]
                    \/ c = [NoQuery EXCEPT !.pc = "hung", !.name = f]
                    \/ \E S \in Draws(Len(table[f])), n \in Nodes :
                          c = [NoQuery EXCEPT !.pc = "asking", !.name = f, !.tree = table[f],
                                              !.blocks = S, !.node = n]
    BY <1>1 DEF ReadTree
  <2>4. c \in Challenge /\ (c.pc \in Asked => c.node \in Nodes)
    <3>1. CASE c = [NoQuery EXCEPT !.pc = "done", !.name = f, !.verdict = "error"]
      BY <1>0, <2>1, <3>1 DEF Challenge, QueryStates, InQuery, Asked, Verdicts
    <3>2. CASE c = [NoQuery EXCEPT !.pc = "hung", !.name = f]
      BY <1>0, <2>1, <3>2 DEF Challenge, QueryStates, InQuery, Asked
    <3>3. ASSUME NEW S \in Draws(Len(table[f])), NEW n \in Nodes,
                 c = [NoQuery EXCEPT !.pc = "asking", !.name = f, !.tree = table[f],
                                     !.blocks = S, !.node = n]
          PROVE  c \in Challenge /\ c.node \in Nodes
      <4>1. S \in SUBSET Nat
        BY <2>2
      <4> QED
        BY <1>0, <2>1, <3>3, <4>1 DEF Challenge, QueryStates, InQuery, Asked
    <3> QED
      BY <2>3, <3>1, <3>2, <3>3 DEF Asked
  <2>5. query' \in [Queries -> Challenge]
    BY <2>3, <2>4 DEF TypeOK
  <2>6. \A d \in Queries : query'[d].pc \in Asked => query'[d].node \in Nodes
    BY <2>3, <2>4 DEF TypeOK
  <2> QED
    BY <1>1, <2>5, <2>6 DEF ReadTree, TypeOK
<1>2. ASSUME NodeAnswer(q) PROVE TypeOK'
  <2> DEFINE file == store[query[q].node][query[q].name]
             ans  == Hashes(file, query[q].blocks \cap DOMAIN file)
  <2>1. query[q].node \in Nodes /\ query[q].name \in Keys /\ query[q].blocks \in SUBSET Nat
    BY <1>0, <1>2 DEF NodeAnswer, TypeOK, Challenge, Asked
  <2>2. file \in Seq(Data \cup {Lost})
    BY <2>1 DEF TypeOK, Files
  <2>3. \A b \in query[q].blocks \cap DOMAIN file : b \in Nat /\ file[b] \in Data \cup {Lost}
    BY <2>1, <2>2
  <2>4. ans \in SUBSET (Nat \X (Data \cup {Lost}))
    <3> HIDE DEF file
    <3> QED
      BY <2>3 DEF Hashes
  <2>5. query' = [query EXCEPT ![q] = [@ EXCEPT !.pc = "answered", !.answer = ans]]
    BY <1>2 DEF NodeAnswer
  <2> HIDE DEF ans
  <2>6. query'[q] \in Challenge /\ query'[q].pc = "answered"
    BY <1>0, <2>4, <2>5 DEF TypeOK, Challenge, QueryStates, InQuery, Asked
  <2>7. query' \in [Queries -> Challenge]
    BY <2>5, <2>6 DEF TypeOK
  <2>8. \A c \in Queries : query'[c].pc \in Asked => query'[c].node \in Nodes
    BY <2>5, <2>6 DEF TypeOK, Asked
  <2> QED
    BY <1>2, <2>7, <2>8 DEF NodeAnswer, TypeOK
<1>3. ASSUME NodeSilent(q) PROVE TypeOK'
  <2>1. PICK c : /\ query' = [query EXCEPT ![q] = c]
                 /\ \/ c = [query[q] EXCEPT !.pc = "answered"]
                    \/ c = [query[q] EXCEPT !.pc = "got", !.file = <<Newline>>]
    BY <1>3 DEF NodeSilent
  <2>2. <<Newline>> \in Seq(Data \cup {Lost, Newline})
    OBVIOUS
  <2>3. c \in Challenge /\ c.pc \notin Asked
    BY <1>0, <2>1, <2>2 DEF Challenge, QueryStates, InQuery, Asked
  <2>4. query' \in [Queries -> Challenge]
    BY <2>1, <2>3 DEF TypeOK
  <2>5. \A d \in Queries : query'[d].pc \in Asked => query'[d].node \in Nodes
    BY <2>1, <2>3 DEF TypeOK
  <2>6. failures' \in 0..MaxFailures
    BY <1>3, ServersAssumption DEF NodeSilent, TypeOK
  <2> QED
    BY <1>3, <2>4, <2>5, <2>6 DEF NodeSilent, TypeOK
<1>4. ASSUME Validate(q) PROVE TypeOK'
  <2>1. query'[q] \in Challenge /\ query'[q].pc = "done"
    BY ZenonT(30), <1>0, <1>4 DEF Validate, TopHash, TypeOK, Challenge, QueryStates, InQuery, Asked, Verdicts
  <2>2. query' \in [Queries -> Challenge]
    BY <1>4, <2>1 DEF Validate, TypeOK
  <2>3. \A c \in Queries : query'[c].pc \in Asked => query'[c].node \in Nodes
    BY <1>4, <2>1 DEF Validate, TypeOK, Asked
  <2> QED
    BY <1>4, <2>2, <2>3 DEF Validate, TypeOK
<1>5. ASSUME NEW f \in Names, AskFile(q, f) PROVE TypeOK'
  <2>1. PICK n \in Nodes : query' = [query EXCEPT ![q] =
                [NoQuery EXCEPT !.pc = "getting", !.name = f, !.node = n]]
    BY <1>5 DEF AskFile
  <2>2. query'[q] \in Challenge /\ query'[q].node \in Nodes
    BY <1>0, <2>1 DEF TypeOK, Challenge, QueryStates, InQuery, Asked, Keys
  <2>3. query' \in [Queries -> Challenge]
    BY <2>1, <2>2 DEF TypeOK
  <2>4. \A d \in Queries : query'[d].pc \in Asked => query'[d].node \in Nodes
    BY <2>1, <2>2 DEF TypeOK
  <2> QED
    BY <1>5, <2>3, <2>4 DEF AskFile, TypeOK
<1>6. ASSUME NodeReturns(q) PROVE TypeOK'
  <2> DEFINE file == Append(store[query[q].node][query[q].name], Newline)
  <2>1. query[q].node \in Nodes /\ query[q].name \in Keys
    BY <1>0, <1>6 DEF NodeReturns, TypeOK, Challenge, Asked
  <2>2. file \in Seq(Data \cup {Lost, Newline})
    <3>1. store[query[q].node][query[q].name] \in Seq(Data \cup {Lost})
      BY <2>1 DEF TypeOK, Files
    <3> QED
      BY <3>1
  <2>3. query' = [query EXCEPT ![q] = [@ EXCEPT !.pc = "got", !.file = file]]
    BY <1>6 DEF NodeReturns
  <2> HIDE DEF file
  <2>4. query'[q] \in Challenge /\ query'[q].pc \notin Asked
    BY <1>0, <2>2, <2>3 DEF TypeOK, Challenge, QueryStates, InQuery, Asked
  <2>5. query' \in [Queries -> Challenge]
    BY <2>3, <2>4 DEF TypeOK
  <2>6. \A d \in Queries : query'[d].pc \in Asked => query'[d].node \in Nodes
    BY <2>3, <2>4 DEF TypeOK
  <2> QED
    BY <1>6, <2>5, <2>6 DEF NodeReturns, TypeOK
<1>7. ASSUME AnswerGet(q) PROVE TypeOK'
  <2>1. query'[q] \in Challenge /\ query'[q].pc = "done"
    BY <1>0, <1>7 DEF AnswerGet, TypeOK, Challenge, QueryStates, Verdicts
  <2>2. query' \in [Queries -> Challenge]
    BY <1>7, <2>1 DEF AnswerGet, TypeOK
  <2>3. \A d \in Queries : query'[d].pc \in Asked => query'[d].node \in Nodes
    BY <1>7, <2>1 DEF AnswerGet, TypeOK, Asked
  <2> QED
    BY <1>7, <2>2, <2>3 DEF AnswerGet, TypeOK
<1> QED
  BY <1>1, <1>2, <1>3, <1>4, <1>5, <1>6, <1>7 DEF QueryStep

\* A crash and a loss keep the types.
LEMMA EnvironmentTypeOK ==
    ASSUME TypeOK, Environment
    PROVE  TypeOK'
<1> USE DEF files, sends, counters
<1>1. ASSUME NEW n \in Nodes, NEW f \in Names, NodeLoses(n, f) PROVE TypeOK'
  <2>1. PICK b \in DOMAIN store[n][f] : store' = [store EXCEPT ![n][f][b] = Lost]
    BY <1>1 DEF NodeLoses
  <2>2. f \in Keys /\ store[n][f] \in Seq(Data \cup {Lost})
    BY DEF TypeOK, Keys, Files
  <2>3. [store[n][f] EXCEPT ![b] = Lost] \in Seq(Data \cup {Lost})
    BY <2>2
  <2>4. store' = [store EXCEPT ![n] = [store[n] EXCEPT ![f] = [store[n][f] EXCEPT ![b] = Lost]]]
    BY <2>1
  <2>5. store' \in [Nodes -> [Keys -> Files]]
    BY <2>2, <2>3, <2>4 DEF TypeOK, Files
  <2>6. losses' \in 0..MaxLosses
    BY <1>1, ServersAssumption DEF NodeLoses, TypeOK
  <2> QED
    BY <1>1, <2>5, <2>6 DEF NodeLoses, TypeOK
<1>2. ASSUME Crash PROVE TypeOK'
  <2>1. boundary' \in [Servers -> Uploads \cup {None}]
    BY <1>2 DEF Crash, TypeOK
  <2>2. pc' \in [Uploads -> PostStates]
    BY <1>2 DEF Crash, TypeOK, PostStates
  <2>3. fd' \in [Uploads -> Uploads \cup {None}]
    BY <1>2 DEF Crash
  <2>4. send' \in [Uploads -> [Nodes -> SendStates]]
    BY <1>2 DEF Crash, TypeOK, SendStates
  <2>5. payload' \in [Uploads -> [Nodes -> Seq(Data)]]
    <3>1. payload' = [u \in Uploads |-> [n \in Nodes |->
                         IF send[u][n] = "posted" THEN payload[u][n] ELSE <<>>]]
      BY <1>2 DEF Crash
    <3>2. <<>> \in Seq(Data) /\ payload \in [Uploads -> [Nodes -> Seq(Data)]]
      BY DEF TypeOK
    <3> QED
      BY <3>1, <3>2
  <2>6. \A q \in Queries : query'[q] \in Challenge /\ query'[q].pc \notin Asked
    <3> TAKE q \in Queries
    <3>1. query[q] \in Challenge /\ NoQuery \in Challenge
      BY NoQueryType DEF TypeOK
    <3>2. [NoQuery EXCEPT !.pc = "dropped", !.name = query[q].name] \in Challenge
      BY <3>1 DEF Challenge, QueryStates
    <3> QED
      BY <1>2, <3>1, <3>2 DEF Crash, Challenge, InQuery, Asked
  <2>7. query' \in [Queries -> Challenge]
    BY <1>2, <2>6 DEF Crash
  <2>8. crashes' \in 0..MaxCrashes
    <3>1. crashes < MaxCrashes /\ crashes' = crashes + 1
      BY <1>2 DEF Crash
    <3>2. crashes \in 0..MaxCrashes /\ MaxCrashes \in Nat
      BY ServersAssumption DEF TypeOK
    <3> QED
      BY <3>1, <3>2
  <2>9. \A u \in Uploads : pc'[u] \notin {"idle", "refused"} => req'[u] \in Requests
    <3>1. /\ pc' = [u \in Uploads |->
                      IF pc[u] \in InHandler \cup {"reading"} THEN "dropped" ELSE pc[u]]
          /\ req' = req
      BY <1>2 DEF Crash
    <3>2. "idle" \notin InHandler \cup {"reading"} /\ "refused" \notin InHandler \cup {"reading"}
      BY DEF InHandler
    <3> QED
      BY <3>1, <3>2 DEF TypeOK
  <2> QED
    BY <1>2, <2>1, <2>2, <2>3, <2>4, <2>5, <2>6, <2>7, <2>8, <2>9 DEF Crash, TypeOK
<1> QED
  BY <1>1, <1>2 DEF Environment

\* So does every step.
LEMMA NextTypeOK == TypeOK /\ [Next]_vars => TypeOK'
<1> SUFFICES ASSUME TypeOK, [Next]_vars PROVE TypeOK'
  OBVIOUS
<1>1. CASE UNCHANGED vars
  BY <1>1 DEF vars, files, sends, counters, TypeOK
<1>2. CASE Next
  BY <1>2, PostStepTypeOK, SendStepTypeOK, QueryStepTypeOK, EnvironmentTypeOK DEF Next
<1> QED
  BY <1>1, <1>2

\* The variables keep their types in every behaviour, for any number of
\* workers, nodes and uploads and any bounds on what fails.
THEOREM TypeCorrect == Spec => []TypeOK
<1>1. Init => TypeOK
  BY InitTypeOK
<1>2. TypeOK /\ [Next]_vars => TypeOK'
  BY NextTypeOK
<1> QED
  BY <1>1, <1>2, PTL DEF Spec

-----------------------------------------------------------------------------
(* One worker: the uploads take turns                                      *)

\* A thread is free only when no handler runs.
LEMMA FreeMeansIdle ==
    ASSUME Workers = 1, FreeWorker
    PROVE  BusyPosts = {} /\ BusyQueries = {}
<1>1. IsFiniteSet(BusyPosts) /\ IsFiniteSet(BusyQueries)
  <2>1. BusyPosts \in SUBSET Uploads /\ BusyQueries \in SUBSET Queries
    BY DEF BusyPosts, BusyQueries
  <2> QED
    BY <2>1, ServersAssumption, FS_Subset
<1>2. Cardinality(BusyPosts) \in Nat /\ Cardinality(BusyQueries) \in Nat
  BY <1>1, FS_CardinalityType
<1>3. Cardinality(BusyPosts) = 0 /\ Cardinality(BusyQueries) = 0
  BY <1>2 DEF FreeWorker
<1> QED
  BY <1>1, <1>3, FS_EmptySet

\* What the clients sent is not forgotten, so the files stay copies of it.
LEMMA WholeFilesPersist ==
    ASSUME StoredFilesAreWhole, store' = store,
           \A v \in Uploads : req[v] # None => req'[v] = req[v]
    PROVE  StoredFilesAreWhole'
<1> SUFFICES ASSUME NEW n \in Nodes, NEW f \in Names, store'[n][f] # <<>>
             PROVE  \E u \in Uploads : /\ req'[u] # None /\ req'[u].name = f
                                       /\ IsCopy(store'[n][f], req'[u].data)
  BY DEF StoredFilesAreWhole, IsCopy
<1>1. PICK u \in Uploads : /\ req[u] # None /\ req[u].name = f
                           /\ IsCopy(store[n][f], req[u].data)
  BY DEF StoredFilesAreWhole
<1>2. req'[u] = req[u] /\ store'[n][f] = store[n][f]
  BY <1>1
<1> QED
  BY <1>1, <1>2

\* An upload starts when no handler runs.
LEMMA PostSerial ==
    ASSUME Workers = 1, SerialInv, NEW u \in Uploads, NEW r \in Requests, Post(u, r)
    PROVE  OneHandler' /\ UploadInv' /\ TmpInv' /\ PayloadInv' /\ StoredFilesAreWhole'
<1> USE DEF SerialInv, files, sends
<1>0. /\ pc[u] = "idle" /\ req[u] = None /\ r # None
      /\ pc' = [pc EXCEPT ![u] = "reading"] /\ req' = [req EXCEPT ![u] = r]
      /\ key' = key /\ store' = store /\ tmp' = tmp /\ inode' = inode /\ fd' = fd
      /\ send' = send /\ payload' = payload /\ query' = query
      /\ pc \in [Uploads -> PostStates] /\ req \in [Uploads -> Requests \cup {None}]
  BY RequestsAssumption DEF Post, UploadInv, TypeOK
<1>1. BusyPosts' = {}
  BY <1>0, FreeMeansIdle DEF Post, BusyPosts, InHandler
<1>2. OneHandler'
  BY <1>1 DEF OneHandler
<1>3. UploadInv'
  BY <1>0 DEF UploadInv, InHandler
<1>4. TmpInv'
  BY <1>0, <1>1 DEF TmpInv, BusyPosts, InHandler
<1>5. PayloadInv'
  BY <1>0 DEF PayloadInv, UploadInv
<1>6. StoredFilesAreWhole'
  BY <1>0, WholeFilesPersist
<1> QED
  BY <1>2, <1>3, <1>4, <1>5, <1>6

\* The steps of its handler before it opens the file.
LEMMA HandlerSerial ==
    ASSUME Workers = 1, SerialInv, NEW u \in Uploads,
           PostRefused(u) \/ ParseName(u) \/ ParseFlag(u)
           \/ StoreTree(u) \/ StoreTreeFails(u) \/ AckRoot(u)
    PROVE  OneHandler' /\ UploadInv' /\ TmpInv' /\ PayloadInv' /\ StoredFilesAreWhole'
<1> USE DEF SerialInv, files, sends
<1>0. /\ req' = req /\ store' = store /\ tmp' = tmp /\ inode' = inode /\ fd' = fd
      /\ send' = send /\ payload' = payload /\ query' = query
      /\ pc \in [Uploads -> PostStates] /\ key \in [Uploads -> Keys]
  BY DEF PostRefused, ParseName, ParseFlag, StoreTree, StoreTreeFails, AckRoot, TypeOK
<1>1. StoredFilesAreWhole'
  BY <1>0, WholeFilesPersist
<1>2. CASE PostRefused(u)
  <2>1. /\ pc' = [pc EXCEPT ![u] = "refused"] /\ pc[u] = "idle" /\ key' = key
        /\ BusyPosts = {}
    BY <1>2, FreeMeansIdle DEF PostRefused
  <2>2. BusyPosts' = {}
    BY <1>0, <2>1 DEF BusyPosts, InHandler
  <2> QED
    BY <1>0, <1>1, <2>1, <2>2 DEF OneHandler, UploadInv, TmpInv, PayloadInv, BusyPosts, InHandler
<1>3. CASE ParseName(u)
  <2>1. /\ pc[u] = "reading" /\ BusyPosts = {} /\ BusyQueries = {}
        /\ \/ /\ key' = [key EXCEPT ![u] = req[u].name]
              /\ pc' = [pc EXCEPT ![u] = IF req[u].secured THEN "parsing" ELSE "opening"]
           \/ /\ key' = [key EXCEPT ![u] = NoName]
              /\ pc' = [pc EXCEPT ![u] = "opening"]
    BY <1>3, FreeMeansIdle DEF ParseName
  <2>2. req[u] \in Requests /\ req[u] # None /\ req[u].name \in Names /\ NoName \notin Names
    BY <2>1, RequestsAssumption, ServersAssumption DEF TypeOK
  <2>3. \A v \in Uploads : pc'[v] \in InHandler => v = u
    BY <1>0, <2>1 DEF BusyPosts, InHandler
  <2>4. OneHandler'
    BY <1>0, <2>1, <2>3 DEF OneHandler, BusyPosts, BusyQueries
  <2>5. UploadInv'
    <3>1. \A v \in Uploads \ {u} : pc'[v] = pc[v] /\ key'[v] = key[v]
      BY <1>0, <2>1
    <3>2. pc'[u] \in {"parsing", "opening"} /\ key'[u] \in {req[u].name, NoName}
      BY <1>0, <2>1
    <3>3. pc'[u] = "parsing" => key'[u] = req[u].name /\ req[u].secured
      BY <1>0, <2>1
    <3>4. \A n \in Nodes : send[u][n] = "idle"
      BY <2>1 DEF UploadInv
    <3> QED
      BY <1>0, <2>1, <2>2, <3>1, <3>2, <3>3, <3>4 DEF UploadInv, InHandler
  <2>6. TmpInv'
    BY <1>0, <2>1, <2>3 DEF TmpInv, InHandler
  <2>7. PayloadInv'
    BY <1>0 DEF PayloadInv
  <2> QED
    BY <1>1, <2>4, <2>5, <2>6, <2>7
<1>4. CASE ParseFlag(u) \/ StoreTree(u) \/ StoreTreeFails(u) \/ AckRoot(u)
  <2>1. /\ pc[u] \in {"parsing", "hashing", "acking"} /\ key' = key
        /\ \E s \in {"hashing", "acking", "opening"} : pc' = [pc EXCEPT ![u] = s]
    BY <1>4 DEF ParseFlag, StoreTree, StoreTreeFails, AckRoot
  <2>2. BusyPosts' = BusyPosts /\ BusyQueries' = BusyQueries
    BY <1>0, <2>1 DEF BusyPosts, BusyQueries, InHandler
  <2>3. OneHandler'
    BY <2>2 DEF OneHandler
  <2>4. UploadInv'
    BY <1>0, <2>1 DEF UploadInv, InHandler
  <2>5. TmpInv' /\ PayloadInv'
    BY <1>0, <2>1 DEF TmpInv, PayloadInv
  <2> QED
    BY <1>1, <2>3, <2>4, <2>5
<1> QED
  BY <1>2, <1>3, <1>4

\* Opening "transfer.tmp", which leaves it empty.
LEMMA OpenTmpSerial ==
    ASSUME Workers = 1, SerialInv, NEW u \in Uploads, OpenTmp(u)
    PROVE  OneHandler' /\ UploadInv' /\ TmpInv' /\ PayloadInv' /\ StoredFilesAreWhole'
<1> USE DEF SerialInv, files, sends
<1>0. /\ pc[u] = "opening" /\ pc' = [pc EXCEPT ![u] = "writing"]
      /\ tmp' \in Uploads /\ fd' = [fd EXCEPT ![u] = tmp']
      /\ inode' = [inode EXCEPT ![tmp'] = <<>>]
      /\ req' = req /\ key' = key /\ store' = store /\ send' = send
      /\ payload' = payload /\ query' = query
      /\ pc \in [Uploads -> PostStates] /\ fd \in [Uploads -> Uploads \cup {None}]
      /\ inode \in [Uploads -> Seq(Data)]
  BY DEF OpenTmp, TypeOK
<1>1. BusyPosts' = BusyPosts /\ BusyQueries' = BusyQueries
  BY <1>0 DEF BusyPosts, BusyQueries, InHandler
<1>2. OneHandler'
  BY <1>1 DEF OneHandler
<1>3. UploadInv'
  BY <1>0 DEF UploadInv, InHandler
<1>4. \A v \in Uploads : pc[v] \in {"writing", "sending"} => v = u
  BY <1>0 DEF OneHandler, BusyPosts, InHandler
<1>5. TmpInv'
  BY <1>0, <1>4, ServersAssumption DEF TmpInv
<1>6. PayloadInv'
  BY <1>0 DEF PayloadInv
<1>7. StoredFilesAreWhole'
  BY <1>0, WholeFilesPersist
<1> QED
  BY <1>2, <1>3, <1>5, <1>6, <1>7

\* Writing it, after which it is whole.
LEMMA WriteTmpSerial ==
    ASSUME Workers = 1, SerialInv, NEW u \in Uploads, WriteTmp(u)
    PROVE  OneHandler' /\ UploadInv' /\ TmpInv' /\ PayloadInv' /\ StoredFilesAreWhole'
<1> USE DEF SerialInv, files, sends
<1>0. /\ pc[u] = "writing" /\ pc' = [pc EXCEPT ![u] = "sending"]
      /\ inode' = [inode EXCEPT ![fd[u]] = Overlay(@, req[u].data)]
      /\ send' = [send EXCEPT ![u] = [n \in Nodes |-> "start"]]
      /\ tmp' = tmp /\ req' = req /\ key' = key /\ store' = store
      /\ payload' = payload /\ query' = query
      /\ pc \in [Uploads -> PostStates] /\ tmp \in Uploads \cup {None}
      /\ inode \in [Uploads -> Seq(Data)] /\ send \in [Uploads -> [Nodes -> SendStates]]
      /\ req[u] \in Requests
  BY DEF WriteTmp, TypeOK
<1>1. BusyPosts' = BusyPosts /\ BusyQueries' = BusyQueries
  BY <1>0 DEF BusyPosts, BusyQueries, InHandler
<1>2. OneHandler'
  BY <1>1 DEF OneHandler
<1>3. UploadInv'
  <2>1. \A v \in Uploads : pc[v] \in {"writing", "sending"} => v = u
    BY <1>0 DEF OneHandler, BusyPosts, InHandler
  <2> QED
    BY <1>0, <2>1 DEF UploadInv, InHandler
<1>4. \A v \in Uploads : pc[v] \in {"writing", "sending"} => v = u
  BY <1>0 DEF OneHandler, BusyPosts, InHandler
<1>5. TmpInv'
  <2>1. tmp \in Uploads /\ fd[u] = tmp /\ inode[tmp] = <<>>
    BY <1>0 DEF TmpInv
  <2>2. req[u].data \in Seq(Data)
    BY <1>0, RequestsAssumption
  <2>3. inode'[tmp] = req[u].data
    BY <1>0, <2>1, <2>2, OverlayEmpty
  <2>4. \A v \in Uploads : pc'[v] # "writing" /\ (pc'[v] = "sending" => v = u)
    BY <1>0, <1>4
  <2> QED
    BY <1>0, <2>1, <2>3, <2>4, ServersAssumption DEF TmpInv
<1>6. PayloadInv'
  BY <1>0 DEF PayloadInv
<1>7. StoredFilesAreWhole'
  BY <1>0, WholeFilesPersist
<1> QED
  BY <1>2, <1>3, <1>5, <1>6, <1>7

\* Removing it at the end.
LEMMA FinishSerial ==
    ASSUME Workers = 1, SerialInv, NEW u \in Uploads, Finish(u)
    PROVE  OneHandler' /\ UploadInv' /\ TmpInv' /\ PayloadInv' /\ StoredFilesAreWhole'
<1> USE DEF SerialInv, files, sends
<1>0. /\ pc[u] = "sending" /\ pc' = [pc EXCEPT ![u] = "done"]
      /\ \A n \in Nodes : send[u][n] = "done"
      /\ req' = req /\ key' = key /\ store' = store /\ send' = send
      /\ payload' = payload /\ query' = query
      /\ pc \in [Uploads -> PostStates]
  BY DEF Finish, TypeOK
<1>1. \A v \in Uploads : pc'[v] \notin InHandler
  BY <1>0 DEF OneHandler, BusyPosts, InHandler
<1>2. OneHandler'
  BY <1>1 DEF OneHandler, BusyPosts
<1>3. UploadInv'
  BY <1>0 DEF UploadInv, InHandler
<1>4. TmpInv'
  BY <1>1 DEF TmpInv, InHandler
<1>5. PayloadInv'
  BY <1>0 DEF PayloadInv
<1>6. StoredFilesAreWhole'
  BY <1>0, WholeFilesPersist
<1> QED
  BY <1>2, <1>3, <1>4, <1>5, <1>6

\* The steps of curl, which read the whole file, and of the nodes.
LEMMA SendSerial ==
    ASSUME Workers = 1, SerialInv, NEW u \in Uploads, NEW n \in Nodes, SendStep(u, n)
    PROVE  OneHandler' /\ UploadInv' /\ TmpInv' /\ PayloadInv' /\ StoredFilesAreWhole'
<1> USE DEF SerialInv, files, sends
<1>0. /\ pc' = pc /\ req' = req /\ key' = key /\ query' = query
      /\ tmp' = tmp /\ inode' = inode /\ fd' = fd
      /\ send \in [Uploads -> [Nodes -> SendStates]]
      /\ payload \in [Uploads -> [Nodes -> Seq(Data)]]
  BY DEF SendStep, ReadTmp, NodePost, NodeStore, SendFails, TypeOK
<1>1. OneHandler' /\ TmpInv'
  BY <1>0 DEF OneHandler, BusyPosts, BusyQueries, TmpInv
<1>2. CASE ReadTmp(u, n)
  <2>1. send[u][n] = "start" /\ pc[u] = "sending" /\ store' = store
    BY <1>2 DEF ReadTmp, UploadInv
  <2>2. tmp # None /\ inode[tmp] = req[u].data
    BY <2>1 DEF TmpInv
  <2>3. /\ payload' = [payload EXCEPT ![u][n] = req[u].data]
        /\ send' = [send EXCEPT ![u][n] = "read"]
    BY <1>2, <2>2 DEF ReadTmp
  <2>4. UploadInv'
    BY <1>0, <2>1, <2>3 DEF UploadInv
  <2>5. PayloadInv'
    BY <1>0, <2>3 DEF PayloadInv
  <2>6. StoredFilesAreWhole'
    BY <1>0, <2>1, WholeFilesPersist
  <2> QED
    BY <1>1, <2>4, <2>5, <2>6
<1>3. CASE NodePost(u, n)
  <2>1. /\ send[u][n] = "read" /\ send' = [send EXCEPT ![u][n] = "posted"]
        /\ payload' = payload /\ store' = store
    BY <1>3 DEF NodePost
  <2>2. UploadInv' /\ PayloadInv'
    BY <1>0, <2>1 DEF UploadInv, PayloadInv
  <2>3. StoredFilesAreWhole'
    BY <1>0, <2>1, WholeFilesPersist
  <2> QED
    BY <1>1, <2>2, <2>3
<1>4. CASE SendFails(u, n)
  <2>1. /\ send[u][n] \in {"read", "posted"} /\ send' = [send EXCEPT ![u][n] = "done"]
        /\ payload' = [payload EXCEPT ![u][n] = <<>>] /\ store' = store
    BY <1>4 DEF SendFails
  <2>2. UploadInv' /\ PayloadInv'
    BY <1>0, <2>1 DEF UploadInv, PayloadInv
  <2>3. StoredFilesAreWhole'
    BY <1>0, <2>1, WholeFilesPersist
  <2> QED
    BY <1>1, <2>2, <2>3
<1>5. CASE NodeStore(u, n)
  <2> DEFINE f == IF boundary[n] = u THEN key[u] ELSE NoName
  <2>1. /\ send[u][n] = "posted" /\ send' = [send EXCEPT ![u][n] = "done"]
        /\ payload' = [payload EXCEPT ![u][n] = <<>>]
        /\ store' = [store EXCEPT ![n][f] = payload[u][n]]
    BY <1>5 DEF NodeStore
  <2>2. UploadInv' /\ PayloadInv'
    BY <1>0, <2>1 DEF UploadInv, PayloadInv
  <2>3. payload[u][n] = req[u].data /\ store \in [Nodes -> [Keys -> Files]] /\ f \in Keys
    BY <2>1, ServersAssumption DEF PayloadInv, TypeOK, Keys
  <2>4. f \in Names => req[u] # None /\ req[u].name = f
    BY ServersAssumption DEF UploadInv
  <2>5. IsCopy(req[u].data, req[u].data)
    BY DEF IsCopy
  <2> HIDE DEF f
  <2>6. ASSUME NEW m \in Nodes, NEW g \in Names, store'[m][g] # <<>>
        PROVE  \E v \in Uploads : /\ req'[v] # None /\ req'[v].name = g
                                  /\ IsCopy(store'[m][g], req'[v].data)
    <3>1. CASE m = n /\ g = f
      <4>1. store'[m][g] = req[u].data
        BY <2>1, <2>3, <3>1
      <4> QED
        BY <1>0, <2>4, <2>5, <3>1, <4>1
    <3>2. CASE ~(m = n /\ g = f)
      <4>1. store'[m][g] = store[m][g]
        BY <2>1, <2>3, <3>2 DEF Keys
      <4> QED
        BY <1>0, <2>6, <4>1 DEF StoredFilesAreWhole
    <3> QED
      BY <3>1, <3>2
  <2>7. StoredFilesAreWhole'
    BY <2>6 DEF StoredFilesAreWhole, IsCopy
  <2> QED
    BY <1>1, <2>2, <2>7
<1> QED
  BY <1>2, <1>3, <1>4, <1>5 DEF SendStep

\* The steps of challenges and GETs, which touch none of it.
LEMMA QuerySerial ==
    ASSUME Workers = 1, SerialInv, NEW q \in Queries, QueryStep(q)
    PROVE  OneHandler' /\ UploadInv' /\ TmpInv' /\ PayloadInv' /\ StoredFilesAreWhole'
<1> USE DEF SerialInv, files, sends
<1>0. /\ pc' = pc /\ req' = req /\ key' = key /\ store' = store
      /\ tmp' = tmp /\ inode' = inode /\ fd' = fd /\ send' = send /\ payload' = payload
      /\ query \in [Queries -> Challenge]
  BY DEF QueryStep, ReadTree, AskFile, NodeAnswer, NodeReturns, NodeSilent, Validate,
         AnswerGet, TypeOK
<1>1. UploadInv' /\ TmpInv' /\ PayloadInv'
  BY <1>0 DEF UploadInv, TmpInv, PayloadInv
<1>2. StoredFilesAreWhole'
  BY <1>0, WholeFilesPersist
<1>3. BusyPosts' = BusyPosts
  BY <1>0 DEF BusyPosts
<1>4. CASE \E f \in Names : ReadTree(q, f) \/ AskFile(q, f)
  <2>1. BusyPosts = {}
    BY <1>4, FreeMeansIdle DEF ReadTree, AskFile
  <2> QED
    BY <1>1, <1>2, <1>3, <2>1 DEF OneHandler
<1>5. CASE NodeAnswer(q) \/ NodeReturns(q) \/ NodeSilent(q) \/ Validate(q) \/ AnswerGet(q)
  <2>1. q \in BusyQueries
    BY <1>5 DEF NodeAnswer, NodeReturns, NodeSilent, Validate, AnswerGet,
                BusyQueries, InQuery, Asked
  <2>2. BusyPosts = {}
    BY <2>1 DEF OneHandler
  <2> QED
    BY <1>1, <1>2, <1>3, <2>2 DEF OneHandler
<1> QED
  BY <1>4, <1>5 DEF QueryStep

\* A crash, which ends the handler, and a loss.
LEMMA EnvironmentSerial ==
    ASSUME Workers = 1, SerialInv, Environment
    PROVE  OneHandler' /\ UploadInv' /\ TmpInv' /\ PayloadInv' /\ StoredFilesAreWhole'
<1> USE DEF SerialInv, files, sends
<1>0. req' = req /\ key' = key /\ tmp' = tmp /\ inode' = inode
  BY DEF Environment, NodeLoses, Crash
<1>1. CASE Crash
  <2>1. /\ store' = store
        /\ pc' = [u \in Uploads |->
                    IF pc[u] \in InHandler \cup {"reading"} THEN "dropped" ELSE pc[u]]
        /\ send' = [u \in Uploads |-> [n \in Nodes |->
                    IF send[u][n] \in {"start", "read"} THEN "idle" ELSE send[u][n]]]
        /\ payload' = [u \in Uploads |-> [n \in Nodes |->
                    IF send[u][n] = "posted" THEN payload[u][n] ELSE <<>>]]
    BY <1>1 DEF Crash
  <2>2. \A u \in Uploads : pc'[u] \notin InHandler
    BY <2>1 DEF InHandler
  <2>3. OneHandler' /\ TmpInv'
    BY <2>2 DEF OneHandler, BusyPosts, TmpInv, InHandler
  <2>4. UploadInv'
    BY <1>0, <2>1 DEF UploadInv, InHandler
  <2>5. PayloadInv'
    BY <1>0, <2>1 DEF PayloadInv
  <2>6. StoredFilesAreWhole'
    BY <1>0, <2>1, WholeFilesPersist
  <2> QED
    BY <2>3, <2>4, <2>5, <2>6
<1>2. ASSUME NEW n \in Nodes, NEW f \in Names, NodeLoses(n, f)
      PROVE  OneHandler' /\ UploadInv' /\ TmpInv' /\ PayloadInv' /\ StoredFilesAreWhole'
  <2>1. /\ pc' = pc /\ fd' = fd /\ send' = send /\ payload' = payload /\ query' = query
    BY <1>2 DEF NodeLoses
  <2>2. OneHandler' /\ UploadInv' /\ TmpInv' /\ PayloadInv'
    BY <1>0, <2>1 DEF OneHandler, BusyPosts, BusyQueries, UploadInv, TmpInv, PayloadInv
  <2>3. PICK b \in DOMAIN store[n][f] : store' = [store EXCEPT ![n][f][b] = Lost]
    BY <1>2 DEF NodeLoses
  <2>4. store \in [Nodes -> [Keys -> Files]] /\ f \in Keys
    BY DEF TypeOK, Keys
  <2>5. ASSUME NEW m \in Nodes, NEW g \in Names, store'[m][g] # <<>>
        PROVE  \E v \in Uploads : /\ req'[v] # None /\ req'[v].name = g
                                  /\ IsCopy(store'[m][g], req'[v].data)
    <3>1. CASE m = n /\ g = f
      <4>1. store'[m][g] = [store[n][f] EXCEPT ![b] = Lost]
        BY <2>3, <2>4, <3>1
      <4>2. store[n][f] # <<>>
        BY <2>3
      <4>3. PICK v \in Uploads : /\ req[v] # None /\ req[v].name = f
                                 /\ IsCopy(store[n][f], req[v].data)
        BY <4>2 DEF StoredFilesAreWhole
      <4>4. IsCopy(store'[m][g], req[v].data)
        BY <4>1, <4>3 DEF IsCopy
      <4> QED
        BY <1>0, <3>1, <4>3, <4>4
    <3>2. CASE ~(m = n /\ g = f)
      <4>1. store'[m][g] = store[m][g]
        BY <2>3, <2>4, <3>2 DEF Keys
      <4> QED
        BY <1>0, <2>5, <4>1 DEF StoredFilesAreWhole
    <3> QED
      BY <3>1, <3>2
  <2>6. StoredFilesAreWhole'
    BY <2>5 DEF StoredFilesAreWhole, IsCopy
  <2> QED
    BY <2>2, <2>6
<1> QED
  BY <1>1, <1>2 DEF Environment

\* The invariant of the one worker holds at first.
LEMMA InitSerial == Init => SerialInv
<1> SUFFICES ASSUME Init PROVE SerialInv
  OBVIOUS
<1>1. TypeOK
  BY InitTypeOK
<1>2. OneHandler /\ UploadInv /\ TmpInv /\ PayloadInv
  BY ServersAssumption
     DEF Init, OneHandler, UploadInv, TmpInv, PayloadInv, BusyPosts, InHandler, Keys
<1>3. StoredFilesAreWhole
  BY DEF Init, StoredFilesAreWhole, Keys
<1> QED
  BY <1>1, <1>2, <1>3 DEF SerialInv

\* Every step of the one worker keeps it.
LEMMA NextSerial == Workers = 1 /\ SerialInv /\ [Next]_vars => SerialInv'
<1> SUFFICES ASSUME Workers = 1, SerialInv, [Next]_vars PROVE SerialInv'
  OBVIOUS
<1>1. TypeOK'
  BY NextTypeOK DEF SerialInv
<1>2. OneHandler' /\ UploadInv' /\ TmpInv' /\ PayloadInv' /\ StoredFilesAreWhole'
  <2>1. CASE UNCHANGED vars
    BY <2>1 DEF vars, files, sends, SerialInv, OneHandler, BusyPosts, BusyQueries,
                UploadInv, TmpInv, PayloadInv, StoredFilesAreWhole, IsCopy
  <2>2. ASSUME NEW u \in Uploads, PostStep(u)
        PROVE  OneHandler' /\ UploadInv' /\ TmpInv' /\ PayloadInv' /\ StoredFilesAreWhole'
    BY <2>2, PostSerial, HandlerSerial, OpenTmpSerial, WriteTmpSerial, FinishSerial
       DEF PostStep
  <2>3. CASE Next
    BY <2>2, <2>3, SendSerial, QuerySerial, EnvironmentSerial DEF Next
  <2> QED
    BY <2>1, <2>3
<1> QED
  BY <1>1, <1>2 DEF SerialInv

\* With one worker the static boundary and the one transfer.tmp cannot mix up
\* files: whatever crashes, fails or gets lost, what a node holds under a name
\* is the whole data of one upload sent under that name.
THEOREM SerialFilesAreWhole ==
    ASSUME Workers = 1
    PROVE  Spec => []StoredFilesAreWhole
<1>1. Init => SerialInv
  BY InitSerial
<1>2. SerialInv /\ [Next]_vars => SerialInv'
  BY NextSerial
<1>3. SerialInv => StoredFilesAreWhole
  BY DEF SerialInv
<1> QED
  BY <1>1, <1>2, <1>3, PTL DEF Spec

-----------------------------------------------------------------------------
(* The handlers that no crash interrupts                                   *)

\* The state of the handlers that no crash interrupted.
CalmInv == SerialInv /\ NoCrashInv /\ crashes = 0

\* No handler runs at first.
LEMMA InitCalm == Init => CalmInv
<1> SUFFICES ASSUME Init PROVE CalmInv
  OBVIOUS
<1>1. SerialInv
  BY InitSerial
<1> QED
  BY <1>1 DEF CalmInv, NoCrashInv, Init

\* What counts crashes, failures and losses is never set back.
LEMMA CountersGrow ==
    ASSUME TypeOK, [Next]_vars
    PROVE  /\ crashes' = 0 => crashes = 0 /\ ~Crash
           /\ failures' = 0 => failures = 0
           /\ losses' = 0 => losses = 0
<1> USE DEF counters
<1>1. Crash => crashes' = crashes + 1
  BY DEF Crash
<1>2. crashes \in Nat /\ failures \in Nat /\ losses \in Nat
  BY ServersAssumption DEF TypeOK
<1>3. CASE UNCHANGED vars
  BY <1>1, <1>2, <1>3 DEF vars
<1>4. ASSUME NEW u \in Uploads, PostStep(u)
      PROVE  crashes' = crashes /\ losses' = losses /\ failures' \in {failures, failures + 1}
  BY <1>4 DEF PostStep, Post, PostRefused, ParseName, ParseFlag, StoreTree,
              StoreTreeFails, AckRoot, OpenTmp, WriteTmp, Finish
<1>5. ASSUME NEW u \in Uploads, NEW n \in Nodes, SendStep(u, n)
      PROVE  crashes' = crashes /\ losses' = losses /\ failures' \in {failures, failures + 1}
  BY <1>5 DEF SendStep, ReadTmp, NodePost, NodeStore, SendFails
<1>6. ASSUME NEW q \in Queries, QueryStep(q)
      PROVE  crashes' = crashes /\ losses' = losses /\ failures' \in {failures, failures + 1}
  BY <1>6 DEF QueryStep, ReadTree, AskFile, NodeAnswer, NodeReturns, NodeSilent,
              Validate, AnswerGet
<1>7. ASSUME Environment
      PROVE  /\ failures' = failures
             /\ \/ Crash /\ crashes' = crashes + 1 /\ losses' = losses
                \/ crashes' = crashes /\ losses' = losses + 1
  BY <1>7 DEF Environment, Crash, NodeLoses
<1>8. CASE Next
  <2>1. /\ crashes' = crashes \/ crashes' = crashes + 1
        /\ failures' \in {failures, failures + 1}
        /\ losses' = losses \/ losses' = losses + 1
    BY <1>4, <1>5, <1>6, <1>7, <1>8 DEF Next
  <2> QED
    BY <1>1, <1>2, <2>1
<1> QED
  BY <1>3, <1>8

\* Until the proxy dies, no request of a dead one is under way.
LEMMA NextNoCrash ==
    ASSUME Workers = 1, SerialInv, NoCrashInv, [Next]_vars
    PROVE  NoCrashInv'
<1> USE DEF files, sends, counters
<1> SUFFICES ASSUME crashes' = 0 PROVE NoCrashInv'
  BY DEF NoCrashInv
<1>1. /\ TypeOK /\ UploadInv /\ NoCrashInv /\ OneHandler
      /\ crashes = 0 /\ ~Crash
  BY CountersGrow DEF SerialInv
<1>2. /\ pc \in [Uploads -> PostStates] /\ send \in [Uploads -> [Nodes -> SendStates]]
      /\ boundary \in [Servers -> Uploads \cup {None}]
      /\ \A u \in Uploads : pc[u] # "dropped"
      /\ \A u \in Uploads, n \in Nodes : send[u][n] = "posted" => boundary[n] = u
  BY <1>1 DEF TypeOK, NoCrashInv
<1>3. CASE UNCHANGED vars
  BY <1>1, <1>3 DEF vars, NoCrashInv
<1>4. ASSUME NEW u \in Uploads, PostStep(u) PROVE NoCrashInv'
  <2>1. \A v \in Uploads : pc'[v] # "dropped"
    BY <1>2, <1>4 DEF PostStep, Post, PostRefused, ParseName, ParseFlag, StoreTree,
                      StoreTreeFails, AckRoot, OpenTmp, WriteTmp, Finish
  <2>2. \A n \in Nodes : boundary'[n] = boundary[n]
    BY <1>2, <1>4, ServersAssumption
       DEF PostStep, Post, PostRefused, ParseName, ParseFlag, StoreTree,
           StoreTreeFails, AckRoot, OpenTmp, WriteTmp, Finish, Servers
  <2>3. \A v \in Uploads, n \in Nodes : send'[v][n] = "posted" => send[v][n] = "posted"
    BY SMTT(30), <1>2, <1>4 DEF PostStep, Post, PostRefused, ParseName, ParseFlag, StoreTree,
                      StoreTreeFails, AckRoot, OpenTmp, WriteTmp, Finish
  <2> QED
    BY <1>2, <2>1, <2>2, <2>3 DEF NoCrashInv
<1>5. ASSUME NEW u \in Uploads, NEW n \in Nodes, SendStep(u, n) PROVE NoCrashInv'
  <2>1. pc' = pc
    BY <1>5 DEF SendStep, ReadTmp, NodePost, NodeStore, SendFails
  <2>2. CASE NodePost(u, n)
    <3>1. /\ send[u][n] = "read" /\ boundary' = [boundary EXCEPT ![n] = u]
          /\ send' = [send EXCEPT ![u][n] = "posted"]
      BY <2>2 DEF NodePost
    <3>2. \A v \in Uploads : send[v][n] # "posted"
      <4>1. pc[u] = "sending"
        BY <1>1, <3>1 DEF UploadInv
      <4>2. \A v \in Uploads : send[v][n] = "posted" => pc[v] = "sending"
        BY <1>1, <1>2 DEF UploadInv
      <4> QED
        BY <1>1, <3>1, <4>1, <4>2 DEF OneHandler, BusyPosts, InHandler
    <3> QED
      BY <1>2, <2>1, <3>1, <3>2 DEF NoCrashInv, Servers
  <2>3. CASE ReadTmp(u, n) \/ NodeStore(u, n) \/ SendFails(u, n)
    <3>1. boundary' = boundary
      BY <2>3 DEF ReadTmp, NodeStore, SendFails
    <3>2. \A v \in Uploads, m \in Nodes : send'[v][m] = "posted" => send[v][m] = "posted"
      <4>1. \E s \in {"read", "done"} : send' = [send EXCEPT ![u][n] = s]
        BY <2>3 DEF ReadTmp, NodeStore, SendFails
      <4> QED
        BY <1>2, <4>1
    <3> QED
      BY <1>2, <2>1, <3>1, <3>2 DEF NoCrashInv
  <2> QED
    BY <1>5, <2>2, <2>3 DEF SendStep
<1>6. CASE (\E q \in Queries : QueryStep(q)) \/ (\E n \in Nodes, f \in Names : NodeLoses(n, f))
  <2>1. pc' = pc /\ send' = send /\ boundary' = boundary
    BY <1>6 DEF QueryStep, ReadTree, AskFile, NodeAnswer, NodeReturns, NodeSilent,
                Validate, AnswerGet, NodeLoses
  <2> QED
    BY <1>2, <2>1 DEF NoCrashInv
<1> QED
  BY <1>1, <1>3, <1>4, <1>5, <1>6 DEF Next, Environment

\* Without crashes it stays so.
LEMMA NextCalm ==
    ASSUME Workers = 1, MaxCrashes = 0, CalmInv, [Next]_vars
    PROVE  CalmInv'
<1>1. SerialInv' /\ NoCrashInv'
  BY NextSerial, NextNoCrash DEF CalmInv
<1>2. crashes' = 0
  <2>1. crashes' \in 0..MaxCrashes
    BY <1>1 DEF SerialInv, TypeOK
  <2> QED
    BY <2>1
<1> QED
  BY <1>1, <1>2 DEF CalmInv

-----------------------------------------------------------------------------
(* The refinement mapping                                                  *)

\* The upload whose handler runs is the one ReplicatedFiles sees.
LEMMA UnderWay ==
    ASSUME OneHandler, NEW u \in BusyPosts
    PROVE  UploadUnderWay = [key |-> key[u], data |-> req[u].data,
                             missing |-> {n \in Nodes : send[u][n] # "done"}]
<1>1. (CHOOSE v \in BusyPosts : TRUE) = u
  BY DEF OneHandler
<1> QED
  BY <1>1 DEF UploadUnderWay

\* ... and after a step, the one whose handler runs then.
LEMMA UnderWayNext ==
    ASSUME OneHandler', NEW u \in Uploads, pc'[u] \in InHandler
    PROVE  UploadUnderWay' = [key |-> key'[u], data |-> req'[u].data,
                              missing |-> {n \in Nodes : send'[u][n] # "done"}]
<1>1. u \in BusyPosts'
  BY DEF BusyPosts
<1>2. (CHOOSE v \in BusyPosts' : TRUE) = u
  BY <1>1 DEF OneHandler
<1> QED
  BY <1>1, <1>2 DEF UploadUnderWay

\* The upload of a running handler is not None.
LEMMA UnderWayIsUpload ==
    ASSUME TypeOK, OneHandler, NEW u \in BusyPosts
    PROVE  UploadUnderWay # None
<1>1. /\ UploadUnderWay = [key |-> key[u], data |-> req[u].data,
                           missing |-> {n \in Nodes : send[u][n] # "done"}]
      /\ u \in Uploads /\ pc[u] \in InHandler
  BY UnderWay DEF BusyPosts
<1>2. key[u] \in Names \cup {NoName} /\ req[u] \in Requests
  BY <1>1 DEF TypeOK, Keys, InHandler
<1> QED
  BY <1>1, <1>2, NoneAssumption

\* Steps that change neither the databases nor what is under way.
LEMMA Stutter ==
    ASSUME table' = table, store' = store, pc' = pc, key' = key, req' = req, send' = send
    PROVE  UNCHANGED Promise!vars
BY DEF Promise!vars, UploadUnderWay, BusyPosts

\* Steps of a handler that stays in its handler, of a request none of whose
\* threads gets done.
LEMMA HandlerStutter ==
    ASSUME OneHandler, OneHandler', NEW u \in BusyPosts, pc'[u] \in InHandler,
           table' = table, store' = store, key' = key, req' = req,
           \A n \in Nodes : send'[u][n] = "done" <=> send[u][n] = "done"
    PROVE  UNCHANGED Promise!vars
<1>1. u \in Uploads
  BY DEF BusyPosts
<1>2. {n \in Nodes : send'[u][n] # "done"} = {n \in Nodes : send[u][n] # "done"}
  OBVIOUS
<1>3. UploadUnderWay' = [key |-> key[u], data |-> req[u].data,
                         missing |-> {n \in Nodes : send'[u][n] # "done"}]
  BY <1>1, UnderWayNext
<1>4. UploadUnderWay' = UploadUnderWay
  BY <1>2, <1>3, UnderWay
<1> QED
  BY <1>4 DEF Promise!vars

\* A step of an upload's handler starts, stores or ends the upload, or is none.
LEMMA PostRefines ==
    ASSUME Workers = 1, CalmInv, CalmInv', NEW u \in Uploads, PostStep(u)
    PROVE  [Promise!Next]_Promise!vars
<1> USE DEF files, sends, counters
<1>1. TypeOK /\ OneHandler /\ OneHandler' /\ UploadInv /\ pc \in [Uploads -> PostStates]
  BY DEF CalmInv, SerialInv, TypeOK
<1>2. CASE (\E r \in Requests : Post(u, r)) \/ PostRefused(u)
  <2>1. BusyPosts = {} /\ table' = table /\ store' = store
    BY <1>2, FreeMeansIdle DEF Post, PostRefused
  <2>2. \E s \in {"reading", "refused"} : pc' = [pc EXCEPT ![u] = s]
    BY <1>2 DEF Post, PostRefused
  <2>3. BusyPosts' = {}
    BY <1>1, <2>1, <2>2 DEF BusyPosts, InHandler
  <2> QED
    BY <2>1, <2>3 DEF UploadUnderWay, Promise!vars
<1>3. CASE ParseName(u)
  <2>1. /\ pc[u] = "reading" /\ BusyPosts = {} /\ key \in [Uploads -> Keys]
        /\ table' = table /\ store' = store /\ req' = req /\ send' = send
    BY <1>1, <1>3, FreeMeansIdle DEF ParseName, TypeOK
  <2>2. req[u] \in Requests /\ req[u].name \in Names
    BY <1>1, <2>1, RequestsAssumption DEF TypeOK
  <2>3. pc'[u] \in InHandler /\ key'[u] \in Keys
    BY <1>1, <1>3, <2>1, <2>2 DEF ParseName, InHandler, Keys
  <2>4. {n \in Nodes : send'[u][n] # "done"} = Nodes
    BY <1>1, <2>1 DEF UploadInv
  <2>5. UploadUnderWay' = [key |-> key'[u], data |-> req[u].data, missing |-> Nodes]
    BY <1>1, <2>1, <2>3, <2>4, UnderWayNext
  <2>6. UploadUnderWay = None
    BY <2>1 DEF UploadUnderWay
  <2>7. Promise!Begin(key'[u], req[u].data)
    BY <2>1, <2>5, <2>6 DEF Promise!Begin
  <2> QED
    BY <2>2, <2>3, <2>7 DEF Promise!Next
<1>4. CASE StoreTree(u)
  <2>1. /\ pc[u] = "hashing" /\ pc'[u] = "acking" /\ u \in BusyPosts
        /\ table' = [table EXCEPT ![key[u]] = req[u].data]
        /\ store' = store /\ req' = req /\ send' = send /\ key' = key
    BY <1>1, <1>4 DEF StoreTree, BusyPosts, InHandler
  <2>2. {n \in Nodes : send[u][n] # "done"} = Nodes
    BY <1>1, <2>1 DEF UploadInv
  <2>3. UploadUnderWay = [key |-> key[u], data |-> req[u].data, missing |-> Nodes]
    BY <1>1, <2>1, <2>2, UnderWay
  <2>4. UploadUnderWay' = UploadUnderWay
    BY <1>1, <2>1, <2>2, <2>3, UnderWayNext DEF InHandler
  <2>5. UploadUnderWay # None
    BY <1>1, <2>1, UnderWayIsUpload
  <2>6. Promise!Register
    BY <2>1, <2>3, <2>4, <2>5 DEF Promise!Register
  <2> QED
    BY <2>6 DEF Promise!Next
<1>5. CASE ParseFlag(u) \/ StoreTreeFails(u) \/ AckRoot(u) \/ OpenTmp(u) \/ WriteTmp(u)
  <2>1. /\ u \in BusyPosts /\ pc'[u] \in InHandler
        /\ table' = table /\ store' = store /\ key' = key /\ req' = req
    BY <1>1, <1>5 DEF ParseFlag, StoreTreeFails, AckRoot, OpenTmp, WriteTmp, BusyPosts, InHandler
  <2>2. pc[u] \notin {"sending", "done", "dropped"}
    BY <1>5 DEF ParseFlag, StoreTreeFails, AckRoot, OpenTmp, WriteTmp
  <2>3. \A n \in Nodes : send[u][n] = "idle"
    BY <1>1, <2>2 DEF UploadInv
  <2>4. \A n \in Nodes : send'[u][n] # "done"
    <3>1. send \in [Uploads -> [Nodes -> SendStates]]
      BY <1>1 DEF TypeOK
    <3> QED
      BY <1>5, <2>3, <3>1 DEF ParseFlag, StoreTreeFails, AckRoot, OpenTmp, WriteTmp
  <2> QED
    BY <1>1, <2>1, <2>3, <2>4, HandlerStutter
<1>6. CASE Finish(u)
  <2>1. /\ u \in BusyPosts /\ table' = table /\ store' = store
        /\ \A n \in Nodes : send[u][n] = "done"
        /\ pc' = [pc EXCEPT ![u] = "done"]
    BY <1>6 DEF Finish, BusyPosts, InHandler
  <2>2. UploadUnderWay = [key |-> key[u], data |-> req[u].data, missing |-> {}]
    BY <1>1, <2>1, UnderWay
  <2>3. BusyPosts' = {}
    BY <1>1, <2>1 DEF OneHandler, BusyPosts, InHandler
  <2>4. UploadUnderWay' = None
    BY <2>3 DEF UploadUnderWay
  <2>5. Promise!End
    BY <1>1, <2>1, <2>2, <2>4, UnderWayIsUpload DEF Promise!End
  <2> QED
    BY <2>5 DEF Promise!Next
<1> QED
  BY <1>2, <1>3, <1>4, <1>5, <1>6 DEF PostStep

\* A step of curl stores the upload on its node, or is none.
LEMMA SendRefines ==
    ASSUME Workers = 1, CalmInv, CalmInv', NEW u \in Uploads, NEW n \in Nodes, SendStep(u, n)
    PROVE  [Promise!Next]_Promise!vars
<1> USE DEF files, sends, counters
<1>1. /\ TypeOK /\ OneHandler /\ OneHandler' /\ UploadInv /\ TmpInv /\ PayloadInv
      /\ NoCrashInv /\ crashes = 0
      /\ send \in [Uploads -> [Nodes -> SendStates]]
      /\ pc' = pc /\ key' = key /\ req' = req /\ table' = table
  BY DEF CalmInv, SerialInv, TypeOK, SendStep, ReadTmp, NodePost, NodeStore, SendFails
<1>2. pc[u] = "sending" /\ u \in BusyPosts /\ pc'[u] \in InHandler
  <2>1. send[u][n] \in {"start", "read", "posted"}
    BY DEF SendStep, ReadTmp, NodePost, NodeStore, SendFails
  <2> QED
    BY <1>1, <2>1 DEF UploadInv, NoCrashInv, BusyPosts, InHandler
<1>3. CASE ReadTmp(u, n) \/ NodePost(u, n)
  <2>1. tmp # None
    BY <1>1, <1>2 DEF TmpInv
  <2>2. /\ store' = store /\ send[u][n] # "done"
        /\ \E s \in {"read", "posted"} : send' = [send EXCEPT ![u][n] = s]
    BY <1>3, <2>1 DEF ReadTmp, NodePost
  <2>3. \A m \in Nodes : send'[u][m] = "done" <=> send[u][m] = "done"
    BY <1>1, <2>2
  <2> QED
    BY <1>1, <1>2, <2>2, <2>3, HandlerStutter
<1>4. CASE NodeStore(u, n) \/ SendFails(u, n)
  <2> DEFINE missing == {m \in Nodes : send[u][m] # "done"}
  <2>1. send[u][n] # "done" /\ send' = [send EXCEPT ![u][n] = "done"]
    BY <1>4 DEF NodeStore, SendFails
  <2>2. {m \in Nodes : send'[u][m] # "done"} = missing \ {n} /\ n \in missing
    BY <1>1, <2>1
  <2>3. UploadUnderWay = [key |-> key[u], data |-> req[u].data, missing |-> missing]
    BY <1>1, <1>2, UnderWay
  <2>4. UploadUnderWay' = [key |-> key[u], data |-> req[u].data, missing |-> missing \ {n}]
    BY <1>1, <1>2, <2>2, UnderWayNext
  <2>5. UploadUnderWay # None
    BY <1>1, <1>2, UnderWayIsUpload
  <2> HIDE DEF missing
  <2>6. UploadUnderWay' = [UploadUnderWay EXCEPT !.missing = @ \ {n}] /\ n \in UploadUnderWay.missing
    BY <2>2, <2>3, <2>4
  <2>7. CASE NodeStore(u, n)
    <3>1. boundary[n] = u /\ payload[u][n] = req[u].data
      BY <1>1, <2>7 DEF NodeStore, NoCrashInv, PayloadInv
    <3>2. store' = [store EXCEPT ![n][key[u]] = req[u].data]
      BY <2>7, <3>1 DEF NodeStore
    <3>3. UploadUnderWay.key = key[u] /\ UploadUnderWay.data = req[u].data
      BY <2>3
    <3>4. Promise!Deliver(n)
      BY <1>1, <2>5, <2>6, <3>2, <3>3 DEF Promise!Deliver
    <3> QED
      BY <3>4 DEF Promise!Next
  <2>8. CASE SendFails(u, n)
    <3>1. store' = store /\ MaxFailures > 0
      <4>1. failures < MaxFailures /\ failures \in 0..MaxFailures /\ MaxFailures \in Nat
        BY <1>1, <2>8, ServersAssumption DEF SendFails, TypeOK
      <4> QED
        BY <2>8, <4>1 DEF SendFails
    <3>2. Promise!Miss(n)
      BY <1>1, <2>5, <2>6, <3>1 DEF Promise!Miss
    <3> QED
      BY <3>2 DEF Promise!Next
  <2> QED
    BY <1>4, <2>7, <2>8
<1> QED
  BY <1>3, <1>4 DEF SendStep

\* The other steps are none of ReplicatedFiles, but for a loss.
LEMMA OtherRefines ==
    ASSUME CalmInv, CalmInv',
           (\E q \in Queries : QueryStep(q)) \/ Environment \/ UNCHANGED vars
    PROVE  [Promise!Next]_Promise!vars
<1> USE DEF files, sends, counters
<1>1. CASE (\E q \in Queries : QueryStep(q)) \/ UNCHANGED vars
  <2>1. /\ table' = table /\ store' = store /\ pc' = pc /\ key' = key /\ req' = req
        /\ send' = send
    BY <1>1 DEF QueryStep, ReadTree, AskFile, NodeAnswer, NodeReturns, NodeSilent,
                Validate, AnswerGet, vars
  <2> QED
    BY <2>1, Stutter
<1>2. ASSUME NEW n \in Nodes, NEW f \in Names, NodeLoses(n, f)
      PROVE  [Promise!Next]_Promise!vars
  <2>1. /\ table' = table /\ pc' = pc /\ key' = key /\ req' = req /\ send' = send
    BY <1>2 DEF NodeLoses
  <2>2. UploadUnderWay' = UploadUnderWay
    BY <2>1 DEF UploadUnderWay, BusyPosts
  <2>3. Promise!Lose(n, f)
    BY <1>2, <2>1, <2>2 DEF NodeLoses, Promise!Lose
  <2> QED
    BY <2>3 DEF Promise!Next, Keys
<1>3. ~Crash
  <2>1. crashes = 0 /\ crashes' = 0
    BY DEF CalmInv
  <2> QED
    BY <2>1 DEF Crash
<1> QED
  BY <1>1, <1>2, <1>3 DEF Environment

\* The initial states are those of ReplicatedFiles.
LEMMA InitRefines == Init => Promise!Init
BY DEF Init, Promise!Init, UploadUnderWay, BusyPosts, InHandler

\* With one worker and no crash, every behaviour of the handlers, the curl
\* processes and the nodes is one of ReplicatedFiles.
THEOREM Refinement ==
    ASSUME Workers = 1, MaxCrashes = 0
    PROVE  Spec => ImplementsPromise
<1>1. Init => CalmInv /\ Promise!Init
  BY InitCalm, InitRefines
<1>2. CalmInv /\ [Next]_vars => CalmInv'
  BY NextCalm
<1>3. CalmInv /\ CalmInv' /\ [Next]_vars => [Promise!Next]_Promise!vars
  BY PostRefines, SendRefines, OtherRefines DEF Next
<1> QED
  BY <1>1, <1>2, <1>3, PTL DEF Spec, ImplementsPromise, Promise!Spec

-----------------------------------------------------------------------------
(* Any number of workers                                                   *)

\* A handler that is past its open stays there until its Finish, which removes
\* the file; only a crash ends it otherwise.
LEMMA NextTmpRemoved ==
    ASSUME TypeOK, TmpRemoved, [Next]_vars
    PROVE  TmpRemoved'
<1> USE DEF files, sends, counters
<1> SUFFICES ASSUME tmp' # None, crashes' = 0
             PROVE  \E v \in Uploads : pc'[v] \in {"writing", "sending"}
  <2>1. crashes' \in Nat
    BY NextTypeOK, ServersAssumption DEF TypeOK
  <2> QED
    BY <2>1 DEF TmpRemoved
<1>1. /\ crashes = 0 /\ ~Crash /\ pc \in [Uploads -> PostStates]
      /\ tmp # None => \E v \in Uploads : pc[v] \in {"writing", "sending"}
  BY CountersGrow DEF TypeOK, TmpRemoved
<1>2. CASE pc' = pc /\ tmp' = tmp
  BY <1>1, <1>2
<1>3. ASSUME NEW u \in Uploads, PostStep(u)
      PROVE  \E v \in Uploads : pc'[v] \in {"writing", "sending"}
  <2>1. CASE OpenTmp(u) \/ WriteTmp(u)
    <3>1. pc'[u] \in {"writing", "sending"}
      BY <1>1, <2>1 DEF OpenTmp, WriteTmp
    <3> QED
      BY <3>1
  <2>2. CASE Finish(u)
    BY <2>2 DEF Finish
  <2>3. CASE ~OpenTmp(u) /\ ~WriteTmp(u) /\ ~Finish(u)
    <3>1. /\ tmp' = tmp /\ pc[u] \notin {"writing", "sending"}
          /\ \A v \in Uploads : v # u => pc'[v] = pc[v]
      BY <1>1, <1>3, <2>3 DEF PostStep, Post, PostRefused, ParseName, ParseFlag,
                              StoreTree, StoreTreeFails, AckRoot
    <3> QED
      BY <1>1, <3>1
  <2> QED
    BY <2>1, <2>2, <2>3
<1>4. ASSUME NEW u \in Uploads, NEW n \in Nodes, SendStep(u, n)
      PROVE  pc' = pc /\ tmp' = tmp
  BY <1>4 DEF SendStep, ReadTmp, NodePost, NodeStore, SendFails
<1>5. ASSUME NEW q \in Queries, QueryStep(q)
      PROVE  pc' = pc /\ tmp' = tmp
  BY <1>5 DEF QueryStep, ReadTree, AskFile, NodeAnswer, NodeReturns, NodeSilent,
              Validate, AnswerGet
<1>6. ASSUME NEW n \in Nodes, NEW f \in Names, NodeLoses(n, f)
      PROVE  pc' = pc /\ tmp' = tmp
  BY <1>6 DEF NodeLoses
<1>7. CASE UNCHANGED vars
  BY <1>2, <1>7 DEF vars
<1> QED
  BY <1>1, <1>2, <1>3, <1>4, <1>5, <1>6, <1>7 DEF Next, Environment

\* However many handlers open, write and remove the one path at a time, no
\* file is left there once none of them is between its open and its remove,
\* except by a crash.
THEOREM TmpAlwaysRemoved == Spec => []TmpRemoved
<1>1. Init => TypeOK /\ TmpRemoved
  BY InitTypeOK DEF Init, TmpRemoved
<1>2. TypeOK /\ TmpRemoved /\ [Next]_vars => TypeOK' /\ TmpRemoved'
  BY NextTypeOK, NextTmpRemoved
<1> QED
  BY <1>1, <1>2, PTL DEF Spec

\* With one worker the uploads take turns at the path "transfer.tmp".
THEOREM UploadsTakeTurns ==
    ASSUME Workers = 1
    PROVE  Spec => []SerialInv
<1>1. Init => SerialInv
  BY InitSerial
<1>2. SerialInv /\ [Next]_vars => SerialInv'
  BY NextSerial
<1> QED
  BY <1>1, <1>2, PTL DEF Spec

-----------------------------------------------------------------------------
(* One worker: the parts of ServiceInv                                     *)

\* Every step keeps what is known of an upload that is parsed.
LEMMA NextParsing ==
    ASSUME Workers = 1, SerialInv, ParsingInv, [Next]_vars
    PROVE  ParsingInv'
<1> USE DEF files, sends, counters
<1>1. /\ pc \in [Uploads -> PostStates] /\ boundary \in [Servers -> Uploads \cup {None}]
      /\ Proxy \in Servers
      /\ \A u \in Uploads : pc[u] = "parsing" => boundary[Proxy] = u
  BY DEF SerialInv, TypeOK, ParsingInv, Servers
<1>2. ASSUME boundary'[Proxy] = boundary[Proxy],
             \A v \in Uploads : pc'[v] = "parsing" => pc[v] = "parsing"
      PROVE  ParsingInv'
  BY <1>1, <1>2 DEF ParsingInv
<1>3. ASSUME NEW u \in Uploads, PostStep(u) PROVE ParsingInv'
  <2>1. CASE (\E r \in Requests : Post(u, r)) \/ PostRefused(u)
    <3>1. BusyPosts = {} /\ \E s \in {"reading", "refused"} : pc' = [pc EXCEPT ![u] = s]
      BY <2>1, FreeMeansIdle DEF Post, PostRefused
    <3>2. \A v \in Uploads : pc'[v] # "parsing"
      BY <1>1, <3>1 DEF BusyPosts, InHandler
    <3> QED
      BY <3>2 DEF ParsingInv
  <2>2. CASE ParseName(u)
    <3>1. /\ boundary' = boundary
          /\ pc'[u] = "parsing" => boundary[Proxy] = u
          /\ \A v \in Uploads : v # u => pc'[v] = pc[v]
      BY <1>1, <2>2 DEF ParseName
    <3> QED
      BY <1>1, <3>1 DEF ParsingInv
  <2>3. CASE \/ ParseFlag(u) \/ StoreTree(u) \/ StoreTreeFails(u) \/ AckRoot(u)
             \/ OpenTmp(u) \/ WriteTmp(u) \/ Finish(u)
    <3>1. /\ boundary' = boundary
          /\ \E s \in PostStates : pc' = [pc EXCEPT ![u] = s] /\ s # "parsing"
      BY <2>3 DEF ParseFlag, StoreTree, StoreTreeFails, AckRoot, OpenTmp, WriteTmp,
                  Finish, PostStates
    <3> QED
      BY <1>1, <1>2, <3>1
  <2> QED
    BY <1>3, <2>1, <2>2, <2>3 DEF PostStep
<1>4. ASSUME NEW u \in Uploads, NEW n \in Nodes, SendStep(u, n) PROVE ParsingInv'
  <2>1. pc' = pc /\ (boundary' = boundary \/ boundary' = [boundary EXCEPT ![n] = u])
    BY <1>4 DEF SendStep, ReadTmp, NodePost, NodeStore, SendFails
  <2>2. boundary'[Proxy] = boundary[Proxy]
    BY <1>1, <2>1, ServersAssumption
  <2> QED
    BY <1>2, <2>1, <2>2
<1>5. ASSUME NEW q \in Queries, QueryStep(q) PROVE ParsingInv'
  <2>1. pc' = pc /\ boundary' = boundary
    BY <1>5 DEF QueryStep, ReadTree, AskFile, NodeAnswer, NodeReturns, NodeSilent,
                Validate, AnswerGet
  <2> QED
    BY <1>2, <2>1
<1>6. ASSUME NEW n \in Nodes, NEW f \in Names, NodeLoses(n, f) PROVE ParsingInv'
  BY <1>2, <1>6 DEF NodeLoses
<1>7. CASE Crash
  <2>1. pc' = [u \in Uploads |->
                 IF pc[u] \in InHandler \cup {"reading"} THEN "dropped" ELSE pc[u]]
    BY <1>7 DEF Crash
  <2>2. \A u \in Uploads : pc'[u] # "parsing"
    BY <2>1 DEF InHandler
  <2> QED
    BY <2>2 DEF ParsingInv
<1>8. CASE UNCHANGED vars
  BY <1>2, <1>8 DEF vars
<1> QED
  BY <1>3, <1>4, <1>5, <1>6, <1>7, <1>8 DEF Next, Environment

\* The steps that change what the nodes hold.
LEMMA StoreChanges ==
    ASSUME [Next]_vars, store' # store
    PROVE  \/ \E u \in Uploads, n \in Nodes : NodeStore(u, n)
           \/ \E n \in Nodes, f \in Names : NodeLoses(n, f)
<1> USE DEF files, sends, counters
<1>1. ASSUME NEW u \in Uploads, PostStep(u) PROVE store' = store
  BY <1>1 DEF PostStep, Post, PostRefused, ParseName, ParseFlag, StoreTree,
              StoreTreeFails, AckRoot, OpenTmp, WriteTmp, Finish
<1>2. ASSUME NEW u \in Uploads, NEW n \in Nodes, SendStep(u, n), ~NodeStore(u, n)
      PROVE  store' = store
  BY <1>2 DEF SendStep, ReadTmp, NodePost, SendFails
<1>3. ASSUME NEW q \in Queries, QueryStep(q) PROVE store' = store
  BY <1>3 DEF QueryStep, ReadTree, AskFile, NodeAnswer, NodeReturns, NodeSilent,
              Validate, AnswerGet
<1>4. Crash => store' = store
  BY DEF Crash
<1>5. UNCHANGED vars => store' = store
  BY DEF vars
<1> QED
  BY <1>1, <1>2, <1>3, <1>4, <1>5 DEF Next, Environment

\* Only a loss or an upload of the name changes a node's file.
LEMMA NextIntact ==
    ASSUME SerialInv, IntactInv, [Next]_vars
    PROVE  IntactInv'
<1> SUFFICES ASSUME losses' = 0, store' # store,
                    NEW n \in Nodes, NEW f \in Names, NEW b \in DOMAIN store'[n][f]
             PROVE  store'[n][f][b] # Lost
  <2>1. losses' = 0 => losses = 0
    BY CountersGrow DEF SerialInv
  <2> QED
    BY <2>1 DEF IntactInv
<1>1. /\ losses = 0 /\ store \in [Nodes -> [Keys -> Files]] /\ f \in Keys
      /\ \A c \in DOMAIN store[n][f] : store[n][f][c] # Lost
  BY CountersGrow DEF SerialInv, TypeOK, Keys, IntactInv
<1>2. ASSUME NEW u \in Uploads, NEW m \in Nodes, NodeStore(u, m)
      PROVE  store'[n][f][b] # Lost
  <2>1. \E g \in {key[u], NoName} : store' = [store EXCEPT ![m][g] = payload[u][m]]
    BY <1>2 DEF NodeStore
  <2>2. store'[n][f] \in {store[n][f], payload[u][m]}
    BY <1>1, <2>1
  <2>3. payload[u][m] \in Seq(Data)
    BY DEF SerialInv, TypeOK
  <2>4. CASE store'[n][f] = payload[u][m]
    BY <2>3, <2>4, RequestsAssumption
  <2> QED
    BY <1>1, <2>2, <2>4
<1>3. ASSUME NEW m \in Nodes, NEW g \in Names, NodeLoses(m, g) PROVE FALSE
  <2>1. losses' = losses + 1
    BY <1>3 DEF NodeLoses
  <2> QED
    BY <1>1, <2>1
<1> QED
  BY <1>2, <1>3, StoreChanges

\* An upload with a request at a node, no crash apart, is the one whose
\* handler runs, and the node knows its boundary.
LEMMA PostedIsUnderWay ==
    ASSUME SerialInv, NoCrashInv, crashes = 0, NEW u \in Uploads, NEW n \in Nodes,
           send[u][n] \in {"start", "read", "posted"}
    PROVE  /\ u \in BusyPosts /\ pc[u] = "sending" /\ BusyPosts = {u}
           /\ send[u][n] = "posted" => boundary[n] = u /\ payload[u][n] = req[u].data
<1>1. pc[u] = "sending"
  BY DEF SerialInv, UploadInv, NoCrashInv
<1>2. u \in BusyPosts
  BY <1>1 DEF BusyPosts, InHandler
<1> QED
  BY <1>1, <1>2 DEF SerialInv, OneHandler, NoCrashInv, PayloadInv

\* A node that stores a file while no crash happened stores the data of the
\* upload under way under its key.
LEMMA StoredIsUnderWay ==
    ASSUME SerialInv, NoCrashInv, crashes = 0, NEW u \in Uploads, NEW n \in Nodes,
           NodeStore(u, n)
    PROVE  /\ BusyPosts = {u} /\ pc[u] = "sending"
           /\ store' = [store EXCEPT ![n][key[u]] = req[u].data]
           /\ send' = [send EXCEPT ![u][n] = "done"]
           /\ pc' = pc /\ key' = key /\ req' = req /\ table' = table
<1>1. send[u][n] = "posted"
  BY DEF NodeStore
<1>2. BusyPosts = {u} /\ pc[u] = "sending" /\ boundary[n] = u /\ payload[u][n] = req[u].data
  BY <1>1, PostedIsUnderWay
<1> QED
  BY <1>2 DEF NodeStore

\* A handler step that sends nothing and stores nothing at the nodes, seen from
\* the upload under way.
LEMMA HandlerStep ==
    ASSUME SerialInv, NEW u \in Uploads,
           \/ ParseFlag(u) \/ StoreTree(u) \/ StoreTreeFails(u) \/ AckRoot(u)
           \/ OpenTmp(u) \/ WriteTmp(u)
    PROVE  /\ BusyPosts = {u} /\ BusyPosts' = {u}
           /\ store' = store /\ key' = key /\ req' = req
           /\ \A n \in Nodes : send[u][n] # "done" /\ send'[u][n] # "done"
<1> USE DEF files, sends, counters
<1>1. /\ pc \in [Uploads -> PostStates] /\ send \in [Uploads -> [Nodes -> SendStates]]
      /\ OneHandler /\ UploadInv
  BY DEF SerialInv, TypeOK
<1>2. /\ pc[u] \in {"parsing", "hashing", "acking", "opening", "writing"}
      /\ \E s \in InHandler : pc' = [pc EXCEPT ![u] = s]
      /\ store' = store /\ key' = key /\ req' = req
      /\ send' = send \/ send' = [send EXCEPT ![u] = [n \in Nodes |-> "start"]]
  BY DEF ParseFlag, StoreTree, StoreTreeFails, AckRoot, OpenTmp, WriteTmp, InHandler
<1>3. BusyPosts = {u}
  BY <1>1, <1>2 DEF OneHandler, BusyPosts, InHandler
<1>4. BusyPosts' = {u}
  <2>1. pc'[u] \in InHandler /\ \A v \in Uploads : v # u => pc'[v] = pc[v]
    BY <1>1, <1>2
  <2> QED
    BY <1>3, <2>1 DEF BusyPosts
<1>5. \A n \in Nodes : send[u][n] = "idle"
  BY <1>1, <1>2 DEF UploadInv
<1>6. \A n \in Nodes : send'[u][n] # "done"
  BY <1>1, <1>2, <1>5
<1> QED
  BY <1>2, <1>3, <1>4, <1>5, <1>6

\* The steps by which a session enters or leaves a handler.
LEMMA TurnStep ==
    ASSUME Workers = 1, SerialInv, NEW u \in Uploads,
           (\E r \in Requests : Post(u, r)) \/ PostRefused(u) \/ ParseName(u)
    PROVE  /\ BusyPosts = {} /\ BusyQueries = {} /\ BusyPosts' \subseteq {u}
           /\ table' = table /\ store' = store /\ send' = send
           /\ \A n \in Nodes : send[u][n] # "done"
           /\ \A v \in Uploads : req[v] # None => req'[v] = req[v]
<1> USE DEF files, sends, counters
<1>1. /\ pc \in [Uploads -> PostStates] /\ req \in [Uploads -> Requests \cup {None}]
      /\ UploadInv
  BY DEF SerialInv, TypeOK
<1>2. BusyPosts = {} /\ BusyQueries = {}
  BY FreeMeansIdle DEF Post, PostRefused, ParseName
<1>3. /\ table' = table /\ store' = store /\ send' = send /\ pc[u] \in {"idle", "reading"}
      /\ \E s \in PostStates : pc' = [pc EXCEPT ![u] = s]
      /\ \/ req' = req
         \/ pc[u] = "idle" /\ \E r \in Requests : req' = [req EXCEPT ![u] = r]
  BY DEF Post, PostRefused, ParseName, PostStates
<1>4. BusyPosts' \subseteq {u}
  BY <1>1, <1>2, <1>3 DEF BusyPosts
<1>5. \A n \in Nodes : send[u][n] = "idle"
  BY <1>1, <1>3 DEF UploadInv
<1>6. \A v \in Uploads : req[v] # None => req'[v] = req[v]
  BY <1>1, <1>3 DEF UploadInv
<1> QED
  BY <1>2, <1>3, <1>4, <1>5, <1>6

\* Steps of challenges and GETs leave the uploads and the nodes alone.
LEMMA QueryStepKeeps ==
    ASSUME NEW q \in Queries, QueryStep(q)
    PROVE  /\ table' = table /\ store' = store /\ pc' = pc /\ key' = key
           /\ req' = req /\ send' = send /\ BusyPosts' = BusyPosts
           /\ crashes' = crashes /\ losses' = losses
<1> USE DEF files, sends, counters
<1>1. /\ table' = table /\ store' = store /\ pc' = pc /\ key' = key
      /\ req' = req /\ send' = send /\ crashes' = crashes /\ losses' = losses
  BY DEF QueryStep, ReadTree, AskFile, NodeAnswer, NodeReturns, NodeSilent,
         Validate, AnswerGet
<1> QED
  BY <1>1 DEF BusyPosts

\* Every step keeps the nodes in agreement about the files that are stored.
LEMMA NextAgree ==
    ASSUME Workers = 1, SerialInv, NoCrashInv, AgreeInv, [Next]_vars
    PROVE  AgreeInv'
<1> USE DEF files, sends, counters
<1> SUFFICES ASSUME crashes' = 0, failures' = 0, losses' = 0
             PROVE  /\ \A v \in BusyPosts', n \in Nodes :
                          send'[v][n] = "done" => store'[n][key'[v]] = req'[v].data
                    /\ \A n, m \in Nodes, f \in Names :
                          \/ store'[n][f] = store'[m][f]
                          \/ \E v \in BusyPosts' :
                                /\ key'[v] = f
                                /\ (send'[v][n] = "done") # (send'[v][m] = "done")
  BY DEF AgreeInv
<1> DEFINE Data1 == \A v \in BusyPosts', n \in Nodes :
                        send'[v][n] = "done" => store'[n][key'[v]] = req'[v].data
           Same1 == \A n, m \in Nodes, f \in Names :
                        \/ store'[n][f] = store'[m][f]
                        \/ \E v \in BusyPosts' :
                              /\ key'[v] = f
                              /\ (send'[v][n] = "done") # (send'[v][m] = "done")
<1>1. /\ crashes = 0 /\ failures = 0 /\ losses = 0 /\ ~Crash
      /\ pc \in [Uploads -> PostStates] /\ send \in [Uploads -> [Nodes -> SendStates]]
      /\ store \in [Nodes -> [Keys -> Files]] /\ key \in [Uploads -> Keys]
      /\ OneHandler
  BY CountersGrow DEF SerialInv, TypeOK
<1>2. \A v \in BusyPosts, n \in Nodes :
          send[v][n] = "done" => store[n][key[v]] = req[v].data
  BY <1>1 DEF AgreeInv
<1>3. \A n, m \in Nodes, f \in Names :
          \/ store[n][f] = store[m][f]
          \/ \E v \in BusyPosts : /\ key[v] = f
                                  /\ (send[v][n] = "done") # (send[v][m] = "done")
  BY <1>1 DEF AgreeInv
<1>4. ASSUME store' = store, key' = key, req' = req, BusyPosts' = BusyPosts,
             \A v \in BusyPosts, n \in Nodes : send'[v][n] = "done" <=> send[v][n] = "done"
      PROVE  Data1 /\ Same1
  BY <1>2, <1>3, <1>4
<1>5. ASSUME NEW u \in Uploads, PostStep(u) PROVE Data1 /\ Same1
  <2>1. CASE (\E r \in Requests : Post(u, r)) \/ PostRefused(u) \/ ParseName(u)
    <3>1. /\ BusyPosts = {} /\ BusyPosts' \subseteq {u} /\ store' = store /\ send' = send
          /\ \A n \in Nodes : send[u][n] # "done"
      BY <2>1, TurnStep
    <3> QED
      BY <1>3, <3>1
  <2>2. CASE \/ ParseFlag(u) \/ StoreTree(u) \/ StoreTreeFails(u) \/ AckRoot(u)
             \/ OpenTmp(u) \/ WriteTmp(u)
    <3>1. /\ BusyPosts = {u} /\ BusyPosts' = {u}
          /\ store' = store /\ key' = key /\ req' = req
          /\ \A n \in Nodes : send[u][n] # "done" /\ send'[u][n] # "done"
      BY <2>2, HandlerStep
    <3> QED
      BY <1>4, <3>1
  <2>3. CASE Finish(u)
    <3>1. /\ pc[u] = "sending" /\ pc' = [pc EXCEPT ![u] = "done"] /\ store' = store
          /\ \A n \in Nodes : send[u][n] = "done"
      BY <2>3 DEF Finish
    <3>2. BusyPosts = {u} /\ BusyPosts' = {}
      BY <1>1, <3>1 DEF OneHandler, BusyPosts, InHandler
    <3> QED
      BY <1>3, <3>1, <3>2
  <2> QED
    BY <1>5, <2>1, <2>2, <2>3 DEF PostStep
<1>6. ASSUME NEW u \in Uploads, NEW n \in Nodes, SendStep(u, n) PROVE Data1 /\ Same1
  <2>1. CASE ReadTmp(u, n) \/ NodePost(u, n)
    <3>1. /\ send[u][n] \in {"start", "read"}
          /\ store' = store /\ key' = key /\ req' = req /\ pc' = pc /\ inode' = inode
      BY <2>1 DEF ReadTmp, NodePost
    <3>2. pc[u] = "sending"
      BY <1>1, <3>1, PostedIsUnderWay
    <3>3. tmp # None
      BY <3>2 DEF SerialInv, TmpInv
    <3>4. \E s \in {"read", "posted"} : send' = [send EXCEPT ![u][n] = s]
      BY <2>1, <3>3 DEF ReadTmp, NodePost
    <3>5. \A v \in Uploads, m \in Nodes : send'[v][m] = "done" <=> send[v][m] = "done"
      BY <1>1, <3>1, <3>4
    <3>6. BusyPosts' = BusyPosts
      BY <3>1 DEF BusyPosts
    <3> QED
      BY <1>4, <3>1, <3>5, <3>6 DEF BusyPosts
  <2>2. CASE NodeStore(u, n)
    <3>1. /\ BusyPosts = {u} /\ BusyPosts' = {u} /\ key' = key /\ req' = req
          /\ store' = [store EXCEPT ![n][key[u]] = req[u].data]
          /\ send' = [send EXCEPT ![u][n] = "done"]
      BY <1>1, <2>2, StoredIsUnderWay DEF BusyPosts
    <3>2. key[u] \in Keys /\ \A f \in Names : f \in Keys
      BY <1>1 DEF Keys
    <3>3. \A m \in Nodes : send'[u][m] = "done" => store'[m][key[u]] = req[u].data
      <4> TAKE m \in Nodes
      <4>1. CASE m = n
        BY <1>1, <3>1, <3>2, <4>1
      <4>2. CASE m # n
        BY <1>1, <1>2, <3>1, <3>2, <4>2
      <4> QED
        BY <4>1, <4>2
    <3>4. Data1
      BY <3>1, <3>3
    <3>5. ASSUME NEW m1 \in Nodes, NEW m2 \in Nodes, NEW f \in Names
          PROVE  \/ store'[m1][f] = store'[m2][f]
                 \/ \E v \in BusyPosts' :
                       /\ key'[v] = f
                       /\ (send'[v][m1] = "done") # (send'[v][m2] = "done")
      <4>1. CASE f # key[u]
        <5>1. store'[m1][f] = store[m1][f] /\ store'[m2][f] = store[m2][f]
          BY <1>1, <3>1, <3>2, <4>1
        <5> QED
          BY <1>3, <3>1, <4>1, <5>1
      <4>2. CASE f = key[u] /\ ((send'[u][m1] = "done") = (send'[u][m2] = "done"))
        <5>1. CASE send'[u][m1] = "done"
          BY <3>3, <4>2, <5>1
        <5>2. CASE send'[u][m1] # "done"
          <6>1. send'[u][m2] # "done"
            BY <4>2, <5>2
          <6>2. m1 # n /\ m2 # n /\ send[u][m1] # "done" /\ send[u][m2] # "done"
            BY <1>1, <3>1, <5>2, <6>1
          <6>3. store'[m1][f] = store[m1][f] /\ store'[m2][f] = store[m2][f]
            BY <1>1, <3>1, <3>2, <6>2
          <6> QED
            BY <1>3, <3>1, <6>2, <6>3
        <5> QED
          BY <5>1, <5>2
      <4>3. CASE f = key[u] /\ ((send'[u][m1] = "done") # (send'[u][m2] = "done"))
        BY <3>1, <4>3
      <4> QED
        BY <4>1, <4>2, <4>3
    <3> QED
      BY <3>4, <3>5
  <2>3. ~SendFails(u, n)
    BY <1>1 DEF SendFails
  <2> QED
    BY <1>6, <2>1, <2>2, <2>3 DEF SendStep
<1>7. ASSUME NEW q \in Queries, QueryStep(q) PROVE Data1 /\ Same1
  BY <1>4, <1>7, QueryStepKeeps
<1>8. \A n \in Nodes, f \in Names : ~NodeLoses(n, f)
  BY <1>1 DEF NodeLoses
<1>9. CASE UNCHANGED vars
  BY <1>4, <1>9 DEF vars, BusyPosts
<1> QED
  BY <1>1, <1>5, <1>6, <1>7, <1>8, <1>9 DEF Next, Environment

\* A copy of nothing but what was lost is a copy.
LEMMA CopyAfterLoss ==
    ASSUME NEW file, NEW d, NEW b \in DOMAIN file, IsCopy(file, d)
    PROVE  IsCopy([file EXCEPT ![b] = Lost], d)
BY DEF IsCopy

\* What a client sent is not forgotten.
LEMMA RequestsPersist ==
    ASSUME Workers = 1, SerialInv, [Next]_vars
    PROVE  \A v \in Uploads : req[v] # None => req'[v] = req[v]
<1> USE DEF files, sends, counters
<1>1. ASSUME NEW u \in Uploads, PostStep(u)
      PROVE  \A v \in Uploads : req[v] # None => req'[v] = req[v]
  <2>1. CASE (\E r \in Requests : Post(u, r)) \/ PostRefused(u) \/ ParseName(u)
    BY <2>1, TurnStep
  <2>2. CASE ~((\E r \in Requests : Post(u, r)) \/ PostRefused(u) \/ ParseName(u))
    BY <1>1, <2>2 DEF PostStep, ParseFlag, StoreTree, StoreTreeFails, AckRoot, OpenTmp,
                      WriteTmp, Finish
  <2> QED
    BY <2>1, <2>2
<1>2. ASSUME NEW u \in Uploads, NEW n \in Nodes, SendStep(u, n) PROVE req' = req
  BY <1>2 DEF SendStep, ReadTmp, NodePost, NodeStore, SendFails
<1>3. ASSUME NEW q \in Queries, QueryStep(q) PROVE req' = req
  BY <1>3, QueryStepKeeps
<1>4. Environment => req' = req
  BY DEF Environment, Crash, NodeLoses
<1>5. UNCHANGED vars => req' = req
  BY DEF vars
<1> QED
  BY <1>1, <1>2, <1>3, <1>4, <1>5 DEF Next

\* Every step keeps the proxy's table and the nodes' files together.
LEMMA NextRegistered ==
    ASSUME Workers = 1, SerialInv, NoCrashInv, ParsingInv, RegisteredInv, [Next]_vars
    PROVE  RegisteredInv'
<1> USE DEF files, sends, counters
<1> SUFFICES ASSUME crashes' = 0, failures' = 0, NEW f \in Names, OnlySecured(f)'
             PROVE  /\ \A v \in BusyPosts' :
                          pc'[v] \in PastTree /\ key'[v] = f => table'[f] = req'[v].data
                    /\ \A n \in Nodes :
                          \/ IsCopy(store'[n][f], table'[f])
                          \/ \E v \in BusyPosts' :
                                pc'[v] \in PastTree /\ key'[v] = f /\ send'[v][n] # "done"
  BY DEF RegisteredInv, IsCopy, PastTree
<1> DEFINE TableNext == \A v \in BusyPosts' :
                pc'[v] \in PastTree /\ key'[v] = f => table'[f] = req'[v].data
           CopyNext == \A n \in Nodes :
                \/ IsCopy(store'[n][f], table'[f])
                \/ \E v \in BusyPosts' :
                      pc'[v] \in PastTree /\ key'[v] = f /\ send'[v][n] # "done"
<1>1. /\ crashes = 0 /\ failures = 0 /\ ~Crash
      /\ pc \in [Uploads -> PostStates] /\ send \in [Uploads -> [Nodes -> SendStates]]
      /\ store \in [Nodes -> [Keys -> Files]] /\ key \in [Uploads -> Keys]
      /\ table \in [Keys -> Seq(Data)] /\ f \in Keys /\ f # NoName
      /\ OneHandler /\ UploadInv
  BY CountersGrow, ServersAssumption DEF SerialInv, TypeOK, Keys
<1>2. OnlySecured(f) /\ \A v \in Uploads : req[v] # None => req'[v] = req[v]
  <2>1. \A v \in Uploads : req[v] # None => req'[v] = req[v]
    BY RequestsPersist
  <2> QED
    BY <2>1 DEF OnlySecured
<1>3. \A v \in BusyPosts : pc[v] \in PastTree /\ key[v] = f => table[f] = req[v].data
  BY <1>1, <1>2 DEF RegisteredInv
<1>4. \A n \in Nodes :
         \/ IsCopy(store[n][f], table[f])
         \/ \E v \in BusyPosts : pc[v] \in PastTree /\ key[v] = f /\ send[v][n] # "done"
  BY <1>1, <1>2 DEF RegisteredInv
<1>5. ASSUME table' = table, store' = store, key' = key, req' = req, BusyPosts' = BusyPosts,
             \A v \in BusyPosts : pc'[v] \in PastTree <=> pc[v] \in PastTree,
             \A v \in BusyPosts, n \in Nodes : send'[v][n] = "done" <=> send[v][n] = "done"
      PROVE  TableNext /\ CopyNext
  BY <1>3, <1>4, <1>5
<1>6. ASSUME NEW u \in Uploads, PostStep(u) PROVE TableNext /\ CopyNext
  <2>1. CASE (\E r \in Requests : Post(u, r)) \/ PostRefused(u) \/ ParseName(u)
    <3>1. /\ BusyPosts = {} /\ BusyPosts' \subseteq {u} /\ table' = table
          /\ store' = store /\ send' = send
      BY <2>1, TurnStep
    <3>2. CopyNext
      BY <1>4, <3>1
    <3>3. pc'[u] \in PastTree /\ u \in BusyPosts' => key'[u] # f
      <4>1. CASE (\E r \in Requests : Post(u, r)) \/ PostRefused(u)
        BY <1>1, <4>1 DEF Post, PostRefused, PastTree
      <4>2. CASE ParseName(u)
        <5>1. pc[u] = "reading" /\ req[u] # None
          BY <1>1, <4>2, RequestsAssumption DEF ParseName, SerialInv, TypeOK
        <5>2. pc'[u] \in PastTree => key'[u] = NoName \/ (key'[u] = req[u].name /\ ~req[u].secured)
          BY <1>1, <4>2 DEF ParseName, PastTree
        <5> QED
          BY <1>1, <1>2, <5>1, <5>2 DEF OnlySecured
      <4> QED
        BY <2>1, <4>1, <4>2
    <3> QED
      BY <3>1, <3>2, <3>3
  <2>2. CASE ParseFlag(u)
    <3>1. /\ BusyPosts = {u} /\ BusyPosts' = {u}
          /\ store' = store /\ key' = key /\ req' = req /\ table' = table
          /\ pc[u] = "parsing" /\ pc'[u] = "hashing"
      BY <1>1, <2>2, HandlerStep DEF ParseFlag, ParsingInv
    <3> QED
      BY <1>4, <3>1 DEF PastTree
  <2>3. CASE StoreTree(u)
    <3>1. /\ BusyPosts = {u} /\ BusyPosts' = {u} /\ pc[u] = "hashing" /\ pc'[u] = "acking"
          /\ store' = store /\ key' = key /\ req' = req
          /\ table' = [table EXCEPT ![key[u]] = req[u].data]
          /\ \A n \in Nodes : send'[u][n] # "done"
      BY <1>1, <2>3, HandlerStep DEF StoreTree
    <3>2. CASE key[u] = f
      <4>1. table'[f] = req[u].data
        BY <1>1, <3>1, <3>2
      <4> QED
        BY <3>1, <3>2, <4>1 DEF PastTree
    <3>3. CASE key[u] # f
      <4>1. table'[f] = table[f]
        BY <1>1, <3>1, <3>3
      <4> QED
        BY <1>4, <3>1, <3>3, <4>1 DEF PastTree
    <3> QED
      BY <3>2, <3>3
  <2>4. ~StoreTreeFails(u)
    BY <1>1 DEF StoreTreeFails
  <2>5. CASE AckRoot(u) \/ OpenTmp(u) \/ WriteTmp(u)
    <3>1. /\ BusyPosts = {u} /\ BusyPosts' = {u}
          /\ store' = store /\ key' = key /\ req' = req
          /\ \A n \in Nodes : send[u][n] # "done" /\ send'[u][n] # "done"
      BY <2>5, HandlerStep
    <3>2. table' = table /\ pc[u] \in PastTree /\ pc'[u] \in PastTree
      BY <1>1, <2>5 DEF AckRoot, OpenTmp, WriteTmp, PastTree
    <3> QED
      BY <1>5, <3>1, <3>2
  <2>6. CASE Finish(u)
    <3>1. /\ pc[u] = "sending" /\ pc' = [pc EXCEPT ![u] = "done"]
          /\ store' = store /\ table' = table
          /\ \A n \in Nodes : send[u][n] = "done"
      BY <2>6 DEF Finish
    <3>2. BusyPosts = {u} /\ BusyPosts' = {}
      BY <1>1, <3>1 DEF OneHandler, BusyPosts, InHandler
    <3> QED
      BY <1>4, <3>1, <3>2
  <2> QED
    BY <1>6, <2>1, <2>2, <2>3, <2>4, <2>5, <2>6 DEF PostStep
<1>7. ASSUME NEW u \in Uploads, NEW n \in Nodes, SendStep(u, n) PROVE TableNext /\ CopyNext
  <2>1. CASE ReadTmp(u, n) \/ NodePost(u, n)
    <3>1. /\ send[u][n] \in {"start", "read"} /\ table' = table
          /\ store' = store /\ key' = key /\ req' = req /\ pc' = pc
      BY <2>1 DEF ReadTmp, NodePost
    <3>2. tmp # None
      BY <1>1, <3>1, PostedIsUnderWay DEF SerialInv, TmpInv
    <3>3. \E s \in {"read", "posted"} : send' = [send EXCEPT ![u][n] = s]
      BY <2>1, <3>2 DEF ReadTmp, NodePost
    <3>4. \A v \in Uploads, m \in Nodes : send'[v][m] = "done" <=> send[v][m] = "done"
      BY <1>1, <3>1, <3>3
    <3>5. BusyPosts' = BusyPosts
      BY <3>1 DEF BusyPosts
    <3> QED
      BY <1>5, <3>1, <3>4, <3>5 DEF BusyPosts
  <2>2. CASE NodeStore(u, n)
    <3>1. /\ BusyPosts = {u} /\ BusyPosts' = {u} /\ pc[u] = "sending"
          /\ store' = [store EXCEPT ![n][key[u]] = req[u].data]
          /\ send' = [send EXCEPT ![u][n] = "done"]
          /\ pc' = pc /\ key' = key /\ req' = req /\ table' = table
      BY <1>1, <2>2, StoredIsUnderWay DEF BusyPosts
    <3>2. TableNext
      BY <1>3, <3>1
    <3>3. ASSUME NEW m \in Nodes
          PROVE  \/ IsCopy(store'[m][f], table'[f])
                 \/ \E v \in BusyPosts' :
                       pc'[v] \in PastTree /\ key'[v] = f /\ send'[v][m] # "done"
      <4>1. CASE m = n /\ key[u] = f
        <5>1. store'[m][f] = req[u].data
          BY <1>1, <3>1, <4>1
        <5>2. table'[f] = req[u].data
          BY <1>3, <3>1, <4>1 DEF PastTree
        <5> QED
          BY <5>1, <5>2 DEF IsCopy
      <4>2. CASE m # n \/ key[u] # f
        <5>1. store'[m][f] = store[m][f]
          BY <1>1, <3>1, <4>2
        <5>2. m # n => send'[u][m] = send[u][m]
          BY <1>1, <3>1
        <5> QED
          BY <1>4, <3>1, <4>2, <5>1, <5>2
      <4> QED
        BY <4>1, <4>2
    <3> QED
      BY <3>2, <3>3
  <2>3. ~SendFails(u, n)
    BY <1>1 DEF SendFails
  <2> QED
    BY <1>7, <2>1, <2>2, <2>3 DEF SendStep
<1>8. ASSUME NEW q \in Queries, QueryStep(q) PROVE TableNext /\ CopyNext
  BY <1>5, <1>8, QueryStepKeeps
<1>9. ASSUME NEW n \in Nodes, NEW g \in Names, NodeLoses(n, g) PROVE TableNext /\ CopyNext
  <2>1. /\ table' = table /\ pc' = pc /\ key' = key /\ req' = req /\ send' = send
    BY <1>9 DEF NodeLoses
  <2>2. BusyPosts' = BusyPosts
    BY <2>1 DEF BusyPosts
  <2>3. PICK b \in DOMAIN store[n][g] : store' = [store EXCEPT ![n][g][b] = Lost]
    BY <1>9 DEF NodeLoses
  <2>4. ASSUME NEW m \in Nodes, IsCopy(store[m][f], table[f])
        PROVE  IsCopy(store'[m][f], table[f])
    <3>1. CASE m = n /\ g = f
      <4>1. store'[m][f] = [store[n][f] EXCEPT ![b] = Lost]
        BY <1>1, <2>3, <3>1
      <4> QED
        BY <2>3, <2>4, <3>1, <4>1, CopyAfterLoss
    <3>2. CASE m # n \/ g # f
      <4>1. store'[m][f] = store[m][f]
        BY <1>1, <2>3, <3>2
      <4> QED
        BY <2>4, <4>1
    <3> QED
      BY <3>1, <3>2
  <2> QED
    BY <1>3, <1>4, <2>1, <2>2, <2>4
<1>10. CASE UNCHANGED vars
  BY <1>5, <1>10 DEF vars, BusyPosts
<1> QED
  BY <1>1, <1>6, <1>7, <1>8, <1>9, <1>10 DEF Next, Environment

\* What was sent, or failed, for a dead proxy stays so.
LEMMA DeadStay ==
    ASSUME TypeOK, [Next]_vars, NEW v \in Uploads, NEW n \in Nodes,
           pc[v] = "dropped", send[v][n] = "done"
    PROVE  pc'[v] = "dropped" /\ key'[v] = key[v] /\ send'[v][n] = "done"
<1> USE DEF files, sends, counters
<1>2. ASSUME NEW u \in Uploads, PostStep(u)
      PROVE  pc'[v] = "dropped" /\ key'[v] = key[v] /\ send'[v][n] = "done"
  <2>1. u # v
    BY <1>2 DEF PostStep, Post, PostRefused, ParseName, ParseFlag, StoreTree,
                StoreTreeFails, AckRoot, OpenTmp, WriteTmp, Finish
  <2> QED
    BY <1>2, <2>1 DEF PostStep, Post, PostRefused, ParseName, ParseFlag, StoreTree,
                      StoreTreeFails, AckRoot, OpenTmp, WriteTmp, Finish, TypeOK
<1>3. ASSUME NEW u \in Uploads, NEW m \in Nodes, SendStep(u, m)
      PROVE  pc'[v] = "dropped" /\ key'[v] = key[v] /\ send'[v][n] = "done"
  <2>1. /\ pc' = pc /\ key' = key /\ send[u][m] # "done"
        /\ \E x : send' = [send EXCEPT ![u][m] = x]
    BY <1>3 DEF SendStep, ReadTmp, NodePost, NodeStore, SendFails
  <2> QED
    BY <2>1 DEF TypeOK
<1>4. ASSUME NEW q \in Queries, QueryStep(q)
      PROVE  pc'[v] = "dropped" /\ key'[v] = key[v] /\ send'[v][n] = "done"
  BY <1>4, QueryStepKeeps
<1>5. CASE Crash
  BY <1>5 DEF Crash, InHandler
<1>6. ASSUME NEW m \in Nodes, NEW g \in Names, NodeLoses(m, g)
      PROVE  pc'[v] = "dropped" /\ key'[v] = key[v] /\ send'[v][n] = "done"
  BY <1>6 DEF NodeLoses
<1>7. CASE UNCHANGED vars
  BY <1>7 DEF vars
<1> QED
  BY <1>2, <1>3, <1>4, <1>5, <1>6, <1>7 DEF Next, Environment

\* What a step of a query makes of it.
LEMMA QueryStepIs ==
    ASSUME TypeOK, NEW q \in Queries, QueryStep(q), QueryIs(query[q])
    PROVE  QueryIs(query[q])'
<1> USE DEF files, sends, counters
<1>1. /\ query \in [Queries -> Challenge] /\ query[q] \in Challenge
      /\ table \in [Keys -> Seq(Data)]
      /\ failures \in Nat /\ table' = table /\ store' = store /\ losses' = losses
  BY QueryStepKeeps, ServersAssumption DEF TypeOK
<1>2. CASE \E f \in Names : ReadTree(q, f)
  <2>1. PICK f \in Names : ReadTree(q, f)
    BY <1>2
  <2>2. PICK c : /\ query' = [query EXCEPT ![q] = c]
                 /\ \/ c = [NoQuery EXCEPT !.pc = "done", !.name = f, !.verdict = "error"]
                    \/ c = [NoQuery EXCEPT !.pc = "hung", !.name = f]
                    \/ \E S \in Draws(Len(table[f])), n \in Nodes :
                          c = [NoQuery EXCEPT !.pc = "asking", !.name = f, !.tree = table[f],
                                              !.blocks = S, !.node = n]
    BY <2>1 DEF ReadTree
  <2>3. query'[q] = c
    BY <1>1, <2>2
  <2>4. CASE c = [NoQuery EXCEPT !.pc = "done", !.name = f, !.verdict = "error"]
    <3>1. c.pc = "done"
      BY <2>4 DEF NoQuery
    <3> QED
      BY <2>3, <3>1 DEF QueryIs, InQuery, Asked
  <2>5. CASE c = [NoQuery EXCEPT !.pc = "hung", !.name = f]
    <3>1. c.pc = "hung" /\ c.verdict = "none"
      BY <2>5 DEF NoQuery
    <3> QED
      BY <2>3, <3>1 DEF QueryIs, InQuery, Asked
  <2>6. ASSUME NEW S \in Draws(Len(table[f])), NEW n \in Nodes,
               c = [NoQuery EXCEPT !.pc = "asking", !.name = f, !.tree = table[f],
                                   !.blocks = S, !.node = n]
        PROVE  QueryIs(query[q])'
    <3>1. /\ c.pc = "asking" /\ c.verdict = "none" /\ c.answer = {} /\ c.node = n
          /\ c.name = f /\ c.tree = table[f] /\ c.blocks = S
      BY <2>6 DEF NoQuery
    <3>2. table[f] \in Seq(Data)
      BY <1>1 DEF Keys
    <3>3. S \subseteq DOMAIN table[f]
      BY <3>2 DEF Draws
    <3> QED
      BY <1>1, <2>3, <3>1, <3>3 DEF QueryIs, InQuery, Asked
  <2> QED
    BY <2>2, <2>4, <2>5, <2>6
<1>3. CASE \E f \in Names : AskFile(q, f)
  <2>1. PICK f \in Names, n \in Nodes :
            query' = [query EXCEPT ![q] = [NoQuery EXCEPT !.pc = "getting", !.name = f, !.node = n]]
    BY <1>3 DEF AskFile
  <2>2. /\ query'[q].pc = "getting" /\ query'[q].verdict = "none"
        /\ query'[q].node = n /\ query'[q].name = f
    BY <1>1, <2>1 DEF NoQuery
  <2> QED
    BY <2>2 DEF QueryIs, InQuery, Asked
<1>4. CASE NodeAnswer(q)
  <2>1. /\ query[q].pc = "asking" /\ query'[q].pc = "answered"
        /\ query'[q].verdict = query[q].verdict /\ query'[q].node = query[q].node
        /\ query'[q].name = query[q].name /\ query'[q].tree = query[q].tree
        /\ query'[q].blocks = query[q].blocks
        /\ query'[q].answer = Hashes(store[query[q].node][query[q].name],
              query[q].blocks \cap DOMAIN store[query[q].node][query[q].name])
    BY <1>1, <1>4 DEF NodeAnswer, Challenge
  <2> QED
    BY <1>1, <2>1 DEF QueryIs, InQuery, Asked
<1>5. CASE NodeReturns(q)
  <2>1. /\ query[q].pc = "getting" /\ query'[q].pc = "got"
        /\ query'[q].verdict = query[q].verdict /\ query'[q].node = query[q].node
        /\ query'[q].name = query[q].name
        /\ query'[q].file = Append(store[query[q].node][query[q].name], Newline)
    BY <1>1, <1>5 DEF NodeReturns, Challenge
  <2> QED
    BY <1>1, <2>1 DEF QueryIs, InQuery, Asked
<1>6. CASE NodeSilent(q)
  <2>1. failures' = failures + 1
    BY <1>6 DEF NodeSilent
  <2>2. PICK c : /\ query' = [query EXCEPT ![q] = c]
                 /\ \/ query[q].pc = "asking" /\ c = [query[q] EXCEPT !.pc = "answered"]
                    \/ /\ query[q].pc = "getting"
                       /\ c = [query[q] EXCEPT !.pc = "got", !.file = <<Newline>>]
    BY <1>6 DEF NodeSilent
  <2>3. /\ query'[q].verdict = query[q].verdict /\ query'[q].node = query[q].node
        /\ query'[q].name = query[q].name /\ query'[q].tree = query[q].tree
        /\ query'[q].blocks = query[q].blocks /\ query'[q].answer = query[q].answer
        /\ \/ query[q].pc = "asking" /\ query'[q].pc = "answered"
           \/ query[q].pc = "getting" /\ query'[q].pc = "got"
    BY <1>1, <2>2 DEF Challenge
  <2> QED
    BY SMTT(30), <1>1, <2>1, <2>3 DEF QueryIs, InQuery, Asked
<1>7. CASE Validate(q) \/ AnswerGet(q)
  <2>1. query'[q].pc = "done"
    <3>1. CASE Validate(q)
      BY <1>1, <3>1 DEF Validate, NoQuery
    <3>2. CASE AnswerGet(q)
      BY <1>1, <3>2 DEF AnswerGet, NoQuery
    <3> QED
      BY <1>7, <3>1, <3>2
  <2> QED
    BY <2>1 DEF QueryIs, InQuery, Asked
<1> QED
  BY <1>2, <1>3, <1>4, <1>5, <1>6, <1>7 DEF QueryStep

\* Every step keeps what a challenge or a GET under way has read.
LEMMA NextQuery ==
    ASSUME Workers = 1, SerialInv, QueryInv, [Next]_vars
    PROVE  QueryInv'
<1> USE DEF files, sends, counters
<1> SUFFICES ASSUME NEW d \in Queries PROVE QueryIs(query[d])'
  BY DEF QueryInv, QueryIs
<1>1. /\ TypeOK /\ OneHandler /\ UploadInv /\ QueryIs(query[d])
      /\ failures \in Nat /\ losses \in Nat
  BY ServersAssumption DEF QueryInv, SerialInv, TypeOK
<1>dead. \A n \in Nodes : \A v \in Uploads : pc[v] = "dropped" /\ send[v][n] = "done" =>
          pc'[v] = "dropped" /\ key'[v] = key[v] /\ send'[v][n] = "done"
  BY <1>1, DeadStay
<1>rests. ASSUME query'[d] = query[d], table' = table, losses' = losses,
             failures' \in {failures, failures + 1},
             query[d].pc \in InQuery =>
                \/ \E v \in Uploads : /\ pc'[v] = "dropped" /\ key'[v] = query[d].name
                                      /\ send'[v][query[d].node] = "done"
                \/ store'[query[d].node][query[d].name] = store[query[d].node][query[d].name]
      PROVE  QueryIs(query[d])'
  <2>1. CASE query[d].pc \notin InQuery
    BY <1>1, <1>rests, <2>1 DEF QueryIs, InQuery, Asked
  <2>2. CASE query[d].pc \in InQuery
    <3>1. query[d].node \in Nodes /\ query[d].name \in Names
      BY <1>1, <2>2 DEF QueryIs
    <3>2. StoredForTheDead(query[d].node, query[d].name) =>
             \E v \in Uploads : /\ pc'[v] = "dropped" /\ key'[v] = query[d].name
                                /\ send'[v][query[d].node] = "done"
      BY <1>dead, <3>1 DEF StoredForTheDead
    <3>3. CASE \E v \in Uploads : /\ pc'[v] = "dropped" /\ key'[v] = query[d].name
                                  /\ send'[v][query[d].node] = "done"
      <4>1. StoredForTheDead(query[d].node, query[d].name)'
        BY <1>rests, <3>3 DEF StoredForTheDead
      <4> QED
        BY <1>1, <1>rests, <2>2, <3>1, <4>1 DEF QueryIs, InQuery, Asked
    <3>4. CASE /\ ~StoredForTheDead(query[d].node, query[d].name)
               /\ store'[query[d].node][query[d].name] = store[query[d].node][query[d].name]
      BY SMTT(30), <1>1, <1>rests, <2>2, <3>1, <3>4 DEF QueryIs, InQuery, Asked
    <3> QED
      BY <1>rests, <2>2, <3>2, <3>3, <3>4
  <2> QED
    BY <2>1, <2>2
<1>2. ASSUME query' = query, BusyQueries = {} PROVE QueryIs(query[d])'
  <2>1. query'[d] = query[d] /\ query[d].pc \notin InQuery
    BY <1>2 DEF BusyQueries
  <2> QED
    BY <1>1, <2>1 DEF QueryIs, InQuery, Asked
<1>3. ASSUME NEW u \in Uploads, PostStep(u) PROVE QueryIs(query[d])'
  <2>1. query' = query
    BY <1>3 DEF PostStep, Post, PostRefused, ParseName, ParseFlag, StoreTree,
                StoreTreeFails, AckRoot, OpenTmp, WriteTmp, Finish
  <2>2. BusyQueries = {}
    <3>1. CASE (\E r \in Requests : Post(u, r)) \/ PostRefused(u) \/ ParseName(u)
      BY <3>1, TurnStep
    <3>2. CASE ~((\E r \in Requests : Post(u, r)) \/ PostRefused(u) \/ ParseName(u))
      <4>1. u \in BusyPosts
        BY <1>3, <3>2 DEF PostStep, ParseFlag, StoreTree, StoreTreeFails, AckRoot, OpenTmp,
                          WriteTmp, Finish, BusyPosts, InHandler
      <4> QED
        BY <1>1, <4>1 DEF OneHandler
    <3> QED
      BY <3>1, <3>2
  <2> QED
    BY <1>2, <2>1, <2>2
<1>4. ASSUME NEW u \in Uploads, NEW n \in Nodes, SendStep(u, n) PROVE QueryIs(query[d])'
  <2>1. query' = query
    BY <1>4 DEF SendStep, ReadTmp, NodePost, NodeStore, SendFails
  <2>2. CASE BusyPosts # {}
    BY <1>1, <1>2, <2>1, <2>2 DEF OneHandler
  <2>3. CASE BusyPosts = {}
    <3>1. pc[u] = "dropped" /\ (NodeStore(u, n) \/ SendFails(u, n))
      BY <1>1, <1>4, <2>3 DEF SendStep, ReadTmp, NodePost, NodeStore, SendFails, UploadInv, BusyPosts, InHandler
    <3>2. CASE SendFails(u, n)
      <4>1. failures' = failures + 1 /\ store' = store /\ table' = table /\ losses' = losses
        BY <3>2 DEF SendFails
      <4> QED
        BY <1>rests, <2>1, <4>1
    <3>3. CASE NodeStore(u, n)
      <4>1. failures' = failures /\ table' = table /\ losses' = losses /\ pc' = pc /\ key' = key
            /\ \E x : store' = [store EXCEPT ![n][IF boundary[n] = u THEN key[u] ELSE NoName] = x]
            /\ send' = [send EXCEPT ![u][n] = "done"]
        BY <3>3 DEF NodeStore
      <4>2. send'[u][n] = "done"
        BY <1>1, <4>1 DEF TypeOK
      <4>3. query[d].pc \in InQuery =>
               \/ \E v \in Uploads : /\ pc'[v] = "dropped" /\ key'[v] = query[d].name
                                     /\ send'[v][query[d].node] = "done"
               \/ store'[query[d].node][query[d].name] = store[query[d].node][query[d].name]
        <5> SUFFICES ASSUME query[d].pc \in InQuery PROVE
               \/ \E v \in Uploads : /\ pc'[v] = "dropped" /\ key'[v] = query[d].name
                                     /\ send'[v][query[d].node] = "done"
               \/ store'[query[d].node][query[d].name] = store[query[d].node][query[d].name]
          OBVIOUS
        <5>1. query[d].node \in Nodes /\ query[d].name \in Names /\ query[d].name # NoName
          BY <1>1, ServersAssumption DEF QueryIs
        <5>2. CASE query[d].node = n /\ query[d].name = key[u]
          BY <3>1, <4>1, <4>2, <5>2
        <5>3. CASE ~(query[d].node = n /\ query[d].name = key[u])
          BY <1>1, <4>1, <5>1, <5>3 DEF TypeOK
        <5> QED
          BY <5>2, <5>3
      <4> QED
        BY <1>rests, <2>1, <4>1, <4>3
    <3> QED
      BY <3>1, <3>2, <3>3
  <2> QED
    BY <2>2, <2>3
<1>5. ASSUME NEW q \in Queries, QueryStep(q) PROVE QueryIs(query[d])'
  <2>1. CASE q = d
    BY <1>1, <1>5, <2>1, QueryStepIs
  <2>2. CASE q # d
    <3>1. /\ query'[d] = query[d] /\ failures' \in {failures, failures + 1}
          /\ table' = table /\ store' = store /\ losses' = losses
      <4>1. query \in [Queries -> Challenge]
        BY <1>1 DEF TypeOK
      <4>2. \E c : query' = [query EXCEPT ![q] = c]
        BY <1>5 DEF QueryStep, ReadTree, AskFile, NodeAnswer, NodeReturns, NodeSilent,
                    Validate, AnswerGet
      <4>3. failures' \in {failures, failures + 1}
        BY <1>5 DEF QueryStep, ReadTree, AskFile, NodeAnswer, NodeReturns, NodeSilent,
                    Validate, AnswerGet
      <4> QED
        BY <1>5, <2>2, <4>1, <4>2, <4>3, QueryStepKeeps
    <3> QED
      BY <1>rests, <3>1
  <2> QED
    BY <2>1, <2>2
<1>6. ASSUME NEW n \in Nodes, NEW f \in Names, NodeLoses(n, f) PROVE QueryIs(query[d])'
  <2>1. query' = query /\ table' = table /\ losses' = losses + 1
    BY <1>6 DEF NodeLoses
  <2>2. losses' # 0
    BY <1>1, <2>1
  <2> QED
    BY <1>1, <2>1, <2>2 DEF QueryIs
<1>7. CASE Crash
  <2>1. \/ query'[d] = query[d] /\ query[d].pc \notin InQuery
        \/ query'[d].pc = "dropped" /\ query'[d].verdict = "none"
    BY <1>7 DEF Crash, NoQuery
  <2> QED
    BY <1>1, <2>1 DEF QueryIs, InQuery, Asked
<1>8. CASE UNCHANGED vars
  <2>1. query' = query /\ table' = table /\ store' = store /\ losses' = losses /\ failures' = failures
    BY <1>8 DEF vars
  <2> QED
    BY <1>rests, <2>1
<1> QED
  BY <1>3, <1>4, <1>5, <1>6, <1>7, <1>8 DEF Next, Environment

-----------------------------------------------------------------------------
(* One worker: what the clients can rely on                                *)

\* All of it holds at first.
LEMMA InitService == Init => ServiceInv
<1> SUFFICES ASSUME Init PROVE ServiceInv
  OBVIOUS
<1>1. SerialInv /\ NoCrashInv
  BY InitCalm DEF CalmInv
<1>2. ParsingInv /\ IntactInv /\ BusyPosts = {}
  BY DEF Init, ParsingInv, IntactInv, BusyPosts, InHandler, Keys
<1>3. AgreeInv
  BY <1>2 DEF Init, AgreeInv, Keys
<1>4. RegisteredInv
  BY <1>2 DEF Init, RegisteredInv, IsCopy, Keys
<1>5. QueryInv
  BY DEF Init, QueryInv, QueryIs, NoQuery, InQuery, Asked
<1> QED
  BY <1>1, <1>2, <1>3, <1>4, <1>5 DEF ServiceInv

\* And every step keeps it.
LEMMA NextService == Workers = 1 /\ ServiceInv /\ [Next]_vars => ServiceInv'
BY NextSerial, NextNoCrash, NextParsing, NextIntact, NextAgree, NextRegistered, NextQuery
   DEF ServiceInv

\* The inductive invariant of the service with one worker, whatever crashes,
\* fails or gets lost.
THEOREM ServiceInvariant ==
    ASSUME Workers = 1
    PROVE  Spec => []ServiceInv
<1>1. Init => ServiceInv
  BY InitService
<1>2. ServiceInv /\ [Next]_vars => ServiceInv'
  BY NextService
<1> QED
  BY <1>1, <1>2, PTL DEF Spec

\* Between uploads all nodes hold the same files, until something fails.
THEOREM ReplicasAlwaysAgree ==
    ASSUME Workers = 1
    PROVE  Spec => []ReplicasAgree
<1>1. ServiceInv => ReplicasAgree
  BY DEF ServiceInv, AgreeInv, ReplicasAgree, Quiet
<1> QED
  BY <1>1, ServiceInvariant, PTL

\* ... and the file the proxy's table describes, lost blocks apart.
THEOREM RegisteredOnEveryNode ==
    ASSUME Workers = 1
    PROVE  Spec => []RegisteredFileOnEveryNode
<1>1. ServiceInv => RegisteredFileOnEveryNode
  BY DEF ServiceInv, RegisteredInv, RegisteredFileOnEveryNode, Quiet
<1> QED
  BY <1>1, ServiceInvariant, PTL

\* Only RpiAuth::validate tells a client how its challenge ended.
LEMMA VerdictStep ==
    ASSUME ServiceInv, [Next]_vars, NEW q \in Queries,
           query'[q] # query[q], query'[q].verdict \in {"match", "differs", "mismatch"}
    PROVE  Validate(q)
<1> USE DEF files, sends, counters
<1>1. query \in [Queries -> Challenge] /\ QueryIs(query[q])
  BY DEF ServiceInv, SerialInv, TypeOK, QueryInv
<1>2. PICK d \in Queries : QueryStep(d)
  <2>1. ASSUME NEW u \in Uploads, PostStep(u) PROVE query' = query
    BY <2>1 DEF PostStep, Post, PostRefused, ParseName, ParseFlag, StoreTree,
                StoreTreeFails, AckRoot, OpenTmp, WriteTmp, Finish
  <2>2. ASSUME NEW u \in Uploads, NEW n \in Nodes, SendStep(u, n) PROVE query' = query
    BY <2>2 DEF SendStep, ReadTmp, NodePost, NodeStore, SendFails
  <2>3. ASSUME NEW n \in Nodes, NEW f \in Names, NodeLoses(n, f) PROVE query' = query
    BY <2>3 DEF NodeLoses
  <2>4. ~Crash
    <3>1. Crash => \/ query'[q] = query[q]
                   \/ query'[q] = [NoQuery EXCEPT !.pc = "dropped", !.name = query[q].name]
      BY DEF Crash
    <3>2. [NoQuery EXCEPT !.pc = "dropped", !.name = query[q].name].verdict = "none"
      BY DEF NoQuery
    <3> QED
      BY <3>1, <3>2
  <2>5. UNCHANGED vars => query' = query
    BY DEF vars
  <2> QED
    BY <2>1, <2>2, <2>3, <2>4, <2>5 DEF Next, Environment
<1>3. d = q
  <2>1. \E c : query' = [query EXCEPT ![d] = c]
    BY <1>2 DEF QueryStep, ReadTree, AskFile, NodeAnswer, NodeReturns, NodeSilent,
                Validate, AnswerGet
  <2> QED
    BY <1>1, <2>1
<1>4. CASE \E f \in Names : ReadTree(q, f) \/ AskFile(q, f)
  <2>1. query'[q].verdict \in {"error", "none"}
    BY ZenonT(30), <1>1, <1>4 DEF ReadTree, AskFile, NoQuery
  <2> QED
    BY <2>1
<1>5. CASE NodeAnswer(q) \/ NodeReturns(q) \/ NodeSilent(q)
  <2>1. query[q].pc \in {"asking", "getting"} /\ query'[q].verdict = query[q].verdict
    <3>1. CASE NodeAnswer(q)
      BY <1>1, <3>1 DEF NodeAnswer, Challenge
    <3>2. CASE NodeSilent(q)
      <4>1. PICK c : /\ query' = [query EXCEPT ![q] = c]
                     /\ \/ query[q].pc = "asking" /\ c = [query[q] EXCEPT !.pc = "answered"]
                        \/ /\ query[q].pc = "getting"
                           /\ c = [query[q] EXCEPT !.pc = "got", !.file = <<Newline>>]
        BY <3>2 DEF NodeSilent
      <4> QED
        BY <1>1, <4>1 DEF Challenge
    <3>3. CASE NodeReturns(q)
      BY <1>1, <3>3 DEF NodeReturns, Challenge
    <3> QED
      BY <1>5, <3>1, <3>2, <3>3
  <2>2. query[q].verdict = "none"
    BY <1>1, <2>1 DEF QueryIs
  <2> QED
    BY <2>1, <2>2
<1>6. CASE AnswerGet(q)
  <2>1. query'[q].verdict = "file"
    BY <1>1, <1>6 DEF AnswerGet, NoQuery
  <2> QED
    BY <2>1
<1> QED
  BY <1>2, <1>3, <1>4, <1>5, <1>6 DEF QueryStep

\* Without a crash nothing is stored for a dead proxy.
LEMMA NoneStored ==
    ASSUME ServiceInv, crashes = 0, NEW n, NEW f
    PROVE  ~StoredForTheDead(n, f)
BY DEF ServiceInv, NoCrashInv, StoredForTheDead

\* An answer of the node that is not silent, about a file whose blocks are all
\* where the table says, holds the hashes the table has.
LEMMA RightHashes ==
    ASSUME ServiceInv, crashes = 0, failures = 0, losses = 0, NEW q \in Queries,
           query[q].pc = "answered", OnlySecured(query[q].name)
    PROVE  query[q].answer = Hashes(query[q].tree, query[q].blocks)
<1> DEFINE c == query[q]
           file == store[c.node][c.name]
           tree == table[c.name]
<1>1. QueryIs(c)
  BY DEF ServiceInv, QueryInv
<1>2. /\ c.node \in Nodes /\ c.name \in Names
      /\ c.tree = tree /\ c.blocks \subseteq DOMAIN tree
      /\ c.answer = Hashes(file, c.blocks \cap DOMAIN file)
  <2>1. c.pc \in InQuery /\ c.pc \in {"asking", "answered"} /\ ~StoredForTheDead(c.node, c.name)
    BY NoneStored DEF InQuery, Asked
  <2> QED
    BY <1>1, <2>1 DEF QueryIs
<1>3. BusyPosts = {}
  BY DEF ServiceInv, SerialInv, OneHandler, BusyQueries, InQuery, Asked
<1>4. IsCopy(file, tree)
  BY <1>2, <1>3 DEF ServiceInv, RegisteredInv
<1>5. \A b \in DOMAIN file : file[b] # Lost
  BY <1>2 DEF ServiceInv, IntactInv
<1>6. DOMAIN file = DOMAIN tree /\ \A b \in DOMAIN tree : file[b] = tree[b]
  BY <1>4, <1>5 DEF IsCopy
<1> HIDE DEF file, tree
<1> QED
  BY <1>2, <1>6 DEF Hashes

\* A challenge is told of a mismatch only when something failed or the name was
\* also used for an unsecured upload.
THEOREM NoFalseAlarms ==
    ASSUME Workers = 1
    PROVE  Spec => []NoFalseAlarm
<1> DEFINE Blameless(f) == losses = 0 /\ failures = 0 /\ crashes = 0 /\ OnlySecured(f)
<1>1. Init => NoFalseAlarm
  BY DEF Init, NoFalseAlarm, NoQuery
<1>2. ASSUME ServiceInv, NoFalseAlarm, [Next]_vars PROVE NoFalseAlarm'
  <2> SUFFICES ASSUME NEW q \in Queries, query'[q].verdict = "mismatch",
                      losses' = 0, failures' = 0, crashes' = 0, OnlySecured(query[q].name)'
               PROVE  FALSE
    <3>1. losses' \in Nat /\ failures' \in Nat /\ crashes' \in Nat
      BY <1>2, NextTypeOK, ServersAssumption DEF ServiceInv, SerialInv, TypeOK
    <3> QED
      BY <3>1 DEF NoFalseAlarm, OnlySecured
  <2>1. losses = 0 /\ failures = 0 /\ crashes = 0 /\ ~Crash
    BY <1>2, CountersGrow DEF ServiceInv, SerialInv
  <2>2. OnlySecured(query'[q].name)
    <3>1. \A v \in Uploads : req[v] # None => req'[v] = req[v]
      BY <1>2, RequestsPersist DEF ServiceInv
    <3> QED
      BY <3>1 DEF OnlySecured
  <2>3. query'[q] # query[q]
    BY <1>2, <2>1, <2>2 DEF NoFalseAlarm, OnlySecured
  <2>4. Validate(q)
    BY <1>2, <2>1, <2>3, VerdictStep
  <2>5. query[q] \in Challenge /\ query \in [Queries -> Challenge]
    BY <1>2 DEF ServiceInv, SerialInv, TypeOK
  <2>6. query[q].pc = "answered" /\ query'[q].name = query[q].name
    BY <2>4, <2>5 DEF Validate, NoQuery
  <2>7. query[q].answer = Hashes(query[q].tree, query[q].blocks)
    BY <1>2, <2>1, <2>2, <2>6, RightHashes
  <2>8. query'[q].verdict = TopHash(Len(query[q].tree), query[q].blocks)
    BY <2>4, <2>5, <2>7 DEF Validate, NoQuery
  <2> QED
    BY <2>8 DEF TopHash
<1>3. ServiceInv /\ NoFalseAlarm /\ [Next]_vars => NoFalseAlarm'
  BY <1>2
<1> QED
  BY <1>1, <1>3, ServiceInvariant, PTL DEF Spec

\* The top hash a client is told is about the file the node holds, and about
\* the table of that moment, whenever the proxy died before.
THEOREM MatchesAreCurrent ==
    ASSUME Workers = 1
    PROVE  Spec => MatchIsCurrent
<1> DEFINE MatchStep == \A q \in Queries :
         LET c == query[q] IN
         /\ c.pc = "answered" /\ query'[q].verdict \in {"match", "differs"}
         /\ losses = 0 /\ ~StoredForTheDead(c.node, c.name)
         => \A b \in c.blocks :
               /\ b \in DOMAIN store[c.node][c.name]
               /\ store[c.node][c.name][b] = table[c.name][b]
<1>1. ASSUME ServiceInv, [Next]_vars PROVE MatchStep
  <2> SUFFICES ASSUME NEW q \in Queries, query[q].pc = "answered",
                      query'[q].verdict \in {"match", "differs"}, losses = 0,
                      ~StoredForTheDead(query[q].node, query[q].name), NEW b \in query[q].blocks
               PROVE  /\ b \in DOMAIN store[query[q].node][query[q].name]
                      /\ store[query[q].node][query[q].name][b] = table[query[q].name][b]
    OBVIOUS
  <2> DEFINE c == query[q]
             file == store[c.node][c.name]
  <2>1. /\ query \in [Queries -> Challenge] /\ c.tree = table[c.name] /\ c.verdict = "none"
        /\ c.answer = Hashes(file, c.blocks \cap DOMAIN file) \/ c.answer = {}
    BY <1>1 DEF ServiceInv, SerialInv, TypeOK, QueryInv, QueryIs
  <2>2. Validate(q)
    BY <1>1, <2>1, VerdictStep
  <2>3. query'[q].verdict = IF c.answer = Hashes(c.tree, c.blocks)
                            THEN TopHash(Len(c.tree), c.blocks) ELSE "mismatch"
    BY <2>1, <2>2 DEF Validate, NoQuery
  <2>4. c.answer = Hashes(c.tree, c.blocks)
    BY <2>3
  <2> HIDE DEF file
  <2>5. <<b, c.tree[b]>> \in c.answer
    BY <2>4 DEF Hashes
  <2>6. PICK d \in c.blocks \cap DOMAIN file : <<b, c.tree[b]>> = <<d, file[d]>>
    BY <2>1, <2>5 DEF Hashes
  <2>7. b \in DOMAIN file /\ file[b] = table[c.name][b]
    BY <2>1, <2>6
  <2> QED
    BY <2>7 DEF file
<1>2. ServiceInv /\ [Next]_vars => [MatchStep]_vars
  BY <1>1
<1> QED
  BY <1>2, ServiceInvariant, PTL DEF Spec, MatchIsCurrent

\* A GET that is answered while nothing failed is answered with the file every
\* node holds at that moment.
THEOREM GetsAreCurrent ==
    ASSUME Workers = 1
    PROVE  Spec => GetIsCurrent
<1> DEFINE GetStep == \A q \in Queries :
         /\ query[q].pc = "got" /\ query'[q].pc = "done"
         /\ crashes = 0 /\ failures = 0 /\ losses = 0
         => \A n \in Nodes : query[q].file = Append(store[n][query[q].name], Newline)
<1>1. ASSUME ServiceInv PROVE GetStep
  <2> SUFFICES ASSUME NEW q \in Queries, query[q].pc = "got",
                      crashes = 0, failures = 0, losses = 0, NEW n \in Nodes
               PROVE  query[q].file = Append(store[n][query[q].name], Newline)
    OBVIOUS
  <2>1. /\ query[q].node \in Nodes /\ query[q].name \in Names
        /\ query[q].file = Append(store[query[q].node][query[q].name], Newline)
    BY <1>1, NoneStored DEF ServiceInv, QueryInv, QueryIs, InQuery
  <2>2. BusyPosts = {}
    BY <1>1 DEF ServiceInv, SerialInv, OneHandler, BusyQueries, InQuery
  <2>3. store[n][query[q].name] = store[query[q].node][query[q].name]
    BY <1>1, <2>1, <2>2 DEF ServiceInv, AgreeInv
  <2> QED
    BY <2>1, <2>3
<1>2. ServiceInv /\ [Next]_vars => [GetStep]_vars
  BY <1>1
<1> QED
  BY <1>2, ServiceInvariant, PTL DEF Spec, GetIsCurrent
=============================================================================
