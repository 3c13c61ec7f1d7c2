---------------------------- MODULE UploadParse ----------------------------
(***************************************************************************)
(* How RestServer.cpp reads the body of an upload and cuts it up: the loop *)
(* of fetches over the chunks (postMethodHandler, readChunkSize,           *)
(* readChunk) and the loop over the parts with its goto.  PdpServer's      *)
(* ParseName and ParseFlag take for granted what is checked here.         *)
(*                                                                         *)
(* A text is a sequence of lines, the last of which has no end, and a line *)
(* is a sequence of pieces: boundaries, the markers name="FileName",       *)
(* name="Secured" and name="FileData", names, data, chunk sizes and other  *)
(* text.  restbed keeps the sizes of the chunks in the body it hands out,  *)
(* and the code counts on it.                                              *)
(*                                                                         *)
(* An iteration of the loop reads the static mBoundary twice, and a POST   *)
(* on another thread may come between: it looks for the boundary, and      *)
(* erases the text up to where it was found and as many characters more as *)
(* the boundary has by then.                                               *)
(***************************************************************************)
EXTENDS Naturals, FiniteSetsExt, SequencesExt

CONSTANTS
    Sessions,     \* the POST sessions
    Requests,     \* what clients may send
    None,         \* no request
    Words,        \* what bodies are made of
    Chars,        \* how many characters each of them has
    MaxWorkers,   \* a bound on hardware_concurrency()
    mSaveOpt      \* whether this server is the proxy or a node

ASSUME SessionsAssumption == IsFiniteSet(Sessions)
ASSUME RequestsAssumption ==
    None \notin Requests /\ \A r \in Requests : r.client # "curl" => r.chunks # <<>>
ASSUME SaveOptAssumption == mSaveOpt \in {"ON_CLUSTER", "ON_DB"}

VARIABLES
    workers,     \* hardware_concurrency()
    mBoundary,   \* static: one for all sessions
    pc, req,
    left,        \* the chunks still to come
    content,     \* the body so far; then what is left of it to cut up
    pos,         \* where the boundary was found in it
    form,        \* the fields found: fileName, secureTransfer, fileData
    file         \* what is forwarded or stored

vars == <<workers, mBoundary, pc, req, left, content, pos, form, file>>

-----------------------------------------------------------------------------
(* What clients send                                                       *)

EmptyText == << <<>> >>

\* Two texts, one behind the other.
Glue(t, u) == Front(t) \o << Last(t) \o Head(u) >> \o Tail(u)
GlueAll(ts) ==
    LET glued[n \in 0..Len(ts)] == IF n = 0 THEN EmptyText ELSE Glue(glued[n - 1], ts[n])
    IN  glued[Len(ts)]

\* A field: its boundary, its marker, an empty line, its value.  What precedes
\* the marker in its line is left out: the boundaries in use differ by no more
\* than the two characters of a line end, so that no erase comes that far.
Field(r, f) ==
    << <<"--", r.boundary>>, <<f>>, <<>>,
       <<IF f = "FileName" THEN r.name ELSE "true">>, <<>> >>
Fields(r, fs) == GlueAll([i \in DOMAIN fs |-> Field(r, fs[i])])

\* curl -F: the fields and the header of the file, the file in pieces, then
\* what follows it.
CurlChunks(r) ==
    << Glue(Fields(r, r.before),
            << <<"--", r.boundary>>, <<"FileData", "filename">>, <<"type">>, <<>>, <<>> >>) >>
    \o r.pieces
    \o << << <<>> >> \o Glue(Fields(r, r.later), << <<"--", r.boundary, "--">>, <<>> >>) >>

\* The body of multi_post.lua, which the parse understands, as curl's.
WrkBody(r) ==
    Glue(<< <<"--", r.boundary>>, <<"Secured", "--", r.boundary, "FileName">>, <<>>,
            <<r.name>>, <<>>, <<"--", r.boundary, "FileData">>, <<>>, <<>>, <<"size">>, <<>> >>,
         GlueAll(r.pieces) \o << <<"--", r.boundary, "--">> >>)

\* A request: what it sends, and the chunks, or the one body of known length,
\* that have to be fetched.
Request(r) ==
    [client |-> r.client, boundary |-> r.boundary, name |-> <<r.name>>,
     secured |-> r.client = "wrk" \/ Contains(r.before \o r.later, "Secured"),
     data |-> GlueAll(r.pieces),
     chunks |-> CASE r.client = "curl"    -> CurlChunks(r)
                  [] r.client = "wrk"     -> <<WrkBody(r)>>
                  [] r.client = "browser" -> <<GlueAll(CurlChunks(r))>>]

\* Files of lines without ends, as the clients of the repository send them:
\* a word of the file or its name is none the parse looks for or stops at, and
\* a boundary is no word of any body but of those it ends.
Markers  == {"FileName", "Secured", "FileData", "NUL"}
Wrapping == {"--", "filename", "type", "size", "0", "true", "character"}

ASSUME WordsAssumption == Markers \cup Wrapping \subseteq Words
ASSUME CharsAssumption == Chars \in [Words -> Nat \ {0}]

LineFile(r, boundaries) ==
    LET words == Words \ (Markers \cup boundaries)
    IN  /\ r.client \in {"curl", "wrk"} /\ r.name \in words
        /\ r.pieces \in Seq(Seq(Seq(Words)))
        /\ \A i \in DOMAIN r.pieces :
              Len(r.pieces[i]) = 1 /\ r.pieces[i][1] \in Seq(words) \ {<<>>}
        /\ r.client = "curl" =>
              r.before \in {<<"FileName">>, <<"FileName", "Secured">>} /\ r.later = <<>>
AreLineFiles(sent) ==
    LET boundaries == {r.boundary : r \in sent}
    IN  /\ boundaries \subseteq Words /\ boundaries \cap (Markers \cup Wrapping) = {}
        /\ \A r \in sent : LineFile(r, boundaries)

-----------------------------------------------------------------------------
(* Searching a text                                                        *)

Texts == Seq(Seq(Words))

Has(t, m)    == \E i \in DOMAIN t : Contains(t[i], m)
LineOf(t, m) == Min({i \in DOMAIN t : Contains(t[i], m)})
Place(l, m)  == Min({j \in DOMAIN l : l[j] = m})

\* The text from the j-th piece of the i-th line on.
From(t, i, j) == <<SubSeq(t[i], j, Len(t[i]))>> \o SubSeq(t, i + 1, Len(t))

\* The text before and behind the first m, for each text.
Before(m) == [t \in Texts |->
    LET k == LineOf(t, m) IN Append(SubSeq(t, 1, k - 1), SubSeq(t[k], 1, Place(t[k], m) - 1))]
Behind(m) == [t \in Texts |->
    LET k == LineOf(t, m) IN From(t, k, Place(t[k], m) + 1)]

\* The line behind the first n empty ones.  When there are none, npos plus a
\* few wraps to a few characters, which lie in the first line.
LineBehindEmpty(n) == [t \in Texts |->
    LET at == {i \in 2..(Len(t) - n) : \A j \in i..(i + n - 1) : t[j] = <<>>}
    IN  IF at = {} THEN 1 ELSE Min(at) + n]

\* The name is the line behind the empty line.
\* (The first is a mutant: the empty line is not looked for.)
FileNameFirst(t) == Behind("FileName")[t][1]
FileNameIn(t) == LET rest == Behind("FileName")[t] IN rest[LineBehindEmpty(1)[rest]]

\* The chunks that follow: skip a size, take a line, up to an empty line.
FurtherData[t \in Texts] ==
    LET stop == Min({i \in DOMAIN t : i % 2 = 0 /\ t[i] = <<>>} \cup {Len(t)})
    IN  FlattenSeq([i \in 1..((stop - 1) \div 2) |-> t[2 * i]])

\* The file: behind the header and the size of the first chunk.
\* (The first is a mutant: no chunk but the first is looked for.)
FileDataFirst(t) ==
    LET rest == Behind("FileData")[t] IN rest[LineBehindEmpty(2)[rest] + 1]
FileDataIn(t) ==
    LET rest == Behind("FileData")[t]
        size == LineBehindEmpty(2)[rest]
    IN  rest[size + 1] \o FurtherData[SubSeq(rest, size + 2, Len(rest))]

\* content.find: the place of the first m; npos when there is none.
npos == <<0, 0>>
Find(t, m) == LET k == LineOf(t, m) IN <<k, Place(t[k], m)>>

\* The first piece of a text, or the end of its first line, which is two
\* characters, and the text behind it.
FirstChars(t) == IF t[1] = <<>> THEN 2 ELSE Chars[t[1][1]]
BehindFirst(t) == IF t[1] = <<>> THEN Tail(t) ELSE From(t, 1, 2)

\* t.erase(0, n).  What is left of a piece, or of the end of a line, is another.
Erased(t, n) ==
    LET erased[k \in 0..n] == [u \in Texts \ {<<>>} |->
          IF k = 0 \/ u = EmptyText THEN u
          ELSE IF k < FirstChars(u) THEN Glue(<< <<"character">> >>, BehindFirst(u))
          ELSE erased[k - FirstChars(u)][BehindFirst(u)]]
    IN  erased[n][t]

\* writeFile takes the data as a C string; the proxy writes all of it to
\* transfer.tmp.
Saved(data) ==
    IF mSaveOpt = "ON_DB" /\ Contains(data, "NUL")
    THEN SubSeq(data, 1, Place(data, "NUL") - 1) ELSE data

-----------------------------------------------------------------------------
(* One part of the body                                                    *)

NoForm == [name |-> <<>>, named |-> FALSE, secured |-> FALSE, data |-> <<>>, found |-> FALSE]

\* The data in a text: the file; behind it, whatever field it is, more of it.
DataIn(f, t) ==
    CASE f.found            -> f.data \o t[LineBehindEmpty(1)[t]]
      [] Has(t, "FileData") -> FileDataIn(t)
      [] OTHER              -> <<>>

\* A part.  Once the name is found, token = token.find(...) makes a number the
\* one character that is left of the token.
WithPart(f, token) ==
    LET named == ~f.named /\ Has(token, "FileName")
        rest  == IF named THEN << <<"character">> >> ELSE token
    IN  [name |-> IF named THEN FileNameIn(token) ELSE f.name,
         named |-> f.named \/ named,
         secured |-> f.secured \/ Has(rest, "Secured"),
         data |-> DataIn(f, rest),
         found |-> f.found \/ Has(rest, "FileData")]

-----------------------------------------------------------------------------
(* The handlers                                                            *)

Init ==
    /\ workers \in 1..MaxWorkers
    /\ mBoundary = ""
    /\ pc = [s \in Sessions |-> "idle"]
    /\ req = [s \in Sessions |-> None]
    /\ left = [s \in Sessions |-> <<>>]
    /\ content = [s \in Sessions |-> EmptyText]
    /\ pos = [s \in Sessions |-> npos]
    /\ form = [s \in Sessions |-> NoForm]
    /\ file = [s \in Sessions |-> <<>>]

\* Only a session in the loop over the parts keeps its thread between steps.
\* (The first is a mutant: a POST is taken on while all threads are busy.)
Cutting == {"cutting", "erasing"}
FreeWorkerAlways == workers \in 1..MaxWorkers
FreeWorker == Cardinality({s \in Sessions : pc[s] \in Cutting}) < workers

\* postMethodHandler: take the boundary, ask for the first chunk or the body.
Post(s, r) ==
    /\ pc[s] = "idle" /\ FreeWorker
    /\ mBoundary' = r.boundary
    /\ req' = [req EXCEPT ![s] = r]
    /\ left' = [left EXCEPT ![s] = r.chunks]
    /\ pc' = [pc EXCEPT ![s] = IF r.client = "curl" THEN "size" ELSE "length"]
    /\ UNCHANGED <<workers, content, pos, form, file>>

\* A fetched text joins the body; then the handler waits, or cuts it up.
Fetched(s, text, next) ==
    /\ FreeWorker
    /\ content' = [content EXCEPT ![s] = Glue(@, text)]
    /\ pc' = [pc EXCEPT ![s] = next]
    /\ UNCHANGED <<workers, mBoundary, req, pos, form, file>>

\* readChunkSize, its size being another than 0.
ReadChunkSize(s) ==
    /\ pc[s] = "size" /\ left[s] # <<>>
    /\ Fetched(s, << <<"size">>, <<>> >>, "chunk")
    /\ UNCHANGED left

ReadChunk(s) ==
    /\ pc[s] = "chunk"
    /\ Fetched(s, Append(Head(left[s]), <<>>), "size")
    /\ left' = [left EXCEPT ![s] = Tail(@)]

\* Mutant: the parse begins with the last chunk still to come.
LastChunkEarly(s) ==
    /\ pc[s] = "size" /\ Len(left[s]) = 1
    /\ Fetched(s, << <<"0">>, <<>> >>, "cutting")
    /\ UNCHANGED left

\* readChunkSize with "0\r\n": the body is complete.
LastChunk(s) ==
    /\ pc[s] = "size" /\ left[s] = <<>>
    /\ Fetched(s, << <<"0">>, <<>> >>, "cutting")
    /\ UNCHANGED left

\* The body of a request that has a Content-Length.
ReadBody(s) ==
    /\ pc[s] = "length"
    /\ Fetched(s, Head(left[s]), "cutting")
    /\ left' = [left EXCEPT ![s] = <<>>]

\* The while loop: the text up to the next boundary - whatever mBoundary holds
\* by now - is a part.
FindPart(s) ==
    /\ pc[s] = "cutting" /\ Has(content[s], mBoundary)
    /\ \E token \in {Before(mBoundary)[content[s]]} :
          form' = [form EXCEPT ![s] = WithPart(@, token)]
    /\ pos' = [pos EXCEPT ![s] = Find(content[s], mBoundary)]
    /\ pc' = [pc EXCEPT ![s] = "erasing"]
    /\ UNCHANGED <<workers, mBoundary, req, left, content, file>>

\* Mutant: the flag is looked for, too, but not the name.
TryAgainFlag(s) ==
    /\ pc[s] = "cutting" /\ ~form[s].found
    /\ ~Has(content[s], mBoundary)
    /\ form' = [form EXCEPT ![s].data = DataIn(form[s], content[s]),
                            ![s].secured = @ \/ Has(content[s], "Secured"),
                            ![s].found = Has(content[s], "FileData")]
    /\ pos' = [pos EXCEPT ![s] = npos]
    /\ pc' = [pc EXCEPT ![s] = "erasing"]
    /\ UNCHANGED <<workers, mBoundary, req, left, content, file>>

\* No boundary any more and no file yet: goto TryAgain, into the loop, with
\* the whole text as the token.
TryAgain(s) ==
    /\ pc[s] = "cutting" /\ ~form[s].found
    /\ ~Has(content[s], mBoundary)
    /\ form' = [form EXCEPT ![s].data = DataIn(form[s], content[s]),
                            ![s].found = Has(content[s], "FileData")]
    /\ pos' = [pos EXCEPT ![s] = npos]
    /\ pc' = [pc EXCEPT ![s] = "erasing"]
    /\ UNCHANGED <<workers, mBoundary, req, left, content, file>>

\* Mutant: the part is erased, the boundary is not.
EraseToBoundary(s) ==
    /\ pc[s] = "erasing"
    /\ content' = [content EXCEPT ![s] =
          IF pos[s] = npos THEN Erased(@, Chars[mBoundary] - 1) ELSE From(@, pos[s][1], pos[s][2])]
    /\ pc' = [pc EXCEPT ![s] = "cutting"]
    /\ UNCHANGED <<workers, mBoundary, req, left, pos, form, file>>

\* The end of an iteration, erase(0, pos + mBoundary.length()): as many
\* characters from pos on as mBoundary has now, whichever boundary was found
\* there.  npos is the largest number: the sum wraps to the length less one.
Erase(s) ==
    /\ pc[s] = "erasing"
    /\ content' = [content EXCEPT ![s] =
          IF pos[s] = npos THEN Erased(@, Chars[mBoundary] - 1)
          ELSE Erased(From(@, pos[s][1], pos[s][2]), Chars[mBoundary])]
    /\ pc' = [pc EXCEPT ![s] = "cutting"]
    /\ UNCHANGED <<workers, mBoundary, req, left, pos, form, file>>

\* The loop is left: forward the file or store it.
Save(s) ==
    /\ pc[s] = "cutting" /\ form[s].found
    /\ ~Has(content[s], mBoundary)
    /\ file' = [file EXCEPT ![s] = Saved(form[s].data)]
    /\ content' = [content EXCEPT ![s] = EmptyText]
    /\ pc' = [pc EXCEPT ![s] = "saved"]
    /\ UNCHANGED <<workers, mBoundary, req, left, pos, form>>

Fetch(s) == ReadChunkSize(s) \/ ReadChunk(s) \/ LastChunk(s) \/ ReadBody(s)
Cut(s)   == FindPart(s) \/ TryAgain(s) \/ Erase(s) \/ Save(s)

Next == \E s \in Sessions : (\E r \in Requests : Post(s, r)) \/ Fetch(s) \/ Cut(s)

Spec == Init /\ [][Next]_vars

\* A thread in the loop over the parts is scheduled.
FairSpec == Spec /\ \A s \in Sessions : WF_vars(Cut(s))

-----------------------------------------------------------------------------
(* What the rest of the server relies on                                   *)

\* Type correctness: no more sessions are in the loop than there are threads,
\* and a text is only cut up once all its chunks are there.
TypeOK ==
    /\ workers \in 1..MaxWorkers
    /\ \A s \in Sessions :
        /\ pc[s] \in {"idle", "size", "chunk", "length", "saved"} \cup Cutting
        /\ pc[s] = "idle" <=> req[s] \notin Requests
        /\ pc[s] \in {"chunk", "length"} => left[s] # <<>>
        /\ pc[s] \in Cutting \cup {"saved"} => left[s] = <<>>
    /\ Cardinality({s \in Sessions : pc[s] \in Cutting}) <= workers

\* With the right boundary the parse finds the name, the flag and the data
\* that were sent, however the file was cut into chunks.
ParsedAsSent ==
    [][\A s \in Sessions :
         pc'[s] = "saved" /\ pc[s] # "saved" /\ mBoundary = req[s].boundary =>
            /\ form[s].name = req[s].name
            /\ form[s].secured = req[s].secured
            /\ <<form[s].data>> = req[s].data]_vars

\* A boundary that was replaced while a body is cut up does not come back
\* before that ends: so it is on one thread, with two sessions, and when no two
\* uploads at a time have the same.
BoundaryStaysAway ==
    [][\A s \in Sessions :
         pc[s] \in Cutting /\ mBoundary # req[s].boundary => mBoundary' # req[s].boundary]_vars

\* SETUP:56, "File will be stored on server": whatever boundary the parse
\* sees, and when it changes, the file is the one that was sent, as long as the
\* right boundary does not come back (BoundaryStaysAway).
FileAsSent == \A s \in Sessions : pc[s] = "saved" => <<file[s]>> = req[s].data

\* On a single thread the name and the flag are found both or neither.
FieldsTogether ==
    workers = 1 => \A s \in Sessions : pc[s] = "saved" =>
        <<form[s].name, form[s].secured>> \in {<<req[s].name, req[s].secured>>, << <<>>, FALSE>>}

\* On several, another POST can come between them: a file curl sends may lose
\* its flag and keep its name, but a table is never stored without a name.
SecuredIsNamed ==
    \A s \in Sessions : pc[s] = "saved" /\ req[s].client = "curl" /\ form[s].secured =>
        form[s].name = req[s].name

\* The loop over the parts ends, the goto included, for a body with a file;
\* but for one of multi_post.lua's, in which the marker of the file follows the
\* boundary directly, when a longer boundary comes while it is cut up.
Overtaken(s) ==
    pc[s] \in Cutting /\ req[s].client = "wrk" /\ Chars[mBoundary] > Chars[req[s].boundary]
ParseEnds == \A s \in Sessions : pc[s] \in Cutting ~> pc[s] = "saved" \/ Overtaken(s)

-----------------------------------------------------------------------------
(* What a comment says and the code does not do                            *)

\* multi_post.lua:38, "the test should always replace the uploaded file with
\* the new one": what it posts is stored, whatever is posted next to it.
WrkFileStored ==
    \A s \in Sessions : pc[s] \in Cutting /\ req[s].client = "wrk" ~> pc[s] = "saved"
=============================================================================
