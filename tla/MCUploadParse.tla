--------------------------- MODULE MCUploadParse ---------------------------
(* Small instances of UploadParse for TLC.                                 *)
EXTENDS UploadParse

CONSTANTS s1, s2, s3

AllWords ==
    Markers \cup Wrapping \cup {"b1", "b2", "b3", "f1", "f2", "d1", "d2", "d3"}

\* curl's boundaries, multi_post.lua's, and what is between them.
CharsOf ==
    [w \in {"b1", "b2"} |-> 40] @@ [w \in {"b3"} |-> 38]
    @@ [w \in {"FileName", "FileData"} |-> 15] @@ [w \in {"Secured"} |-> 14]
    @@ [w \in {"filename", "type"} |-> 25]
    @@ [w \in {"--"} |-> 2] @@ [w \in {"0", "character", "NUL"} |-> 1]
    @@ [w \in AllWords |-> 4]

\* perftest.sh's upload, in three pieces, and of an empty file; SendFile's;
\* multi_post.lua's.
SecuredFile ==
    [client |-> "curl", boundary |-> "b1", before |-> <<"FileName", "Secured">>, later |-> <<>>,
     name |-> "f1", pieces |-> << << <<"d1">> >>, << <<"d2">> >>, << <<"d3">> >> >>]
EmptyFile == [SecuredFile EXCEPT !.boundary = "b2", !.pieces = <<>>]
ForwardedFile ==
    [client |-> "curl", boundary |-> "b2", before |-> <<"FileName">>, later |-> <<>>,
     name |-> "f2", pieces |-> << << <<"d3">> >> >>]
WrkFile == [ForwardedFile EXCEPT !.client = "wrk", !.boundary = "b3", !.before = <<>>]

Sent == {SecuredFile, EmptyFile, ForwardedFile, WrkFile}
LineFiles == {Request(r) : r \in Sent}

ASSUME SentAssumption == AreLineFiles(Sent)

\* multi_post.lua's upload, and one with a longer boundary next to it.
WrkAndCurl == {Request(WrkFile), Request(ForwardedFile)}

\* What the parse gets wrong: a file of two lines ended by CR LF; with a NUL;
\* of a client that sends a Content-Length; a field behind the file; no file;
\* the flag before the name, and another upload; uploads of one boundary, as
\* multi_post.lua sends them, between which a third changes it (on s1, s2, s3).
TextFiles    == {Request([SecuredFile EXCEPT !.pieces = << << <<"d1">>, <<"d2">> >> >>])}
NulFiles     == {Request([SecuredFile EXCEPT !.pieces = << << <<"d1", "NUL", "d2">> >> >>])}
BrowserFiles == {Request([SecuredFile EXCEPT !.client = "browser"])}
FlagLast     == {Request([SecuredFile EXCEPT !.before = <<"FileName">>, !.later = <<"Secured">>])}
NoFiles      == {[Request(SecuredFile) EXCEPT !.chunks = << Field(SecuredFile, "FileName") >>]}
FlagFirst    == {Request([SecuredFile EXCEPT !.before = <<"Secured", "FileName">>]),
                 Request(ForwardedFile)}
SameBoundary == {Request(ForwardedFile), Request(WrkFile)}
=============================================================================
