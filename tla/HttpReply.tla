------------------------------ MODULE HttpReply ------------------------------
(* WebServer: how a request finds its handler and how the reply goes out.     *)
(* The members that a reply is built from outlive the request, so replies are *)
(* looked at one after the other.  A content is its length; what goes out is  *)
(* a sequence of pieces: headers, the blank line, chunks or bytes.            *)
EXTENDS Integers, Sequences, SequencesExt

CONSTANTS
    Handlers,     \* registered, in order: [kind, uri, method, calls]
    NotFoundCalls,\* onNotFound(): what that handler calls
    HeaderNames,  \* of the headers that handlers set
    HttpRequests, \* [uri, method, version]
    FileSystem,   \* what the file system may hold: sets of paths
    FileSize,     \* of a path
    FileType,     \* of a path: "known", "gzip" or "octet-stream"
    Gz,           \* of a path: that path with ".gz" appended
    MaxReplies    \* bound: requests served one after the other

NotSet == -1      \* CONTENT_LENGTH_NOT_SET
Unknown == -2     \* CONTENT_LENGTH_UNKNOWN
Unnamed == "none" \* of a call that sets no header

(* What numbers add up to, one after the other.                               *)
Sums(v) ==
    LET upTo[i \in 0 .. Len(v)] == IF i = 0 THEN 0 ELSE upTo[i - 1] + v[i]
    IN  upTo
SumOf(v) == Sums(v)[Len(v)]

(* A handler's calls as its sketch makes them: headers and lengths, one       *)
(* send(), then more content; it gives as much as it says, and a content of   *)
(* unknown length in pieces that the first empty one ends.                    *)
CallRecord == [do : {"sendHeader", "setContentLength", "send", "sendContent", "write"},
               name : HeaderNames \cup {Unnamed}, n : Int]
Gives(c)   == [i \in DOMAIN c |-> IF c[i].do \in {"send", "sendContent", "write"} THEN c[i].n ELSE 0]
Amount(c)  == SumOf(Gives(c))
Says(c)    == {c[i].n : i \in {j \in DOMAIN c : c[j].do = "setContentLength"}}

SendsAt(c, p) ==
    /\ c[p].do = "send"
    /\ \A i \in 1 .. p - 1 : c[i].do \in {"sendHeader", "setContentLength"}
    /\ \A i \in p + 1 .. Len(c) : c[i].do \in {"sendContent", "write"}
    /\ CASE Says(c) = {} -> c[p].n = Amount(c)
         [] Unknown \in Says(c) ->
              p # Len(c) /\ \A i \in p + 1 .. Len(c) : c[i].do = "sendContent" /\ (c[i].n = 0 <=> i = Len(c))
         [] OTHER -> Says(c) = {Amount(c)}

FitsReply(c) ==
    /\ c \in Seq(CallRecord)
    /\ Says(c) \subseteq Nat \cup {Unknown} /\ \A l, m \in Says(c) : l = m
    /\ \E p \in DOMAIN c : SendsAt(c, p)
    /\ \A i \in DOMAIN c : c[i].do = "sendHeader" =>
         /\ c[i].name # "Transfer-Encoding"
         /\ c[i].name = "Content-Length" => Unknown \notin Says(c) /\ c[i].n = Amount(c)

ASSUME ReplyAssumption ==
    /\ MaxReplies \in Nat
    /\ {"Cache-Control", "Content-Encoding"} \subseteq HeaderNames
    /\ Handlers \in Seq(ToSet(Handlers))
    /\ \A h \in ToSet(Handlers) :
         \/ h.kind = "function" /\ FitsReply(h.calls)
         \/ h.kind = "static" /\ \A p \in h.uri : {p, Gz[p]} \subseteq DOMAIN FileSize
    /\ FitsReply(NotFoundCalls)
    /\ \A p \in DOMAIN FileSize : FileSize[p] \in Nat

VARIABLES
    served,           \* requests begun
    request,          \* the current one
    stored,           \* the files
    rpc,              \* "idle", "choose", "calls", "done"
    calls,            \* what the handler has still to call
    responseHeaders,  \* _responseHeaders
    contentLength,    \* _contentLength
    chunked,          \* _chunked
    wire,             \* what the client got of this reply
    meant,            \* history: the bytes the handler gave, and whether compressed
    broken            \* history: bytes of a file were left out or went out twice

replyVars == <<served, request, stored, rpc, calls, responseHeaders, contentLength, chunked, wire, meant, broken>>

Call(do, name, n)    == [do |-> do, name |-> name, n |-> n]
Piece(is, n)         == [is |-> is, n |-> n]
Header(name, n, by)  == [is |-> "header", name |-> name, n |-> n, by |-> by]

ReplyInit ==
    /\ served = 0 /\ request \in HttpRequests /\ stored \in FileSystem
    /\ rpc = "idle" /\ calls = <<>>
    /\ responseHeaders = <<>> /\ contentLength = NotSet /\ chunked = FALSE
    /\ wire = <<>> /\ meant = [n |-> 0, packed |-> FALSE] /\ broken = FALSE

-----------------------------------------------------------------------------

(* Mutant: the next reply is chunked when the last one was.                   *)
BeginRequest_StaysChunked ==
    /\ rpc \in {"idle", "done"} /\ served < MaxReplies
    /\ request' \in HttpRequests
    /\ served' = served + 1
    /\ contentLength' = NotSet
    /\ wire' = <<>> /\ meant' = [n |-> 0, packed |-> FALSE] /\ broken' = FALSE
    /\ rpc' = "choose"
    /\ UNCHANGED <<stored, calls, responseHeaders, chunked>>

(* _parseRequest() and handleClient() before the handler.                     *)
BeginRequest ==
    /\ rpc \in {"idle", "done"} /\ served < MaxReplies
    /\ request' \in HttpRequests
    /\ served' = served + 1
    /\ chunked' = FALSE
    /\ contentLength' = NotSet
    /\ wire' = <<>> /\ meant' = [n |-> 0, packed |-> FALSE] /\ broken' = FALSE
    /\ rpc' = "choose"
    /\ UNCHANGED <<stored, calls, responseHeaders>>

(* canHandle()                                                                *)
CanHandle(h) ==
    \/ h.kind = "function" /\ h.method \in {"ANY", request.method} /\ h.uri = request.uri
    \/ h.kind = "static" /\ request.method = "GET" /\ request.uri \in h.uri

(* _currentHandler: the first that can; later ones are not asked.             *)
Chosen ==
    LET can == {i \in DOMAIN Handlers : CanHandle(Handlers[i])}
    IN  IF can = {} THEN [kind |-> "none"] ELSE Handlers[Min(can)]

(* StaticRequestHandler: the path itself, or the path with ".gz".             *)
Path   == request.uri
Served == IF FileType[Path] # "gzip" /\ Path \notin stored /\ Gz[Path] \in stored THEN Gz[Path] ELSE Path

(* streamFile()                                                               *)
Packed(p) == FileType[p] = "gzip"
StreamFile(p) ==
    <<Call("setContentLength", Unnamed, FileSize[p])>>
    \o (IF Packed(p) /\ FileType[Path] = "known" THEN <<Call("sendHeader", "Content-Encoding", 0)>> ELSE <<>>)
    \o <<Call("send", Unnamed, 0), Call("write", Unnamed, FileSize[p])>>

CallsFunction ==
    /\ rpc = "choose" /\ Chosen.kind = "function"
    /\ calls' = Chosen.calls
    /\ rpc' = "calls"
    /\ UNCHANGED <<served, request, stored, responseHeaders, contentLength, chunked, wire, meant, broken>>

ServesFile ==
    /\ rpc = "choose" /\ Chosen.kind = "static" /\ Served \in stored
    /\ calls' = <<Call("sendHeader", "Cache-Control", 0)>> \o StreamFile(Served)
    /\ meant' = [meant EXCEPT !.packed = Packed(Served)]
    /\ rpc' = "calls"
    /\ UNCHANGED <<served, request, stored, responseHeaders, contentLength, chunked, wire, broken>>

(* No handler, or a file that is not there.                                   *)
NotFound ==
    /\ rpc = "choose"
    /\ \/ Chosen.kind = "none"
       \/ Chosen.kind = "static" /\ Served \notin stored
    /\ calls' = NotFoundCalls
    /\ rpc' = "calls"
    /\ UNCHANGED <<served, request, stored, responseHeaders, contentLength, chunked, wire, meant, broken>>

-----------------------------------------------------------------------------
(* The calls of a handler.                                                    *)

Calls(do) == rpc = "calls" /\ calls # <<>> /\ Head(calls).do = do /\ calls' = Tail(calls)
KeepsPlace == UNCHANGED <<served, request, stored, rpc>>

SendHeader ==
    /\ Calls("sendHeader")
    /\ responseHeaders' = Append(responseHeaders, Header(Head(calls).name, Head(calls).n, served))
    /\ UNCHANGED <<contentLength, chunked, wire, meant, broken>> /\ KeepsPlace

SetContentLength ==
    /\ Calls("setContentLength")
    /\ contentLength' = Head(calls).n
    /\ UNCHANGED <<responseHeaders, chunked, wire, meant, broken>> /\ KeepsPlace

(* sendContent(): one chunk, which is its size, that many bytes and an end of *)
(* line, or the bytes as they are.                                            *)
Content(n, asChunk) == <<Piece(IF asChunk THEN "chunk" ELSE "bytes", n)>>

MeantToo(n) == meant' = [meant EXCEPT !.n = @ + n]

(* send(): _prepareHeader() and the content, if there is any.                 *)
Send ==
    /\ Calls("send")
    /\ LET n == Head(calls).n
           length == IF contentLength = NotSet THEN n ELSE contentLength
           framing == IF contentLength # Unknown THEN <<Header("Content-Length", length, served)>>
                      ELSE IF request.version = 0 THEN <<>>
                      ELSE <<Header("Transfer-Encoding", 0, served)>>
       IN  /\ chunked' = (chunked \/ (contentLength = Unknown /\ request.version # 0))
           /\ wire' = wire \o responseHeaders \o framing \o <<Piece("blank", 0)>>
                      \o (IF n = 0 THEN <<>> ELSE Content(n, chunked'))
           /\ MeantToo(n)
    /\ responseHeaders' = <<>>
    /\ UNCHANGED <<contentLength, broken>> /\ KeepsPlace

SendContent ==
    /\ Calls("sendContent")
    /\ wire' = wire \o Content(Head(calls).n, chunked)
    /\ MeantToo(Head(calls).n)
    /\ UNCHANGED <<responseHeaders, contentLength, chunked, broken>> /\ KeepsPlace

(* streamFile() wrote k bytes when it returns.                                *)
FileOut(k) ==
    /\ wire' = wire \o Content(k, FALSE)
    /\ MeantToo(Head(calls).n)
    /\ broken' = (broken \/ k # Head(calls).n)
    /\ UNCHANGED <<responseHeaders, contentLength, chunked>> /\ KeepsPlace

(* Its loop, every buffer taken whole; a buffer taken in part, which is       *)
(* written again from its first byte (bound: each one once); no memory for    *)
(* the buffer, or the client gone.  Content-Length was sent before.           *)
WriteFile  == Calls("write") /\ FileOut(Head(calls).n)
WriteAgain == Calls("write") /\ \E k \in Head(calls).n + 1 .. 2 * Head(calls).n : FileOut(k)
WriteStops == Calls("write") /\ \E k \in 0 .. Head(calls).n - 1 : FileOut(k)

HandlerReturns ==
    /\ rpc = "calls" /\ calls = <<>>
    /\ rpc' = "done"
    /\ UNCHANGED <<served, request, stored, calls, responseHeaders, contentLength, chunked, wire, meant, broken>>

ReplyNext ==
    \/ BeginRequest \/ CallsFunction \/ ServesFile \/ NotFound
    \/ SendHeader \/ SetContentLength \/ Send \/ SendContent
    \/ WriteFile \/ WriteAgain \/ WriteStops \/ HandlerReturns

ReplySpec == ReplyInit /\ [][ReplyNext]_replyVars

-----------------------------------------------------------------------------
(* How a client reads a reply.                                                *)

Valued(name) == {wire[i].n : i \in {j \in DOMAIN wire : wire[j].is = "header" /\ wire[j].name = name}}
Bodies(w)    == [i \in DOMAIN w |-> IF w[i].is \in {"chunk", "bytes"} THEN w[i].n ELSE 0]
BodySize     == SumOf(Bodies(wire))
InChunks     == Valued("Transfer-Encoding") # {}

(* Headers that were set for this reply, the blank line, then its body.       *)
WellFramed ==
    \E b \in DOMAIN wire :
        /\ wire[b].is = "blank"
        /\ \A i \in 1 .. b - 1 : wire[i].is = "header" /\ wire[i].by = served
        /\ \A i \in b + 1 .. Len(wire) : wire[i].is = IF InChunks THEN "chunk" ELSE "bytes"

(* The last chunk and no other is empty.                                      *)
EndsInTime ==
    /\ wire[Len(wire)].is = "chunk"
    /\ \A i \in DOMAIN wire : wire[i].is = "chunk" => (wire[i].n = 0 <=> i = Len(wire))

(* Every reply is framed the way its own headers say: its headers were set    *)
(* for it, it states no length but that of what the handler gave, a client    *)
(* that reads it by its length, by its chunks or to its end gets exactly      *)
(* that, and what is compressed says so (_prepareHeader 261-287, sendContent  *)
(* 332-347, streamFile 147-185).  A reply whose file was not written whole at *)
(* the first attempt is excepted from what the client gets: the length is out *)
(* by then.  So is an uncompressed path of unknown type from saying so.       *)
ReplyReadsBack ==
    (rpc = "done") =>
        /\ WellFramed
        /\ ~broken => BodySize = meant.n
        /\ IF InChunks THEN EndsInTime /\ Valued("Content-Length") = {}
                       ELSE Valued("Content-Length") \subseteq {meant.n}
        /\ (meant.packed /\ FileType[Path] = "known") => Valued("Content-Encoding") # {}
=============================================================================
