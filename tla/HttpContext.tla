----------------------------- MODULE HttpContext -----------------------------
(***************************************************************************)
(* The HTTP server's side of one connection: HttpContext, which parses     *)
(* requests as their bytes arrive, and HttpServer::OnMessage, which        *)
(* answers them (net/http.hpp), on top of Buffer.  TCP may cut the stream  *)
(* anywhere, within a line, a header block or a body, and may deliver      *)
(* several requests at once.                                               *)
(*                                                                         *)
(* A line is a few symbols and its newline: the targets are request lines  *)
(* that parse, "keep" is a Connection: keep-alive header, "form" a         *)
(* Content-Type: multipart/form-data header, Content-Length headers are    *)
(* named by BodyLength, and anything else is refused where it stands.      *)
(* Bodies are any symbols, those included.  In a form "bound" is the       *)
(* boundary and the dashes before it, "end" two dashes, and "disp" the     *)
(* header of a file.                                                       *)
(***************************************************************************)
EXTENDS Buffer, SequencesExt, FiniteSetsExt

CONSTANTS
    Streams,    \* what clients may send: sequences of messages, see Meant
    BodyLength, \* per Content-Length header: the long that stol makes of it
    NoLong,     \* or this: stol throws, on what is no number or too large a one
    SizeValues, \* how many values a size_t has
    MaxLine     \* MAX_LINE

\* Request lines, told apart by where their paths lead.  Under the static root:
\* to a file, or to one that cannot be read.  Otherwise: to a page, or to the
\* API and there to a handler that answers, stores a file, refuses or throws,
\* or to none.
Targets ==
    [file   |-> [path |-> "file", handler |-> "none"],
     torn   |-> [path |-> "torn", handler |-> "none"],
     page   |-> [path |-> "page", handler |-> "none"],
     req    |-> [path |-> "api", handler |-> "answers"],
     upload |-> [path |-> "api", handler |-> "stores"],
     denied |-> [path |-> "api", handler |-> "refuses"],
     fail   |-> [path |-> "api", handler |-> "throws"],
     lost   |-> [path |-> "api", handler |-> "none"]]

Codes == {200, 400, 401, 404, 414, 500}

Types == {"json", "html", "mime", "none"}

\* A response as it goes out; length and type stand for its headers.
Answer(code, type, body) ==
    [code |-> code, type |-> type, length |-> Len(body), body |-> body]

\* A size_t is as wide as a long, a line has room for a symbol and its newline.
\* "error" marks bodies that the server makes, and is no symbol of a request.
ASSUME HttpAssumption ==
    /\ \A h \in DOMAIN BodyLength :
          BodyLength[h] = NoLong \/ (BodyLength[h] \in Int /\ -SizeValues <= BodyLength[h])
    /\ SizeValues \in Nat
    /\ {"nl", "keep", "form", "none"} \cap DOMAIN BodyLength = {}
    /\ {"nl", "bound"} \subseteq Bytes /\ "error" \notin Bytes
    /\ MaxLine \in Nat /\ MaxLine >= 2

VARIABLES
    stream,    \* what this client sends
    delivered, \* how much of it HandleRead has put into the buffer
    pc,        \* "idle", "recv" within OnMessage, "left" by an exception
    recv,      \* _recv_statu
    resp,      \* _resp_statu
    request,   \* _request: [target, keep, form, length, body, files]
    closing,   \* the connection is DISCONNECTING: no more callbacks for reads
    gone,      \* HandleClose, or a failed HandleWrite, has been called
    answers    \* the responses written; a handler answers with its request's body

contextVars == <<recv, resp, request>>
vars == <<bufferVars, contextVars, stream, delivered, pc, closing, gone, answers>>

Text == FlattenSeq([i \in DOMAIN stream |-> stream[i].text])

\* The files of _request are those of one name: at most one.
NoRequest ==
    [target |-> "none", keep |-> FALSE, form |-> FALSE, length |-> "none", body |-> <<>>, files |-> <<>>]

\* ContentLength throws, as stol does.
LengthThrows(req) == req.length # "none" /\ BodyLength[req.length] = NoLong

\* It returns a size_t: a negative number wraps round.
ContentLength(req) ==
    IF req.length = "none" THEN 0
    ELSE IF BodyLength[req.length] < 0 THEN SizeValues + BodyLength[req.length]
         ELSE BodyLength[req.length]

Init ==
    /\ BufferInit
    /\ stream \in Streams
    /\ delivered = 0 /\ pc = "idle"
    /\ recv = "LINE" /\ resp = 200 /\ request = NoRequest
    /\ closing = FALSE /\ gone = FALSE
    /\ answers = <<>>
-----------------------------------------------------------------------------
\* HandleRead: whatever the socket holds is buffered and, unless the
\* connection is being closed, the message callback runs.
HandleRead(n) ==
    /\ pc = "idle" /\ ~gone
    /\ WriteAndPush(SubSeq(Text, delivered + 1, delivered + n))
    /\ delivered' = delivered + n
    /\ pc' = IF closing THEN "idle" ELSE "recv"
    /\ UNCHANGED <<contextVars, stream, closing, gone, answers>>

\* HandleClose, or HandleWrite when it fails: what is left in the buffer is
\* handled before the connection is released.
HandleClose ==
    /\ pc = "idle" /\ ~gone
    /\ gone' = TRUE
    /\ pc' = IF ReadAbleSize > 0 THEN "recv" ELSE "idle"
    /\ UNCHANGED <<bufferVars, contextVars, stream, delivered, closing, answers>>
-----------------------------------------------------------------------------
(***************************************************************************)
(* RecvHttpRequest, one step per line.                                     *)
(***************************************************************************)

\* GetLine: up to and with the first newline, or nothing.
Line ==
    IF Contains(Content, "nl")
    THEN SubSeq(Content, 1, Min({k \in DOMAIN Content : Content[k] = "nl"}))
    ELSE <<>>

Expecting(what) == pc = "recv" /\ resp < 400 /\ recv = what

\* Mutant: the incomplete line is waited for in the loop.
AwaitLine_Loop ==
    /\ Expecting("LINE") \/ Expecting("HEAD")
    /\ Line = <<>> /\ ReadAbleSize <= MaxLine
    /\ pc' = "recv"
    /\ UNCHANGED <<bufferVars, contextVars, stream, delivered, closing, gone, answers>>

\* Less than a line is there: OnMessage returns and waits for more.
AwaitLine ==
    /\ Expecting("LINE") \/ Expecting("HEAD")
    /\ Line = <<>> /\ ReadAbleSize <= MaxLine
    /\ pc' = "idle"
    /\ UNCHANGED <<bufferVars, contextVars, stream, delivered, closing, gone, answers>>

\* The line is too long, whether its end has arrived or not.
LineTooLong ==
    /\ Expecting("LINE") \/ Expecting("HEAD")
    /\ Len(Line) > MaxLine \/ (Line = <<>> /\ ReadAbleSize > MaxLine)
    /\ MoveReadOffset(Len(Line))
    /\ recv' = "ERROR" /\ resp' = 414
    /\ UNCHANGED <<request, stream, delivered, pc, closing, gone, answers>>

RecvHttpLine ==
    /\ Expecting("LINE")
    /\ Line # <<>> /\ Len(Line) <= MaxLine
    /\ MoveReadOffset(Len(Line))
    /\ IF \E t \in DOMAIN Targets : Line = <<t, "nl">>
       THEN /\ recv' = "HEAD"
            /\ request' = [request EXCEPT !.target = Head(Line)]
            /\ UNCHANGED resp
       ELSE recv' = "ERROR" /\ resp' = 400 /\ UNCHANGED request
    /\ UNCHANGED <<stream, delivered, pc, closing, gone, answers>>

\* A header is entered unless the request has it already; a blank line ends
\* the headers.
RecvHttpHead ==
    /\ Expecting("HEAD")
    /\ Line # <<>> /\ Len(Line) <= MaxLine
    /\ MoveReadOffset(Len(Line))
    /\ CASE Line = <<"nl">> ->
                recv' = "BODY" /\ UNCHANGED <<resp, request>>
         [] Line = <<"keep", "nl">> ->
                request' = [request EXCEPT !.keep = TRUE] /\ UNCHANGED <<recv, resp>>
         [] Line = <<"form", "nl">> ->
                request' = [request EXCEPT !.form = TRUE] /\ UNCHANGED <<recv, resp>>
         [] Len(Line) = 2 /\ Head(Line) \in DOMAIN BodyLength ->
                /\ request' = [request EXCEPT !.length = IF @ = "none" THEN Head(Line) ELSE @]
                /\ UNCHANGED <<recv, resp>>
         [] OTHER ->
                recv' = "ERROR" /\ resp' = 400 /\ UNCHANGED request
    /\ UNCHANGED <<stream, delivered, pc, closing, gone, answers>>

\* From position k on: where in s the sequence t is, or 0.
Find(s, t, k) ==
    LET places == {i \in k..(Len(s) - Len(t) + 1) : SubSeq(s, i, i + Len(t) - 1) = t}
    IN  IF places = {} THEN 0 ELSE Min(places)

\* From boundary to boundary: the headers up to a blank line, then the file
\* up to the line break before the next boundary.  (A boundary right behind
\* the blank line takes that for its line break: the length of the file wraps
\* round, and the file is the rest of the body.)  A file takes the place of
\* an earlier one; a part that is no file is passed over, and one that has
\* no end ends the search.
ParseMultipartBody[body \in Seq(Bytes)] ==
    LET At(k, symbol) == k \in DOMAIN body /\ body[k] = symbol
        Behind(k) == Find(body, <<"bound">>, k) + 1
        Files[begin \in 1..(Len(body) + 1)] ==
            LET headers == Find(body, <<"nl", "nl">>, IF At(begin, "nl") THEN begin + 1 ELSE begin)
                next == Behind(headers + 2)
                end == IF At(next - 2, "nl") THEN next - 3 ELSE next - 2
                file == SubSeq(body, headers + 2, IF end < headers + 1 THEN Len(body) ELSE end)
                isFile == Contains(SubSeq(body, begin, headers), "disp")
            IN  IF begin = 1 \/ At(begin, "end") \/ headers = 0 \/ next = 1
                THEN <<>>
                ELSE IF isFile /\ Files[next] = <<>> THEN <<file>> ELSE Files[next]
    IN  Files[Behind(1)]

\* What the body still lacks is taken, or all there is.  A form is parsed
\* when its body is complete.
RecvHttpBody ==
    /\ Expecting("BODY") /\ ~LengthThrows(request)
    /\ LET lacks == ContentLength(request) - Len(request.body)
           n == IF ReadAbleSize < lacks THEN ReadAbleSize ELSE lacks
           body == request.body \o SubSeq(Content, 1, n)
       IN  /\ MoveReadOffset(n)
           /\ request' = [request EXCEPT !.body = body,
                  !.files = IF n = lacks /\ request.form THEN ParseMultipartBody[body] ELSE @]
           /\ IF n = lacks
              THEN recv' = "OVER" /\ UNCHANGED pc
              ELSE pc' = "idle" /\ UNCHANGED recv
    /\ UNCHANGED <<resp, stream, delivered, closing, gone, answers>>

\* RecvHttpRequest is called outside the try block of OnMessage, and the loop
\* has none: the exception ends the loop, Listen and, caught in main, the
\* server.
LeaveByException ==
    /\ Expecting("BODY") /\ LengthThrows(request)
    /\ pc' = "left"
    /\ UNCHANGED <<bufferVars, contextVars, stream, delivered, closing, gone, answers>>
-----------------------------------------------------------------------------
(***************************************************************************)
(* The rest of OnMessage's loop.                                           *)
(***************************************************************************)
ReSet == recv' = "LINE" /\ resp' = 200 /\ request' = NoRequest

\* HttpResponse::SetContent: headers are inserted, never replaced, so the
\* type is that of the first content and the body that of the last.
SetContent(rsp, type, body) ==
    [rsp EXCEPT !.type = IF @ = "none" THEN type ELSE @, !.body = body]

IsFileHandler(target) == target.path \in {"file", "torn"}

\* A file that cannot be read is answered with what there is of the response.
FileHandler(target, rsp) ==
    IF target.path = "torn" THEN rsp ELSE SetContent(rsp, "mime", <<"static">>)

\* What a handler works on: one that stores takes the file of a form, and
\* else the body.
Input(req) ==
    IF Targets[req.target].handler = "stores" /\ req.files # <<>> THEN Head(req.files) ELSE req.body

\* The routes of the request's method, and the handler's own answer.
Dispatcher(target, input, rsp) ==
    CASE target.handler = "answers" -> SetContent(rsp, "json", <<"answer">> \o input)
      [] target.handler = "stores" /\ input # <<>> ->
             SetContent(rsp, "json", <<"answer">> \o input)
      [] target.handler = "stores" /\ input = <<>> ->
             SetContent([rsp EXCEPT !.code = 400], "json", <<"refusal">>)
      [] target.handler = "refuses" ->
             SetContent([rsp EXCEPT !.code = 401], "json", <<"refusal">>)
      [] OTHER -> [rsp EXCEPT !.code = 404]

Route(target, input, rsp) ==
    IF IsFileHandler(target) THEN FileHandler(target, rsp) ELSE Dispatcher(target, input, rsp)

\* SendApiError and SendHtmlError.
SendError(path, rsp) ==
    IF path = "api" THEN SetContent(rsp, "json", <<"api", "error">>)
                    ELSE SetContent(rsp, "html", <<"html", "error">>)

\* Mutant: the exception handler does not set the status.
ExceptionHandler_NoStatus(target, rsp) == SendError(target.path, rsp)

\* What the server has set for a handler that throws.
ExceptionHandler(target, rsp) == SendError(target.path, [rsp EXCEPT !.code = 500])

\* What it has set for status 400 and more: a page it does not know is left
\* to the front end, the body of any other error is replaced.
ErrorHandler(path, rsp) ==
    IF rsp.code = 404 /\ path = "page"
    THEN SetContent([rsp EXCEPT !.code = 200], "html", <<"index">>)
    ELSE SendError(path, rsp)

NewResponse(code) == [code |-> code, type |-> "none", body |-> <<>>]

\* The way of a complete request through OnMessage.
Handled(req) ==
    LET target == Targets[req.target]
        rsp == IF target.handler = "throws"
               THEN ExceptionHandler(target, NewResponse(200))
               ELSE Route(target, Input(req), NewResponse(200))
    IN  IF rsp.code >= 400 THEN ErrorHandler(target.path, rsp) ELSE rsp

WriteReponse(rsp) == answers' = Append(answers, Answer(rsp.code, rsp.type, rsp.body))

\* An error is answered, the buffer is emptied and the connection is shut
\* down.
Refuse ==
    /\ pc = "recv" /\ resp >= 400
    /\ LET path == IF request.target = "none" THEN "none" ELSE Targets[request.target].path
       IN  WriteReponse(ErrorHandler(path, NewResponse(resp)))
    /\ ReSet
    /\ MoveReadOffset(ReadAbleSize)
    /\ closing' = TRUE
    /\ pc' = "idle"
    /\ UNCHANGED <<stream, delivered, gone>>

\* Mutant: the context keeps its request.
Respond_NoReset ==
    /\ Expecting("OVER")
    /\ WriteReponse(Handled(request))
    /\ recv' = "LINE" /\ UNCHANGED <<resp, request>>
    /\ closing' = (closing \/ ~request.keep)
    /\ pc' = IF ReadAbleSize > 0 THEN "recv" ELSE "idle"
    /\ UNCHANGED <<bufferVars, stream, delivered, gone>>

\* The request is routed and answered, whatever comes of it.  Without
\* keep-alive the connection is shut down; Shutdown runs OnMessage for what
\* is left in the buffer, as the loop itself would.
Respond ==
    /\ Expecting("OVER")
    /\ WriteReponse(Handled(request))
    /\ ReSet
    /\ closing' = (closing \/ ~request.keep)
    /\ pc' = IF ReadAbleSize > 0 THEN "recv" ELSE "idle"
    /\ UNCHANGED <<bufferVars, stream, delivered, gone>>

OnMessage ==
    \/ AwaitLine \/ LineTooLong \/ RecvHttpLine \/ RecvHttpHead \/ RecvHttpBody
    \/ LeaveByException \/ Refuse \/ Respond

Next ==
    \/ \E n \in 1..(Len(Text) - delivered) : HandleRead(n)
    \/ HandleClose
    \/ OnMessage

Spec == Init /\ [][Next]_vars

\* The loop thread runs.
FairSpec == Spec /\ WF_vars(OnMessage)
-----------------------------------------------------------------------------
\* Type invariant.
TypeOK ==
    /\ BufferTypeOK
    /\ stream \in Streams /\ delivered \in 0..Len(Text)
    /\ pc \in {"idle", "recv", "left"}
    /\ recv \in {"LINE", "HEAD", "BODY", "OVER", "ERROR"}
    /\ resp \in {200, 400, 414} /\ (resp >= 400 <=> recv = "ERROR")
    /\ request.target \in DOMAIN Targets \cup {"none"}
    /\ request.target = "none" => recv \in {"LINE", "ERROR"}
    /\ request.keep \in BOOLEAN /\ request.form \in BOOLEAN
    /\ request.length \in {"none"} \cup DOMAIN BodyLength
    /\ IF LengthThrows(request) THEN request.body = <<>>
       ELSE Len(request.body) <= ContentLength(request)
    /\ request.files # <<>> => request.form /\ recv = "OVER"
    /\ closing \in BOOLEAN /\ gone \in BOOLEAN
    /\ \A i \in DOMAIN answers : answers[i].code \in Codes /\ answers[i].type \in Types

(***************************************************************************)
(* What is expected, told of whole messages.                               *)
(***************************************************************************)

\* What line i of a request may hold, but for the blank one.
Fields(i) == IF i = 1 THEN DOMAIN Targets ELSE {"keep", "form"} \cup DOMAIN BodyLength

\* A text begins with n such lines.
Begins(text, n) ==
    /\ 2 * n <= Len(text)
    /\ \A i \in 1..n : text[2 * i - 1] \in Fields(i) /\ text[2 * i] = "nl"

\* The request that they make.  Of several lengths the first counts.
Headed(text, n) ==
    LET has(h) == \E i \in 2..n : text[2 * i - 1] = h
        lengths == {i \in 2..n : text[2 * i - 1] \in DOMAIN BodyLength}
    IN  [NoRequest EXCEPT
            !.target = IF n = 0 THEN "none" ELSE text[1],
            !.keep = has("keep"),
            !.form = has("form"),
            !.length = IF lengths = {} THEN "none" ELSE text[2 * Min(lengths) - 1]]

OwedError(target, code) ==
    IF target # "none" /\ Targets[target].path = "api"
    THEN Answer(code, "json", <<"api", "error">>)
    ELSE Answer(code, "html", <<"html", "error">>)

\* What a request deserves, whoever writes it.
Owed(target, input) ==
    CASE target = "file" -> Answer(200, "mime", <<"static">>)
      [] target = "torn" -> Answer(200, "none", <<>>)
      [] target = "page" -> Answer(200, "html", <<"index">>)
      [] target = "req" \/ (target = "upload" /\ input # <<>>) ->
             Answer(200, "json", <<"answer">> \o input)
      [] target = "upload" /\ input = <<>> -> OwedError(target, 400)
      [] target = "denied" -> OwedError(target, 401)
      [] target = "fail" -> OwedError(target, 500)
      [] target = "lost" -> OwedError(target, 404)

\* Message m is a request with n lines, a blank one and the body they announce.
Served(m, n) ==
    LET head == Headed(m.text, n)
        body == SubSeq(m.text, 2 * n + 2, Len(m.text))
        req == [head EXCEPT !.body = body,
                   !.files = IF head.form THEN ParseMultipartBody[body] ELSE <<>>]
    IN  /\ n > 0 /\ Begins(m.text, n) /\ ~LengthThrows(head)
        /\ Len(m.text) = 2 * n + 1 + ContentLength(head) /\ m.text[2 * n + 1] = "nl"
        /\ m.due = Len(m.text)
        /\ m.answer = Owed(req.target, Input(req))
        /\ m.last = ~req.keep

\* Behind n such lines m has one that is none, of k symbols, or that exceeds
\* the limit with its k-th.  What follows does not matter.
Refused(m, n, k) ==
    /\ Begins(m.text, n)
    /\ m.due = 2 * n + k /\ m.due <= Len(m.text)
    /\ \A j \in 1..(k - 1) : m.text[2 * n + j] # "nl"
    /\ \/ /\ k <= MaxLine /\ m.text[m.due] = "nl"
          /\ ~Begins(m.text, n + 1) /\ (n > 0 => k > 1)
          /\ m.answer = OwedError(Headed(m.text, n).target, 400)
       \/ /\ k = MaxLine + 1
          /\ m.answer = OwedError(Headed(m.text, n).target, 414)
    /\ m.last

NoAnswer == Answer(0, "none", <<>>)

\* Behind n such lines and a blank one m has a body, and the first length it
\* announces for that is none.  There is no answer to it.
Unanswerable(m, n) ==
    /\ n > 0 /\ Begins(m.text, n) /\ LengthThrows(Headed(m.text, n))
    /\ m.due = 2 * n + 1 /\ m.due <= Len(m.text) /\ m.text[m.due] = "nl"
    /\ m.answer = NoAnswer
    /\ m.last

\* A message is its text, how much of that is needed to know the answer it is
\* owed, the answer, and whether the connection closes after it.
Meant(m) ==
    /\ m.text \in Seq(Bytes)
    /\ \E n \in 0..Len(m.text) :
          \/ Served(m, n) \/ Unanswerable(m, n)
          \/ \E k \in 1..(MaxLine + 1) : Refused(m, n, k)

ASSUME StreamAssumption ==
    \A s \in Streams : s \in Seq(Range(s)) /\ \A m \in Range(s) : Meant(m)

\* Where the text of message i begins.
Start(i) == Len(FlattenSeq([k \in 1..(i - 1) |-> stream[k].text]))

\* The messages whose answers are known from what has been delivered, up to
\* the first that closes the connection.
Known ==
    {i \in DOMAIN stream :
        Start(i) + stream[i].due <= delivered /\ \A k \in 1..(i - 1) : ~stream[k].last}

\* However TCP cuts the stream, no request is answered before it has arrived,
\* or with anything but what its own lines and body deserve, and each time the
\* callback has returned all that have arrived are answered, in order, up to
\* the first that closes the connection: what the server says depends on the
\* bytes, not on the reads they came in.  A file in a form arrives as it was
\* sent.  Up to the first that closes the connection, too, an exception leaves
\* the callback at no request but one whose length is none, and all before
\* that one are answered.
CutIndependent ==
    /\ \A i \in DOMAIN answers :
          \/ i \in Known /\ answers[i] = stream[i].answer
          \/ \E k \in Known : k < i /\ stream[k].last
    /\ pc = "idle" => Known \subseteq DOMAIN answers
    /\ pc = "left" =>
          \/ \E k \in Known : k = Len(answers) + 1 /\ stream[k].answer = NoAnswer
          \/ \E k \in Known \cap DOMAIN answers : stream[k].last

\* The client can tell where an answer ends unless it is a file that could not
\* be read.
Delimited ==
    \A i \in DOMAIN answers \cap Known :
        answers[i].length = 0 => Head(stream[i].text) = "torn"

\* What the server has made of the bytes, at any time: the parser's state is one
\* that a request can lead to, and the answers are those that are due.
HttpInv == TypeOK /\ CutIndependent /\ Delimited

OfOnePiece(a) ==
    /\ a.code >= 400 <=> Contains(a.body, "error")
    /\ Contains(a.body, "error") => Len(a.body) = 2
    /\ a.type = IF a.body = <<>> THEN "none"
                ELSE CASE Head(a.body) \in {"api", "answer"} -> "json"
                       [] Head(a.body) \in {"html", "index"} -> "html"
                       [] OTHER -> "mime"

\* Up to three hands write one response (the handler, the exception handler,
\* the error handler).  What goes out is of one piece: an error carries an
\* error's body and nothing a handler had prepared, a success never does, and
\* the type is that of the body.
AnswersWhole == \A i \in DOMAIN answers : OfOnePiece(answers[i])

\* OnMessage and the parser loop while there are bytes in the buffer, and the
\* thread that runs them serves every connection.  However the bytes end, they
\* do not turn for ever: they return, or an exception ends them, which it does
\* only for a length that stol refuses (CutIndependent).
CallbackEnds == pc = "recv" ~> pc \in {"idle", "left"}
=============================================================================
