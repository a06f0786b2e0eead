---------------------------- MODULE MCHttpContext ----------------------------
(***************************************************************************)
(* Instances of HttpContext for TLC: up to three messages of any kind, one *)
(* after the other, cut anywhere.  One body looks like a request line; the *)
(* lines that are too long exceed MaxLine with and without their newline.  *)
(* Files in forms hold line breaks, dashes and headers of their own.       *)
(***************************************************************************)
EXTENDS HttpContext

Message(text, due, answer, last) ==
    [text |-> text, due |-> due, answer |-> answer, last |-> last]

Short(target, answer) == Message(<<target, "nl", "keep", "nl", "nl">>, 5, answer, FALSE)

Echo(body) == Answer(200, "json", <<"answer">> \o body)
ApiError(code) == Answer(code, "json", <<"api", "error">>)
HtmlError(code) == Answer(code, "html", <<"html", "error">>)

Plain == Short("req", Echo(<<>>))
WithBody == Message(<<"req", "nl", "len", "nl", "keep", "nl", "nl", "req", "nl">>, 9,
                    Echo(<<"req", "nl">>), FALSE)
TwoLengths == Message(<<"req", "nl", "len", "nl", "len7", "nl", "keep", "nl", "nl", "x", "x">>, 11,
                      Echo(<<"x", "x">>), FALSE)
LastOne == Message(<<"req", "nl", "len", "nl", "nl", "nl", "x">>, 7, Echo(<<"nl", "x">>), TRUE)
File == Short("file", Answer(200, "mime", <<"static">>))
Torn == Short("torn", Answer(200, "none", <<>>))
Page == Short("page", Answer(200, "html", <<"index">>))
Denied == Short("denied", ApiError(401))
Lost == Short("lost", ApiError(404))
Fail == Message(<<"fail", "nl", "len", "nl", "keep", "nl", "nl", "x", "nl">>, 9, ApiError(500), FALSE)
BadLine == Message(<<"keep", "nl", "nl">>, 2, HtmlError(400), TRUE)
BadHeader == Message(<<"page", "nl", "req", "nl", "nl">>, 4, HtmlError(400), TRUE)
LongLine == Message(<<"x", "x", "x", "x", "nl">>, 4, HtmlError(414), TRUE)
LongHeader == Message(<<"req", "nl", "keep", "x", "x", "x", "nl">>, 6, ApiError(414), TRUE)

\* A form with one file, and with an entry before or a file behind it.
Part(header, content) == <<"bound", "nl", header, "nl", "nl">> \o content \o <<"nl">>
Form(parts) == parts \o <<"bound", "end">>
Upload(length, form, answer) ==
    Message(<<"upload", "nl", "form", "nl", length, "nl", "nl">> \o form, 7 + Len(form), answer, TRUE)
OneFile(content) == Upload("len10", Form(Part("disp", content)), Echo(content))
EmptyFile == Upload("len8", Form(Part("disp", <<>>)), ApiError(400))
Entries == Upload("len15", Form(Part("text", <<>>) \o Part("disp", <<"nl">>)), Echo(<<"nl">>))
NoFile == Upload("len9", Form(Part("text", <<"x">>)), Echo(Form(Part("text", <<"x">>))))
NoBreak == Message(<<"upload", "nl", "form", "nl", "len7", "nl", "keep", "nl", "nl",
                     "bound", "nl", "disp", "nl", "nl", "bound", "end">>, 16,
                   Echo(<<"bound", "end">>), FALSE)
Raw == Message(<<"upload", "nl", "len", "nl", "nl", "x", "disp">>, 7, Echo(<<"x", "disp">>), TRUE)

\* Lengths that are no natural number: of 32 values of a size_t -16 is 16, and
\* "xyz" is none.
Much == [i \in 1..16 |-> IF i = 9 THEN "nl" ELSE "x"]
Negative == Message(<<"req", "nl", "neg", "nl", "keep", "nl", "nl">> \o Much, 23, Echo(Much), FALSE)
NoNumber == Message(<<"req", "nl", "xyz", "nl", "keep", "nl", "nl", "x">>, 7, NoAnswer, TRUE)
NumberFirst == Message(<<"req", "nl", "len", "nl", "xyz", "nl", "nl", "x", "x">>, 9, Echo(<<"x", "x">>), TRUE)
NumberLater == Message(<<"req", "nl", "xyz", "nl", "len", "nl", "nl", "x", "x">>, 7, NoAnswer, TRUE)

Forms ==
    {OneFile(<<"nl", "x">>), OneFile(<<"x", "nl">>), OneFile(<<"nl", "nl">>), OneFile(<<"end", "disp">>),
     EmptyFile, Entries, NoFile}
MCBodyLength ==
    [len |-> 2, len7 |-> 7, len8 |-> 8, len9 |-> 9, len10 |-> 10, len15 |-> 15,
     neg |-> -16, xyz |-> NoLong]

Good == {Plain, WithBody}
Other == {File, Torn, Page, Denied, Lost, Fail}
Headless == {NoNumber, NumberLater}
Bad == {BadLine, BadHeader, LongLine, LongHeader}

MCStreams ==
    {<<a, b>> : a \in Other, b \in Good \cup Bad \cup {LastOne}}
    \cup {<<a, b>> : a \in Good \cup Bad \cup {LastOne}, b \in Good \cup Other}
    \cup {<<a, b, c>> : a \in Good, b \in {Plain, LastOne}, c \in Good \cup Other \cup Bad}
    \cup {<<a>> : a \in Forms} \cup {<<NoBreak, Raw>>, <<TwoLengths, Plain>>}
    \cup {<<a, b>> : a \in Good, b \in Headless \cup {NumberFirst}}
    \cup {<<a, NoNumber>> : a \in {LastOne, BadHeader, LongLine}}
    \cup {<<a, Plain>> : a \in Headless \cup {Negative}}

MCBytes ==
    DOMAIN Targets \cup DOMAIN MCBodyLength \cup {"keep", "form", "bound", "end", "disp", "text", "x", "nl"}
=============================================================================
