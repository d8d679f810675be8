----------------------------- MODULE InputFilter -----------------------------
(***************************************************************************)
(* InputFilter: the body of a POST request from the pieces it arrives in   *)
(* to what the handler is given when it is complete.  Forms are read by    *)
(* MultipartParser, other bodies by DataParser, UrlEncodeParser and        *)
(* FileParser, which take a piece in one step.  The caller is              *)
(* UnixRequestController::processInput, which stops when step() fails and  *)
(* ends the body after content-length.  Reports of progress are left out.  *)
(***************************************************************************)
EXTENDS MultipartForm

CONSTANTS
    Requests,       \* forms, what is asked for, and a unit that is lost (or 0)
    Others,         \* other bodies, their types, and what is asked for
    MaxRequest,     \* maxRequestSize
    MaxPost,        \* MAX_INPUT_POST_SIZE
    Units           \* what bodies are made of

Texts == Seq(Units)

ASSUME UnitsAssumption ==
    {"cr", "lf", "-", "B", "x"} \subseteq Units /\ "end" \notin Units
\* A form is sent as text, and a lost unit is one of it; other bodies are of the
\* other types.
ASSUME RequestsAssumption ==
    \A q \in Requests : /\ EncodedForm(q.form) \in Texts
                        /\ q.lost \in 0 .. Len(EncodedForm(q.form))
ASSUME OthersAssumption ==
    \A q \in Others : q.body \in Texts /\ q.type \in {"Json", "Urlencoded", "other"}

VARIABLES
    form,           \* the form that is sent, <<>> for another body
    intact,         \* whether all of it arrives
    accept,         \* _accept
    pc,             \* where processInput is
    body,           \* _body
    seen            \* what the handler is given by handleFilterComplete

filterVars == <<form, intact, accept>>
vars == <<inputVars, parserVars, filterVars, pc, body, seen>>

Nothing == [root |-> NoFields, files |-> <<>>, body |-> <<>>]

\* getAcceptedData: by the type and length of the body and by what is asked for.
AcceptedData(contentType, length) ==
    IF length > MaxRequest \/ length >= MaxPost \/ length = 0 THEN "None"
    ELSE IF required \cap {"Data", "FilesAsData"} # {} /\ contentType # "other"
    THEN contentType
    ELSE IF required \cap {"Files", "Body"} = {} THEN "None"
    ELSE IF contentType = "Multipart" THEN "Multipart" ELSE "Files"

IsDataParsingAllowed == "Data" \in required
IsFileUploadAllowed == "Files" \in required

\* Whether step and finalize call the parser.
Parses ==
    CASE accept = "Multipart" -> IsFileUploadAllowed \/ IsDataParsingAllowed
      [] accept = "Files" -> IsFileUploadAllowed
      [] OTHER -> IsDataParsingAllowed

\* A body read as one value, and one read as a file: it is only made if it is
\* below the limit.
Value(s) == <<>> :> [kind |-> "data", text |-> s]
Uploads(s) ==
    IF Len(stream) < MaxFile
    THEN <<[name |-> <<"x">>, type |-> <<"x">>, file |-> <<>>,
            size |-> Len(stream), content |-> s]>>
    ELSE <<>>

Send(units, type_) ==
    /\ stream = units /\ accept = AcceptedData(type_, Len(units))
    /\ ParserInit
    /\ files = IF accept = "Files" THEN Uploads(<<>>) ELSE <<>>
    /\ pc = IF accept = "None" THEN "refused" ELSE "wait"

\* insert and init.
Init ==
    /\ upto = 0 /\ body = <<>> /\ seen = Nothing
    /\ \/ \E q \in Requests :
            /\ required = q.required /\ form = q.form /\ intact = (q.lost = 0)
            /\ Send(IF intact THEN EncodedForm(form)
                    ELSE RemoveAt(EncodedForm(form), q.lost), "Multipart")
       \/ \E q \in Others :
            /\ required = q.required /\ form = <<>> /\ intact = TRUE
            /\ Send(q.body, q.type)

-----------------------------------------------------------------------------
\* A piece of the body up to unit n: step() saves it and gives it to the parser.
Step(n) ==
    /\ pc = "wait" /\ upto < n
    /\ upto' = n /\ pc' = "run"
    /\ body' = IF "Body" \in required THEN SubSeq(stream, 1, n) ELSE body
    /\ UNCHANGED <<required, stream, filterVars, parserVars, seen>>

\* A parser that is not called leaves the piece.
Ignore ==
    /\ pc = "run" /\ at < upto /\ ~Parses
    /\ at' = upto
    /\ UNCHANGED <<inputVars, state, header, literal, data, match, buf, headVars,
                   resultVars, filterVars, pc, body, seen>>

RunMultipart ==
    /\ pc = "run" /\ Parses /\ accept = "Multipart"
    /\ Read
    /\ UNCHANGED <<filterVars, pc, body, seen>>

\* run() fails at the beginning of the body, and processInput with it.
RunFails ==
    /\ pc = "run" /\ Parses /\ accept = "Multipart"
    /\ ReadBeginFails
    /\ pc' = "refused"
    /\ UNCHANGED <<filterVars, body, seen>>

\* DataParser::run, UrlEncodeParser::run.
RunData ==
    /\ pc = "run" /\ at < upto /\ Parses /\ accept \in {"Json", "Urlencoded"}
    /\ streamBuf' = streamBuf \o Rest /\ at' = upto
    /\ UNCHANGED <<inputVars, state, header, literal, data, match, buf, headVars,
                   root, files, filterVars, pc, body, seen>>

\* FileParser::run tests the limit again with every piece.
RunFile ==
    /\ pc = "run" /\ at < upto /\ Parses /\ accept = "Files"
    /\ files' = [i \in DOMAIN files |->
                    IF Len(files[i].content) + Len(Rest) < MaxFile
                    THEN [files[i] EXCEPT !.content = @ \o Rest] ELSE files[i]]
    /\ at' = upto
    /\ UNCHANGED <<inputVars, state, header, literal, data, match, buf, headVars,
                   root, streamBuf, filterVars, pc, body, seen>>

\* step() returned; there is more to come.
StepDone ==
    /\ pc = "run" /\ at = upto /\ upto < Len(stream)
    /\ pc' = "wait"
    /\ UNCHANGED <<inputVars, parserVars, filterVars, body, seen>>

\* Mutant of Finalize: the files are closed before the handler is called.
FinalizeClosed ==
    LET value == IF Parses /\ accept \in {"Json", "Urlencoded"}
                 THEN Value(streamBuf) ELSE root
    IN  /\ pc = "run" /\ at = upto /\ upto = Len(stream)
        /\ seen' = [root |-> value, files |-> <<>>, body |-> body]
        /\ root' = value /\ files' = <<>>
        /\ pc' = "done"
        /\ UNCHANGED <<inputVars, at, state, header, literal, data, match, buf,
                       headVars, streamBuf, filterVars, body>>

\* The last piece: finalize() has the parser end, calls the handler and closes
\* the files.
Finalize ==
    LET value == IF Parses /\ accept \in {"Json", "Urlencoded"}
                 THEN Value(streamBuf) ELSE root
    IN  /\ pc = "run" /\ at = upto /\ upto = Len(stream)
        /\ seen' = [root |-> value, files |-> files, body |-> body]
        /\ root' = value /\ files' = <<>>
        /\ pc' = "done"
        /\ UNCHANGED <<inputVars, at, state, header, literal, data, match, buf,
                       headVars, streamBuf, filterVars, body>>

Run == \/ Ignore \/ RunMultipart \/ RunFails \/ RunData \/ RunFile
       \/ StepDone \/ Finalize

Next == (\E n \in 1 .. Len(stream) : Step(n)) \/ Run

\* The worker goes on with a piece it has; the peer owes no more.
Spec == Init /\ [][Next]_vars /\ WF_vars(Run)

-----------------------------------------------------------------------------
(* Properties.                                                             *)

Files == [name : Texts, type : Texts, file : Texts, size : Nat, content : Texts]

TypeOK ==
    /\ at \in 0 .. upto /\ upto \in 0 .. Len(stream)
    /\ pc \in {"wait", "run", "refused", "done"}
    /\ state \in States /\ header \in Headers
    /\ literal \in {"None", "Plain", "Quoted"}
    /\ data \in {"Var", "File", "FileAsData", "Skip"}
    /\ match \in 0 .. Len(Boundary)
    /\ state = "Data" => match < Len(Boundary)
    /\ {stream, buf, name, file, type, streamBuf, body} \subseteq Texts /\ size \in 0 .. 9
    /\ files \in Seq(Files)

\* Wherever the pieces of a form end, a field is in the result from the moment
\* its delimiter was read, whole, under its name, and in the order of the parts;
\* before that there is nothing of it (readHeader, readData, flushVarName).
FieldsAreWhole ==
    intact /\ accept = "Multipart" /\ Parses =>
        root = Fields(PartsIn(form, at))

\* The files are those of the parts that were read, and the one that is being
\* read has only content in it: what looked like a delimiter and was none is
\* there, and no part of one that was (flushData, readData).
FilesAreSent ==
    LET whole == PartsIn(form, at)
        part == form[Len(whole) + 1]
        there == FilesIn(whole)
    IN  intact /\ accept = "Multipart" /\ Parses /\ pc # "done" =>
            \/ files = there
            \/ /\ Len(whole) < Len(form) /\ Len(files) = Len(there) + 1
               /\ Front(files) = there
               /\ IsPrefix(Last(files).content, part.content)
               /\ Last(files) =
                      [FileOf(part) EXCEPT !.content = Last(files).content]

\* What there is of the part that is being read.
Content == CASE data = "Var" -> buf
             [] data = "File" -> Last(files).content
             [] data = "FileAsData" -> streamBuf
             [] OTHER -> <<>>

\* Whatever the body, damaged ones too: the content of a part, with what may be
\* its delimiter, is all that came after the line that ends its header, without a
\* gap or a repetition, however many pieces it took (readData, flushData).
ContentIsContiguous ==
    state = "Data" /\ data # "Skip" /\ pc # "done" =>
        \E i \in 1 .. at :
            /\ stream[i] = "lf"
            /\ Content \o SubSeq(Boundary, 1, match) = SubSeq(stream, i + 1, at)

\* A complete body gives the handler what it asked for and what was sent
\* (step, finalize): the fields and the files of a form, the value or the file
\* of another body, and the body itself.
HandlerSees ==
    pc = "done" /\ intact =>
        /\ seen.body = IF "Body" \in required THEN stream ELSE <<>>
        /\ seen.root = CASE ~Parses \/ accept = "Files" -> NoFields
                         [] accept = "Multipart" /\ Parses -> Fields(form)
                         [] OTHER -> Value(stream)
        /\ seen.files = CASE accept = "Files" -> Uploads(IF Parses THEN stream ELSE <<>>)
                          [] accept = "Multipart" /\ Parses -> FilesIn(form)
                          [] OTHER -> <<>>

\* Whatever the body, damaged ones too, every call of run() returns: no unit
\* leaves the parser between two states that wait for each other.
RunReturns == pc = "run" ~> pc # "run"
=============================================================================
