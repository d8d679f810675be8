--------------------------- MODULE MultipartParser ---------------------------
(***************************************************************************)
(* MultipartParser: the body of a multipart/form-data request, read in the *)
(* pieces it arrives in.  A piece may end anywhere, so every function that *)
(* looks for the end of something keeps what it has in buf or match.       *)
(*                                                                         *)
(* The input is a sequence of units: the characters the parser tells apart,*)
(* and words or parts of words.  One action is one round of the loop of    *)
(* run(): the call of a read function, which takes units from at on.  The  *)
(* transfer encoding, kept for the handler, is skipped like other headers. *)
(***************************************************************************)
EXTENDS Naturals, SequencesExt, TLC

CONSTANTS
    MaxVar,         \* maxVarSize
    MaxFile,        \* maxFileSize
    DataTypes       \* what isFileAsDataSupportedForType answers for

ASSUME LimitAssumption == MaxVar \in Nat \ {0} /\ MaxFile \in Nat \ {0}

VARIABLES
    required,           \* what the request's configuration asks for
    stream,             \* the whole body
    at, upto,           \* what was read, and the end of the piece run() has
    state, header, literal, data, match, buf,
    name, file, type, size,
    root, files, streamBuf

inputVars == <<required, stream, upto>>
headVars == <<name, file, type, size>>
resultVars == <<root, files, streamBuf>>
parserVars == <<at, state, header, literal, data, match, buf, headVars, resultVars>>

\* Before every part and after the last; before the first there is no line.
Boundary == <<"cr", "lf", "-", "-", "B">>

Space == {"cr", " "}

Number == [d \in {ToString(n) : n \in 0 .. 9} |->
              CHOOSE n \in 0 .. 9 : ToString(n) = d]

States == {"Begin", "BeginBlock", "HeaderLine", "Data", "End"}
Headers == {"Begin", "ContentDisposition", "ContentDispositionParams",
            "ContentDispositionName", "ContentDispositionFileName",
            "ContentDispositionSize", "ContentDispositionUnknown",
            "ContentType", "Unknown"}

-----------------------------------------------------------------------------
(* Units and fields.                                                       *)

Rest == SubSeq(stream, at + 1, upto)

\* What comes before the first of the given units (readUntil).
Until(units) ==
    LET hits == {i \in at + 1 .. upto : stream[i] \in units}
    IN  SubSeq(stream, at + 1, IF hits = {} THEN upto ELSE Min(hits) - 1)

\* The unit readUntil stopped at, if the piece goes on.
Stop(units) == IF at + Len(Until(units)) = upto THEN "end"
               ELSE stream[at + Len(Until(units)) + 1]

\* How much of s goes on with the boundary after the first n.
Agreeing(s, n) ==
    Len(LongestCommonPrefix({s, SubSeq(Boundary, n + 1, Len(Boundary))}))

\* op(x), with x evaluated once.
Once(op(_), x) == CHOOSE y \in {op(v) : v \in {x}} : TRUE

Trim(s) ==
    LET words == {i \in DOMAIN s : s[i] \notin Space}
    IN  IF words = {} THEN <<>> ELSE SubSeq(s, Min(words), Max(words))

\* The fields are a tree, kept as a function of the paths in it.
Text(s) == [kind |-> "text", text |-> s]
Kind(k) == [kind |-> k, text |-> <<>>]
NoFields == <<>> :> Kind("dict")

Under(tree, path) == {p \in DOMAIN tree : IsStrictPrefix(path, p)}
Children(tree, path) == {p \in Under(tree, path) : Len(p) = Len(path) + 1}
Put(tree, path, value) ==
    (path :> value) @@ [p \in DOMAIN tree \ Under(tree, path) |-> tree[p]]

\* The node at path as a dictionary or an array: emptied if it is not one.
Become(tree, path, k) ==
    IF tree[path].kind = k THEN tree ELSE Put(tree, path, Kind(k))

Enter(tree, path) ==
    [tree |-> IF path \in DOMAIN tree THEN tree ELSE Put(tree, path, Kind("true")),
     cur |-> path]

AddValue(tree, path) ==
    LET array == Become(tree, path, "array")
    IN  Enter(array, Append(path, <<ToString(Cardinality(Children(array, path)))>>))

\* flushString: from the value at cur (<<>> for nullptr) into the key str.
FlushString(tree, cur, str, varState) ==
    LET none == [tree |-> tree, cur |-> <<>>]
        index == IF Len(str) = 1 /\ str[1] \in DOMAIN Number
                 THEN Number[str[1]] ELSE 10
        length == Cardinality(Children(tree, cur))
        kind == tree[cur].kind
    IN  CASE varState = "Key" -> IF str = <<>> THEN none ELSE Enter(tree, <<str>>)
          [] varState = "SubKey" ->
              IF kind = "array" /\ index < length
              THEN Enter(tree, Append(cur, str))
              ELSE IF \/ str = <<>>
                      \/ kind = "array" /\ index = length
                      \/ kind \notin {"array", "dict"} /\ index = 0
              THEN AddValue(tree, cur)
              ELSE Enter(Become(tree, cur, "dict"), Append(cur, str))
          [] varState = "SubKeyEnd" -> [tree |-> tree, cur |-> cur]
          [] varState = "End" ->
              [tree |-> IF str = <<>> THEN tree ELSE Put(tree, cur, Text(str)),
               cur |-> <<>>]

NextVarState(varState, bracket) ==
    CASE varState = "Key" /\ bracket = "[" -> "SubKey"
      [] varState = "SubKey" /\ bracket = "]" -> "SubKeyEnd"
      [] varState = "SubKeyEnd" /\ bracket = "[" -> "SubKey"
      [] OTHER -> "End"

\* flushVarName: name[key][] leads from the root to the value it names.
FlushVarName(tree, var) ==
    LET cuts == SetToSortSeq({i \in DOMAIN var : var[i] \in {"[", "]"}}, <)
        Piece(k) == SubSeq(var, IF k = 1 THEN 1 ELSE cuts[k - 1] + 1,
                           IF k > Len(cuts) THEN Len(var) ELSE cuts[k] - 1)
        Flushed(now, k) ==
            IF now.lost \/ (k > Len(cuts) /\ Piece(k) = <<>>) THEN now
            ELSE LET next == FlushString(now.tree, now.cur, Piece(k), now.varState)
                 IN  [tree |-> next.tree, cur |-> next.cur,
                      lost |-> next.cur = <<>>,
                      varState |-> IF k > Len(cuts) THEN now.varState
                                   ELSE NextVarState(now.varState, var[cuts[k]])]
        Key(now, k) == Once(LAMBDA v : Flushed(v, k), now)
        found == FoldLeft(Key, [tree |-> tree, cur |-> <<>>, lost |-> FALSE,
                                varState |-> "Key"],
                          [k \in 1 .. Len(cuts) + 1 |-> k])
    IN  [tree |-> found.tree, cur |-> found.cur]

-----------------------------------------------------------------------------
(* The results.                                                            *)

\* flushLiteral: the value of a parameter or a header is complete.
FlushLiteral(text, quoted) ==
    LET tmp == IF quoted THEN text ELSE Trim(text)
    IN  /\ file' = IF header = "ContentDispositionFileName" THEN tmp ELSE file
        /\ name' = IF header = "ContentDispositionName" THEN tmp ELSE name
        /\ type' = IF header = "ContentType" THEN tmp ELSE type
        /\ size' = IF header # "ContentDispositionSize" THEN size
                   ELSE IF text # <<>> /\ text[1] \in DOMAIN Number
                        THEN Number[text[1]] ELSE 0

\* flushData: a part that reaches its limit is dropped.  For a file taken as
\* data the file before it is, too; without one the code is undefined.
FlushData(s) ==
    LET last == Len(files)
        Over(have, max) == Len(s) + have >= max
    IN  CASE data = "File" ->
              /\ IF Over(Len(files[last].content), MaxFile)
                 THEN files' = Front(files) /\ data' = "Skip"
                 ELSE files' = [files EXCEPT ![last].content = @ \o s]
                      /\ UNCHANGED data
              /\ UNCHANGED <<buf, streamBuf>>
          [] data = "FileAsData" ->
              /\ IF Over(Len(streamBuf), MaxFile)
                 THEN files' = Front(files) /\ data' = "Skip" /\ UNCHANGED streamBuf
                 ELSE streamBuf' = streamBuf \o s /\ UNCHANGED <<files, data>>
              /\ UNCHANGED buf
          [] data = "Var" ->
              /\ IF Over(Len(buf), MaxVar)
                 THEN buf' = <<>> /\ data' = "Skip"
                 ELSE buf' = buf \o s /\ UNCHANGED data
              /\ UNCHANGED <<files, streamBuf>>
          [] OTHER -> UNCHANGED <<files, streamBuf, buf, data>>

\* Mutant of HeaderIs: the unit after the stop is skipped unread.
HeaderIsOver(h, n) == header' = h /\ buf' = <<>> /\ at' = at + n + 2

\* The end of a header's name, parameter or line: on from the unit after n.
HeaderIs(h, n) == header' = h /\ buf' = <<>> /\ at' = at + n + 1

\* The end of the piece comes first: what there is is kept.
Keep == buf' = buf \o Rest /\ at' = upto /\ UNCHANGED header

-----------------------------------------------------------------------------
(* The read functions.                                                     *)

Running == at < upto

\* readBegin up to the first delimiter; anything else before it is refused.
Begins(n) == Agreeing(SubSeq(Rest, n + 1, Len(Rest)), match)
Preamble == IF match = 0 THEN Len(Until({"-"})) ELSE 0

ReadBegin ==
    LET n == Preamble + Begins(Preamble)
    IN  /\ Running /\ state = "Begin"
        /\ at + n = upto \/ match + Begins(Preamble) = Len(Boundary)
        /\ at' = at + n
        /\ IF at' = upto
           THEN match' = match + Begins(Preamble) /\ UNCHANGED <<state, buf>>
           ELSE match' = 0 /\ state' = "BeginBlock" /\ buf' = <<>>
        /\ UNCHANGED <<inputVars, header, literal, data, headVars, resultVars>>

\* The piece does not begin with the delimiter: run() returns false.
ReadBeginFails ==
    /\ Running /\ state = "Begin"
    /\ at + Preamble + Begins(Preamble) < upto
    /\ match + Begins(Preamble) < Len(Boundary)
    /\ match' = 0
    /\ UNCHANGED <<inputVars, at, state, header, literal, data, buf, headVars,
                   resultVars>>

\* readBlock: "-" first ends the body (the loop sees the one it has put into buf
\* a second time), else the part's header begins after the end of the line.
ReadBlock ==
    LET line == Len(Until({"lf"}))
        dashes == {i \in at + 1 .. at + line : stream[i] = "-"}
    IN  /\ Running /\ state = "BeginBlock"
        /\ IF dashes # {}
           THEN /\ buf' = <<"-">> /\ state' = "End" /\ at' = Min(dashes) - 1
                /\ UNCHANGED <<header, headVars>>
           ELSE IF at + line = upto
           THEN at' = upto /\ UNCHANGED <<state, buf, header, headVars>>
           ELSE /\ at' = at + line + 1
                /\ state' = "HeaderLine" /\ header' = "Begin" /\ buf' = <<>>
                /\ name' = <<>> /\ file' = <<>> /\ type' = <<>> /\ size' = 0
        /\ UNCHANGED <<inputVars, literal, data, match, resultVars>>

InHeader(h) == Running /\ state = "HeaderLine" /\ header = h

HeaderOf(text) ==
    LET words == Trim(text)
    IN  CASE IsPrefix(<<"content-", "disposition">>, words) -> "ContentDisposition"
          [] IsPrefix(<<"content-", "type">>, words) -> "ContentType"
          [] OTHER -> "Unknown"

\* Mutant of ReadHeaderName: what an earlier piece had of the name is forgotten.
ReadHeaderNameCut ==
    /\ InHeader("Begin") /\ Stop({"lf", ":"}) = ":"
    /\ HeaderIs(HeaderOf(Until({"lf", ":"})), Len(Until({"lf", ":"})))
    /\ UNCHANGED <<inputVars, state, literal, data, match, headVars, resultVars>>

\* readHeaderBegin at the end of a header's name.
ReadHeaderName ==
    /\ InHeader("Begin") /\ Stop({"lf", ":"}) = ":"
    /\ HeaderIs(HeaderOf(buf \o Until({"lf", ":"})), Len(Until({"lf", ":"})))
    /\ UNCHANGED <<inputVars, state, literal, data, match, headVars, resultVars>>

\* What becomes of a part whose header is complete.
DataOf ==
    LET Fits(max) == size = 0 \/ size < max
    IN  IF file # <<>> \/ type # <<>>
        THEN IF "FilesAsData" \in required /\ Fits(MaxFile) /\ type \in DataTypes
             THEN "FileAsData"
             ELSE IF "Files" \in required /\ Fits(MaxFile) THEN "File" ELSE "Skip"
        ELSE IF "Data" \in required /\ Fits(MaxVar) THEN "Var" ELSE "Skip"

\* readHeaderBegin at the end of a line: an empty one ends the header, a line
\* without a colon is passed over.
ReadHeaderEnd ==
    LET line == Until({"lf", ":"})
    IN  /\ InHeader("Begin") /\ Stop({"lf", ":"}) = "lf"
        /\ HeaderIs("Begin", Len(line))
        /\ IF Trim(buf) = <<>> /\ Trim(line) = <<>>
           THEN /\ state' = "Data" /\ data' = DataOf /\ size' = 0
                /\ streamBuf' = IF data' = "FileAsData" THEN <<>> ELSE streamBuf
                /\ IF data' = "File"
                   THEN /\ files' = Append(files, [name |-> name, type |-> type,
                                                   file |-> file, size |-> size,
                                                   content |-> <<>>])
                        /\ name' = <<>> /\ type' = <<>> /\ file' = <<>>
                   ELSE UNCHANGED <<files, name, type, file>>
           ELSE UNCHANGED <<state, data, headVars, files, streamBuf>>
        /\ UNCHANGED <<inputVars, literal, match, root>>

\* readHeaderContentDisposition at the end of the disposition.
ReadDisposition ==
    LET words == Until({"lf", ";"})
    IN  /\ InHeader("ContentDisposition") /\ Stop({"lf", ";"}) # "end"
        /\ HeaderIs(IF Stop({"lf", ";"}) = "lf" THEN "Begin"
                    ELSE IF IsPrefix(<<"form-data">>, Trim(buf \o words))
                    THEN "ContentDispositionParams" ELSE "Unknown", Len(words))
        /\ UNCHANGED <<inputVars, state, literal, data, match, headVars, resultVars>>

ParamOf(words) ==
    CASE IsPrefix(<<"name">>, words) -> "ContentDispositionName"
      [] IsPrefix(<<"file", "name">>, words) -> "ContentDispositionFileName"
      [] IsPrefix(<<"size">>, words) -> "ContentDispositionSize"
      [] OTHER -> "ContentDispositionUnknown"

\* How much readHeaderContentDispositionParam skips before a parameter.
Skipped ==
    IF buf # <<>> THEN 0
    ELSE Max({k \in 0 .. upto - at : \A i \in at + 1 .. at + k :
                                       stream[i] \in {";", " "}})

\* readHeaderContentDispositionParam at the end of a parameter's name.
ReadParam ==
    LET words == Until({"lf", "="})
        known == ParamOf(buf \o SubSeq(words, Skipped + 1, Len(words)))
    IN  /\ InHeader("ContentDispositionParams") /\ Stop({"lf", "="}) # "end"
        /\ HeaderIs(IF Stop({"lf", "="}) = "lf" THEN "Begin" ELSE known, Len(words))
        /\ literal' = IF header' \in {"Begin", "ContentDispositionUnknown"}
                      THEN literal ELSE "None"
        /\ UNCHANGED <<inputVars, state, data, match, headVars, resultVars>>

\* The same functions at the end of a piece.
ReadOn ==
    /\ \/ InHeader("Begin") /\ Stop({"lf", ":"}) = "end" /\ Keep
       \/ InHeader("ContentDisposition") /\ Stop({"lf", ";"}) = "end" /\ Keep
       \/ /\ InHeader("ContentDispositionParams") /\ Stop({"lf", "="}) = "end"
          /\ buf' = buf \o SubSeq(Rest, Skipped + 1, Len(Rest))
          /\ at' = upto /\ UNCHANGED header
    /\ UNCHANGED <<inputVars, state, literal, data, match, headVars, resultVars>>

\* A literal that ends here, if it fits: it is given to the part's header.  For a
\* quotation that does not flushLiteral is called, too, but with the header
\* ContentDispositionUnknown, which keeps nothing.
Flush(quoted, words) ==
    IF Len(buf) + Len(words) < MaxVar /\ (quoted \/ buf \o words # <<>>)
    THEN FlushLiteral(buf \o words, quoted) ELSE UNCHANGED headVars

\* A literal that goes on in the next piece, if it fits so far.
KeepLiteral(otherwise) ==
    IF Len(buf) + Len(Rest) < MaxVar THEN Keep
    ELSE header' = otherwise /\ at' = upto /\ UNCHANGED buf

\* readHeaderValue.
ReadHeaderValue ==
    /\ InHeader("ContentType")
    /\ IF Stop({"lf"}) = "end"
       THEN KeepLiteral("Unknown") /\ UNCHANGED <<literal, headVars>>
       ELSE /\ Flush(FALSE, Until({"lf"}))
            /\ HeaderIs("Begin", Len(Until({"lf"}))) /\ literal' = "None"
    /\ UNCHANGED <<inputVars, state, data, match, resultVars>>

InParam(l) ==
    /\ Running /\ state = "HeaderLine" /\ literal = l
    /\ header \in {"ContentDispositionName", "ContentDispositionFileName",
                  "ContentDispositionSize"}

\* Mutant of ReadLiteralBegin: white space is left where it is.
ReadLiteralBeginSpace ==
    /\ InParam("None")
    /\ CASE Rest[1] = "quote" -> /\ literal' = "Quoted" /\ at' = at + 1
                                 /\ UNCHANGED <<header, buf>>
         [] Rest[1] = "lf" -> HeaderIs("Begin", 0) /\ UNCHANGED literal
         [] Rest[1] \in Space -> UNCHANGED <<literal, at, header, buf>>
         [] OTHER -> literal' = "Plain" /\ UNCHANGED <<at, header, buf>>
    /\ UNCHANGED <<inputVars, state, data, match, headVars, resultVars>>

\* readHeaderContentDispositionValue looks how the value begins.
ReadLiteralBegin ==
    /\ InParam("None")
    /\ CASE Rest[1] = "quote" -> /\ literal' = "Quoted" /\ at' = at + 1
                                 /\ UNCHANGED <<header, buf>>
         [] Rest[1] = "lf" -> HeaderIs("Begin", 0) /\ UNCHANGED literal
         [] Rest[1] \in Space -> /\ header' = "ContentDispositionParams"
                                /\ UNCHANGED <<literal, at, buf>>
         [] OTHER -> literal' = "Plain" /\ UNCHANGED <<at, header, buf>>
    /\ UNCHANGED <<inputVars, state, data, match, headVars, resultVars>>

\* readPlainLiteral.
ReadPlainLiteral ==
    LET stop == Stop({"lf", ";"})
    IN  /\ InParam("Plain")
        /\ IF stop = "end"
           THEN KeepLiteral("ContentDispositionUnknown")
                /\ UNCHANGED <<literal, headVars>>
           ELSE /\ Flush(FALSE, Until({"lf", ";"}))
                /\ HeaderIs(IF stop = ";" THEN "ContentDispositionParams" ELSE "Begin",
                            Len(Until({"lf", ";"})))
                /\ literal' = "None"
        /\ UNCHANGED <<inputVars, state, data, match, resultVars>>

\* readQuotedLiteral: a quotation does not go past its line.
ReadQuotedLiteral ==
    LET stop == Stop({"lf", "quote"})
    IN  /\ InParam("Quoted")
        /\ IF stop = "end"
           THEN KeepLiteral("ContentDispositionUnknown")
                /\ UNCHANGED <<literal, headVars>>
           ELSE /\ IF stop = "lf" THEN UNCHANGED headVars
                   ELSE Flush(TRUE, Until({"lf", "quote"}))
                /\ HeaderIs(IF stop = "lf" THEN "Begin" ELSE "ContentDispositionParams",
                            Len(Until({"lf", "quote"})))
                /\ literal' = "None"
        /\ UNCHANGED <<inputVars, state, data, match, resultVars>>

\* readHeaderDummy and readHeaderContentDispositionDummy pass over a header and
\* over a parameter.
ReadDummy ==
    LET units == IF header = "Unknown" THEN {"lf"} ELSE {"lf", ";"}
    IN  /\ InHeader("Unknown") \/ InHeader("ContentDispositionUnknown")
        /\ IF Stop(units) = "end"
           THEN at' = upto /\ UNCHANGED <<header, literal, buf>>
           ELSE /\ HeaderIs(IF Stop(units) = ";" THEN "ContentDispositionParams"
                            ELSE "Begin", Len(Until(units)))
                /\ literal' = "None"
        /\ UNCHANGED <<inputVars, state, data, match, headVars, resultVars>>

\* readData up to what may be a delimiter.
ReadData ==
    LET content == Until({"cr"})
    IN  /\ Running /\ state = "Data" /\ match = 0
        /\ FlushData(content)
        /\ IF at + Len(content) = upto THEN at' = upto /\ UNCHANGED match
           ELSE at' = at + Len(content) + 1 /\ match' = 1
        /\ UNCHANGED <<inputVars, state, header, literal, headVars, root>>

InDelimiter == Running /\ state = "Data" /\ match > 0

\* Mutant of ReadMismatch: what looked like a delimiter is lost.
ReadMismatchLost ==
    LET n == Agreeing(Rest, match)
    IN  /\ InDelimiter /\ match + n < Len(Boundary)
        /\ match' = IF at + n = upto THEN match + n ELSE 0
        /\ at' = at + n
        /\ UNCHANGED <<inputVars, state, header, literal, data, buf, headVars,
                       resultVars>>

\* readData where a delimiter goes on into the next piece, or turns out to be
\* content.
ReadMismatch ==
    LET n == Agreeing(Rest, match)
    IN  /\ InDelimiter /\ match + n < Len(Boundary)
        /\ IF at + n = upto
           THEN match' = match + n /\ UNCHANGED <<files, streamBuf, buf, data>>
           ELSE match' = 0 /\ FlushData(SubSeq(Boundary, 1, match + n))
        /\ at' = at + n
        /\ UNCHANGED <<inputVars, state, header, literal, headVars, root>>

\* readData at the end of a part.
ReadDelimiter ==
    LET n == Agreeing(Rest, match)
        var == FlushVarName(root, name)
    IN  /\ InDelimiter /\ match + n = Len(Boundary)
        /\ at' = at + n /\ match' = 0 /\ state' = "BeginBlock"
        /\ buf' = IF data = "Var" THEN <<>> ELSE buf
        /\ streamBuf' = IF data = "FileAsData" THEN <<>> ELSE streamBuf
        /\ name' = IF data = "FileAsData" THEN <<>> ELSE name
        /\ root' = CASE data = "Var" ->
                           IF var.cur = <<>> THEN var.tree
                           ELSE Put(var.tree, var.cur, Text(buf))
                     [] data = "FileAsData" ->
                           Put(root, <<name>>, [kind |-> "data", text |-> streamBuf])
                     [] OTHER -> root
        /\ UNCHANGED <<inputVars, header, literal, data, file, type, size, files>>

\* run() takes no more after the last delimiter.
RunEnds ==
    /\ Running /\ state = "End"
    /\ at' = upto
    /\ UNCHANGED <<inputVars, state, header, literal, data, match, buf, headVars,
                   resultVars>>

ParserInit ==
    /\ at = 0 /\ state = "Begin" /\ header = "Begin" /\ literal = "None"
    /\ data = "Skip" /\ match = 2 /\ buf = <<>>
    /\ name = <<>> /\ file = <<>> /\ type = <<>> /\ size = 0
    /\ root = NoFields /\ streamBuf = <<>>

\* One round of the loop of run().
Read ==
    \/ ReadBegin \/ ReadBlock
    \/ ReadHeaderName \/ ReadHeaderEnd \/ ReadDisposition \/ ReadParam \/ ReadOn
    \/ ReadHeaderValue \/ ReadLiteralBegin \/ ReadPlainLiteral \/ ReadQuotedLiteral
    \/ ReadDummy
    \/ ReadData \/ ReadMismatch \/ ReadDelimiter \/ RunEnds
=============================================================================
