---------------------------- MODULE MultipartForm ----------------------------
(***************************************************************************)
(* A form as its sender has it, the body it is sent as, and what a handler *)
(* is to be given of it: the reference for MultipartParser.  A form is a   *)
(* sequence of parts with                                                  *)
(*   keys      the name and the keys in brackets after it                  *)
(*   quoted    whether the name is in quotation marks                      *)
(*   filename, type, size   <<>> or 0 if the part does not say             *)
(*   other     whether there is a parameter and a header of no meaning     *)
(*   content                                                               *)
(***************************************************************************)
EXTENDS MultipartParser

VarName(part) ==
    part.keys[1] \o FlattenSeq([i \in 1 .. Len(part.keys) - 1 |->
                                   <<"[">> \o part.keys[i + 1] \o <<"]">>])

Optional(condition, units) == IF condition THEN units ELSE <<>>
Quoted(text) == <<"quote">> \o text \o <<"quote">>

\* makeMultipartRequest writes a part.
Encoded(part) ==
    <<"-", "-", "B", "cr", "lf",
      "content-", "disposition", ":", " ", "form-data", ";", " ", "name", "=">>
    \o (IF part.quoted THEN Quoted(VarName(part)) ELSE VarName(part))
    \o Optional(part.filename # <<>>,
                <<";", " ", "file", "name", "=">> \o Quoted(part.filename))
    \o Optional(part.size # 0, <<";", " ", "size", "=", ToString(part.size)>>)
    \o Optional(part.other, <<";", " ", "other", "=">> \o Quoted(<<"x">>))
    \o <<"cr", "lf">>
    \o Optional(part.type # <<>>,
                <<"content-", "type", ":", " ">> \o part.type \o <<"cr", "lf">>)
    \o Optional(part.other, <<"content-", "length", ":", " ", "1", "cr", "lf">>)
    \o <<"cr", "lf">> \o part.content \o <<"cr", "lf">>

EncodedParts(form) == FlattenSeq([i \in DOMAIN form |-> Encoded(form[i])])
EncodedForm(form) == EncodedParts(form) \o <<"-", "-", "B", "-", "-", "cr", "lf">>

-----------------------------------------------------------------------------
\* A text that reaches the limit, with the spaces around it, is dropped.
Kept(text, spaces) == IF Len(text) + spaces < MaxVar THEN text ELSE <<>>

PartName(part) ==
    Kept(VarName(part),
         IF part.quoted \/ part.filename # <<>> \/ part.size # 0 \/ part.other
         THEN 0 ELSE 1)
FileName(part) == Kept(part.filename, 0)
PartType(part) == Kept(part.type, 2)

TakenAs(part) ==
    LET isFile == FileName(part) # <<>> \/ PartType(part) # <<>>
        max == IF isFile THEN MaxFile ELSE MaxVar
        as == IF isFile
              THEN IF "FilesAsData" \in required /\ PartType(part) \in DataTypes
                   THEN "FileAsData" ELSE IF "Files" \in required THEN "File" ELSE "Skip"
              ELSE IF "Data" \in required THEN "Var" ELSE "Skip"
    IN  IF part.size < max /\ Len(part.content) < max THEN as ELSE "Skip"

\* The value the keys lead to, made where there is none.
Place(tree, keys) ==
    LET Found(found, key) ==
            IF found.cur = <<>> THEN FlushString(found.tree, <<>>, key, "Key")
            ELSE FlushString(found.tree, found.cur, key, "SubKey")
        Key(found, key) == Once(LAMBDA v : Found(v, key), found)
    IN  FoldLeft(Key, [tree |-> tree, cur |-> <<>>], keys)

Fields(form) ==
    LET Placed(tree, part) ==
            CASE TakenAs(part) = "Var" /\ PartName(part) # <<>> ->
                   Once(LAMBDA v : Put(v.tree, v.cur, Text(part.content)),
                        Place(tree, part.keys))
              [] TakenAs(part) = "FileAsData" ->
                   Put(tree, <<PartName(part)>>,
                       [kind |-> "data", text |-> part.content])
              [] OTHER -> tree
        Add(tree, part) == Once(LAMBDA v : Placed(v, part), tree)
    IN  FoldLeft(Add, NoFields, form)

FileOf(part) ==
    [name |-> PartName(part), type |-> PartType(part), file |-> FileName(part),
     size |-> part.size, content |-> part.content]

FilesIn(form) ==
    LET files_ == SelectSeq(form, LAMBDA part : TakenAs(part) = "File")
    IN  [i \in DOMAIN files_ |-> FileOf(files_[i])]

\* The parts whose delimiters are among the first n units of the body.
PartsIn(form, n) ==
    SubSeq(form, 1, Cardinality({i \in DOMAIN form :
                        Len(EncodedParts(SubSeq(form, 1, i))) + 3 <= n}))
=============================================================================
