---------------------------- MODULE MCInputFilter ----------------------------
(* Instances of InputFilter for TLC.                                        *)
EXTENDS InputFilter

Part(keys, content) ==
    [keys |-> keys, quoted |-> FALSE, filename |-> <<>>, type |-> <<>>, size |-> 0,
     other |-> FALSE, content |-> content]

\* A text; a file with all a part may say; what looks like a delimiter.
TextPart == Part(<<<<"a">>>>, <<"x">>)
Named(p) == [p EXCEPT !.quoted = TRUE]
FilePart(content) ==
    [Part(<<<<"f">>>>, content) EXCEPT !.quoted = TRUE, !.filename = <<"p", "q">>,
        !.type = <<"json">>, !.size = Len(content), !.other = TRUE]
Almost == <<"cr", "lf", "-", "-", "cr">>
Long == <<"a", "b", "c", "d", "e", "f">>
In(key, content) == Part(<<<<"a">>, key>>, content)

Of(forms, requirements) ==
    {[form |-> f, required |-> r, lost |-> 0] : f \in forms, r \in requirements}

Damaged == {<<TextPart>>, <<[FilePart(<<>>) EXCEPT !.other = FALSE]>>}

MCRequests ==
    Of({<<TextPart>>, <<Named(TextPart)>>, <<Part(<<<<"a">>>>, Almost)>>,
        <<Part(<<<<"a">>>>, <<"x", "y", "z", "x", "y", "z">>)>>,
        <<Named(Part(<<Long>>, <<"x">>))>>, <<Part(<<Long>>, <<"x">>)>>,
        <<In(<<>>, <<"x">>), In(<<"1">>, <<"y">>)>>,
        <<In(<<"0">>, <<"x">>), In(<<"b">>, <<"y">>)>>,
        <<In(<<"b">>, <<"x">>), TextPart>>}, {{"Data"}})
    \cup Of({<<FilePart(<<>>)>>, <<FilePart(Almost)>>, <<FilePart(<<"cr", "x">>)>>,
             <<[FilePart(<<"x", "y", "z", "x", "y", "z">>) EXCEPT !.size = 0]>>,
             <<[FilePart(<<"x">>) EXCEPT !.type = Long]>>},
            {{"Files"}})
    \cup Of({<<FilePart(<<"x">>), TextPart>>}, {{"Data", "Files"}, {"Data", "FilesAsData"}})
    \cup Of({<<[FilePart(<<"x">>) EXCEPT !.type = <<"png">>]>>},
            {{"Data", "FilesAsData"}, {"FilesAsData", "Body"}})
    \cup {[form |-> f, required |-> {"Data", "Files"}, lost |-> i] :
              <<f, i>> \in UNION {{f} \X DOMAIN EncodedForm(f) : f \in Damaged}}

MCUnits ==
    {"cr", "lf", "-", "B", ":", ";", "=", " ", "[", "]", "quote", "content-",
     "disposition", "form-data", "name", "file", "size", "other", "type", "length",
     "json", "png", "0", "1", "2", "3", "4", "5", "6",
     "a", "b", "c", "d", "e", "f", "p", "q", "x", "y", "z"}

MCDataTypes == {<<"json">>}
MCOthers ==
    {[body |-> b, type |-> t, required |-> r] :
        b \in {<<"x", "y">>, <<"x", "y", "z", "x", "y", "z", "x">>},
        t \in {"Json", "other"}, r \in {{"Data"}, {"Files"}, {"Body"}}}
=============================================================================
