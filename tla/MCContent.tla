------------------------------ MODULE MCContent -----------------------------
(* Instances of the blocks of Content for TLC, each the smallest in which  *)
(* the races of its block happen.                                          *)
EXTENDS Content

\* IngestRouter: one key of a routed kind and one that no route takes.
MCRoutes == [k \in Uploads |-> IF k = 1 THEN {"tag", "rag"} ELSE {}]
MCTooBig == {<<2, 2>>}

\* Csv: cells of every character class, alone and in the pairs that quoting must survive.
MCSheets ==
    LET Cells == {<< >>, <<"a">>, <<"b">>, <<"1">>, <<"q">>, <<",">>, <<"r">>, <<"n">>}
        Odd == {<<"q", "q">>, <<"r", "n">>, <<"1", "q">>, <<"q", ",">>, <<"n", "r">>}
        Rows == UNION {[1..c -> Cells] : c \in 1..2}
    IN  UNION {[1..r -> Rows] : r \in 1..2}
        \union {<<<<t>>, <<u, v>>>> : t, u, v \in Odd}
        \union {<<<<<<"a">>, <<"b">>>>, r, s>> :
                   r \in Rows, s \in {<<<< >>>>, <<<<"1">>>>, <<<<"1">>, <<"b">>>>}}
MCColumnMap == [h \in {<<"a">>, <<"b">>} |->
                   IF h = <<"a">>
                   THEN [column |-> "x", type |-> "int", required |-> TRUE,
                         hasDefault |-> FALSE, default |-> << >>]
                   ELSE [column |-> "y", type |-> "bool", required |-> FALSE,
                         hasDefault |-> TRUE, default |-> <<"0">>]]

\* CsvImport: version 1 has errors, version 3 no known header, version 4 one key twice.
MCValid == <<2, 1, 1, 1>>
MCInvalid == <<2, 0, 1, 1>>

\* ImageDerivatives: two sources whose derivatives would share a name.
MCContents == [k \in Sources |-> IF k = 1 THEN 1..2 ELSE {1}]
MCBaseName == [k \in Sources |-> "a"]

\* RagIngest: a document with two texts, cut by two models into unlike numbers of chunks.
MCTexts == {<<1, 1>>, <<1, 2>>, <<2, 1>>}
MCTooLarge == <<{}, {2}>>
MCChunkCount == <<[c \in 1..2 |-> c], [c \in 1..2 |-> 3 - c]>>

\* Vision: an image, and a key with an image's extension that is none.
MCListing == <<"a", "b">>
MCKind == [k \in PhotoKeys |-> IF k = "b" THEN "other" ELSE "image"]

\* Moderation: an image and another object; scores that let through, ask and block.
MCBase == [k \in Objects |-> k]
MCBlockAt == [violence |-> 8]

=============================================================================
