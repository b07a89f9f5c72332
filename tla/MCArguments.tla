------------------------------ MODULE MCArguments ------------------------------
(***************************************************************************)
(* Command lines for Arguments: for each program one that is right and the *)
(* empty one, and all that two edits make of them.                         *)
(***************************************************************************)
EXTENDS Arguments, SequencesExt

\* A text that is right for a kind of argument.
Right(kind) == CASE kind = "address" -> Word("address") [] kind = "family" -> Word("AF_INET")
                 [] kind = "type" -> Word("SOCK_STREAM") [] kind = "char" -> Word("c")
                 [] kind \in {"string", "needle"} -> Word("c")
                 [] OTHER -> Number(1, FALSE)

OptionsRight(p) ==
    LET letters == SetToSeq({l \in DOMAIN p.options : p.options[l] # "unhandled"})
    IN  FlattenSeq([i \in DOMAIN letters |->
            IF p.options[letters[i]] = "flag" THEN <<Option(letters[i])>>
            ELSE <<Option(letters[i]), Right(p.options[letters[i]])>>])

Example(p) == OptionsRight(p) \o [i \in 1..Len(p.operands) |-> Right(p.operands[i])]

Edits(s, entries) ==
    {s} \cup {RemoveAt(s, i) : i \in 1..Len(s)}
        \cup {InsertAt(s, i, e) : i \in 1..(Len(s) + 1), e \in entries}
        \cup {ReplaceAt(s, i, e) : i \in 1..Len(s), e \in entries}

Numbers == {Number(n, FALSE) : n \in {-17, -16, -15, -9, -8, -5, -4, -1, 0, 3, 4, 7, 8, 10, 15, 16}}
           \cup {Number(2, TRUE)}
Words   == {Word(""), Word("c"), Word("word"), Word("address"), Word("AF_INET"), Word("SOCK_STREAM")}

\* The entries that change the shape of a command line.
Shape(p) == {Option(l) : l \in {"h", "x"} \cup DOMAIN p.options \cup p.usage.optional}
            \cup {End, Word(""), Word("c"), Number(1, FALSE), Number(-1, FALSE)}

MCArgvs(p) == UNION {Edits(s, Shape(p)) : s \in Edits(Example(p), Shape(p)) \cup Edits(<<>>, Shape(p))}
              \cup Edits(Example(p), Numbers \cup Words)
              \cup Edits(<<End>> \o Example(p), Numbers \cup Words)
===============================================================================
