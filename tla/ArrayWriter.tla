----------------------------- MODULE ArrayWriter -----------------------------
(***************************************************************************)
(* The Write of a std::vector of vectors of numbers: Write for a range,    *)
(* for each element again and for each number WriteScalarType, with the    *)
(* Buffer that all calls share and that grows when a number does not fit.  *)
(***************************************************************************)
EXTENDS Naturals, Sequences

VARIABLES
    vector,     \* The value to write.
    path,       \* The elements whose Write runs: <<>>, <<i>> or, of i, <<i, j>>.
    chars,      \* Buffer.
    sink,       \* What S.write was given.
    writing     \* idle, range: at its loop; element: before its *Begin; written.

writerVars == <<vector, path, chars, sink, writing>>

WriterInit ==
    /\ vector = <<>>
    /\ path = <<>>
    /\ chars = <<>>
    /\ sink = <<>>
    /\ writing = "idle"

(* A caller keeps its Buffer from one value to the next. *)
Write(v) ==
    /\ writing = "idle"
    /\ vector' = v
    /\ path' = <<0>>
    /\ sink' = <<"[">>
    /\ writing' = "range"
    /\ UNCHANGED chars

(* The range that Begin of the innermost call is in, and Begin's place. *)
InnerRange == IF Len(path) = 1 THEN vector ELSE vector[path[1]]
At == path[Len(path)]
UpTo(i) == [path EXCEPT ![Len(path)] = i]

----------------------------------------------------------------------------
CommaAlways == Append(sink, ",")
CommaBetween == IF At = 0 THEN sink ELSE Append(sink, ",")

NextElement ==
    /\ writing = "range"
    /\ At < Len(InnerRange)
    /\ sink' = CommaBetween
    /\ path' = UpTo(At + 1)
    /\ writing' = "element"
    /\ UNCHANGED <<vector, chars>>

WriteInner ==
    /\ writing = "element"
    /\ Len(path) = 1
    /\ sink' = Append(sink, "[")
    /\ path' = <<path[1], 0>>
    /\ writing' = "range"
    /\ UNCHANGED <<vector, chars>>

EndRange ==
    /\ writing = "range"
    /\ At = Len(InnerRange)
    /\ sink' = Append(sink, "]")
    /\ IF Len(path) = 1
       THEN writing' = "written" /\ UNCHANGED path
       ELSE path' = <<path[1]>> /\ UNCHANGED writing
    /\ UNCHANGED <<vector, chars>>

----------------------------------------------------------------------------
(* snprintf puts what fits before a terminating zero, of a number that is   *)
(* its digits here, and leaves the rest of the buffer as it was.            *)
Printed(digits, size) ==
    [i \in 1..size |->
        IF i <= Len(digits) /\ i < size THEN digits[i]
        ELSE IF i <= Len(digits) + 1 THEN "zero" ELSE chars[i]]

JustTooSmall(size, count) == size < count
TooSmall(size, count) == size <= count

WriteScalarType ==
    LET digits == vector[path[1]][path[2]]
        count == Len(digits)
        size == IF TooSmall(Len(chars), count) THEN count + 1 ELSE Len(chars)
    IN  /\ writing = "element"
        /\ Len(path) = 2
        /\ chars' = Printed(digits, size)
        /\ sink' = sink \o SubSeq(chars', 1, count)
        /\ writing' = "range"
        /\ UNCHANGED <<vector, path>>

WriterStep == NextElement \/ WriteInner \/ EndRange \/ WriteScalarType
=============================================================================
