----------------------------- MODULE PieceExport -----------------------------
(***************************************************************************)
(* build without --input: pieces and their files are imported, built into  *)
(* a new script, exported as files and imported from these again.  A piece *)
(* has one file here; header, source and license are files in a row.  The  *)
(* name of a file is a sequence, so that <<"a">> stands for a.hpp and      *)
(* <<"a", 1>> for a_1.hpp, whoever named it.                               *)
(***************************************************************************)
EXTENDS Naturals, Sequences, SequencesExt

CONSTANTS
    FileName,   \* Names of files that are imported.
    Content,    \* What is in them.
    Ascii,      \* The contents of ASCII characters only.
    MaxPieces,  \* Bound: pieces in the script.
    MaxStored   \* Bound: entries of $FILECONTENTS.

ASSUME ContentAssumption == Ascii \subseteq Content /\ {MaxPieces, MaxStored} \subseteq Nat

VARIABLES
    stage,      \* import, number, exported, or off when the run is for --input.
    pieces,     \* $PIECES, in order: the file's name and its key, _stored.
    contents,   \* $FILECONTENTS: entry n is that of key c(n - 1).
    embedded,   \* How many of them came with the script.
    taken,      \* The keys of name2store.
    left,       \* What is left of the collisions.
    store2name,
    directory,  \* The files written.
    listed,     \* The names the exported pieces give for their files.
    meant,      \* History: what was in the file of each piece.
    again       \* History: whether the pieces are those of an export.

exportVars ==
    <<stage, pieces, contents, embedded, taken, left, store2name, directory, listed,
      meant, again>>

ExportInit(first) ==
    /\ stage = first
    /\ pieces = <<>> /\ contents = <<>> /\ embedded = 0
    /\ taken = {} /\ left = <<>> /\ store2name = <<>>
    /\ directory = <<>> /\ listed = <<>>
    /\ meant = <<>> /\ again = FALSE

Least(S) == CHOOSE n \in S : \A m \in S : n <= m

(* load_piece_file: one entry for all files of one content.  What came with *)
(* the script is binary after decode64, so that a text with a character     *)
(* that is not ASCII does not equal it.                                     *)
Found(all, before, c) ==
    {n \in DOMAIN all : all[n] = c /\ (n > before \/ c \in Ascii)}

Loaded(all, before, c) == IF Found(all, before, c) = {} THEN Append(all, c) ELSE all

KeyOf(all, before, c) ==
    IF Found(all, before, c) = {} THEN Len(all) + 1 ELSE Least(Found(all, before, c))

(* A piece more, or one in place of that of its name. *)
Import(i, file, c) ==
    /\ stage = "import" /\ ~again
    /\ Loaded(contents, embedded, c) \in BoundedSeq(Content, MaxStored)
    /\ LET piece == [file |-> file, stored |-> KeyOf(contents, embedded, c)]
       IN  IF i = Len(pieces) + 1
           THEN pieces' = Append(pieces, piece) /\ meant' = Append(meant, c)
           ELSE pieces' = [pieces EXCEPT ![i] = piece] /\ meant' = [meant EXCEPT ![i] = c]
    /\ contents' = Loaded(contents, embedded, c)
    /\ UNCHANGED <<stage, embedded, taken, left, store2name, directory, listed, again>>

(* --build, and then the new script is run. *)
Build ==
    /\ stage = "import" /\ ~again
    /\ embedded' = Len(contents)
    /\ UNCHANGED <<stage, pieces, contents, taken, left, store2name, directory, listed,
                   meant, again>>

----------------------------------------------------------------------------
Distinct(s) ==
    FoldLeft(LAMBDA seen, x : IF x \in Range(seen) THEN seen ELSE Append(seen, x), <<>>, s)

FilesNamed == Distinct([i \in DOMAIN pieces |-> pieces[i].file])

(* name2store[b] *)
StoredAs(b) ==
    LET named == SelectSeq(pieces, LAMBDA p : p.file = b)
    IN  Distinct([i \in DOMAIN named |-> named[i].stored])

Collision(b) ==
    [i \in DOMAIN StoredAs(b) |->
        [file |-> b, stored |-> StoredAs(b)[i], first |-> i = 1]]

(* name2store is filled and the files of one content are written. *)
Export ==
    /\ stage = "import"
    /\ LET collide == SelectSeq(FilesNamed, LAMBDA b : Len(StoredAs(b)) > 1)
       IN  /\ left' = FlattenSeq([i \in DOMAIN collide |-> Collision(collide[i])])
           /\ directory' = [b \in Range(FilesNamed) \ Range(collide) |-> contents[StoredAs(b)[1]]]
    /\ taken' = Range(FilesNamed)
    /\ store2name' = <<>>
    /\ stage' = "number"
    /\ UNCHANGED <<pieces, contents, embedded, listed, meant, again>>

(* The name is free for the first, as it was just deleted from name2store;  *)
(* the next one gets the first number whose name is free.                   *)
FreeName(p) ==
    IF p.first THEN p.file
    ELSE Append(p.file, Least({n \in 1..(Len(pieces) + 1) : Append(p.file, n) \notin taken}))

StaysFree(name) == taken
NowTaken(name) == taken \cup {name}

Number ==
    /\ stage = "number"
    /\ left # <<>>
    /\ LET p == Head(left)
           name == FreeName(p)
       IN  /\ store2name' = (p.stored :> name) @@ store2name
           /\ directory' = (name :> contents[p.stored]) @@ directory
           /\ taken' = NowTaken(name)
    /\ left' = Tail(left)
    /\ UNCHANGED <<stage, pieces, contents, embedded, listed, meant, again>>

(* The pieces' own files and exported.yaml, with the new names. *)
List ==
    /\ stage = "number"
    /\ left = <<>>
    /\ listed' = [i \in DOMAIN pieces |->
                    LET p == pieces[i]
                    IN  IF p.stored \in DOMAIN store2name THEN store2name[p.stored]
                        ELSE p.file]
    /\ stage' = "exported"
    /\ UNCHANGED <<pieces, contents, embedded, taken, left, store2name, directory, meant, again>>

(* --clean --import exported.yaml *)
ImportExported ==
    /\ stage = "exported"
    /\ LET all == Distinct([i \in DOMAIN listed |-> directory[listed[i]]])
       IN  /\ contents' = all
           /\ pieces' = [i \in DOMAIN listed |->
                            [file |-> listed[i], stored |-> KeyOf(all, 0, directory[listed[i]])]]
    /\ embedded' = 0
    /\ taken' = {} /\ store2name' = <<>>
    /\ directory' = <<>> /\ listed' = <<>>
    /\ stage' = "import"
    /\ again' = TRUE
    /\ UNCHANGED <<left, meant>>

ExportStep ==
    \/ \E i \in 1..MaxPieces, file \in FileName, c \in Content :
            i <= Len(pieces) + 1 /\ Import(i, file, c)
    \/ Build \/ Export \/ Number \/ List \/ ImportExported

----------------------------------------------------------------------------
(* test/samename.sh and test/export.sh: the file that an exported piece     *)
(* names has what was imported for it, however many share its name or have  *)
(* one that looks numbered, and what was exported, imported and exported    *)
(* again has the same names.                                                *)
ExportIsImportable ==
    stage = "exported" =>
        \A i \in DOMAIN pieces :
            /\ listed[i] \in DOMAIN directory
            /\ directory[listed[i]] = meant[i]
            /\ again => listed[i] = pieces[i].file
=============================================================================
