----------------------------- MODULE MCGenerator -----------------------------
(* The pieces that build.yaml lists, with what pieces/*.yaml say of each.   *)
EXTENDS Script

MCNames ==
    <<"Bool", "ContainerStdVector", "ContainerStdVectorEqSize", "Double",
      "Exception", "Float", "Int16", "Int32", "Int64", "Int8",
      "ParseArrayContainer", "ParseInteger", "ParseObject", "ParserPool",
      "StdVector", "String", "UInt16", "UInt32", "UInt64", "UInt8",
      "ValueParser", "writeBool", "writeDouble", "writeFloat",
      "writeForwardIterator", "writeInt16", "writeInt32", "writeInt64",
      "writeInt8", "writePointer", "writeScalarType", "writeStdVector",
      "writeString", "writeUInt16", "writeUInt32", "writeUInt64",
      "writeUInt8">>

MCWriters ==
    {"writeBool", "writeDouble", "writeFloat", "writeForwardIterator",
     "writeInt16", "writeInt32", "writeInt64", "writeInt8",
     "writePointer", "writeScalarType", "writeStdVector", "writeString",
     "writeUInt16", "writeUInt32", "writeUInt64", "writeUInt8"}

MCScalars == Range(MCNames) \ {"writeForwardIterator", "writePointer", "writeStdVector"}

MCPooled ==
    {"Bool", "Double", "Float", "Int16", "Int32", "Int64", "Int8",
     "String", "UInt16", "UInt32", "UInt64", "UInt8"}

MCExternals == MCPooled \cup {"ContainerStdVector", "ContainerStdVectorEqSize", "StdVector"}

MCRequires ==
    [n \in Range(MCNames) |->
        CASE n \in {"Int16", "Int32", "Int64", "Int8", "UInt16", "UInt32",
                   "UInt64", "UInt8"} ->
                {"ValueParser", "ParseInteger"}
          [] n \in {"writeInt16", "writeInt32", "writeInt64", "writeInt8",
                   "writeUInt16", "writeUInt32", "writeUInt64",
                   "writeUInt8"} ->
                {"writeScalarType"}
          [] n \in {"Bool", "Double", "Float", "ParseArrayContainer",
                   "ParseObject", "String"} ->
                {"ValueParser", "Exception"}
          [] n \in {"ContainerStdVector", "ContainerStdVectorEqSize",
                   "StdVector"} ->
                {"ParseArrayContainer"}
          [] n \in {"ParseInteger", "writeString"} ->
                {"Exception"}
          [] n \in {"writeDouble", "writeFloat"} ->
                {"Exception", "writeScalarType"}
          [] n = "ValueParser" ->
                {"ParserPool"}
          [] n = "writeForwardIterator" ->
                {"writePointer"}
          [] n = "writeStdVector" ->
                {"writeForwardIterator", "writePointer"}
          [] OTHER -> {}]

Format ==
    {<<n>> : n \in {"Bool", "Double", "Int8", "UInt64", "String"}} \cup
    {<<"StdVector", "Float">>, <<"ContainerStdVector", "StdVector", "Int8">>,
     <<"ValueParser">>, <<"Missing">>}

Specification(types, generate, requires, full) ==
    [types |-> types, generate |-> generate, requires |-> requires, full |-> full]

FieldOf(formats) ==
    [format : formats, required : BOOLEAN, checker : BOOLEAN, accessor : BOOLEAN]

OneField(formats) == {<<f>> : f \in FieldOf(formats)}

RequiredFields == BoundedSeq([format : Format, required : {TRUE},
                              checker : {FALSE}, accessor : {TRUE}], 2)

(* Fields that differ in what a Write function does with them. *)
WrittenFields == BoundedSeq([format : {<<"Bool">>}, required : BOOLEAN,
                             checker : {TRUE}, accessor : {TRUE}], 4)

Types(fields) == [{"Foo"} -> fields]

Made(parser, writer) == "Foo" :> [parser |-> parser, writer |-> writer]

(* Types that are read, with every format, one specification in full.       *)
Reading ==
    {Specification(t, Made(TRUE, FALSE), {}, FALSE) : t \in Types(RequiredFields)}
    \cup {Specification(t, Made(TRUE, TRUE), {}, TRUE) : t \in Types(OneField({<<"Int8">>}))}

(* Types that are written, by a program that reads a Bool too. *)
Writing ==
    {Specification(t, Made(FALSE, TRUE), {"Bool"}, FALSE) :
        t \in Types(WrittenFields \cup OneField({<<"Bool">>}))}

RequiredPieces ==
    {s \in SUBSET {"Bool", "Float", "Int32", "String", "StdVector", "ContainerStdVector"} :
        s \cap MCPooled # {}}

(* Pieces without types, and a type not asked for or not there.             *)
Bare ==
    {Specification(<<>>, <<>>, r, FALSE) : r \in RequiredPieces}
    \cup {Specification(<<>>, <<>>, r, TRUE) : r \in {{}, {"StdVector"}}}
    \cup {Specification(t, <<>>, {}, FALSE) : t \in Types(OneField({<<"Missing">>}))}
    \cup {Specification(<<>>, Made(TRUE, FALSE), {}, FALSE)}
    \cup {Specification([n \in {"Foo", "Bar"} |-> <<>>], Made(FALSE, TRUE), {"Bool"}, FALSE)}

MCSpecifications == Reading \cup Writing \cup Bare

(* A type that is only written, in a specification that reads nothing. *)
MCWriterOnly ==
    {Specification(t, Made(FALSE, TRUE), {}, FALSE) : t \in Types(WrittenFields)}

(* Two files a.hpp with another a_1.hpp. *)
MCFileName == {<<"a">>, <<"a", 1>>}
=============================================================================
