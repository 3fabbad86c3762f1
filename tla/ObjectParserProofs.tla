-------------------------- MODULE ObjectParserProofs --------------------------
(***************************************************************************)
(* Theorems of ObjectParser and ObjectTexts for every set of fields, every *)
(* alphabet and every bound: the types, that the pool's buffer never       *)
(* serves two parsers at once, where the parser stops between two calls,   *)
(* that it implements RecordBuilder, that a finished object is the text    *)
(* that was read, and, where the keys tell the fields apart, that only a   *)
(* text is refused with which no object begins.  Then those of ReadParse,  *)
(* for every file and every size of its blocks too: nothing is lost        *)
(* between read and the parser, and what main gets is what the file says.  *)
(***************************************************************************)
EXTENDS ReadParse, ArrayParserProofs

(* Below an array field of the object, what CallInv says is ArrayInv. *)
LEMMA CallInvInArray ==
    ASSUME InArray
    PROVE  /\ Reads("string") <=> ItemKind = "string"
           /\ Reads("number") <=> ItemKind = "number"
BY DEF InArray, Reads

(* Type() is a value of every field. *)
LEMMA NothingGivenType ==
    /\ DOMAIN NothingGiven = Field
    /\ \A f \in Field : NothingGiven[f] \in [given : BOOLEAN, value : ValueOf(f)]
<1> SUFFICES ASSUME NEW f \in Field
             PROVE  NothingGiven[f] \in [given : BOOLEAN, value : ValueOf(f)]
  BY DEF NothingGiven
<1>1. Kind[f] \in {"string", "number", "array"}  BY FieldAssumption DEF Scalar
<1>2. <<>> \in ValueOf(f)  BY <1>1, EmptyIsSeq DEF ValueOf
<1> QED  BY <1>2 DEF NothingGiven

(* What pairs may hold. *)
Kept == UNION {[field : {f}, value : ValueOf(f)] : f \in Field}

LEMMA KeptIs ==
    /\ \A f \in Field : \A v \in ValueOf(f) : [field |-> f, value |-> v] \in Kept
    /\ \A p \in Kept : p \in [field : Field, value : ValueOf(p.field)]
    /\ \A p : p \in [field : Field, value : ValueOf(p.field)] => p \in Kept
BY DEF Kept

LEMMA PairsAreKept == PairsTypeOK <=> pairs \in Seq(Kept)
<1>1. ASSUME PairsTypeOK PROVE pairs \in Seq(Kept)
  <2>1. \A i \in DOMAIN pairs : pairs[i] \in Kept  BY <1>1, KeptIs DEF PairsTypeOK
  <2>2. pairs \in Seq({pairs[i] : i \in DOMAIN pairs})  BY <1>1 DEF PairsTypeOK
  <2>3. {pairs[i] : i \in DOMAIN pairs} \subseteq Kept  BY <2>1
  <2> QED  BY <2>2, <2>3, SeqOfSubset
<1>2. ASSUME pairs \in Seq(Kept) PROVE PairsTypeOK
  <2>1. \A i \in DOMAIN pairs : pairs[i] \in Kept  BY <1>2
  <2>2. pairs \in Seq({pairs[i] : i \in DOMAIN pairs})  BY <1>2
  <2> QED  BY <2>1, <2>2, KeptIs DEF PairsTypeOK
<1> QED  BY <1>1, <1>2

LEMMA PairsAreKeptNext == PairsTypeOK' <=> pairs' \in Seq(Kept)
<1>1. (PairsTypeOK <=> pairs \in Seq(Kept))'  BY PairsAreKept, PTL
<1> QED  BY <1>1

(* Another pair, or none at all, keeps the type of pairs. *)
LEMMA PairsGrow ==
    /\ PairsTypeOK => \A f \in Field : \A v \in ValueOf(f) :
            pairs' = Append(pairs, [field |-> f, value |-> v]) => PairsTypeOK'
    /\ pairs' = <<>> => PairsTypeOK'
    /\ PairsTypeOK /\ UNCHANGED pairs => PairsTypeOK'
<1>1. ASSUME PairsTypeOK, NEW f \in Field, NEW v \in ValueOf(f),
             pairs' = Append(pairs, [field |-> f, value |-> v])
      PROVE  PairsTypeOK'
  BY <1>1, KeptIs, PairsAreKept, PairsAreKeptNext, AppendIsSeq
<1>2. ASSUME pairs' = <<>> PROVE PairsTypeOK'
  BY <1>2, PairsAreKeptNext, EmptyIsSeq
<1> QED  BY <1>1, <1>2, PairsAreKept, PairsAreKeptNext

LEMMA InitialState == Init => ControlInv
<1> SUFFICES ASSUME Init PROVE ControlInv
  OBVIOUS
<1> USE DEF Init, PoolInit, NewArray
<1>1. PoolTypeOK  BY DEF PoolTypeOK
<1>2. ArrayTypeOK  BY DEF ArrayTypeOK
<1>3. PairsTypeOK  BY PairsAreKept, EmptyIsSeq
<1>4. TypeOK  BY <1>1, <1>2, <1>3, NothingGivenType DEF TypeOK, State
<1>5. PoolInv  BY DEF PoolInv, StringBusy, NumberBusy, ScalarFrame
<1>6. CallInv  BY DEF CallInv, ArrayFrame, StringBusy, NumberBusy
<1>7. StageInv
  BY DEF StageInv, InArray, ArrayFrame, ScalarFrame, StringBusy, NumberBusy
<1> QED  BY <1>4, <1>5, <1>6, <1>7 DEF ControlInv

(* The object's own steps keep the types. *)
LEMMA ObjectKeepsTypes ==
    ASSUME ControlInv, frame # "failed", ObjectStep
    PROVE  TypeOK'
<1>a. PoolTypeOK /\ ArrayTypeOK /\ PairsTypeOK /\ PoolInv /\ CallInv
  BY DEF ControlInv, TypeOK
<1>b. {"{", "}", ":", ",", Blank, Nul} \subseteq Char  BY DEF Char, Mark
<1>c. EntryFrame("string") \in ScalarFrame  BY DEF EntryFrame, ScalarFrame
<1>d. ASSUME NEW f PROVE ValueFrame(f) \in ScalarFrame \cup ArrayFrame
  BY DEF ValueFrame, EntryFrame, ScalarFrame, ArrayFrame
<1>e. Solid \subseteq Char  BY DEF Solid
<1>f. NoField \in Field \cup {NoField}  OBVIOUS
<1>g. UNCHANGED pairs => PairsTypeOK'  BY <1>a, PairsGrow
<1> USE <1>a, <1>b, <1>c, <1>d, <1>e, <1>f, <1>g
    DEF ControlInv, TypeOK, State, PoolTypeOK, InObject, ReturnTo, Throw, ObjectNeedsMore, objectVars, kept
<1>1. CASE SkipObjectBlank
  <2>1. text' \in Seq(Char \cup {Gap}) /\ look' \in Char \cup {Unread, EndOfChunk}
    BY <1>1, SkipKeepsTypes DEF SkipObjectBlank
  <2> QED  BY <1>1, <2>1 DEF SkipObjectBlank, ArrayTypeOK
<1>2. CASE EndObjectChunk
  <2>1. text' \in Seq(Char \cup {Gap}) /\ look' \in Char \cup {Unread, EndOfChunk}
    BY <1>2, SkipKeepsTypes DEF EndObjectChunk
  <2> QED  BY <1>2, <2>1 DEF EndObjectChunk, ArrayTypeOK
<1>3. CASE WaitForParser  BY <1>3 DEF WaitForParser, ArrayTypeOK
<1>4. CASE OpenObject
  <2>1. CASE look = "{"  BY <1>4, <2>1, AdvanceKeepsTypes DEF OpenObject, ArrayTypeOK
  <2>2. CASE look # "{"  BY <1>4, <2>2 DEF OpenObject, ArrayTypeOK
  <2> QED  BY <2>1, <2>2
<1>5. CASE ReadKey  BY <1>5 DEF ReadKey, ArrayTypeOK
<1>6. CASE TakeKey
  <2> DEFINE named == {f \in Field : Key[f] = string.value}
  <2>1. CASE named = {}  BY <1>6, <2>1 DEF TakeKey, ArrayTypeOK
  <2>2. CASE named # {}
    <3>1. First(named) \subseteq Field  BY DEF First
    <3> QED  BY <1>6, <2>2, <3>1 DEF TakeKey, ArrayTypeOK
  <2> QED  BY <2>1, <2>2
<1>7. CASE ReadColon
  <2>1. CASE look = ":"  BY <1>7, <2>1, AdvanceKeepsTypes DEF ReadColon, ArrayTypeOK
  <2>2. CASE look # ":"  BY <1>7, <2>2 DEF ReadColon, ArrayTypeOK
  <2> QED  BY <2>1, <2>2
<1>8. CASE ReadValue  BY <1>8 DEF ReadValue, ArrayTypeOK
<1>9. CASE ResumeValue  BY <1>9 DEF ResumeValue, ArrayTypeOK
<1>10. CASE KeepValue
  <2>1. active \in Field /\ state = "ExpectValue"  BY <1>10 DEF KeepValue, CallInv
  <2>2. Kind[active] \in {"string", "number", "array"}
    BY <2>1, FieldAssumption DEF Scalar
  <2>3. out[active].value \in ValueOf(active)  BY <2>1
  <2>4. ASSUME NEW v \in ValueOf(active),
               out' = [out EXCEPT ![active] = [given |-> TRUE, value |-> v]],
               pairs' = Append(pairs, [field |-> active, value |-> v])
        PROVE  /\ DOMAIN out' = Field
               /\ \A f \in Field : out'[f] \in [given : BOOLEAN, value : ValueOf(f)]
               /\ PairsTypeOK'
    BY <2>1, <2>4, PairsGrow
  <2>5. CASE Kind[active] = "string"
    <3>1. ValueOf(active) = Seq(Char)  BY <2>5 DEF ValueOf
    <3>2. string.value \in ValueOf(active)  BY <3>1
    <3>3. string' \in [finished : BOOLEAN, value : Seq(Char)]
      BY <1>10, <2>3, <2>5, <3>1 DEF KeepValue
    <3> QED  BY <1>10, <2>4, <2>5, <3>2, <3>3 DEF KeepValue, ArrayTypeOK
  <2>6. CASE Kind[active] = "number"
    <3>1. ValueOf(active) = Seq(Digit)  BY <2>6 DEF ValueOf
    <3>2. number.value \in ValueOf(active)  BY <3>1
    <3>3. number' \in [finished : BOOLEAN, value : Seq(Digit)]
      BY <1>10, <2>3, <2>6, <3>1 DEF KeepValue
    <3> QED  BY <1>10, <2>4, <2>6, <3>2, <3>3 DEF KeepValue, ArrayTypeOK
  <2>7. CASE Kind[active] = "array"
    <3>1. ValueOf(active) = Seq(Seq(Char))  BY <2>7 DEF ValueOf
    <3>2. array.out \in ValueOf(active)  BY <3>1 DEF ArrayTypeOK
    <3>3. <<>> \in Seq(Seq(Char))  BY EmptyIsSeq
    <3>4. ASSUME NEW s \in Seq(Seq(Char))
          PROVE  [array EXCEPT !.out = s] \in [out : Seq(Seq(Char)), began : BOOLEAN,
                                              expect : BOOLEAN, finished : BOOLEAN]
      BY DEF ArrayTypeOK
    <3>5. ArrayTypeOK'  BY <1>10, <2>7, <3>3, <3>4 DEF KeepValue, ArrayTypeOK
    <3> QED  BY <1>10, <2>4, <2>7, <3>2, <3>5 DEF KeepValue
  <2> QED  BY <2>2, <2>5, <2>6, <2>7
<1>11. CASE NextPair
  <2>1. CASE look = ","  BY <1>11, <2>1, AdvanceKeepsTypes DEF NextPair, ArrayTypeOK
  <2>2. CASE look # ","  BY <1>11, <2>2 DEF NextPair, ArrayTypeOK
  <2> QED  BY <2>1, <2>2
<1>12. CASE CloseObject
  <2>1. text' \in Seq(Char \cup {Gap}) /\ look' \in Char \cup {Unread, EndOfChunk}
    BY <1>12, AdvanceKeepsTypes DEF CloseObject
  <2>2. CASE Missing = {}  BY <1>12, <2>1, <2>2 DEF CloseObject, ArrayTypeOK
  <2>3. CASE Missing # {}  BY <1>12, <2>1, <2>3 DEF CloseObject, ArrayTypeOK
  <2> QED  BY <2>2, <2>3
<1>13. CASE InArray /\ ArrayStep("object") /\ UNCHANGED objectVars
  <2>1. PoolTypeOK' /\ ArrayTypeOK'
        /\ frame' \in ScalarFrame \cup ArrayFrame \cup {"object", "failed"}
    BY <1>13, ArrayKeepsTypes
  <2> QED  BY <1>13, <2>1
<1>14. CASE ~InArray /\ ScalarStep("object") /\ UNCHANGED <<array, objectVars>>
  <2>1. PoolTypeOK' /\ frame' \in ScalarFrame \cup {"object", "failed"}
    BY <1>14, ScalarKeepsTypes
  <2> QED  BY <1>14, <2>1 DEF ArrayTypeOK
<1> QED
  BY <1>1, <1>2, <1>3, <1>4, <1>5, <1>6, <1>7, <1>8, <1>9, <1>10, <1>11, <1>12, <1>13,
     <1>14 DEF ObjectStep

(* The object's own steps, exceptions aside, keep the pool in order. *)
LEMMA ObjectKeepsPool ==
    ASSUME ControlInv, frame # "failed", ObjectStep, frame' # "failed"
    PROVE  PoolInv' /\ CallInv'
<1>a. TypeOK /\ PoolTypeOK /\ ArrayTypeOK /\ PoolInv /\ CallInv  BY DEF ControlInv, TypeOK
<1>b. ItemKind = "string" \/ ItemKind = "number"  BY ItemAssumption DEF Scalar
<1>c. \A f \in Field : Kind[f] = "string" \/ Kind[f] = "number" \/ Kind[f] = "array"
  BY FieldAssumption DEF Scalar
<1> USE <1>a, <1>b, <1>c
    DEF PoolInv, CallInv, Reads, InArray, StringBusy, NumberBusy, ScalarFrame, ArrayFrame,
        InObject, ReturnTo, Throw, ObjectNeedsMore, objectVars, kept
<1>1. CASE SkipObjectBlank  BY <1>1 DEF SkipObjectBlank
<1>2. CASE EndObjectChunk  BY <1>2 DEF EndObjectChunk
<1>3. CASE WaitForParser  BY <1>3 DEF WaitForParser
<1>4. CASE OpenObject  BY <1>4 DEF OpenObject
<1>5. CASE ReadKey  BY <1>5 DEF ReadKey, EntryFrame
<1>6. CASE TakeKey  BY <1>6 DEF TakeKey, First
<1>7. CASE ReadColon  BY <1>7 DEF ReadColon
<1>8. CASE ReadValue
  <2> USE <1>8 DEF ReadValue, ValueFrame, EntryFrame
  <2>1. activating \in Field /\ ~StringBusy /\ ~NumberBusy  OBVIOUS
  <2>2. CASE Kind[activating] = "string"
    <3>1. frame' = "stringStart" /\ ret' = "none"  BY <2>1, <2>2
    <3>2. ~NumberBusy' /\ string'.finished /\ number'.finished /\ buffer' = <<>>
      BY <2>1, <3>1
    <3> QED  BY <2>1, <2>2, <3>1, <3>2
  <2>3. CASE Kind[activating] = "number"
    <3>1. frame' = "number" /\ ret' = "none"  BY <2>1, <2>3
    <3>2. ~StringBusy' /\ string'.finished /\ number'.finished /\ buffer' = <<>>
      BY <2>1, <3>1
    <3>3. Reads("number")'  BY <2>3
    <3>4. PoolInv'  BY <3>1, <3>2, EmptyIsSeq
    <3> QED  BY <2>1, <2>3, <3>1, <3>2, <3>3, <3>4
  <2>4. CASE Kind[activating] = "array"
    <3>1. frame' = "array" /\ ret' = "none"  BY <2>1, <2>4
    <3>2. ~NumberBusy' /\ ~StringBusy' /\ buffer' = <<>>  BY <2>1, <3>1
    <3>3. string.finished /\ number.finished /\ scan' = <<>>  BY <2>1
    <3>4. InArray'  BY <2>4
    <3> QED  BY <2>1, <3>1, <3>2, <3>3, <3>4
  <2> QED  BY <2>1, <2>2, <2>3, <2>4
<1>9. CASE ResumeValue
  <2> USE <1>9 DEF ResumeValue, ValueFrame, EntryFrame
  <2>1. active \in Field  OBVIOUS
  <2>2. CASE Kind[active] = "string"
    <3>1. ~NumberBusy /\ number.finished  BY <2>1, <2>2
    <3>2. CASE string.finished  BY <2>1, <2>2, <3>1, <3>2
    <3>3. CASE ~string.finished  BY <2>1, <2>2, <3>1, <3>3
    <3> QED  BY <3>2, <3>3
  <2>3. CASE Kind[active] = "number"
    <3>1. ~StringBusy /\ string.finished  BY <2>1, <2>3
    <3>2. CASE number.finished
      <4>1. frame' = "number" /\ buffer' = <<>>  BY <2>3, <3>1, <3>2
      <4>2. PoolInv'  BY <3>1, <3>2, <4>1, EmptyIsSeq
      <4>3. CallInv'  BY <2>1, <2>3, <3>1, <3>2, <4>1
      <4> QED  BY <4>2, <4>3
    <3>3. CASE ~number.finished  BY <2>1, <2>3, <3>1, <3>3
    <3> QED  BY <3>2, <3>3
  <2>4. CASE Kind[active] = "array"
    <3>1. frame' = "array" /\ ret' = "none"  BY <2>1, <2>4
    <3>2. (NumberBusy' <=> NumberBusy) /\ (StringBusy' <=> StringBusy)
      BY <2>1, <3>1
    <3>3. InArray' /\ InArray  BY <2>4
    <3>4. PoolInv'  BY <3>1, <3>2
    <3>5. CallInv'  BY <2>1, <2>4, <3>1, <3>2, <3>3
    <3> QED  BY <3>4, <3>5
  <2> QED  BY <2>1, <2>2, <2>3, <2>4
<1>10. CASE KeepValue
  <2>1. string'.finished /\ number'.finished /\ buffer' = <<>>
    BY <1>10 DEF KeepValue, PoolTypeOK
  <2> QED  BY <1>10, <2>1 DEF KeepValue
<1>11. CASE NextPair  BY <1>11 DEF NextPair
<1>12. CASE CloseObject  BY <1>12 DEF CloseObject
<1>13. CASE InArray /\ ArrayStep("object") /\ UNCHANGED objectVars
  <2>1. ArrayInv  BY <1>13 DEF ArrayInv
  <2>2. PoolInv' /\ ArrayInv'  BY <1>13, <2>1, ArrayKeepsPool
  <2> QED  BY <1>13, <2>2 DEF ArrayInv
<1>14. CASE ~InArray /\ ScalarStep("object") /\ UNCHANGED <<array, objectVars>>
  <2>1. PoolInv' /\ (StringBusy' => StringBusy \/ frame = "stringStart")
                 /\ (NumberBusy' => NumberBusy)
    BY <1>14, ScalarKeepsPool
  <2>2. frame' \in ScalarFrame \cup {"object"}  BY <1>14, ScalarKeepsTypes
  <2>3. frame' = "stringStart" => frame = "stringStart"
    BY <1>14 DEF ScalarStep, StringStart, StringChar, StringInvalid, StringClose, StringEnd,
       NumberDigit, NumberDirect, NumberInvalid, NumberEnd, NumberRestDone
  <2> QED  BY <1>14, <2>1, <2>2, <2>3
<1> QED
  BY <1>1, <1>2, <1>3, <1>4, <1>5, <1>6, <1>7, <1>8, <1>9, <1>10, <1>11, <1>12, <1>13,
     <1>14 DEF ObjectStep

(* The object's own steps, exceptions aside, keep its stages in order. *)
LEMMA ObjectKeepsStage ==
    ASSUME ControlInv, frame # "failed", ObjectStep, frame' # "failed"
    PROVE  StageInv'
<1>a. TypeOK /\ PoolTypeOK /\ ArrayTypeOK /\ PoolInv /\ CallInv /\ StageInv
  BY DEF ControlInv, TypeOK
<1>b. \A c \in {"{", "}", ":", ",", "[", "]", Blank, Nul} : c \in Char
  BY DEF Char, Mark
<1>c. Digit \subseteq Char /\ Quote \in Char  BY DEF Char
<1>d. Advance /\ look \in Char => text' # <<>>  BY <1>a, AdvanceFillsText
<1>e. Skip /\ text # <<>> => text' # <<>>  BY <1>a, SkipKeepsText
<1> USE <1>a, <1>b
    DEF TypeOK, ArrayTypeOK, PoolInv, CallInv, StageInv, Reads, InArray, StringBusy,
        NumberBusy, ScalarFrame, ArrayFrame, InObject, ReturnTo, Throw, ObjectNeedsMore,
        objectVars, kept
<1>1. CASE SkipObjectBlank  BY <1>1, <1>e DEF SkipObjectBlank
<1>2. CASE EndObjectChunk  BY <1>2, <1>e DEF EndObjectChunk
<1>3. CASE WaitForParser  BY <1>3 DEF WaitForParser
<1>4. CASE OpenObject  BY <1>4, <1>d DEF OpenObject
<1>5. CASE ReadKey  BY <1>5 DEF ReadKey, EntryFrame
<1>6. CASE TakeKey  BY <1>6 DEF TakeKey
<1>7. CASE ReadColon  BY <1>7, <1>d DEF ReadColon
<1>8. CASE ReadValue  BY <1>8 DEF ReadValue, ValueFrame, EntryFrame
<1>9. CASE ResumeValue  BY <1>9 DEF ResumeValue, ValueFrame, EntryFrame
<1>10. CASE KeepValue  BY <1>10 DEF KeepValue
<1>11. CASE NextPair  BY <1>11, <1>d DEF NextPair
<1>12. CASE CloseObject  BY <1>12, <1>d DEF CloseObject
<1>13. CASE InArray /\ ArrayStep("object") /\ UNCHANGED objectVars
  <2> USE <1>13 DEF ArrayNeedsMore
  <2>1. CASE ResumeItem
    BY <2>1 DEF ResumeItem, ArrayResumesItem, EntryFrame, Finished
  <2>2. CASE OpenArray  BY <2>2, <1>d DEF OpenArray, ArrayBegins, Finished
  <2>3. CASE ResumeArray
    BY <2>3 DEF ResumeArray, ArrayResumes, ResumedFrame, Finished
  <2>4. CASE SkipArrayBlank  BY <2>4, <1>e DEF SkipArrayBlank, ArraySkips
  <2>5. CASE EndArrayChunk("object")  BY <2>5, <1>e DEF EndArrayChunk, ArraySkips
  <2>6. CASE CloseArray("object")  BY <2>6, <1>d DEF CloseArray, ArraySkips
  <2>7. CASE ReadItem  BY <2>7 DEF ReadItem, ArraySkips, EntryFrame
  <2>8. CASE KeepItem  BY <2>8 DEF KeepItem
  <2>9. CASE WaitForItem("object")  BY <2>9 DEF WaitForItem
  <2>10. CASE Separate  BY <2>10, <1>d DEF Separate
  <2>11. CASE ScalarStep("arrayLoop") /\ UNCHANGED array
    <3>1. text # <<>> => text' # <<>>  BY <2>11, ScalarKeepsText
    <3>2. frame' \in ScalarFrame \cup {"arrayLoop"}  BY <2>11, ScalarKeepsTypes
    <3>3. frame \in ScalarFrame
      BY <2>11 DEF ScalarStep, StringStart, StringChar, StringInvalid, StringClose, StringEnd,
         NumberDigit, NumberDirect, NumberInvalid, NumberEnd, NumberRestDone
    <3> QED  BY <2>11, <3>1, <3>2, <3>3
  <2> QED
    BY <2>1, <2>2, <2>3, <2>4, <2>5, <2>6, <2>7, <2>8, <2>9, <2>10, <2>11 DEF ArrayStep
<1>14. CASE ~InArray /\ ScalarStep("object") /\ UNCHANGED <<array, objectVars>>
  <2>1. text # <<>> => text' # <<>>  BY <1>14, ScalarKeepsText
  <2>2. frame' \in ScalarFrame \cup {"object"}  BY <1>14, ScalarKeepsTypes
  <2>3. frame \in ScalarFrame
    BY <1>14 DEF ScalarStep, StringStart, StringChar, StringInvalid, StringClose, StringEnd,
       NumberDigit, NumberDirect, NumberInvalid, NumberEnd, NumberRestDone
  <2> QED  BY <1>14, <2>1, <2>2, <2>3
<1> QED
  BY <1>1, <1>2, <1>3, <1>4, <1>5, <1>6, <1>7, <1>8, <1>9, <1>10, <1>11, <1>12, <1>13,
     <1>14 DEF ObjectStep

(* The caller's steps: a new call, Swap, a new parser after an exception,   *)
(* and what its chunks hold, whatever that is.                              *)
Fed == (\E c \in Char \cup {EndOfChunk} : Feed(c)) /\ UNCHANGED <<array, objectVars>>

CallerStep == Parse \/ Swap \/ Drop \/ Fed

LEMMA OfferIsFed == (FeedChar \/ FeedEnd) /\ UNCHANGED <<array, objectVars>> => Fed
BY CharAssumption DEF FeedChar, FeedEnd, Offer, Char, Fed

LEMMA CallerKeepsControlInv ==
    ASSUME ControlInv, CallerStep
    PROVE  ControlInv'
<1> USE DEF ControlInv, CallInv, PoolInv, StageInv, StringBusy, NumberBusy, Reads, InArray,
        ScalarFrame, ArrayFrame, objectVars, kept
<1>1. CASE Parse
  <2>1. TypeOK'  BY <1>1, PairsGrow DEF Parse, TypeOK, PoolTypeOK, ArrayTypeOK
  <2> QED  BY <1>1, <2>1 DEF Parse, Complete
<1>2. CASE Swap
  <2>1. TypeOK'
    BY <1>2, NothingGivenType, PairsGrow DEF Swap, TypeOK, PoolTypeOK, ArrayTypeOK
  <2> QED  BY <1>2, <2>1 DEF Swap, Complete
<1>3. CASE Drop
  <2> USE <1>3 DEF Drop, NewPool, NewArray
  <2>1. PoolTypeOK'  BY DEF PoolTypeOK
  <2>2. ArrayTypeOK'  BY DEF ArrayTypeOK
  <2>3. TypeOK'  BY <2>1, <2>2, NothingGivenType, PairsGrow DEF TypeOK, State
  <2>4. PoolInv' /\ CallInv'  OBVIOUS
  <2>5. StageInv'  OBVIOUS
  <2> QED  BY <2>3, <2>4, <2>5
<1>4. CASE Fed
  <2>1. PICK c \in Char \cup {EndOfChunk} : Feed(c)  BY <1>4 DEF Fed
  <2>2. TypeOK'  BY <1>4, <2>1, PairsGrow DEF Fed, Feed, TypeOK, PoolTypeOK, ArrayTypeOK
  <2>3. PoolInv' /\ CallInv'  BY <1>4, <2>1 DEF Fed, Feed
  <2>4. StageInv'  BY <1>4, <2>1 DEF Fed, Feed
  <2> QED  BY <2>2, <2>3, <2>4
<1> QED  BY <1>1, <1>2, <1>3, <1>4 DEF CallerStep

----------------------------------------------------------------------------
(* Every step, of the caller or of a running call, keeps them in agreement. *)
LEMMA ControlKept == ControlInv /\ [Next]_vars => ControlInv'
<1> SUFFICES ASSUME ControlInv, [Next]_vars PROVE ControlInv'
  OBVIOUS
<1>1. CASE ObjectStep
  <2>1. frame # "failed"
    BY <1>1 DEF ObjectStep, SkipObjectBlank, EndObjectChunk, WaitForParser, OpenObject,
       ReadKey, TakeKey, ReadColon, ReadValue, ResumeValue, KeepValue, NextPair, CloseObject,
       InObject, ArrayStep, ResumeItem, ArrayResumesItem, OpenArray, ArrayBegins, ResumeArray,
       ArrayResumes, SkipArrayBlank, EndArrayChunk, CloseArray, ReadItem, ArraySkips, KeepItem,
       WaitForItem, Separate, ScalarStep, StringStart, StringChar, StringInvalid, StringClose,
       StringEnd, NumberDigit, NumberDirect, NumberInvalid, NumberEnd, NumberRestDone
  <2> QED  BY <1>1, <2>1, ObjectKeepsTypes, ObjectKeepsPool, ObjectKeepsStage DEF ControlInv
<1>2. CASE Parse \/ Swap \/ Drop \/ ((FeedChar \/ FeedEnd) /\ UNCHANGED <<array, objectVars>>)
  BY <1>2, OfferIsFed, CallerKeepsControlInv DEF CallerStep
<1>3. CASE UNCHANGED vars
  BY <1>3 DEF vars, poolVars, objectVars, kept, ControlInv, TypeOK, PoolTypeOK, ArrayTypeOK, PoolInv,
     CallInv, StageInv, StringBusy, NumberBusy, Reads, InArray, PairsTypeOK
<1> QED  BY <1>1, <1>2, <1>3 DEF Next, Step

(* In every reachable state the types hold, and the frames, the object's    *)
(* state, the busy parser and the buffer agree.                             *)
THEOREM ControlInvariance == Spec => []ControlInv
BY InitialState, ControlKept, PTL DEF Spec

(* Every variable keeps its type, whatever the text and its chunks. *)
THEOREM TypeCorrect == Spec => []TypeOK
<1>1. ControlInv => TypeOK  BY DEF ControlInv
<1> QED  BY <1>1, ControlInvariance, PTL

(* No two parsers of the pool are ever part-way through a value together,   *)
(* and the buffer they share holds nothing when none is.                    *)
THEOREM BufferExclusive == Spec => []BufferOwned
<1>1. ControlInv => BufferOwned  BY DEF ControlInv, PoolInv, BufferOwned
<1> QED  BY <1>1, ControlInvariance, PTL

(* Between two calls the pool, the array and the object's state agree on    *)
(* where the text stopped.                                                  *)
THEOREM StopsInPlace == Spec => []StopsWhereStateSays
<1>1. ControlInv => StopsWhereStateSays
  <2> SUFFICES ASSUME ControlInv, frame = "caller" PROVE StopsWhereStateSays
    BY DEF StopsWhereStateSays
  <2>1. TypeOK /\ PoolInv /\ CallInv /\ StageInv  BY DEF ControlInv
  <2> USE <2>1 DEF CallInv, StageInv, StringBusy, NumberBusy, Reads, InArray, TypeOK, State
  <2>2. ~string.finished =>
            \/ state = "ExpectKey"
            \/ state = "ExpectValue" /\ Kind[active] = "string"
            \/ InArray /\ ItemKind = "string" /\ ~array.finished
    OBVIOUS
  <2>3. ~number.finished =>
            \/ state = "ExpectValue" /\ Kind[active] = "number"
            \/ InArray /\ ItemKind = "number" /\ ~array.finished
    OBVIOUS
  <2>4. ~array.finished => InArray /\ array.began  OBVIOUS
  <2>5. state \in {"PreKey", "PreColon", "PreValue", "PreComma"} =>
            string.finished /\ number.finished /\ array.out = <<>>
    OBVIOUS
  <2>6. (state = "NotStarted") <=> (text = <<>> \/ Complete)  BY DEF Complete
  <2> QED  BY <2>2, <2>3, <2>4, <2>5, <2>6 DEF StopsWhereStateSays
<1> QED  BY <1>1, ControlInvariance, PTL

----------------------------------------------------------------------------
(* ParseObject against RecordBuilder, step by step. *)

LEMMA NothingIsEmpty ==
    out = NothingGiven => Record = Builder!Empty
<1> SUFFICES ASSUME out = NothingGiven PROVE Record = Builder!Empty
  OBVIOUS
<1>1. {g \in Field : out[g].given} = {}  BY DEF NothingGiven
<1> QED  BY <1>1 DEF Record, Builder!Empty

LEMMA BuilderInitial == Init => Builder!Init
<1> SUFFICES ASSUME Init PROVE Builder!Init
  OBVIOUS
<1>1. Record = Builder!Empty  BY NothingIsEmpty DEF Init
<1>2. Status = "building"  BY DEF Init, PoolInit, Status, Complete
<1> QED  BY <1>1, <1>2 DEF Builder!Init

(* A running call changes out only in KeepValue, and is over in a caller    *)
(* with finished set only by CloseObject.                                   *)
LEMMA RunningStep ==
    ASSUME ControlInv, ObjectStep
    PROVE  /\ frame \notin {"caller", "failed"}
           /\ \/ UNCHANGED out /\ (frame' = "caller" => ~finished')
              \/ KeepValue
              \/ CloseObject /\ Missing = {}
<1>a. TypeOK  BY DEF ControlInv
<1> USE <1>a DEF InObject, ReturnTo, ObjectNeedsMore, Throw, objectVars, kept
<1>1. CASE SkipObjectBlank  BY <1>1 DEF SkipObjectBlank
<1>2. CASE EndObjectChunk  BY <1>2 DEF EndObjectChunk
<1>3. CASE WaitForParser  BY <1>3 DEF WaitForParser
<1>4. CASE OpenObject  BY <1>4 DEF OpenObject
<1>5. CASE ReadKey  BY <1>5 DEF ReadKey, EntryFrame
<1>6. CASE TakeKey  BY <1>6 DEF TakeKey
<1>7. CASE ReadColon  BY <1>7 DEF ReadColon
<1>8. CASE ReadValue  BY <1>8 DEF ReadValue, ValueFrame, EntryFrame
<1>9. CASE ResumeValue  BY <1>9 DEF ResumeValue, ValueFrame, EntryFrame
<1>10. CASE KeepValue  BY <1>10 DEF KeepValue
<1>11. CASE NextPair  BY <1>11 DEF NextPair
<1>12. CASE CloseObject  BY <1>12 DEF CloseObject
<1>13. CASE InArray /\ ArrayStep("object") /\ UNCHANGED objectVars
  <2>1. frame \in ScalarFrame \cup ArrayFrame
    BY <1>13 DEF ArrayStep, ResumeItem, ArrayResumesItem, OpenArray, ArrayBegins, ResumeArray,
       ArrayResumes, SkipArrayBlank, EndArrayChunk, CloseArray, ReadItem, ArraySkips, KeepItem,
       WaitForItem, Separate, ScalarStep, StringStart, StringChar, StringInvalid, StringClose,
       StringEnd, NumberDigit, NumberDirect, NumberInvalid, NumberEnd, NumberRestDone,
       ArrayFrame, ScalarFrame
  <2>2. frame' \in ScalarFrame \cup ArrayFrame \cup {"object", "failed"}
    BY <1>13, <2>1, ArrayKeepsTypes DEF ControlInv, TypeOK, ScalarFrame, ArrayFrame
  <2> QED  BY <1>13, <2>1, <2>2 DEF ScalarFrame, ArrayFrame
<1>14. CASE ~InArray /\ ScalarStep("object") /\ UNCHANGED <<array, objectVars>>
  <2>1. frame \in ScalarFrame
    BY <1>14 DEF ScalarStep, StringStart, StringChar, StringInvalid, StringClose,
       StringEnd, NumberDigit, NumberDirect, NumberInvalid, NumberEnd, NumberRestDone,
       ScalarFrame
  <2>2. frame' \in ScalarFrame \cup {"object", "failed"}
    BY <1>14, <2>1, ScalarKeepsTypes DEF ControlInv, TypeOK, ScalarFrame
  <2> QED  BY <1>14, <2>1, <2>2 DEF ScalarFrame
<1> QED
  BY <1>1, <1>2, <1>3, <1>4, <1>5, <1>6, <1>7, <1>8, <1>9, <1>10, <1>11, <1>12, <1>13,
     <1>14 DEF ObjectStep

(* Swap of a field with the value just read assigns it. *)
LEMMA KeepValueAssigns ==
    ASSUME ControlInv, KeepValue
    PROVE  Builder!Assign(active)
<1>1. TypeOK /\ CallInv  BY DEF ControlInv, KeepValue
<1>2. active \in Field  BY <1>1 DEF CallInv, KeepValue
<1>3. Kind[active] \in {"string", "number", "array"}  BY <1>2, FieldAssumption DEF Scalar
<1>4. PICK v \in ValueOf(active) : out' = [out EXCEPT ![active] = [given |-> TRUE, value |-> v]]
  <2>1. string.value \in Seq(Char) /\ number.value \in Seq(Digit) /\ array.out \in Seq(Seq(Char))
    BY <1>1 DEF TypeOK, PoolTypeOK, ArrayTypeOK
  <2> QED  BY <1>3, <2>1 DEF KeepValue, ValueOf
<1>5. DOMAIN out = Field  BY <1>1 DEF TypeOK
<1>6. {g \in Field : out'[g].given} = {g \in Field : out[g].given} \cup {active}
  BY <1>2, <1>4, <1>5
<1>7. DOMAIN Record' = DOMAIN Record \cup {active}  BY <1>6 DEF Record
<1>8. Record'[active] \in ValueOf(active)  BY <1>2, <1>4, <1>5, <1>6 DEF Record
<1>9. \A g \in DOMAIN Record \ {active} : Record'[g] = Record[g]
  BY <1>4, <1>5, <1>6 DEF Record
<1>10. Status = "building" /\ Status' = "building"
  BY DEF KeepValue, Status, Complete
<1> QED  BY <1>2, <1>7, <1>8, <1>9, <1>10 DEF Builder!Assign

(* Every step is a step of RecordBuilder, or leaves the record alone. *)
LEMMA BuilderStep ==
    ASSUME ControlInv, [Next]_vars
    PROVE  [Builder!Next]_<<Record, Status>>
<1>a. UNCHANGED out => UNCHANGED Record  BY DEF Record
<1>1. CASE ObjectStep
  <2>1. frame \notin {"caller", "failed"}  BY <1>1, RunningStep
  <2>2. Status = "building"  BY <2>1 DEF Status, Complete
  <2>3. CASE UNCHANGED out /\ (frame' = "caller" => ~finished')
    <3>1. Status' \in {"building", "refused"}  BY <2>3 DEF Status, Complete
    <3>2. UNCHANGED Record  BY <2>3, <1>a
    <3> QED  BY <2>2, <3>1, <3>2 DEF Builder!Next, Builder!Refuse
  <2>4. CASE KeepValue
    <3>1. active \in Field  BY <2>4 DEF KeepValue, ControlInv, CallInv
    <3> QED  BY <2>4, <3>1, KeepValueAssigns DEF Builder!Next
  <2>5. CASE CloseObject /\ Missing = {}
    <3>1. UNCHANGED Record  BY <2>5, <1>a DEF CloseObject, kept
    <3>2. Required \subseteq DOMAIN Record
      BY <2>5, FieldAssumption DEF Record, Missing
    <3>3. text' # <<>>
      BY <2>5, AdvanceFillsText DEF CloseObject, ControlInv, TypeOK, Char, Mark
    <3>4. Status' = "complete"
      BY <2>5, <3>3 DEF CloseObject, ReturnTo, Status, Complete
    <3> QED  BY <2>2, <3>1, <3>2, <3>4 DEF Builder!Next, Builder!Finish
  <2> QED  BY <1>1, <2>3, <2>4, <2>5, RunningStep
<1>2. CASE Parse
  <2>1. UNCHANGED Record  BY <1>2, <1>a DEF Parse, objectVars, kept
  <2>2. Status = "building" /\ Status' = "building"  BY <1>2 DEF Parse, Status, Complete
  <2> QED  BY <2>1, <2>2
<1>3. CASE Swap
  <2>1. Record' = Builder!Empty
    <3>1. {g \in Field : out'[g].given} = {}  BY <1>3 DEF Swap, NothingGiven
    <3> QED  BY <3>1 DEF Record, Builder!Empty
  <2>2. Status = "complete" /\ Status' = "building"
    BY <1>3 DEF Swap, Status, Complete
  <2> QED  BY <2>1, <2>2 DEF Builder!Next, Builder!Restart
<1>4. CASE Drop
  <2>1. Record' = Builder!Empty
    <3>1. {g \in Field : out'[g].given} = {}  BY <1>4 DEF Drop, NothingGiven
    <3> QED  BY <3>1 DEF Record, Builder!Empty
  <2>2. Status = "refused" /\ Status' = "building"
    BY <1>4 DEF Drop, NewPool, Status, Complete
  <2> QED  BY <2>1, <2>2 DEF Builder!Next, Builder!Restart
<1>5. CASE (FeedChar \/ FeedEnd) /\ UNCHANGED <<array, objectVars>>
  <2>1. UNCHANGED <<frame, text, finished, out>>
    BY <1>5 DEF FeedChar, FeedEnd, Feed, objectVars, kept
  <2> QED  BY <2>1, <1>a DEF Status, Complete
<1>6. CASE UNCHANGED vars
  <2>1. UNCHANGED <<frame, text, finished, out>>  BY <1>6 DEF vars, poolVars, objectVars, kept
  <2> QED  BY <2>1, <1>a DEF Status, Complete
<1> QED  BY <1>1, <1>2, <1>3, <1>4, <1>5, <1>6 DEF Next, Step

(* ParseObject fills one record after another as RecordBuilder does: one    *)
(* field at a time, finished only with the required ones, the next from     *)
(* nothing.                                                                 *)
THEOREM Refinement == Spec => BuildsRecords
<1>1. Init => Builder!Init  BY BuilderInitial
<1>2. ControlInv /\ [Next]_vars => [Builder!Next]_<<Record, Status>>  BY BuilderStep
<1> QED
  BY <1>1, <1>2, ControlInvariance, PTL DEF Spec, BuildsRecords, Builder!Spec, Builder!builderVars

----------------------------------------------------------------------------
(* ObjectTexts: what was read is in the pairs kept and in the pair being    *)
(* read, so a finished object is the text that was read.                    *)

LEMMA ObjectChars ==
    /\ \A c \in {"{", "}", ":", ","} : c \in Char /\ <<c>> \in Seq(Char)
    /\ \A f \in Field : Key[f] \in Seq(Char)
<1>1. \A c \in {"{", "}", ":", ","} : c \in Char  BY DEF Char, Mark
<1>2. \A c \in Char : <<c>> \in Seq(Char)  OBVIOUS
<1>3. \A f \in Field : Key[f] \in Seq(Char)  BY FieldAssumption DEF Field
<1> QED  BY <1>1, <1>2, <1>3

LEMMA KeyTyped ==
    ASSUME NEW f \in Field
    PROVE  TokenText("string", Key[f]) \in Seq(Char) /\ KeyText(f) \in Seq(Char)
<1>1. TokenText("string", Key[f]) \in Seq(Char)  BY ObjectChars, TokenTyped
<1> QED  BY <1>1, ObjectChars, ConcatProperties DEF KeyText

LEMMA ValueTyped ==
    ASSUME NEW f \in Field, NEW v \in ValueOf(f)
    PROVE  ValueText(f, v) \in Seq(Char)
<1>1. Kind[f] \in {"string", "number", "array"}  BY FieldAssumption DEF Scalar
<1>2. CASE Kind[f] = "array"
  <2>1. v \in Seq(Seq(Char))  BY <1>2 DEF ValueOf
  <2>2. ItemTexts(v) \in Seq(Seq(Char))  BY <2>1, EmptyIsSeq, ItemTextsAppend
  <2> QED  BY <1>2, <2>2, OpenedTyped DEF ValueText, ArrayText
<1>3. CASE Kind[f] # "array"
  <2>1. v \in Seq(Char) \/ v \in Seq(Digit)  BY <1>1, <1>3 DEF ValueOf
  <2>2. v \in Seq(Char)  BY <2>1, TextChars, SeqOfSubset
  <2> QED  BY <1>3, <2>2, TokenTyped DEF ValueText
<1> QED  BY <1>2, <1>3

LEMMA PairTyped ==
    ASSUME NEW p \in Kept
    PROVE  PairText(p) \in Seq(Char)
<1>1. p.field \in Field /\ p.value \in ValueOf(p.field)  BY KeptIs
<1> QED  BY <1>1, KeyTyped, ValueTyped, ConcatProperties DEF PairText

(* The texts of the pairs, one for each. *)
LEMMA PairTextsAppend ==
    ASSUME NEW ps \in Seq(Kept), NEW p \in Kept
    PROVE  /\ PairTexts(ps) \in Seq(Seq(Char)) /\ Len(PairTexts(ps)) = Len(ps)
           /\ PairTexts(Append(ps, p)) = Append(PairTexts(ps), PairText(p))
<1> DEFINE t == PairText(p)
           n == Len(ps)
           more == Append(ps, p)
<1>1. ASSUME NEW qs \in Seq(Kept)
      PROVE  /\ PairTexts(qs) \in Seq(Seq(Char)) /\ Len(PairTexts(qs)) = Len(qs)
             /\ \A i \in 1..Len(qs) : PairTexts(qs)[i] = PairText(qs[i])
  <2>1. DOMAIN qs = 1..Len(qs) /\ Len(qs) \in Nat  OBVIOUS
  <2>2. \A i \in 1..Len(qs) : qs[i] \in Kept  OBVIOUS
  <2>3. \A i \in 1..Len(qs) : PairText(qs[i]) \in Seq(Char)  BY <2>2, PairTyped
  <2> QED  BY <2>1, <2>3 DEF PairTexts
<1>2. t \in Seq(Char)  BY PairTyped
<1>3. /\ more \in Seq(Kept) /\ Len(more) = n + 1 /\ more[n + 1] = p /\ n \in Nat
      /\ \A i \in 1..n : more[i] = ps[i]
  BY AppendProperties
<1>4. /\ Append(PairTexts(ps), t) \in Seq(Seq(Char))
      /\ Len(Append(PairTexts(ps), t)) = n + 1
      /\ Append(PairTexts(ps), t)[n + 1] = t
      /\ \A i \in 1..n : Append(PairTexts(ps), t)[i] = PairTexts(ps)[i]
  BY <1>1, <1>2, AppendProperties
<1>5. ASSUME NEW i \in 1..(n + 1)
      PROVE  PairTexts(more)[i] = Append(PairTexts(ps), t)[i]
  <2>1. PairTexts(more)[i] = PairText(more[i])  BY <1>1, <1>3
  <2>2. CASE i = n + 1  BY <1>3, <1>4, <2>1, <2>2
  <2>3. CASE i # n + 1
    <3>1. i \in 1..n  BY <1>3, <2>3
    <3>2. more[i] = ps[i] /\ Append(PairTexts(ps), t)[i] = PairTexts(ps)[i]
      BY <1>3, <1>4, <3>1
    <3>3. PairTexts(ps)[i] = PairText(ps[i])  BY <1>1, <3>1
    <3> QED  BY <2>1, <3>2, <3>3
  <2> QED  BY <2>2, <2>3
<1>6. PairTexts(more) \in Seq(Seq(Char)) /\ Len(PairTexts(more)) = n + 1  BY <1>1, <1>3
<1>7. PairTexts(ps) \in Seq(Seq(Char)) /\ Len(PairTexts(ps)) = n  BY <1>1
<1> HIDE DEF t, more, n
<1>8. PairTexts(more) = Append(PairTexts(ps), t)  BY <1>4, <1>5, <1>6, SeqEqual
<1> QED  BY <1>7, <1>8 DEF t, more, n

(* The text of an object grows by the pair that follows. *)
LEMMA ObjectTextTyped ==
    ASSUME NEW ps \in Seq(Kept)
    PROVE  /\ ObjectText(ps) \in Seq(Char) /\ BeforePair(ps) \in Seq(Char)
           /\ ps # <<>> => BeforePair(ps) = Append(ObjectText(ps), ",")
<1>1. PairTexts(ps) \in Seq(Seq(Char))
  <2>1. DOMAIN ps = 1..Len(ps) /\ Len(ps) \in Nat  OBVIOUS
  <2>2. \A i \in 1..Len(ps) : PairText(ps[i]) \in Seq(Char)  BY PairTyped
  <2> QED  BY <2>1, <2>2 DEF PairTexts
<1>2. ObjectText(ps) \in Seq(Char)
  BY <1>1, SeparatedTyped, ObjectChars, ConcatProperties DEF ObjectText
<1>3. BeforePair(ps) \in Seq(Char)  BY <1>2, CommaTyped, ConcatProperties DEF BeforePair
<1>4. ASSUME ps # <<>> PROVE BeforePair(ps) = Append(ObjectText(ps), ",")
  <2>1. Len(ps) + 1 # 1  BY <1>4
  <2>2. Comma(Len(ps) + 1) = <<",">>  BY <2>1 DEF Comma
  <2>3. Append(ObjectText(ps), ",") = ObjectText(ps) \o <<",">>
    BY <1>2, ObjectChars, AppendIsConcat
  <2> QED  BY <2>2, <2>3 DEF BeforePair
<1> QED  BY <1>2, <1>3, <1>4

LEMMA ObjectTextEmpty == BeforePair(<<>>) = <<"{">>
<1>1. PairTexts(<<>>) = <<>>  BY DEF PairTexts
<1>2. ObjectText(<<>>) = <<"{">>
  BY <1>1, SeparatedEmpty, ObjectChars, ConcatEmptySeq DEF ObjectText
<1>3. Len(<<>>) + 1 = 1  OBVIOUS
<1> QED  BY <1>2, <1>3, ObjectChars, CommaTyped, ConcatEmptySeq DEF BeforePair

LEMMA ObjectTextAppend ==
    ASSUME NEW ps \in Seq(Kept), NEW p \in Kept
    PROVE  ObjectText(Append(ps, p)) = BeforePair(ps) \o PairText(p)
<1> DEFINE f == Separated(PairTexts(ps))
           c == Comma(Len(ps) + 1)
           open == <<"{">>
           t == PairText(p)
<1>1. PairTexts(ps) \in Seq(Seq(Char)) /\ Len(PairTexts(ps)) = Len(ps)
  BY PairTextsAppend
<1>2. f \in Seq(Char) /\ c \in Seq(Char) /\ open \in Seq(Char) /\ t \in Seq(Char)
  BY <1>1, SeparatedTyped, CommaTyped, ObjectChars, PairTyped
<1>3. Separated(Append(PairTexts(ps), t)) = f \o (c \o t)
  BY <1>1, <1>2, SeparatedAppend
<1>4. ObjectText(Append(ps, p)) = open \o (f \o (c \o t)) /\ BeforePair(ps) = (open \o f) \o c
  BY <1>3, PairTextsAppend DEF ObjectText, BeforePair
<1> HIDE DEF f, c, open, t
<1>5. open \o (f \o (c \o t)) = ((open \o f) \o c) \o t  BY <1>2, TextsRegroup
<1>6. ObjectText(Append(ps, p)) = BeforePair(ps) \o t  BY <1>4, <1>5
<1> QED  BY <1>6 DEF t

----------------------------------------------------------------------------
(* What out holds after an object of some pairs, and after one pair more. *)
LEMMA MeaningEmpty == Meaning(<<>>) = NothingGiven
<1>1. Fields(<<>>) = {}  BY DEF Fields
<1> QED  BY <1>1 DEF Meaning, NothingGiven

LEMMA MeaningAppend ==
    ASSUME NEW ps \in Seq(Kept), NEW f \in Field, NEW v \in ValueOf(f)
    PROVE  Meaning(Append(ps, [field |-> f, value |-> v])) =
                [Meaning(ps) EXCEPT ![f] = [given |-> TRUE, value |-> v]]
<1> DEFINE p == [field |-> f, value |-> v]
           more == Append(ps, p)
           n == Len(ps)
           places(qs, g) == {i \in DOMAIN qs : qs[i].field = g}
           last(qs, g) == CHOOSE i \in places(qs, g) : \A j \in places(qs, g) : j <= i
<1>1. p \in Kept /\ p.field = f /\ p.value = v  BY KeptIs
<1>2. /\ DOMAIN more = 1..(n + 1) /\ more[n + 1] = p /\ n \in Nat
      /\ DOMAIN ps = 1..n /\ \A i \in 1..n : more[i] = ps[i]
  BY <1>1, AppendProperties
<1> HIDE DEF p, more, n
<1>3. LastValue(more, f) = v
  <2>1. n + 1 \in places(more, f)  BY <1>1, <1>2
  <2>2. \A j \in places(more, f) : j \in Nat /\ j <= n + 1  BY <1>2
  <2> HIDE DEF places
  <2>3. \E i \in places(more, f) : \A j \in places(more, f) : j <= i  BY <2>1, <2>2
  <2>4. /\ last(more, f) \in places(more, f)
        /\ \A j \in places(more, f) : j <= last(more, f)
    BY <2>3
  <2>5. last(more, f) = n + 1  BY <1>2, <2>1, <2>2, <2>4
  <2> USE DEF places
  <2> QED  BY <1>1, <1>2, <2>5 DEF LastValue
<1>4. ASSUME NEW g \in Fields(ps), g # f
      PROVE  LastValue(more, g) = LastValue(ps, g)
  <2>1. places(more, g) = places(ps, g)
    <3>1. \A i \in 1..(n + 1) : more[i].field = g => i \in 1..n /\ ps[i].field = g
      BY <1>1, <1>2, <1>4
    <3>2. \A i \in 1..n : i \in 1..(n + 1)  BY <1>2
    <3> QED  BY <1>2, <3>1, <3>2
  <2>2. places(ps, g) \subseteq 1..n  BY <1>2
  <2>3. places(ps, g) # {}  BY <1>4 DEF Fields
  <2> HIDE DEF places
  <2>4. \E i \in places(ps, g) : \A j \in places(ps, g) : j <= i
    BY <1>2, <2>2, <2>3, GreatestMember
  <2>5. last(ps, g) \in 1..n  BY <2>2, <2>4
  <2>6. last(more, g) = last(ps, g)  BY <2>1
  <2> USE DEF places
  <2>7. LastValue(more, g) = more[last(more, g)].value  BY DEF LastValue
  <2>8. LastValue(ps, g) = ps[last(ps, g)].value  BY DEF LastValue
  <2> HIDE DEF last
  <2> QED  BY <1>2, <2>5, <2>6, <2>7, <2>8
<1>5. Fields(more) = Fields(ps) \cup {f}
  <2>1. \A i \in 1..(n + 1) : more[i].field = f \/ (i \in 1..n /\ more[i].field = ps[i].field)
    BY <1>1, <1>2
  <2>2. \A i \in 1..n : i \in 1..(n + 1) /\ more[i].field = ps[i].field  BY <1>2
  <2>3. n + 1 \in 1..(n + 1) /\ more[n + 1].field = f  BY <1>1, <1>2
  <2> QED  BY <1>2, <2>1, <2>2, <2>3 DEF Fields
<1>6. Meaning(more) = [Meaning(ps) EXCEPT ![f] = [given |-> TRUE, value |-> v]]
  <2>1. ASSUME NEW g \in Field
        PROVE  Meaning(more)[g] = [Meaning(ps) EXCEPT ![f] = [given |-> TRUE, value |-> v]][g]
    BY <1>3, <1>4, <1>5 DEF Meaning
  <2> QED  BY <2>1 DEF Meaning
<1> QED  BY <1>6 DEF more, p

(* Every field an object has is given, and no other. *)
LEMMA MeaningGives ==
    ASSUME NEW ps, NEW f \in Field
    PROVE  Meaning(ps)[f].given <=> f \in Fields(ps)
BY DEF Meaning

----------------------------------------------------------------------------
(* What constant operators make of the next state's values. *)
LEMMA NextTexts ==
    /\ WithoutGaps(text)' = WithoutGaps(text')
    /\ ObjectText(pairs)' = ObjectText(pairs')
    /\ BeforePair(pairs)' = BeforePair(pairs')
    /\ Meaning(pairs)' = Meaning(pairs')
    /\ Fields(pairs)' = Fields(pairs')
    /\ Texts(pairs)' = Texts(pairs')
    /\ KeyText(active)' = KeyText(active')
    /\ KeyText(activating)' = KeyText(activating')
    /\ TokenText("string", Key[activating])' = TokenText("string", Key[activating'])
    /\ ItemTexts(array.out)' = ItemTexts(array'.out)
<1>1. WithoutGaps(text)' = WithoutGaps(text')  BY DEF WithoutGaps, Without
<1>2. ObjectText(pairs)' = ObjectText(pairs')
  BY DEF ObjectText, Separated, PairTexts, PairText, KeyText, ValueText, ArrayText, ItemTexts,
     Listed, Opened, TokenText, Comma
<1>3. BeforePair(pairs)' = BeforePair(pairs')  BY <1>2 DEF BeforePair, Comma
<1>4. Meaning(pairs)' = Meaning(pairs')  BY DEF Meaning, Fields, LastValue
<1>5. Fields(pairs)' = Fields(pairs')  BY DEF Fields
<1>6. Texts(pairs)' = Texts(pairs')  BY <1>2 DEF Texts
<1>7. /\ KeyText(active)' = KeyText(active') /\ KeyText(activating)' = KeyText(activating')
      /\ TokenText("string", Key[activating])' = TokenText("string", Key[activating'])
  BY DEF KeyText, TokenText
<1>8. ItemTexts(array.out)' = ItemTexts(array'.out)  BY DEF ItemTexts, TokenText
<1> QED  BY <1>1, <1>2, <1>3, <1>4, <1>5, <1>6, <1>7, <1>8

(* The parts of an object, by the state. *)
ObjectReadIs ==
    /\ pairs \in Seq(Kept)
    /\ ObjectText(pairs) \in Seq(Char) /\ BeforePair(pairs) \in Seq(Char)
    /\ PartRead \in Seq(Char)
    /\ state = "NotStarted" => ObjectRead = <<>>
    /\ state = "PreKey" => ObjectRead = BeforePair(pairs)
    /\ state = "ExpectKey" => ObjectRead = BeforePair(pairs) \o KeyRead
    /\ state = "PreColon" =>
            ObjectRead = BeforePair(pairs) \o TokenText("string", Key[activating])
    /\ state = "PreValue" => ObjectRead = BeforePair(pairs) \o KeyText(activating)
    /\ state = "ExpectValue" => ObjectRead = BeforePair(pairs) \o (KeyText(active) \o ValueRead)
    /\ state = "PreComma" => ObjectRead = ObjectText(pairs)
    /\ ~Returned => KeyRead = PartRead
    /\ ~Returned /\ ~InArray => ValueRead = PartRead
    /\ InArray => ValueRead = ArrayRead("object")

LEMMA ObjectReadCases == ControlInv => ObjectReadIs
<1> SUFFICES ASSUME ControlInv PROVE ObjectReadIs
  OBVIOUS
<1>1. pairs \in Seq(Kept) /\ PartRead \in Seq(Char)
  BY PairsAreKept, PartReadTyped DEF ControlInv, TypeOK
<1>2. ObjectText(pairs) \in Seq(Char) /\ BeforePair(pairs) \in Seq(Char)
  BY <1>1, ObjectTextTyped
<1>3. BeforePair(pairs) \o <<>> = BeforePair(pairs)  BY <1>2, ConcatEmptySeq
<1>4. state = "PreKey" => ObjectRead = BeforePair(pairs)  BY <1>3 DEF ObjectRead, PairRead
<1>5. /\ state = "NotStarted" => ObjectRead = <<>>
      /\ state = "PreComma" => ObjectRead = ObjectText(pairs)
  BY DEF ObjectRead
<1>6. /\ state = "ExpectKey" => ObjectRead = BeforePair(pairs) \o KeyRead
      /\ state = "PreColon" =>
            ObjectRead = BeforePair(pairs) \o TokenText("string", Key[activating])
      /\ state = "PreValue" => ObjectRead = BeforePair(pairs) \o KeyText(activating)
      /\ state = "ExpectValue" =>
            ObjectRead = BeforePair(pairs) \o (KeyText(active) \o ValueRead)
  BY DEF ObjectRead, PairRead
<1>7. /\ ~Returned => KeyRead = PartRead
      /\ ~Returned /\ ~InArray => ValueRead = PartRead
      /\ InArray => ValueRead = ArrayRead("object")
  BY DEF KeyRead, ValueRead
<1> QED  BY <1>1, <1>2, <1>4, <1>5, <1>6, <1>7 DEF ObjectReadIs

LEMMA ObjectReadCasesNext == (ControlInv => ObjectReadIs)'
BY ObjectReadCases, PTL

(* A step that leaves the pool, the array and the object as they are does   *)
(* so with what they hold of the text.                                      *)
LEMMA ReadStays ==
    ASSUME UNCHANGED <<buffer, scan, string, number, array, state, activating, active, pairs>>,
           StringBusy' <=> StringBusy, Returned' <=> Returned,
           (frame = "arrayLoop" /\ ret = "pointer")' <=> (frame = "arrayLoop" /\ ret = "pointer")
    PROVE  ObjectRead' = ObjectRead
<1>1. PartRead' = PartRead  BY DEF PartRead
<1>2. /\ PoolValue(ItemKind)' = PoolValue(ItemKind)
      /\ PoolValue(Kind[active])' = PoolValue(Kind[active])
      /\ TokenText("string", string.value)' = TokenText("string", string.value)
  BY DEF PoolValue, TokenText
<1>3. ItemRead' = ItemRead  BY <1>1, <1>2 DEF ItemRead, TokenText
<1>4. ArrayRead("object")' = ArrayRead("object")
  <2>1. ItemTexts(array.out)' = ItemTexts(array.out)  BY NextTexts
  <2>2. /\ Opened(ItemTexts(array.out))' = Opened(ItemTexts(array.out))
        /\ Before(ItemTexts(array.out))' = Before(ItemTexts(array.out))
        /\ ArrayText(array.out)' = ArrayText(array.out)
    BY <2>1 DEF Opened, Before, ArrayText, Listed, Separated, Comma
  <2> QED  BY <1>3, <2>2 DEF ArrayRead, Returned
<1>5. KeyRead' = KeyRead  BY <1>1, <1>2 DEF KeyRead
<1>6. ValueRead' = ValueRead  BY <1>1, <1>2, <1>4 DEF ValueRead, InArray, TokenText
<1>7. PairRead' = PairRead  BY <1>5, <1>6, NextTexts DEF PairRead
<1> QED  BY <1>7, NextTexts DEF ObjectRead

----------------------------------------------------------------------------
(* A step of an object puts the character it passes behind what it has      *)
(* read, and what it leaves out is whitespace.                              *)
ObjectReadsOn ==
    \/ /\ Advance /\ look \in Char
       /\ ObjectRead' = Append(ObjectRead, look)
    \/ /\ UNCHANGED text \/ Skip
       /\ ObjectRead' = ObjectRead

(* Texts joined from the right, and from the left. *)
LEMMA PairRegroups ==
    ASSUME NEW a \in Seq(Char), NEW b \in Seq(Char), NEW c \in Seq(Char)
    PROVE  a \o (b \o c) = (a \o b) \o c /\ a \o b \in Seq(Char)
BY ConcatAssociative, ConcatProperties

(* A scalar parser that runs under no array reads a key or a value.         *)
LEMMA ScalarUnderObject ==
    ASSUME ControlInv, ReadInv, frame # "failed", frame' # "failed",
           ~InArray, ScalarStep("object"), UNCHANGED <<array, objectVars>>
    PROVE  ObjectReadsOn
<1> DEFINE r == IF state = "ExpectKey" THEN KeyRead ELSE ValueRead
           front == IF state = "ExpectKey" THEN BeforePair(pairs)
                    ELSE BeforePair(pairs) \o KeyText(active)
<1>a. TypeOK /\ PoolTypeOK /\ PoolInv /\ CallInv  BY DEF ControlInv, TypeOK
<1>b. ControlInv'
  <2>1. ObjectStep  BY DEF ObjectStep
  <2> QED  BY <2>1, ObjectKeepsTypes, ObjectKeepsPool, ObjectKeepsStage DEF ControlInv
<1>c. ObjectReadIs /\ ObjectReadIs'  BY <1>b, ObjectReadCases, ObjectReadCasesNext
<1>d. ReadsOn("object")  BY <1>a, ScalarReads DEF ReadInv, ScalarFrame
<1>e. frame \in ScalarFrame
  BY DEF ScalarStep, StringStart, StringChar, StringInvalid, StringClose, StringEnd,
     NumberDigit, NumberDirect, NumberInvalid, NumberEnd, NumberRestDone, ScalarFrame
<1>f. /\ StringBusy \/ frame = "stringStart" => Reads("string")
      /\ NumberBusy => Reads("number")
  BY <1>a DEF CallInv
<1>g. state = "ExpectKey" \/ (state = "ExpectValue" /\ active \in Field)
  BY <1>a, <1>e, <1>f DEF ScalarFrame, StringBusy, NumberBusy, Reads, CallInv, InArray
<1>h. ~Returned /\ ~InArray'  BY <1>e DEF Returned, ScalarFrame, InArray, objectVars
<1>1. r = PartRead /\ PartRead \in Seq(Char)  BY <1>c, <1>g, <1>h DEF ObjectReadIs
<1>2. ObjectRead = front \o r /\ ObjectRead' = front \o r' /\ front \in Seq(Char)
  <2>1. UNCHANGED <<state, active, pairs>>  BY DEF objectVars, kept
  <2>2. CASE state = "ExpectKey"  BY <1>c, <2>1, <2>2, NextTexts DEF ObjectReadIs
  <2>3. CASE state = "ExpectValue" /\ active \in Field
    <3>1. BeforePair(pairs) \in Seq(Char) /\ KeyText(active) \in Seq(Char)
      BY <1>c, <2>3, KeyTyped DEF ObjectReadIs
    <3>2. ObjectRead = BeforePair(pairs) \o (KeyText(active) \o ValueRead)
      BY <1>c, <2>3 DEF ObjectReadIs
    <3>3. ObjectRead' = BeforePair(pairs) \o (KeyText(active) \o ValueRead')
      BY <1>c, <2>1, <2>3, NextTexts DEF ObjectReadIs
    <3>4. ValueRead \in Seq(Char)  BY <1>1, <2>3
    <3>5. ValueRead' \in Seq(Char)
      <4>1. (PoolTypeOK => PartRead \in Seq(Char))'  BY PartReadTyped, PTL
      <4>2. PartRead' \in Seq(Char)  BY <1>b, <4>1 DEF ControlInv, TypeOK
      <4>3. TokenText(Kind[active], PoolValue(Kind[active]))' \in Seq(Char)
        <5>1. string'.value \in Seq(Char) /\ number'.value \in Seq(Digit)
          BY <1>b DEF ControlInv, TypeOK, PoolTypeOK
        <5>2. number'.value \in Seq(Char)  BY <5>1, TextChars, SeqOfSubset
        <5>3. PoolValue(Kind[active])' \in Seq(Char)  BY <5>1, <5>2 DEF PoolValue
        <5>4. TokenText(Kind[active'], PoolValue(Kind[active])') \in Seq(Char)
          BY <5>3, TokenTyped
        <5>5. TokenText(Kind[active], PoolValue(Kind[active]))'
                = TokenText(Kind[active'], PoolValue(Kind[active])')
          BY DEF TokenText
        <5> QED  BY <5>4, <5>5
      <4> QED  BY <1>h, <4>2, <4>3 DEF ValueRead
    <3>6. front \in Seq(Char)  BY <2>3, <3>1, ConcatProperties
    <3>7. /\ ObjectRead = (BeforePair(pairs) \o KeyText(active)) \o ValueRead
          /\ ObjectRead' = (BeforePair(pairs) \o KeyText(active)) \o ValueRead'
      <4>1. ASSUME NEW v \in Seq(Char)
            PROVE  BeforePair(pairs) \o (KeyText(active) \o v)
                        = (BeforePair(pairs) \o KeyText(active)) \o v
        BY <3>1, ConcatAssociative
      <4> QED  BY <3>2, <3>3, <3>4, <3>5, <4>1
    <3>8. state # "ExpectKey" /\ state' # "ExpectKey"  BY <2>1, <2>3
    <3> QED  BY <3>6, <3>7, <3>8
  <2> QED  BY <1>g, <2>2, <2>3
<1>3. look \in Char => Append(ObjectRead, look) = front \o Append(PartRead, look)
  <2>1. ASSUME look \in Char
        PROVE  Append(front \o PartRead, look) = front \o Append(PartRead, look)
    BY <1>1, <1>2, <2>1, TextAppends
  <2> QED  BY <1>1, <1>2, <2>1
<1>4. ~Returned' => r' = PartRead'  BY <1>b, <1>c, <1>g, <1>h DEF ObjectReadIs, objectVars
<1>5. CASE Advance /\ look \in Char /\ frame' \in ScalarFrame /\ PartRead' = Append(PartRead, look)
  <2>1. ~Returned'  BY <1>5 DEF Returned, ScalarFrame
  <2> QED  BY <1>2, <1>3, <1>4, <1>5, <2>1 DEF ObjectReadsOn
<1>6. CASE UNCHANGED text /\ frame' = "object" /\ ret' = "nullptr" /\ PartRead' = PartRead
  <2>1. ~Returned'  BY <1>6 DEF Returned
  <2> QED  BY <1>1, <1>2, <1>4, <1>6, <2>1 DEF ObjectReadsOn
<1>7. CASE /\ Advance /\ look \in Char
           /\ frame = "string" /\ frame' = "object" /\ ret' = "pointer"
           /\ TokenText("string", string.value)' = Append(PartRead, look)
  <2>1. Returned' /\ (state = "ExpectValue" => Kind[active] = "string")
    BY <1>f, <1>7, <1>g DEF Returned, StringBusy, Reads, InArray
  <2>2. CASE state = "ExpectKey"
    <3>1. KeyRead' = TokenText("string", string.value)'  BY <2>1 DEF KeyRead
    <3>2. r' = KeyRead'  BY <2>2 DEF objectVars
    <3> QED  BY <1>2, <1>3, <1>7, <3>1, <3>2 DEF ObjectReadsOn
  <2>3. CASE state = "ExpectValue"
    <3>1. Kind[active'] = "string"  BY <2>1, <2>3 DEF objectVars
    <3>2. ValueRead' = TokenText("string", string.value)'
      BY <1>h, <2>1, <3>1 DEF ValueRead, PoolValue, TokenText
    <3>3. r' = ValueRead'  BY <2>3 DEF objectVars
    <3> QED  BY <1>2, <1>3, <1>7, <3>2, <3>3 DEF ObjectReadsOn
  <2> QED  BY <1>g, <2>2, <2>3
<1>8. CASE /\ UNCHANGED text
           /\ frame \in {"number", "numberRest"} /\ frame' = "object" /\ ret' = "pointer"
           /\ TokenText("number", number.value)' = PartRead
  <2>1. Returned' /\ state = "ExpectValue" /\ Kind[active] = "number"
    BY <1>f, <1>8, <1>g DEF Returned, NumberBusy, Reads, InArray
  <2>2. Kind[active'] = "number"  BY <2>1 DEF objectVars
  <2>3. ValueRead' = TokenText("number", number.value)'
    BY <1>h, <2>1, <2>2 DEF ValueRead, PoolValue, TokenText
  <2>4. r' = ValueRead'  BY <2>1 DEF objectVars
  <2> QED  BY <1>1, <1>2, <1>8, <2>3, <2>4 DEF ObjectReadsOn
<1> QED  BY <1>d, <1>5, <1>6, <1>7, <1>8 DEF ReadsOn

LEMMA FieldArrayTyped == PoolTypeOK /\ ArrayTypeOK => ArrayRead("object") \in Seq(Char)
BY ArrayReadTyped

LEMMA FieldArrayTypedNext == (PoolTypeOK /\ ArrayTypeOK => ArrayRead("object") \in Seq(Char))'
BY FieldArrayTyped, PTL

(* The array of a field reads its value. *)
LEMMA ArrayUnderObject ==
    ASSUME ControlInv, ReadInv, frame # "failed", frame' # "failed",
           InArray, ArrayStep("object"), UNCHANGED objectVars
    PROVE  ObjectReadsOn
<1> DEFINE front == BeforePair(pairs) \o KeyText(active)
<1>a. TypeOK /\ PoolTypeOK /\ ArrayTypeOK /\ PoolInv /\ CallInv /\ active \in Field
  BY DEF ControlInv, TypeOK, CallInv, InArray
<1>b. ControlInv'
  <2>1. ObjectStep  BY DEF ObjectStep
  <2> QED  BY <2>1, ObjectKeepsTypes, ObjectKeepsPool, ObjectKeepsStage DEF ControlInv
<1>c. ObjectReadIs /\ ObjectReadIs'  BY <1>b, ObjectReadCases, ObjectReadCasesNext
<1>d. ArrayInv  BY <1>a DEF CallInv, ArrayInv, Reads, InArray
<1>e. ArrayReadsOn("object")
  BY <1>a, <1>d, ArrayReads DEF ReadInv, ScalarFrame, ArrayFrame
<1>f. state = "ExpectValue" /\ InArray' /\ UNCHANGED <<state, active, pairs>>
  BY DEF InArray, objectVars, kept
<1>1. BeforePair(pairs) \in Seq(Char) /\ KeyText(active) \in Seq(Char)
  BY <1>a, <1>c, KeyTyped DEF ObjectReadIs
<1>2. ArrayRead("object") \in Seq(Char) /\ ArrayRead("object")' \in Seq(Char)
  BY <1>a, <1>b, FieldArrayTyped, FieldArrayTypedNext DEF ControlInv, TypeOK
<1>3. ObjectRead = front \o ArrayRead("object")
  <2>1. ObjectRead = BeforePair(pairs) \o (KeyText(active) \o ArrayRead("object"))
    BY <1>c, <1>f DEF ObjectReadIs
  <2> QED  BY <1>1, <1>2, <2>1, PairRegroups
<1>4. ObjectRead' = front \o ArrayRead("object")'
  <2>1. ObjectRead' = BeforePair(pairs) \o (KeyText(active) \o ArrayRead("object")')
    BY <1>c, <1>f, NextTexts DEF ObjectReadIs
  <2> QED  BY <1>1, <1>2, <2>1, PairRegroups
<1>5. front \in Seq(Char)  BY <1>1, ConcatProperties
<1> HIDE DEF front
<1>6. CASE Advance /\ look \in Char /\ ArrayRead("object")' = Append(ArrayRead("object"), look)
  <2>1. Append(front \o ArrayRead("object"), look) = front \o Append(ArrayRead("object"), look)
    BY <1>2, <1>5, <1>6, TextAppends
  <2> QED  BY <1>3, <1>4, <1>6, <2>1 DEF ObjectReadsOn
<1>7. CASE (UNCHANGED text \/ Skip) /\ ArrayRead("object")' = ArrayRead("object")
  BY <1>3, <1>4, <1>7 DEF ObjectReadsOn
<1> QED  BY <1>e, <1>6, <1>7 DEF ArrayReadsOn

(* Every step of ParseObject::Parse but the one that ends the object. *)
LEMMA ObjectReads ==
    ASSUME ControlInv, ReadInv, frame # "failed", frame' # "failed", ObjectStep, ~CloseObject
    PROVE  ObjectReadsOn
<1>a. TypeOK /\ PoolTypeOK /\ ArrayTypeOK /\ PoolInv /\ CallInv /\ StageInv
  BY DEF ControlInv, TypeOK
<1>b. ControlInv'
  BY ObjectKeepsTypes, ObjectKeepsPool, ObjectKeepsStage DEF ControlInv
<1>c. ObjectReadIs /\ ObjectReadIs'  BY <1>b, ObjectReadCases, ObjectReadCasesNext
<1>d. PartReadIs /\ PartReadIs'
  BY <1>a, <1>b, PartReadCases, PartReadCasesNext DEF ControlInv, TypeOK
<1>e. \A c \in {"{", "}", ":", ","} : c \in Char  BY ObjectChars
<1>f. BeforePair(pairs) \in Seq(Char) /\ ObjectText(pairs) \in Seq(Char)
  BY <1>c DEF ObjectReadIs
<1> USE DEF InObject, ReturnTo, Throw, ObjectNeedsMore, objectVars, kept
<1>1. CASE SkipObjectBlank
  <2>1. ObjectRead' = ObjectRead
    BY <1>1, ReadStays DEF SkipObjectBlank, StringBusy, Returned
  <2> QED  BY <1>1, <2>1 DEF SkipObjectBlank, ObjectReadsOn
<1>2. CASE EndObjectChunk
  <2>1. ObjectRead' = ObjectRead
    BY <1>2, ReadStays DEF EndObjectChunk, StringBusy, Returned
  <2> QED  BY <1>2, <2>1 DEF EndObjectChunk, ObjectReadsOn
<1>3. CASE WaitForParser
  <2>1. ObjectRead' = ObjectRead
    BY <1>3, ReadStays DEF WaitForParser, StringBusy, Returned
  <2> QED  BY <1>3, <2>1 DEF WaitForParser, ObjectReadsOn
<1>4. CASE OpenObject
  <2>1. /\ look = "{" /\ Advance /\ state = "NotStarted" /\ state' = "PreKey"
        /\ pairs' = pairs /\ frame = "object"
    BY <1>4 DEF OpenObject
  <2>2. pairs = <<>>  BY <2>1 DEF ReadInv, Complete
  <2>3. ObjectRead = <<>> /\ ObjectRead' = <<"{">>
    BY <1>c, <2>1, <2>2, NextTexts, ObjectTextEmpty DEF ObjectReadIs
  <2>4. Append(<<>>, "{") = <<"{">>  OBVIOUS
  <2> QED  BY <1>e, <2>1, <2>3, <2>4 DEF ObjectReadsOn
<1>5. CASE ReadKey
  <2>1. /\ ret = "none" /\ frame = "object" /\ state \in {"PreKey", "ExpectKey"}
        /\ state' = "ExpectKey" /\ frame' = EntryFrame("string")
        /\ UNCHANGED <<text, buffer, scan, string, pairs>>
    BY <1>5 DEF ReadKey
  <2>2. ~Returned /\ ~Returned'  BY <2>1 DEF Returned, EntryFrame
  <2>3. ObjectRead' = BeforePair(pairs) \o PartRead'
    BY <1>c, <2>1, <2>2, NextTexts DEF ObjectReadIs
  <2>4. CASE state = "PreKey"
    <3>1. string.finished
      BY <1>a, <2>4 DEF CallInv, StringBusy, Reads, InArray
    <3>2. frame' = "stringStart"  BY <2>1, <3>1 DEF EntryFrame
    <3>3. PartRead' = <<>>  BY <1>d, <3>2 DEF PartReadIs
    <3>4. ObjectRead' = BeforePair(pairs)  BY <1>f, <2>3, <3>3, ConcatEmptySeq
    <3> QED  BY <1>c, <2>1, <2>4, <3>4 DEF ObjectReadIs, ObjectReadsOn
  <2>5. CASE state = "ExpectKey"
    <3>1. StringBusy' <=> StringBusy  BY <2>1 DEF StringBusy, EntryFrame
    <3>2. PartRead' = PartRead  BY <2>1, <3>1 DEF PartRead
    <3> QED  BY <1>c, <2>1, <2>2, <2>3, <2>5, <3>2 DEF ObjectReadIs, ObjectReadsOn
  <2> QED  BY <2>1, <2>4, <2>5
<1>6. CASE TakeKey
  <2>1. /\ frame = "object" /\ ret = "pointer" /\ state = "ExpectKey" /\ state' = "PreColon"
        /\ activating' \in {f \in Field : Key[f] = string.value}
        /\ UNCHANGED <<text, pairs>>
    BY <1>6 DEF TakeKey, First
  <2>2. KeyRead = TokenText("string", Key[activating'])
    BY <2>1 DEF KeyRead, Returned
  <2> QED  BY <1>c, <2>1, <2>2, NextTexts DEF ObjectReadIs, ObjectReadsOn
<1>7. CASE ReadColon
  <2>1. /\ look = ":" /\ Advance /\ state = "PreColon" /\ state' = "PreValue"
        /\ UNCHANGED <<activating, pairs>> /\ activating \in Field
    BY <1>7, <1>a DEF ReadColon, CallInv
  <2>2. TokenText("string", Key[activating]) \in Seq(Char) /\ ":" \in Char
    BY <1>e, <2>1, KeyTyped
  <2>3. KeyText(activating) = Append(TokenText("string", Key[activating]), ":")
    BY <2>2, AppendIsConcat DEF KeyText
  <2>4. ObjectRead = BeforePair(pairs) \o TokenText("string", Key[activating])
    BY <1>c, <2>1 DEF ObjectReadIs
  <2>5. ObjectRead' = BeforePair(pairs) \o KeyText(activating)
    BY <1>c, <2>1, NextTexts DEF ObjectReadIs
  <2>6. Append(BeforePair(pairs) \o TokenText("string", Key[activating]), ":")
            = BeforePair(pairs) \o Append(TokenText("string", Key[activating]), ":")
    BY <1>f, <2>2, TextAppends
  <2> QED  BY <2>1, <2>2, <2>3, <2>4, <2>5, <2>6 DEF ObjectReadsOn
<1>8. CASE ReadValue
  <2>1. /\ ret = "none" /\ ret' = "none" /\ frame = "object" /\ state = "PreValue"
        /\ state' = "ExpectValue"
        /\ active' = activating /\ frame' = ValueFrame(activating) /\ activating \in Field
        /\ UNCHANGED <<text, buffer, scan, string, number, array, pairs>>
    BY <1>8, <1>a DEF ReadValue, CallInv
  <2>2. /\ string.finished /\ number.finished /\ ~array.began
    BY <1>a, <2>1 DEF CallInv, StageInv, StringBusy, NumberBusy, Reads, InArray
  <2>3. ~Returned'  BY <2>1 DEF Returned
  <2>4. ValueRead' = <<>>
    <3>1. CASE Kind[activating] = "array"
      <4>1. InArray' /\ ~array'.began  BY <2>1, <2>2, <3>1 DEF InArray
      <4>2. ArrayRead("object")' = <<>>  BY <2>1, <4>1 DEF ArrayRead
      <4> QED  BY <1>c, <4>1, <4>2 DEF ObjectReadIs
    <3>2. CASE Kind[activating] # "array"
      <4>1. ~InArray' /\ frame' \in {"stringStart", "number"}
        BY <2>1, <2>2, <3>2 DEF InArray, ValueFrame, EntryFrame
      <4>2. scan = <<>>  BY <1>a, <2>1 DEF PoolInv
      <4>3. PartRead' = <<>>  BY <1>d, <2>1, <4>1, <4>2 DEF PartReadIs
      <4> QED  BY <1>c, <2>3, <4>1, <4>3 DEF ObjectReadIs
    <3> QED  BY <3>1, <3>2
  <2>5. KeyText(activating) \in Seq(Char)  BY <2>1, KeyTyped
  <2>6. ObjectRead' = BeforePair(pairs) \o (KeyText(activating) \o <<>>)
    BY <1>c, <2>1, <2>4, NextTexts DEF ObjectReadIs
  <2>7. ObjectRead' = BeforePair(pairs) \o KeyText(activating)
    BY <2>5, <2>6, ConcatEmptySeq
  <2> QED  BY <1>c, <2>1, <2>7 DEF ObjectReadIs, ObjectReadsOn
<1>9. CASE ResumeValue
  <2>1. /\ ret = "none" /\ ret' = "none" /\ frame = "object" /\ frame' = ValueFrame(active)
        /\ state = "ExpectValue"
        /\ UNCHANGED <<text, buffer, scan, string, number, array, state, activating, active, pairs>>
    BY <1>9 DEF ResumeValue
  <2>2. StringBusy' <=> StringBusy
    <3>1. CASE Kind[active] = "array"  BY <2>1, <3>1 DEF ValueFrame, StringBusy
    <3>2. CASE Kind[active] # "array"  BY <2>1, <3>2 DEF ValueFrame, EntryFrame, StringBusy
    <3> QED  BY <3>1, <3>2
  <2>3. ObjectRead' = ObjectRead  BY <2>1, <2>2, ReadStays DEF Returned
  <2> QED  BY <2>1, <2>3 DEF ObjectReadsOn
<1>10. CASE KeepValue
  <2>1. /\ frame = "object" /\ ret = "pointer" /\ state = "ExpectValue" /\ state' = "PreComma"
        /\ active \in Field /\ UNCHANGED text
    BY <1>10, <1>a DEF KeepValue, CallInv
  <2>2. PICK v \in ValueOf(active) :
            /\ pairs' = Append(pairs, [field |-> active, value |-> v])
            /\ ValueRead = ValueText(active, v)
    <3>1. Kind[active] \in {"string", "number", "array"}
      BY <2>1, FieldAssumption DEF Scalar
    <3>2. /\ string.value \in Seq(Char) /\ number.value \in Seq(Digit)
          /\ array.out \in Seq(Seq(Char))
      BY <1>a DEF PoolTypeOK, ArrayTypeOK
    <3>3. Returned  BY <2>1 DEF Returned
    <3>4. CASE Kind[active] = "string"
      <4>1. string.value \in ValueOf(active)  BY <3>2, <3>4 DEF ValueOf
      <4>2. pairs' = Append(pairs, [field |-> active, value |-> string.value])
        BY <1>10, <3>4 DEF KeepValue
      <4>3. ValueRead = ValueText(active, string.value)
        BY <3>3, <3>4 DEF ValueRead, ValueText, InArray, PoolValue
      <4> QED  BY <4>1, <4>2, <4>3
    <3>5. CASE Kind[active] = "number"
      <4>1. number.value \in ValueOf(active)  BY <3>2, <3>5 DEF ValueOf
      <4>2. pairs' = Append(pairs, [field |-> active, value |-> number.value])
        BY <1>10, <3>5 DEF KeepValue
      <4>3. ValueRead = ValueText(active, number.value)
        BY <3>3, <3>5 DEF ValueRead, ValueText, InArray, PoolValue
      <4> QED  BY <4>1, <4>2, <4>3
    <3>6. CASE Kind[active] = "array"
      <4>1. array.out \in ValueOf(active)  BY <3>2, <3>6 DEF ValueOf
      <4>2. pairs' = Append(pairs, [field |-> active, value |-> array.out])
        BY <1>10, <3>6 DEF KeepValue
      <4>3. InArray /\ ~array.began  BY <1>a, <2>1, <3>6 DEF InArray, StageInv
      <4>4. ValueRead = ValueText(active, array.out)
        BY <2>1, <3>6, <4>3 DEF ValueRead, ValueText, ArrayRead
      <4> QED  BY <4>1, <4>2, <4>4
    <3> QED  BY <3>1, <3>4, <3>5, <3>6
  <2> DEFINE p == [field |-> active, value |-> v]
  <2>3. p \in Kept /\ PairText(p) = KeyText(active) \o ValueRead
    BY <2>1, <2>2, KeptIs DEF PairText
  <2>4. pairs' = Append(pairs, p)  BY <2>2
  <2> HIDE DEF p
  <2>5. ObjectText(Append(pairs, p)) = BeforePair(pairs) \o PairText(p)
    BY <1>c, <2>3, ObjectTextAppend DEF ObjectReadIs
  <2>6. ObjectRead' = ObjectText(Append(pairs, p))
    BY <1>c, <2>1, <2>4, NextTexts DEF ObjectReadIs
  <2> QED  BY <1>c, <2>1, <2>3, <2>5, <2>6 DEF ObjectReadIs, ObjectReadsOn
<1>11. CASE NextPair
  <2>1. /\ look = "," /\ Advance /\ state = "PreComma" /\ state' = "PreKey" /\ pairs' = pairs
    BY <1>11 DEF NextPair
  <2>2. pairs # <<>> /\ pairs \in Seq(Kept)  BY <1>c, <2>1 DEF ReadInv, ObjectReadIs
  <2>3. BeforePair(pairs) = Append(ObjectText(pairs), ",")  BY <2>2, ObjectTextTyped
  <2> QED  BY <1>c, <1>e, <2>1, <2>3, NextTexts DEF ObjectReadIs, ObjectReadsOn
<1>12. CASE InArray /\ ArrayStep("object") /\ UNCHANGED objectVars
  BY <1>12, ArrayUnderObject
<1>13. CASE ~InArray /\ ScalarStep("object") /\ UNCHANGED <<array, objectVars>>
  BY <1>13, ScalarUnderObject
<1> QED
  BY <1>1, <1>2, <1>3, <1>4, <1>5, <1>6, <1>7, <1>8, <1>9, <1>10, <1>11, <1>12, <1>13
  DEF ObjectStep

----------------------------------------------------------------------------
(* A step of an array under an object, one after the other, leaves it begun *)
(* or empty, or returns it.                                                 *)
LEMMA ArrayStaysBegun ==
    ASSUME ControlInv, ReadInv, frame # "failed", frame' # "failed",
           InArray, ArrayStep("object"), UNCHANGED objectVars
    PROVE  ArrayOrder' /\ (array.began \/ array.out = <<>> \/ Returned)'
<1>a. TypeOK /\ PoolTypeOK /\ ArrayTypeOK /\ PoolInv /\ CallInv /\ ArrayOrder
  BY DEF ControlInv, TypeOK, ReadInv
<1>b. ArrayInv  BY <1>a DEF CallInv, ArrayInv, Reads, InArray
<1>c. ArrayOrder'  BY <1>a, <1>b, ArrayKeepsOrder DEF ScalarFrame, ArrayFrame
<1>d. frame' \in ScalarFrame \cup {"arrayFirst", "arrayLoop"} => array'.began
  BY <1>c DEF ArrayOrder
<1>e. array \in [out : Seq(Seq(Char)), began : BOOLEAN, expect : BOOLEAN, finished : BOOLEAN]
  BY <1>a DEF ArrayTypeOK
<1>f. EntryFrame(ItemKind) \in ScalarFrame  BY DEF EntryFrame, ScalarFrame
<1> SUFFICES (array.began \/ array.out = <<>> \/ Returned)'
  BY <1>c
<1> USE <1>d, <1>e, <1>f DEF ReturnTo, Throw, ArrayNeedsMore, Returned
<1>1. CASE ResumeItem  BY <1>1 DEF ResumeItem
<1>2. CASE OpenArray  BY <1>2 DEF OpenArray
<1>3. CASE ResumeArray  BY <1>3 DEF ResumeArray, ResumedFrame
<1>4. CASE SkipArrayBlank  BY <1>4 DEF SkipArrayBlank, ArraySkips
<1>5. CASE EndArrayChunk("object")  BY <1>5, <1>a DEF EndArrayChunk, ArraySkips, ArrayOrder
<1>6. CASE CloseArray("object")  BY <1>6 DEF CloseArray
<1>7. CASE ReadItem  BY <1>7 DEF ReadItem
<1>8. CASE KeepItem  BY <1>8 DEF KeepItem
<1>9. CASE WaitForItem("object")  BY <1>9, <1>a DEF WaitForItem, ArrayOrder
<1>10. CASE Separate  BY <1>10 DEF Separate
<1>11. CASE ScalarStep("arrayLoop") /\ UNCHANGED array
  <2>1. frame' \in ScalarFrame \cup {"arrayLoop"}  BY <1>11, <1>a, ScalarKeepsTypes
  <2> QED  BY <2>1
<1> QED
  BY <1>1, <1>2, <1>3, <1>4, <1>5, <1>6, <1>7, <1>8, <1>9, <1>10, <1>11 DEF ArrayStep

(* The flags around what was read, and out, at every step of the object. *)
LEMMA ObjectKeepsFlags ==
    ASSUME ControlInv, ReadInv, frame # "failed", frame' # "failed", ObjectStep
    PROVE  /\ out' = Meaning(pairs)'
           /\ state' = "NotStarted" /\ ~Complete' => pairs' = <<>>
           /\ state' = "PreComma" => pairs' # <<>>
           /\ InArray' => ArrayOrder' /\ (array.began \/ array.out = <<>> \/ Returned)'
           /\ StringBusy' => string'.value = <<>>
<1>a. TypeOK /\ PoolTypeOK /\ ArrayTypeOK /\ PoolInv /\ CallInv /\ StageInv
  BY DEF ControlInv, TypeOK
<1>b. UNCHANGED kept => out' = Meaning(pairs)'  BY NextTexts DEF ReadInv, kept
<1>c. ItemKind = "string" \/ ItemKind = "number"  BY ItemAssumption DEF Scalar
<1>d. frame = "object" => ~Complete  BY DEF Complete
<1>e. InArray => ArrayOrder /\ (array.began \/ array.out = <<>> \/ Returned)
  BY DEF ReadInv
<1>f. StringBusy => string.value = <<>>  BY DEF ReadInv
<1>g. \A f \in Field : Kind[f] = "string" \/ Kind[f] = "number" \/ Kind[f] = "array"
  BY FieldAssumption DEF Scalar
<1>h. state = "NotStarted" /\ ~Complete => pairs = <<>>  BY DEF ReadInv
<1>i. state = "PreComma" => pairs # <<>>  BY DEF ReadInv
<1>j. ~CloseObject /\ ~KeepValue => UNCHANGED kept
  BY DEF ObjectStep, SkipObjectBlank, EndObjectChunk, WaitForParser, OpenObject, ReadKey, TakeKey,
     ReadColon, ReadValue, ResumeValue, NextPair, objectVars, Throw
<1> DEFINE Flags ==
        /\ state' = "NotStarted" /\ ~Complete' => pairs' = <<>>
        /\ state' = "PreComma" => pairs' # <<>>
        /\ InArray' => ArrayOrder' /\ (array.began \/ array.out = <<>> \/ Returned)'
        /\ StringBusy' => string'.value = <<>>
<1>k. Flags /\ out' = Meaning(pairs)' =>
        /\ out' = Meaning(pairs)'
        /\ state' = "NotStarted" /\ ~Complete' => pairs' = <<>>
        /\ state' = "PreComma" => pairs' # <<>>
        /\ InArray' => ArrayOrder' /\ (array.began \/ array.out = <<>> \/ Returned)'
        /\ StringBusy' => string'.value = <<>>
  OBVIOUS
<1>13. CASE InArray /\ ArrayStep("object") /\ UNCHANGED objectVars
  <2>1. ArrayOrder' /\ (array.began \/ array.out = <<>> \/ Returned)'
    BY <1>13, ArrayStaysBegun
  <2>2. StringBusy' => string'.value = <<>>  BY <2>1 DEF ArrayOrder
  <2>3. state' = "ExpectValue"  BY <1>13 DEF InArray, objectVars
  <2> QED  BY <1>13, <1>b, <1>k, <2>1, <2>2, <2>3 DEF objectVars
<1>14. CASE ~InArray /\ ScalarStep("object") /\ UNCHANGED <<array, objectVars>>
  <2>1. StringBusy' => string'.value = <<>>
    BY <1>14, <1>a, <1>f, ScalarReads DEF ScalarFrame
  <2>2. ~InArray'  BY <1>14 DEF InArray, objectVars
  <2>3. frame \in ScalarFrame
    BY <1>14 DEF ScalarStep, StringStart, StringChar, StringInvalid, StringClose, StringEnd,
       NumberDigit, NumberDirect, NumberInvalid, NumberEnd, NumberRestDone, ScalarFrame
  <2>4. state # "NotStarted" /\ state # "PreComma"
    BY <1>a, <2>3 DEF CallInv, ScalarFrame, Reads, StringBusy, NumberBusy, InArray
  <2> QED  BY <1>14, <1>b, <1>k, <2>1, <2>2, <2>4 DEF objectVars
<1> USE <1>a, <1>b, <1>c, <1>d, <1>e, <1>f, <1>g, <1>h, <1>i
    DEF InObject, ReturnTo, Throw, ObjectNeedsMore, objectVars, kept, CallInv, StageInv, InArray,
        ArrayOrder, Returned, StringBusy, NumberBusy, Finished, Complete, Reads, ScalarFrame, ArrayFrame
<1>1. CASE SkipObjectBlank  BY <1>1 DEF SkipObjectBlank
<1>2. CASE EndObjectChunk  BY <1>2 DEF EndObjectChunk
<1>3. CASE WaitForParser  BY <1>3 DEF WaitForParser
<1>4. CASE OpenObject  BY <1>4 DEF OpenObject
<1>5. CASE ReadKey  BY <1>5 DEF ReadKey, EntryFrame
<1>6. CASE TakeKey  BY <1>6 DEF TakeKey
<1>7. CASE ReadColon  BY <1>7 DEF ReadColon
<1>8. CASE ReadValue  BY <1>8 DEF ReadValue, ValueFrame, EntryFrame
<1>9. CASE ResumeValue  BY <1>9 DEF ResumeValue, ValueFrame, EntryFrame
<1>10. CASE KeepValue
  <2>1. PICK v \in ValueOf(active) :
            /\ out' = [out EXCEPT ![active] = [given |-> TRUE, value |-> v]]
            /\ pairs' = Append(pairs, [field |-> active, value |-> v])
    <3>1. Kind[active] \in {"string", "number", "array"}
      BY <1>10 DEF KeepValue
    <3>2. /\ string.value \in Seq(Char) /\ number.value \in Seq(Digit)
          /\ array.out \in Seq(Seq(Char))
      BY DEF PoolTypeOK, ArrayTypeOK
    <3> QED  BY <1>10, <3>1, <3>2 DEF KeepValue, ValueOf
  <2>2. active \in Field /\ pairs \in Seq(Kept) /\ out = Meaning(pairs)
    BY <1>10, PairsAreKept DEF KeepValue, TypeOK, ReadInv
  <2>3. out' = Meaning(pairs)'  BY <2>1, <2>2, MeaningAppend, NextTexts
  <2>4. pairs' # <<>>  BY <2>1, <2>2, KeptIs
  <2>5. /\ state' = "PreComma" /\ frame' = "object"
        /\ string'.finished = string.finished
    BY <1>10 DEF KeepValue, PoolTypeOK
  <2>6. ~StringBusy'  BY <1>10, <2>5 DEF KeepValue, PoolInv
  <2>7. ~InArray'  BY <2>5
  <2> HIDE DEF InArray, StringBusy
  <2> QED  BY <2>3, <2>4, <2>5, <2>6, <2>7
<1>11. CASE NextPair  BY <1>11 DEF NextPair
<1>12. CASE CloseObject
  <2>1. text' # <<>>  BY <1>12, AdvanceFillsText DEF CloseObject, Char, Mark
  <2> QED  BY <1>12, <2>1 DEF CloseObject
<1> QED
  BY <1>1, <1>2, <1>3, <1>4, <1>5, <1>6, <1>7, <1>8, <1>9, <1>10, <1>11, <1>12, <1>13, <1>14
  DEF ObjectStep

LEMMA MissingNone ==
    ASSUME ReadInv, Missing = {}
    PROVE  Required \subseteq Fields(pairs)
<1>1. \A f \in Required : f \in Field /\ out[f].given
  BY FieldAssumption DEF Missing
<1> QED  BY <1>1, MeaningGives DEF ReadInv

(* At its '}' the object is the text read, with every required field. *)
LEMMA ClosedIsText ==
    ASSUME ControlInv, ReadInv, CloseObject, frame' # "failed"
    PROVE  WithoutGaps(text)' \in Texts(pairs)' /\ Required \subseteq Fields(pairs)'
<1>1. /\ frame = "object" /\ state \in {"PreKey", "PreComma"} /\ look = "}" /\ Advance
      /\ Missing = {} /\ UNCHANGED pairs
  BY DEF CloseObject, InObject, Throw, kept
<1>2. PoolTypeOK /\ ObjectReadIs  BY ObjectReadCases DEF ControlInv, TypeOK
<1>3. pairs \in Seq(Kept) /\ ObjectText(pairs) \in Seq(Char)  BY <1>2 DEF ObjectReadIs
<1>4. WithoutGaps(text) = ObjectRead  BY <1>1 DEF ReadInv, Complete
<1>5. "," \in Char /\ "}" \in Char /\ <<",">> \in Seq(Char) /\ <<"}">> \in Seq(Char)
  BY ObjectChars
<1>6. WithoutGaps(text)' = Append(ObjectRead, "}")
  BY <1>1, <1>2, <1>4, <1>5, TextGoesOn
<1>7. ObjectRead = ObjectText(pairs) => WithoutGaps(text)' = ObjectText(pairs) \o <<"}">>
  BY <1>3, <1>5, <1>6, AppendIsConcat
<1>8. CASE state = "PreKey" /\ pairs # <<>>
  <2>1. ObjectRead = Append(ObjectText(pairs), ",")
    BY <1>2, <1>3, <1>8, ObjectTextTyped DEF ObjectReadIs
  <2>2. Append(ObjectText(pairs), ",") = ObjectText(pairs) \o <<",">>
    BY <1>3, <1>5, AppendIsConcat
  <2>3. Append(ObjectText(pairs) \o <<",">>, "}") = ObjectText(pairs) \o Append(<<",">>, "}")
    <3>1. \A s, t \in Seq(Char) : \A c \in Char : Append(s \o t, c) = s \o Append(t, c)
      BY TextAppends
    <3> QED  BY <1>3, <1>5, <3>1
  <2>4. Append(<<",">>, "}") = <<",", "}">>
    <3>1. \A c, d \in Char : Append(<<c>>, d) = <<c, d>>  BY TwoInOrder
    <3> QED  BY <1>5, <3>1
  <2>5. WithoutGaps(text)' = ObjectText(pairs) \o <<",", "}">>
    BY <1>6, <2>1, <2>2, <2>3, <2>4
  <2>6. WithoutGaps(text)' \in Texts(pairs)  BY <1>8, <2>5 DEF Texts
  <2> QED  BY <1>1, <2>6, MissingNone, NextTexts
<1>9. CASE state = "PreKey" /\ pairs = <<>>
  <2>1. ObjectText(pairs) = BeforePair(pairs)
    BY <1>3, <1>9, CommaTyped, ConcatEmptySeq DEF BeforePair
  <2>2. WithoutGaps(text)' \in Texts(pairs)
    BY <1>2, <1>7, <1>9, <2>1 DEF ObjectReadIs, Texts
  <2> QED  BY <1>1, <2>2, MissingNone, NextTexts
<1>10. CASE state = "PreComma"
  <2>1. WithoutGaps(text)' \in Texts(pairs)
    BY <1>2, <1>7, <1>10 DEF ObjectReadIs, Texts
  <2> QED  BY <1>1, <2>1, MissingNone, NextTexts
<1> QED  BY <1>1, <1>8, <1>9, <1>10

LEMMA ObjectKeepsReadInv ==
    ASSUME ControlInv, ReadInv, frame # "failed", frame' # "failed", ObjectStep
    PROVE  ReadInv'
<1>a. PoolTypeOK /\ StageInv  BY DEF ControlInv, TypeOK
<1>b. frame # "caller"
  BY RunningStep
<1>1. CASE CloseObject
  <2>1. text' # <<>>
    BY <1>1, <1>a, AdvanceFillsText, ObjectChars DEF CloseObject
  <2>2. Complete' /\ state' = "NotStarted"
    BY <1>1, <2>1 DEF CloseObject, Complete, ReturnTo, Throw
  <2> QED  BY <1>1, <2>2, ClosedIsText, ObjectKeepsFlags DEF ReadInv
<1>2. CASE ~CloseObject
  <2>1. ~Complete /\ ~Complete'
    <3>1. frame' = "caller" => ~finished'
      BY <1>2, RunningStep DEF KeepValue
    <3> QED  BY <1>b, <3>1 DEF Complete
  <2>2. ObjectReadsOn  BY <1>2, ObjectReads
  <2>3. WithoutGaps(text) = ObjectRead  BY <2>1 DEF ReadInv
  <2>4. WithoutGaps(text)' = ObjectRead'
    BY <1>a, <2>2, <2>3, TextGoesOn DEF ObjectReadsOn
  <2> QED  BY <2>1, <2>4, ObjectKeepsFlags DEF ReadInv
<1> QED  BY <1>1, <1>2

(* The caller's steps. *)
LEMMA CallerKeepsReadInv ==
    ASSUME ControlInv, frame # "failed" => ReadInv, frame' # "failed",
           CallerStep \/ UNCHANGED vars
    PROVE  ReadInv'
<1>1. CASE Parse
  <2>1. /\ frame = "caller" /\ frame' = "object" /\ ret' = "none" /\ ~Complete /\ ReadInv
        /\ UNCHANGED <<text, buffer, scan, string, number, array, objectVars>>
    BY <1>1 DEF Parse
  <2>2. ~Complete' /\ (StringBusy' <=> StringBusy) /\ ~Returned /\ ~Returned'
        /\ (InArray' <=> InArray)
    BY <2>1 DEF Complete, StringBusy, Returned, InArray, objectVars
  <2>3. ObjectRead' = ObjectRead  BY <2>1, <2>2, ReadStays DEF objectVars, kept
  <2>4. ArrayOrder => ArrayOrder'
    BY <2>1, <2>2 DEF ArrayOrder, ScalarFrame, Finished
  <2> QED  BY <2>1, <2>2, <2>3, <2>4, NextTexts DEF ReadInv, objectVars, kept
<1>2. CASE Swap
  <2>1. /\ Complete /\ ReadInv /\ out' = NothingGiven /\ pairs' = <<>> /\ text' = <<>>
        /\ UNCHANGED <<frame, ret, buffer, scan, string, number, array, state, active>>
    BY <1>2 DEF Swap, Complete
  <2>2. state = "NotStarted" /\ ~Complete' /\ ~InArray'
    BY <2>1 DEF Complete, ControlInv, StageInv, InArray
  <2>3. ObjectRead' = <<>>  BY <2>1, <2>2 DEF ObjectRead
  <2>4. WithoutGaps(text)' = <<>>  BY <2>1, NextTexts, WithoutGapsEmpty
  <2>5. out' = Meaning(pairs)'  BY <2>1, NextTexts, MeaningEmpty
  <2>6. StringBusy' => string'.value = <<>>  BY <2>1 DEF StringBusy, ReadInv
  <2> QED  BY <2>1, <2>2, <2>3, <2>4, <2>5, <2>6 DEF ReadInv
<1>3. CASE Drop
  <2>1. /\ out' = NothingGiven /\ pairs' = <<>> /\ text' = <<>> /\ state' = "NotStarted"
        /\ frame' = "caller" /\ string'.finished
    BY <1>3 DEF Drop, NewPool
  <2>2. ~Complete' /\ ~InArray' /\ ~StringBusy'  BY <2>1 DEF Complete, InArray, StringBusy
  <2>3. ObjectRead' = <<>>  BY <2>1 DEF ObjectRead
  <2>4. WithoutGaps(text)' = <<>>  BY <2>1, NextTexts, WithoutGapsEmpty
  <2>5. out' = Meaning(pairs)'  BY <2>1, NextTexts, MeaningEmpty
  <2> QED  BY <2>1, <2>2, <2>3, <2>4, <2>5 DEF ReadInv
<1>4. CASE Fed \/ UNCHANGED vars
  <2>1. UNCHANGED <<frame, ret, text, buffer, scan, string, number, array, objectVars>>
    BY <1>4 DEF Fed, Feed, vars, poolVars
  <2>2. /\ (Complete' <=> Complete) /\ (StringBusy' <=> StringBusy) /\ (Returned' <=> Returned)
        /\ (InArray' <=> InArray)
    BY <2>1 DEF Complete, StringBusy, Returned, InArray, objectVars
  <2>3. ObjectRead' = ObjectRead  BY <2>1, <2>2, ReadStays DEF objectVars, kept
  <2>4. ArrayOrder => ArrayOrder'
    BY <2>1, <2>2 DEF ArrayOrder, Finished
  <2>5. ReadInv  BY <2>1
  <2> QED  BY <2>1, <2>2, <2>3, <2>4, <2>5, NextTexts DEF ReadInv, objectVars, kept
<1> QED  BY <1>1, <1>2, <1>3, <1>4 DEF CallerStep

LEMMA StartsInOrder == Init => IInv
<1> SUFFICES ASSUME Init PROVE IInv
  OBVIOUS
<1>1. /\ out = NothingGiven /\ pairs = <<>> /\ text = <<>> /\ state = "NotStarted"
      /\ frame = "caller" /\ string.finished
  BY DEF Init, PoolInit
<1>2. ~Complete /\ ~InArray /\ ~StringBusy  BY <1>1 DEF Complete, InArray, StringBusy
<1>3. ObjectRead = <<>> /\ WithoutGaps(text) = <<>> /\ out = Meaning(pairs)
  BY <1>1, WithoutGapsEmpty, MeaningEmpty DEF ObjectRead
<1> QED  BY <1>1, <1>2, <1>3, InitialState DEF IInv, ReadInv

(* In every reachable state what was read is in the pairs kept and in the   *)
(* pair being read, and the pairs kept are in out.                          *)
THEOREM Invariance == Spec => []IInv
<1>1. Init => IInv  BY StartsInOrder
<1>2. IInv /\ [Next]_vars => IInv'
  <2> SUFFICES ASSUME IInv, [Next]_vars PROVE IInv'
    OBVIOUS
  <2>1. ControlInv /\ (frame # "failed" => ReadInv)  BY DEF IInv
  <2>2. ControlInv'  BY <2>1, ControlKept
  <2>3. frame' # "failed" => ReadInv'
    <3> SUFFICES ASSUME frame' # "failed" PROVE ReadInv'
      OBVIOUS
    <3>1. CASE ObjectStep
      <4>1. frame # "failed"  BY <2>1, <3>1, RunningStep
      <4> QED  BY <2>1, <3>1, <4>1, ObjectKeepsReadInv
    <3>2. CASE ~ObjectStep
      <4>1. CallerStep \/ UNCHANGED vars
        BY <3>2, OfferIsFed DEF Next, Step, CallerStep
      <4> QED  BY <2>1, <4>1, CallerKeepsReadInv
    <3> QED  BY <3>1, <3>2
  <2> QED  BY <2>2, <2>3 DEF IInv
<1> QED  BY <1>1, <1>2, PTL DEF Spec

(* When Parse says it is finished, the characters read since the last Swap  *)
(* are an object of the pairs that were kept, out holds the last value of   *)
(* each of their fields, and no required field is missing.                  *)
THEOREM NothingLost == Spec => []OutIsWhatWasRead
<1>1. IInv => OutIsWhatWasRead
  BY DEF IInv, ReadInv, OutIsWhatWasRead, Complete
<1> QED  BY <1>1, Invariance, PTL

----------------------------------------------------------------------------
(* The texts of objects, as RefusesOnlyNonObjects needs them.  Keys that    *)
(* tell the fields apart, of characters that stand for themselves.          *)
KeysApart ==
    /\ Key \in Seq(Seq(Plain))
    /\ \A f, g \in Field : Key[f] = Key[g] => f = g

(* Pairs as texts can have them, of values of any length. *)
Sound(f) == IF Kind[f] = "array" THEN Seq(Item(ItemKind)) ELSE Item(Kind[f])
SoundPair == UNION {[field : {f}, value : Sound(f)] : f \in Field}
SoundTexts == {PairText(p) : p \in SoundPair}

LEMMA SoundIsValue ==
    ASSUME NEW f \in Field, NEW v \in Sound(f)
    PROVE  v \in ValueOf(f) /\ ValueText(f, v) \in Seq(Char) /\ ValueText(f, v) # <<>>
<1>1. Kind[f] \in {"string", "number", "array"}  BY FieldAssumption DEF Scalar
<1>2. CASE Kind[f] = "array"
  <2>1. v \in Seq(Item(ItemKind))  BY <1>2 DEF Sound
  <2>2. v \in Seq(Seq(Char))  BY <2>1, ItemTextsTyped
  <2>3. ValueText(f, v) = ArrayText(v)  BY <1>2 DEF ValueText
  <2> QED  BY <1>2, <2>1, <2>2, <2>3, ArrayTextTyped DEF ValueOf
<1>3. CASE Kind[f] # "array"
  <2>1. Kind[f] \in Scalar /\ v \in Item(Kind[f])  BY <1>1, <1>3 DEF Sound, Scalar
  <2>2. v \in Seq(Char) /\ (Kind[f] = "number" => v \in Seq(Digit))
    BY <2>1, ItemTyped DEF Item
  <2>3. ValueText(f, v) = TokenText(Kind[f], v)  BY <1>3 DEF ValueText
  <2>4. ValueText(f, v) \in Seq(Char) /\ ValueText(f, v) # <<>>  BY <2>1, <2>3, ItemTyped
  <2> QED  BY <1>1, <1>3, <2>2, <2>4 DEF ValueOf
<1> QED  BY <1>2, <1>3

LEMMA SoundIs ==
    /\ \A p \in SoundPair :
        p.field \in Field /\ p.value \in Sound(p.field) /\ p = [field |-> p.field, value |-> p.value]
    /\ \A f \in Field : \A v \in Sound(f) : [field |-> f, value |-> v] \in SoundPair
    /\ SoundPair \subseteq Kept
<1>1. \A p \in SoundPair :
        p.field \in Field /\ p.value \in Sound(p.field) /\ p = [field |-> p.field, value |-> p.value]
  BY DEF SoundPair
<1>2. \A f \in Field : \A v \in Sound(f) : [field |-> f, value |-> v] \in SoundPair
  BY DEF SoundPair
<1>3. ASSUME NEW p \in SoundPair PROVE p \in Kept
  <2>1. p.value \in ValueOf(p.field) /\ p.field \in Field  BY <1>1, SoundIsValue
  <2>2. [field |-> p.field, value |-> p.value] \in Kept  BY <2>1, KeptIs
  <2> QED  BY <1>1, <2>2
<1> QED  BY <1>1, <1>2, <1>3

(* A value is read from its text in one way. *)
LEMMA ValueApart ==
    ASSUME NEW f \in Field, NEW v \in Sound(f), NEW w \in Sound(f),
           NEW r \in Seq(Char), NEW t \in Seq(Char),
           Kind[f] = "number" => r # <<>> /\ t # <<>> /\ r[1] \notin Digit /\ t[1] \notin Digit,
           Agrees(ValueText(f, v) \o r, ValueText(f, w) \o t)
    PROVE  v = w
<1>1. Kind[f] \in {"string", "number", "array"}  BY FieldAssumption DEF Scalar
<1>2. CASE Kind[f] = "array"
  <2>1. v \in Seq(Item(ItemKind)) /\ w \in Seq(Item(ItemKind))  BY <1>2 DEF Sound
  <2>2. ValueText(f, v) = ArrayText(v) /\ ValueText(f, w) = ArrayText(w)
    BY <1>2 DEF ValueText
  <2>3. Agrees(ArrayText(v) \o r, ArrayText(w) \o t)  BY <2>2
  <2> QED  BY <2>1, <2>3, ArrayApart
<1>3. CASE Kind[f] # "array"
  <2>1. Kind[f] \in Scalar /\ v \in Item(Kind[f]) /\ w \in Item(Kind[f])
    BY <1>1, <1>3 DEF Sound, Scalar
  <2>2. ValueText(f, v) = TokenText(Kind[f], v) /\ ValueText(f, w) = TokenText(Kind[f], w)
    BY <1>3 DEF ValueText
  <2>3. Agrees(TokenText(Kind[f], v) \o r, TokenText(Kind[f], w) \o t)  BY <2>2
  <2> QED  BY <2>1, <2>3, TokenApart
<1> QED  BY <1>2, <1>3

(* So is a key, and what follows it goes on in the same way. *)
LEMMA KeyApart ==
    ASSUME NEW v \in Seq(Plain), NEW w \in Seq(Plain), NEW r \in Seq(Char), NEW t \in Seq(Char),
           Agrees(TokenText("string", v) \o r, TokenText("string", w) \o t)
    PROVE  v = w /\ Agrees(r, t)
<1>1. v \in Item("string") /\ w \in Item("string") /\ "string" \in Scalar  BY DEF Item, Scalar
<1>2. v = w  BY <1>1, TokenApart
<1> DEFINE x == TokenText("string", v)
<1>3. x \in Seq(Char)  BY <1>1, ItemTyped
<1>4. Agrees(x \o r, x \o t)  BY <1>2
<1> HIDE DEF x
<1>5. Agrees(r, t)  BY <1>3, <1>4, AgreesRest
<1> QED  BY <1>2, <1>5

LEMMA FieldApart ==
    ASSUME KeysApart, NEW f \in Field, NEW g \in Field, NEW r \in Seq(Char), NEW t \in Seq(Char),
           Agrees(KeyText(f) \o r, KeyText(g) \o t)
    PROVE  f = g /\ Agrees(r, t)
<1> DEFINE k(h) == TokenText("string", Key[h])
           c == <<":">>
<1>1. Key[f] \in Seq(Plain) /\ Key[g] \in Seq(Plain)  BY DEF KeysApart, Field
<1>2. k(f) \in Seq(Char) /\ k(g) \in Seq(Char) /\ c \in Seq(Char)  BY KeyTyped, ObjectChars
<1>3. KeyText(f) = k(f) \o c /\ KeyText(g) = k(g) \o c  BY DEF KeyText
<1>4. c \o r \in Seq(Char) /\ c \o t \in Seq(Char)  BY <1>2, ConcatProperties
<1>5. (k(f) \o c) \o r = k(f) \o (c \o r) /\ (k(g) \o c) \o t = k(g) \o (c \o t)
  <2> HIDE DEF k, c
  <2> QED  BY <1>2, ConcatAssociative, SMTT(30)
<1>6. Agrees(k(f) \o (c \o r), k(g) \o (c \o t))  BY <1>3, <1>5
<1>7. Key[f] = Key[g] /\ Agrees(c \o r, c \o t)
  <2> DEFINE x == c \o r
             y == c \o t
  <2>1. x \in Seq(Char) /\ y \in Seq(Char)  BY <1>4
  <2>2. Agrees(TokenText("string", Key[f]) \o x, TokenText("string", Key[g]) \o y)  BY <1>6
  <2> HIDE DEF x, y, c
  <2>3. Key[f] = Key[g] /\ Agrees(x, y)  BY <1>1, <2>1, <2>2, KeyApart
  <2> QED  BY <2>3 DEF x, y
<1>8. f = g  BY <1>7 DEF KeysApart
<1> HIDE DEF c
<1>9. Agrees(r, t)  BY <1>2, <1>7, AgreesRest
<1> QED  BY <1>8, <1>9

(* How the text of a pair begins, and goes on behind its key. *)
LEMMA PairTextIs ==
    ASSUME NEW p \in SoundPair, NEW r \in Seq(Char)
    PROVE  /\ PairText(p) \in Seq(Char) /\ PairText(p) # <<>> /\ PairText(p)[1] = Quote
           /\ ValueText(p.field, p.value) \o r \in Seq(Char)
           /\ PairText(p) \o r = KeyText(p.field) \o (ValueText(p.field, p.value) \o r)
<1> DEFINE k == KeyText(p.field)
           v == ValueText(p.field, p.value)
           key == TokenText("string", Key[p.field])
           c == <<":">>
           q == <<Quote>>
<1>1. p.field \in Field /\ p.value \in Sound(p.field)  BY SoundIs
<1>2. k \in Seq(Char) /\ key \in Seq(Char)  BY <1>1, KeyTyped
<1>3. v \in Seq(Char)  BY <1>1, SoundIsValue
<1>4. PairText(p) = k \o v  BY DEF PairText
<1>5. key # <<>> /\ key[1] = Quote
  <2>1. Key[p.field] \in Seq(Char) /\ c \in Seq(Char)  BY <1>1, ObjectChars
  <2> DEFINE s == Key[p.field]
             e == <<>>
  <2>2. e \in Seq(Char) /\ key \o e = key  BY <1>2, EmptyIsSeq, ConcatEmptySeq
  <2>3. key \o e = q \o (s \o (q \o e)) /\ q \o e \in Seq(Char)  BY <2>1, <2>2, Quoted
  <2> HIDE DEF s, e, key
  <2>4. s \o (q \o e) \in Seq(Char)
    <3> DEFINE z == q \o e
    <3>1. z \in Seq(Char) /\ s \in Seq(Char)  BY <2>1, <2>3 DEF s
    <3> HIDE DEF z
    <3>2. s \o z \in Seq(Char)  BY <3>1, ConcatProperties
    <3> QED  BY <3>2 DEF z
  <2> DEFINE z == s \o (q \o e)
  <2>5. z \in Seq(Char) /\ key = q \o z  BY <2>2, <2>3, <2>4
  <2> HIDE DEF z
  <2> QED  BY <2>5, CharsApart, FirstComes
<1>6. k = key \o c /\ c \in Seq(Char)  BY ObjectChars DEF KeyText
<1> HIDE DEF k, v, key, c
<1>7. k # <<>> /\ k[1] = Quote  BY <1>2, <1>5, <1>6, FirstStays
<1>8. k \o v \in Seq(Char) /\ k \o v # <<>> /\ (k \o v)[1] = Quote  BY <1>2, <1>3, <1>7, FirstStays
<1>9. v \o r \in Seq(Char) /\ (k \o v) \o r = k \o (v \o r)
  BY <1>2, <1>3, ConcatProperties, ConcatAssociative
<1> QED  BY <1>4, <1>8, <1>9 DEF k, v

LEMMA PairApart ==
    ASSUME KeysApart, NEW p \in SoundPair, NEW q \in SoundPair,
           NEW r \in Seq(Char), NEW t \in Seq(Char),
           Kind[p.field] = "number" =>
               r # <<>> /\ t # <<>> /\ r[1] \notin Digit /\ t[1] \notin Digit,
           Agrees(PairText(p) \o r, PairText(q) \o t)
    PROVE  p = q
<1> DEFINE x == ValueText(p.field, p.value) \o r
           y == ValueText(q.field, q.value) \o t
<1>1. /\ p.field \in Field /\ p.value \in Sound(p.field) /\ p = [field |-> p.field, value |-> p.value]
      /\ q.field \in Field /\ q.value \in Sound(q.field) /\ q = [field |-> q.field, value |-> q.value]
  BY SoundIs
<1>2. x \in Seq(Char) /\ PairText(p) \o r = KeyText(p.field) \o x  BY PairTextIs
<1>3. y \in Seq(Char) /\ PairText(q) \o t = KeyText(q.field) \o y  BY PairTextIs
<1>4. Agrees(KeyText(p.field) \o x, KeyText(q.field) \o y)  BY <1>2, <1>3
<1> HIDE DEF x, y
<1>5. p.field = q.field /\ Agrees(x, y)  BY <1>1, <1>2, <1>3, <1>4, FieldApart
<1>6. Agrees(ValueText(p.field, p.value) \o r, ValueText(p.field, q.value) \o t)
  BY <1>5 DEF x, y
<1>7. p.value = q.value
  <2>1. q.value \in Sound(p.field)  BY <1>1, <1>5
  <2> QED  BY <1>1, <1>6, <2>1, ValueApart
<1> QED  BY <1>1, <1>5, <1>7

(* Texts of pairs may be listed: the mark behind one shows where it ends.   *)
LEMMA PairsListable ==
    ASSUME KeysApart
    PROVE  Listable(SoundTexts)
<1>1. ASSUME NEW p \in SoundPair
      PROVE  PairText(p) \in Seq(Char) /\ PairText(p) # <<>> /\ PairText(p)[1] = Quote
  <2> DEFINE z == <<>>
  <2>1. z \in Seq(Char)  BY EmptyIsSeq
  <2> HIDE DEF z
  <2> QED  BY <2>1, PairTextIs
<1>2. Quote \notin Closing  BY CharsApart, ClosingIsMark
<1>3. ASSUME NEW x \in SoundTexts, NEW y \in SoundTexts, NEW c \in Mark, NEW d \in Mark,
             Agrees(x \o <<c>>, y \o <<d>>)
      PROVE  x = y
  <2>1. PICK p \in SoundPair : x = PairText(p)  BY DEF SoundTexts
  <2>2. PICK q \in SoundPair : y = PairText(q)  BY DEF SoundTexts
  <2> DEFINE r == <<c>>
             t == <<d>>
  <2>3. c \in Char /\ d \in Char /\ c \notin Digit /\ d \notin Digit  BY CharsApart
  <2>4. /\ r \in Seq(Char) /\ r # <<>> /\ r[1] \notin Digit
        /\ t \in Seq(Char) /\ t # <<>> /\ t[1] \notin Digit
    BY <2>3
  <2>5. Agrees(PairText(p) \o r, PairText(q) \o t)  BY <1>3, <2>1, <2>2
  <2> HIDE DEF r, t
  <2>6. p = q  BY <2>4, <2>5, PairApart
  <2> QED  BY <2>1, <2>2, <2>6
<1>4. \A x \in SoundTexts : x \in Seq(Char) /\ x # <<>> /\ x[1] \notin Closing
  BY <1>1, <1>2 DEF SoundTexts
<1> QED  BY <1>3, <1>4 DEF Listable

LEMMA PairTextsTyped ==
    ASSUME NEW ps \in Seq(SoundPair)
    PROVE  /\ ps \in Seq(Kept)
           /\ PairTexts(ps) \in Seq(SoundTexts) /\ PairTexts(ps) \in Seq(Seq(Char))
           /\ Len(PairTexts(ps)) = Len(ps)
           /\ \A i \in 1..Len(ps) : PairTexts(ps)[i] = PairText(ps[i])
<1> DEFINE m == PairTexts(ps)
           n == Len(ps)
<1>1. \A p \in SoundPair : PairText(p) \in SoundTexts  BY DEF SoundTexts
<1>2. SoundPair \subseteq Kept  BY SoundIs
<1>3. SoundTexts \subseteq Seq(Char)  BY <1>2, PairTyped DEF SoundTexts
<1>4. DOMAIN ps = 1..n /\ n \in Nat /\ \A i \in 1..n : ps[i] \in SoundPair  OBVIOUS
<1>5. /\ DOMAIN m = 1..n /\ m = [i \in DOMAIN m |-> m[i]]
      /\ \A i \in 1..n : m[i] = PairText(ps[i])
  BY <1>4 DEF PairTexts
<1>6. \A i \in 1..n : m[i] \in SoundTexts  BY <1>1, <1>4, <1>5
<1>7. ps \in Seq(Kept)  BY <1>2, SeqOfSubset
<1> HIDE DEF m, n
<1>8. m \in Seq(SoundTexts) /\ Len(m) = n  BY <1>4, <1>5, <1>6, FunctionIsSeq
<1>9. m \in Seq(Seq(Char))  BY <1>3, <1>8, SeqOfSubset
<1> QED  BY <1>5, <1>7, <1>8, <1>9 DEF m, n

(* The units of an object's text, behind its '{'.  The last one closes it:  *)
(* it is the last pair's with '}', or after a ',' only '}'.                 *)
Trailing(ts, e) == Append(Marked(ts), <<e>>)

Units(ps, us) ==
    \/ us = Whole(PairTexts(ps), "}")
    \/ ps # <<>> /\ us = Trailing(PairTexts(ps), "}")

LEMMA OpenIsUnits ==
    ASSUME NEW ps \in Seq(Kept)
    PROVE  /\ BeforePair(ps) = <<"{">> \o FlattenSeq(Marked(PairTexts(ps)))
           /\ FlattenSeq(Marked(PairTexts(ps))) \in Seq(Char)
           /\ FlattenSeq(Whole(PairTexts(ps), "}")) \in Seq(Char)
           /\ ObjectText(ps) \o <<"}">> = <<"{">> \o FlattenSeq(Whole(PairTexts(ps), "}"))
<1> DEFINE o == <<"{">>
           ts == PairTexts(ps)
           s == Separated(ts)
           c == Comma(Len(ts) + 1)
           e == "}"
           q == <<e>>
<1>1. ts \in Seq(Seq(Char)) /\ Len(ts) = Len(ps)
  <2>1. DOMAIN ps = 1..Len(ps) /\ Len(ps) \in Nat /\ \A i \in 1..Len(ps) : ps[i] \in Kept
    OBVIOUS
  <2>2. \A i \in 1..Len(ps) : PairText(ps[i]) \in Seq(Char)  BY <2>1, PairTyped
  <2> QED  BY <2>1, <2>2 DEF PairTexts
<1>2. o \in Seq(Char) /\ e \in Char /\ q \in Seq(Char)  BY ObjectChars
<1>3. BeforePair(ps) = (o \o s) \o c  BY <1>1 DEF BeforePair, ObjectText
<1>4. ObjectText(ps) \o q = (o \o s) \o q  BY DEF ObjectText
<1> HIDE DEF ts, e
<1>5. s \o c = FlattenSeq(Marked(ts)) /\ s \o q = FlattenSeq(Whole(ts, e))
  BY <1>1, <1>2, MarkedIsText, WholeIsText
<1>6. s \in Seq(Char) /\ c \in Seq(Char)  BY <1>1, SeparatedTyped, CommaTyped
<1> HIDE DEF o, s, c, q
<1>7. /\ (o \o s) \o c = o \o (s \o c) /\ (o \o s) \o q = o \o (s \o q)
      /\ s \o c \in Seq(Char) /\ s \o q \in Seq(Char)
  <2>1. o \in Seq(Char) /\ s \in Seq(Char) /\ c \in Seq(Char) /\ q \in Seq(Char)  BY <1>2, <1>6
  <2>2. o \o (s \o c) = (o \o s) \o c  BY <2>1, PairRegroups
  <2>3. o \o (s \o q) = (o \o s) \o q  BY <2>1, PairRegroups
  <2>4. s \o c \in Seq(Char) /\ s \o q \in Seq(Char)  BY <2>1, PairRegroups
  <2> QED  BY <2>2, <2>3, <2>4
<1> QED  BY <1>3, <1>4, <1>5, <1>7 DEF o, q, e, ts

LEMMA TrailingIsUnits ==
    ASSUME NEW ps \in Seq(Kept), ps # <<>>
    PROVE  /\ ObjectText(ps) \o <<",", "}">> = <<"{">> \o FlattenSeq(Trailing(PairTexts(ps), "}"))
           /\ FlattenSeq(Trailing(PairTexts(ps), "}")) \in Seq(Char)
<1> DEFINE o == <<"{">>
           m == Marked(PairTexts(ps))
           e == "}"
           q == <<e>>
           c == ","
           d == <<c>>
           t == ObjectText(ps)
<1>1. o \in Seq(Char) /\ e \in Char /\ q \in Seq(Char) /\ c \in Char /\ d \in Seq(Char)
  BY ObjectChars
<1>2. t \in Seq(Char) /\ BeforePair(ps) = Append(t, c)  BY ObjectTextTyped
<1>3. BeforePair(ps) = o \o FlattenSeq(m) /\ FlattenSeq(m) \in Seq(Char)  BY OpenIsUnits
<1>4. m \in Seq(Seq(Char))
  <2> DEFINE T == Seq(Char)
             ts == PairTexts(ps)
  <2>1. ts \in Seq(T)
    <3>1. DOMAIN ps = 1..Len(ps) /\ Len(ps) \in Nat /\ \A i \in 1..Len(ps) : ps[i] \in Kept
      OBVIOUS
    <3>2. \A i \in 1..Len(ps) : PairText(ps[i]) \in Seq(Char)  BY <3>1, PairTyped
    <3> QED  BY <3>1, <3>2 DEF PairTexts
  <2>2. T \subseteq Seq(Char)  OBVIOUS
  <2> HIDE DEF T, ts
  <2>3. Marked(ts) \in Seq(Ended(T, e)) /\ Ended(T, e) \subseteq Seq(Char)
    BY <1>1, <2>1, <2>2, MarkedTyped
  <2> QED  BY <2>3, SeqOfSubset DEF ts
<1>5. FlattenSeq(Append(m, q)) = FlattenSeq(m) \o q  BY <1>1, <1>4, FlattenAppend
<1>6. <<c, e>> = Append(<<c>>, e)
  <2> HIDE DEF c, e
  <2> QED  BY <1>1, TwoInOrder
<1> DEFINE w == FlattenSeq(m)
<1> HIDE DEF o, m, q, t, w, e, c
<1>7. Append(d, e) = d \o q /\ Append(t, c) = t \o d
  BY <1>1, <1>2, AppendIsConcat DEF q
<1>8. t \o (d \o q) = (t \o d) \o q
  <2> HIDE DEF d
  <2> QED  BY <1>1, <1>2, ConcatAssociative
<1>9. w \in Seq(Char) /\ t \o d = o \o w  BY <1>2, <1>3, <1>7 DEF w
<1>10. (o \o w) \o q = o \o (w \o q) /\ w \o q \in Seq(Char)
  BY <1>1, <1>9, ConcatAssociative, ConcatProperties
<1>11. t \o <<c, e>> = o \o FlattenSeq(Append(m, q))
  BY <1>5, <1>6, <1>7, <1>8, <1>9, <1>10 DEF w
<1>12. FlattenSeq(Append(m, q)) \in Seq(Char)  BY <1>5, <1>10 DEF w
<1> QED  BY <1>11, <1>12 DEF t, c, e, o, m, q, Trailing

LEMMA BoundedIsSeq ==
    ASSUME NEW S, NEW T, S \subseteq T, NEW n \in Nat, NEW s \in BoundedSeq(S, n)
    PROVE  s \in Seq(T)
<1>1. PICK m \in 0..n : s \in [1..m -> S]  BY DEF BoundedSeq, SeqOf
<1> QED  BY <1>1

LEMMA NextPlace == \A n, m \in Nat : n + 1 \in 1..m <=> n < m
OBVIOUS

LEMMA BehindSame ==
    ASSUME NEW x \in Seq(Char), NEW c \in Char, NEW w \in Seq(Char), NEW d \in Char,
           Append(x, c) = Append(w, d)
    PROVE  x = w /\ c = d
BY AppendInjective

(* Each unit belongs to the pair of its place, and closes the object only   *)
(* behind the last one.                                                     *)
UnitOf(qs, u, i) ==
    \/ u = <<"}">> /\ i = Len(qs) + 1
    \/ /\ i \in 1..Len(qs)
       /\ \E c \in {",", "}"} :
            u = Append(PairText(qs[i]), c) /\ (c = "}" => i = Len(qs))

LEMMA UnitsTyped ==
    ASSUME KeysApart, NEW qs \in Seq(SoundPair), NEW ws, Units(qs, ws)
    PROVE  /\ ws \in Seq(Ended(SoundTexts, "}")) /\ EndsWhole(SoundTexts, ws)
           /\ \A i \in 1..Len(ws) : UnitOf(qs, ws[i], i)
           /\ FlattenSeq(ws) \in Seq(Char)
<1> DEFINE T == SoundTexts
           e == "}"
           ts == PairTexts(qs)
           n == Len(qs)
<1>1. /\ ts \in Seq(T) /\ Len(ts) = n /\ n \in Nat /\ qs \in Seq(Kept)
      /\ \A i \in 1..n : ts[i] = PairText(qs[i])
  BY PairTextsTyped
<1>2. e \in Closing /\ e \in Char  BY ObjectChars DEF Closing
<1>3. Listable(T)  BY PairsListable
<1>4. T \subseteq Seq(Char) /\ <<>> \notin T /\ Apart(Ended(T, e))  BY <1>2, <1>3, EndedApart
<1>5. \A i \in 1..n : ts[i] \in T  BY <1>1
<1>a. e \in Char /\ ts \in Seq(T) /\ T \subseteq Seq(Char)  BY <1>1, <1>2, <1>4
<1>b. Len(ts) = n /\ n \in Nat  BY <1>1
<1> HIDE DEF T, ts, n, e
<1>6. CASE ws = Whole(ts, e)
  <2>1. /\ ws \in Seq(Ended(T, e)) /\ Len(ws) = (IF ts = <<>> THEN 1 ELSE Len(ts))
        /\ ts = <<>> => ws[1] = <<e>>
        /\ \A i \in 1..Len(ts) : ws[i] = Append(ts[i], IF i = Len(ts) THEN e ELSE ",")
    BY <1>6, <1>a, WholeTyped
  <2>2. EndsWhole(T, ws)  BY <1>1, <1>2, <1>4, <1>6, WholeEnds
  <2>3. ASSUME NEW i \in 1..Len(ws) PROVE UnitOf(qs, ws[i], i)
    <3>1. CASE ts = <<>>
      <4>a. Len(ws) = 1 /\ ws[1] = <<e>> /\ Len(ts) = 0  BY <2>1, <3>1, EmptySeq
      <4>1. n = 0 /\ i = 1  BY <1>b, <4>a
      <4>b. ws[i] = <<"}">>  BY <4>a, <4>1 DEF e
      <4>c. i = n + 1  BY <4>1
      <4>2. ws[i] = <<"}">> /\ i = Len(qs) + 1  BY <4>b, <4>c DEF n
      <4> QED  BY <4>2 DEF UnitOf
    <3>2. CASE ts # <<>>
      <4>a. Len(ws) = n  BY <1>b, <2>1, <3>2
      <4>1. i \in 1..n  BY <4>a
      <4> DEFINE c == IF i = n THEN e ELSE ","
      <4>2. ws[i] = Append(PairText(qs[i]), c)  BY <1>1, <2>1, <4>1
      <4>3. c \in {",", "}"} /\ (c = "}" => i = n)  BY DEF e
      <4> HIDE DEF c
      <4> QED  BY <4>1, <4>2, <4>3 DEF UnitOf, n
    <3> QED  BY <3>1, <3>2
  <2>4. FlattenSeq(ws) \in Seq(Char)  BY <1>1, <1>6, OpenIsUnits DEF ts, e
  <2> QED  BY <2>1, <2>2, <2>3, <2>4 DEF T, e
<1>7. CASE qs # <<>> /\ ws = Trailing(ts, e)
  <2> DEFINE m == Marked(ts)
             z == <<e>>
  <2>1. /\ m \in Seq(Ended(T, e)) /\ Len(m) = n
        /\ \A i \in 1..n : m[i] = Append(ts[i], ",")
        /\ Ended(T, e) \subseteq Seq(Char)
    BY <1>a, <1>b, MarkedTyped
  <2>2. z \in Ended(T, e)  BY DEF Ended
  <2>3. ws = Append(m, z)  BY <1>7 DEF Trailing
  <2>n. n \in Nat  BY <1>1
  <2> HIDE DEF m, z
  <2>4. /\ ws \in Seq(Ended(T, e)) /\ Len(ws) = n + 1 /\ ws[n + 1] = z
        /\ \A i \in 1..n : ws[i] = m[i]
    <3> DEFINE U == Ended(T, e)
    <3>1. m \in Seq(U) /\ z \in U /\ Len(m) = n  BY <2>1, <2>2
    <3> HIDE DEF U
    <3> QED  BY <2>3, <3>1, AppendProperties DEF U
  <2>5. ASSUME NEW x \in T PROVE z # Append(x, ",")
    <3>1. x \in Seq(Char) /\ x # <<>>  BY <1>4
    <3> DEFINE c == ","
               y == <<>>
    <3>2. c \in Char /\ y \in Seq(Char) /\ c # e  BY CommaIsChar, EmptyIsSeq DEF e
    <3>3. z = Append(y, e)  BY DEF z
    <3> HIDE DEF c, y, e
    <3>4. Append(y, e) # Append(x, c)  BY <1>2, <3>1, <3>2, AppendInjective
    <3> QED  BY <3>3, <3>4 DEF c
  <2>6. EndsWhole(T, ws)
    <3>1. ws[Len(ws)] = z  BY <2>4
    <3>2. ws # <<>>
      <4>a. Len(ws) = n + 1  BY <2>4
      <4>1. Len(ws) # 0  BY <2>n, <4>a
      <4> QED  BY <2>4, <4>1, EmptySeq
    <3> QED  BY <2>5, <3>1, <3>2 DEF EndsWhole
  <2>7. ASSUME NEW i \in 1..Len(ws) PROVE UnitOf(qs, ws[i], i)
    <3>1. CASE i = n + 1  BY <2>4, <3>1 DEF UnitOf, n, z, e
    <3>2. CASE i # n + 1
      <4>a. Len(ws) = n + 1  BY <2>4
      <4>1. i \in 1..n  BY <2>n, <3>2, <4>a
      <4> DEFINE c == ","
      <4>2. ws[i] = Append(PairText(qs[i]), c)  BY <1>1, <2>1, <2>4, <4>1
      <4>3. c \in {",", "}"} /\ (c = "}" => i = n)  OBVIOUS
      <4> HIDE DEF c
      <4> QED  BY <4>1, <4>2, <4>3 DEF UnitOf, n
    <3> QED  BY <3>1, <3>2
  <2>8. FlattenSeq(ws) \in Seq(Char)  BY <1>1, <1>7, TrailingIsUnits DEF ts, e
  <2> QED  BY <2>4, <2>6, <2>7, <2>8 DEF T, e
<1> QED  BY <1>6, <1>7 DEF Units, ts, e

(* What goes on as r where some pairs were read: the end of the object, or  *)
(* one more pair and what is behind it.                                     *)
Behind(r, p, c) == Agrees(r, PairText(p) \o <<c>>)

Follows(ps, r, qs) ==
    /\ Len(ps) <= Len(qs) /\ \A i \in 1..Len(ps) : ps[i] = qs[i]
    /\ \/ Len(qs) = Len(ps) /\ Agrees(r, <<"}">>)
       \/ /\ Len(ps) < Len(qs)
          /\ \E c \in {",", "}"} :
               Behind(r, qs[Len(ps) + 1], c) /\ (c = "}" => Len(qs) = Len(ps) + 1)

LEMMA SamePair ==
    ASSUME KeysApart, NEW p \in SoundPair, NEW q \in SoundPair, PairText(p) = PairText(q)
    PROVE  p = q
<1> DEFINE z == <<",">>
           x == PairText(p)
<1>1. z \in Seq(Char) /\ z # <<>> /\ z[1] \notin Digit  BY TextChars, CharsApart DEF Mark
<1>2. Agrees(x \o z, x \o z)  BY DEF Agrees
<1>3. Agrees(PairText(p) \o z, PairText(q) \o z)  BY <1>2
<1> HIDE DEF z, x
<1> QED  BY <1>1, <1>3, PairApart

LEMMA PairsGoOn ==
    ASSUME KeysApart, NEW ps \in Seq(SoundPair), NEW qs \in Seq(SoundPair),
           NEW ws, Units(qs, ws), NEW r \in Seq(Char),
           Agrees(FlattenSeq(Marked(PairTexts(ps))) \o r, FlattenSeq(ws))
    PROVE  Follows(ps, r, qs)
<1> DEFINE T == SoundTexts
           e == "}"
           us == PairTexts(ps)
           n == Len(ps)
           z == <<>>
<1>1. us \in Seq(T) /\ Len(us) = n /\ \A i \in 1..n : us[i] = PairText(ps[i])
  BY PairTextsTyped
<1>2. /\ ws \in Seq(Ended(T, e)) /\ EndsWhole(T, ws)
      /\ \A i \in 1..Len(ws) : UnitOf(qs, ws[i], i)
      /\ FlattenSeq(ws) \in Seq(Char)
  BY UnitsTyped
<1>3. e \in Closing /\ e \in Char  BY ObjectChars DEF Closing
<1>4. T \subseteq Seq(Char) /\ <<>> \notin T /\ Apart(Ended(T, e))
  BY <1>3, PairsListable, EndedApart
<1>5. z \in Seq(Char)  BY EmptyIsSeq
<1>6. FlattenSeq(ws) \o z = FlattenSeq(ws)  BY <1>2, ConcatEmptySeq
<1>7. Agrees(FlattenSeq(Marked(us)) \o r, FlattenSeq(ws) \o z)  BY <1>6
<1>8. n \in Nat /\ Len(qs) \in Nat /\ Len(ws) \in Nat
  <2>1. ws \in Seq(Ended(T, e))  BY <1>2
  <2> HIDE DEF T, e
  <2> QED  BY <2>1
<1>9. /\ \A i \in 1..n : ps[i] \in SoundPair /\ PairText(ps[i]) \in Seq(Char)
      /\ \A i \in 1..Len(qs) : qs[i] \in SoundPair /\ PairText(qs[i]) \in Seq(Char)
  BY SoundIs, PairTyped
<1> HIDE DEF T, us, n, z, e
<1>10. Len(us) < Len(ws) /\ (\A i \in 1..Len(us) : ws[i] = Append(us[i], ","))
       /\ Agrees(r, ws[Len(us) + 1])
  BY <1>1, <1>2, <1>3, <1>4, <1>5, <1>7, BegunAgrees
<1>11. /\ n < Len(ws) /\ \A i \in 1..n : ws[i] = Append(PairText(ps[i]), ",")
       /\ Agrees(r, ws[n + 1])
  BY <1>1, <1>10
<1>c. n < Len(ws) /\ Agrees(r, ws[n + 1])  BY <1>11
<1>d. n + 1 \in 1..Len(ws)  BY <1>8, <1>c
<1>12. ASSUME NEW i \in 1..n PROVE i \in 1..Len(qs) /\ ps[i] = qs[i]
  <2>1. i \in 1..Len(ws)  BY <1>8, <1>c
  <2>2. UnitOf(qs, ws[i], i)  BY <1>2, <2>1
  <2> DEFINE x == PairText(ps[i])
             c == ","
             y == <<>>
  <2>3. ws[i] = Append(x, c)  BY <1>11
  <2>4. x \in Seq(Char) /\ c \in Char /\ y \in Seq(Char) /\ c # e
    BY <1>9, CommaIsChar, EmptyIsSeq DEF e
  <2>5. CASE ws[i] = <<e>>
    <3>a. Append(y, e) = <<e>>  BY DEF y
    <3> HIDE DEF x, c, y
    <3>1. Append(x, c) = Append(y, e)  BY <2>3, <2>5, <3>a
    <3>2. c = e  BY <1>3, <2>4, <3>1, AppendInjective
    <3> QED  BY <2>4, <3>2
  <2>6. CASE ws[i] # <<e>>
    <3>1. i \in 1..Len(qs) /\ \E d \in {",", "}"} : ws[i] = Append(PairText(qs[i]), d)
      BY <2>2, <2>6 DEF UnitOf, e
    <3>2. PICK d \in {",", "}"} : ws[i] = Append(PairText(qs[i]), d)  BY <3>1
    <3> DEFINE w == PairText(qs[i])
    <3>3. w \in Seq(Char) /\ d \in Char  BY <1>9, <3>1, ObjectChars
    <3>4. Append(x, c) = Append(w, d)  BY <2>3, <3>2
    <3> HIDE DEF x, c, w
    <3>b. x \in Seq(Char) /\ c \in Char  BY <2>4
    <3>5. x = w  BY <3>3, <3>4, <3>b, BehindSame
    <3>6. ps[i] = qs[i]  BY <1>9, <3>1, <3>5, SamePair DEF x, w
    <3> QED  BY <3>1, <3>6
  <2> QED  BY <2>5, <2>6
<1>13. n <= Len(qs)
  <2> SUFFICES ASSUME Len(qs) < n PROVE FALSE
    BY <1>8
  <2>1. n \in 1..n  BY <1>8
  <2> QED  BY <1>8, <1>12, <2>1
<1>14. UnitOf(qs, ws[n + 1], n + 1)  BY <1>2, <1>d
<1>15. CASE ws[n + 1] = <<"}">> /\ n + 1 = Len(qs) + 1
  <2>1. n + 1 = Len(qs) + 1  BY <1>15
  <2>2. Len(qs) = n  BY <1>8, <2>1
  <2>3. Agrees(r, <<"}">>)  BY <1>c, <1>15
  <2> QED  BY <1>12, <1>13, <2>2, <2>3 DEF Follows, n
<1>16. ASSUME n + 1 \in 1..Len(qs), NEW c \in {",", "}"},
              ws[n + 1] = Append(PairText(qs[n + 1]), c), c = "}" => n + 1 = Len(qs)
       PROVE  Follows(ps, r, qs)
  <2>a. n + 1 \in 1..Len(qs)  BY <1>16
  <2>1. n < Len(qs)  BY <1>8, <2>a, NextPlace
  <2> DEFINE w == PairText(qs[n + 1])
  <2>2. w \in Seq(Char) /\ c \in Char  BY <1>9, <1>16, ObjectChars
  <2>3. Append(w, c) = w \o <<c>>  BY <2>2, AppendIsConcat
  <2>4. Agrees(r, w \o <<c>>)  BY <1>11, <1>16, <2>3
  <2>5. Behind(r, qs[n + 1], c)  BY <2>4 DEF Behind
  <2>6. c = "}" => Len(qs) = n + 1  BY <1>16
  <2> HIDE DEF w
  <2> QED  BY <1>12, <1>13, <1>16, <2>1, <2>5, <2>6 DEF Follows, n
<1> QED  BY <1>14, <1>15, <1>16 DEF UnitOf

LEMMA AppendedIs ==
    ASSUME NEW S, NEW s \in Seq(S), NEW e \in S
    PROVE  /\ Append(s, e) \in Seq(S) /\ Len(s) \in Nat /\ Len(Append(s, e)) = Len(s) + 1
           /\ Append(s, e)[Len(s) + 1] = e /\ \A i \in 1..Len(s) : Append(s, e)[i] = s[i]
BY AppendProperties

LEMMA PlacesBelow == \A n \in Nat : \A i \in 1..(n + 1) : i # n + 1 => i \in 1..n
OBVIOUS

(* The pairs of the texts known to RefusesOnlyNonObjects are such pairs. *)
LEMMA PairsAreSound ==
    ASSUME NEW ps \in PairList
    PROVE  ps \in Seq(SoundPair)
<1>1. Content \subseteq Plain  BY CharAssumption DEF Plain
<1>2. ASSUME NEW kind \in Scalar PROVE TokenOf(kind) \subseteq Item(kind)
  <2>1. CASE kind = "string"
    <3>1. BoundedSeq(Content, MaxToken) \subseteq Seq(Plain)
      BY <1>1, BoundedIsSeq, BoundAssumption
    <3> QED  BY <2>1, <3>1 DEF TokenOf, Item
  <2>2. CASE kind # "string"
    <3>1. BoundedSeq(Digit, MaxToken) \subseteq Seq(Digit)
      BY BoundedIsSeq, BoundAssumption
    <3> QED  BY <2>2, <3>1 DEF TokenOf, Item
  <2> QED  BY <2>1, <2>2
<1>3. ASSUME NEW p \in Pair PROVE p \in SoundPair
  <2> DEFINE V(f) == IF Kind[f] = "array" THEN BoundedSeq(TokenOf(ItemKind), MaxItems)
                     ELSE TokenOf(Kind[f])
  <2>1. PICK f \in Field : p \in [field : {f}, value : V(f)]  BY DEF Pair
  <2>2. V(f) \subseteq Sound(f)
    <3>1. CASE Kind[f] = "array"
      <4>1. BoundedSeq(TokenOf(ItemKind), MaxItems) \subseteq Seq(Item(ItemKind))
        BY <1>2, BoundedIsSeq, DocumentAssumption, ItemAssumption
      <4> QED  BY <3>1, <4>1 DEF Sound
    <3>2. CASE Kind[f] # "array"
      <4>1. Kind[f] \in Scalar  BY <3>2, FieldAssumption
      <4> QED  BY <1>2, <3>2, <4>1 DEF Sound
    <3> QED  BY <3>1, <3>2
  <2> HIDE DEF V
  <2>3. p \in [field : {f}, value : Sound(f)]  BY <2>1, <2>2
  <2> QED  BY <2>3 DEF SoundPair
<1>4. Pair \subseteq SoundPair  BY <1>3
<1> QED  BY <1>4, BoundedIsSeq, DocumentAssumption DEF PairList

LEMMA BeginningIs ==
    ASSUME NEW s \in Beginnings
    PROVE  \E qs \in Seq(SoundPair) : \E ws :
             /\ Units(qs, ws) /\ Required \subseteq Fields(qs)
             /\ FlattenSeq(ws) \in Seq(Char) /\ Agrees(s, <<"{">> \o FlattenSeq(ws))
<1>1. PICK qs \in Good : \E t \in Texts(qs) : s \in Prefixes(t)  BY DEF Beginnings
<1>2. PICK t \in Texts(qs) : s \in Prefixes(t)  BY <1>1
<1>3. qs \in Seq(SoundPair) /\ Required \subseteq Fields(qs)  BY PairsAreSound DEF Good
<1>4. qs \in Seq(Kept)  BY <1>3, PairTextsTyped
<1>5. PICK ws : Units(qs, ws) /\ t = <<"{">> \o FlattenSeq(ws) /\ FlattenSeq(ws) \in Seq(Char)
  <2>1. CASE t = ObjectText(qs) \o <<"}">>
    <3> DEFINE ws == Whole(PairTexts(qs), "}")
    <3>1. t = <<"{">> \o FlattenSeq(ws) /\ FlattenSeq(ws) \in Seq(Char)
      BY <1>4, <2>1, OpenIsUnits
    <3>2. Units(qs, ws)  BY DEF Units
    <3> QED  BY <3>1, <3>2
  <2>2. CASE qs # <<>> /\ t = ObjectText(qs) \o <<",", "}">>
    <3> DEFINE ws == Trailing(PairTexts(qs), "}")
    <3>1. t = <<"{">> \o FlattenSeq(ws) /\ FlattenSeq(ws) \in Seq(Char)
      BY <1>4, <2>2, TrailingIsUnits
    <3>2. Units(qs, ws)  BY <2>2 DEF Units
    <3> QED  BY <3>1, <3>2
  <2>3. t = ObjectText(qs) \o <<"}">> \/ (qs # <<>> /\ t = ObjectText(qs) \o <<",", "}">>)
    BY <1>2 DEF Texts
  <2> QED  BY <2>1, <2>2, <2>3
<1> DEFINE o == <<"{">>
           w == FlattenSeq(ws)
<1>6. t \in Seq(Char)
  <2>1. o \in Seq(Char) /\ w \in Seq(Char) /\ t = o \o w  BY <1>5, ObjectChars
  <2> HIDE DEF o, w
  <2> QED  BY <2>1, ConcatProperties
<1>7. Agrees(s, t)  BY <1>2, <1>6, PrefixesAgree
<1> QED  BY <1>3, <1>5, <1>7

LEMMA BeginsOpen ==
    ASSUME NEW s \in Seq(Char), s \in Beginnings, s # <<>>
    PROVE  s[1] = "{"
<1>1. PICK qs \in Seq(SoundPair) : \E ws :
        FlattenSeq(ws) \in Seq(Char) /\ Agrees(s, <<"{">> \o FlattenSeq(ws))
  BY BeginningIs
<1>2. PICK ws : FlattenSeq(ws) \in Seq(Char) /\ Agrees(s, <<"{">> \o FlattenSeq(ws))
  BY <1>1
<1> DEFINE c == "{"
           w == FlattenSeq(ws)
           t == <<c>> \o w
<1>3. c \in Char /\ w \in Seq(Char)  BY <1>2, ObjectChars
<1> HIDE DEF c, w
<1>4. t \in Seq(Char) /\ t # <<>> /\ t[1] = c  BY <1>3, FirstComes
<1>5. Agrees(s, t)  BY <1>2 DEF c, w
<1> HIDE DEF t
<1>6. s[1] = t[1]  BY <1>4, <1>5, AgreesFirst
<1> QED  BY <1>4, <1>6 DEF c

(* Where pairs were read and the text can still be the beginning of an      *)
(* object, that object begins with these pairs.                             *)
LEMMA ObjectGoesOn ==
    ASSUME KeysApart, NEW ps \in Seq(SoundPair), NEW r \in Seq(Char),
           BeforePair(ps) \o r \in Beginnings
    PROVE  \E qs \in Seq(SoundPair) : Required \subseteq Fields(qs) /\ Follows(ps, r, qs)
<1>1. PICK qs \in Seq(SoundPair) : \E ws :
             /\ Units(qs, ws) /\ Required \subseteq Fields(qs)
             /\ FlattenSeq(ws) \in Seq(Char)
             /\ Agrees(BeforePair(ps) \o r, <<"{">> \o FlattenSeq(ws))
  BY BeginningIs
<1>2. PICK ws : /\ Units(qs, ws) /\ FlattenSeq(ws) \in Seq(Char)
                /\ Agrees(BeforePair(ps) \o r, <<"{">> \o FlattenSeq(ws))
  BY <1>1
<1> DEFINE o == <<"{">>
           m == FlattenSeq(Marked(PairTexts(ps)))
           w == FlattenSeq(ws)
<1>3. ps \in Seq(Kept)  BY PairTextsTyped
<1>4. BeforePair(ps) = o \o m /\ m \in Seq(Char)  BY <1>3, OpenIsUnits
<1>5. o \in Seq(Char) /\ w \in Seq(Char)  BY <1>2, ObjectChars
<1>6. Agrees((o \o m) \o r, o \o w)  BY <1>2, <1>4
<1> HIDE DEF o, m, w
<1>7. o \o (m \o r) = (o \o m) \o r /\ m \o r \in Seq(Char)
  <2>1. o \o (m \o r) = (o \o m) \o r  BY <1>4, <1>5, PairRegroups
  <2> QED  BY <1>4, <2>1, ConcatProperties
<1>8. Agrees(o \o (m \o r), o \o w)  BY <1>6, <1>7
<1>9. Agrees(m \o r, w)  BY <1>5, <1>7, <1>8, AgreesRest
<1>10. Follows(ps, r, qs)  BY <1>2, <1>9, PairsGoOn DEF m, w
<1> QED  BY <1>1, <1>10

LEMMA FollowsOn ==
    ASSUME NEW ps, NEW r, NEW qs, Follows(ps, r, qs), ~Agrees(r, <<"}">>)
    PROVE  /\ Len(ps) < Len(qs) /\ \A i \in 1..Len(ps) : ps[i] = qs[i]
           /\ \E c \in {",", "}"} :
                Behind(r, qs[Len(ps) + 1], c) /\ (c = "}" => Len(qs) = Len(ps) + 1)
BY Zenon DEF Follows

LEMMA FollowsNot ==
    ASSUME NEW ps, NEW r, NEW qs, Follows(ps, r, qs),
           Len(ps) < Len(qs) => \A c \in {",", "}"} : ~Behind(r, qs[Len(ps) + 1], c)
    PROVE  Len(qs) = Len(ps) /\ \A i \in 1..Len(ps) : ps[i] = qs[i]
BY Zenon DEF Follows

LEMMA Refuted ==
    ASSUME KeysApart, NEW ps \in Seq(SoundPair), NEW r \in Seq(Char), ~Agrees(r, <<"}">>),
           \A q \in SoundPair : \A c \in {",", "}"} : ~Behind(r, q, c)
    PROVE  BeforePair(ps) \o r \notin Beginnings
<1> SUFFICES ASSUME BeforePair(ps) \o r \in Beginnings PROVE FALSE
  OBVIOUS
<1>1. PICK qs \in Seq(SoundPair) : Follows(ps, r, qs)  BY ObjectGoesOn
<1>2. Len(ps) < Len(qs)  BY <1>1, FollowsOn, Zenon
<1>3. \E c \in {",", "}"} : Behind(r, qs[Len(ps) + 1], c)  BY <1>1, FollowsOn, Zenon
<1>4. qs[Len(ps) + 1] \in SoundPair  BY <1>2, PlaceBehind
<1> QED  BY <1>3, <1>4, Zenon

LEMMA SameBut ==
    ASSUME NEW S, NEW f \in Seq(S), NEW p \in S, NEW qs \in Seq(S),
           Len(qs) = Len(f) + 1, p = qs[Len(f) + 1], \A i \in 1..Len(f) : f[i] = qs[i]
    PROVE  Append(f, p) = qs
<1> DEFINE g == Append(f, p)
           n == Len(f)
<1>1. /\ g \in Seq(S) /\ n \in Nat /\ Len(g) = n + 1 /\ g[n + 1] = p
      /\ \A i \in 1..n : g[i] = f[i]
  BY AppendedIs
<1> HIDE DEF g, n
<1>2. Len(qs) = n + 1 /\ p = qs[n + 1] /\ \A i \in 1..n : f[i] = qs[i]  BY DEF n
<1>3. ASSUME NEW i \in 1..(n + 1) PROVE g[i] = qs[i]
  <2>1. CASE i = n + 1  BY <1>1, <1>2, <2>1
  <2>2. CASE i # n + 1
    <3>1. i \in 1..n  BY <1>1, <2>2, PlacesBelow
    <3> QED  BY <1>1, <1>2, <3>1
  <2> QED  BY <2>1, <2>2
<1>4. g = qs  BY <1>1, <1>2, <1>3, SeqEqual
<1> QED  BY <1>4 DEF g

LEMMA PairStarts ==
    ASSUME NEW p \in SoundPair, NEW c \in Char
    PROVE  /\ PairText(p) \o <<c>> \in Seq(Char) /\ PairText(p) \o <<c>> # <<>>
           /\ (PairText(p) \o <<c>>)[1] = Quote
<1> DEFINE x == PairText(p)
           y == <<c>>
<1>1. y \in Seq(Char)  BY Single
<1> HIDE DEF y
<1>2. x \in Seq(Char) /\ x # <<>> /\ x[1] = Quote  BY <1>1, PairTextIs
<1> HIDE DEF x
<1>3. x \o y \in Seq(Char) /\ x \o y # <<>> /\ (x \o y)[1] = x[1]
  BY <1>1, <1>2, FirstStays
<1> QED  BY <1>2, <1>3 DEF x, y

(* The last pair that was read, and a character behind it. *)
LEMMA LastPairIs ==
    ASSUME KeysApart, NEW f \in Seq(SoundPair), NEW p \in SoundPair, NEW d \in Char,
           Kind[p.field] = "number" => d \notin Digit,
           ObjectText(Append(f, p)) \o <<d>> \in Beginnings
    PROVE  /\ d \in {",", "}"}
           /\ d = "}" => Required \subseteq Fields(Append(f, p))
<1> DEFINE b == BeforePair(f)
           x == PairText(p)
           z == <<d>>
           r == x \o z
           n == Len(f) + 1
<1>1. f \in Seq(Kept) /\ p \in Kept  BY PairTextsTyped, SoundIs
<1>2. b \in Seq(Char) /\ x \in Seq(Char) /\ z \in Seq(Char)
  <2>1. b \in Seq(Char)  BY <1>1, ObjectTextTyped
  <2>2. x \in Seq(Char)  BY <1>1, PairTyped
  <2>3. z \in Seq(Char)  BY Single
  <2> QED  BY <2>1, <2>2, <2>3
<1>3. ObjectText(Append(f, p)) = b \o x  BY <1>1, ObjectTextAppend
<1>4. b \o (x \o z) = (b \o x) \o z
  <2> HIDE DEF b, x, z
  <2> QED  BY <1>2, PairRegroups
<1>5. BeforePair(f) \o r \in Beginnings  BY <1>3, <1>4
<1>6. r \in Seq(Char) /\ r # <<>> /\ r[1] = Quote  BY PairStarts
<1>7. PICK qs \in Seq(SoundPair) : Required \subseteq Fields(qs) /\ Follows(f, r, qs)
  <2> HIDE DEF r
  <2> QED  BY <1>5, <1>6, ObjectGoesOn
<1>8. ~Agrees(r, <<"}">>)
  <2> DEFINE e == "}"
             y == <<e>>
  <2>1. y \in Seq(Char) /\ y # <<>> /\ y[1] = e /\ e # Quote  BY ObjectChars DEF Quote
  <2> HIDE DEF e, y, r
  <2>2. ~Agrees(r, y)  BY <1>6, <2>1, AgreesFirst
  <2> QED  BY <2>2 DEF y, e
<1>9. /\ Len(f) < Len(qs) /\ \A i \in 1..Len(f) : f[i] = qs[i]
      /\ \E c \in {",", "}"} :
           Behind(r, qs[Len(f) + 1], c) /\ (c = "}" => Len(qs) = Len(f) + 1)
  <2> HIDE DEF r
  <2> QED  BY <1>7, <1>8, FollowsOn, Zenon
<1>10. PICK c \in {",", "}"} :
         Behind(r, qs[Len(f) + 1], c) /\ (c = "}" => Len(qs) = Len(f) + 1)
  BY <1>9, Zenon
<1>11. Len(f) < Len(qs)  BY <1>9
<1>12. qs[n] \in SoundPair  BY <1>11, PlaceBehind
<1> DEFINE y == <<c>>
<1>13. /\ c \in Char /\ y \in Seq(Char) /\ y # <<>> /\ y[1] = c /\ c \notin Digit
       /\ z # <<>> /\ z[1] = d
  <2>1. c \in Char /\ c \in Mark  BY ObjectChars DEF Mark
  <2>2. c \notin Digit  BY <2>1, CharsApart
  <2>3. y \in Seq(Char) /\ y # <<>> /\ y[1] = c  BY <2>1, Single
  <2>4. z # <<>> /\ z[1] = d  BY Single
  <2> QED  BY <2>1, <2>2, <2>3, <2>4
<1>14. Agrees(PairText(p) \o z, PairText(qs[n]) \o y)
  <2>1. Behind(r, qs[n], c)  BY <1>10
  <2> QED  BY <2>1 DEF Behind
<1>15. p = qs[n]
  <2> HIDE DEF z, y, n
  <2> QED  BY <1>2, <1>12, <1>13, <1>14, PairApart
<1>16. c = d
  <2>1. Agrees(x \o z, x \o y)  BY <1>14, <1>15
  <2> HIDE DEF x, z, y
  <2>2. Agrees(z, y)  BY <1>2, <1>13, <2>1, AgreesRest
  <2>3. z[1] = y[1]  BY <1>2, <1>13, <2>2, AgreesFirst
  <2> QED  BY <1>13, <2>3
<1>17. ASSUME d = "}" PROVE Required \subseteq Fields(Append(f, p))
  <2>1. Len(qs) = Len(f) + 1  BY <1>10, <1>16, <1>17
  <2>2. p = qs[Len(f) + 1] /\ \A i \in 1..Len(f) : f[i] = qs[i]  BY <1>9, <1>15
  <2> HIDE DEF n, r, x, b
  <2>3. Append(f, p) = qs  BY <2>1, <2>2, SameBut
  <2> QED  BY <1>7, <2>3
<1> QED  BY <1>16, <1>17

LEMMA LastPairGoesOn ==
    ASSUME KeysApart, NEW ps \in Seq(SoundPair), ps # <<>>, NEW d \in Char,
           Kind[ps[Len(ps)].field] = "number" => d \notin Digit,
           ObjectText(ps) \o <<d>> \in Beginnings
    PROVE  /\ d \in {",", "}"}
           /\ d = "}" => Required \subseteq Fields(ps)
<1>1. PICK f \in Seq(SoundPair), p \in SoundPair : ps = Append(f, p)
  BY SequenceEmptyOrAppend
<1>2. ps[Len(ps)] = p  BY <1>1, AppendProperties
<1>3. Kind[p.field] = "number" => d \notin Digit  BY <1>2
<1>4. ObjectText(Append(f, p)) \o <<d>> \in Beginnings  BY <1>1
<1>5. d \in {",", "}"} /\ (d = "}" => Required \subseteq Fields(Append(f, p)))
  BY <1>3, <1>4, LastPairIs
<1> QED  BY <1>1, <1>5

(* An object may close only with every required field. *)
LEMMA ClosesWhole ==
    ASSUME KeysApart, NEW ps \in Seq(SoundPair), BeforePair(ps) \o <<"}">> \in Beginnings
    PROVE  Required \subseteq Fields(ps)
<1> DEFINE e == "}"
           r == <<e>>
           n == Len(ps) + 1
<1>1. e \in Char /\ r \in Seq(Char) /\ r # <<>> /\ r[1] = e /\ e # Quote
  BY ObjectChars DEF Quote
<1>2. BeforePair(ps) \o r \in Beginnings  OBVIOUS
<1>3. PICK qs \in Seq(SoundPair) : Required \subseteq Fields(qs) /\ Follows(ps, r, qs)
  <2> HIDE DEF r, e
  <2> QED  BY <1>1, <1>2, ObjectGoesOn
<1> HIDE DEF r, e
<1>4. ASSUME Len(ps) < Len(qs), NEW c \in {",", "}"} PROVE ~Behind(r, qs[n], c)
  <2>1. qs[n] \in SoundPair /\ c \in Char  BY <1>4, PlaceBehind, ObjectChars
  <2> DEFINE z == PairText(qs[n]) \o <<c>>
  <2>2. z \in Seq(Char) /\ z # <<>> /\ z[1] = Quote  BY <2>1, PairStarts
  <2> HIDE DEF z
  <2>3. ~Agrees(r, z)  BY <1>1, <2>2, AgreesFirst
  <2> QED  BY <2>3 DEF Behind, z
<1>5. Len(qs) = Len(ps) /\ \A i \in 1..Len(ps) : ps[i] = qs[i]
  BY <1>3, <1>4, FollowsNot
<1>6. ps = qs  BY <1>5, SeqEqual
<1> QED  BY <1>3, <1>6

----------------------------------------------------------------------------
(* What the parsers have looked at.  Where a digit was read last its number *)
(* or string is not over, or a character that ends the number was seen; a   *)
(* parser asks for the next chunk only at the end of this one.              *)
DigitFollows ==
    text # <<>> /\ text[Len(text)] \in Digit =>
        NumberBusy \/ StringBusy \/ look \in Char \ Digit

WaitsAtEnd == ret = "nullptr" => look \notin Char

LookInv ==
    /\ DigitFollows /\ WaitsAtEnd
    /\ frame = "caller" => look \notin Char
    /\ state = "ExpectKey" /\ Returned => look = Unread

LEMMA ScalarLooks ==
    ASSUME NEW back, back \notin ScalarFrame \cup {"failed"},
           PoolTypeOK, PoolInv, DigitFollows, WaitsAtEnd, ScalarStep(back), frame' # "failed"
    PROVE  /\ DigitFollows' /\ WaitsAtEnd'
           /\ frame' = back /\ ret' = "pointer" /\ frame = "string" => look' = Unread
<1>a. back # "string" /\ back # "number" /\ back # "numberRest" /\ back # "stringStart"
  BY DEF ScalarFrame
<1>b. /\ string \in [finished : BOOLEAN, value : Seq(Char)]
      /\ number \in [finished : BOOLEAN, value : Seq(Digit)]
  BY DEF PoolTypeOK
<1>c. EndOfChunk \notin Char /\ Quote \notin Digit  BY CharsApart
<1>d. frame \in ScalarFrame => ret = "none"  BY DEF PoolInv
<1> USE <1>a, <1>b, <1>c, <1>d
    DEF DigitFollows, WaitsAtEnd, StringBusy, NumberBusy, ScalarFrame, ReturnTo, Throw
<1>1. CASE StringStart  BY <1>1 DEF StringStart
<1>2. CASE StringChar  BY <1>2 DEF StringChar
<1>3. CASE StringInvalid  BY <1>3 DEF StringInvalid
<1>4. CASE StringClose(back)
  <2>1. /\ Advance /\ look = Quote /\ ret' = "pointer" /\ frame' = back
    BY <1>4 DEF StringClose
  <2>2. text'[Len(text')] \notin Digit  BY <2>1, AdvancedLast
  <2> QED  BY <2>1, <2>2 DEF Advance
<1>5. CASE StringEnd(back)  BY <1>5 DEF StringEnd
<1>6. CASE NumberDigit  BY <1>6 DEF NumberDigit
<1>7. CASE NumberDirect(back)  BY <1>7 DEF NumberDirect
<1>8. CASE NumberInvalid  BY <1>8 DEF NumberInvalid
<1>9. CASE NumberEnd(back)  BY <1>9 DEF NumberEnd
<1>10. CASE NumberRestDone(back)  BY <1>10 DEF NumberRestDone
<1> QED  BY <1>1, <1>2, <1>3, <1>4, <1>5, <1>6, <1>7, <1>8, <1>9, <1>10 DEF ScalarStep

LEMMA ArrayLooks ==
    ASSUME NEW back, back \notin ScalarFrame \cup ArrayFrame \cup {"failed"},
           PoolTypeOK, ArrayTypeOK, PoolInv, ArrayInv, DigitFollows, WaitsAtEnd,
           ArrayStep(back), frame' # "failed"
    PROVE  DigitFollows' /\ WaitsAtEnd'
<1>b. /\ "[" \notin Digit /\ "]" \notin Digit /\ "," \notin Digit
      /\ EndOfChunk \notin Char /\ Unread \notin Char
  BY CharsApart DEF Mark
<1>c. back # "string" /\ back # "number" /\ back # "numberRest"
  BY DEF ScalarFrame
<1> USE <1>b, <1>c DEF DigitFollows, WaitsAtEnd, StringBusy, NumberBusy, ReturnTo, Throw
<1>0. ASSUME Advance, look \notin Digit, UNCHANGED ret \/ ret' = "pointer"
      PROVE  DigitFollows' /\ WaitsAtEnd'
  <2>1. text'[Len(text')] \notin Digit /\ look' = Unread  BY <1>0, AdvancedLast DEF Advance
  <2> QED  BY <2>1
<1>s. ASSUME Skip PROVE  DigitFollows' /\ WaitsAtEnd'
  <2>1. text' = <<>> \/ text'[Len(text')] \notin Digit  BY <1>s, SkippedLast
  <2>2. look' = Unread  BY <1>s DEF Skip
  <2> QED  BY <2>1, <2>2
<1>1. CASE ResumeItem  BY <1>1 DEF ResumeItem, ArrayResumesItem, EntryFrame, Finished
<1>2. CASE OpenArray  BY <1>0, <1>2 DEF OpenArray
<1>3. CASE ResumeArray  BY <1>3 DEF ResumeArray, ArrayResumes, ResumedFrame
<1>4. CASE SkipArrayBlank  BY <1>s, <1>4 DEF SkipArrayBlank
<1>5. CASE EndArrayChunk(back)
  <2>1. CASE look = Nul /\ Skip  BY <1>s, <2>1
  <2>2. CASE look = EndOfChunk /\ UNCHANGED <<look, text>>
    <3>1. /\ frame \notin {"string", "number", "numberRest"}
          /\ UNCHANGED <<string, number>>
      BY <1>5 DEF EndArrayChunk, ArraySkips
    <3> QED  BY <2>2, <3>1
  <2> QED  BY <1>5, <2>1, <2>2 DEF EndArrayChunk
<1>6. CASE CloseArray(back)  BY <1>0, <1>6 DEF CloseArray
<1>7. CASE ReadItem  BY <1>7 DEF ReadItem, ArraySkips
<1>8. CASE KeepItem  BY <1>8 DEF KeepItem
<1>9. CASE WaitForItem(back)  BY <1>9 DEF WaitForItem, ArrayNeedsMore
<1>10. CASE Separate  BY <1>0, <1>10 DEF Separate
<1>11. CASE ScalarStep("arrayLoop")
  <2> HIDE DEF DigitFollows, WaitsAtEnd
  <2>1. "arrayLoop" \notin ScalarFrame \cup {"failed"}  BY DEF ScalarFrame
  <2> QED  BY <1>11, <2>1, ScalarLooks
<1> QED
  BY <1>1, <1>2, <1>3, <1>4, <1>5, <1>6, <1>7, <1>8, <1>9, <1>10, <1>11 DEF ArrayStep

(* The same of the object's own steps. *)
LEMMA ObjectLooks ==
    ASSUME ControlInv, LookInv, frame # "failed", frame' # "failed", ObjectStep
    PROVE  LookInv'
<1>a. TypeOK /\ PoolTypeOK /\ ArrayTypeOK /\ PoolInv /\ CallInv
  BY DEF ControlInv, TypeOK
<1>b. /\ "{" \notin Digit /\ "}" \notin Digit /\ ":" \notin Digit /\ "," \notin Digit
      /\ EndOfChunk \notin Char /\ Unread \notin Char
  BY CharsApart DEF Mark
<1>c. DigitFollows /\ WaitsAtEnd  BY DEF LookInv
<1>d. ASSUME Advance, look \notin Digit, ret' # "nullptr"
      PROVE  DigitFollows' /\ WaitsAtEnd' /\ look' = Unread
  <2>1. text'[Len(text')] \notin Digit /\ look' = Unread  BY <1>a, <1>d, AdvancedLast DEF Advance
  <2> QED  BY <1>b, <2>1 DEF DigitFollows, WaitsAtEnd
<1>e. ASSUME Skip PROVE  DigitFollows' /\ WaitsAtEnd' /\ look' = Unread
  <2>1. text' = <<>> \/ text'[Len(text')] \notin Digit  BY <1>a, <1>e, SkippedLast
  <2>2. look' = Unread  BY <1>e DEF Skip
  <2> QED  BY <1>b, <2>1, <2>2 DEF DigitFollows, WaitsAtEnd
<1>f. ASSUME UNCHANGED <<look, text>>, string'.finished = string.finished,
             number'.finished = number.finished,
             \/ frame \notin {"string", "number", "numberRest"}
             \/ frame' \in {"string", "number", "numberRest"}
      PROVE  DigitFollows'
  BY <1>c, <1>f DEF DigitFollows, StringBusy, NumberBusy
<1>1. CASE SkipObjectBlank
  <2>1. Skip /\ UNCHANGED <<frame, ret>> /\ frame = "object"  BY <1>1 DEF SkipObjectBlank, InObject
  <2> QED  BY <1>b, <1>e, <2>1 DEF LookInv
<1>2. CASE EndObjectChunk
  <2>1. /\ frame = "object" /\ frame' = "caller" /\ UNCHANGED <<string, number>>
        /\ (look = EndOfChunk /\ UNCHANGED <<look, text>>) \/ Skip
    BY <1>2 DEF EndObjectChunk, InObject, ObjectNeedsMore, ReturnTo
  <2>2. DigitFollows' /\ look' \notin Char  BY <1>b, <1>e, <1>f, <2>1
  <2> QED  BY <2>1, <2>2 DEF LookInv, WaitsAtEnd, Returned
<1>3. CASE WaitForParser
  <2>1. /\ frame = "object" /\ frame' = "caller" /\ ret = "nullptr"
        /\ UNCHANGED <<look, text, string, number>>
    BY <1>3 DEF WaitForParser, ObjectNeedsMore, ReturnTo
  <2>2. DigitFollows' /\ look' \notin Char  BY <1>c, <1>f, <2>1 DEF WaitsAtEnd
  <2> QED  BY <2>1, <2>2 DEF LookInv, WaitsAtEnd, Returned
<1>4. CASE OpenObject
  <2>1. Advance /\ look = "{" /\ UNCHANGED <<frame, ret>> /\ frame = "object" /\ ret = "none"
    BY <1>4 DEF OpenObject, InObject, Throw
  <2> QED  BY <1>b, <1>d, <2>1 DEF LookInv
<1>5. CASE ReadKey
  <2>1. /\ frame = "object" /\ ret = "none" /\ frame' \in {"stringStart", "string"}
        /\ UNCHANGED <<ret, look, text, string, number>>
    BY <1>5 DEF ReadKey, InObject, EntryFrame
  <2> QED  BY <1>c, <1>f, <2>1 DEF LookInv, WaitsAtEnd, Returned
<1>6. CASE TakeKey
  <2>1. /\ frame = "object" /\ frame' = "object" /\ ret' = "none"
        /\ UNCHANGED <<look, text, string, number>>
    BY <1>6 DEF TakeKey, Throw
  <2> QED  BY <1>f, <2>1 DEF LookInv, WaitsAtEnd, Returned
<1>7. CASE ReadColon
  <2>1. Advance /\ look = ":" /\ UNCHANGED <<frame, ret>> /\ frame = "object" /\ ret = "none"
    BY <1>7 DEF ReadColon, InObject, Throw
  <2> QED  BY <1>b, <1>d, <2>1 DEF LookInv
<1>8. CASE ReadValue
  <2>1. /\ frame = "object" /\ ret = "none" /\ frame' \in ScalarFrame \cup {"array"}
        /\ UNCHANGED <<ret, look, text, string, number>>
    BY <1>8 DEF ReadValue, InObject, ValueFrame, EntryFrame, ScalarFrame
  <2> QED  BY <1>f, <2>1 DEF LookInv, WaitsAtEnd, Returned, ScalarFrame
<1>9. CASE ResumeValue
  <2>1. /\ frame = "object" /\ ret = "none" /\ frame' \in ScalarFrame \cup {"array"}
        /\ UNCHANGED <<ret, look, text, string, number>>
    BY <1>9 DEF ResumeValue, InObject, ValueFrame, EntryFrame, ScalarFrame
  <2> QED  BY <1>f, <2>1 DEF LookInv, WaitsAtEnd, Returned, ScalarFrame
<1>10. CASE KeepValue
  <2>1. /\ frame = "object" /\ frame' = "object" /\ ret' = "none" /\ UNCHANGED <<look, text>>
        /\ string'.finished = string.finished /\ number'.finished = number.finished
    BY <1>a, <1>10 DEF KeepValue, PoolTypeOK
  <2> QED  BY <1>f, <2>1 DEF LookInv, WaitsAtEnd, Returned
<1>11. CASE NextPair
  <2>1. Advance /\ look = "," /\ UNCHANGED <<frame, ret>> /\ frame = "object" /\ ret = "none"
    BY <1>11 DEF NextPair, InObject, Throw
  <2> QED  BY <1>b, <1>d, <2>1 DEF LookInv
<1>12. CASE CloseObject
  <2>1. Advance /\ look = "}" /\ frame' = "caller" /\ ret' = "pointer"
    BY <1>12 DEF CloseObject, Throw, ReturnTo
  <2> QED  BY <1>b, <1>d, <2>1 DEF LookInv, Returned
<1>13. CASE InArray /\ ArrayStep("object") /\ UNCHANGED objectVars
  <2>1. ArrayInv  BY <1>a, <1>13 DEF CallInv, ArrayInv, Reads, InArray
  <2>2. "object" \notin ScalarFrame \cup ArrayFrame \cup {"failed"}  BY DEF ScalarFrame, ArrayFrame
  <2>3. DigitFollows' /\ WaitsAtEnd'  BY <1>a, <1>c, <1>13, <2>1, <2>2, ArrayLooks
  <2>4. state' # "ExpectKey"  BY <1>13 DEF InArray, objectVars
  <2>5. frame' # "caller"
    BY <1>13 DEF ArrayStep, ResumeItem, OpenArray, ResumeArray, ResumedFrame, SkipArrayBlank, ArraySkips,
       EndArrayChunk, CloseArray, ReadItem, KeepItem, WaitForItem, ArrayNeedsMore, Separate,
       EntryFrame, ReturnTo, Throw, ScalarStep, StringStart, StringChar, StringInvalid, StringClose,
       StringEnd, NumberDigit, NumberDirect, NumberInvalid, NumberEnd, NumberRestDone
  <2> QED  BY <2>3, <2>4, <2>5 DEF LookInv
<1>14. CASE ~InArray /\ ScalarStep("object") /\ UNCHANGED <<array, objectVars>>
  <2>2. "object" \notin ScalarFrame \cup {"failed"}  BY DEF ScalarFrame
  <2>3. /\ DigitFollows' /\ WaitsAtEnd'
        /\ frame' = "object" /\ ret' = "pointer" /\ frame = "string" => look' = Unread
    BY <1>a, <1>c, <1>14, <2>2, ScalarLooks
  <2>4. frame \in ScalarFrame /\ frame' \in ScalarFrame \cup {"object"}
    BY <1>14 DEF ScalarStep, StringStart, StringChar, StringInvalid, StringClose, StringEnd, ReturnTo,
       Throw, NumberDigit, NumberDirect, NumberInvalid, NumberEnd, NumberRestDone, ScalarFrame
  <2>5. state = "ExpectKey" => frame \in {"string", "stringStart"}
    BY <1>a, <2>4 DEF ScalarFrame, CallInv, NumberBusy, Reads, InArray
  <2>6. frame = "stringStart" => frame' # "object"
    BY <1>14 DEF ScalarStep, StringStart, StringChar, StringInvalid, StringClose, StringEnd,
       Throw, NumberDigit, NumberDirect, NumberInvalid, NumberEnd, NumberRestDone
  <2>7. state' = "ExpectKey" /\ Returned' => look' = Unread
    BY <1>14, <2>3, <2>5, <2>6 DEF objectVars, Returned
  <2> QED  BY <2>3, <2>4, <2>7 DEF LookInv, ScalarFrame
<1> QED
  BY <1>1, <1>2, <1>3, <1>4, <1>5, <1>6, <1>7, <1>8, <1>9, <1>10, <1>11, <1>12, <1>13, <1>14
  DEF ObjectStep

----------------------------------------------------------------------------
(* With what the object enters the parsers of its keys and values.  A call  *)
(* that goes on inside one does so in a parser that is not finished; a key  *)
(* does not begin where the object ends; and an array begins at a character.*)
AtCall == frame = "caller" \/ (frame = "object" /\ ret # "pointer")

EnterInv ==
    /\ AtCall /\ state = "ExpectKey" => ~string.finished
    /\ AtCall /\ state = "ExpectValue" /\ ~InArray => ~Finished(Kind[active])
    /\ state = "ExpectKey" /\ frame = "stringStart" => look # "}"
    /\ InArray => array.began \/ (frame = "array" /\ look \in Solid) \/ Returned

(* Where a scalar parser's step leads, and what it leaves of its flag. *)
LEMMA ScalarLeads ==
    ASSUME NEW back, back \notin ScalarFrame \cup {"failed"},
           PoolTypeOK, ScalarStep(back), frame' # "failed"
    PROVE  /\ frame \in ScalarFrame /\ frame' # "stringStart"
           /\ frame' \in ScalarFrame \/ (frame' = back /\ ret' \in {"pointer", "nullptr"})
           /\ frame' = back /\ ret' = "nullptr" =>
                 \/ frame = "string" /\ ~string'.finished
                 \/ frame \in {"number", "numberRest"} /\ ~number'.finished
           /\ frame' = back => frame # "stringStart"
<1>b. back # "string" /\ back # "number" /\ back # "numberRest" /\ back # "stringStart"
  BY DEF ScalarFrame
<1>d. /\ string \in [finished : BOOLEAN, value : Seq(Char)]
      /\ number \in [finished : BOOLEAN, value : Seq(Digit)]
  BY DEF PoolTypeOK
<1> USE <1>b, <1>d DEF ScalarFrame, ReturnTo, Throw
<1>1. CASE StringStart  BY <1>1 DEF StringStart
<1>2. CASE StringChar  BY <1>2 DEF StringChar
<1>3. CASE StringInvalid  BY <1>3 DEF StringInvalid
<1>4. CASE StringClose(back)  BY <1>4 DEF StringClose
<1>5. CASE StringEnd(back)  BY <1>5 DEF StringEnd
<1>6. CASE NumberDigit  BY <1>6 DEF NumberDigit
<1>7. CASE NumberDirect(back)  BY <1>7 DEF NumberDirect
<1>8. CASE NumberInvalid  BY <1>8 DEF NumberInvalid
<1>9. CASE NumberEnd(back)  BY <1>9 DEF NumberEnd
<1>10. CASE NumberRestDone(back)  BY <1>10 DEF NumberRestDone
<1> QED  BY <1>1, <1>2, <1>3, <1>4, <1>5, <1>6, <1>7, <1>8, <1>9, <1>10 DEF ScalarStep

LEMMA ObjectEnters ==
    ASSUME ControlInv, ReadInv, EnterInv, frame # "failed", frame' # "failed", ObjectStep
    PROVE  EnterInv'
<1>a. TypeOK /\ PoolTypeOK /\ ArrayTypeOK /\ PoolInv /\ CallInv /\ StageInv
  BY DEF ControlInv, TypeOK
<1>b. frame = "object" /\ ret = "none" => AtCall /\ ~Returned  BY DEF AtCall, Returned
<1>p. ASSUME frame = "object", frame' \in {"object", "caller"}, ret # "pointer",
             ret' # "pointer", UNCHANGED <<string, number, array, state, active>>
      PROVE  EnterInv'
  BY <1>p DEF EnterInv, AtCall, InArray, Returned, Finished
<1>q. ASSUME state' \notin {"ExpectKey", "ExpectValue"}
      PROVE  EnterInv'
  BY <1>q DEF EnterInv, InArray
<1>1. CASE SkipObjectBlank
  BY <1>1, <1>p DEF SkipObjectBlank, InObject, objectVars
<1>2. CASE EndObjectChunk
  BY <1>2, <1>p DEF EndObjectChunk, InObject, ObjectNeedsMore, ReturnTo
<1>3. CASE WaitForParser
  BY <1>3, <1>p DEF WaitForParser, ObjectNeedsMore, ReturnTo
<1>4. CASE OpenObject  BY <1>4, <1>q DEF OpenObject, Throw
<1>5. CASE ReadKey
  <2>1. /\ frame = "object" /\ ret = "none" /\ frame' = EntryFrame("string")
        /\ state' = "ExpectKey" /\ look' = look
        /\ \/ state = "PreKey" /\ look # "}"
           \/ state = "ExpectKey"
    BY <1>5 DEF ReadKey, InObject
  <2>2. frame' = "stringStart" => look' # "}"
    BY <1>b, <2>1 DEF EnterInv, EntryFrame
  <2>3. frame' \in {"string", "stringStart"}  BY <2>1 DEF EntryFrame
  <2> QED  BY <2>1, <2>2, <2>3 DEF EnterInv, AtCall, InArray
<1>6. CASE TakeKey  BY <1>6, <1>q DEF TakeKey, Throw
<1>7. CASE ReadColon  BY <1>7, <1>q DEF ReadColon, Throw
<1>8. CASE ReadValue
  <2>1. /\ state' = "ExpectValue" /\ look \in Solid /\ look' = look /\ active' = activating
        /\ frame' = ValueFrame(activating)
    BY <1>8 DEF ReadValue
  <2>2. InArray' => frame' = "array"  BY <2>1 DEF InArray, ValueFrame
  <2>3. frame' \in ScalarFrame \cup {"array"}  BY <2>1 DEF ValueFrame, EntryFrame, ScalarFrame
  <2> QED  BY <2>1, <2>2, <2>3 DEF EnterInv, AtCall, ScalarFrame
<1>9. CASE ResumeValue
  <2>1. /\ frame = "object" /\ ret = "none" /\ frame' = ValueFrame(active)
        /\ UNCHANGED <<array, state, active>> /\ state = "ExpectValue"
    BY <1>9 DEF ResumeValue, InObject, objectVars
  <2>2. InArray' => array'.began  BY <1>b, <2>1 DEF EnterInv, InArray
  <2>3. frame' \in ScalarFrame \cup {"array"}  BY <2>1 DEF ValueFrame, EntryFrame, ScalarFrame
  <2> QED  BY <2>1, <2>2, <2>3 DEF EnterInv, AtCall, ScalarFrame
<1>10. CASE KeepValue  BY <1>10, <1>q DEF KeepValue
<1>11. CASE NextPair  BY <1>11, <1>q DEF NextPair, Throw
<1>12. CASE CloseObject  BY <1>12, <1>q DEF CloseObject, Throw
<1>13. CASE InArray /\ ArrayStep("object") /\ UNCHANGED objectVars
  <2>1. InArray' /\ state' = "ExpectValue"  BY <1>13 DEF InArray, objectVars
  <2>2. ArrayOrder /\ ArrayOrder'  BY <1>13, ArrayStaysBegun DEF ReadInv
  <2>3. array'.began \/ Returned'
    <3>a. array \in [out : Seq(Seq(Char)), began : BOOLEAN, expect : BOOLEAN, finished : BOOLEAN]
      BY <1>a DEF ArrayTypeOK
    <3>b. frame' \in ScalarFrame \cup {"arrayFirst", "arrayLoop"} => array'.began
      BY <2>2 DEF ArrayOrder
    <3>c. frame \in {"arrayFirst", "arrayLoop"} => array.began  BY <2>2 DEF ArrayOrder
    <3> USE <3>a, <3>b, <3>c DEF ReturnTo, Throw, ArrayNeedsMore, Returned
    <3>1. CASE ResumeItem  BY <3>1 DEF ResumeItem, EntryFrame, ScalarFrame
    <3>2. CASE OpenArray  BY <3>2 DEF OpenArray
    <3>3. CASE ResumeArray  BY <3>3 DEF ResumeArray, ResumedFrame
    <3>4. CASE SkipArrayBlank  BY <3>4 DEF SkipArrayBlank, ArraySkips
    <3>5. CASE EndArrayChunk("object")  BY <3>5 DEF EndArrayChunk, ArraySkips
    <3>6. CASE CloseArray("object")  BY <3>6 DEF CloseArray
    <3>7. CASE ReadItem  BY <3>7 DEF ReadItem, EntryFrame, ScalarFrame
    <3>8. CASE KeepItem  BY <3>8 DEF KeepItem
    <3>9. CASE WaitForItem("object")  BY <3>9 DEF WaitForItem
    <3>10. CASE Separate  BY <3>10 DEF Separate
    <3>11. CASE ScalarStep("arrayLoop")
      <4>1. frame' \in ScalarFrame \cup {"arrayLoop"}  BY <1>a, <3>11, ScalarKeepsTypes
      <4> QED  BY <4>1
    <3> QED
      BY <1>13, <3>1, <3>2, <3>3, <3>4, <3>5, <3>6, <3>7, <3>8, <3>9, <3>10, <3>11 DEF ArrayStep
  <2> QED  BY <2>1, <2>3 DEF EnterInv
<1>14. CASE ~InArray /\ ScalarStep("object") /\ UNCHANGED <<array, objectVars>>
  <2>1. /\ frame \in ScalarFrame /\ frame' # "stringStart"
        /\ frame' \in ScalarFrame \/ (frame' = "object" /\ ret' \in {"pointer", "nullptr"})
        /\ frame' = "object" /\ ret' = "nullptr" =>
              \/ frame = "string" /\ ~string'.finished
              \/ frame \in {"number", "numberRest"} /\ ~number'.finished
    <3>1. "object" \notin ScalarFrame \cup {"failed"}  BY DEF ScalarFrame
    <3> QED  BY <1>a, <1>14, <3>1, ScalarLeads
  <2>2. /\ frame = "string" => state = "ExpectKey" \/ (state = "ExpectValue" /\ Kind[active] = "string")
        /\ frame \in {"number", "numberRest"} => state = "ExpectValue" /\ Kind[active] = "number"
    BY <1>a, <1>14 DEF CallInv, StringBusy, NumberBusy, Reads
  <2>3. ~InArray' /\ UNCHANGED <<state, active>>  BY <1>14 DEF InArray, objectVars
  <2> QED  BY <2>1, <2>2, <2>3 DEF EnterInv, AtCall, Finished, ScalarFrame
<1> QED
  BY <1>1, <1>2, <1>3, <1>4, <1>5, <1>6, <1>7, <1>8, <1>9, <1>10, <1>11, <1>12, <1>13, <1>14
  DEF ObjectStep

(* A step of no scalar parser leaves what these hold. *)
LEMMA RestKeepsTokens ==
    ASSUME TokenInv, UNCHANGED <<buffer, scan>>,
           string'.finished = string.finished, number'.finished = number.finished,
           \/ frame \notin {"string", "number", "numberRest", "stringStart"}
           \/ UNCHANGED frame /\ look = Unread,
           \/ frame' \notin {"string", "number", "numberRest", "stringStart"}
           \/ UNCHANGED frame /\ look = Unread
    PROVE  TokenInv' /\ ~Starting'
<1>1. CASE frame' \notin {"string", "number", "numberRest", "stringStart"}
  BY <1>1 DEF TokenInv, Starting, StringBusy
<1>2. CASE UNCHANGED frame /\ look = Unread
  <2>1. ~Starting /\ ~Starting'
    <3>1. Unread \notin Char  BY CharsApart
    <3> QED  BY <1>2, <3>1 DEF TokenInv, Starting
  <2> QED  BY <1>2, <2>1 DEF TokenInv, StringBusy
<1> QED  BY <1>1, <1>2

----------------------------------------------------------------------------
(* What the object has of its keys and values: each is one of its kind, the *)
(* one the parser has just returned and those that are kept.                *)
ValueInv ==
    /\ TokenInv
    /\ InArray => ItemInv
    /\ pairs \in Seq(SoundPair)
    /\ Returned /\ state = "ExpectKey" => string.value \in Item("string")
    /\ Returned /\ state = "ExpectValue" /\ ~InArray =>
        PoolValue(Kind[active]) \in Item(Kind[active])

LEMMA KeepsSound ==
    ASSUME ControlInv, ValueInv, KeepValue
    PROVE  pairs' \in Seq(SoundPair)
<1>a. active \in Field /\ Returned /\ state = "ExpectValue" /\ pairs \in Seq(SoundPair)
  BY DEF KeepValue, ControlInv, CallInv, Returned, ValueInv
<1>1. PICK v \in Sound(active) : pairs' = Append(pairs, [field |-> active, value |-> v])
  <2>1. CASE /\ Kind[active] = "string"
             /\ pairs' = Append(pairs, [field |-> active, value |-> string.value])
    <3>1. PoolValue(Kind[active]) \in Item(Kind[active])  BY <1>a, <2>1 DEF ValueInv, InArray
    <3>2. string.value \in Sound(active)  BY <2>1, <3>1 DEF PoolValue, Sound
    <3> QED  BY <2>1, <3>2
  <2>2. CASE /\ Kind[active] = "number"
             /\ pairs' = Append(pairs, [field |-> active, value |-> number.value])
    <3>1. PoolValue(Kind[active]) \in Item(Kind[active])  BY <1>a, <2>2 DEF ValueInv, InArray
    <3>2. number.value \in Sound(active)  BY <2>2, <3>1 DEF PoolValue, Sound
    <3> QED  BY <2>2, <3>2
  <2>3. CASE /\ Kind[active] = "array"
             /\ pairs' = Append(pairs, [field |-> active, value |-> array.out])
    <3>1. array.out \in Seq(Item(ItemKind))  BY <1>a, <2>3 DEF ValueInv, InArray, ItemInv
    <3>2. array.out \in Sound(active)  BY <2>3, <3>1 DEF Sound
    <3> QED  BY <2>3, <3>2
  <2> QED  BY <2>1, <2>2, <2>3 DEF KeepValue
<1>2. [field |-> active, value |-> v] \in SoundPair  BY <1>a, SoundIs
<1> QED  BY <1>a, <1>1, <1>2, AppendIsSeq

LEMMA ObjectKeepsValues ==
    ASSUME ControlInv, ReadInv, EnterInv, ValueInv, frame # "failed", frame' # "failed", ObjectStep
    PROVE  ValueInv'
<1>a. TypeOK /\ PoolTypeOK /\ ArrayTypeOK /\ PoolInv /\ CallInv /\ StageInv
  BY DEF ControlInv, TypeOK
<1>b. TokenInv /\ pairs \in Seq(SoundPair)  BY DEF ValueInv
(* Steps that leave the parsers under the object alone. *)
<1>p. ASSUME UNCHANGED <<buffer, scan, string, number, array, active, pairs>>,
             frame = "object", frame' \in {"object", "caller"}, ret' = "none" \/ frame' = "caller",
             state' = "ExpectValue" => state = "ExpectValue"
      PROVE  ValueInv'
  <2>1. TokenInv' /\ ~Starting'  BY <1>b, <1>p, RestKeepsTokens
  <2>2. InArray' => ItemInv'
    <3>1. InArray' => InArray  BY <1>p DEF InArray
    <3>2. ItemInv => ItemInv'  BY <1>p, RestKeepsItems
    <3> QED  BY <3>1, <3>2 DEF ValueInv
  <2> QED  BY <1>b, <1>p, <2>1, <2>2 DEF ValueInv, Returned
<1>1. CASE SkipObjectBlank
  BY <1>1, <1>p DEF SkipObjectBlank, InObject, objectVars, kept
<1>2. CASE EndObjectChunk
  BY <1>2, <1>p DEF EndObjectChunk, InObject, ObjectNeedsMore, ReturnTo, kept
<1>3. CASE WaitForParser
  BY <1>3, <1>p DEF WaitForParser, ObjectNeedsMore, ReturnTo, kept
<1>4. CASE OpenObject  BY <1>4, <1>p DEF OpenObject, InObject, Throw, kept
<1>5. CASE ReadKey
  <2>1. /\ frame = "object" /\ ret = "none" /\ frame' = EntryFrame("string")
        /\ state' = "ExpectKey" /\ UNCHANGED <<ret, look, buffer, scan, string, number, pairs>>
        /\ (state = "PreKey" /\ look \in Solid \ {"}"}) \/ state = "ExpectKey"
    BY <1>5 DEF ReadKey, InObject, kept
  <2>2. frame' = IF string.finished THEN "stringStart" ELSE "string"  BY <2>1 DEF EntryFrame
  <2>3. string.finished => look \in Char \ {Blank, Nul}
    <3>1. string.finished => state = "PreKey"  BY <2>1 DEF EnterInv, AtCall
    <3> QED  BY <2>1, <3>1 DEF Solid
  <2>4. TokenInv'  BY <1>b, <2>1, <2>2, <2>3 DEF TokenInv, Starting, StringBusy
  <2> QED  BY <1>b, <2>1, <2>2, <2>4 DEF ValueInv, InArray, Returned
<1>6. CASE TakeKey  BY <1>6, <1>p DEF TakeKey, Throw, kept
<1>7. CASE ReadColon  BY <1>7, <1>p DEF ReadColon, InObject, Throw, kept
<1>8. CASE ReadValue
  <2>1. /\ frame = "object" /\ ret = "none" /\ frame' = ValueFrame(activating)
        /\ state = "PreValue" /\ state' = "ExpectValue" /\ look \in Char \ {Blank, Nul}
        /\ UNCHANGED <<ret, look, buffer, scan, string, number, array, pairs>>
    BY <1>8 DEF ReadValue, InObject, kept, Solid
  <2>2. frame' \in ScalarFrame \cup {"array"}
    BY <2>1 DEF ValueFrame, EntryFrame, ScalarFrame
  <2>3. /\ frame' = "string" => ~string.finished
        /\ frame' = "numberRest" => ~number.finished
    BY <2>1 DEF ValueFrame, EntryFrame
  <2>4. TokenInv'  BY <1>b, <2>1, <2>2, <2>3 DEF TokenInv, Starting, StringBusy, ScalarFrame
  <2>5. ASSUME InArray' PROVE ItemInv'
    <3>1. frame' = "array"  BY <1>8, <2>5 DEF ReadValue, InArray, ValueFrame
    <3>2. array'.out = <<>>  BY <1>a, <2>1 DEF StageInv, InArray
    <3>3. <<>> \in Seq(Item(ItemKind))  BY EmptyIsSeq
    <3> QED  BY <2>4, <3>1, <3>2, <3>3 DEF ItemInv, Starting
  <2> QED  BY <1>b, <2>1, <2>2, <2>4, <2>5 DEF ValueInv, Returned, ScalarFrame
<1>9. CASE ResumeValue
  <2>1. /\ frame = "object" /\ ret = "none" /\ frame' = ValueFrame(active) /\ state = "ExpectValue"
        /\ UNCHANGED <<ret, look, buffer, scan, string, number, array, pairs, state, active>>
    BY <1>9 DEF ResumeValue, InObject, objectVars, kept
  <2>2. frame' \in ScalarFrame \cup {"array"}
    BY <2>1 DEF ValueFrame, EntryFrame, ScalarFrame
  <2>3. CASE InArray
    <3>1. frame' = "array" /\ InArray'  BY <2>1, <2>3 DEF InArray, ValueFrame
    <3>2. ItemInv'  BY <2>1, <2>3, <3>1, RestKeepsItems DEF ValueInv
    <3>3. TokenInv'  BY <3>2 DEF ItemInv
    <3> QED  BY <1>b, <2>1, <3>1, <3>2, <3>3 DEF ValueInv, Returned
  <2>4. CASE ~InArray
    <3>1. ~Finished(Kind[active])  BY <2>1, <2>4 DEF EnterInv, AtCall
    <3>2. /\ Kind[active] # "array" /\ frame' = EntryFrame(Kind[active])
      BY <2>1, <2>4 DEF InArray, ValueFrame
    <3>3. \/ frame' = "string" /\ ~string.finished
          \/ frame' = "numberRest" /\ ~number.finished
      BY <3>1, <3>2 DEF EntryFrame, Finished
    <3>4. TokenInv'  BY <1>b, <2>1, <3>3 DEF TokenInv, Starting, StringBusy
    <3>5. ~InArray'  BY <2>1, <2>4 DEF InArray
    <3> QED  BY <1>b, <2>1, <3>3, <3>4, <3>5 DEF ValueInv, Returned
  <2> QED  BY <2>3, <2>4
<1>10. CASE KeepValue
  <2>1. /\ frame = "object" /\ frame' = "object" /\ ret' = "none" /\ state' = "PreComma"
        /\ UNCHANGED <<buffer, scan>>
        /\ string'.finished = string.finished /\ number'.finished = number.finished
    BY <1>a, <1>10 DEF KeepValue, PoolTypeOK
  <2>2. TokenInv'  BY <1>b, <2>1, RestKeepsTokens
  <2> QED  BY <1>10, <2>1, <2>2, KeepsSound DEF ValueInv, InArray
<1>11. CASE NextPair  BY <1>11, <1>p DEF NextPair, InObject, Throw, kept
<1>12. CASE CloseObject
  <2>1. /\ frame = "object" /\ frame' = "caller" /\ state' = "NotStarted"
        /\ UNCHANGED <<buffer, scan, string, number, pairs>>
    BY <1>12 DEF CloseObject, InObject, ReturnTo, Throw, kept
  <2>2. TokenInv'  BY <1>b, <2>1, RestKeepsTokens
  <2> QED  BY <1>b, <2>1, <2>2 DEF ValueInv, InArray
<1>13. CASE InArray /\ ArrayStep("object") /\ UNCHANGED objectVars
  <2>1. ArrayInv  BY <1>a, <1>13 DEF CallInv, ArrayInv, Reads, InArray
  <2>2. "object" \notin ScalarFrame \cup ArrayFrame \cup {"failed"}  BY DEF ScalarFrame, ArrayFrame
  <2>3. ItemInv'
    BY <1>a, <1>13, <2>1, <2>2, ArrayKeepsItems DEF ReadInv, ValueInv
  <2>4. InArray' /\ state' # "ExpectKey" /\ pairs' = pairs
    BY <1>13 DEF InArray, objectVars, kept
  <2> QED  BY <1>b, <2>3, <2>4 DEF ValueInv, ItemInv
<1>14. CASE ~InArray /\ ScalarStep("object") /\ UNCHANGED <<array, objectVars>>
  <2>1. "object" \notin ScalarFrame \cup {"failed"}  BY DEF ScalarFrame
  <2>2. /\ TokenInv'
        /\ frame' = "object" /\ ret' = "pointer" =>
             \/ frame = "string" /\ string'.value \in Item("string")
             \/ frame \in {"number", "numberRest"} /\ number'.value \in Item("number")
    BY <1>a, <1>b, <1>14, <2>1, ScalarKeepsTokens DEF ReadInv
  <2>3. /\ frame = "string" => state = "ExpectKey" \/ (state = "ExpectValue" /\ Kind[active] = "string")
        /\ frame \in {"number", "numberRest"} => state = "ExpectValue" /\ Kind[active] = "number"
    BY <1>a, <1>14 DEF CallInv, StringBusy, NumberBusy, Reads
  <2>4. ~InArray' /\ UNCHANGED <<state, active, pairs>>  BY <1>14 DEF InArray, objectVars, kept
  <2>5. Returned' /\ state' = "ExpectKey" => string'.value \in Item("string")
    BY <2>2, <2>3, <2>4 DEF Returned
  <2>6. Returned' /\ state' = "ExpectValue" => PoolValue(Kind[active])' \in Item(Kind[active'])
    BY <2>2, <2>3, <2>4 DEF Returned, PoolValue
  <2> QED  BY <1>b, <2>2, <2>4, <2>5, <2>6 DEF ValueInv
<1> QED
  BY <1>1, <1>2, <1>3, <1>4, <1>5, <1>6, <1>7, <1>8, <1>9, <1>10, <1>11, <1>12, <1>13, <1>14
  DEF ObjectStep

----------------------------------------------------------------------------
(* What the entries and the values rest on, kept by the caller's steps too. *)
EntryInv == LookInv /\ EnterInv /\ ValueInv

LEMMA EmptyValues ==
    ASSUME string.finished, number.finished, frame = "caller", state = "NotStarted", pairs = <<>>
    PROVE  ValueInv /\ EnterInv
<1>1. TokenInv  BY DEF TokenInv, Starting, StringBusy
<1>2. <<>> \in Seq(SoundPair)  BY EmptyIsSeq
<1> QED  BY <1>1, <1>2 DEF ValueInv, EnterInv, InArray, Returned

LEMMA EmptyValuesNext ==
    (string.finished /\ number.finished /\ frame = "caller" /\ state = "NotStarted" /\ pairs = <<>>
        => ValueInv /\ EnterInv)'
BY EmptyValues, PTL

LEMMA ParseKeepsEntry ==
    ASSUME EntryInv, Parse
    PROVE  EntryInv'
<1>1. /\ frame = "caller" /\ frame' = "object" /\ ret' = "none" /\ look' = Unread
      /\ UNCHANGED <<text, buffer, scan, string, number, array, state, active, pairs>>
  BY DEF Parse, objectVars, kept
<1>2. LookInv /\ EnterInv /\ ValueInv  BY DEF EntryInv
<1>3. look \notin Char  BY <1>1, <1>2 DEF LookInv
<1>4. LookInv'
  BY <1>1, <1>2, <1>3 DEF LookInv, DigitFollows, WaitsAtEnd, StringBusy, NumberBusy, Returned
<1>5. EnterInv'
  BY <1>1, <1>2 DEF EnterInv, AtCall, InArray, Finished, Returned
<1>6. TokenInv'  BY <1>1, <1>2, RestKeepsTokens DEF ValueInv
<1>7. InArray' => ItemInv'
  <2>1. InArray' => InArray  BY <1>1 DEF InArray
  <2>2. ItemInv => ItemInv'  BY <1>1, RestKeepsItems
  <2> QED  BY <1>2, <2>1, <2>2 DEF ValueInv
<1>8. ValueInv'  BY <1>1, <1>2, <1>6, <1>7 DEF ValueInv, Returned
<1> QED  BY <1>4, <1>5, <1>8 DEF EntryInv

LEMMA SwapKeepsEntry ==
    ASSUME ControlInv, EntryInv, Swap
    PROVE  EntryInv'
<1>1. /\ frame = "caller" /\ text' = <<>> /\ pairs' = <<>>
      /\ UNCHANGED <<frame, ret, look, buffer, scan, string, number, array, state>>
  BY DEF Swap, Complete
<1>2. LookInv /\ EnterInv /\ ValueInv  BY DEF EntryInv
<1>3. state = "NotStarted"  BY DEF Swap, Complete, ControlInv, StageInv
<1>4. LookInv'
  BY <1>1, <1>2, <1>3 DEF LookInv, DigitFollows, WaitsAtEnd, Returned
<1>5. EnterInv'  BY <1>1, <1>3 DEF EnterInv, InArray
<1>6. TokenInv'  BY <1>1, <1>2, RestKeepsTokens DEF ValueInv
<1>7. <<>> \in Seq(SoundPair)  BY EmptyIsSeq
<1>8. ValueInv'  BY <1>1, <1>3, <1>6, <1>7 DEF ValueInv, InArray, Returned
<1> QED  BY <1>4, <1>5, <1>8 DEF EntryInv

LEMMA DropKeepsEntry ==
    ASSUME Drop
    PROVE  EntryInv'
<1>1. /\ frame' = "caller" /\ ret' = "none" /\ look' = Unread /\ text' = <<>>
      /\ string'.finished /\ number'.finished /\ state' = "NotStarted" /\ pairs' = <<>>
  BY DEF Drop, NewPool
<1>2. ValueInv' /\ EnterInv'  BY <1>1, EmptyValuesNext
<1>3. LookInv'
  BY <1>1, CharsApart DEF LookInv, DigitFollows, WaitsAtEnd, Returned
<1> QED  BY <1>2, <1>3 DEF EntryInv

(* A character is looked at only where none was: nothing starts there yet.  *)
LEMMA FedKeepsEntry ==
    ASSUME EntryInv, Fed
    PROVE  EntryInv'
<1>1. /\ frame \notin {"caller", "failed"} /\ ret = "none" /\ look = Unread
      /\ UNCHANGED <<frame, ret, text, buffer, scan, string, number, array, state, active, pairs>>
  BY DEF Fed, Feed, objectVars, kept
<1>2. LookInv /\ EnterInv /\ ValueInv  BY DEF EntryInv
<1>3. look \notin Char  BY <1>1, CharsApart
<1>4. LookInv'
  BY <1>1, <1>2, <1>3 DEF LookInv, DigitFollows, WaitsAtEnd, StringBusy, NumberBusy, Returned
<1>5. frame # "stringStart"  BY <1>2, <1>3 DEF ValueInv, TokenInv, Starting
<1>6. EnterInv'
  BY <1>1, <1>2, <1>3, <1>5 DEF EnterInv, AtCall, InArray, Finished, Returned, Solid
<1>7. TokenInv'  BY <1>1, <1>2, RestKeepsTokens DEF ValueInv
<1>8. InArray' => ItemInv'
  <2>1. InArray' => InArray  BY <1>1 DEF InArray
  <2>2. ItemInv => ItemInv'  BY <1>1, RestKeepsItems
  <2> QED  BY <1>2, <2>1, <2>2 DEF ValueInv
<1>9. ValueInv'
  BY <1>1, <1>2, <1>7, <1>8 DEF ValueInv, Returned
<1> QED  BY <1>4, <1>6, <1>9 DEF EntryInv

LEMMA EntryStays ==
    ASSUME EntryInv, UNCHANGED vars
    PROVE  EntryInv'
<1>1. UNCHANGED <<frame, ret, look, text, buffer, scan, string, number, array, state, active, pairs>>
  BY DEF vars, poolVars, objectVars, kept
<1>2. LookInv /\ EnterInv /\ ValueInv  BY DEF EntryInv
<1>3. LookInv'
  BY <1>1, <1>2 DEF LookInv, DigitFollows, WaitsAtEnd, StringBusy, NumberBusy, Returned
<1>4. EnterInv'  BY <1>1, <1>2 DEF EnterInv, AtCall, InArray, Finished, Returned
<1>5. ValueInv'
  BY <1>1, <1>2 DEF ValueInv, ItemInv, TokenInv, Starting, StringBusy, PoolValue, InArray, Returned
<1> QED  BY <1>3, <1>4, <1>5 DEF EntryInv

LEMMA EntryKept ==
    ASSUME IInv, frame # "failed" => EntryInv, frame' # "failed", [Next]_vars
    PROVE  EntryInv'
<1>1. ControlInv /\ (frame # "failed" => ReadInv)  BY DEF IInv
<1>2. CASE ObjectStep
  <2>1. frame # "failed"  BY <1>1, <1>2, RunningStep
  <2>2. LookInv /\ EnterInv /\ ValueInv  BY <2>1 DEF EntryInv
  <2> QED  BY <1>1, <1>2, <2>1, <2>2, ObjectLooks, ObjectEnters, ObjectKeepsValues DEF EntryInv
<1>3. CASE Parse  BY <1>3, ParseKeepsEntry DEF Parse
<1>4. CASE Swap  BY <1>1, <1>4, SwapKeepsEntry DEF Swap, Complete
<1>5. CASE Drop  BY <1>5, DropKeepsEntry
<1>6. CASE (FeedChar \/ FeedEnd) /\ UNCHANGED <<array, objectVars>>
  <2>1. Fed  BY <1>6, OfferIsFed
  <2>2. frame # "failed"  BY <2>1 DEF Fed, Feed
  <2> QED  BY <2>1, <2>2, FedKeepsEntry
<1>7. CASE UNCHANGED vars
  <2>1. frame # "failed"  BY <1>7 DEF vars, poolVars
  <2> QED  BY <1>7, <2>1, EntryStays
<1> QED  BY <1>2, <1>3, <1>4, <1>5, <1>6, <1>7 DEF Next, Step

----------------------------------------------------------------------------
(* What no object has behind its first pairs.                               *)
LEMMA KeyStarts ==
    ASSUME NEW v \in Seq(Char), NEW r \in Seq(Char)
    PROVE  /\ TokenText("string", v) \o r \in Seq(Char)
           /\ TokenText("string", v) \o r # <<>> /\ (TokenText("string", v) \o r)[1] = Quote
<1> DEFINE q == <<Quote>>
           z == q \o r
           w == v \o z
<1>1. TokenText("string", v) \o r = q \o w /\ z \in Seq(Char)  BY Quoted
<1> HIDE DEF z
<1>2. w \in Seq(Char)  BY <1>1, ConcatProperties
<1> HIDE DEF w
<1> QED  BY <1>1, <1>2, CharsApart, FirstComes

LEMMA QuoteIsNoEnd ==
    ASSUME NEW r \in Seq(Char), r # <<>>, r[1] = Quote
    PROVE  ~Agrees(r, <<"}">>)
<1> DEFINE e == "}"
           z == <<e>>
<1>1. z \in Seq(Char) /\ z # <<>> /\ z[1] = e  BY ObjectChars, Single
<1>2. e # Quote  BY DEF Quote
<1> HIDE DEF z, e
<1>3. ~Agrees(r, z)  BY <1>1, <1>2, AgreesFirst
<1> QED  BY <1>3 DEF z, e

(* The text of a field, up to and with the ':'.                             *)
LEMMA KeyIs ==
    ASSUME NEW f \in Field, NEW r \in Seq(Char)
    PROVE  /\ KeyText(f) \o r = TokenText("string", Key[f]) \o (<<":">> \o r)
           /\ <<":">> \o r \in Seq(Char)
           /\ KeyText(f) \o r \in Seq(Char) /\ KeyText(f) \o r # <<>>
           /\ (KeyText(f) \o r)[1] = Quote
<1> DEFINE k == TokenText("string", Key[f])
           c == <<":">>
           z == c \o r
<1>1. k \in Seq(Char) /\ c \in Seq(Char) /\ Key[f] \in Seq(Char)  BY KeyTyped, ObjectChars
<1>2. KeyText(f) = k \o c  BY DEF KeyText
<1> HIDE DEF c
<1>3. z \in Seq(Char)  BY <1>1, ConcatProperties
<1>4. KeyText(f) \o r = k \o z
  <2> HIDE DEF k
  <2> QED  BY <1>1, <1>2, ConcatAssociative
<1>5. k \o z \in Seq(Char) /\ k \o z # <<>> /\ (k \o z)[1] = Quote
  <2> HIDE DEF z
  <2> QED  BY <1>1, <1>3, KeyStarts
<1> QED  BY <1>3, <1>4, <1>5 DEF c

LEMMA BehindIs ==
    ASSUME NEW r, NEW q \in SoundPair, NEW c \in {",", "}"}, Behind(r, q, c)
    PROVE  \E t \in Seq(Char) :
             /\ t = ValueText(q.field, q.value) \o <<c>>
             /\ Agrees(r, KeyText(q.field) \o t)
<1> DEFINE z == <<c>>
           t == ValueText(q.field, q.value) \o z
<1>1. z \in Seq(Char)  BY ObjectChars
<1>2. Agrees(r, PairText(q) \o z)  BY DEF Behind
<1> HIDE DEF z
<1>3. t \in Seq(Char) /\ PairText(q) \o z = KeyText(q.field) \o t  BY <1>1, PairTextIs
<1> QED  BY <1>2, <1>3 DEF z

LEMMA ValueRefuted ==
    ASSUME KeysApart, NEW ps \in Seq(SoundPair), NEW f \in Field, NEW x \in Seq(Char),
           \A v \in Sound(f) : \A t \in Seq(Char) : ~Agrees(x, ValueText(f, v) \o t)
    PROVE  BeforePair(ps) \o (KeyText(f) \o x) \notin Beginnings
<1> DEFINE r == KeyText(f) \o x
<1>1. r \in Seq(Char) /\ r # <<>> /\ r[1] = Quote  BY KeyIs
<1>2. ASSUME NEW q \in SoundPair, NEW c \in {",", "}"}, Behind(r, q, c)
      PROVE  FALSE
  <2>1. PICK t \in Seq(Char) :
          t = ValueText(q.field, q.value) \o <<c>> /\ Agrees(r, KeyText(q.field) \o t)
    BY <1>2, BehindIs
  <2>2. q.field \in Field /\ q.value \in Sound(q.field)  BY SoundIs
  <2>3. f = q.field /\ Agrees(x, t)
    <3> DEFINE g == q.field
    <3>1. g \in Field /\ t \in Seq(Char) /\ Agrees(KeyText(f) \o x, KeyText(g) \o t)
      BY <2>1, <2>2
    <3> HIDE DEF g
    <3>2. f = g /\ Agrees(x, t)  BY <3>1, FieldApart
    <3> QED  BY <3>2 DEF g
  <2>4. <<c>> \in Seq(Char)  BY ObjectChars
  <2> QED  BY <2>1, <2>2, <2>3, <2>4
<1> HIDE DEF r
<1>3. ~Agrees(r, <<"}">>)  BY <1>1, QuoteIsNoEnd
<1>4. \A q \in SoundPair : \A c \in {",", "}"} : ~Behind(r, q, c)  BY <1>2, Zenon
<1>5. BeforePair(ps) \o r \notin Beginnings  BY <1>1, <1>3, <1>4, Refuted
<1> QED  BY <1>5 DEF r

LEMMA KeyRefuted ==
    ASSUME KeysApart, NEW ps \in Seq(SoundPair), NEW x \in Seq(Char), ~Agrees(x, <<"}">>),
           \A f \in Field : \A t \in Seq(Char) :
               ~Agrees(x, TokenText("string", Key[f]) \o (<<":">> \o t))
    PROVE  BeforePair(ps) \o x \notin Beginnings
<1>1. ASSUME NEW q \in SoundPair, NEW c \in {",", "}"}, Behind(x, q, c)
      PROVE  FALSE
  <2>1. PICK t \in Seq(Char) : Agrees(x, KeyText(q.field) \o t)
    BY <1>1, BehindIs
  <2>2. q.field \in Field  BY SoundIs
  <2>3. KeyText(q.field) \o t = TokenText("string", Key[q.field]) \o (<<":">> \o t)
    BY <2>2, KeyIs
  <2> QED  BY <2>1, <2>2, <2>3
<1>2. \A q \in SoundPair : \A c \in {",", "}"} : ~Behind(x, q, c)  BY <1>1, Zenon
<1> QED  BY <1>2, Refuted

(* What an exception is about: the text with the character that was met.    *)
RefusedRightly == SplitNumber \/ WithoutGaps(Refused) \notin Beginnings

LEMMA ReadWithLook ==
    ASSUME PoolTypeOK, ReadInv, frame # "caller"
    PROVE  /\ look \in Char => WithoutGaps(Refused) = Append(ObjectRead, look)
           /\ look \notin Char => WithoutGaps(Refused) = ObjectRead
<1>1. text \in Seq(Char \cup {Gap})  BY DEF PoolTypeOK
<1>2. WithoutGaps(text) = ObjectRead  BY DEF ReadInv, Complete
<1> QED  BY <1>1, <1>2, WithoutGapsAppend DEF Refused

(* A digit behind a number that is not being read any more.                 *)
LEMMA SplitIs ==
    ASSUME PoolTypeOK, ReadInv, LookInv, frame # "caller", ~StringBusy, ~NumberBusy,
           look \in Digit, NEW b \in Seq(Char), NEW v \in Item("number"), ObjectRead = b \o v
    PROVE  SplitNumber
<1>1. PICK p \in Seq(Char), d \in Digit : b \o v = Append(p, d)  BY EndsInDigit
<1>2. WithoutGaps(text) = Append(p, d)  BY <1>1 DEF ReadInv, Complete
<1>3. text # <<>> => text[Len(text)] \notin Digit  BY DEF LookInv, DigitFollows
<1>4. text \in Seq(Char \cup {Gap})  BY DEF PoolTypeOK
<1>5. text # <<>> /\ text[Len(text)] = Gap  BY <1>2, <1>3, <1>4, GapIsLast
<1> QED  BY <1>5 DEF SplitNumber

LEMMA OpenObjectRefuses ==
    ASSUME ControlInv, ReadInv, OpenObject, frame' = "failed"
    PROVE  RefusedRightly /\ UNCHANGED <<look, text>>
<1>1. /\ frame = "object" /\ state = "NotStarted" /\ look \in Char /\ look # "{"
      /\ UNCHANGED <<look, text>>
  BY DEF OpenObject, InObject
<1>2. ObjectRead = <<>>  BY <1>1, ObjectReadCases DEF ObjectReadIs
<1>3. WithoutGaps(Refused) = Append(<<>>, look)
  BY <1>1, <1>2, ReadWithLook DEF ControlInv, TypeOK
<1> DEFINE s == Append(<<>>, look)
<1>4. s \in Seq(Char) /\ s # <<>> /\ s[1] = look
  <2>1. s = <<look>>  OBVIOUS
  <2> HIDE DEF s
  <2> QED  BY <1>1, <2>1, Single
<1> HIDE DEF s
<1>5. s \notin Beginnings  BY <1>1, <1>4, BeginsOpen
<1> QED  BY <1>1, <1>3, <1>5 DEF s, RefusedRightly

(* A key that is none of the fields', or is none at all.                    *)
LEMMA KeyRefuses ==
    ASSUME KeysApart, ControlInv, ReadInv, LookInv, EnterInv, ValueInv, state = "ExpectKey",
           ScalarStep("object"), frame # "failed", frame' = "failed"
    PROVE  RefusedRightly /\ UNCHANGED <<look, text>>
<1>1. PoolTypeOK /\ PoolInv /\ CallInv  BY DEF ControlInv, TypeOK
<1>2. frame \in ScalarFrame /\ frame \notin {"number", "numberRest"}
  <2>1. frame \in ScalarFrame
    BY DEF ScalarStep, StringStart, StringChar, StringInvalid, StringClose, StringEnd,
       NumberDigit, NumberDirect, NumberInvalid, NumberEnd, NumberRestDone, ScalarFrame
  <2> QED  BY <1>1, <2>1 DEF CallInv, NumberBusy, Reads, InArray
<1> DEFINE x == Append(PartRead, look)
           kind == "string"
<1>3. /\ UNCHANGED <<look, text>> /\ look \in Char
      /\ \A v \in Item("string") : \A r \in Seq(Char) : ~Agrees(x, TokenText("string", v) \o r)
      /\ \A c \in Mark : Agrees(x, <<c>>) => Starting /\ look = c
  <2>1. "object" # "failed" /\ kind \in Scalar  BY DEF Scalar
  <2> QED  BY <1>1, <1>2, <2>1, ScalarRefuses DEF ValueInv
<1>4. PartRead \in Seq(Char) /\ x \in Seq(Char)
  <2>1. PartRead \in Seq(Char)  BY <1>1, PartReadTyped
  <2> QED  BY <1>3, <2>1, AppendProperties
<1>5. BeforePair(pairs) \in Seq(Char) /\ ObjectRead = BeforePair(pairs) \o PartRead
  BY <1>2, ObjectReadCases DEF ObjectReadIs, Returned, ScalarFrame
<1>6. WithoutGaps(Refused) = BeforePair(pairs) \o x
  <2>1. WithoutGaps(Refused) = Append(ObjectRead, look)
    BY <1>1, <1>2, <1>3, ReadWithLook DEF ScalarFrame
  <2> QED  BY <1>3, <1>4, <1>5, <2>1, TextAppends
<1>7. ~Agrees(x, <<"}">>)
  <2> DEFINE e == "}"
  <2>1. e \in Mark  BY DEF Mark
  <2>2. Starting => look # e  BY <1>2 DEF Starting, EnterInv
  <2> HIDE DEF e, x
  <2>3. ~Agrees(x, <<e>>)  BY <1>3, <2>1, <2>2
  <2> QED  BY <2>3 DEF e
<1>8. ASSUME NEW f \in Field, NEW t \in Seq(Char)
      PROVE  ~Agrees(x, TokenText("string", Key[f]) \o (<<":">> \o t))
  <2>1. Key[f] \in Item("string")  BY DEF KeysApart, Field, Item
  <2>2. <<":">> \o t \in Seq(Char)  BY KeyIs
  <2> DEFINE z == <<":">> \o t
             k == Key[f]
  <2>3. z \in Seq(Char) /\ k \in Item("string")  BY <2>1, <2>2
  <2> HIDE DEF z, k, x
  <2>4. ~Agrees(x, TokenText("string", k) \o z)  BY <1>3, <2>3
  <2> QED  BY <2>4 DEF z, k
<1> HIDE DEF x
<1>9. pairs \in Seq(SoundPair)  BY DEF ValueInv
<1>10. BeforePair(pairs) \o x \notin Beginnings  BY <1>4, <1>7, <1>8, <1>9, KeyRefuted
<1> QED  BY <1>3, <1>6, <1>10 DEF RefusedRightly

LEMMA TakeKeyRefuses ==
    ASSUME KeysApart, ControlInv, ReadInv, LookInv, ValueInv, TakeKey, frame' = "failed"
    PROVE  RefusedRightly /\ UNCHANGED <<look, text>>
<1>1. /\ frame = "object" /\ ret = "pointer" /\ state = "ExpectKey"
      /\ \A f \in Field : Key[f] # string.value
      /\ UNCHANGED <<look, text>>
  BY DEF TakeKey
<1>2. Returned  BY <1>1 DEF Returned
<1>3. look \notin Char  BY <1>1, <1>2, CharsApart DEF LookInv
<1>4. string.value \in Seq(Plain)  BY <1>1, <1>2 DEF ValueInv, Item
<1> DEFINE v == string.value
           x == TokenText("string", v)
           e == <<>>
<1>5. BeforePair(pairs) \in Seq(Char) /\ ObjectRead = BeforePair(pairs) \o x
  BY <1>1, <1>2, ObjectReadCases DEF ObjectReadIs, KeyRead
<1>6. WithoutGaps(Refused) = BeforePair(pairs) \o x
  BY <1>1, <1>3, <1>5, ReadWithLook DEF ControlInv, TypeOK
<1>7. v \in Seq(Char) /\ e \in Seq(Char)  BY <1>4, SeqOfSubset, CharsApart, EmptyIsSeq
<1>8. x \in Seq(Char) /\ x \o e = x  BY <1>7, TokenTyped, ConcatEmptySeq
<1> HIDE DEF e
<1>9. ASSUME NEW f \in Field, NEW t \in Seq(Char)
      PROVE  ~Agrees(x, TokenText("string", Key[f]) \o (<<":">> \o t))
  <2> DEFINE z == <<":">> \o t
             k == Key[f]
  <2>1. k \in Seq(Plain) /\ z \in Seq(Char) /\ k # v  BY <1>1, KeyIs DEF KeysApart, Field
  <2>2. v \in Seq(Plain) /\ x = TokenText("string", v) \o e  BY <1>4, <1>8
  <2> HIDE DEF v, z, k, x
  <2>3. ~Agrees(TokenText("string", v) \o e, TokenText("string", k) \o z)
    BY <1>7, <2>1, <2>2, KeyApart
  <2> QED  BY <2>2, <2>3 DEF z, k
<1>10. ~Agrees(x, <<"}">>)
  <2>1. x # <<>> /\ x[1] = Quote
    <3> DEFINE y == TokenText("string", v) \o e
    <3>1. y = x /\ y # <<>> /\ y[1] = Quote  BY <1>7, <1>8, KeyStarts
    <3> QED  BY <3>1
  <2> HIDE DEF x
  <2> QED  BY <1>8, <2>1, QuoteIsNoEnd
<1> HIDE DEF x, v
<1>11. pairs \in Seq(SoundPair)  BY DEF ValueInv
<1>12. BeforePair(pairs) \o x \notin Beginnings  BY <1>8, <1>9, <1>10, <1>11, KeyRefuted
<1> QED  BY <1>1, <1>6, <1>12 DEF RefusedRightly

LEMMA ReadColonRefuses ==
    ASSUME KeysApart, ControlInv, ReadInv, ValueInv, ReadColon, frame' = "failed"
    PROVE  RefusedRightly /\ UNCHANGED <<look, text>>
<1>1. /\ frame = "object" /\ state = "PreColon" /\ look \in Char /\ look # ":"
      /\ UNCHANGED <<look, text>>
  BY DEF ReadColon, InObject, Solid
<1>2. activating \in Field  BY <1>1 DEF ControlInv, CallInv
<1> DEFINE v == Key[activating]
           k == TokenText("string", v)
           y == <<look>>
           x == k \o y
<1>3. BeforePair(pairs) \in Seq(Char) /\ ObjectRead = BeforePair(pairs) \o k
  BY <1>1, ObjectReadCases DEF ObjectReadIs
<1>4. k \in Seq(Char) /\ y \in Seq(Char) /\ y # <<>> /\ y[1] = look
  BY <1>1, <1>2, KeyTyped, Single
<1>5. v \in Seq(Plain)  BY <1>2 DEF KeysApart, Field
<1>6. x \in Seq(Char) /\ WithoutGaps(Refused) = BeforePair(pairs) \o x
  <2>1. WithoutGaps(Refused) = Append(ObjectRead, look)
    BY <1>1, ReadWithLook DEF ControlInv, TypeOK
  <2> HIDE DEF k
  <2>2. Append(k, look) = x  BY <1>1, <1>4, AppendIsConcat
  <2>3. Append(BeforePair(pairs) \o k, look) = BeforePair(pairs) \o Append(k, look)
        /\ Append(k, look) \in Seq(Char)
    BY <1>1, <1>3, <1>4, TextAppends
  <2> QED  BY <1>3, <2>1, <2>2, <2>3
<1>7. ASSUME NEW f \in Field, NEW t \in Seq(Char)
      PROVE  ~Agrees(x, TokenText("string", Key[f]) \o (<<":">> \o t))
  <2> DEFINE c == ":"
             z == <<c>> \o t
             w == Key[f]
  <2>1. w \in Seq(Plain)  BY DEF KeysApart, Field
  <2>2. z \in Seq(Char) /\ z # <<>> /\ z[1] = c /\ c # look
    BY <1>1, ObjectChars, FirstComes
  <2>3. x = TokenText("string", v) \o y  OBVIOUS
  <2> HIDE DEF c, z, w, v, y, x
  <2>4. ~Agrees(y, z)  BY <1>4, <2>2, AgreesFirst
  <2>5. ~Agrees(TokenText("string", v) \o y, TokenText("string", w) \o z)
    BY <1>4, <1>5, <2>1, <2>2, <2>4, KeyApart
  <2> QED  BY <2>3, <2>5 DEF z, c, w
<1>8. ~Agrees(x, <<"}">>)
  <2>1. v \in Seq(Char)  BY <1>2, ObjectChars
  <2>2. x # <<>> /\ x[1] = Quote
    <3> HIDE DEF v, y
    <3> QED  BY <1>4, <2>1, KeyStarts
  <2> HIDE DEF x
  <2> QED  BY <1>6, <2>2, QuoteIsNoEnd
<1> HIDE DEF x
<1>9. pairs \in Seq(SoundPair)  BY DEF ValueInv
<1>10. BeforePair(pairs) \o x \notin Beginnings  BY <1>6, <1>7, <1>8, <1>9, KeyRefuted
<1> QED  BY <1>1, <1>6, <1>10 DEF RefusedRightly

(* A value that is none of its field's kind.                                *)
LEMMA BehindKey ==
    ASSUME KeysApart, ControlInv, ReadInv, ValueInv, state = "ExpectValue",
           frame \notin {"caller", "failed"}, look \in Char, NEW a \in Seq(Char), ValueRead = a,
           \A v \in Sound(active) : \A t \in Seq(Char) :
               ~Agrees(Append(a, look), ValueText(active, v) \o t)
    PROVE  WithoutGaps(Refused) \notin Beginnings
<1>1. active \in Field  BY DEF ControlInv, CallInv
<1> DEFINE k == KeyText(active)
           b == BeforePair(pairs)
           x == Append(a, look)
<1>2. b \in Seq(Char) /\ ObjectRead = b \o (k \o a)
  BY ObjectReadCases DEF ObjectReadIs
<1>3. k \in Seq(Char) /\ x \in Seq(Char)  BY <1>1, KeyTyped, AppendProperties
<1>4. pairs \in Seq(SoundPair)  BY DEF ValueInv
<1>5. b \o (k \o x) \notin Beginnings
  <2> HIDE DEF x
  <2> QED  BY <1>1, <1>3, <1>4, ValueRefuted DEF x
<1>6. Append(b \o (k \o a), look) = b \o (k \o x)
  <2> HIDE DEF b, k
  <2>1. Append(k \o a, look) = k \o x /\ k \o a \in Seq(Char)
    BY <1>3, TextAppends, ConcatProperties
  <2> DEFINE w == k \o a
  <2>2. w \in Seq(Char) /\ Append(w, look) = k \o x  BY <2>1
  <2> HIDE DEF w, x
  <2>3. Append(b \o w, look) = b \o Append(w, look)  BY <1>2, <2>2, TextAppends
  <2> QED  BY <2>2, <2>3 DEF w
<1>7. WithoutGaps(Refused) = Append(ObjectRead, look)
  BY ReadWithLook DEF ControlInv, TypeOK
<1> QED  BY <1>2, <1>5, <1>6, <1>7

LEMMA ScalarValueRefuses ==
    ASSUME KeysApart, ControlInv, ReadInv, ValueInv, state # "ExpectKey", ~InArray,
           ScalarStep("object"), frame # "failed", frame' = "failed"
    PROVE  RefusedRightly /\ UNCHANGED <<look, text>>
<1>1. PoolTypeOK /\ PoolInv /\ CallInv /\ TokenInv  BY DEF ControlInv, TypeOK, ValueInv
<1>2. frame \in ScalarFrame
  BY DEF ScalarStep, StringStart, StringChar, StringInvalid, StringClose, StringEnd,
     NumberDigit, NumberDirect, NumberInvalid, NumberEnd, NumberRestDone, ScalarFrame
<1>3. /\ frame \in {"string", "stringStart"} => Kind[active] = "string"
      /\ frame \in {"number", "numberRest"} => Kind[active] = "number"
      /\ state = "ExpectValue"
  BY <1>1, <1>2 DEF CallInv, StringBusy, NumberBusy, Reads, ScalarFrame
<1> DEFINE kind == Kind[active]
<1>4. kind \in Scalar  BY <1>2, <1>3 DEF Scalar, ScalarFrame
<1>5. /\ UNCHANGED <<look, text>> /\ look \in Char
      /\ \A v \in Item(kind) : \A r \in Seq(Char) :
             ~Agrees(Append(PartRead, look), TokenText(kind, v) \o r)
  <2>1. "object" # "failed"  OBVIOUS
  <2>2. /\ frame \in {"string", "stringStart"} => kind = "string"
        /\ frame \in {"number", "numberRest"} => kind = "number"
    BY <1>3
  <2> HIDE DEF kind
  <2> QED  BY <1>1, <1>4, <2>1, <2>2, ScalarRefuses
<1>6. PartRead \in Seq(Char)  BY <1>1, PartReadTyped
<1>7. ValueRead = PartRead
  BY <1>2, ObjectReadCases DEF ObjectReadIs, Returned, ScalarFrame
<1>8. \A v \in Sound(active) : \A t \in Seq(Char) :
          ~Agrees(Append(PartRead, look), ValueText(active, v) \o t)
  <2>1. Sound(active) = Item(kind)  BY <1>4 DEF Sound, Scalar
  <2>2. \A v : ValueText(active, v) = TokenText(kind, v)  BY <1>4 DEF ValueText, Scalar
  <2> HIDE DEF kind
  <2> QED  BY <1>5, <2>1, <2>2
<1>9. frame # "caller"  BY <1>2 DEF ScalarFrame
<1>10. WithoutGaps(Refused) \notin Beginnings
  BY <1>3, <1>5, <1>6, <1>7, <1>8, <1>9, BehindKey
<1> QED  BY <1>5, <1>10 DEF RefusedRightly

LEMMA ArrayValueRefuses ==
    ASSUME KeysApart, ControlInv, ReadInv, LookInv, EnterInv, ValueInv, InArray,
           ArrayStep("object"), frame # "failed", frame' = "failed"
    PROVE  RefusedRightly /\ UNCHANGED <<look, text>>
<1>1. PoolTypeOK /\ ArrayTypeOK /\ PoolInv /\ CallInv /\ ArrayOrder /\ ItemInv
  BY DEF ControlInv, TypeOK, ReadInv, ValueInv
<1>2. ArrayInv  BY <1>1 DEF CallInv, ArrayInv, Reads, InArray
<1>3. frame \in ScalarFrame \cup ArrayFrame
  BY DEF ArrayStep, ResumeItem, ArrayResumesItem, OpenArray, ArrayBegins,
     ResumeArray, ArrayResumes, SkipArrayBlank, EndArrayChunk, CloseArray, ReadItem, ArraySkips,
     KeepItem, WaitForItem, Separate, ScalarStep, StringStart, StringChar, StringInvalid,
     StringClose, StringEnd, NumberDigit, NumberDirect, NumberInvalid, NumberEnd, NumberRestDone,
     ScalarFrame, ArrayFrame
<1>4. frame # "object" /\ frame # "caller"  BY <1>3 DEF ScalarFrame, ArrayFrame
<1>5. frame = "array" /\ ~array.began => look \in Char \ {Blank, Nul}
  BY <1>4 DEF EnterInv, Returned, Solid
<1>6. "object" \notin ScalarFrame \cup ArrayFrame \cup {"failed"}  BY DEF ScalarFrame, ArrayFrame
<1> DEFINE a == ArrayRead("object")
<1>7. /\ UNCHANGED <<look, text>> /\ look \in Char
      /\ \/ DigitAfterItem
         \/ \A ws \in Seq(Item(ItemKind)) : \A t \in Seq(Char) :
                ~Agrees(Append(a, look), ArrayText(ws) \o t)
  BY <1>1, <1>2, <1>5, <1>6, ArrayRefuses
<1>8. state = "ExpectValue" /\ Kind[active] = "array" /\ active \in Field
  BY <1>1 DEF InArray, CallInv
<1>9. ValueRead = a /\ a \in Seq(Char)
  BY <1>1, ObjectReadCases, FieldArrayTyped DEF ObjectReadIs
<1>10. CASE DigitAfterItem
  <2>1. PICK b \in Seq(Char), v \in Item("number") : a = b \o v
    BY <1>1, <1>10, ItemEndsInDigit
  <2> DEFINE k == KeyText(active)
             o == BeforePair(pairs)
  <2>2. o \in Seq(Char) /\ ObjectRead = o \o (k \o (b \o v))
    BY <1>8, <1>9, <2>1, ObjectReadCases DEF ObjectReadIs
  <2>3. k \in Seq(Char) /\ v \in Seq(Char)
    <3>1. v \in Seq(Digit)  BY DEF Item
    <3> QED  BY <1>8, <3>1, KeyTyped, SeqOfSubset, CharsApart
  <2> HIDE DEF k, o
  <2>4. o \o (k \o (b \o v)) = ((o \o k) \o b) \o v  BY <2>2, <2>3, TextsRegroup
  <2> DEFINE w == (o \o k) \o b
  <2>5. w \in Seq(Char) /\ ObjectRead = w \o v  BY <2>2, <2>3, <2>4, ConcatProperties
  <2>6. ~StringBusy /\ ~NumberBusy /\ look \in Digit
    BY <1>2, <1>10 DEF DigitAfterItem, ArrayInv, StringBusy, NumberBusy
  <2> HIDE DEF w
  <2>7. SplitNumber  BY <1>1, <1>4, <2>5, <2>6, SplitIs
  <2> QED  BY <1>7, <2>7 DEF RefusedRightly
<1>11. CASE \A ws \in Seq(Item(ItemKind)) : \A t \in Seq(Char) :
                ~Agrees(Append(a, look), ArrayText(ws) \o t)
  <2>1. Sound(active) = Seq(Item(ItemKind))  BY <1>8 DEF Sound
  <2>2. \A v : ValueText(active, v) = ArrayText(v)  BY <1>8 DEF ValueText
  <2> HIDE DEF a
  <2>3. \A v \in Sound(active) : \A t \in Seq(Char) :
            ~Agrees(Append(a, look), ValueText(active, v) \o t)
    BY <1>11, <2>1, <2>2
  <2>4. WithoutGaps(Refused) \notin Beginnings
    BY <1>4, <1>7, <1>8, <1>9, <2>3, BehindKey
  <2> QED  BY <1>7, <2>4 DEF RefusedRightly
<1> QED  BY <1>7, <1>10, <1>11

(* Behind a pair.                                                           *)
LEMMA PairEnds ==
    ASSUME ControlInv, ReadInv, ValueInv, state = "PreComma", frame # "failed"
    PROVE  /\ pairs \in Seq(SoundPair) /\ pairs # <<>>
           /\ ObjectRead = ObjectText(pairs) /\ ObjectRead \in Seq(Char)
           /\ ~StringBusy /\ ~NumberBusy
           /\ Kind[pairs[Len(pairs)].field] = "number" =>
                \E b \in Seq(Char) : \E v \in Item("number") : ObjectRead = b \o v
<1>1. pairs \in Seq(SoundPair) /\ pairs # <<>>  BY DEF ValueInv, ReadInv
<1>2. ObjectRead = ObjectText(pairs) /\ ObjectRead \in Seq(Char)
  BY ObjectReadCases DEF ObjectReadIs
<1>3. ~StringBusy /\ ~NumberBusy  BY DEF ControlInv, CallInv, Reads, InArray
<1>4. ASSUME Kind[pairs[Len(pairs)].field] = "number"
      PROVE  \E b \in Seq(Char) : \E v \in Item("number") : ObjectRead = b \o v
  <2>1. PICK f \in Seq(SoundPair), p \in SoundPair : pairs = Append(f, p)
    BY <1>1, SequenceEmptyOrAppend
  <2>2. Kind[p.field] = "number"  BY <1>4, <2>1, LastAppended
  <2>3. p.field \in Field /\ p.value \in Sound(p.field) /\ SoundPair \subseteq Kept  BY SoundIs
  <2>4. p.value \in Item("number")  BY <2>2, <2>3 DEF Sound
  <2>5. f \in Seq(Kept) /\ p \in Kept  BY <2>3, SeqOfSubset
  <2>6. ObjectRead = BeforePair(f) \o PairText(p) /\ BeforePair(f) \in Seq(Char)
    BY <1>2, <2>1, <2>5, ObjectTextAppend, ObjectTextTyped
  <2> DEFINE k == KeyText(p.field)
             b == BeforePair(f)
             v == p.value
  <2>7. k \in Seq(Char) /\ v \in Seq(Char)
    <3>1. v \in Seq(Digit)  BY <2>4 DEF Item
    <3> QED  BY <2>3, <3>1, KeyTyped, SeqOfSubset, CharsApart
  <2>8. PairText(p) = k \o v  BY <2>2 DEF PairText, ValueText, TokenText
  <2>9. b \in Seq(Char) /\ ObjectRead = b \o (k \o v)  BY <2>6, <2>8
  <2>10. v \in Item("number")  BY <2>4
  <2> HIDE DEF b, k, v
  <2>11. b \o (k \o v) = (b \o k) \o v /\ b \o k \in Seq(Char)  BY <2>7, <2>9, PairRegroups
  <2> QED  BY <2>9, <2>10, <2>11
<1> QED  BY <1>1, <1>2, <1>3, <1>4

LEMMA NextPairRefuses ==
    ASSUME KeysApart, ControlInv, ReadInv, LookInv, ValueInv, NextPair, frame' = "failed"
    PROVE  RefusedRightly /\ UNCHANGED <<look, text>>
<1>1. /\ frame = "object" /\ state = "PreComma" /\ look \in Char /\ look \notin {",", "}"}
      /\ UNCHANGED <<look, text>>
  BY DEF NextPair, InObject, Solid
<1>2. PoolTypeOK  BY DEF ControlInv, TypeOK
<1>3. /\ pairs \in Seq(SoundPair) /\ pairs # <<>>
      /\ ObjectRead = ObjectText(pairs) /\ ObjectRead \in Seq(Char)
      /\ ~StringBusy /\ ~NumberBusy
  BY <1>1, PairEnds
<1>4. CASE Kind[pairs[Len(pairs)].field] = "number" /\ look \in Digit
  <2>1. PICK b \in Seq(Char), v \in Item("number") : ObjectRead = b \o v
    BY <1>1, <1>4, PairEnds
  <2>2. SplitNumber  BY <1>1, <1>2, <1>3, <1>4, <2>1, SplitIs
  <2> QED  BY <1>1, <2>2 DEF RefusedRightly
<1>5. CASE Kind[pairs[Len(pairs)].field] = "number" => look \notin Digit
  <2>1. ObjectText(pairs) \o <<look>> \notin Beginnings
    BY <1>1, <1>3, <1>5, LastPairGoesOn
  <2>2. WithoutGaps(Refused) = Append(ObjectRead, look)  BY <1>1, <1>2, ReadWithLook
  <2>3. Append(ObjectRead, look) = ObjectRead \o <<look>>  BY <1>1, <1>3, AppendIsConcat
  <2> QED  BY <1>1, <1>3, <2>1, <2>2, <2>3 DEF RefusedRightly
<1> QED  BY <1>4, <1>5

(* The '}' of an object without a required field.                           *)
LEMMA CloseObjectRefuses ==
    ASSUME KeysApart, ControlInv, ReadInv, ValueInv, CloseObject, frame' = "failed"
    PROVE  text' = Append(text, look) /\ look' = Unread
           /\ WithoutGaps(text') \notin Beginnings
<1>1. /\ frame = "object" /\ state \in {"PreKey", "PreComma"} /\ look = "}"
      /\ text' = Append(text, look) /\ look' = Unread
  BY DEF CloseObject, InObject, Advance
<1>2. Missing # {}  BY <1>1 DEF CloseObject, ReturnTo
<1>3. ~(Required \subseteq Fields(pairs))
  <2>1. PICK f \in Required : ~out[f].given  BY <1>2 DEF Missing
  <2>2. f \in Field  BY FieldAssumption
  <2>3. out = Meaning(pairs)  BY DEF ReadInv
  <2> QED  BY <2>1, <2>2, <2>3, MeaningGives
<1> DEFINE e == "}"
           z == <<e>>
<1>4. e \in Char /\ z \in Seq(Char) /\ look = e  BY <1>1, ObjectChars
<1>5. WithoutGaps(text') = Append(ObjectRead, e)
  <2>1. WithoutGaps(Refused) = Append(ObjectRead, look)
    BY <1>1, <1>4, ReadWithLook DEF ControlInv, TypeOK
  <2>2. Refused = text'  BY <1>1, <1>4 DEF Refused
  <2> QED  BY <1>4, <2>1, <2>2
<1>6. CASE state = "PreKey"
  <2>1. ObjectRead = BeforePair(pairs) /\ BeforePair(pairs) \in Seq(Char)
    BY <1>6, ObjectReadCases DEF ObjectReadIs
  <2>2. Append(BeforePair(pairs), e) = BeforePair(pairs) \o z
    <3> HIDE DEF e
    <3> QED  BY <1>4, <2>1, AppendIsConcat
  <2>3. pairs \in Seq(SoundPair)  BY DEF ValueInv
  <2>4. BeforePair(pairs) \o z \notin Beginnings  BY <1>3, <2>3, ClosesWhole
  <2> QED  BY <1>1, <1>5, <2>1, <2>2, <2>4
<1>7. CASE state = "PreComma"
  <2>1. pairs \in Seq(SoundPair) /\ pairs # <<>>
        /\ ObjectRead = ObjectText(pairs) /\ ObjectRead \in Seq(Char)
    BY <1>1, <1>7, PairEnds
  <2>2. e \notin Digit  BY CharsApart DEF Mark
  <2>3. ObjectText(pairs) \o z \notin Beginnings
    <3> HIDE DEF e
    <3>1. ObjectText(pairs) \o <<e>> \in Beginnings => (e = "}" => Required \subseteq Fields(pairs))
      BY <1>4, <2>1, <2>2, LastPairGoesOn
    <3> QED  BY <1>3, <3>1 DEF e
  <2>4. Append(ObjectRead, e) = ObjectRead \o z
    <3> HIDE DEF e
    <3> QED  BY <1>4, <2>1, AppendIsConcat
  <2> QED  BY <1>1, <1>5, <2>1, <2>3, <2>4
<1> QED  BY <1>1, <1>6, <1>7

(* Only some steps of a call throw.                                         *)
LEMMA ObjectRefuses ==
    ASSUME KeysApart, ControlInv, ReadInv, EntryInv, ObjectStep,
           frame # "failed", frame' = "failed"
    PROVE  RefusesOnlyNonObjects'
<1>1. PoolTypeOK /\ ArrayTypeOK /\ LookInv /\ EnterInv /\ ValueInv
  BY DEF ControlInv, TypeOK, EntryInv
<1>2. ASSUME RefusedRightly, UNCHANGED <<look, text>> PROVE RefusesOnlyNonObjects'
  <2>1. Refused' = Refused /\ (SplitNumber' <=> SplitNumber)
    BY <1>2 DEF Refused, SplitNumber
  <2>2. WithoutGaps(Refused)' = WithoutGaps(Refused)  BY <2>1 DEF WithoutGaps, Without
  <2> QED  BY <1>2, <2>1, <2>2 DEF RefusedRightly, RefusesOnlyNonObjects
<1>3. CASE OpenObject  BY <1>1, <1>2, <1>3, OpenObjectRefuses
<1>4. CASE TakeKey  BY <1>1, <1>2, <1>4, TakeKeyRefuses
<1>5. CASE ReadColon  BY <1>1, <1>2, <1>5, ReadColonRefuses
<1>6. CASE NextPair  BY <1>1, <1>2, <1>6, NextPairRefuses
<1>7. CASE CloseObject
  <2>1. text' = Append(text, look) /\ look' = Unread /\ WithoutGaps(text') \notin Beginnings
    BY <1>1, <1>7, CloseObjectRefuses
  <2>2. Unread \notin Char  BY CharsApart
  <2>3. Refused' = text'  BY <2>1, <2>2 DEF Refused
  <2>4. WithoutGaps(Refused)' = WithoutGaps(text')  BY <2>3 DEF WithoutGaps, Without
  <2> QED  BY <2>1, <2>4 DEF RefusesOnlyNonObjects
<1>8. CASE InArray /\ ArrayStep("object") /\ UNCHANGED objectVars
  BY <1>1, <1>2, <1>8, ArrayValueRefuses
<1>9. CASE ~InArray /\ ScalarStep("object") /\ UNCHANGED <<array, objectVars>>
  <2>1. CASE state = "ExpectKey"  BY <1>1, <1>2, <1>9, <2>1, KeyRefuses
  <2>2. CASE state # "ExpectKey"  BY <1>1, <1>2, <1>9, <2>2, ScalarValueRefuses
  <2> QED  BY <2>1, <2>2
<1>10. CASE \/ SkipObjectBlank \/ EndObjectChunk \/ WaitForParser \/ ReadKey \/ ReadValue
            \/ ResumeValue \/ KeepValue
  <2>1. frame' # "failed"
    BY <1>10 DEF SkipObjectBlank, InObject, EndObjectChunk, WaitForParser, ObjectNeedsMore, ReturnTo,
       ReadKey, ReadValue, ResumeValue, ValueFrame, EntryFrame, KeepValue
  <2> QED  BY <2>1
<1> QED  BY <1>3, <1>4, <1>5, <1>6, <1>7, <1>8, <1>9, <1>10 DEF ObjectStep

(* The inductive strengthening of RefusesOnlyNonObjects.                    *)
RefuseInv == RefusesOnlyNonObjects /\ (frame # "failed" => EntryInv)

LEMMA RefuseInitial == Init => RefuseInv
<1> SUFFICES ASSUME Init PROVE RefuseInv
  OBVIOUS
<1>1. /\ frame = "caller" /\ ret = "none" /\ look = Unread /\ text = <<>>
      /\ string.finished /\ number.finished /\ state = "NotStarted" /\ pairs = <<>>
  BY DEF Init, PoolInit
<1>2. ValueInv /\ EnterInv  BY <1>1, EmptyValues
<1>3. LookInv  BY <1>1, CharsApart DEF LookInv, DigitFollows, WaitsAtEnd, Returned
<1> QED  BY <1>1, <1>2, <1>3 DEF RefuseInv, EntryInv, RefusesOnlyNonObjects

LEMMA RefusedStays ==
    ASSUME RefuseInv, frame' = "failed", UNCHANGED vars
    PROVE  RefuseInv'
<1>1. UNCHANGED <<frame, look, text>>  BY DEF vars, poolVars
<1>2. SplitNumber \/ WithoutGaps(Refused) \notin Beginnings
  BY <1>1 DEF RefuseInv, RefusesOnlyNonObjects
<1>3. Refused' = Refused /\ (SplitNumber' <=> SplitNumber)
  BY <1>1 DEF Refused, SplitNumber
<1>4. WithoutGaps(Refused)' = WithoutGaps(Refused)  BY <1>3 DEF WithoutGaps, Without
<1> QED  BY <1>2, <1>3, <1>4 DEF RefuseInv, RefusesOnlyNonObjects

LEMMA RefuseKept ==
    ASSUME KeysApart, IInv, RefuseInv, [Next]_vars \/ Fed
    PROVE  RefuseInv'
<1>1. frame # "failed" => ReadInv /\ EntryInv  BY DEF IInv, RefuseInv
<1>2. CASE frame' # "failed" /\ [Next]_vars
  <2>1. EntryInv'  BY <1>2, EntryKept DEF RefuseInv
  <2> QED  BY <1>2, <2>1 DEF RefuseInv, RefusesOnlyNonObjects
<1>3. CASE Fed
  <2>1. frame # "failed" /\ frame' # "failed"  BY <1>3 DEF Fed, Feed
  <2>2. EntryInv'  BY <1>1, <1>3, <2>1, FedKeepsEntry
  <2> QED  BY <2>1, <2>2 DEF RefuseInv, RefusesOnlyNonObjects
<1>4. CASE frame' = "failed" /\ [Next]_vars
  <2>1. ControlInv  BY DEF IInv
  <2>2. CASE ObjectStep
    <3>1. frame # "failed"  BY <2>1, <2>2, RunningStep
    <3>2. RefusesOnlyNonObjects'  BY <1>1, <1>4, <2>1, <2>2, <3>1, ObjectRefuses
    <3> QED  BY <1>4, <3>2 DEF RefuseInv
  <2>3. CASE UNCHANGED vars  BY <1>4, <2>3, RefusedStays
  <2>4. CASE Parse \/ Swap \/ Drop \/ ((FeedChar \/ FeedEnd) /\ UNCHANGED <<array, objectVars>>)
    BY <1>4, <2>4 DEF Parse, Swap, Complete, Drop, NewPool, FeedChar, FeedEnd, Feed
  <2> QED  BY <1>4, <2>2, <2>3, <2>4 DEF Next, Step
<1> QED  BY <1>2, <1>3, <1>4

(* Where the keys tell the fields apart, an exception of ParseObject, of    *)
(* the array of a field or of a parser of the pool means that no object     *)
(* with the required fields begins with the text read and the character     *)
(* that was met, or that whitespace split a number.  (Of two fields with    *)
(* one key setActivating only ever finds the first; and a key that cannot   *)
(* stand in a text as it is cannot be met, escapes being left out.)         *)
THEOREM RefusesOnlyBadObjects == KeysApart /\ Spec => []RefusesOnlyNonObjects
<1> SUFFICES ASSUME KeysApart PROVE Spec => []RefusesOnlyNonObjects
  OBVIOUS
<1>1. IInv /\ RefuseInv /\ [Next]_vars => RefuseInv'  BY RefuseKept
<1>2. RefuseInv => RefusesOnlyNonObjects  BY DEF RefuseInv
<1> QED  BY <1>1, <1>2, RefuseInitial, Invariance, PTL DEF Spec

----------------------------------------------------------------------------
(* What a step of a running call may do at Begin. *)
MovesOn ==
    \/ UNCHANGED <<look, text>>
    \/ Advance /\ look \in Char
    \/ Skip /\ look \in {Blank, Nul}

(* A call asks for the next chunk where this one ended, and stays there.    *)
AsksAtEnd ==
    ret' = "nullptr" /\ look # Nul =>
        UNCHANGED look /\ (ret = "nullptr" \/ look = EndOfChunk)

LEMMA ScalarMovesOn ==
    ASSUME NEW back, PoolInv, ScalarStep(back)
    PROVE  MovesOn /\ AsksAtEnd
<1>b. frame \in ScalarFrame => ret = "none"  BY DEF PoolInv
<1> USE <1>b DEF MovesOn, AsksAtEnd, ReturnTo, Advance, Throw, ScalarFrame
<1>a. Quote \in Char /\ Digit \subseteq Char  BY DEF Char
<1>1. CASE StringStart  BY <1>1, <1>a DEF StringStart
<1>2. CASE StringChar  BY <1>2 DEF StringChar
<1>3. CASE StringInvalid  BY <1>3 DEF StringInvalid
<1>4. CASE StringClose(back)  BY <1>4, <1>a DEF StringClose
<1>5. CASE StringEnd(back)  BY <1>5 DEF StringEnd
<1>6. CASE NumberDigit  BY <1>6, <1>a DEF NumberDigit
<1>7. CASE NumberDirect(back)  BY <1>7 DEF NumberDirect
<1>8. CASE NumberInvalid  BY <1>8 DEF NumberInvalid
<1>9. CASE NumberEnd(back)  BY <1>9 DEF NumberEnd
<1>10. CASE NumberRestDone(back)  BY <1>10 DEF NumberRestDone
<1> QED
  BY <1>1, <1>2, <1>3, <1>4, <1>5, <1>6, <1>7, <1>8, <1>9, <1>10 DEF ScalarStep

LEMMA ArrayMovesOn ==
    ASSUME NEW back, PoolInv, frame \in {"array", "arrayFirst"} => ret = "none",
           ArrayStep(back)
    PROVE  MovesOn /\ AsksAtEnd
<1>a. "[" \in Char /\ "]" \in Char /\ "," \in Char  BY DEF Char, Mark
<1>11. CASE ScalarStep("arrayLoop") /\ UNCHANGED array  BY <1>11, ScalarMovesOn
<1> USE DEF MovesOn, AsksAtEnd, ReturnTo, Advance, Throw
<1>1. CASE ResumeItem  BY <1>1 DEF ResumeItem
<1>2. CASE OpenArray  BY <1>2, <1>a DEF OpenArray, ArrayBegins
<1>3. CASE ResumeArray  BY <1>3 DEF ResumeArray
<1>4. CASE SkipArrayBlank  BY <1>4 DEF SkipArrayBlank, ArraySkips
<1>5. CASE EndArrayChunk(back)  BY <1>5 DEF EndArrayChunk, ArrayNeedsMore
<1>6. CASE CloseArray(back)  BY <1>6, <1>a DEF CloseArray
<1>7. CASE ReadItem  BY <1>7 DEF ReadItem
<1>8. CASE KeepItem  BY <1>8 DEF KeepItem
<1>9. CASE WaitForItem(back)  BY <1>9 DEF WaitForItem, ArrayNeedsMore
<1>10. CASE Separate  BY <1>10, <1>a DEF Separate
<1> QED
  BY <1>1, <1>2, <1>3, <1>4, <1>5, <1>6, <1>7, <1>8, <1>9, <1>10, <1>11 DEF ArrayStep

LEMMA ObjectMovesOn ==
    ASSUME PoolInv, CallInv, ObjectStep
    PROVE  MovesOn /\ AsksAtEnd
<1>a. "{" \in Char /\ "}" \in Char /\ ":" \in Char /\ "," \in Char  BY DEF Char, Mark
<1>13. CASE InArray /\ ArrayStep("object") /\ UNCHANGED objectVars  BY <1>13, ArrayMovesOn DEF CallInv
<1>14. CASE ~InArray /\ ScalarStep("object") /\ UNCHANGED <<array, objectVars>>
  BY <1>14, ScalarMovesOn
<1> USE DEF MovesOn, AsksAtEnd, ReturnTo, Advance, Throw, InObject
<1>1. CASE SkipObjectBlank  BY <1>1 DEF SkipObjectBlank
<1>2. CASE EndObjectChunk  BY <1>2 DEF EndObjectChunk, ObjectNeedsMore
<1>3. CASE WaitForParser  BY <1>3 DEF WaitForParser, ObjectNeedsMore
<1>4. CASE OpenObject  BY <1>4, <1>a DEF OpenObject
<1>5. CASE ReadKey  BY <1>5 DEF ReadKey
<1>6. CASE TakeKey  BY <1>6 DEF TakeKey
<1>7. CASE ReadColon  BY <1>7, <1>a DEF ReadColon
<1>8. CASE ReadValue  BY <1>8 DEF ReadValue
<1>9. CASE ResumeValue  BY <1>9 DEF ResumeValue
<1>10. CASE KeepValue  BY <1>10 DEF KeepValue
<1>11. CASE NextPair  BY <1>11, <1>a DEF NextPair
<1>12. CASE CloseObject  BY <1>12, <1>a DEF CloseObject
<1> QED
  BY <1>1, <1>2, <1>3, <1>4, <1>5, <1>6, <1>7, <1>8, <1>9, <1>10, <1>11, <1>12, <1>13, <1>14
  DEF ObjectStep

----------------------------------------------------------------------------
(* Characters on the way. *)

LEMMA LookedTyped == Looked \in Seq(Char) /\ (look \notin Char => Looked = <<>>)
<1>1. \A c \in Char : <<c>> \in Seq(Char)  OBVIOUS
<1>2. <<>> \in Seq(Char)  BY EmptyIsSeq
<1> QED  BY <1>1, <1>2 DEF Looked

LEMMA NotChars == Unread \notin Char /\ EndOfChunk \notin Char /\ Unread # EndOfChunk
BY CharAssumption DEF Char, Mark, Quote, Blank, Nul, Unread, EndOfChunk

LEMMA NulOut ==
    /\ \A s \in Seq(Char \ {Nul}) : s \in Seq(Char)
    /\ \A ss \in Seq(Seq(Char \ {Nul})) : ss \in Seq(Seq(Char)) /\ FlattenSeq(ss) \in Seq(Char)
<1>1. Char \ {Nul} \subseteq Char  OBVIOUS
<1>2. \A s \in Seq(Char \ {Nul}) : s \in Seq(Char)  BY <1>1, SeqOfSubset
<1>3. Seq(Char \ {Nul}) \subseteq Seq(Char)  BY <1>2
<1>4. \A ss \in Seq(Seq(Char \ {Nul})) : ss \in Seq(Seq(Char))  BY <1>3, SeqOfSubset
<1>5. \A ss \in Seq(Seq(Char)) : FlattenSeq(ss) \in Seq(Char)  BY FlattenTyped
<1> QED  BY <1>2, <1>4, <1>5

(* Every part of what is on the way is a text. *)
LEMMA PartsTyped ==
    ASSUME ControlInv, MainTypeOK
    PROVE  /\ WithoutGaps(text) \in Seq(Char) /\ Looked \in Seq(Char)
           /\ WithoutGaps(text) \o Looked \in Seq(Char)
           /\ block \in Seq(Char) /\ FlattenSeq(queue) \in Seq(Char)
           /\ OnTheWay \in Seq(Char)
<1>1. WithoutGaps(text) \in Seq(Char)
  BY WithoutGapsAppend DEF ControlInv, TypeOK, PoolTypeOK
<1>2. block \in Seq(Char) /\ FlattenSeq(queue) \in Seq(Char)  BY NulOut DEF MainTypeOK
<1>3. WithoutGaps(text) \o Looked \in Seq(Char)  BY <1>1, LookedTyped, ConcatProperties
<1>4. WithoutGaps(text) \o Looked \o block \in Seq(Char)  BY <1>2, <1>3, ConcatProperties
<1>5. OnTheWay \in Seq(Char)  BY <1>2, <1>4, ConcatProperties DEF OnTheWay
<1> QED  BY <1>1, <1>2, <1>3, <1>5, LookedTyped

LEMMA BlanksOut ==
    ASSUME NEW s \in Seq(Char), NEW t \in Seq(Char)
    PROVE  /\ WithoutBlanks(s \o t) = WithoutBlanks(s) \o WithoutBlanks(t)
           /\ WithoutBlanks(s) \in Seq(Char \ {Blank})
<1>1. Without(Blank, s \o t) = Without(Blank, s) \o Without(Blank, t)  BY WithoutConcat
<1>2. Without(Blank, s) \in Seq(Char \ {Blank})  BY WithoutTyped
<1> QED  BY <1>1, <1>2 DEF WithoutBlanks

(* What comes behind makes no difference. *)
LEMMA FrontSwapped ==
    ASSUME NEW f \in Seq(Char), NEW g \in Seq(Char), WithoutBlanks(f) = WithoutBlanks(g),
           NEW b \in Seq(Char), NEW q \in Seq(Char)
    PROVE  WithoutBlanks(f \o b \o q) = WithoutBlanks(g \o b \o q)
<1>1. f \o b \in Seq(Char) /\ g \o b \in Seq(Char)  BY ConcatProperties
<1>2. WithoutBlanks(f \o b) = WithoutBlanks(f) \o WithoutBlanks(b)  BY BlanksOut
<1>3. WithoutBlanks(g \o b) = WithoutBlanks(g) \o WithoutBlanks(b)  BY BlanksOut
<1>4. WithoutBlanks((f \o b) \o q) = WithoutBlanks(f \o b) \o WithoutBlanks(q)
  BY <1>1, BlanksOut
<1>5. WithoutBlanks((g \o b) \o q) = WithoutBlanks(g \o b) \o WithoutBlanks(q)
  BY <1>1, BlanksOut
<1> QED  BY <1>2, <1>3, <1>4, <1>5

(* What constant operators make of the next state's values. *)
LEMMA NextWay ==
    /\ OnTheWay' = WithoutGaps(text') \o Looked' \o block' \o FlattenSeq(queue')
    /\ WithoutBlanks(OnTheWay)' = WithoutBlanks(OnTheWay')
    /\ Delivered' = WithoutBlanks(SubSeq(file', 1, offset'))
<1>1. WithoutGaps(text)' = WithoutGaps(text')  BY NextTexts
<1>2. OnTheWay' = WithoutGaps(text') \o Looked' \o block' \o FlattenSeq(queue')
  BY <1>1 DEF OnTheWay
<1>3. WithoutBlanks(OnTheWay)' = WithoutBlanks(OnTheWay')  BY DEF WithoutBlanks, Without
<1>4. Delivered' = WithoutBlanks(SubSeq(file', 1, offset'))
  BY DEF Delivered, WithoutBlanks, Without
<1> QED  BY <1>2, <1>3, <1>4

(* A running call moves the character at Begin into what was read, or drops *)
(* it because it is whitespace.                                             *)
LEMMA RunningKeepsWay ==
    ASSUME ControlInv, MainTypeOK, MovesOn, look # Nul, UNCHANGED <<block, queue>>
    PROVE  WithoutBlanks(OnTheWay') = WithoutBlanks(OnTheWay)
<1> DEFINE w == WithoutGaps(text)
           f == w \o Looked
           g == WithoutGaps(text') \o Looked'
           q == FlattenSeq(queue)
<1>1. w \in Seq(Char) /\ f \in Seq(Char) /\ block \in Seq(Char) /\ q \in Seq(Char)
  BY PartsTyped
<1>2. OnTheWay' = g \o block \o q /\ OnTheWay = f \o block \o q
  BY NextWay DEF OnTheWay
<1>3. text \in Seq(Char \cup {Gap})  BY DEF ControlInv, TypeOK, PoolTypeOK
<1>4. g \in Seq(Char) /\ WithoutBlanks(g) = WithoutBlanks(f)
  <2>1. CASE UNCHANGED <<look, text>>
    <3>1. Looked' = Looked  BY <2>1 DEF Looked
    <3> QED  BY <1>1, <2>1, <3>1
  <2>2. CASE Advance /\ look \in Char
    <3>1. WithoutGaps(text') = Append(w, look)
      BY <1>3, <2>2, WithoutGapsAppend DEF Advance
    <3>2. Append(w, look) = w \o <<look>> /\ Append(w, look) \in Seq(Char)
      BY <1>1, <2>2, AppendIsConcat, AppendProperties
    <3>3. Looked = <<look>> /\ Looked' = <<>>  BY <2>2, NotChars DEF Looked, Advance
    <3>4. WithoutGaps(text') = f /\ Looked' = <<>>  BY <3>1, <3>2, <3>3
    <3>5. g = f  BY <1>1, <3>4, ConcatEmptySeq
    <3> QED  BY <1>1, <3>5
  <2>3. CASE Skip /\ look = Blank
    <3>1. WithoutGaps(text') = w  BY <1>3, <2>3, WithoutGapsAppend DEF Skip
    <3>2. Looked' = <<>>  BY <2>3, NotChars DEF Looked, Skip
    <3>3. g = w  BY <1>1, <3>1, <3>2, ConcatEmptySeq
    <3>4. Blank \in Char  BY TextChars
    <3>5. f = Append(w, Blank)  BY <1>1, <2>3, <3>4, AppendIsConcat DEF Looked
    <3>6. Without(Blank, Append(w, Blank)) = Without(Blank, w)
      BY <1>1, <3>4, WithoutSkips
    <3> QED  BY <1>1, <3>3, <3>5, <3>6 DEF WithoutBlanks
  <2> QED  BY <2>1, <2>2, <2>3 DEF MovesOn
<1> HIDE DEF f, g, q
<1> QED  BY <1>1, <1>2, <1>4, FrontSwapped

(* The code looks at the next character of the block, or at its end. *)
LEMMA FeedKeepsWay ==
    ASSUME ControlInv, MainTypeOK, FeedBlock
    PROVE  OnTheWay' = OnTheWay
<1> DEFINE w == WithoutGaps(text)
           q == FlattenSeq(queue)
<1>1. w \in Seq(Char) /\ block \in Seq(Char) /\ q \in Seq(Char)  BY PartsTyped
<1>2. look = Unread /\ text' = text /\ queue' = queue
  BY DEF FeedBlock, FeedEnd, Feed
<1>3. Looked = <<>>  BY <1>2, NotChars, LookedTyped
<1>4. w \o Looked = w  BY <1>1, <1>3, ConcatEmptySeq
<1>5. OnTheWay = w \o block \o q /\ OnTheWay' = w \o Looked' \o block' \o q
  BY <1>2, <1>4, NextWay DEF OnTheWay
<1>6. CASE block # <<>> /\ look' = Head(block) /\ block' = Tail(block)
  <2>1. Head(block) \in Char /\ Tail(block) \in Seq(Char)
    BY <1>1, <1>6, HeadTailProperties
  <2>2. Looked' = <<Head(block)>>  BY <1>6, <2>1 DEF Looked
  <2>3. <<Head(block)>> \in Seq(Char)  BY <2>1
  <2>4. (w \o <<Head(block)>>) \o Tail(block) = w \o (<<Head(block)>> \o Tail(block))
    BY <1>1, <2>1, <2>3, ConcatAssociative
  <2>5. <<Head(block)>> \o Tail(block) = block  BY <1>1, <1>6, HeadThenTail
  <2> QED  BY <1>5, <1>6, <2>2, <2>4, <2>5
<1>7. CASE look' = EndOfChunk /\ block' = block
  <2>1. Looked' = <<>>  BY <1>7, NotChars DEF Looked
  <2> QED  BY <1>1, <1>5, <1>7, <2>1, ConcatEmptySeq
<1> QED  BY <1>6, <1>7 DEF FeedBlock, FeedEnd, Feed

(* Remove takes the first block where the one before it was used up. *)
LEMMA TakeKeepsWay ==
    ASSUME ControlInv, MainTypeOK, BlockInv, TakeBlock
    PROVE  OnTheWay' = OnTheWay
<1> DEFINE w == WithoutGaps(text)
<1>1. /\ w \in Seq(Char) /\ FlattenSeq(queue) \in Seq(Char) /\ queue \in Seq(Seq(Char))
      /\ queue # <<>>
  BY PartsTyped, NulOut DEF MainTypeOK, TakeBlock
<1>2. /\ block = <<>> /\ block' = Head(queue) /\ queue' = Tail(queue) /\ text' = text
      /\ look' = Unread /\ look \notin Char
  BY DEF TakeBlock, Parses, Parse, BlockInv
<1>3. Looked = <<>> /\ Looked' = <<>>  BY <1>2, NotChars DEF Looked
<1>4. Head(queue) \in Seq(Char) /\ Tail(queue) \in Seq(Seq(Char))
  <2> DEFINE T == Seq(Char)
  <2>1. queue \in Seq(T)  BY <1>1
  <2> HIDE DEF T
  <2>2. Head(queue) \in T /\ Tail(queue) \in Seq(T)  BY <1>1, <2>1, HeadTailProperties
  <2> QED  BY <2>2 DEF T
<1>5. FlattenSeq(Tail(queue)) \in Seq(Char)  BY <1>4, FlattenTyped
<1>6. FlattenSeq(queue) = Head(queue) \o FlattenSeq(Tail(queue))
  BY <1>1, FlattenHead
<1>7. w \o <<>> = w  BY <1>1, ConcatEmptySeq
<1>8. OnTheWay = w \o (Head(queue) \o FlattenSeq(Tail(queue)))
  BY <1>2, <1>3, <1>6, <1>7 DEF OnTheWay
<1>9. OnTheWay' = w \o Head(queue) \o FlattenSeq(Tail(queue))
  BY <1>2, <1>3, <1>7, NextWay
<1> DEFINE h == Head(queue)
           t == FlattenSeq(Tail(queue))
<1> HIDE DEF w, h, t
<1>10. (w \o h) \o t = w \o (h \o t)
  <2>1. w \in Seq(Char) /\ h \in Seq(Char) /\ t \in Seq(Char)  BY <1>1, <1>4, <1>5 DEF h, t
  <2> QED  BY <2>1, ConcatAssociative
<1> QED  BY <1>8, <1>9, <1>10 DEF h, t

(* A read puts the next part of the file behind what came before. *)
LEMMA GotKeepsWay ==
    ASSUME ControlInv, MainTypeOK, NEW count \in 1..BlockSize, Got(count),
           WithoutBlanks(OnTheWay) = Delivered
    PROVE  WithoutBlanks(OnTheWay') = Delivered'
<1> DEFINE b == Block(count)
           f == WithoutGaps(text) \o Looked \o block
           q == FlattenSeq(queue)
           n == offset
<1>1. file \in Seq(Char) /\ n \in 0..Len(file) /\ n + count \in 0..Len(file) /\ count \in Nat
  BY FileAssumption, NulOut DEF MainTypeOK, Got
<1>2. b \in Seq(Char) /\ SubSeq(file, 1, n) \in Seq(Char)
  <2>1. \A i \in 1..Len(file) : file[i] \in Char  BY <1>1
  <2>2. \A i \in (n + 1)..(n + count) : file[i] \in Char  BY <1>1, <2>1
  <2>3. \A i \in 1..n : file[i] \in Char  BY <1>1, <2>1
  <2> QED  BY <1>1, <2>2, <2>3, SubSeqProperties DEF Block
<1>3. SubSeq(file, 1, n) \o b = SubSeq(file, 1, n + count)
  BY <1>1, ConcatAdjacentSubSeq DEF Block
<1>4. Delivered' = WithoutBlanks(SubSeq(file, 1, n + count))
  BY NextWay DEF Got
<1>5. f \in Seq(Char) /\ q \in Seq(Char) /\ OnTheWay \in Seq(Char)
  <2>1. WithoutGaps(text) \o Looked \in Seq(Char) /\ block \in Seq(Char)  BY PartsTyped
  <2> QED  BY <2>1, PartsTyped, ConcatProperties
<1>6. OnTheWay = f \o q  BY DEF OnTheWay
<1>7. FlattenSeq(queue') = q \o b
  <2>1. queue \in Seq(Seq(Char)) /\ queue' = Append(queue, b)
    BY NulOut DEF MainTypeOK, Got, Added
  <2> QED  BY <1>2, <2>1, FlattenAppend
<1>8. OnTheWay' = f \o (q \o b)
  <2>1. Looked' = Looked /\ text' = text /\ block' = block
    BY DEF Got, Looked, vars, poolVars
  <2> QED  BY <1>7, <2>1, NextWay
<1>9. OnTheWay' = OnTheWay \o b
  <2> HIDE DEF b, f, q
  <2>1. (f \o q) \o b = f \o (q \o b)  BY <1>2, <1>5, ConcatAssociative
  <2> QED  BY <1>6, <1>8, <2>1
<1> HIDE DEF b
<1>10. WithoutBlanks(OnTheWay') = WithoutBlanks(OnTheWay) \o WithoutBlanks(b)
  BY <1>2, <1>5, <1>9, BlanksOut
<1>11. Delivered' = Delivered \o WithoutBlanks(b)
  BY <1>2, <1>3, <1>4, BlanksOut DEF Delivered
<1> QED  BY <1>10, <1>11

----------------------------------------------------------------------------
(* A call that returns has an object, or is at the end of its chunk. *)
LEMMA ReturnsAtEnd ==
    ASSUME ControlInv, frame # "failed", ObjectStep, frame' = "caller"
    PROVE  CloseObject \/ ret' = "nullptr"
<1>a. TypeOK /\ PoolTypeOK /\ ArrayTypeOK /\ PoolInv  BY DEF ControlInv, TypeOK
<1> USE DEF InObject, ReturnTo, Throw, ObjectNeedsMore
<1>1. CASE SkipObjectBlank  BY <1>1 DEF SkipObjectBlank
<1>2. CASE EndObjectChunk  BY <1>2 DEF EndObjectChunk
<1>3. CASE WaitForParser  BY <1>3 DEF WaitForParser
<1>4. CASE OpenObject  BY <1>4 DEF OpenObject
<1>5. CASE ReadKey  BY <1>5 DEF ReadKey, EntryFrame
<1>6. CASE TakeKey  BY <1>6 DEF TakeKey
<1>7. CASE ReadColon  BY <1>7 DEF ReadColon
<1>8. CASE ReadValue  BY <1>8 DEF ReadValue, ValueFrame, EntryFrame
<1>9. CASE ResumeValue  BY <1>9 DEF ResumeValue, ValueFrame, EntryFrame
<1>10. CASE KeepValue  BY <1>10 DEF KeepValue
<1>11. CASE NextPair  BY <1>11 DEF NextPair
<1>12. CASE CloseObject  BY <1>12
<1>13. CASE InArray /\ ArrayStep("object") /\ UNCHANGED objectVars
  BY <1>13, <1>a, ArrayKeepsTypes DEF ScalarFrame, ArrayFrame
<1>14. CASE ~InArray /\ ScalarStep("object") /\ UNCHANGED <<array, objectVars>>
  BY <1>14, <1>a, ScalarKeepsTypes DEF ScalarFrame
<1> QED
  BY <1>1, <1>2, <1>3, <1>4, <1>5, <1>6, <1>7, <1>8, <1>9, <1>10, <1>11, <1>12, <1>13,
     <1>14 DEF ObjectStep

(* A running call leaves the block in order. *)
LEMMA RunningKeepsBlock ==
    ASSUME ControlInv, frame # "failed", BlockInv, ObjectStep, UNCHANGED block
    PROVE  BlockInv'
<1>a. PoolTypeOK /\ PoolInv /\ CallInv  BY DEF ControlInv, TypeOK
<1>b. MovesOn /\ AsksAtEnd  BY <1>a, ObjectMovesOn
<1>c. Unread # Nul /\ EndOfChunk # Nul /\ Unread # EndOfChunk
  BY DEF Unread, Nul, EndOfChunk
<1>1. look' = look \/ look' = Unread  BY <1>b DEF MovesOn, Advance, Skip
<1>2. look' # Nul  BY <1>1, <1>c DEF BlockInv
<1>3. look' = EndOfChunk => block' = <<>>  BY <1>1, <1>c DEF BlockInv
<1>4. ret' = "nullptr" => look' = EndOfChunk  BY <1>b DEF BlockInv, AsksAtEnd
<1>5. frame' = "caller" => look' \notin Char /\ (Complete' \/ block' = <<>>)
  <2> SUFFICES ASSUME frame' = "caller"
               PROVE  look' \notin Char /\ (Complete' \/ block' = <<>>)
    OBVIOUS
  <2>1. CASE CloseObject
    <3>1. Advance /\ look \in Char /\ finished'
      BY <2>1, ObjectChars DEF CloseObject, Throw
    <3>2. text' # <<>>  BY <1>a, <3>1, AdvanceFillsText
    <3>3. look' = Unread  BY <3>1 DEF Advance
    <3> QED  BY <3>1, <3>2, <3>3, NotChars DEF Complete
  <2>2. CASE ret' = "nullptr"  BY <1>3, <1>4, <2>2, NotChars
  <2> QED  BY <2>1, <2>2, ReturnsAtEnd
<1> QED  BY <1>2, <1>3, <1>4, <1>5 DEF BlockInv

LEMMA FeedKeepsBlock ==
    ASSUME MainTypeOK, BlockInv, FeedBlock
    PROVE  BlockInv'
<1>1. frame' = frame /\ frame # "caller" /\ ret' = ret /\ ret = "none"
  BY DEF FeedBlock, FeedEnd, Feed
<1>2. \/ block # <<>> /\ look' = Head(block)
      \/ block' = <<>> /\ look' = EndOfChunk
  BY DEF FeedBlock, FeedEnd, Feed
<1>3. CASE block # <<>> /\ look' = Head(block)
  <2>1. look' \in Char \ {Nul}
    <3> DEFINE S == Char \ {Nul}
    <3>1. block \in Seq(S)  BY DEF MainTypeOK
    <3> HIDE DEF S
    <3>2. Head(block) \in S  BY <1>3, <3>1, HeadTailProperties
    <3> QED  BY <1>3, <3>2 DEF S
  <2> QED  BY <1>1, <2>1, NotChars DEF BlockInv
<1>4. CASE block' = <<>> /\ look' = EndOfChunk
  BY <1>1, <1>4, NotChars DEF BlockInv, EndOfChunk, Nul
<1> QED  BY <1>2, <1>3, <1>4

(* The object's own steps among those of the program. *)
LEMMA MainStepIs ==
    ASSUME [MainNext]_allVars, MainInv
    PROVE  \/ ObjectStep /\ UNCHANGED mainVars /\ place = "parsing"
           \/ TakeBlock
           \/ FeedBlock
           \/ UNCHANGED vars /\ UNCHANGED <<block>>
BY DEF MainNext, Reading, Parsing, Abort, Got, GotNone, ReadAll, SwapOut, ParseBlock,
   allVars, mainVars

LEMMA FeedIsFed == MainTypeOK /\ FeedBlock => Fed
<1> SUFFICES ASSUME MainTypeOK, FeedBlock PROVE Fed
  OBVIOUS
<1>1. block # <<>> => Head(block) \in Char
  <2> SUFFICES ASSUME block # <<>> PROVE Head(block) \in Char
    OBVIOUS
  <2>1. block \in Seq(Char)  BY NulOut DEF MainTypeOK
  <2> QED  BY <2>1, HeadTailProperties
<1> QED  BY <1>1 DEF FeedBlock, FeedEnd, Fed

(* The parser's own invariant: the blocks are chunks like any other. *)
LEMMA MainKeepsIInv ==
    ASSUME MainInv, [MainNext]_allVars
    PROVE  IInv'
<1>a. ControlInv /\ (frame # "failed" => ReadInv) /\ MainTypeOK  BY DEF MainInv, IInv
<1>1. CASE ObjectStep
  <2>1. frame # "failed"  BY <1>a, <1>1, RunningStep
  <2>2. ControlInv'  BY <1>a, <1>1, ControlKept DEF Next, Step
  <2> QED  BY <1>a, <1>1, <2>1, <2>2, ObjectKeepsReadInv DEF IInv
<1>2. CASE CallerStep
  BY <1>a, <1>2, CallerKeepsControlInv, CallerKeepsReadInv DEF IInv
<1>3. CASE UNCHANGED vars
  <2>1. ControlInv'  BY <1>a, <1>3, ControlKept
  <2> QED  BY <1>a, <1>3, <2>1, CallerKeepsReadInv DEF IInv
<1> QED
  BY <1>a, <1>1, <1>2, <1>3, MainStepIs, FeedIsFed DEF CallerStep, TakeBlock

(* The variables of main. *)
LEMMA MainKeepsTypes ==
    ASSUME MainTypeOK, [MainNext]_allVars
    PROVE  MainTypeOK'
<1> DEFINE S == Char \ {Nul}
           T == Seq(S)
<1>a. /\ file \in Document /\ offset \in 0..Len(file)
      /\ eof \in BOOLEAN /\ readError \in BOOLEAN
      /\ queue \in Seq(T) /\ block \in T
      /\ place \in {"reading", "parsing", "done", "aborted"}
  BY DEF MainTypeOK
<1>b. file \in T  BY <1>a, FileAssumption
<1> SUFFICES /\ file' \in Document /\ offset' \in 0..Len(file')
             /\ eof' \in BOOLEAN /\ readError' \in BOOLEAN
             /\ queue' \in Seq(T) /\ block' \in T
             /\ place' \in {"reading", "parsing", "done", "aborted"}
  BY DEF MainTypeOK
<1>1. ASSUME NEW count \in 1..BlockSize, Got(count) PROVE queue' \in Seq(T) /\ offset' \in 0..Len(file')
  <2>1. offset \in Nat /\ count \in Nat /\ offset + count <= Len(file) /\ Len(file) \in Nat
    BY <1>1, <1>a, <1>b, FileAssumption DEF Got
  <2>2. Block(count) \in T
    <3> HIDE DEF S
    <3>1. \A i \in 1..Len(file) : file[i] \in S  BY <1>b
    <3>2. \A i \in (offset + 1)..(offset + count) : file[i] \in S  BY <2>1, <3>1
    <3>3. offset + 1 \in Int /\ offset + count \in Int  BY <2>1
    <3> QED  BY <3>2, <3>3, SubSeqProperties DEF Block
  <2> HIDE DEF T
  <2>3. queue' \in Seq(T)  BY <1>1, <1>a, <2>2, AppendProperties DEF Got, Added
  <2>4. offset' \in 0..Len(file')  BY <1>1, <2>1 DEF Got
  <2> QED  BY <2>3, <2>4
<1>2. ASSUME TakeBlock PROVE queue' \in Seq(T) /\ block' \in T
  <2> HIDE DEF T
  <2> QED  BY <1>2, <1>a, HeadTailProperties DEF TakeBlock
<1>3. ASSUME FeedBlock PROVE block' \in T
  <2>1. block # <<>> => Tail(block) \in T
    <3> HIDE DEF S
    <3> QED  BY <1>a, HeadTailProperties
  <2> HIDE DEF T
  <2> QED  BY <1>3, <1>a, <2>1 DEF FeedBlock
<1> HIDE DEF T
<1>4. CASE UNCHANGED allVars  BY <1>4, <1>a DEF allVars, mainVars, inputVars
<1>5. CASE Abort  BY <1>5, <1>a DEF Abort, inputVars
<1>6. CASE \E answer \in Answer : GotNone(answer)
  <2> PICK answer \in Answer : GotNone(answer)
    BY <1>6
  <2>1. eof' \in BOOLEAN /\ readError' \in BOOLEAN  BY DEF GotNone, EndsInput
  <2>2. UNCHANGED <<file, offset, queue, block, place>>  BY DEF GotNone
  <2> QED  BY <2>1, <2>2, <1>a
<1>7. CASE ReadAll  BY <1>7, <1>a DEF ReadAll, inputVars
<1>8. ASSUME NEW count \in 1..BlockSize, Got(count)
      PROVE  /\ file' \in Document /\ eof' \in BOOLEAN /\ readError' \in BOOLEAN
             /\ block' \in T
             /\ place' \in {"reading", "parsing", "done", "aborted"}
  BY <1>8, <1>a DEF Got
<1>9. CASE TakeBlock  BY <1>9, <1>a, <1>2 DEF TakeBlock, inputVars
<1>10. CASE FeedBlock  BY <1>10, <1>a, <1>3 DEF FeedBlock, inputVars
<1>11. CASE ParseBlock  BY <1>11, <1>a DEF ParseBlock, mainVars, inputVars
<1>12. CASE SwapOut  BY <1>12, <1>a DEF SwapOut, inputVars
<1> QED
  BY <1>1, <1>4, <1>5, <1>6, <1>7, <1>8, <1>9, <1>10, <1>11, <1>12
  DEF MainNext, Reading, Parsing

(* What is on the way, and the block, at every step of the program. *)
LEMMA MainKeepsWay ==
    ASSUME MainInv, [MainNext]_allVars
    PROVE  BlockInv' /\ BlocksAreTheFile'
<1>a. ControlInv /\ MainTypeOK  BY DEF MainInv, IInv
<1>b. BlocksAreTheFile' <=> /\ WithoutBlanks(OnTheWay') = Delivered'
                            /\ eof' /\ ~readError' => offset' = Len(file')
  BY NextWay DEF BlocksAreTheFile
<1>c. /\ BlockInv /\ WithoutBlanks(OnTheWay) = Delivered
      /\ eof /\ ~readError => offset = Len(file)
  BY DEF MainInv, BlocksAreTheFile
<1>h. UNCHANGED <<file, offset, eof, readError>> =>
        (eof' /\ ~readError' => offset' = Len(file'))
  BY <1>c
<1>d. UNCHANGED <<file, offset>> => Delivered' = Delivered  BY NextWay DEF Delivered
<1>e. UNCHANGED vars => UNCHANGED <<frame, finished, text, look, ret>>
  BY DEF vars, poolVars, objectVars
<1>f. UNCHANGED vars /\ UNCHANGED block => BlockInv'
  BY <1>c, <1>e DEF BlockInv, Complete
<1>g. UNCHANGED vars /\ UNCHANGED <<block, queue>> => OnTheWay' = OnTheWay
  BY <1>e, NextWay DEF OnTheWay, Looked
<1>1. CASE ObjectStep /\ UNCHANGED mainVars
  <2>1. frame # "failed" /\ UNCHANGED <<block, queue, file, offset, eof, readError>>
    BY <1>a, <1>1, RunningStep DEF mainVars, inputVars
  <2>2. MovesOn /\ look # Nul
    BY <1>1, <1>a, <1>c, <2>1, ObjectMovesOn DEF ControlInv, BlockInv
  <2>3. WithoutBlanks(OnTheWay') = WithoutBlanks(OnTheWay)
    BY <1>a, <2>1, <2>2, RunningKeepsWay
  <2>4. BlockInv'  BY <1>1, <1>a, <1>c, <2>1, RunningKeepsBlock
  <2> QED  BY <1>b, <1>c, <1>d, <1>h, <2>1, <2>3, <2>4
<1>2. CASE TakeBlock
  <2>1. /\ frame # "failed" /\ frame' # "caller" /\ look' = Unread /\ ret' = "none"
        /\ UNCHANGED <<file, offset, eof, readError>>
    BY <1>2 DEF TakeBlock, Parses, Parse, inputVars
  <2>2. OnTheWay' = OnTheWay  BY <1>2, <1>a, <1>c, <2>1, TakeKeepsWay
  <2>3. BlockInv'  BY <2>1 DEF BlockInv, Unread, Nul, EndOfChunk
  <2> QED  BY <1>b, <1>c, <1>d, <1>h, <2>1, <2>2, <2>3
<1>3. CASE FeedBlock
  <2>1. frame # "failed" /\ UNCHANGED <<file, offset, eof, readError>>
    BY <1>3 DEF FeedBlock, FeedEnd, Feed, inputVars
  <2>2. OnTheWay' = OnTheWay  BY <1>3, <1>a, FeedKeepsWay
  <2>3. BlockInv'  BY <1>3, <1>a, <1>c, <2>1, FeedKeepsBlock
  <2> QED  BY <1>b, <1>c, <1>d, <1>h, <2>1, <2>2, <2>3
<1>4. ASSUME NEW count \in 1..BlockSize, Got(count)
      PROVE  BlockInv' /\ BlocksAreTheFile'
  <2>1. UNCHANGED vars /\ UNCHANGED block /\ ~eof'  BY <1>4 DEF Got, InputLoop
  <2>2. WithoutBlanks(OnTheWay') = Delivered'  BY <1>4, <1>a, <1>c, GotKeepsWay
  <2> QED  BY <1>b, <1>f, <2>1, <2>2
<1>5. CASE UNCHANGED vars /\ UNCHANGED <<inputVars, queue, block>>
  BY <1>b, <1>c, <1>d, <1>f, <1>g, <1>h, <1>5 DEF inputVars
<1>6. ASSUME NEW answer \in Answer, GotNone(answer)
      PROVE  BlockInv' /\ BlocksAreTheFile'
  <2>1. /\ UNCHANGED vars /\ UNCHANGED <<file, offset, queue, block>>
        /\ eof' = EndsInput(answer) /\ readError' = (answer = "error")
        /\ answer = "end" => offset = Len(file)
    BY <1>6 DEF GotNone
  <2>2. eof' /\ ~readError' => offset' = Len(file')
    BY <2>1 DEF EndsInput
  <2> QED  BY <1>b, <1>c, <1>d, <1>f, <1>g, <2>1, <2>2
<1> QED
  BY <1>1, <1>2, <1>3, <1>4, <1>5, <1>6 DEF MainNext, Reading, Parsing, Abort, ReadAll,
     SwapOut, ParseBlock, allVars, mainVars

(* In every reachable state of the program the parser is in order, and what *)
(* it has read, its block and the queue are what was read of the file.      *)
THEOREM MainInvariance == MainSpec => []MainInv
<1>1. MainInit => MainInv
  <2> SUFFICES ASSUME MainInit PROVE MainInv
    OBVIOUS
  <2>1. IInv  BY StartsInOrder DEF MainInit
  <2>2. MainTypeOK
    <3>1. <<>> \in Seq(Seq(Char \ {Nul})) /\ <<>> \in Seq(Char \ {Nul})  OBVIOUS
    <3>2. file \in Document /\ file \in Seq(Char \ {Nul})
      BY FileAssumption DEF MainInit
    <3>3. 0 \in 0..Len(file)  BY <3>2
    <3> QED  BY <3>1, <3>2, <3>3 DEF MainInit, MainTypeOK
  <2>3. /\ frame = "caller" /\ look = Unread /\ text = <<>> /\ ret = "none"
        /\ block = <<>> /\ queue = <<>> /\ offset = 0
    BY DEF MainInit, Init, PoolInit
  <2>4. BlockInv  BY <2>3, NotChars DEF BlockInv, Unread, Nul, EndOfChunk
  <2>5. OnTheWay = <<>>
    <3>1. Looked = <<>>  BY <2>3, NotChars DEF Looked
    <3>2. <<>> \o <<>> = <<>>  OBVIOUS
    <3>3. FlattenSeq(<<>>) = <<>>  BY DEF FlattenSeq
    <3> QED  BY <2>3, <3>1, <3>2, <3>3, WithoutGapsEmpty DEF OnTheWay
  <2>6. SubSeq(file, 1, offset) = <<>>  BY <2>3, SubSeqEmpty
  <2>9. ~eof  BY DEF MainInit
  <2>7. BlocksAreTheFile  BY <2>5, <2>6, <2>9 DEF BlocksAreTheFile, Delivered
  <2>8. place = "reading"  BY DEF MainInit
  <2> QED  BY <2>1, <2>2, <2>3, <2>4, <2>7, <2>8 DEF MainInv
<1>2. MainInv /\ [MainNext]_allVars => MainInv'
  <2> SUFFICES ASSUME MainInv, [MainNext]_allVars PROVE MainInv'
    OBVIOUS
  <2>1. IInv' /\ MainTypeOK'  BY MainKeepsIInv, MainKeepsTypes DEF MainInv
  <2>2. BlockInv' /\ BlocksAreTheFile'  BY MainKeepsWay
  <2>3. /\ place # "parsing" => frame = "caller"
        /\ place = "done" => values = out /\ (Complete \/ queue = <<>>)
    BY DEF MainInv
  <2>a. UNCHANGED vars => /\ UNCHANGED <<frame, finished, text, out>>
                          /\ Complete' <=> Complete
    BY DEF vars, poolVars, objectVars, kept, Complete
  <2>4. /\ place' # "parsing" => frame' = "caller"
        /\ place' = "done" => values' = out' /\ (Complete' \/ queue' = <<>>)
    <3> HIDE DEF Complete
    <3>1. CASE TakeBlock \/ FeedBlock \/ ParseBlock
      <4>1. place' = "parsing"
        BY <3>1 DEF TakeBlock, Parses, FeedBlock, ParseBlock, mainVars
      <4> QED  BY <4>1
    <3>2. CASE SwapOut
      <4>1. /\ UNCHANGED vars /\ UNCHANGED queue /\ frame = "caller" /\ values' = out
            /\ Complete \/ queue = <<>>
        BY <3>2 DEF SwapOut, Parses, LeavesLoop
      <4> QED  BY <4>1, <2>a
    <3>3. CASE \E count \in 1..BlockSize : Got(count)
      <4>1. UNCHANGED vars /\ place = "reading" /\ place' = "reading"
        BY <3>3 DEF Got, InputLoop
      <4> QED  BY <4>1, <2>a, <2>3
    <3>4. CASE Abort \/ (\E answer \in Answer : GotNone(answer)) \/ ReadAll
      <4>1. UNCHANGED vars /\ place = "reading" /\ place' # "done"
        BY <3>4 DEF Abort, GotNone, ReadAll, InputLoop
      <4> QED  BY <4>1, <2>a, <2>3
    <3>5. CASE UNCHANGED allVars
      <4>1. UNCHANGED vars /\ UNCHANGED <<place, values, queue>>
        BY <3>5 DEF allVars, mainVars
      <4> QED  BY <4>1, <2>a, <2>3
    <3> QED
      BY <3>1, <3>2, <3>3, <3>4, <3>5 DEF MainNext, Reading, Parsing
  <2> QED  BY <2>1, <2>2, <2>4 DEF MainInv
<1> QED  BY <1>1, <1>2, PTL DEF MainSpec

(* No character is lost, repeated or moved between read and the parser,     *)
(* however the reads cut the file into blocks.                              *)
THEOREM BlocksReadWhole == MainSpec => []BlocksAreTheFile
<1>1. MainInv => BlocksAreTheFile  BY DEF MainInv, BlocksAreTheFile
<1> QED  BY <1>1, MainInvariance, PTL

(* However the reads cut the file into blocks, readparse ends with an       *)
(* exception only if no object with the required fields begins with what    *)
(* was parsed and the character it met, or whitespace split a number.  By   *)
(* BlocksReadWhole that is what the file begins with.                       *)
THEOREM RefusesOnlyBadFiles == KeysApart /\ MainSpec => []RefusesOnlyNonObjects
<1> SUFFICES ASSUME KeysApart PROVE MainSpec => []RefusesOnlyNonObjects
  OBVIOUS
<1>1. MainInit => RefuseInv  BY RefuseInitial DEF MainInit
<1>2. MainInv /\ RefuseInv /\ [MainNext]_allVars => RefuseInv'
  <2> SUFFICES ASSUME MainInv, RefuseInv, [MainNext]_allVars PROVE RefuseInv'
    OBVIOUS
  <2>1. IInv /\ MainTypeOK  BY DEF MainInv
  <2>2. [Next]_vars \/ Fed
    BY <2>1, MainStepIs, FeedIsFed DEF Next, Step, TakeBlock
  <2> QED  BY <2>1, <2>2, RefuseKept
<1>3. RefuseInv => RefusesOnlyNonObjects  BY DEF RefuseInv
<1> QED  BY <1>1, <1>2, <1>3, MainInvariance, PTL DEF MainSpec

(* What main gets is what the file says: the fields of the object it begins *)
(* with, or of the pairs that were over where it ends too early.            *)
THEOREM ValuesOfTheFile == MainSpec => []ValuesAreTheFile
<1>1. MainInv => ValuesAreTheFile
  <2> SUFFICES ASSUME MainInv, place = "done" PROVE ValuesAreTheFile
    BY DEF ValuesAreTheFile
  <2> DEFINE w == WithoutGaps(text)
             q == FlattenSeq(queue)
  <2>1. /\ ControlInv /\ ReadInv /\ MainTypeOK /\ BlockInv /\ frame = "caller"
        /\ values = out /\ (Complete \/ queue = <<>>)
        /\ WithoutBlanks(OnTheWay) = Delivered
    BY DEF MainInv, IInv, BlocksAreTheFile
  <2>2. values = Meaning(pairs)  BY <2>1 DEF ReadInv
  <2>3. w \in Seq(Char) /\ block \in Seq(Char) /\ q \in Seq(Char)  BY <2>1, PartsTyped
  <2>4. Looked = <<>>  BY <2>1 DEF BlockInv, Looked
  <2>5. OnTheWay = w \o block \o q  BY <2>3, <2>4, ConcatEmptySeq DEF OnTheWay
  <2> HIDE DEF w, q
  <2>6. CASE Complete
    <3>1. w \in Texts(pairs) /\ Required \subseteq Fields(pairs)  BY <2>1, <2>6 DEF ReadInv, w
    <3>2. OnTheWay = w \o (block \o q) /\ block \o q \in Seq(Char)
      BY <2>3, <2>5, ConcatAssociative, ConcatProperties
    <3>3. Delivered = WithoutBlanks(w) \o WithoutBlanks(block \o q)
      BY <2>1, <2>3, <3>2, BlanksOut
    <3>4. IsPrefix(WithoutBlanks(w), Delivered)
      <4>1. /\ WithoutBlanks(w) \in Seq(Char \ {Blank})
            /\ WithoutBlanks(block \o q) \in Seq(Char \ {Blank})
        BY <2>3, <3>2, BlanksOut
      <4> QED  BY <3>3, <4>1, FrontIsPrefix
    <3> QED  BY <2>2, <2>6, <3>1, <3>4 DEF ValuesAreTheFile
  <2>7. CASE ~Complete
    <3>1. block = <<>> /\ queue = <<>>  BY <2>1, <2>7 DEF BlockInv
    <3>2. q = <<>>  BY <3>1 DEF q, FlattenSeq
    <3>3. OnTheWay = w  BY <2>3, <2>5, <3>1, <3>2, ConcatEmptySeq
    <3>4. w = ObjectRead  BY <2>1, <2>7 DEF ReadInv, w
    <3> QED  BY <2>1, <2>2, <2>7, <3>3, <3>4 DEF ValuesAreTheFile
  <2> QED  BY <2>6, <2>7
<1> QED  BY <1>1, MainInvariance, PTL
=============================================================================
