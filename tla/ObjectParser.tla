---------------------------- MODULE ObjectParser ----------------------------
(***************************************************************************)
(* ParseObject: an object whose fields are strings, numbers and arrays.    *)
(* Keys and scalar values are read with the parsers of the pool, an array  *)
(* with the parser the field's KeyContainerValue owns.  Every place where  *)
(* a chunk may end is a member of State; the next Parse goes on there.     *)
(*                                                                         *)
(* ScanningKeyValue::given is left out: nothing reads it.                  *)
(***************************************************************************)
EXTENDS ArrayParser

CONSTANTS
    Key,        \* The fields' keys, in the order of the fields.
    Kind,       \* The fields' parsers: "string", "number" or "array".
    Required    \* Fields that use RequiredKeyValue.

Field == DOMAIN Key
NoField == 0

ASSUME FieldAssumption ==
    /\ Key \in Seq(Seq(Char))
    /\ Kind \in [Field -> Scalar \cup {"array"}]
    /\ Required \subseteq Field
    /\ \A f, g \in Field : Kind[f] = "array" /\ Kind[g] = "array" => f = g

VARIABLES
    state, activating, active, finished, out,
    pairs       \* History: the fields kept since the last Swap, with their values.

kept == <<out, pairs>>
objectVars == <<state, activating, active, finished, kept>>
vars == <<poolVars, array, objectVars>>

(* Of ExpectColon and ExpectComma no call is left: they are passed at once. *)
State == {"NotStarted", "PreKey", "ExpectKey", "PreColon", "PreValue",
          "ExpectValue", "PreComma"}

ValueOf(f) ==
    CASE Kind[f] = "string" -> Seq(Char)
      [] Kind[f] = "number" -> Seq(Digit)
      [] Kind[f] = "array" -> Seq(Seq(Char))

(* A sequence of fields with values of theirs. *)
PairsTypeOK ==
    /\ pairs \in Seq({pairs[i] : i \in DOMAIN pairs})
    /\ \A i \in DOMAIN pairs :
        pairs[i] \in [field : Field, value : ValueOf(pairs[i].field)]

TypeOK ==
    /\ frame \in ScalarFrame \cup ArrayFrame \cup {"object", "caller", "failed"}
    /\ PoolTypeOK
    /\ ArrayTypeOK
    /\ state \in State
    /\ activating \in Field \cup {NoField}
    /\ active \in Field \cup {NoField}
    /\ finished \in BOOLEAN
    /\ DOMAIN out = Field
    /\ \A f \in Field : out[f] \in [given : BOOLEAN, value : ValueOf(f)]
    /\ PairsTypeOK

(* Type(): no field given, every value the default of its type. *)
NothingGiven == [f \in Field |-> [given |-> FALSE, value |-> <<>>]]

Init ==
    /\ PoolInit
    /\ array = NewArray
    /\ state = "NotStarted"
    /\ activating = NoField
    /\ active = NoField
    /\ finished = TRUE
    /\ out = NothingGiven
    /\ pairs = <<>>

----------------------------------------------------------------------------
(* Parse: the cases of its switch. *)

InObject == frame = "object" /\ ret = "none"

(* Characters that end a skipWhitespace in this chunk. *)
Solid == Char \ {Blank, Nul}

SkipObjectBlank ==
    /\ InObject
    /\ state \in {"PreKey", "PreColon", "PreValue", "PreComma"}
    /\ look = Blank
    /\ Skip
    /\ UNCHANGED <<frame, ret, buffer, scan, string, number, array, objectVars>>

(* return setFinished(nullptr) *)
ObjectForgets == UNCHANGED finished /\ ReturnTo("caller", "nullptr")
ObjectNeedsMore == finished' = FALSE /\ ReturnTo("caller", "nullptr")

(* The chunk ends, or a zero character hides the rest of it. *)
EndObjectChunk ==
    /\ InObject
    /\ \/ look = EndOfChunk /\ UNCHANGED <<look, text>>
       \/ look = Nul /\ state \in {"PreKey", "PreColon", "PreValue", "PreComma"} /\ Skip
    /\ ObjectNeedsMore
    /\ UNCHANGED <<buffer, scan, string, number, array, state, activating, active, kept>>

(* A parser called from here needs the next chunk. *)
WaitForParser ==
    /\ frame = "object"
    /\ ret = "nullptr"
    /\ ObjectNeedsMore
    /\ UNCHANGED <<look, text, buffer, scan, string, number, array,
                   state, activating, active, kept>>

OpenObject ==
    /\ InObject
    /\ state = "NotStarted"
    /\ look \in Char
    /\ IF look = "{"
       THEN /\ state' = "PreKey"
            /\ Advance
            /\ UNCHANGED <<frame, ret, buffer, scan, string, number, array,
                           activating, active, finished, kept>>
       ELSE /\ Throw
            /\ UNCHANGED <<ret, look, text, buffer, scan, string, number, array, objectVars>>

(* Also taken right after '{' and after ','. *)
ReadKey ==
    /\ InObject
    /\ \/ state = "PreKey" /\ look \in Solid \ {"}"}
       \/ state = "ExpectKey" /\ look \in Char
    /\ state' = "ExpectKey"
    /\ frame' = EntryFrame("string")
    /\ UNCHANGED <<ret, look, text, buffer, scan, string, number, array,
                   activating, active, finished, kept>>

(* setActivating: the first field with that key. *)
OneAfter(named) == {f + 1 : f \in named}
First(named) == {f \in named : \A g \in named : f <= g}

TakeKey ==
    /\ frame = "object"
    /\ ret = "pointer"
    /\ state = "ExpectKey"
    /\ LET named == {f \in Field : Key[f] = string.value}
       IN  IF named = {}
           THEN /\ Throw
                /\ UNCHANGED <<ret, look, text, buffer, scan, string, number, array, objectVars>>
           ELSE /\ activating' \in First(named)
                /\ state' = "PreColon"
                /\ ret' = "none"
                /\ UNCHANGED <<frame, look, text, buffer, scan, string, number, array,
                               active, finished, kept>>

ReadColon ==
    /\ InObject
    /\ state = "PreColon"
    /\ look \in Solid
    /\ IF look = ":"
       THEN /\ state' = "PreValue"
            /\ Advance
            /\ UNCHANGED <<frame, ret, buffer, scan, string, number, array,
                           activating, active, finished, kept>>
       ELSE /\ Throw
            /\ UNCHANGED <<ret, look, text, buffer, scan, string, number, array, objectVars>>

(* Scanner(f).Parse. *)
ValueFrame(f) == IF Kind[f] = "array" THEN "array" ELSE EntryFrame(Kind[f])

ReadValue ==
    /\ InObject
    /\ state = "PreValue"
    /\ look \in Solid
    /\ active' = activating
    /\ activating' = NoField
    /\ state' = "ExpectValue"
    /\ frame' = ValueFrame(activating)
    /\ UNCHANGED <<ret, look, text, buffer, scan, string, number, array, finished, kept>>

ResumeValue ==
    /\ InObject
    /\ state = "ExpectValue"
    /\ look \in Char
    /\ frame' = ValueFrame(active)
    /\ UNCHANGED <<ret, look, text, buffer, scan, string, number, array, objectVars>>

(* KeyValue::Swap exchanges the field's value with the pool's, and          *)
(* KeyContainerValue::Swap with the parser's out, which is then cut to      *)
(* nothing; Give marks the field.                                           *)
KeepValue ==
    /\ frame = "object"
    /\ ret = "pointer"
    /\ state = "ExpectValue"
    /\ LET Give(v) ==
               /\ out' = [out EXCEPT ![active] = [given |-> TRUE, value |-> v]]
               /\ pairs' = Append(pairs, [field |-> active, value |-> v])
           old == out[active].value
       IN  \/ /\ Kind[active] = "string"
              /\ Give(string.value)
              /\ string' = [string EXCEPT !.value = old]
              /\ UNCHANGED <<number, array>>
           \/ /\ Kind[active] = "number"
              /\ Give(number.value)
              /\ number' = [number EXCEPT !.value = old]
              /\ UNCHANGED <<string, array>>
           \/ /\ Kind[active] = "array"
              /\ Give(array.out)
              /\ array' = [array EXCEPT !.out = <<>>]
              /\ UNCHANGED <<string, number>>
    /\ active' = NoField
    /\ state' = "PreComma"
    /\ ret' = "none"
    /\ UNCHANGED <<frame, look, text, buffer, scan, activating, finished>>

NextPair ==
    /\ InObject
    /\ state = "PreComma"
    /\ look \in Solid \ {"}"}
    /\ IF look = ","
       THEN /\ state' = "PreKey"
            /\ Advance
            /\ UNCHANGED <<frame, ret, buffer, scan, string, number, array,
                           activating, active, finished, kept>>
       ELSE /\ Throw
            /\ UNCHANGED <<ret, look, text, buffer, scan, string, number, array, objectVars>>

(* checkPassed, reached from PreKey and from PreComma. *)
NoneMissing == {}
AnyMissing == {f \in Field : ~out[f].given}
Missing == {f \in Required : ~out[f].given}

CloseObject ==
    /\ InObject
    /\ state \in {"PreKey", "PreComma"}
    /\ look = "}"
    /\ Advance
    /\ IF Missing # {}
       THEN /\ Throw
            /\ UNCHANGED <<ret, buffer, scan, string, number, array, objectVars>>
       ELSE /\ state' = "NotStarted"
            /\ activating' = NoField
            /\ active' = NoField
            /\ finished' = TRUE
            /\ ReturnTo("caller", "pointer")
            /\ UNCHANGED <<buffer, scan, string, number, array, kept>>

(* The value being read is an array: its frames are under this one. *)
InArray == state = "ExpectValue" /\ Kind[active] = "array"

ObjectStep ==
    \/ SkipObjectBlank
    \/ EndObjectChunk
    \/ WaitForParser
    \/ OpenObject
    \/ ReadKey
    \/ TakeKey
    \/ ReadColon
    \/ ReadValue
    \/ ResumeValue
    \/ KeepValue
    \/ NextPair
    \/ CloseObject
    \/ InArray /\ ArrayStep("object") /\ UNCHANGED objectVars
    \/ ~InArray /\ ScalarStep("object") /\ UNCHANGED <<array, objectVars>>

----------------------------------------------------------------------------
(* The caller: chunk after chunk until the object is complete, then Swap.   *)

(* Parse returned a pointer: Finished() holds after a call. *)
Complete == frame = "caller" /\ finished /\ text # <<>>

Parse ==
    /\ frame = "caller"
    /\ ~Complete
    /\ frame' = "object"
    /\ ret' = "none"
    /\ look' = Unread
    /\ UNCHANGED <<text, buffer, scan, string, number, array, objectVars>>

(* Alt receives the fields, and the parser starts from Type() again. *)

Swap ==
    /\ Complete
    /\ out' = NothingGiven
    /\ pairs' = <<>>
    /\ text' = <<>>
    /\ UNCHANGED <<frame, ret, look, buffer, scan, string, number, array,
                   state, activating, active, finished>>

(* After an exception the parser and its pool are dropped for new ones. *)
Drop ==
    /\ frame = "failed"
    /\ NewPool
    /\ array' = NewArray
    /\ state' = "NotStarted"
    /\ activating' = NoField
    /\ active' = NoField
    /\ finished' = TRUE
    /\ out' = NothingGiven
    /\ pairs' = <<>>

Step == ObjectStep \/ ((FeedChar \/ FeedEnd) /\ UNCHANGED <<array, objectVars>>)

Next == Parse \/ Swap \/ Drop \/ Step

(* A running call goes on, and every chunk ends. *)
Spec ==
    /\ Init
    /\ [][Next]_vars
    /\ WF_vars(Step)
    /\ SF_vars(FeedEnd /\ UNCHANGED <<array, objectVars>>)

----------------------------------------------------------------------------
(* The parser the object's state says is being read with. *)
Reads(kind) ==
    \/ state = "ExpectKey" /\ kind = "string"
    \/ state = "ExpectValue" /\ Kind[active] = kind
    \/ InArray /\ ItemKind = kind

(* While a call runs or waits the object knows the field at hand, and a     *)
(* frame or a busy parser below the object's is the one its state names.    *)
CallInv ==
    /\ state \in {"PreColon", "PreValue"} => activating \in Field
    /\ state = "ExpectValue" => active \in Field
    /\ frame \in ArrayFrame => InArray
    /\ frame \in {"array", "arrayFirst"} => ret = "none"
    /\ frame \in {"arrayFirst", "arrayLoop"} /\ ret # "nullptr" =>
        string.finished /\ number.finished
    /\ StringBusy \/ frame = "stringStart" => Reads("string")
    /\ NumberBusy => Reads("number")

(* From the '{' of an object to the end of the call that reads its '}' the  *)
(* state is not NotStarted, and the array is begun and unfinished only      *)
(* inside the value being read.                                             *)
StageInv ==
    /\ state # "NotStarted" => text # <<>>
    /\ state = "NotStarted" /\ text # <<>> => frame = "caller" /\ finished
    /\ frame = "caller" /\ finished => state = "NotStarted"
    /\ array.finished \/ array.began
    /\ array.began \/ array.out # <<>> => InArray
    /\ InArray => /\ frame = "object" /\ ret = "pointer" => array.finished /\ ~array.began
                  /\ frame \in {"arrayFirst", "arrayLoop"} \cup ScalarFrame => array.began
                  /\ StringBusy \/ NumberBusy => array.began
                  /\ frame \in {"object", "caller"} /\ (StringBusy \/ NumberBusy) => ~array.finished

(* The inductive invariant behind TypeOK, BufferOwned and                   *)
(* StopsWhereStateSays: whichever frame is running, the object's state, the *)
(* busy parser, the array and the contents of the buffer agree.  After an   *)
(* exception only the types are left.                                       *)
ControlInv == TypeOK /\ (frame # "failed" => PoolInv /\ CallInv /\ StageInv)
=============================================================================
