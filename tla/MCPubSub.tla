------------------------------ MODULE MCPubSub ------------------------------
(***************************************************************************)
(* A small instance for TLC of SerialPubSub, and of the flows over values  *)
(* of each type: a behaviour is one of the sketch, or a single value that  *)
(* a device publishes in one format and another is shown in its own.       *)
(***************************************************************************)
EXTENDS SerialPubSub

VARIABLE sample

\* Numbers on both sides of every limit, a value of each other type, and the objects
\* a device may publish, whose keys are distinct.
Constant(types)  == {Value(type, "x") : type \in types} \cup {Null}
Scalars(format)  ==
  IF format = "cbor"
  THEN {Integer(n) : n \in -2 * Int64Limit .. 2 * Int64Limit - 1}
       \cup Constant(CborTypes \ {"integer", "null", "object"})
  ELSE {Integer(n) : n \in -2 * Int64Limit .. 2 * Int64Limit}
       \cup Constant(JsonTypes \ {"integer", "null", "object"})
Entries(format)  == [key : {<<"k">>, <<"l">>}, value : Scalars(format)]
Objects(format)  ==
  {Value("object", entries) :
     entries \in {e \in SeqOf(Entries(format), 2) :
                    \A i \in DOMAIN e : \A j \in DOMAIN e : e[i].key = e[j].key => i = j}}

MCTopic == <<"t">>
Samples ==
  UNION {[from : {from}, to : Formats, value : Scalars(from) \cup Objects(from)] :
           from \in Formats}
NoSample == [from |-> "none", to |-> "none", value |-> Null]

MCInit == PubSubInit /\ sample \in Samples \cup {NoSample}
MCNext == sample = NoSample /\ PubSubNext /\ UNCHANGED sample
MCSpec == MCInit /\ [][MCNext]_<<pubSubVars, sample>>

-----------------------------------------------------------------------------
(* What gets through.                                                      *)

\* What tinycbor makes JSON of without changing it: no number that a double rounds.
PrintedAsIs(value) ==
  /\ value.type \notin {"nan", "bytes", "undefined"}
  /\ value.type = "quoted" => TextsEscaped
  /\ value.type = "integer" => value.v \in -PrintedExact .. PrintedExact

\* What ArduinoJson reads and writes without changing it.
ReadAsIs(value) ==
  /\ value.type # "real"
  /\ value.type = "integer" => value.v \in -Int64Limit .. 2 * Int64Limit - 1

\* A device that writes the text itself and one that is shown it need neither, and CBOR
\* gives null and an array as texts.
KeptScalar(from, to, value) ==
  \/ from = "json" /\ to = "json"
  \/ /\ ReadAsIs(value)
     /\ from = "cbor" => PrintedAsIs(value)
     /\ to = "cbor" => value.type \notin {"null", "array"}

\* A CBOR device is shown an object as its text.
Kept(from, to, value) ==
  IF value.type = "object"
  THEN /\ to # "cbor"
       /\ \A i \in DOMAIN value.v : KeptScalar(from, to, value.v[i].value)
  ELSE KeptScalar(from, to, value)

\* What is published is what subscribers are shown, from every format and in every
\* format, unless one of the conversions between the two cannot keep it: an integer
\* comes out exactly up to 2^53 from CBOR and within 64 bits from JSON, on whichever
\* side of the signed ones.  Of an object that is published in CBOR only the first
\* property is, under the topic of that property, and nothing if it has none or if
\* any part of the frame cannot be read.
ShownAsPublished ==
  sample # NoSample =>
    LET from  == sample.from
        value == sample.value
        shown == Shown(from, sample.to, Frame("pub", MCTopic, value))
        given(key, v) ==
          Kept(from, sample.to, v) => shown = Frame("pub", MCTopic \o key, v)
    IN
    IF from # "cbor" THEN given(<< >>, value)
    ELSE IF Unreadable(value) THEN shown = NoFrame
    ELSE IF value.type # "object" THEN given(<< >>, value)
    ELSE IF value.v = << >> THEN shown = NoFrame
    ELSE given(value.v[1].key, value.v[1].value)
=============================================================================
