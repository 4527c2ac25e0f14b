------------------------------- MODULE Flows --------------------------------
(***************************************************************************)
(* What the gateways make of a device's frames and of Redis' replies:      *)
(* src/Flows.cpp in its formats "cbor", "crlf" (JSON with a CRC) and       *)
(* "json", and the choice of a format in src/udp2redis.cpp and             *)
(* src/serial2redis.cpp.                                                   *)
(*                                                                         *)
(* Redis stores texts.  Here a text is the JSON of a value: on its way to  *)
(* Redis and back a value is printed by tinycbor, read and written again by*)
(* ArduinoJson, and put into CBOR, and each of these may change it.        *)
(***************************************************************************)
EXTENDS Integers, FiniteSetsExt, Sequences

CONSTANTS
  Int64Limit,   \* 2^63: the integers of ArduinoJson are -2^63 .. 2^64 - 1
  PrintedExact, \* 2^53: tinycbor prints integers as doubles
  FloatExact,   \* 2^24: as<float>
  Ulps,         \* the powers of two, in which larger numbers are counted
  TextsEscaped  \* tinycbor escapes quotation marks in texts, or does not

ASSUME FlowsAssumption ==
  /\ {Int64Limit, PrintedExact, FloatExact} \subseteq Nat \ {0}
  /\ Ulps \subseteq Nat \ {0}
  /\ TextsEscaped \in BOOLEAN

-----------------------------------------------------------------------------
(* Values, texts, frames, requests and replies.                            *)

\* A "real" is a number with a fraction, or one outside 64 bits; a "quoted" text has a
\* quotation mark in it; the v of an "object" are pairs of a key and a value that is no
\* object.  Only CBOR has nan, bytes and undefined, and "broken" for an item that
\* cannot be made JSON: no CBOR at all, or a map with a key that is no text.
JsonTypes == {"integer", "real", "string", "quoted", "bool", "null", "object", "array"}
CborTypes == JsonTypes \cup {"nan", "bytes", "undefined", "broken"}

Value(type, v) == [type |-> type, v |-> v]
Integer(n)     == Value("integer", n)
String(s)      == Value("string", s)
Null           == Value("null", "null")

\* A real that was written and read again: what remains of its digits is left open.
About          == Value("real", "about")

\* A frame of a device is a command with a topic and a value; NoFrame and NoRequest
\* stand for what a flow does not emit.
Frame(cmd, topic, value)  == [cmd |-> cmd, topic |-> topic, value |-> value]
Request(cmd, topic, text) == [cmd |-> cmd, topic |-> topic, text |-> text]
Text(value) == [json |-> value]
NoText      == Text(Null)
NoFrame     == Frame("none", << >>, Null)
NoRequest   == Request("none", << >>, NoText)

\* Op for a value, or for each property of an object
Each(Op(_), value) ==
  IF value.type = "object"
  THEN Value("object", [i \in DOMAIN value.v |-> [key |-> value.v[i].key,
                                                  value |-> Op(value.v[i].value)]])
  ELSE Op(value)

-----------------------------------------------------------------------------
(* Numbers.                                                                *)

\* The nearest number of a format that holds the integers up to exact, the even one of
\* two.
Rounded(exact, n) ==
  IF n \in -exact .. exact THEN n
  ELSE LET ulp  == Min({u \in Ulps : n \in -(exact * u) .. exact * u})
           down == n \div ulp
           rest == 2 * (n % ulp)
       IN IF rest < ulp \/ (rest = ulp /\ down % 2 = 0) THEN down * ulp
          ELSE (down + 1) * ulp

\* tinycbor: a negative n is held as -n - 1
Printed(n) ==
  IF n >= 0 THEN Rounded(PrintedExact, n)
  ELSE Rounded(PrintedExact, -Rounded(PrintedExact, -n - 1) - 1)

-----------------------------------------------------------------------------
(* JSON and CBOR.                                                          *)

\* What deserializeJson makes of a value, and serializeJson writes again
InMemory(value) ==
  IF value.type = "integer" /\ value.v \in -Int64Limit .. 2 * Int64Limit - 1 THEN value
  ELSE IF value.type \in {"integer", "real"} THEN About
  ELSE value
Parsed(text) == Each(InMemory, text.json)

\* cbor_value_to_json.  deserializeJson gives up at a quotation mark that is not
\* escaped, and cborToJson returns what has been read so far; of the properties that
\* follow in an object none is asked for.
ItemToJson(item) ==
  CASE item.type = "integer"                   -> Integer(Printed(item.v))
    [] item.type = "nan"                       -> Null
    [] item.type = "bytes"                     -> String("base64")
    [] item.type = "undefined"                 -> String("undefined")
    [] item.type = "quoted" /\ ~TextsEscaped   -> String("beginning")
    [] OTHER                                   -> item

\* cbor_value_to_json fails
Unreadable(item) ==
  \/ item.type = "broken"
  \/ item.type = "object" /\ \E i \in DOMAIN item.v : item.v[i].value.type = "broken"

\* cborToJson: {"error": "Failed"}, which is no array
ErrorFrame == Frame("error", << >>, Null)
CborToJson(f) ==
  IF Unreadable(f.value) THEN ErrorFrame
  ELSE Frame(f.cmd, f.topic, Parsed(Text(Each(ItemToJson, f.value))))

-----------------------------------------------------------------------------
(* Frames of a device become requests.                                     *)

\* sub and log are the same in the cbor and the crlf format; a log has no fields.
SubOrLog(f) ==
  CASE f.cmd = "sub" -> Request("psubscribe", f.topic, NoText)
    [] f.cmd = "log" -> Request("xadd", f.topic, NoText)
    [] OTHER         -> NoRequest

Publish(topic, value) == Request("publish", topic, Text(value))

\* cborToRequest: of an object only the first property is published, under its key.
CborToRequest(frame) ==
  LET f == CborToJson(frame) IN
  IF f.cmd # "pub" THEN SubOrLog(f)
  ELSE IF f.value.type # "object" THEN Publish(f.topic, f.value)
  ELSE IF f.value.v = << >> THEN NoRequest
  ELSE LET first == Head(f.value.v) IN Publish(f.topic \o first.key, first.value)

\* crlfCrcToRequest, once the CRC is right
CrlfToRequest(f) ==
  IF f.cmd = "pub" THEN Publish(f.topic, Parsed(Text(f.value))) ELSE SubOrLog(f)

\* bytesToRequest, stringToRequest: whatever array the device writes is a request,
\* with the text in it.
JsonToRequest(request) == request

-----------------------------------------------------------------------------
(* Replies become frames for a device.                                     *)

\* A reply of Redis: its kind, the topic it is about and the text it holds.
Reply(kind, topic, text) == [kind |-> kind, topic |-> topic, text |-> text]

\* A mistake: numbers are asked for as floats first.
TestsFloatFirst == <<"string", "float", "int64", "uint64", "string", "bool">>

\* The types a CBOR device's value is asked for, one after the other
Tests == <<"string", "int64", "uint64", "float", "string", "bool">>

\* is<T>, which for an integer type asks for its range and for float only for a number
Is(test, value) ==
  CASE test = "string" -> value.type \in {"string", "quoted"}
    [] test = "int64"  -> value.type = "integer" /\ value.v \in -Int64Limit .. Int64Limit - 1
    [] test = "uint64" -> value.type = "integer" /\ value.v \in 0 .. 2 * Int64Limit - 1
    [] test = "float"  -> value.type \in {"integer", "real"}
    [] test = "bool"   -> value.type = "bool"

\* as<T>
As(test, value) ==
  IF test = "float" /\ value.type = "integer"
  THEN Integer(Rounded(FloatExact, value.v)) ELSE value

\* What a CBOR device is shown: the value as the first type that it is, or the text
CborValue(text) ==
  LET value == Parsed(text)
      held  == {i \in DOMAIN Tests : Is(Tests[i], value)}
  IN IF held = {} THEN String(text) ELSE As(Tests[Min(held)], value)

\* responseToCbor: only what subscriptions bring
ResponseToCbor(r) ==
  IF r.kind = "pmessage" THEN Frame("pub", r.topic, CborValue(r.text)) ELSE NoFrame

\* responseToCrlfCrc: what subscriptions bring, and xadd
ResponseToCrlf(r) ==
  CASE r.kind \in {"pmessage", "message"} -> Frame("pub", r.topic, Parsed(r.text))
    [] r.kind = "xadd"                    -> Frame("log", r.topic, Parsed(r.text))
    [] OTHER                              -> NoFrame

\* responseToBytes, responseToString: the reply itself
ResponseToJson(r) == r

-----------------------------------------------------------------------------
(* From a device that publishes to a device that has subscribed.           *)

\* The flows for the "format" of the configuration.  A device with the json format
\* writes the text that Redis stores, and is shown it.
ToRequest(format, f) ==
  CASE format = "cbor" -> CborToRequest(f)
    [] format = "crlf" -> CrlfToRequest(f)
    [] format = "json" -> JsonToRequest(Publish(f.topic, f.value))
ToFrame(format, r) ==
  CASE format = "cbor" -> ResponseToCbor(r)
    [] format = "crlf" -> ResponseToCrlf(r)
    [] format = "json" ->
         IF r.kind = "pmessage" THEN Frame("pub", r.topic, ResponseToJson(r).text.json)
         ELSE NoFrame

\* What a subscriber is shown of a frame that is published.
Shown(from, to, f) ==
  LET request == ToRequest(from, f) IN
  IF request.cmd = "publish"
  THEN ToFrame(to, Reply("pmessage", request.topic, request.text))
  ELSE NoFrame

Formats == {"cbor", "crlf", "json"}
=============================================================================
