------------------------------ MODULE Oracles -------------------------------
(***************************************************************************)
(* The HTTP oracles of a `## Test oracles' section: how ParseHTTPOracles   *)
(* reads its lines and how runHTTPOracle judges an answer                  *)
(* (internal/validate/speccheck).                                          *)
(*                                                                         *)
(* A line is the record of what the patterns look for:                     *)
(*   get     "first", "inside" or "no": where GET and a path stand         *)
(*   path    a sequence, the last element of which is the last character   *)
(*   gap     words stand between the path and the field sentence           *)
(*   length  {} or {[field, length]}: a sentence about a field's length    *)
(*   value   {} or {[field, text]}: a sentence about a field's value       *)
(*   before  {} or {the first number from 100 to 599 that stands before    *)
(*           GET}                                                          *)
(*   inPath  {} or {such a number that stands in the path}                 *)
(*   code    {} or {the first such number that follows the path}           *)
(*   json    {} or {a JSON fragment}                                       *)
(* A JSON document is a pair of its type and its content.  Not represented *)
(* are paths that are whole URLs, and numbers that do not fit an int.      *)
(***************************************************************************)
EXTENDS Integers, Sequences, FiniteSets

Invalid == <<"invalid", "">>

(***************************************************************************)
(* The parser: each of its parts returns at most one oracle.               *)
(***************************************************************************)

\* The field patterns start with GET, and between the path and the sentence
\* they need at least one character and a blank: without a word there they
\* take the last character of the path.
Found(line, claims) ==
    IF line.get = "first" /\ (line.gap \/ Len(line.path) > 1) THEN claims ELSE {}

FieldPath(line) ==
    IF line.gap THEN line.path ELSE SubSeq(line.path, 1, Len(line.path) - 1)

parseFieldLengthOracle(line) ==
    {[kind |-> "http_json_field_length", path |-> FieldPath(line),
      field |-> claim.field, length |-> claim.length] : claim \in Found(line, line.length)}

\* A text that is no integer, true, false or null is a string, with or
\* without quotes.
parseScalar(text) ==
    IF text[1] \in {"number", "boolean", "null"} THEN text ELSE <<"string", text[2]>>

parseFieldValueOracle(line) ==
    {[kind |-> "http_json_field_value", path |-> FieldPath(line),
      field |-> claim.field, value |-> parseScalar(claim.text)] :
        claim \in Found(line, line.value)}

\* The status is the first number of the line that looks like one, wherever
\* it stands.
FirstNumber(line) ==
    IF line.before # {} THEN line.before
    ELSE IF line.inPath # {} THEN line.inPath ELSE line.code

parseStatusOracle(line) ==
    IF line.json = {}
    THEN {[kind |-> "http_status", path |-> line.path, status |-> code] :
             code \in FirstNumber(line)}
    ELSE {[kind |-> "http_status_json", path |-> line.path, status |-> code, json |-> json] :
             code \in FirstNumber(line), json \in line.json}

ParseLine(line) ==
    IF line.get = "no" THEN {}
    ELSE IF parseFieldLengthOracle(line) # {} THEN parseFieldLengthOracle(line)
    ELSE IF parseFieldValueOracle(line) # {} THEN parseFieldValueOracle(line)
    ELSE parseStatusOracle(line)

OracleOf(line) == CHOOSE oracle \in ParseLine(line) : TRUE

\* What the loop over the lines has collected after each of them; a line
\* without an oracle is ignored.
Collected(lines) ==
    LET after[n \in 0..Len(lines)] ==
            IF n = 0 THEN <<>>
            ELSE IF ParseLine(lines[n]) = {} THEN after[n - 1]
            ELSE Append(after[n - 1], OracleOf(lines[n]))
    IN  after

ParseHTTPOracles(lines) == Collected(lines)[Len(lines)]

(***************************************************************************)
(* The verdict on an answer, [status, body].                               *)
(***************************************************************************)

jsonEquivalent(actual, expected) == expected # Invalid /\ actual = expected

\* extractTopLevelField: an integral number is an int.
HasField(body, field) == body[1] = "object" /\ field \in DOMAIN body[2]

Measurable(value) == value[1] \in {"array", "string", "object"}

lengthOf(value) ==
    IF value[1] = "object" THEN Cardinality(DOMAIN value[2]) ELSE Len(value[2])

\* The field oracles do not look at the status.
OraclePasses(oracle, answer) ==
    CASE oracle.kind = "http_status" ->
            answer.status = oracle.status
      [] oracle.kind = "http_status_json" ->
            answer.status = oracle.status /\ jsonEquivalent(answer.body, oracle.json)
      [] oracle.kind = "http_json_field_value" ->
            /\ HasField(answer.body, oracle.field)
            /\ answer.body[2][oracle.field] = oracle.value
      [] oracle.kind = "http_json_field_length" ->
            /\ HasField(answer.body, oracle.field)
            /\ Measurable(answer.body[2][oracle.field])
            /\ lengthOf(answer.body[2][oracle.field]) = oracle.length

(***************************************************************************)
(* What a line says, read as the documents read it: everything in it has   *)
(* to be true of what the service answers to a GET of its path.            *)
(***************************************************************************)

LineHolds(line, service) ==
    LET answer == service[line.path]
        content == answer.body[2]
    IN  /\ \A code \in line.code : answer.status = code
        /\ \A json \in line.json : json # Invalid /\ answer.body = json
        /\ \A claim \in line.value :
              HasField(answer.body, claim.field) /\ content[claim.field] = claim.text
        /\ \A claim \in line.length :
              /\ HasField(answer.body, claim.field) /\ Measurable(content[claim.field])
              /\ lengthOf(content[claim.field]) = claim.length

\* The lines that yield an oracle.
LinesWithOracle(lines) == {i \in DOMAIN lines : ParseLine(lines[i]) # {}}

IsSequence(s) == s \in Seq({s[i] : i \in DOMAIN s})

\* What a line is: no pattern is looked for twice.
AtMostOne(S) == \A x, y \in S : x = y

WellFormed(line) ==
    /\ line.get \in {"first", "inside", "no"} /\ line.gap \in BOOLEAN
    /\ line.get # "no" => Len(line.path) > 0
    /\ AtMostOne(line.length) /\ AtMostOne(line.value)
    /\ AtMostOne(line.before) /\ AtMostOne(line.inPath) /\ AtMostOne(line.code)
    /\ AtMostOne(line.json)
    /\ line.get = "first" => line.before = {}
    /\ \A claim \in line.value :
          /\ claim.text[1] \in {"number", "fraction", "boolean", "null", "string"}
          /\ claim.text = <<claim.text[1], claim.text[2]>>

\* The lines that the parser reads as they are meant: the sentences about a
\* field keep a word between it and the path and say nothing else, and in a
\* sentence about a status no number like it comes first.
PlainLine(line) ==
    \/ line.get = "no"
    \/ /\ line.get = "first" /\ line.gap /\ line.code = {} /\ line.json = {}
       /\ (line.length = {}) # (line.value = {})
       /\ \A claim \in line.value : claim.text[1] # "fraction"
    \/ /\ line.length = {} /\ line.value = {} /\ line.code # {}
       /\ line.before = {} /\ line.inPath = {}
=============================================================================
