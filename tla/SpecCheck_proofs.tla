-------------------------- MODULE SpecCheck_proofs --------------------------
(***************************************************************************)
(* `plaincode test': what a passed oracle says about the line it was       *)
(* parsed from, for every line and every answer; and what a test does to   *)
(* the managed runtime, for any number of tests and other users at once.   *)
(***************************************************************************)
EXTENDS SpecCheck, RuntimeManager_proofs, Induction, SequenceTheorems, FiniteSetTheorems

-----------------------------------------------------------------------------
(***************************************************************************)
(* The oracles.                                                            *)
(***************************************************************************)

FieldKinds == {"http_json_field_length", "http_json_field_value"}

\* A plain line that gives an oracle (parseFieldLengthOracle,
\* parseFieldValueOracle, parseStatusOracle) gives one that is asked at the
\* path of the line and that runHTTPOracle lets pass exactly when what the
\* line says is true of the answer.
THEOREM PlainLineIsJudgedRight ==
    ASSUME NEW line, WellFormed(line), PlainLine(line),
           NEW oracle \in ParseLine(line), NEW service
    PROVE  /\ oracle.path = line.path
           /\ OraclePasses(oracle, service[oracle.path]) <=> LineHolds(line, service)
<1> DEFINE answer == service[line.path]
<1>1. line.get # "no"
  BY DEF ParseLine
<1>2. CASE line.get = "first" /\ line.gap /\ line.value = {} /\ line.length # {}
           /\ line.code = {} /\ line.json = {}
  <2>1. ParseLine(line) = parseFieldLengthOracle(line) /\ FieldPath(line) = line.path
    <3>1. FieldPath(line) = line.path /\ Found(line, line.length) = line.length
      BY <1>2 DEF FieldPath, Found
    <3>2. parseFieldLengthOracle(line) # {}
      BY <1>2, <3>1 DEF parseFieldLengthOracle
    <3>3. QED
      BY <1>1, <3>1, <3>2 DEF ParseLine
  <2>2. PICK claim \in line.length :
            oracle = [kind |-> "http_json_field_length", path |-> line.path,
                      field |-> claim.field, length |-> claim.length]
    BY <1>2, <2>1 DEF parseFieldLengthOracle, Found
  <2>3. \A other \in line.length : other = claim
    BY <2>2 DEF WellFormed, AtMostOne
  <2>4. OraclePasses(oracle, answer) <=>
            /\ HasField(answer.body, claim.field) /\ Measurable(answer.body[2][claim.field])
            /\ lengthOf(answer.body[2][claim.field]) = claim.length
    BY <2>2 DEF OraclePasses
  <2>5. QED
    BY <1>2, <2>2, <2>3, <2>4 DEF LineHolds
<1>3. CASE line.get = "first" /\ line.gap /\ line.length = {} /\ line.value # {}
           /\ line.code = {} /\ line.json = {}
           /\ \A claim \in line.value : claim.text[1] # "fraction"
  <2>1. ParseLine(line) = parseFieldValueOracle(line) /\ FieldPath(line) = line.path
    <3>1. /\ FieldPath(line) = line.path
          /\ Found(line, line.length) = {} /\ Found(line, line.value) = line.value
      BY <1>3 DEF FieldPath, Found
    <3>2. parseFieldLengthOracle(line) = {} /\ parseFieldValueOracle(line) # {}
      BY <1>3, <3>1 DEF parseFieldLengthOracle, parseFieldValueOracle
    <3>3. QED
      BY <1>1, <3>1, <3>2 DEF ParseLine
  <2>2. PICK claim \in line.value :
            oracle = [kind |-> "http_json_field_value", path |-> line.path,
                      field |-> claim.field, value |-> parseScalar(claim.text)]
    BY <1>3, <2>1 DEF parseFieldValueOracle, Found
  <2>3. parseScalar(claim.text) = claim.text
    BY <1>3, <2>2 DEF WellFormed, parseScalar
  <2>4. \A other \in line.value : other = claim
    BY <2>2 DEF WellFormed, AtMostOne
  <2>5. OraclePasses(oracle, answer) <=>
            /\ HasField(answer.body, claim.field)
            /\ answer.body[2][claim.field] = claim.text
    BY <2>2, <2>3 DEF OraclePasses
  <2>6. QED
    BY <1>3, <2>2, <2>4, <2>5 DEF LineHolds
<1>4. CASE /\ line.length = {} /\ line.value = {} /\ line.code # {}
           /\ line.before = {} /\ line.inPath = {}
  <2>1. ParseLine(line) = parseStatusOracle(line) /\ FirstNumber(line) = line.code
    BY <1>1, <1>4 DEF ParseLine, parseFieldLengthOracle, parseFieldValueOracle, Found, FirstNumber
  <2>2. CASE line.json = {}
    <3>1. PICK code \in line.code :
              oracle = [kind |-> "http_status", path |-> line.path, status |-> code]
      BY <2>1, <2>2 DEF parseStatusOracle
    <3>2. \A other \in line.code : other = code
      BY <3>1 DEF WellFormed, AtMostOne
    <3>3. OraclePasses(oracle, answer) <=> answer.status = code
      BY <3>1 DEF OraclePasses
    <3>4. QED
      BY <1>4, <2>2, <3>1, <3>2, <3>3 DEF LineHolds
  <2>3. CASE line.json # {}
    <3>1. PICK code \in line.code, json \in line.json :
              oracle = [kind |-> "http_status_json", path |-> line.path, status |-> code,
                        json |-> json]
      BY <2>1, <2>3 DEF parseStatusOracle
    <3>2. (\A other \in line.code : other = code) /\ \A other \in line.json : other = json
      BY <3>1 DEF WellFormed, AtMostOne
    <3>3. OraclePasses(oracle, answer) <=>
              answer.status = code /\ json # Invalid /\ answer.body = json
      BY <3>1 DEF OraclePasses, jsonEquivalent
    <3>4. QED
      BY <1>4, <3>1, <3>2, <3>3 DEF LineHolds
  <2>4. QED
    BY <2>2, <2>3
<1>5. QED
  BY <1>1, <1>2, <1>3, <1>4 DEF PlainLine

\* A sentence about a field that follows its path at once, which is how
\* docs/spec-format.md:122 writes it, is asked at another path than its own:
\* reFieldValueEnglish and the other field patterns leave the last character
\* of the path to `.+?'.
THEOREM FieldNextToPathAsksElsewhere ==
    ASSUME NEW line, WellFormed(line), ~line.gap, NEW S, line.path \in Seq(S),
           NEW oracle \in ParseLine(line), oracle.kind \in FieldKinds
    PROVE  Len(oracle.path) = Len(line.path) - 1
<1>1. oracle \in parseFieldLengthOracle(line) \cup parseFieldValueOracle(line)
  BY DEF ParseLine, parseStatusOracle, FieldKinds
<1>2. oracle.path = FieldPath(line) /\ Len(line.path) > 1
  BY <1>1 DEF parseFieldLengthOracle, parseFieldValueOracle, Found
<1>3. oracle.path = SubSeq(line.path, 1, Len(line.path) - 1)
  BY <1>2 DEF FieldPath
<1>4. Len(line.path) \in Nat
  OBVIOUS
<1>5. QED
  BY <1>2, <1>3, <1>4

\* What OracleOf returns is an oracle of its line.
LEMMA OracleOfLine ==
    ASSUME NEW line, ParseLine(line) # {}
    PROVE  OracleOf(line) \in ParseLine(line)
BY DEF OracleOf

OraclesOf(lines) == {OracleOf(lines[i]) : i \in DOMAIN lines}

\* The loop of ParseHTTPOracles is defined at every line.
LEMMA CollectedDefined ==
    ASSUME NEW lines, IsSequence(lines)
    PROVE  /\ Collected(lines) \in [0..Len(lines) -> Seq(OraclesOf(lines))]
           /\ Collected(lines) =
                  [n \in 0..Len(lines) |->
                      IF n = 0 THEN <<>>
                      ELSE IF ParseLine(lines[n]) = {} THEN Collected(lines)[n - 1]
                      ELSE Append(Collected(lines)[n - 1], OracleOf(lines[n]))]
<1> DEFINE N == Len(lines)
           base == <<>>
           V == Seq(OraclesOf(lines))
           step == [n \in 1..N |-> [parsed \in V |->
                      IF ParseLine(lines[n]) = {} THEN parsed
                      ELSE Append(parsed, OracleOf(lines[n]))]]
<1>1. N \in Nat /\ DOMAIN lines = 1..N
  BY LenProperties DEF IsSequence
<1>2. base \in V
  OBVIOUS
<1>3. step \in [1..N -> [V -> V]]
  <2>1. ASSUME NEW n \in 1..N, NEW parsed \in V
        PROVE  Append(parsed, OracleOf(lines[n])) \in V
    <3>1. OracleOf(lines[n]) \in OraclesOf(lines)
      BY <1>1 DEF OraclesOf
    <3>2. QED
      BY <3>1, AppendProperties
  <2>2. QED
    BY <2>1
<1>4. PICK f \in History(N, V, base, step) : TRUE
  <2> HIDE DEF V, step, base
  <2>1. QED
    BY <1>1, <1>2, <1>3, RecursionDefines
<1>5. /\ f \in [0..N -> V] /\ f[0] = base
      /\ \A n \in 1..N : f[n] = step[n][f[n - 1]]
  <2> HIDE DEF V, step, base
  <2>1. QED
    BY <1>4 DEF History
<1>6. \A n \in 1..N : n - 1 \in 0..N /\ f[n - 1] \in V
  <2> HIDE DEF V, step
  <2>1. QED
    BY <1>1, <1>5
<1>7. \A n \in 0..N :
          f[n] = IF n = 0 THEN <<>>
                 ELSE IF ParseLine(lines[n]) = {} THEN f[n - 1]
                 ELSE Append(f[n - 1], OracleOf(lines[n]))
  <2>1. \A n \in 1..N :
          f[n] = IF ParseLine(lines[n]) = {} THEN f[n - 1]
                 ELSE Append(f[n - 1], OracleOf(lines[n]))
    <3> HIDE DEF V
    <3>1. QED
      BY <1>5, <1>6
  <2>2. \A n \in 0..N : n = 0 \/ n \in 1..N
    BY <1>1
  <2>3. QED
    BY <1>5, <2>1, <2>2
<1> HIDE DEF V, step, base
<1>8. f = [n \in 0..N |->
              IF n = 0 THEN <<>>
              ELSE IF ParseLine(lines[n]) = {} THEN f[n - 1]
              ELSE Append(f[n - 1], OracleOf(lines[n]))]
  BY <1>7, <1>5
<1>9. Collected(lines) =
        CHOOSE after : after = [n \in 0..N |->
              IF n = 0 THEN <<>>
              ELSE IF ParseLine(lines[n]) = {} THEN after[n - 1]
              ELSE Append(after[n - 1], OracleOf(lines[n]))]
  BY Zenon DEF Collected
<1>10. Collected(lines) =
          [n \in 0..N |->
              IF n = 0 THEN <<>>
              ELSE IF ParseLine(lines[n]) = {} THEN Collected(lines)[n - 1]
              ELSE Append(Collected(lines)[n - 1], OracleOf(lines[n]))]
  BY <1>8, <1>9, Zenon
<1>11. \A n \in 0..N : Collected(lines)[n] \in V
  <2>1. ASSUME NEW n \in 0..N, Collected(lines)[n] \in V, n < N
        PROVE  Collected(lines)[n + 1] \in V
    <3>1. n + 1 \in 0..N /\ n + 1 \in 1..N /\ n + 1 # 0 /\ (n + 1) - 1 = n
      BY <1>1, <2>1
    <3>2. Collected(lines)[n + 1] =
             IF ParseLine(lines[n + 1]) = {} THEN Collected(lines)[n]
             ELSE Append(Collected(lines)[n], OracleOf(lines[n + 1]))
      BY <1>10, <3>1
    <3>3. OracleOf(lines[n + 1]) \in OraclesOf(lines)
      BY <1>1, <3>1 DEF OraclesOf
    <3>4. QED
      BY <2>1, <3>2, <3>3, AppendProperties DEF V
  <2>2. Collected(lines)[0] \in V
    BY <1>1, <1>2, <1>10 DEF base
  <2> DEFINE S == {n \in 0..N : Collected(lines)[n] \in V}
  <2>3. 0 \in S /\ \A n \in 0..N : n \in S /\ n < N => n + 1 \in S
    BY <1>1, <2>1, <2>2
  <2>4. \A n \in 0..N : n \in S
    <3> HIDE DEF S
    <3>1. QED
      BY <1>1, <2>3, SetInduction
  <2>5. QED
    BY <2>4
<1>12. QED
  BY <1>10, <1>11 DEF V

\* The lines up to the n-th that yield an oracle.
WithOracleUpTo(lines, n) == {i \in LinesWithOracle(lines) : i <= n}

\* The oracles are those of the lines of S, in their order, and of no line twice.
OneEach(parsed, lines, S) ==
    \E at \in [1..Len(parsed) -> S] :
        /\ \A i \in S : \E k \in 1..Len(parsed) : at[k] = i
        /\ \A k, l \in 1..Len(parsed) : k < l => at[k] < at[l]
        /\ \A k \in 1..Len(parsed) : parsed[k] = OracleOf(lines[at[k]])

\* A further line with an oracle adds it at the end.
LEMMA OneMoreOracle ==
    ASSUME NEW lines, NEW V, NEW parsed \in Seq(V), NEW S \in SUBSET Nat, NEW i \in Nat,
           OneEach(parsed, lines, S), \A s \in S : s < i, OracleOf(lines[i]) \in V
    PROVE  OneEach(Append(parsed, OracleOf(lines[i])), lines, S \cup {i})
<1> DEFINE n == Len(parsed)
           oracle == OracleOf(lines[i])
           more == Append(parsed, oracle)
<1>1. PICK at \in [1..n -> S] :
          /\ \A s \in S : \E k \in 1..n : at[k] = s
          /\ \A k, l \in 1..n : k < l => at[k] < at[l]
          /\ \A k \in 1..n : parsed[k] = OracleOf(lines[at[k]])
  BY DEF OneEach
<1> DEFINE then == [k \in 1..(n + 1) |-> IF k = n + 1 THEN i ELSE at[k]]
<1>2. /\ n \in Nat /\ Len(more) = n + 1 /\ more[n + 1] = oracle
      /\ \A k \in 1..n : more[k] = parsed[k]
  BY AppendProperties
<1>3. then \in [1..(n + 1) -> S \cup {i}]
  BY <1>1, <1>2
<1>4. ASSUME NEW s \in S \cup {i} PROVE \E k \in 1..(n + 1) : then[k] = s
  <2>1. CASE s = i
    BY <2>1, <1>2
  <2>2. CASE s \in S /\ s # i
    BY <2>2, <1>1, <1>2
  <2>3. QED
    BY <2>1, <2>2
<1>5. ASSUME NEW k \in 1..(n + 1), NEW l \in 1..(n + 1), k < l
      PROVE  then[k] < then[l]
  <2>1. k \in 1..n /\ then[k] = at[k] /\ at[k] \in S
    BY SMTT(30), <1>1, <1>2, <1>5
  <2>2. CASE l = n + 1
    BY <2>1, <2>2, <1>2
  <2>3. CASE l \in 1..n
    BY <2>1, <2>3, <1>1, <1>2, <1>5
  <2>4. QED
    BY <2>2, <2>3, <1>2
<1>6. ASSUME NEW k \in 1..(n + 1) PROVE more[k] = OracleOf(lines[then[k]])
  <2>1. CASE k = n + 1
    BY <2>1, <1>2
  <2>2. CASE k \in 1..n
    BY <2>2, <1>1, <1>2
  <2>3. QED
    BY <2>1, <2>2, <1>2
<1> HIDE DEF then, more
<1>7. /\ then \in [1..Len(more) -> S \cup {i}]
      /\ \A s \in S \cup {i} : \E k \in 1..Len(more) : then[k] = s
      /\ \A k, l \in 1..Len(more) : k < l => then[k] < then[l]
      /\ \A k \in 1..Len(more) : more[k] = OracleOf(lines[then[k]])
  BY <1>2, <1>3, <1>4, <1>5, <1>6
<1>8. OneEach(more, lines, S \cup {i})
  BY <1>7, Zenon DEF OneEach
<1>9. QED
  BY <1>8 DEF more

\* ParseHTTPOracles (checker.go) returns one oracle for every line that has
\* one, in the order of the lines, and none else: for every list of lines.
THEOREM EveryLineIsParsed ==
    ASSUME NEW lines, IsSequence(lines)
    PROVE  OneEach(ParseHTTPOracles(lines), lines, LinesWithOracle(lines))
<1> DEFINE N == Len(lines)
           after == Collected(lines)
           none == <<>>
           S(n) == WithOracleUpTo(lines, n)
           Read == {n \in 0..N : OneEach(after[n], lines, S(n))}
<1>1. N \in Nat /\ DOMAIN lines = 1..N
  BY LenProperties DEF IsSequence
<1>2. after \in [0..N -> Seq(OraclesOf(lines))]
  BY CollectedDefined
<1>3. /\ after[0] = none
      /\ \A n \in 1..N : after[n] = IF ParseLine(lines[n]) = {} THEN after[n - 1]
                                   ELSE Append(after[n - 1], OracleOf(lines[n]))
  <2>1. ASSUME NEW n \in 0..N
        PROVE  after[n] = IF n = 0 THEN none
                          ELSE IF ParseLine(lines[n]) = {} THEN after[n - 1]
                          ELSE Append(after[n - 1], OracleOf(lines[n]))
    BY CollectedDefined
  <2> HIDE DEF after, none
  <2>2. \A n \in 1..N : n \in 0..N /\ n # 0
    BY <1>1
  <2>3. after[0] = none
    BY <1>1, <2>1
  <2>4. ASSUME NEW n \in 1..N
        PROVE  after[n] = IF ParseLine(lines[n]) = {} THEN after[n - 1]
                          ELSE Append(after[n - 1], OracleOf(lines[n]))
    BY <2>1, <2>2, Zenon
  <2>5. QED
    BY <2>3, <2>4
<1> HIDE DEF after
<1>4. 0 \in Read
  <2>1. S(0) = {}
    BY <1>1 DEF WithOracleUpTo, LinesWithOracle
  <2> DEFINE at == [k \in 1..0 |-> 1]
  <2>2. Len(<<>>) = 0 /\ 1..0 = {} /\ at \in [1..0 -> {}]
    OBVIOUS
  <2> HIDE DEF at
  <2>3. OneEach(none, lines, {})
    BY <2>2 DEF OneEach
  <2> HIDE DEF S, none
  <2>4. QED
    BY <1>1, <1>3, <2>1, <2>3
<1>5. ASSUME NEW n \in 0..N, n \in Read, n < N
      PROVE  n + 1 \in Read
  <2>1. n + 1 \in 0..N /\ n + 1 \in 1..N /\ (n + 1) - 1 = n
    BY <1>1, <1>5
  <2>2. OneEach(after[n], lines, S(n)) /\ after[n] \in Seq(OraclesOf(lines))
    BY <1>2, <1>5
  <2>3. CASE ParseLine(lines[n + 1]) = {}
    <3>1. S(n + 1) = S(n)
      BY <1>1, <2>1, <2>3 DEF WithOracleUpTo, LinesWithOracle
    <3>2. after[n + 1] = after[n]
      BY <1>3, <2>1, <2>3
    <3>3. QED
      BY <2>1, <2>2, <3>1, <3>2
  <2>4. CASE ParseLine(lines[n + 1]) # {}
    <3>1. S(n + 1) = S(n) \cup {n + 1} /\ S(n) \in SUBSET Nat /\ \A s \in S(n) : s < n + 1
      BY <1>1, <2>1, <2>4 DEF WithOracleUpTo, LinesWithOracle
    <3>2. after[n + 1] = Append(after[n], OracleOf(lines[n + 1]))
      BY <1>3, <2>1, <2>4
    <3>3. OracleOf(lines[n + 1]) \in OraclesOf(lines)
      BY <1>1, <2>1 DEF OraclesOf
    <3> HIDE DEF S
    <3>4. n + 1 \in Nat
      BY <2>1
    <3>5. OneEach(Append(after[n], OracleOf(lines[n + 1])), lines, S(n) \cup {n + 1})
      BY <2>2, <3>1, <3>3, <3>4, OneMoreOracle, Zenon
    <3>6. OneEach(after[n + 1], lines, S(n + 1))
      BY <3>1, <3>2, <3>5, Zenon
    <3>7. QED
      BY <2>1, <3>6
  <2>5. QED
    BY <2>3, <2>4
<1>6. N \in Read
  <2> HIDE DEF Read
  <2>1. \A n \in 0..N : n \in Read /\ n < N => n + 1 \in Read
    BY <1>5
  <2>2. \A n \in 0..N : n \in Read
    BY <1>1, <1>4, <2>1, SetInduction
  <2>3. QED
    BY <1>1, <2>2
<1>7. S(N) = LinesWithOracle(lines)
  BY <1>1 DEF WithOracleUpTo, LinesWithOracle
<1>8. QED
  BY <1>6, <1>7 DEF ParseHTTPOracles, after

\* So there are as many oracles as lines with one.
LEMMA OraclesCounted ==
    ASSUME NEW lines, IsSequence(lines)
    PROVE  /\ Len(ParseHTTPOracles(lines)) \in Nat
           /\ Len(ParseHTTPOracles(lines)) = Cardinality(LinesWithOracle(lines))
<1> DEFINE n == Len(ParseHTTPOracles(lines))
           S == LinesWithOracle(lines)
<1>1. n \in Nat
  <2>1. Len(lines) \in 0..Len(lines)
    BY LenProperties DEF IsSequence
  <2>2. ParseHTTPOracles(lines) \in Seq(OraclesOf(lines))
    BY <2>1, CollectedDefined DEF ParseHTTPOracles
  <2>3. QED
    BY <2>2, LenProperties
<1>2. PICK at \in [1..n -> S] :
          /\ \A i \in S : \E k \in 1..n : at[k] = i
          /\ \A k, l \in 1..n : k < l => at[k] < at[l]
  BY EveryLineIsParsed DEF OneEach
<1>3. S \in SUBSET Nat
  BY LenProperties DEF LinesWithOracle, IsSequence
<1>4. ASSUME NEW k \in 1..n, NEW l \in 1..n, at[k] = at[l] PROVE k = l
  <2>1. k \in Nat /\ l \in Nat /\ at[k] \in Nat /\ at[l] \in Nat
    BY <1>1, <1>2, <1>3
  <2> HIDE DEF n, S
  <2>2. QED
    BY <1>2, <1>4, <2>1
<1> HIDE DEF n, S
<1>5. at \in Bijection(1..n, S)
  <2>1. at \in Injection(1..n, S)
    BY <1>2, <1>4 DEF Injection, IsInjective
  <2>2. at \in Surjection(1..n, S)
    BY <1>2 DEF Surjection
  <2>3. QED
    BY <2>1, <2>2 DEF Bijection
<1>6. IsFiniteSet(1..n) /\ Cardinality(1..n) = n
  BY SMTT(30), <1>1, FS_Interval
<1>7. QED
  BY <1>1, <1>5, <1>6, FS_Bijection DEF ExistsBijection, n, S

-----------------------------------------------------------------------------
(***************************************************************************)
(* A test is a client of the managed runtime.                              *)
(***************************************************************************)

\* A step of a test that calls the manager is a call of it, any other leaves
\* it alone.
LEMMA TestStepIsCall ==
    ASSUME NEW c \in Clients, TestStep(c)
    PROVE  UNCHANGED vars \/ Call(c) \/ Crash(c)
<1>1. {"start", "stop", "status"} \subseteq Commands
  BY SpecCheckAssumption
<1>2. CASE (\E i \in DOMAIN Plans : RunCommand(c, i)) \/ NothingToAsk(c) \/ UseRunning(c)
           \/ OwnStarted(c) \/ NotStarted(c) \/ Ask(c) \/ Leave(c) \/ Stopped(c)
  BY <1>2 DEF RunCommand, NothingToAsk, UseRunning, OwnStarted, NotStarted, Ask, Leave, Stopped
<1>3. CASE Look(c)
  BY <1>1, <1>3 DEF Look, Call
<1>4. CASE \E request \in Requests : StartOwn(c, request)
  BY <1>1, <1>4 DEF StartOwn, Call
<1>5. CASE StopOwn(c)
  BY <1>1, <1>5 DEF StopOwn, Call
<1>6. CASE TestCrash(c)
  BY <1>6 DEF TestCrash
<1>7. QED
  BY <1>2, <1>3, <1>4, <1>5, <1>6 DEF TestStep

\* Every step of tests and of others is a step of the managed runtime.
LEMMA TestNextIsNext == [TestNext]_testVars => [Next]_vars
<1> SUFFICES ASSUME [TestNext]_testVars PROVE [Next]_vars
  OBVIOUS
<1>1. CASE UNCHANGED testVars
  BY <1>1 DEF testVars
<1>2. ASSUME NEW c \in Clients, TestStep(c) \/ CallElsewhere(c) \/ CrashElsewhere(c)
      PROVE  [Next]_vars
  BY <1>2, TestStepIsCall DEF CallElsewhere, CrashElsewhere, Next
<1>3. CASE Environment \/ \E c \in Clients : ContinueCall(c)
  BY <1>3 DEF ContinueCall, Next
<1>4. QED
  BY <1>1, <1>2, <1>3 DEF TestNext

\* `plaincode test' adds nothing to what the manager's clients do (Checker.Run
\* works through Status, Start and Stop only), so that all that is proved of
\* the managed runtime holds with tests around.
THEOREM TestIsClient == TestSpec => Spec
<1>1. TestInit => Init
  BY DEF TestInit
<1>2. QED
  BY <1>1, TestNextIsNext, PTL DEF TestSpec, Spec

-----------------------------------------------------------------------------
(***************************************************************************)
(* What a test holds while nobody else makes a call.                       *)
(***************************************************************************)

Stages == {"none", "command", "status", "start", "oracles", "stop"}
TestTypes ==
    /\ stage \in [Clients -> Stages] /\ alone \in [Clients -> BOOLEAN]
    /\ started \in [Clients -> BOOLEAN] /\ mine \in [Clients -> States]
    /\ unsaved \in [Clients -> BOOLEAN]

\* Where a start is before it launches a service, and while it has it.
Early == {"probe", "save_refresh", "write_refresh", "launch", "docker_run"}
Launched == {"wait", "save_started", "write_started", "term", "await"}
Ended == {"save_stopped", "write_stopped"}

\* Where a test is, its call is; it knows of a service of its own only when it
\* asks and after that, and has launched none before its start does.
Place(c) ==
    /\ c \notin Testers => stage[c] = "none" /\ ~alone[c]
    /\ c \in Testers => op[c] \in {"none"} \cup ({stage[c]} \cap {"status", "start", "stop"})
    /\ stage[c] = "stop" => started[c]
    /\ stage[c] \in {"command", "status", "start"} => ~started[c]
    /\ \/ stage[c] \in {"command", "status"}
       \/ stage[c] = "start" /\ pc[c] \in Early
       \/ stage[c] = "oracles" /\ ~started[c]
       => mine[c] = NotLoaded

OthersIdle(c) == alone[c] => \A d \in Clients \ {c} : op[d] = "none"

\* The service a test has launched is what its start holds, then the one of
\* the state file until it stops it, and the one it then stops.
Held(c) ==
    alone[c] =>
        /\ stage[c] = "start" /\ pc[c] \in Launched => local[c] = mine[c]
        /\ stage[c] = "start" /\ pc[c] \in Writing => file = NoState
        /\ stage[c] = "start" /\ op[c] = "none" /\ ret[c] = "started" => file = mine[c]
        /\ stage[c] = "oracles" /\ started[c] => file = mine[c]
        /\ op[c] = "stop" => local[c] = mine[c]

\* When a process can be killed and Docker answers, it is gone when the test
\* has stopped it, or its start has failed, but for the start that could not
\* save it.
Left(c) ==
    alone[c] /\ CanStop =>
        /\ stage[c] \in {"start", "stop"} /\ pc[c] \in Ended => Gone(mine[c])
        /\ stage[c] = "start" /\ op[c] = "none" /\ ret[c] # "started" /\ ~unsaved[c] => Gone(mine[c])
        /\ stage[c] = "stop" /\ op[c] = "none" => Gone(mine[c])
        /\ OverAlone(c) /\ ~unsaved[c] => Gone(mine[c])

InTest(c) == Place(c) /\ OthersIdle(c) /\ Held(c) /\ Left(c)
Testing == TestTypes /\ \A c \in Clients : InTest(c)

\* A service that never was is gone.
LEMMA NotLoadedGone == Gone(NotLoaded)
BY DEF Gone, NotLoaded, State

\* A client's step changes what no other client's last call has returned.
LEMMA OthersReturn ==
    ASSUME TypeOK, NEW c \in Clients, Call(c) \/ Continue(c) \/ Crash(c),
           NEW d \in Clients, d # c
    PROVE  ret'[d] = ret[d]
<1> USE DEF TypeOK, Return
<1>1. CASE Call(c)
  BY <1>1 DEF Call, CallStatus, CallStop, CallStart, CannotStart, Enter
<1>2. CASE Probe(c) \/ Open(c) \/ Write(c)
  BY <1>2 DEF Probe, Open, Write, Writing, Saved, SaveFailed, Refreshed
<1>3. CASE Spawn(c) \/ RemoveContainer(c) \/ RunContainer(c)
           \/ Ready(c) \/ NotReady(c)
  BY <1>3 DEF Spawn, RemoveContainer, RunContainer, Ready, NotReady
<1>4. CASE TerminateProcess(c) \/ Exited(c) \/ Kill(c) \/ StopContainer(c)
  BY <1>4 DEF TerminateProcess, Exited, Kill, StopContainer, StopFailed
<1>5. CASE Crash(c)
  BY <1>5 DEF Crash
<1>6. QED
  BY <1>1, <1>2, <1>3, <1>4, <1>5 DEF Continue

\* A call that goes on has begun, and goes on or ends.
LEMMA ContinueInCall ==
    ASSUME TypeOK, Orderly, NEW c \in Clients, Continue(c)
    PROVE  op[c] # "none" /\ op'[c] \in {op[c], "none"}
<1>1. pc[c] # "idle"
  BY OpenGoes DEF Continue, Probe, Open, Write, Writing, Spawn, RemoveContainer, RunContainer, Ready,
     NotReady, TerminateProcess, Exited, Kill, StopContainer
<1>2. op[c] # "none"
  BY <1>1 DEF Orderly, InCall
<1>3. QED
  BY <1>2, StepOp DEF TypeOK

\* What a start comes to before it has launched its service.
LEMMA EarlyStart ==
    ASSUME TypeOK, Orderly, NEW c \in Clients, Continue(c), op[c] = "start", pc[c] \in Early
    PROVE  /\ pc'[c] \in Early \cup {"wait", "save_stopped", "idle"}
           /\ pc'[c] = "idle" => ret'[c] # "started"
<1> USE DEF TypeOK, Return, Goto, Early
<1>1. CASE Probe(c)
  BY <1>1 DEF Probe, Refreshed, worldVars
<1>2. CASE Open(c)
  BY <1>2, OpenGoes DEF Open, SaveFailed, Refreshed, worldVars
<1>3. CASE Write(c)
  <2>1. pc[c] = "write_refresh" /\ local[c].status # "started"
    BY <1>3 DEF Write, Writing, States
  <2>2. QED
    BY <1>3, <2>1 DEF Write, Saved, SaveFailed, Refreshed, worldVars
<1>4. CASE Spawn(c) \/ RemoveContainer(c) \/ RunContainer(c)
  BY <1>4 DEF Spawn, RemoveContainer, RunContainer
<1>5. QED
  BY <1>1, <1>2, <1>3, <1>4 DEF Continue, Ready, NotReady, TerminateProcess, Exited, Kill, StopContainer

\* And while it has it: it holds its record to the end, and reports success
\* only when it has saved it.
LEMMA LaunchedStart ==
    ASSUME TypeOK, Orderly, Awaits, NEW c \in Clients, Continue(c), op[c] = "start", pc[c] \in Launched
    PROVE  /\ local' = local /\ pc'[c] \in (Launched \ {"wait"}) \cup {"save_stopped", "idle"}
           /\ pc'[c] = "save_stopped" /\ CanStop => Gone(local[c])'
           /\ pc'[c] = "idle" =>
                \/ /\ ret'[c] = "started" /\ pc[c] = "write_started"
                   /\ file = NoState => file' = local[c]
                \/ ret'[c] = "error" /\ pc[c] \in {"save_started", "write_started"}
<1> USE DEF TypeOK, Return, Goto, Launched
<1>1. CASE Open(c)
  BY <1>1, OpenGoes DEF Open, SaveFailed
<1>2. CASE Write(c)
  BY <1>2 DEF Write, Writing, Record, Saved, SaveFailed
<1>3. CASE Ready(c) \/ NotReady(c)
  BY <1>3 DEF Ready, NotReady
<1>4. CASE TerminateProcess(c) \/ Exited(c) \/ Kill(c) \/ StopContainer(c)
  <2>1. local' = local /\ pc'[c] \in {"await", "save_stopped"}
    BY <1>4 DEF TerminateProcess, Exited, Kill, StopContainer, StopFailed
  <2>2. pc[c] # "save_stopped"
    OBVIOUS
  <2>3. pc'[c] = "save_stopped" /\ CanStop => Gone(local[c])'
    BY <1>4, <2>2, ReachesGone
  <2>4. QED
    BY <2>1, <2>3
<1>5. QED
  BY <1>1, <1>2, <1>3, <1>4 DEF Continue, Probe, Spawn, RemoveContainer, RunContainer

\* What is left of a start or a stop when its service is gone.
LEMMA EndedCall ==
    ASSUME TypeOK, Orderly, NEW c \in Clients, Continue(c), op[c] \in {"start", "stop"},
           pc[c] \in Ended
    PROVE  /\ UNCHANGED <<procs, container, local>> /\ pc'[c] \in {"write_stopped", "idle"}
           /\ op[c] = "start" /\ pc'[c] = "idle" => ret'[c] = "error"
<1> USE DEF TypeOK, Return, Goto, Ended
<1>1. CASE Open(c)
  BY <1>1, OpenGoes DEF Open, SaveFailed, worldVars
<1>2. CASE Write(c)
  BY <1>2 DEF Write, Writing, Saved, SaveFailed, worldVars
<1>3. QED
  BY <1>1, <1>2 DEF Continue, Probe, Spawn, RemoveContainer, RunContainer, Ready, NotReady,
     TerminateProcess, Exited, Kill, StopContainer

\* A call that has just opened the state file has emptied it.
LEMMA OpenedEmpty ==
    ASSUME TypeOK, NEW c \in Clients, Continue(c), pc'[c] \in Writing
    PROVE  file' = NoState
<1> USE DEF TypeOK, Return, Goto, Writing
<1>1. Open(c) \/ Write(c)
  BY KeepsFile
<1>2. ~Write(c)
  BY DEF Write, Saved, SaveFailed, Refreshed
<1>3. SaveFailed(c) => pc'[c] \notin Writing
  BY DEF SaveFailed, Refreshed
<1>4. QED
  BY <1>1, <1>2, <1>3 DEF Open

\* A stop keeps its record to the end, which comes, when it can stop anything,
\* only after its service has gone.
LEMMA StopHolds ==
    ASSUME TypeOK, Orderly, Awaits, NEW c \in Clients, Continue(c), op[c] = "stop", pc[c] \notin Ended
    PROVE  /\ local' = local /\ pc'[c] # "write_stopped"
           /\ CanStop => op'[c] = "stop"
           /\ pc'[c] = "save_stopped" => Gone(local[c])'
<1>1. pc[c] \in {"term", "await"}
  BY DEF Orderly, InCall, Ended
<1>2. TerminateProcess(c) \/ Exited(c) \/ Kill(c) \/ StopContainer(c)
  BY <1>1, OpenGoes DEF Continue, Probe, Open, Write, Writing, Spawn, RemoveContainer, RunContainer,
     Ready, NotReady
<1>3. local' = local /\ pc'[c] # "write_stopped"
  BY <1>2 DEF TerminateProcess, Exited, Kill, StopContainer, StopFailed, Return, Goto, TypeOK
<1>4. CanStop => op'[c] = "stop"
  BY <1>2 DEF CanStop, TerminateProcess, Exited, Kill, StopContainer, worldVars
<1>5. QED
  BY <1>1, <1>2, <1>3, <1>4, ReachesGone

\* The types of what a test remembers.
LEMMA TestTypesStep ==
    ASSUME TypeOK, TypeOK', TestTypes, [TestNext]_testVars
    PROVE  TestTypes'
<1> USE DEF TestTypes, Stages, Reach, Intrude, memory
<1>1. CASE UNCHANGED testVars
  BY <1>1 DEF testVars
<1>2. ASSUME NEW c \in Clients, TestStep(c) PROVE TestTypes'
  <2>1. NotLoaded \in States /\ local[c] \in States
    BY StateType DEF NotLoaded, TypeOK
  <2>2. CASE \E i \in DOMAIN Plans : RunCommand(c, i)
    <3>1. /\ stage' = [stage EXCEPT ![c] = "command"] /\ started' = [started EXCEPT ![c] = FALSE]
          /\ mine' = [mine EXCEPT ![c] = NotLoaded] /\ unsaved' = [unsaved EXCEPT ![c] = FALSE]
      BY <2>2 DEF RunCommand
    <3>2. alone' = [d \in Clients |-> d = c /\ \A e \in Clients \ {c} : op[e] = "none"]
      BY <2>2 DEF RunCommand
    <3>3. alone' \in [Clients -> BOOLEAN]
      BY ONLY <3>2, Zenon
    <3>4. QED
      BY <2>1, <3>1, <3>3
  <2>3. CASE NothingToAsk(c) \/ Look(c) \/ UseRunning(c) \/ NotStarted(c)
    BY <2>3 DEF NothingToAsk, Look, UseRunning, NotStarted
  <2>4. CASE \E request \in Requests : StartOwn(c, request)
    BY <2>4 DEF StartOwn
  <2>5. CASE OwnStarted(c)
    BY <2>1, <2>5 DEF OwnStarted
  <2>6. CASE Ask(c) \/ StopOwn(c) \/ Leave(c) \/ Stopped(c) \/ TestCrash(c)
    BY <2>6 DEF Ask, StopOwn, Leave, Stopped, TestCrash
  <2>7. QED
    BY <1>2, <2>2, <2>3, <2>4, <2>5, <2>6 DEF TestStep
<1>3. ASSUME NEW c \in Clients, CallElsewhere(c) \/ CrashElsewhere(c) PROVE TestTypes'
  BY <1>3 DEF CallElsewhere, CrashElsewhere
<1>4. CASE UNCHANGED <<stage, memory, alone>>
  BY <1>4
<1>5. ASSUME NEW c \in Clients, ContinueCall(c) PROVE TestTypes'
  <2>1. /\ UNCHANGED <<stage, alone, started>>
        /\ \E state \in {mine[c], local'[c]} : mine' = [mine EXCEPT ![c] = state]
        /\ \E lost \in BOOLEAN : unsaved' = [unsaved EXCEPT ![c] = lost]
    BY <1>5 DEF ContinueCall, Remember
  <2>2. local'[c] \in States
    BY DEF TypeOK
  <2>3. QED
    BY <2>1, <2>2
<1>6. QED
  BY <1>1, <1>2, <1>3, <1>4, <1>5 DEF TestNext

\* Whoever is alone sees no step of another client, but for one that changes
\* nothing shared; and nobody's step changes what another test knows.
LEMMA OthersTest ==
    ASSUME TypeOK, Orderly, Testing, NEW c \in Clients, NEW d \in Clients, d # c,
           TestStep(d) \/ CallElsewhere(d) \/ CrashElsewhere(d) \/ ContinueCall(d)
    PROVE  /\ UNCHANGED <<op[c], pc[c], local[c], ret[c], stage[c], started[c], mine[c], unsaved[c]>>
           /\ alone'[c] => alone[c] /\ UNCHANGED vars
<1> USE DEF TestTypes, Reach, Intrude, memory
<1>0. Place(d) /\ OthersIdle(c) /\ TestTypes
  BY DEF Testing, InTest
<1>1. CASE (\E i \in DOMAIN Plans : RunCommand(d, i)) \/ NothingToAsk(d) \/ UseRunning(d)
           \/ OwnStarted(d) \/ NotStarted(d) \/ Ask(d) \/ Leave(d) \/ Stopped(d)
  BY <1>0, <1>1 DEF RunCommand, NothingToAsk, UseRunning, OwnStarted, NotStarted, Ask, Leave,
     Stopped, vars
<1>2. CASE Look(d) \/ (\E request \in Requests : StartOwn(d, request)) \/ StopOwn(d)
           \/ CallElsewhere(d)
  <2>1. UNCHANGED <<stage[c], started[c], mine[c], unsaved[c]>> /\ ~alone'[c]
    BY <1>0, <1>2 DEF Look, StartOwn, StopOwn, CallElsewhere
  <2>2. Call(d)
    BY <1>2, SpecCheckAssumption DEF Look, StartOwn, StopOwn, CallElsewhere, Call
  <2>3. QED
    BY <2>1, <2>2, OthersStay, OthersReturn
<1>3. CASE TestCrash(d) \/ CrashElsewhere(d) \/ ContinueCall(d)
  <2>1. UNCHANGED <<stage[c], started[c], mine[c], unsaved[c], alone[c]>>
    BY <1>0, <1>3 DEF TestCrash, CrashElsewhere, ContinueCall, Remember
  <2>2. (Continue(d) \/ Crash(d)) /\ op[d] # "none"
    BY <1>3, ContinueInCall DEF TestCrash, CrashElsewhere, Crash, ContinueCall
  <2>3. ~alone[c]
    BY <1>0, <2>2 DEF OthersIdle
  <2>4. QED
    BY <2>1, <2>2, <2>3, OthersStay, OthersReturn
<1>4. QED
  BY <1>1, <1>2, <1>3 DEF TestStep

\* So what a test holds is not lost by a step of another client.
LEMMA OthersKeep ==
    ASSUME TypeOK, Orderly, Testing, NEW c \in Clients, NEW d \in Clients, d # c,
           TestStep(d) \/ CallElsewhere(d) \/ CrashElsewhere(d) \/ ContinueCall(d)
    PROVE  InTest(c)'
<1>1. /\ UNCHANGED <<op[c], pc[c], local[c], ret[c], stage[c], started[c], mine[c], unsaved[c]>>
      /\ alone'[c] => alone[c] /\ UNCHANGED vars
  BY OthersTest
<1>2. Place(c) /\ OthersIdle(c) /\ Held(c) /\ Left(c)
  BY DEF Testing, InTest
<1>3. Place(c)'
  BY <1>1, <1>2 DEF Place
<1>4. OthersIdle(c)' /\ Held(c)'
  BY <1>1, <1>2 DEF OthersIdle, Held, vars
<1>5. Left(c)'
  BY <1>1, <1>2 DEF Left, OverAlone, Gone, vars, worldVars
<1>6. QED
  BY <1>3, <1>4, <1>5 DEF InTest

\* Nor by what happens to services.
LEMMA EnvironmentKeeps ==
    ASSUME TypeOK, Testing, Environment, UNCHANGED <<stage, memory, alone, result>>, NEW c \in Clients
    PROVE  InTest(c)'
<1>1. UNCHANGED <<op, pc, local, ret, file, stage, started, mine, unsaved, alone>>
      /\ (container' = "running" => container = "running")
  BY DEF Environment, ContainerExits, Reuse, Exits, memory
<1>2. \A p \in Pids : "leader" \in procs'[p] => "leader" \in procs[p]
  BY DEF Environment, ContainerExits, Reuse, Exits, TypeOK
<1>3. Place(c) /\ OthersIdle(c) /\ Held(c) /\ Left(c)
  BY DEF Testing, InTest
<1>4. Place(c)' /\ OthersIdle(c)' /\ Held(c)'
  BY <1>1, <1>3 DEF Place, OthersIdle, Held
<1>5. local[c] \in States /\ mine[c] \in States
  BY DEF TypeOK, Testing, TestTypes
<1>6. (Gone(local[c]) => Gone(local[c])') /\ (Gone(mine[c]) => Gone(mine[c])')
  BY <1>1, <1>2, <1>5 DEF Gone, States
<1>7. Left(c)'
  BY <1>1, <1>3, <1>6 DEF Left, OverAlone
<1>8. QED
  BY <1>4, <1>7 DEF InTest

\* A call that the test is in goes on.
LEMMA ContinueKeeps ==
    ASSUME TypeOK, Orderly, Awaits, Testing, NEW c \in Clients, ContinueCall(c)
    PROVE  InTest(c)'
<1>1. Place(c) /\ OthersIdle(c) /\ Held(c) /\ Left(c) /\ TestTypes
  BY DEF Testing, InTest
<1>2. Continue(c) /\ op[c] # "none" /\ op'[c] \in {op[c], "none"}
  BY ContinueInCall DEF ContinueCall
<1>3. /\ UNCHANGED <<stage[c], started[c], alone[c]>>
      /\ mine'[c] = IF stage[c] = "start" /\ pc'[c] = "wait" THEN local'[c] ELSE mine[c]
      /\ ~unsaved'[c] <=> /\ ~unsaved[c]
                         /\ ~(/\ stage[c] = "start" /\ pc[c] \in {"save_started", "write_started"}
                              /\ op'[c] = "none" /\ ret'[c] = "error")
  BY <1>1 DEF ContinueCall, Remember, TestTypes
<1>4. OthersIdle(c)'
  BY <1>1, <1>2, <1>3, OthersStay DEF OthersIdle
<1>5. InCall(c) /\ InCall(c)'
  BY <1>2, StepInCall DEF Orderly
<1>6. Gone(NotLoaded)'
  BY DEF Gone, NotLoaded, State
<1>7. CASE c \notin Testers
  BY <1>1, <1>3, <1>4, <1>7 DEF InTest, Place, Held, Left, OverAlone
<1>8. CASE c \in Testers /\ op[c] = "status"
  <2>1. stage[c] = "status"
    BY <1>1, <1>8 DEF Place
  <2>2. QED
    BY <1>1, <1>2, <1>3, <1>4, <1>8, <2>1 DEF InTest, Place, Held, Left, OverAlone
<1>9. CASE c \in Testers /\ op[c] = "start"
  <2>1. stage[c] = "start" /\ stage'[c] = "start" /\ ~started[c] /\ ~started'[c]
    BY <1>1, <1>3, <1>9 DEF Place
  <2>2. op'[c] = "none" <=> pc'[c] = "idle"
    BY <1>5 DEF InCall
  <2>3. pc[c] \in Early \cup Launched \cup Ended
    BY <1>5, <1>9, TypeSplit DEF InCall, ControlOK, Labels, Writing, Early, Launched, Ended
  <2>4. pc'[c] \in Writing => file' = NoState
    BY <1>2, OpenedEmpty
  <2>5. CASE pc[c] \in Early
    <3>1. mine[c] = NotLoaded
      BY <1>1, <2>1, <2>5 DEF Place
    <3>2. /\ pc'[c] \in Early \cup {"wait", "save_stopped", "idle"}
          /\ pc'[c] = "idle" => ret'[c] # "started"
      BY <1>2, <1>9, <2>5, EarlyStart
    <3>3. Place(c)'
      BY <1>1, <1>2, <1>3, <1>9, <2>1, <3>1 DEF Place, Early
    <3>4. Held(c)'
      BY <1>2, <1>3, <1>9, <2>1, <2>2, <2>4, <3>2 DEF Held, Early, Launched
    <3>5. Left(c)'
      BY <1>3, <1>6, <2>1, <2>2, <3>1, <3>2 DEF Left, OverAlone, Early, Ended
    <3>6. QED
      BY <1>4, <3>3, <3>4, <3>5 DEF InTest
  <2>6. CASE pc[c] \in Launched
    <3>1. /\ local' = local /\ pc'[c] \in (Launched \ {"wait"}) \cup {"save_stopped", "idle"}
          /\ pc'[c] = "save_stopped" /\ CanStop => Gone(local[c])'
          /\ pc'[c] = "idle" =>
               \/ /\ ret'[c] = "started" /\ pc[c] = "write_started"
                  /\ file = NoState => file' = local[c]
               \/ ret'[c] = "error" /\ pc[c] \in {"save_started", "write_started"}
      BY <1>2, <1>9, <2>6, LaunchedStart
    <3>2. mine'[c] = mine[c] /\ (alone[c] => local[c] = mine[c])
      BY <1>1, <1>3, <2>1, <2>6, <3>1 DEF Held, Launched
    <3>3. Place(c)'
      BY <1>1, <1>2, <1>3, <1>9, <2>1, <3>1 DEF Place, Early, Launched
    <3>4. alone[c] /\ pc[c] = "write_started" => file = NoState
      BY <1>1, <2>1 DEF Held, Writing
    <3>5. Held(c)'
      BY <1>2, <1>3, <1>9, <2>1, <2>2, <2>4, <3>1, <3>2, <3>4 DEF Held
    <3>6. Left(c)'
      BY <1>3, <2>1, <2>2, <3>1, <3>2 DEF Left, OverAlone, Launched, Ended
    <3>7. QED
      BY <1>4, <3>3, <3>5, <3>6 DEF InTest
  <2>7. CASE pc[c] \in Ended
    <3>1. /\ UNCHANGED <<procs, container, local>> /\ pc'[c] \in {"write_stopped", "idle"}
          /\ pc'[c] = "idle" => ret'[c] = "error"
      BY <1>2, <1>9, <2>7, EndedCall
    <3>2. mine'[c] = mine[c] /\ (Gone(mine[c]) => Gone(mine[c])')
      BY <1>3, <3>1 DEF Gone
    <3>3. Place(c)'
      BY <1>1, <1>2, <1>3, <1>9, <2>1, <3>1 DEF Place, Early
    <3>4. Held(c)'
      BY <1>2, <1>9, <2>1, <2>2, <2>4, <3>1 DEF Held, Launched
    <3>5. Left(c)'
      BY <1>1, <1>3, <2>1, <2>7, <3>1, <3>2 DEF Left, OverAlone
    <3>6. QED
      BY <1>4, <3>3, <3>4, <3>5 DEF InTest
  <2>8. QED
    BY <2>3, <2>5, <2>6, <2>7
<1>10. CASE c \in Testers /\ op[c] = "stop"
  <2>1. stage[c] = "stop" /\ stage'[c] = "stop" /\ mine'[c] = mine[c]
    BY <1>1, <1>3, <1>10 DEF Place
  <2>2. Place(c)'
    BY <1>1, <1>2, <1>3, <1>10, <2>1 DEF Place
  <2>3. local' = local
    BY <1>2, <1>10, StopHolds, EndedCall
  <2>4. Held(c)'
    BY <1>1, <1>2, <1>3, <1>10, <2>1, <2>3 DEF Held
  <2>5. ASSUME alone[c], CanStop PROVE op'[c] = "none" \/ pc'[c] \in Ended => Gone(mine[c])'
    <3>1. local[c] = mine[c]
      BY <1>1, <1>10, <2>5 DEF Held
    <3>2. CASE pc[c] \in Ended
      BY <1>1, <1>2, <1>10, <2>1, <2>5, <3>2, EndedCall DEF Left, Gone
    <3>3. CASE pc[c] \notin Ended
      <4>1. pc'[c] # "write_stopped" /\ op'[c] = "stop" /\ (pc'[c] = "save_stopped" => Gone(local[c])')
        BY <1>2, <1>10, <2>5, <3>3, StopHolds
      <4>2. QED
        BY <2>1, <2>3, <3>1, <4>1 DEF Ended
    <3>4. QED
      BY <3>2, <3>3
  <2>6. Left(c)'
    BY <1>3, <2>1, <2>5 DEF Left, OverAlone
  <2>7. QED
    BY <1>4, <2>2, <2>4, <2>6 DEF InTest
<1>11. QED
  BY <1>1, <1>2, <1>7, <1>8, <1>9, <1>10 DEF Place

\* The steps of the test that make no call.
LEMMA QuietKeeps ==
    ASSUME TypeOK, Testing, NEW c \in Clients,
           \/ (\E i \in DOMAIN Plans : RunCommand(c, i)) \/ NothingToAsk(c) \/ UseRunning(c)
           \/ OwnStarted(c) \/ NotStarted(c) \/ Ask(c) \/ Leave(c) \/ Stopped(c)
    PROVE  InTest(c)'
<1> USE DEF Reach, memory
<1>1. Place(c) /\ OthersIdle(c) /\ Held(c) /\ Left(c) /\ TestTypes
  BY DEF Testing, InTest
<1>2. UNCHANGED <<op, pc, local, ret, file, procs, container>>
  BY DEF RunCommand, NothingToAsk, UseRunning, OwnStarted, NotStarted, Ask, Leave, Stopped, vars,
     worldVars
<1>3. c \in Testers
  BY <1>1 DEF RunCommand, NothingToAsk, UseRunning, OwnStarted, NotStarted, Ask, Leave, Judge,
     Stopped, Place
<1>4. Gone(NotLoaded)' /\ (Gone(mine[c]) => \A state : state = mine[c] => Gone(state)')
  BY <1>2 DEF Gone, NotLoaded, State
<1> USE DEF InTest, Place, OthersIdle, Held, Left, OverAlone
<1>5. CASE \E i \in DOMAIN Plans : RunCommand(c, i)
  <2>1. /\ stage'[c] = "command" /\ ~started'[c] /\ op[c] = "none" /\ mine'[c] = NotLoaded
        /\ alone'[c] => \A e \in Clients \ {c} : op[e] = "none"
    BY <1>1, <1>3, <1>5 DEF RunCommand, TestTypes
  <2>2. QED
    BY <1>2, <1>3, <2>1
<1>6. CASE NothingToAsk(c) \/ NotStarted(c)
  <2>1. /\ stage'[c] = "none" /\ UNCHANGED <<started, mine, unsaved, alone>> /\ op[c] = "none"
        /\ stage[c] = "command" \/ (stage[c] = "start" /\ ret[c] # "started")
    BY <1>1, <1>3, <1>6 DEF NothingToAsk, NotStarted, TestTypes, Done
  <2>2. ~started[c] /\ (alone[c] /\ CanStop /\ ~unsaved[c] => Gone(mine[c])')
    BY <1>1, <1>4, <2>1
  <2>3. QED
    BY <1>1, <1>2, <1>3, <2>1, <2>2
<1>7. CASE UseRunning(c)
  <2>1. /\ stage'[c] = "oracles" /\ UNCHANGED <<started, mine, unsaved, alone>> /\ ~started[c]
        /\ op[c] = "none" /\ mine[c] = NotLoaded
    BY <1>1, <1>7 DEF UseRunning, TestTypes, Done
  <2>2. QED
    BY <1>1, <1>2, <1>3, <2>1
<1>8. CASE OwnStarted(c)
  <2>1. /\ stage'[c] = "oracles" /\ started'[c] /\ UNCHANGED <<mine, unsaved, alone>>
        /\ stage[c] = "start" /\ op[c] = "none" /\ ret[c] = "started"
    BY <1>1, <1>8 DEF OwnStarted, TestTypes, Done
  <2>2. QED
    BY <1>1, <1>2, <1>3, <2>1
<1>9. CASE Ask(c)
  BY <1>1, <1>2, <1>4, <1>9 DEF Ask
<1>10. CASE Leave(c)
  <2>1. /\ stage[c] = "oracles" /\ stage'[c] = "none" /\ UNCHANGED <<started, mine, unsaved, alone>>
        /\ op[c] = "none" /\ (~started[c] \/ KeepRunning)
    BY <1>1, <1>3, <1>10 DEF Leave, Judge, TestTypes
  <2>2. QED
    BY <1>1, <1>2, <1>3, <1>4, <2>1
<1>11. CASE Stopped(c)
  <2>1. /\ stage[c] = "stop" /\ stage'[c] = "none" /\ UNCHANGED <<started, mine, unsaved, alone>>
        /\ op[c] = "none" /\ ret[c] # "crashed"
    BY <1>1, <1>11 DEF Stopped, TestTypes, Done
  <2>2. QED
    BY <1>1, <1>2, <1>3, <1>4, <2>1
<1>12. QED
  BY <1>5, <1>6, <1>7, <1>8, <1>9, <1>10, <1>11

\* The steps of the test that begin a call, and its death.
LEMMA CallKeeps ==
    ASSUME TypeOK, Orderly, Testing, NEW c \in Clients,
           \/ Look(c) \/ (\E request \in Requests : StartOwn(c, request)) \/ StopOwn(c)
           \/ TestCrash(c) \/ CallElsewhere(c) \/ CrashElsewhere(c)
    PROVE  InTest(c)'
<1> USE DEF Reach, memory, Intrude
<1>1. Place(c) /\ OthersIdle(c) /\ Held(c) /\ Left(c) /\ TestTypes /\ TypeOK
  BY DEF Testing, InTest
<1>2. Call(c) \/ Crash(c)
  BY SpecCheckAssumption DEF Look, StartOwn, StopOwn, CallElsewhere, CrashElsewhere, TestCrash, Call
<1>3. alone'[c] => alone[c]
  BY <1>1 DEF Look, StartOwn, StopOwn, CallElsewhere, CrashElsewhere, TestCrash, TestTypes
<1>4. OthersIdle(c)'
  BY <1>1, <1>2, <1>3, OthersStay DEF OthersIdle
<1>5. Gone(NotLoaded)'
  BY DEF Gone, NotLoaded, State
<1>6. InCall(c)'
  BY <1>2, StepInCall
<1> USE DEF InTest, Place, Held, Left, OverAlone
<1>7. CASE Look(c)
  <2>1. /\ stage'[c] = "status" /\ UNCHANGED <<started, mine>> /\ ~started[c] /\ mine[c] = NotLoaded
        /\ op'[c] \in {"none", "status"} /\ c \in Testers
    BY <1>1, <1>7 DEF Look, CallStatus, Enter, Return, TestTypes, TypeOK
  <2>2. QED
    BY <1>4, <2>1
<1>8. CASE \E request \in Requests : StartOwn(c, request)
  <2>1. /\ stage'[c] = "start" /\ UNCHANGED <<started, mine>> /\ ~started[c] /\ mine[c] = NotLoaded
        /\ c \in Testers
        /\ \/ op'[c] = "start" /\ pc'[c] \in {"probe", "launch"}
           \/ op'[c] = "none" /\ pc'[c] = "idle" /\ ret'[c] = "error"
    BY <1>1, <1>8 DEF StartOwn, CallStart, CannotStart, Enter, Return, TestTypes, TypeOK
  <2>2. QED
    BY <1>4, <1>5, <2>1 DEF Launched, Ended, Writing
<1>9. CASE StopOwn(c)
  <2>1. /\ stage[c] = "oracles" /\ stage'[c] = "stop" /\ UNCHANGED <<started, mine>>
        /\ started[c] /\ c \in Testers
    BY <1>1, <1>9 DEF StopOwn, Judge, TestTypes
  <2>2. CallStop(c)
    BY <1>9 DEF StopOwn
  <2>3. op'[c] \in {"none", "stop"}
    BY <1>1, <2>2 DEF CallStop, Enter, Return, TypeOK
  <2>4. ASSUME alone'[c]
        PROVE  op'[c] = "stop" /\ pc'[c] = "term" /\ local'[c] = mine[c]
    <3>1. file = mine[c] /\ file \in States
      BY <1>1, <1>3, <2>1, <2>4 DEF TestTypes
    <3>2. QED
      BY <1>1, <2>2, <3>1 DEF CallStop, LoadFails, Loaded, Hold, Enter, TypeOK
  <2>5. QED
    BY <1>4, <2>1, <2>3, <2>4 DEF Ended
<1>10. CASE TestCrash(c) \/ CrashElsewhere(c)
  <2>1. op'[c] = "none" /\ ret'[c] = "crashed" /\ UNCHANGED <<started, mine, alone>>
    BY <1>1, <1>10 DEF TestCrash, CrashElsewhere, Crash, Return, TypeOK
  <2>2. stage'[c] = "none"
    BY <1>1, <1>10 DEF TestCrash, CrashElsewhere, TestTypes
  <2>3. QED
    BY <1>1, <1>4, <2>1, <2>2
<1>11. CASE CallElsewhere(c)
  <2>1. c \notin Testers /\ UNCHANGED <<stage, started, mine>>
    BY <1>11 DEF CallElsewhere
  <2>2. QED
    BY <1>1, <1>3, <1>4, <2>1
<1>12. QED
  BY <1>7, <1>8, <1>9, <1>10, <1>11

\* Every step keeps what tests hold.
LEMMA TestingStep ==
    ASSUME TypeOK, TypeOK', Orderly, Awaits, Testing, [TestNext]_testVars
    PROVE  Testing'
<1>1. TestTypes'
  BY TestTypesStep DEF Testing
<1>2. ASSUME NEW c \in Clients PROVE InTest(c)'
  <2>1. CASE UNCHANGED testVars
    <3>1. InTest(c)
      BY DEF Testing
    <3>2. QED
      BY <2>1, <3>1 DEF testVars, vars, worldVars, memory, InTest, Place, OthersIdle, Held, Left,
         OverAlone, Gone
  <2>2. ASSUME NEW d \in Clients, TestStep(d) \/ CallElsewhere(d) \/ CrashElsewhere(d)
        PROVE  InTest(c)'
    <3>1. CASE d # c
      BY <2>2, <3>1, OthersKeep
    <3>2. CASE d = c
      BY <2>2, <3>2, QuietKeeps, CallKeeps DEF TestStep
    <3>3. QED
      BY <3>1, <3>2
  <2>3. ASSUME NEW d \in Clients, ContinueCall(d)
        PROVE  InTest(c)'
    <3>1. CASE d # c
      BY <2>3, <3>1, OthersKeep
    <3>2. CASE d = c
      BY <2>3, <3>2, ContinueKeeps
    <3>3. QED
      BY <3>1, <3>2
  <2>4. CASE Environment /\ UNCHANGED <<stage, memory, alone, result>>
    BY <2>4, EnvironmentKeeps
  <2>5. QED
    BY <2>1, <2>2, <2>3, <2>4 DEF TestNext
<1>3. QED
  BY <1>1, <1>2 DEF Testing

\* It holds at the start, and so always.
LEMMA TestingInvariant == TestSpec => [](TypeOK /\ Orderly /\ Testing)
<1>1. TestInit => Testing
  <2> SUFFICES ASSUME TestInit PROVE Testing
    OBVIOUS
  <2>1. TestTypes
    BY StateType DEF TestInit, TestTypes, Stages, NotLoaded
  <2>2. ASSUME NEW c \in Clients PROVE InTest(c)
    BY DEF TestInit, Init, InTest, Place, OthersIdle, Held, Left, OverAlone
  <2>3. QED
    BY <2>1, <2>2 DEF Testing
<1>2. TypeOK /\ TypeOK' /\ Orderly /\ Awaits /\ Testing /\ [TestNext]_testVars => Testing'
  BY TestingStep
<1>3. QED
  BY <1>1, <1>2, TestIsClient, TypeCorrect, OrderlyInvariant, AwaitsInvariant, PTL DEF TestSpec

\* The deferred Stop of checker.go stops the service that the test has
\* started, and no other, when nobody else makes a call: whatever fails, and
\* whatever other tests and users did before.
THEOREM StopsItsOwn == TestSpec => []TestStopsItsOwn
<1>1. Testing => TestStopsItsOwn
  BY SpecCheckAssumption DEF Testing, InTest, Held, TestStopsItsOwn
<1>2. QED
  BY <1>1, TestingInvariant, PTL

\* When a signal can end a process and Docker answers, nothing that a test has
\* launched is left behind by it, whatever else fails and whatever the service
\* answers, but for the service whose record could not be saved when it had
\* become ready (manager.go:273).
THEOREM LeavesNothing ==
    ASSUME CanStop
    PROVE  TestSpec => []TestCleansUp
<1>1. Testing => TestCleansUp
  <2> SUFFICES ASSUME Testing, NEW c \in Testers, OverAlone(c), ~unsaved[c]
               PROVE  ~Runs(mine[c])
    BY DEF TestCleansUp
  <2>1. c \in Clients
    BY SpecCheckAssumption
  <2>2. Gone(mine[c])
    BY <2>1, CanStop DEF Testing, InTest, Left, OverAlone
  <2>3. QED
    BY <2>2 DEF Gone, Runs
<1>2. QED
  BY <1>1, TestingInvariant, PTL

-----------------------------------------------------------------------------
(***************************************************************************)
(* The verdict.                                                            *)
(***************************************************************************)

ResultTypes ==
    /\ plan \in [Clients -> 0..Len(Plans)] /\ asked \in [Clients -> Nat]
    /\ errors \in [Clients -> SUBSET {"command", "oracle"}]
    /\ verdict \in [Clients -> {"none", "passed", "failed"}]
    /\ refused \in [Clients -> BOOLEAN]

Failing == {"fails", "cannot run"}

Passes(c, k) ==
    LET oracle == oracles(c)[k] IN OraclePasses(oracle, Tested(c).service[oracle.path])

\* What is known of the plan that is tested: the command's error is there from
\* the start, no oracle is asked before a service is there, and then one error
\* stands for all the oracles asked so far that were not answered or failed.
Known(c) ==
    /\ stage[c] # "command" => oracles(c) # <<>>
    /\ stage[c] # "oracles" \/ ~Tested(c).url => asked[c] = 0
    /\ asked[c] <= Len(oracles(c))
    /\ "command" \in errors[c] <=> Tested(c).command \in Failing
    /\ "oracle" \in errors[c] <=> refused[c] \/ \E k \in 1..asked[c] : ~Passes(c, k)
    /\ refused[c] => asked[c] > 0

\* A plan is there from the command to the verdict.
Judging(c) ==
    /\ stage[c] \in {"none", "stop"} <=> plan[c] = 0
    /\ plan[c] = 0 => asked[c] = 0 /\ errors[c] = {} /\ ~refused[c]
    /\ plan[c] # 0 => Known(c)

Judges == TestTypes /\ ResultTypes /\ \A c \in Clients : Judging(c)

\* The plans are numbered, and each has a number of oracles.
LEMMA PlansNumbered ==
    /\ Len(Plans) \in Nat /\ DOMAIN Plans = 1..Len(Plans)
    /\ \A i \in DOMAIN Plans : Len(ParseHTTPOracles(Plans[i].lines)) \in Nat
<1>1. IsSequence(Plans) /\ \A i \in DOMAIN Plans : IsSequence(Plans[i].lines)
  BY SpecCheckAssumption
<1>2. Len(Plans) \in Nat /\ DOMAIN Plans = 1..Len(Plans)
  BY <1>1, LenProperties DEF IsSequence
<1>3. QED
  BY <1>1, <1>2, OraclesCounted

\* The types of what a test knows of its plan.
LEMMA ResultTypesStep ==
    ASSUME ResultTypes, [TestNext]_testVars
    PROVE  ResultTypes'
<1> USE DEF ResultTypes, result
<1>1. CASE UNCHANGED testVars
  BY <1>1 DEF testVars
<1>2. ASSUME NEW c \in Clients, TestStep(c) PROVE ResultTypes'
  <2>1. ASSUME NEW i \in DOMAIN Plans, RunCommand(c, i) PROVE ResultTypes'
    <3>1. i \in 0..Len(Plans)
      BY PlansNumbered
    <3>2. (IF Plans[i].command \in Failing THEN {"command"} ELSE {}) \in SUBSET {"command", "oracle"}
      OBVIOUS
    <3>3. QED
      BY <2>1, <3>1, <3>2 DEF RunCommand, Failing
  <2>2. CASE \E more : Conclude(c, more)
    <3>1. PICK outcome \in {"passed", "failed"} : Forget(c, outcome)
      BY <2>2 DEF Conclude
    <3>2. QED
      BY <3>1, PlansNumbered DEF Forget
  <2>3. CASE Forget(c, "none")
    BY <2>3, PlansNumbered DEF Forget
  <2>4. CASE UNCHANGED result
    BY <2>4
  <2>5. CASE Ask(c)
    <3>1. PICK answered \in BOOLEAN :
              /\ errors' = [errors EXCEPT ![c] = @ \cup
                    (IF answered /\ OraclePasses(oracles(c)[asked[c] + 1],
                            Tested(c).service[oracles(c)[asked[c] + 1].path])
                     THEN {} ELSE {"oracle"})]
              /\ refused' = [refused EXCEPT ![c] = @ \/ ~answered]
      BY <2>5 DEF Ask
    <3>2. asked' = [asked EXCEPT ![c] = @ + 1] /\ UNCHANGED <<plan, verdict>>
      BY <2>5 DEF Ask
    <3>3. refused' \in [Clients -> BOOLEAN]
      BY <3>1, Zenon
    <3>4. QED
      BY <3>1, <3>2, <3>3
  <2>6. QED
    BY <1>2, <2>1, <2>2, <2>3, <2>4, <2>5 DEF TestStep, NothingToAsk, Look, UseRunning, StartOwn,
       OwnStarted, NotStarted, StopOwn, Leave, Judge, Stopped, TestCrash
<1>3. ASSUME NEW c \in Clients, CallElsewhere(c) \/ CrashElsewhere(c) PROVE ResultTypes'
  BY <1>3 DEF CallElsewhere, CrashElsewhere
<1>4. CASE UNCHANGED result
  BY <1>4
<1>5. QED
  BY <1>1, <1>2, <1>3, <1>4 DEF TestNext, ContinueCall

\* What one test knows no step of another changes.
LEMMA OthersPlan ==
    ASSUME Judges, NEW c \in Clients, NEW d \in Clients, d # c,
           TestStep(d) \/ CallElsewhere(d) \/ CrashElsewhere(d)
    PROVE  UNCHANGED <<stage[c], plan[c], asked[c], errors[c], refused[c], verdict[c]>>
<1> USE DEF Judges, TestTypes, ResultTypes, Reach, result
<1>1. CASE \E i \in DOMAIN Plans : RunCommand(d, i)
  BY <1>1 DEF RunCommand
<1>2. CASE NothingToAsk(d) \/ NotStarted(d) \/ StopOwn(d) \/ Leave(d) \/ TestCrash(d)
  BY <1>2 DEF NothingToAsk, NotStarted, StopOwn, Leave, Judge, TestCrash, Conclude, Forget
<1>3. CASE Look(d) \/ UseRunning(d) \/ (\E request \in Requests : StartOwn(d, request))
           \/ OwnStarted(d) \/ Stopped(d)
  BY <1>3 DEF Look, UseRunning, StartOwn, OwnStarted, Stopped
<1>4. CASE Ask(d)
  BY <1>4 DEF Ask
<1>5. CASE CallElsewhere(d) \/ CrashElsewhere(d)
  BY <1>5 DEF CallElsewhere, CrashElsewhere
<1>6. QED
  BY <1>1, <1>2, <1>3, <1>4, <1>5 DEF TestStep

\* An oracle more is known when it has been asked.
LEMMA AskKnown ==
    ASSUME Judges, NEW c \in Clients, Ask(c)
    PROVE  Judging(c)'
<1> USE DEF Judges, ResultTypes
<1>1. Judging(c) /\ plan[c] # 0 /\ Known(c) /\ stage[c] = "oracles" /\ Tested(c).url
  BY DEF Ask, Judging
<1>2. /\ UNCHANGED <<stage, plan>> /\ asked'[c] = asked[c] + 1
      /\ asked[c] < Len(oracles(c))
  BY DEF Ask
<1>3. Len(oracles(c)) \in Nat /\ asked[c] \in Nat
  <2>1. plan[c] \in DOMAIN Plans
    BY <1>1, PlansNumbered
  <2>2. QED
    BY <2>1, PlansNumbered DEF oracles, Tested
<1>4. PICK answered \in BOOLEAN :
          /\ errors' = [errors EXCEPT ![c] = @ \cup
                (IF answered /\ Passes(c, asked[c] + 1) THEN {} ELSE {"oracle"})]
          /\ refused' = [refused EXCEPT ![c] = @ \/ ~answered]
  BY Zenon DEF Ask, Passes
<1>5. Tested(c)' = Tested(c) /\ oracles(c)' = oracles(c) /\ \A k : Passes(c, k)' <=> Passes(c, k)
  <2>1. plan' = plan
    BY <1>2
  <2>2. QED
    BY ONLY <2>1 DEF Tested, oracles, Passes
<1>6. refused'[c] = (refused[c] \/ ~answered)
  BY <1>4
<1>7. "oracle" \in errors'[c] <=> "oracle" \in errors[c] \/ ~(answered /\ Passes(c, asked[c] + 1))
  BY <1>4
<1>8. "command" \in errors'[c] <=> "command" \in errors[c]
  BY <1>4
<1>9. (\E k \in 1..asked'[c] : ~Passes(c, k)')
        <=> (\E k \in 1..asked[c] : ~Passes(c, k)) \/ ~Passes(c, asked[c] + 1)
  BY <1>2, <1>3, <1>5
<1>10. Known(c)'
  <2>1. "oracle" \in errors[c] <=> refused[c] \/ \E k \in 1..asked[c] : ~Passes(c, k)
    BY <1>1, Zenon DEF Known
  <2>2. "oracle" \in errors'[c] <=> refused'[c] \/ \E k \in 1..asked'[c] : ~Passes(c, k)'
    BY <2>1, <1>6, <1>7, <1>9, Zenon
  <2>3. "command" \in errors'[c] <=> Tested(c)'.command \in Failing
    BY <1>1, <1>5, <1>8, Zenon DEF Known
  <2>4. oracles(c)' # <<>> /\ stage'[c] = "oracles" /\ Tested(c)'.url
    BY <1>1, <1>2, <1>5 DEF Known
  <2>5. asked'[c] <= Len(oracles(c)') /\ asked'[c] > 0
    BY <1>2, <1>3, <1>5
  <2>6. QED
    BY <2>2, <2>3, <2>4, <2>5 DEF Known
<1>11. QED
  BY <1>1, <1>2, <1>10 DEF Judging

\* What a test knows holds after each of its steps.
LEMMA OwnPlan ==
    ASSUME Judges, NEW c \in Clients, TestStep(c)
    PROVE  Judging(c)'
<1> USE DEF Judges, TestTypes, ResultTypes, Reach, result
<1>1. Judging(c) /\ stage[c] \in Stages
  BY DEF Judges
<1>2. ASSUME NEW i \in DOMAIN Plans, RunCommand(c, i) PROVE Judging(c)'
  <2>1. /\ stage[c] = "none" /\ stage'[c] = "command" /\ plan'[c] = i
        /\ errors'[c] = IF Plans[i].command \in Failing THEN {"command"} ELSE {}
        /\ UNCHANGED <<asked, refused>>
    BY <1>2 DEF RunCommand, Failing
  <2>2. i \in Nat /\ i # 0 /\ asked[c] = 0 /\ ~refused[c]
    BY <1>1, <2>1, PlansNumbered DEF Judging
  <2>3. Tested(c)' = Plans[i] /\ Len(oracles(c)') \in Nat
    BY <1>2, <2>1, PlansNumbered DEF Tested, oracles
  <2>4. Known(c)'
    BY <2>1, <2>2, <2>3 DEF Known
  <2>5. QED
    BY <2>1, <2>2, <2>4 DEF Judging
<1>3. CASE NothingToAsk(c) \/ NotStarted(c) \/ StopOwn(c) \/ Leave(c) \/ TestCrash(c)
  <2>1. stage'[c] \in {"none", "stop"}
    BY <1>3 DEF NothingToAsk, NotStarted, StopOwn, Leave, TestCrash
  <2>2. plan'[c] = 0 /\ asked'[c] = 0 /\ errors'[c] = {} /\ ~refused'[c]
    BY <1>3 DEF NothingToAsk, NotStarted, StopOwn, Leave, Judge, TestCrash, Conclude, Forget
  <2>3. QED
    BY <2>1, <2>2 DEF Judging
<1>4. CASE Look(c) \/ UseRunning(c) \/ (\E request \in Requests : StartOwn(c, request))
           \/ OwnStarted(c)
  <2>1. UNCHANGED <<plan, asked, errors, refused>>
    BY <1>4 DEF Look, UseRunning, StartOwn, OwnStarted
  <2>2. /\ stage[c] \in {"command", "status", "start"} /\ stage'[c] \in {"status", "start", "oracles"}
        /\ stage[c] = "command" => oracles(c) # <<>>
    BY <1>4 DEF Look, UseRunning, StartOwn, OwnStarted
  <2>3. plan[c] # 0 /\ Known(c)
    BY <1>1, <2>2 DEF Judging
  <2>4. oracles(c)' = oracles(c) /\ Tested(c)' = Tested(c) /\ \A k : Passes(c, k)' <=> Passes(c, k)
    BY <2>1 DEF Tested, oracles, Passes
  <2>5. Known(c)'
    BY <2>1, <2>2, <2>3, <2>4 DEF Known
  <2>6. QED
    BY <2>1, <2>2, <2>3, <2>5 DEF Judging
<1>5. CASE Ask(c)
  BY <1>5, AskKnown
<1>6. CASE Stopped(c)
  BY <1>1, <1>6 DEF Stopped, Judging
<1>7. QED
  BY <1>2, <1>3, <1>4, <1>5, <1>6 DEF TestStep

\* Every step keeps it.
LEMMA JudgesStep ==
    ASSUME TypeOK, TypeOK', Judges, [TestNext]_testVars
    PROVE  Judges'
<1>1. TestTypes' /\ ResultTypes'
  BY TestTypesStep, ResultTypesStep DEF Judges
<1>2. ASSUME NEW c \in Clients PROVE Judging(c)'
  <2>1. ASSUME UNCHANGED <<stage[c], plan[c], asked[c], errors[c], refused[c]>> PROVE Judging(c)'
    <3>1. Judging(c)
      BY DEF Judges
    <3>2. QED
      BY <2>1, <3>1 DEF Judging, Known, Passes, oracles, Tested
  <2>2. ASSUME NEW d \in Clients, TestStep(d) \/ CallElsewhere(d) \/ CrashElsewhere(d)
        PROVE  Judging(c)'
    <3>1. CASE d # c
      BY <2>1, <2>2, <3>1, OthersPlan
    <3>2. CASE d = c /\ TestStep(c)
      BY <3>2, OwnPlan
    <3>3. CASE CallElsewhere(d) \/ CrashElsewhere(d)
      BY <2>1, <3>3 DEF CallElsewhere, CrashElsewhere, result
    <3>4. QED
      BY <2>2, <3>1, <3>2, <3>3
  <2>3. CASE UNCHANGED <<stage, result>>
    BY <2>1, <2>3 DEF result
  <2>4. QED
    BY <2>2, <2>3 DEF TestNext, testVars, ContinueCall
<1>3. QED
  BY <1>1, <1>2 DEF Judges

\* It holds at the start, and so always.
LEMMA JudgesInvariant == TestSpec => [](TypeOK /\ Judges)
<1>1. TestInit => Judges
  <2> SUFFICES ASSUME TestInit PROVE Judges
    OBVIOUS
  <2>1. TestTypes
    BY StateType DEF TestInit, TestTypes, Stages, NotLoaded
  <2>2. ResultTypes
    BY PlansNumbered DEF TestInit, ResultTypes
  <2>3. ASSUME NEW c \in Clients PROVE Judging(c)
    BY DEF TestInit, Judging
  <2>4. QED
    BY <2>1, <2>2, <2>3 DEF Judges
<1>2. TypeOK /\ TypeOK' /\ Judges /\ [TestNext]_testVars => Judges'
  BY JudgesStep
<1>3. QED
  BY <1>1, <1>2, TestIsClient, TypeCorrect, PTL DEF TestSpec

\* The variables of the tests always have their types, and no test has asked
\* more oracles than it has.
THEOREM TestTypeCorrect == TestSpec => []TestTypeOK
<1>1. Judges => TestTypeOK
  <2> SUFFICES ASSUME Judges PROVE TestTypeOK
    OBVIOUS
  <2>1. ASSUME NEW c \in Clients
        PROVE  asked[c] \in 0..(IF plan[c] = 0 THEN 0 ELSE Len(oracles(c)))
    <3>1. Judging(c) /\ asked[c] \in Nat /\ plan[c] \in 0..Len(Plans)
      BY DEF Judges, ResultTypes
    <3>2. CASE plan[c] = 0
      BY <3>1, <3>2 DEF Judging
    <3>3. CASE plan[c] # 0
      <4>1. plan[c] \in DOMAIN Plans
        BY <3>1, <3>3, PlansNumbered
      <4>2. Len(oracles(c)) \in Nat
        BY <4>1, PlansNumbered DEF oracles, Tested
      <4>3. QED
        BY <3>1, <3>3, <4>2 DEF Judging, Known
    <3>4. QED
      BY <3>2, <3>3
  <2>2. QED
    BY <2>1 DEF Judges, TestTypes, ResultTypes, TestTypeOK, Stages
<1>2. QED
  BY <1>1, JudgesInvariant, PTL

\* The conclusion of a step, in terms of the oracles.
Concluded(c) ==
    /\ Concluding(c, "passed") =>
          /\ Tested(c).command \notin Failing
          /\ Tested(c).command = "passes" \/ asked[c] > 0
          /\ asked[c] = Len(oracles(c)) /\ ~refused[c]
          /\ \A k \in 1..Len(oracles(c)) : Passes(c, k)
    /\ Concluding(c, "failed") /\ errors[c] = {"oracle"} =>
          refused[c] \/ \E k \in 1..Len(oracles(c)) : ~Passes(c, k)

\* A verdict is given only to a plan, and is the one of its oracles.
LEMMA StepConcludes ==
    ASSUME Judges, [TestNext]_testVars, NEW c \in Clients,
           Concluding(c, "passed") \/ Concluding(c, "failed")
    PROVE  plan[c] \in DOMAIN Plans /\ Concluded(c)
<1> USE DEF Judges, ResultTypes, result
<1>1. Judging(c) /\ verdict'[c] # verdict[c] /\ verdict'[c] # "none"
  BY DEF Concluding
<1>2. TestStep(c)
  <2>1. ~ UNCHANGED result
    BY <1>1
  <2>2. PICK d \in Clients : TestStep(d) \/ CallElsewhere(d) \/ CrashElsewhere(d)
    BY <2>1 DEF TestNext, testVars, ContinueCall
  <2>3. d = c
    BY <1>1, <2>2, OthersPlan
  <2>4. QED
    BY <2>1, <2>2, <2>3 DEF CallElsewhere, CrashElsewhere
<1>3. NothingToAsk(c) \/ NotStarted(c) \/ Judge(c)
  <2>1. ~ \E i \in DOMAIN Plans : RunCommand(c, i)
    BY <1>1 DEF RunCommand
  <2>2. ~ TestCrash(c)
    BY <1>1 DEF TestCrash, Forget
  <2>3. QED
    BY <1>1, <1>2, <2>1, <2>2 DEF TestStep, Look, UseRunning, StartOwn, OwnStarted, Ask, StopOwn,
       Leave, Stopped
<1>4. plan[c] # 0 /\ Known(c)
  BY <1>1, <1>3 DEF NothingToAsk, NotStarted, Judge, Judging
<1>5. plan[c] \in DOMAIN Plans
  BY <1>4, PlansNumbered
<1>6. Len(oracles(c)) \in Nat /\ asked[c] \in Nat
  BY <1>5, PlansNumbered DEF oracles, Tested
<1>7. oracles(c) = <<>> <=> Len(oracles(c)) = 0
  <2> DEFINE lines == Tested(c).lines
  <2>1. IsSequence(lines)
    BY <1>5, SpecCheckAssumption DEF Tested
  <2>2. Len(lines) \in 0..Len(lines)
    BY <2>1, LenProperties DEF IsSequence
  <2>3. oracles(c) \in Seq(OraclesOf(lines))
    BY <2>1, <2>2, CollectedDefined DEF ParseHTTPOracles, oracles
  <2>4. QED
    BY <2>3, EmptySeq
<1>8. ASSUME NEW more, Conclude(c, more)
      PROVE  /\ Concluding(c, "passed") => errors[c] = {} /\ more = {}
             /\ Concluding(c, "failed") => errors[c] \cup more # {}
  BY <1>8 DEF Conclude, Forget, Concluding
<1>9. CASE NothingToAsk(c)
  <2>1. /\ oracles(c) = <<>> /\ stage[c] = "command"
        /\ Conclude(c, IF Tested(c).command \in {"none", "cannot run"}
                       THEN {"no executable tests"} ELSE {})
    BY <1>9 DEF NothingToAsk
  <2>2. Len(oracles(c)) = 0
    BY <1>7, <2>1
  <2>3. asked[c] = 0 /\ "oracle" \notin errors[c] /\ ~refused[c]
    <3>1. stage[c] # "oracles"
      BY <2>1
    <3>2. QED
      BY <1>4, <1>6, <3>1 DEF Known
  <2>4. Concluding(c, "passed") =>
            errors[c] = {} /\ Tested(c).command \notin {"none", "cannot run"}
    BY <1>8, <2>1
  <2>5. plan[c] \in DOMAIN Plans => Tested(c).command \in Commanded
    BY SpecCheckAssumption DEF Tested
  <2>6. QED
    BY <1>4, <1>5, <2>2, <2>3, <2>4, <2>5 DEF Known, Concluded, Commanded, Failing
<1>10. CASE NotStarted(c)
  <2>1. Conclude(c, {"start"}) /\ stage[c] = "start"
    BY <1>10 DEF NotStarted
  <2>2. ~Concluding(c, "passed")
    BY <1>8, <2>1
  <2>3. "oracle" \notin errors[c]
    BY <1>4, <1>6, <2>1 DEF Known
  <2>4. QED
    BY <1>5, <2>2, <2>3 DEF Concluded
<1>11. CASE Judge(c)
  <2>1. /\ stage[c] = "oracles" /\ (asked[c] = Len(oracles(c)) \/ ~Tested(c).url)
        /\ Conclude(c, IF Tested(c).url THEN {} ELSE {"base URL"})
    BY <1>11 DEF Judge
  <2>2. Len(oracles(c)) # 0
    BY <1>4, <1>7, <2>1 DEF Known
  <2>3. Concluding(c, "passed") => errors[c] = {} /\ Tested(c).url
    BY <1>8, <2>1
  <2>4. CASE Concluding(c, "passed")
    <3>1. asked[c] = Len(oracles(c)) /\ Tested(c).command \notin Failing /\ ~refused[c]
      BY <1>4, <2>1, <2>3, <2>4 DEF Known
    <3>2. \A k \in 1..asked[c] : Passes(c, k)
      BY <1>4, <2>3, <2>4 DEF Known
    <3>3. QED
      BY <1>5, <1>6, <2>2, <2>4, <3>1, <3>2 DEF Concluded, Concluding
  <2>5. CASE ~Concluding(c, "passed")
    <3>1. ASSUME "oracle" \in errors[c], ~refused[c]
          PROVE  \E k \in 1..Len(oracles(c)) : ~Passes(c, k)
      <4>1. PICK k \in 1..asked[c] : ~Passes(c, k)
        BY <1>4, <3>1 DEF Known
      <4>2. k \in 1..Len(oracles(c))
        BY <1>4, <1>6 DEF Known
      <4>3. QED
        BY <4>1, <4>2
    <3>2. QED
      BY <1>5, <2>5, <3>1 DEF Concluded
  <2>6. QED
    BY <2>4, <2>5
<1>12. QED
  BY <1>3, <1>9, <1>10, <1>11

\* An oracle of a plain line passes exactly when the line holds.
LEMMA PlainPasses ==
    ASSUME NEW c \in Clients, plan[c] \in DOMAIN Plans
    PROVE  \E at \in [1..Len(oracles(c)) -> Checked(c)] :
              /\ \A i \in Checked(c) : \E k \in 1..Len(oracles(c)) : at[k] = i
              /\ \A k \in 1..Len(oracles(c)) : PlainLine(Tested(c).lines[at[k]]) =>
                    (Passes(c, k) <=> LineHolds(Tested(c).lines[at[k]], Tested(c).service))
<1> DEFINE lines == Tested(c).lines
           service == Tested(c).service
           n == Len(oracles(c))
<1>1. IsSequence(lines)
  BY SpecCheckAssumption DEF Tested
<1>2. PICK at \in [1..n -> LinesWithOracle(lines)] :
          /\ \A i \in LinesWithOracle(lines) : \E k \in 1..n : at[k] = i
          /\ \A k \in 1..n : oracles(c)[k] = OracleOf(lines[at[k]])
  BY <1>1, EveryLineIsParsed DEF OneEach, oracles
<1>3. ASSUME NEW i \in LinesWithOracle(lines), PlainLine(lines[i])
      PROVE  LET oracle == OracleOf(lines[i])
             IN  OraclePasses(oracle, service[oracle.path]) <=> LineHolds(lines[i], service)
  <2>1. i \in DOMAIN lines /\ ParseLine(lines[i]) # {}
    BY DEF LinesWithOracle
  <2>2. WellFormed(lines[i])
    BY <2>1, SpecCheckAssumption DEF Tested
  <2>3. OracleOf(lines[i]) \in ParseLine(lines[i])
    BY <2>1, OracleOfLine
  <2> HIDE DEF lines, service
  <2>4. QED
    BY <1>3, <2>2, <2>3, PlainLineIsJudgedRight
<1>4. ASSUME NEW k \in 1..n, PlainLine(lines[at[k]])
      PROVE  Passes(c, k) <=> LineHolds(lines[at[k]], service)
  <2>1. at[k] \in LinesWithOracle(lines) /\ oracles(c)[k] = OracleOf(lines[at[k]])
    BY <1>2
  <2>2. QED
    BY <1>3, <1>4, <2>1 DEF Passes
<1>5. QED
  BY <1>2, <1>4 DEF Checked

\* The verdict of Checker.Run is what the specification says.  A test passes
\* only when its command has not failed, it has executed something, each line
\* with an oracle was answered, and each that is plain holds, whoever starts,
\* stops or kills what meanwhile; and when nothing but an oracle has failed,
\* some line was not answered, does not hold or is not plain.
THEOREM VerdictCorrect == TestSpec => VerdictRight
<1> DEFINE Right(c) ==
          /\ Concluding(c, "passed") =>
                /\ Tested(c).command \notin {"fails", "cannot run"}
                /\ Tested(c).command = "passes" \/ asked[c] > 0
                /\ asked[c] = Cardinality(Checked(c)) /\ ~refused[c]
                /\ \A i \in Checked(c) : PlainLine(Tested(c).lines[i]) => PlainlyHolds(c, i)
          /\ Concluding(c, "failed") /\ errors[c] = {"oracle"} =>
                refused[c] \/ \E i \in Checked(c) : ~PlainlyHolds(c, i)
<1>1. ASSUME Judges, [TestNext]_testVars, NEW c \in Testers PROVE Right(c)
  <2>1. c \in Clients
    BY SpecCheckAssumption
  <2>2. CASE ~Concluding(c, "passed") /\ ~Concluding(c, "failed")
    BY <2>2
  <2>3. CASE Concluding(c, "passed") \/ Concluding(c, "failed")
    <3> DEFINE n == Len(oracles(c))
    <3>1. plan[c] \in DOMAIN Plans /\ Concluded(c)
      BY <1>1, <2>1, <2>3, StepConcludes
    <3>2. n = Cardinality(Checked(c))
      BY <3>1, SpecCheckAssumption, OraclesCounted DEF oracles, Checked, Tested
    <3>3. PICK at \in [1..n -> Checked(c)] :
              /\ \A i \in Checked(c) : \E k \in 1..n : at[k] = i
              /\ \A k \in 1..n : PlainLine(Tested(c).lines[at[k]]) =>
                    (Passes(c, k) <=> LineHolds(Tested(c).lines[at[k]], Tested(c).service))
      BY <2>1, <3>1, PlainPasses
    <3>4. (\A k \in 1..n : Passes(c, k)) =>
              \A i \in Checked(c) : PlainLine(Tested(c).lines[i]) => PlainlyHolds(c, i)
      BY <3>3 DEF PlainlyHolds
    <3>5. (\E k \in 1..n : ~Passes(c, k)) => \E i \in Checked(c) : ~PlainlyHolds(c, i)
      <4> SUFFICES ASSUME NEW k \in 1..n, ~Passes(c, k)
                   PROVE  ~PlainlyHolds(c, at[k]) /\ at[k] \in Checked(c)
        OBVIOUS
      <4>1. QED
        BY <3>3 DEF PlainlyHolds
    <3>6. QED
      BY <3>1, <3>2, <3>4, <3>5 DEF Concluded, Failing
  <2>4. QED
    BY <2>2, <2>3
<1>2. Judges /\ [TestNext]_testVars => [\A c \in Testers : Right(c)]_testVars
  BY <1>1
<1>3. QED
  BY <1>2, JudgesInvariant, PTL DEF TestSpec, VerdictRight
=============================================================================
