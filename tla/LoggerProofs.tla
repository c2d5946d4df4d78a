---------------------------- MODULE LoggerProofs ----------------------------
(* The lines of the logger, for any width, buffer sizes and messages. *)
EXTENDS Logger, FiniteSetTheorems, TLAPS

LEMMA ScanLengthBounds ==
  ASSUME TypeOK
  PROVE  /\ Len(rest) \in Nat
         /\ ScanLength \in 0 .. Len(rest) /\ ScanLength <= MAX_CONTENT_WIDTH
         /\ rest # <<>> => ScanLength > 0
<1>1. Len(rest) \in Nat /\ (rest # <<>> => Len(rest) > 0)
  BY DEF TypeOK
<1> QED BY <1>1, LoggerAssumption DEF ScanLength

(* The variables keep their types; the buffer never exceeds its limit. *)
LEMMA TypeStep == TypeOK /\ [Next]_vars => TypeOK'
<1> SUFFICES ASSUME TypeOK, [Next]_vars PROVE TypeOK'
  OBVIOUS
<1>1. CASE LogInit \/ LogStop
  BY <1>1 DEF LogInit, LogStop, callVars, TypeOK
<1>2. CASE \E m \in Messages : Logx(m)
  BY <1>2, LoggerAssumption DEF Logx, TypeOK
<1>3. CASE GrowBuffer
  <2>1. bufsz \in 1 .. LOG_MAX_BUFSZ /\ Len(message) \in Nat
    BY DEF TypeOK
  <2>2. NewSize \in 1 .. LOG_MAX_BUFSZ
    BY <2>1, <1>3, LoggerAssumption DEF GrowBuffer, DoesNotFit, TooLong, NewSize, Larger
  <2> QED BY <2>2, <1>3 DEF GrowBuffer, TypeOK
<1>4. CASE OutOfMemory \/ RefuseTooLong \/ NoLogFile \/ EndOfMessage
  BY <1>4 DEF OutOfMemory, RefuseTooLong, NoLogFile, EndOfMessage, Return, TypeOK
<1>5. CASE StartWriting
  BY <1>5 DEF StartWriting, TypeOK
<1>6. CASE PrintToNewline
  <2>1. PICK i \in FirstNewlines :
          /\ lines' = Append(lines, SubSeq(rest, 1, i - 1))
          /\ rest' = SubSeq(rest, i + 1, Len(rest))
    BY <1>6 DEF PrintToNewline
  <2>2. i \in 1 .. Len(rest)
    BY ScanLengthBounds DEF FirstNewlines
  <2>3. SubSeq(rest, 1, i - 1) \in Seq(Chars) /\ SubSeq(rest, i + 1, Len(rest)) \in Seq(Chars)
    BY <2>2 DEF TypeOK
  <2> QED BY <2>1, <2>3, <1>6 DEF PrintToNewline, TypeOK
<1>7. CASE PrintFullLine
  <2>1. /\ SubSeq(rest, 1, ScanLength) \in Seq(Chars)
        /\ SubSeq(rest, ScanLength + 1, Len(rest)) \in Seq(Chars)
    BY ScanLengthBounds DEF TypeOK
  <2> QED BY <2>1, <1>7 DEF PrintFullLine, TypeOK
<1>8. CASE UNCHANGED vars
  BY <1>8 DEF vars, TypeOK
<1> QED BY <1>1, <1>2, <1>3, <1>4, <1>5, <1>6, <1>7, <1>8 DEF Next, InCall, GoesOn

LEMMA TypeInit == Init => TypeOK
BY LoggerAssumption DEF Init, TypeOK

(* A fitting line more keeps LinesFit. *)
LEMMA OneMoreLine ==
  ASSUME TypeOK, LinesFit, NEW n \in 0 .. Len(rest),
         n <= MAX_CONTENT_WIDTH, \A j \in 1 .. n : rest[j] # NL,
         lines' = Append(lines, SubSeq(rest, 1, n))
  PROVE  LinesFit'
<1> DEFINE l == SubSeq(rest, 1, n)
<1>1. /\ l \in Seq(Chars) /\ Len(l) = n
      /\ \A j \in 1 .. n : l[j] = rest[j]
  BY DEF TypeOK
<1>2. /\ Len(lines) \in Nat /\ DOMAIN lines' = 1 .. Len(lines) + 1
      /\ lines'[Len(lines) + 1] = l
      /\ \A k \in 1 .. Len(lines) : lines'[k] = lines[k]
  BY <1>1 DEF TypeOK
<1>3. DOMAIN lines = 1 .. Len(lines) /\ DOMAIN l = 1 .. n
  BY <1>1 DEF TypeOK
<1>4. ASSUME NEW k \in DOMAIN lines'
      PROVE  /\ Len(lines'[k]) <= MAX_CONTENT_WIDTH
             /\ \A i \in DOMAIN lines'[k] : lines'[k][i] # NL
  <2>1. CASE k \in 1 .. Len(lines)
    BY <2>1, <1>2, <1>3 DEF LinesFit
  <2>2. CASE k = Len(lines) + 1
    BY <2>2, <1>1, <1>2, <1>3
  <2> QED BY <2>1, <2>2, <1>2
<1> QED BY <1>4 DEF LinesFit

(* No line is wider than MAX_CONTENT_WIDTH or holds a newline. *)
THEOREM LinesAlwaysFit == Spec => []LinesFit
<1>1. Init => LinesFit
  BY DEF Init, LinesFit
<1>2. TypeOK /\ LinesFit /\ [Next]_vars => LinesFit'
  <2> SUFFICES ASSUME TypeOK, LinesFit, [Next]_vars PROVE LinesFit'
    OBVIOUS
  <2>1. CASE PrintToNewline
    <3>1. PICK i \in FirstNewlines : lines' = Append(lines, SubSeq(rest, 1, i - 1))
      BY <2>1 DEF PrintToNewline
    <3>2. /\ i - 1 \in 0 .. Len(rest) /\ i - 1 <= MAX_CONTENT_WIDTH
          /\ \A j \in 1 .. i - 1 : rest[j] # NL
      BY ScanLengthBounds, LoggerAssumption DEF FirstNewlines
    <3> QED BY <3>1, <3>2, OneMoreLine
  <2>2. CASE PrintFullLine
    <3>1. \A j \in 1 .. ScanLength : rest[j] # NL
      BY <2>2 DEF PrintFullLine
    <3>2. lines' = Append(lines, SubSeq(rest, 1, ScanLength))
      BY <2>2 DEF PrintFullLine
    <3> QED BY <3>1, <3>2, ScanLengthBounds, OneMoreLine
  <2>3. CASE \E m \in Messages : Logx(m)
    BY <2>3 DEF Logx, LinesFit
  <2>4. CASE lines' = lines
    BY <2>4 DEF LinesFit
  <2>5. CASE LogInit \/ LogStop \/ GrowBuffer \/ OutOfMemory \/ RefuseTooLong
             \/ NoLogFile \/ StartWriting \/ EndOfMessage \/ UNCHANGED vars
    BY <2>5, <2>4 DEF LogInit, LogStop, GrowBuffer, OutOfMemory, RefuseTooLong,
                     NoLogFile, StartWriting, EndOfMessage, callVars, vars
  <2> QED BY <2>1, <2>2, <2>3, <2>5 DEF Next, InCall, GoesOn
<1> QED BY <1>1, <1>2, TypeInit, TypeStep, PTL DEF Spec

(* Each step inside the loops of a call leaves a larger buffer, which has  *)
(* a limit, or less to print: no call runs for ever.                       *)
THEOREM CallsAlwaysProgress == Spec => CallsProgress
<1> DEFINE Step == /\ lpc = "format" /\ lpc' = "format" => bufsz' > bufsz
                   /\ lpc = "wrap" /\ lpc' = "wrap" => Len(rest') < Len(rest)
<1>1. ASSUME TypeOK, Next PROVE Step
  <2> USE <1>1
  <2>1. CASE LogInit \/ LogStop \/ OutOfMemory \/ RefuseTooLong \/ NoLogFile
             \/ EndOfMessage \/ StartWriting \/ \E m \in Messages : Logx(m)
    BY <2>1 DEF LogInit, LogStop, OutOfMemory, RefuseTooLong, NoLogFile, EndOfMessage,
                DoesNotFit, Return, StartWriting, Logx, callVars
  <2>2. CASE GrowBuffer
    <3>1. bufsz \in Nat \ {0} /\ Len(message) \in Nat
      BY LoggerAssumption DEF TypeOK
    <3>2. NewSize > bufsz
      BY <3>1, <2>2 DEF GrowBuffer, DoesNotFit, NewSize, Larger
    <3> QED BY <3>2, <2>2 DEF GrowBuffer, DoesNotFit
  <2>3. CASE PrintToNewline
    <3>1. PICK i \in FirstNewlines : rest' = SubSeq(rest, i + 1, Len(rest))
      BY <2>3 DEF PrintToNewline
    <3>2. i \in 1 .. Len(rest) /\ Len(rest) \in Nat
      BY ScanLengthBounds DEF FirstNewlines
    <3>3. Len(rest') = Len(rest) - i
      BY <3>1, <3>2 DEF TypeOK
    <3> QED BY <3>2, <3>3, <2>3 DEF PrintToNewline
  <2>4. CASE PrintFullLine
    <3>1. ScanLength \in 1 .. Len(rest) /\ Len(rest) \in Nat
      BY ScanLengthBounds, <2>4 DEF PrintFullLine
    <3>2. rest' = SubSeq(rest, ScanLength + 1, Len(rest))
      BY <2>4 DEF PrintFullLine
    <3>3. Len(rest') = Len(rest) - ScanLength
      BY <3>1, <3>2 DEF TypeOK
    <3> QED BY <3>1, <3>3, <2>4 DEF PrintFullLine
  <2> QED BY <1>1, <2>1, <2>2, <2>3, <2>4 DEF Next, InCall, GoesOn
<1>2. TypeOK /\ [Next]_vars => [Step]_vars
  BY <1>1
<1> QED BY <1>2, TypeInit, TypeStep, PTL DEF Spec, CallsProgress

(* The buffer is the one on the stack, or was made large enough at once.   *)
SizeInv == lpc = "format" => bufsz = LOG_INITIAL_BUFSZ \/ bufsz > Len(message)

LEMMA SizeStep == TypeOK /\ SizeInv /\ [Next]_vars => SizeInv'
<1> SUFFICES ASSUME TypeOK, SizeInv, [Next]_vars PROVE SizeInv'
  OBVIOUS
<1>1. CASE GrowBuffer
  <2>1. bufsz \in Nat /\ Len(message) \in Nat
    BY LoggerAssumption DEF TypeOK
  <2>2. NewSize > Len(message)
    BY <2>1 DEF NewSize, Larger
  <2> QED BY <2>2, <1>1 DEF GrowBuffer, SizeInv
<1>2. CASE \E m \in Messages : Logx(m)
  BY <1>2 DEF Logx, SizeInv
<1>3. CASE LogInit \/ LogStop \/ UNCHANGED vars
  BY <1>3 DEF LogInit, LogStop, callVars, vars, SizeInv
<1>4. CASE OutOfMemory \/ RefuseTooLong \/ NoLogFile \/ EndOfMessage
  BY <1>4 DEF OutOfMemory, RefuseTooLong, NoLogFile, EndOfMessage, Return, SizeInv
<1>5. CASE StartWriting \/ PrintToNewline \/ PrintFullLine
  BY <1>5 DEF StartWriting, PrintToNewline, PrintFullLine, SizeInv
<1> QED BY <1>1, <1>2, <1>3, <1>4, <1>5 DEF Next, InCall, GoesOn

(* A message that fits LOG_MAX_BUFSZ bytes with its end is not refused for *)
(* its length (logger.c:35-43).                                            *)
THEOREM OnlyTooLongRefused == Spec => RefusedOnlyIfTooLong
<1>1. Init => SizeInv
  BY DEF Init, SizeInv
<1>2. ASSUME TypeOK, SizeInv, RefuseTooLong PROVE Len(message) + 1 > LOG_MAX_BUFSZ
  <2>1. bufsz \in Nat /\ Len(message) \in Nat
    BY <1>2, LoggerAssumption DEF TypeOK
  <2>2. lpc = "format" /\ Len(message) >= bufsz /\ NewSize > LOG_MAX_BUFSZ
    BY <1>2 DEF RefuseTooLong, DoesNotFit, TooLong
  <2>3. 2 * bufsz <= LOG_MAX_BUFSZ
    BY <1>2, <2>1, <2>2, LoggerAssumption DEF SizeInv
  <2> QED BY <2>1, <2>2, <2>3, LoggerAssumption DEF NewSize, Larger
<1>3. TypeOK /\ SizeInv /\ [Next]_vars
        => [RefuseTooLong => Len(message) + 1 > LOG_MAX_BUFSZ]_vars
  BY <1>2
<1> QED BY <1>1, <1>3, TypeInit, TypeStep, SizeStep, PTL DEF Spec, RefusedOnlyIfTooLong

-----------------------------------------------------------------------------
(* The paragraph of place i begins after the last newline before it.       *)
LEMMA LastNewline ==
  ASSUME NEW s \in Nat, NEW i \in Nat, s < i, s = 0 \/ message[s] = NL,
         \A x \in s + 1 .. i - 1 : message[x] # NL
  PROVE  Offset(i) = i - 1 - s
<1> DEFINE S == {0} \cup Newlines(i)
<1>1. s \in S /\ \A y \in S : y \in Int /\ s >= y
  BY DEF Newlines
<1>2. Max(S) \in S /\ \A y \in S : Max(S) >= y
  BY <1>1 DEF Max
<1> DEFINE m == Max(S)
<1>3. m \in S /\ \A y \in S : m >= y
  BY <1>2
<1> HIDE DEF S, m
<1>4. m \in Int /\ s >= m /\ m >= s
  BY <1>1, <1>3
<1>5. m = s
  BY <1>4
<1> QED BY <1>5 DEF Offset, S, m

(* Columns: a line begins at each multiple of the width.                   *)
LEMMA ColumnInLine ==
  ASSUME NEW W \in Nat \ {0}, NEW a \in Nat, a % W = 0, NEW j \in 0 .. W - 1
  PROVE  (a + j) % W = j
  BY SMT

LEMMA NextMultiple ==
  ASSUME NEW W \in Nat \ {0}, NEW a \in Nat, a % W = 0
  PROVE  (a + W) % W = 0
<1>1. PICK q \in Nat : a = W * q
  BY SMT
<1>2. PICK n \in Nat : a + W = W * n
  <2>1. a + W = W * (q + 1) /\ q + 1 \in Nat
    BY <1>1
  <2> QED BY <2>1
<1>3. (W * n) % W = 0
  BY SMT
<1> QED BY <1>2, <1>3, Zenon

(* write_buffer is at the beginning of a line: at a multiple of the width  *)
(* after a newline or the beginning of the message, and in between there   *)
(* is no newline.                                                          *)
StartsParagraph(s) ==
  /\ s = 0 \/ message[s] = NL
  /\ \A x \in s + 1 .. Printed : message[x] # NL
AtLineStart ==
  \E s \in 0 .. Printed : StartsParagraph(s) /\ (Printed - s) % MAX_CONTENT_WIDTH = 0

(* What write_buffer has still to print is the end of the message, and it  *)
(* stands at the beginning of a line unless all is printed.  Before and    *)
(* after it, only a call that returned 0 has printed anything.             *)
WrapInv ==
  /\ lpc = "wrap" =>
       /\ result = "none"
       /\ Len(rest) <= Len(message)
       /\ \A j \in 1 .. Len(rest) : rest[j] = message[Printed + j]
       /\ rest # <<>> => AtLineStart
  /\ lpc = "format" => result = "none"

LEMMA Lengths ==
  ASSUME TypeOK, WrapInv
  PROVE  /\ Len(message) \in Nat /\ Len(rest) \in Nat /\ Len(lines) \in Nat
         /\ Printed \in 0 .. Len(message)
         /\ lpc = "wrap" => Printed = Len(message) - Len(rest)
<1>1. Len(message) \in Nat /\ Len(rest) \in Nat /\ Len(lines) \in Nat
  BY DEF TypeOK
<1> QED BY <1>1 DEF Printed, WrapInv

LEMMA LineStartsFinite ==
  ASSUME NEW i \in Nat
  PROVE  IsFiniteSet(LineStarts(i)) /\ LineOf(i) \in Nat
<1>1. IsFiniteSet(1 .. i)
  BY FS_Interval
<1>2. LineStarts(i) \subseteq 1 .. i
  BY DEF LineStarts
<1> QED BY <1>1, <1>2, FS_Subset, FS_CardinalityType DEF LineOf

(* The next line: its characters stand in it, one column after the other.  *)
LEMMA NextLine ==
  ASSUME TypeOK, WrapInv, lpc = "wrap", rest # <<>>, NEW m \in 1 .. Len(rest),
         m <= MAX_CONTENT_WIDTH, \A x \in 1 .. m - 1 : rest[x] # NL
  PROVE  \A j \in 1 .. m : LineOf(Printed + j) = LineOf(Printed) + 1 /\ ColumnOf(Printed + j) = j
<1>1. /\ Printed \in Nat /\ Len(rest) \in Nat /\ MAX_CONTENT_WIDTH \in Nat \ {0} /\ m \in Nat
      /\ \A x \in 1 .. m - 1 : message[Printed + x] # NL
  <2>1. /\ Printed \in Nat /\ Len(rest) \in Nat /\ MAX_CONTENT_WIDTH \in Nat \ {0} /\ m \in Nat
    BY Lengths, LoggerAssumption
  <2>2. \A x \in 1 .. m - 1 : x \in 1 .. Len(rest)
    BY <2>1
  <2>3. \A x \in 1 .. Len(rest) : rest[x] = message[Printed + x]
    BY DEF WrapInv
  <2> QED BY <2>1, <2>2, <2>3
<1>2. PICK s \in 0 .. Printed : StartsParagraph(s) /\ (Printed - s) % MAX_CONTENT_WIDTH = 0
  BY DEF WrapInv, AtLineStart
<1> DEFINE a == Printed - s
<1>3. a \in Nat /\ a % MAX_CONTENT_WIDTH = 0
  BY <1>1, <1>2
<1>4. ASSUME NEW j \in 1 .. m
      PROVE  Offset(Printed + j) = a + (j - 1)
  <2>1. s \in Nat /\ Printed + j \in Nat /\ s < Printed + j
    BY <1>1
  <2>2. ASSUME NEW x \in s + 1 .. (Printed + j) - 1 PROVE message[x] # NL
    <3>1. CASE x <= Printed
      BY <3>1, <1>1, <1>2 DEF StartsParagraph
    <3>2. CASE x > Printed
      <4>1. x - Printed \in 1 .. m - 1 /\ Printed + (x - Printed) = x
        BY <3>2, <1>1
      <4> QED BY <4>1, <1>1
    <3> QED BY <3>1, <3>2, <1>1
  <2>3. Offset(Printed + j) = (Printed + j) - 1 - s
    BY <2>1, <2>2, <1>2, LastNewline DEF StartsParagraph
  <2> QED BY <2>3, <1>1
<1> HIDE DEF a
<1>5. ASSUME NEW j \in 1 .. m
      PROVE  Offset(Printed + j) % MAX_CONTENT_WIDTH = j - 1
  <2>1. j - 1 \in 0 .. MAX_CONTENT_WIDTH - 1
    BY <1>1
  <2>2. (a + (j - 1)) % MAX_CONTENT_WIDTH = j - 1
    BY <1>1, <1>3, <2>1, ColumnInLine
  <2> QED BY <1>4, <2>2
<1>6. ASSUME NEW j \in 1 .. m
      PROVE  LineStarts(Printed + j) = LineStarts(Printed) \cup {Printed + 1}
  <2>1. ASSUME NEW x \in 1 .. Printed + j
        PROVE  x \in LineStarts(Printed + j) <=> x \in LineStarts(Printed) \cup {Printed + 1}
    <3>1. CASE x <= Printed
      BY <3>1, <1>1 DEF LineStarts
    <3>2. CASE x > Printed
      <4>1. x - Printed \in 1 .. m /\ Printed + (x - Printed) = x
        BY <3>2, <1>1
      <4>2. Offset(x) % MAX_CONTENT_WIDTH = (x - Printed) - 1
        BY <4>1, <1>5
      <4>3. (x - Printed) - 1 = 0 <=> x = Printed + 1
        BY <1>1
      <4>4. x \in LineStarts(Printed + j) <=> x = Printed + 1
        BY <4>2, <4>3 DEF LineStarts
      <4>5. x \notin LineStarts(Printed)
        BY <3>2, <1>1 DEF LineStarts
      <4> QED BY <4>4, <4>5
    <3> QED BY <3>1, <3>2, <1>1
  <2>2. /\ LineStarts(Printed + j) \subseteq 1 .. Printed + j
        /\ LineStarts(Printed) \cup {Printed + 1} \subseteq 1 .. Printed + j
    BY <1>1 DEF LineStarts
  <2> QED BY <2>1, <2>2
<1>7. LineOf(Printed) + 1 = Cardinality(LineStarts(Printed) \cup {Printed + 1})
  <2>1. Printed + 1 \notin LineStarts(Printed)
    BY <1>1 DEF LineStarts
  <2> QED BY <2>1, <1>1, LineStartsFinite, FS_AddElement DEF LineOf
<1>8. ASSUME NEW j \in 1 .. m
      PROVE  LineOf(Printed + j) = LineOf(Printed) + 1 /\ ColumnOf(Printed + j) = j
  <2>1. ColumnOf(Printed + j) = 1 + (j - 1)
    BY <1>5 DEF ColumnOf
  <2>2. ColumnOf(Printed + j) = j
    BY <2>1, <1>1
  <2>3. LineOf(Printed + j) = LineOf(Printed) + 1
    BY <1>6, <1>7 DEF LineOf
  <2> QED BY <2>2, <2>3
<1> QED BY <1>8

(* The definitions that look at the message alone. *)
LEMMA SameMessage ==
  ASSUME message' = message
  PROVE  \A i : LineOf(i)' = LineOf(i) /\ ColumnOf(i)' = ColumnOf(i)
<1>1. \A i : Offset(i)' = Offset(i)
  BY DEF Offset, Newlines
<1> QED BY <1>1 DEF LineOf, LineStarts, ColumnOf

(* A line is printed: n characters of rest, and the newline after them if  *)
(* there is one.                                                           *)
LinePrinted(m, n) ==
  /\ rest # <<>> /\ m \in 1 .. Len(rest) /\ m <= MAX_CONTENT_WIDTH
  /\ \A x \in 1 .. m - 1 : rest[x] # NL
  /\ \/ n = m /\ rest[m] # NL
     \/ n = m - 1 /\ rest[m] = NL
  /\ lines' = Append(lines, SubSeq(rest, 1, n))
  /\ rest' = SubSeq(rest, m + 1, Len(rest))
  /\ lpc = "wrap" /\ UNCHANGED <<lpc, message, result>>

LEMMA PrintedAdvances ==
  ASSUME TypeOK, WrapInv, NEW m, NEW n, LinePrinted(m, n)
  PROVE  /\ m \in Nat /\ n \in 0 .. m /\ m <= Len(rest) /\ m > 0
         /\ Printed' = Printed + m
         /\ Len(rest') = Len(rest) - m /\ Len(rest') \in Nat
         /\ \A j \in 1 .. Len(rest') : rest'[j] = rest[m + j]
         /\ \A j \in 1 .. m : message[Printed + j] = rest[j]
<1>1. /\ Len(rest) \in Nat /\ m \in 1 .. Len(rest)
      /\ lpc = "wrap" /\ lpc' = "wrap" /\ message' = message
      /\ n = m \/ n = m - 1
  BY Lengths DEF LinePrinted
<1>2. rest' = SubSeq(rest, m + 1, Len(rest))
  BY DEF LinePrinted
<1>3. /\ Len(rest') = Len(rest) - m
      /\ \A j \in 1 .. Len(rest') : rest'[j] = rest[m + j]
  BY <1>1, <1>2 DEF TypeOK
<1>4. Printed' = Printed + m
  BY <1>1, <1>3, Lengths DEF Printed
<1>5. \A j \in 1 .. m : message[Printed + j] = rest[j]
  BY <1>1 DEF WrapInv
<1> QED BY <1>1, <1>3, <1>4, <1>5

LEMMA LineKeepsWrap ==
  ASSUME TypeOK, WrapInv, NEW m, NEW n, LinePrinted(m, n),
         n = m => m = MAX_CONTENT_WIDTH \/ m = Len(rest)
  PROVE  WrapInv'
<1>1. /\ m \in Nat /\ n \in 0 .. m /\ m <= Len(rest) /\ m > 0
      /\ Printed' = Printed + m
      /\ Len(rest') = Len(rest) - m /\ Len(rest') \in Nat
      /\ \A j \in 1 .. Len(rest') : rest'[j] = rest[m + j]
      /\ \A j \in 1 .. m : message[Printed + j] = rest[j]
  BY PrintedAdvances
<1>2. /\ lpc = "wrap" /\ lpc' = "wrap" /\ message' = message /\ result' = result
      /\ rest # <<>> /\ \A x \in 1 .. m - 1 : rest[x] # NL
      /\ \/ n = m /\ rest[m] # NL
         \/ n = m - 1 /\ rest[m] = NL
  BY DEF LinePrinted
<1>3. /\ Printed \in Nat /\ Len(rest) \in Nat /\ Len(message) \in Nat
      /\ Len(rest) <= Len(message) /\ result = "none"
      /\ \A j \in 1 .. Len(rest) : rest[j] = message[Printed + j]
  BY <1>2, Lengths DEF WrapInv
<1>4. \A j \in 1 .. Len(rest') : rest'[j] = message'[Printed' + j]
  <2> SUFFICES ASSUME NEW j \in 1 .. Len(rest') PROVE rest'[j] = message[Printed' + j]
    BY <1>2
  <2>1. m + j \in 1 .. Len(rest) /\ Printed + (m + j) = Printed' + j
    BY <1>1, <1>3
  <2> QED BY <2>1, <1>1, <1>3
<1>5. ASSUME rest' # <<>> PROVE AtLineStart'
  <2>1. MAX_CONTENT_WIDTH \in Nat \ {0}
    BY LoggerAssumption
  <2>2. CASE n = m - 1
    <3>1. message'[Printed'] = NL
      BY <2>2, <1>1, <1>2
    <3>2. Printed' \in 0 .. Printed' /\ \A x \in Printed' + 1 .. Printed' : message'[x] # NL
      BY <1>1, <1>3
    <3>3. (Printed' - Printed') % MAX_CONTENT_WIDTH = 0
      <4>1. Printed' - Printed' = 0
        BY <1>1, <1>3
      <4>2. 0 % MAX_CONTENT_WIDTH = 0
        BY <2>1
      <4> QED BY <4>1, <4>2
    <3> QED BY <3>1, <3>2, <3>3 DEF AtLineStart, StartsParagraph
  <2>3. CASE n = m
    <3>1. Len(rest') # 0
      BY <1>5 DEF TypeOK
    <3>2. m = MAX_CONTENT_WIDTH
      BY <2>3, <3>1, <1>1
    <3>3. \A x \in 1 .. m : rest[x] # NL
      BY <2>3, <1>1, <1>2
    <3>4. PICK s \in 0 .. Printed : StartsParagraph(s) /\ (Printed - s) % MAX_CONTENT_WIDTH = 0
      BY <1>2 DEF WrapInv, AtLineStart
    <3>5. ASSUME NEW x \in s + 1 .. Printed + m PROVE message[x] # NL
      <4>1. CASE x <= Printed
        BY <4>1, <3>4, <1>3 DEF StartsParagraph
      <4>2. CASE x > Printed
        <5>1. x - Printed \in 1 .. m /\ Printed + (x - Printed) = x
          BY <4>2, <1>1, <1>3
        <5> QED BY <5>1, <3>3, <1>1
      <4> QED BY <4>1, <4>2, <1>3
    <3>6. StartsParagraph(s)' /\ s \in 0 .. Printed'
      <4>1. s = 0 \/ message'[s] = NL
        BY <3>4, <1>2 DEF StartsParagraph
      <4>2. \A x \in s + 1 .. Printed' : message'[x] # NL
        BY <3>5, <1>1, <1>2
      <4>3. s \in 0 .. Printed'
        BY <1>1, <1>3
      <4> QED BY <4>1, <4>2, <4>3 DEF StartsParagraph
    <3>7. (Printed' - s) % MAX_CONTENT_WIDTH = 0
      <4> DEFINE a == Printed - s
      <4>1. a \in Nat /\ a % MAX_CONTENT_WIDTH = 0 /\ Printed' - s = a + MAX_CONTENT_WIDTH
        <5>1. a \in Nat /\ Printed' - s = a + MAX_CONTENT_WIDTH
          BY <2>1, <3>2, <1>1, <1>3
        <5> QED BY <5>1, <3>4
      <4> HIDE DEF a
      <4> QED BY <4>1, <2>1, NextMultiple
    <3> QED BY <3>6, <3>7 DEF AtLineStart
  <2> QED BY <2>2, <2>3, <1>2
<1>6. Len(rest') <= Len(message')
  BY <1>1, <1>2, <1>3
<1> QED BY <1>2, <1>3, <1>4, <1>5, <1>6 DEF WrapInv

LEMMA LineFollows ==
  ASSUME TypeOK, WrapInv, LinesFollowMessage, NEW m, NEW n, LinePrinted(m, n)
  PROVE  LinesFollowMessage'
<1>1. /\ m \in Nat /\ n \in 0 .. m /\ m <= Len(rest) /\ m > 0
      /\ Printed' = Printed + m
      /\ \A j \in 1 .. m : message[Printed + j] = rest[j]
  BY PrintedAdvances
<1>2. /\ Printed \in Nat /\ Len(rest) \in Nat /\ Len(lines) \in Nat
  BY Lengths
<1>3. /\ message' = message
      /\ \A x \in 1 .. n : rest[x] # NL
      /\ n = m \/ (n = m - 1 /\ rest[m] = NL)
  BY <1>1 DEF LinePrinted
<1>4. \A j \in 1 .. m : LineOf(Printed + j) = LineOf(Printed) + 1 /\ ColumnOf(Printed + j) = j
  BY NextLine DEF LinePrinted
<1>5. Len(lines) = LineOf(Printed)
  BY DEF LinesFollowMessage
<1> DEFINE l == SubSeq(rest, 1, n)
<1>6. /\ lines' = Append(lines, l) /\ l \in Seq(Chars)
      /\ DOMAIN l = 1 .. n /\ \A j \in 1 .. n : l[j] = rest[j]
  BY <1>1, <1>2 DEF LinePrinted, TypeOK
<1> HIDE DEF l
<1>7. /\ DOMAIN lines = 1 .. Len(lines)
      /\ DOMAIN lines' = 1 .. Len(lines) + 1 /\ Len(lines') = Len(lines) + 1
      /\ lines'[Len(lines) + 1] = l
      /\ \A k \in 1 .. Len(lines) : lines'[k] = lines[k]
  BY <1>6 DEF TypeOK
<1>8. /\ Text \subseteq Text'
      /\ \A j \in 1 .. n : Printed + j \in Text'
      /\ \A i \in Text' \ Text : i - Printed \in 1 .. n /\ Printed + (i - Printed) = i
  <2>1. Text' = {i \in 1 .. Printed + m : message[i] # NL}
    BY <1>1, <1>3 DEF Text
  <2>2. Text \subseteq Text' /\ \A j \in 1 .. n : Printed + j \in Text'
    BY <2>1, <1>1, <1>2, <1>3 DEF Text
  <2>3. ASSUME NEW i \in Text' \ Text PROVE i - Printed \in 1 .. n /\ Printed + (i - Printed) = i
    <3>1. i \in 1 .. Printed + m /\ message[i] # NL /\ i > Printed
      BY <2>1, <1>1, <1>2 DEF Text
    <3>2. i - Printed \in 1 .. m /\ Printed + (i - Printed) = i
      BY <3>1, <1>1, <1>2
    <3>3. rest[i - Printed] # NL
      BY <3>1, <3>2, <1>1
    <3> QED BY <3>2, <3>3, <1>1, <1>3
  <2> QED BY <2>2, <2>3
<1>9. \A i \in Text' : /\ LineOf(i) \in DOMAIN lines' /\ ColumnOf(i) \in DOMAIN lines'[LineOf(i)]
                       /\ lines'[LineOf(i)][ColumnOf(i)] = message[i]
  <2>1. ASSUME NEW i \in Text
        PROVE  /\ LineOf(i) \in DOMAIN lines' /\ ColumnOf(i) \in DOMAIN lines'[LineOf(i)]
               /\ lines'[LineOf(i)][ColumnOf(i)] = message[i]
    <3>1. /\ LineOf(i) \in DOMAIN lines /\ ColumnOf(i) \in DOMAIN lines[LineOf(i)]
          /\ lines[LineOf(i)][ColumnOf(i)] = message[i]
      BY DEF LinesFollowMessage
    <3>2. LineOf(i) \in DOMAIN lines' /\ lines'[LineOf(i)] = lines[LineOf(i)]
      BY <3>1, <1>2, <1>7
    <3> QED BY <3>1, <3>2
  <2>2. ASSUME NEW i \in Text' \ Text
        PROVE  /\ LineOf(i) \in DOMAIN lines' /\ ColumnOf(i) \in DOMAIN lines'[LineOf(i)]
               /\ lines'[LineOf(i)][ColumnOf(i)] = message[i]
    <3>1. PICK j \in 1 .. n : i = Printed + j
      BY <1>8
    <3>2. j \in 1 .. m
      BY <1>1
    <3>3. LineOf(i) = Len(lines) + 1 /\ ColumnOf(i) = j /\ message[i] = rest[j]
      BY <3>1, <3>2, <1>1, <1>4, <1>5
    <3> QED BY <3>3, <1>2, <1>6, <1>7
  <2> QED BY <2>1, <2>2
<1>10. \A k \in DOMAIN lines' : \A c \in DOMAIN lines'[k] :
         \E i \in Text' : LineOf(i) = k /\ ColumnOf(i) = c
  <2>1. ASSUME NEW k \in 1 .. Len(lines), NEW c \in DOMAIN lines'[k]
        PROVE  \E i \in Text' : LineOf(i) = k /\ ColumnOf(i) = c
    <3>1. \E i \in Text : LineOf(i) = k /\ ColumnOf(i) = c
      BY <1>7 DEF LinesFollowMessage
    <3> QED BY <3>1, <1>8
  <2>2. ASSUME NEW c \in DOMAIN lines'[Len(lines) + 1]
        PROVE  \E i \in Text' : LineOf(i) = Len(lines) + 1 /\ ColumnOf(i) = c
    <3>1. c \in 1 .. n /\ c \in 1 .. m
      BY <1>1, <1>6, <1>7
    <3>2. LineOf(Printed + c) = Len(lines) + 1 /\ ColumnOf(Printed + c) = c
      BY <3>1, <1>4, <1>5
    <3> QED BY <3>1, <3>2, <1>8
  <2> QED BY <2>1, <2>2, <1>2, <1>7
<1>11. Len(lines') = LineOf(Printed')
  <2>1. m \in 1 .. m
    BY <1>1
  <2> QED BY <2>1, <1>1, <1>4, <1>5, <1>7
<1> QED BY <1>3, <1>9, <1>10, <1>11, SameMessage DEF LinesFollowMessage

LEMMA InitFollows == Init => WrapInv /\ LinesFollowMessage
<1> SUFFICES ASSUME Init PROVE WrapInv /\ LinesFollowMessage
  OBVIOUS
<1>1. Printed = 0 /\ lines = <<>> /\ lpc = "idle"
  BY DEF Init, Printed
<1>2. LineOf(0) = 0
  <2>1. LineStarts(0) = {}
    BY DEF LineStarts
  <2> QED BY <2>1, FS_EmptySet DEF LineOf
<1>3. Text = {}
  BY <1>1 DEF Text
<1> QED BY <1>1, <1>2, <1>3 DEF WrapInv, LinesFollowMessage

(* The steps that print nothing, one group for each way Printed may change. *)
LEMMA NothingPrinted ==
  ASSUME LinesFollowMessage, message' = message, lines' = lines, Printed' = Printed
  PROVE  LinesFollowMessage'
<1>1. Text' = Text
  BY DEF Text
<1> QED BY <1>1, SameMessage DEF LinesFollowMessage

LEMMA NoLines ==
  ASSUME lines' = <<>>, Printed' = 0
  PROVE  LinesFollowMessage'
<1>1. LineOf(0)' = 0
  <2>1. LineStarts(0)' = {}
    BY DEF LineStarts
  <2> QED BY <2>1, FS_EmptySet DEF LineOf
<1>2. Text' = {}
  BY DEF Text
<1> QED BY <1>1, <1>2 DEF LinesFollowMessage

LEMMA NextFollows ==
  TypeOK /\ WrapInv /\ LinesFollowMessage /\ [Next]_vars => (WrapInv /\ LinesFollowMessage)'
<1> SUFFICES ASSUME TypeOK, WrapInv, LinesFollowMessage, [Next]_vars
             PROVE  WrapInv' /\ LinesFollowMessage'
  OBVIOUS
<1>l. Len(message) \in Nat /\ Len(rest) \in Nat
  BY Lengths
<1>1. CASE LogInit \/ LogStop \/ GrowBuffer \/ UNCHANGED vars
  <2>1. /\ UNCHANGED <<lpc, message, rest, lines, result>>
    BY <1>1 DEF LogInit, LogStop, GrowBuffer, callVars, vars
  <2>2. Printed' = Printed
    BY <2>1 DEF Printed
  <2>3. AtLineStart' = AtLineStart
    BY <2>1, <2>2 DEF AtLineStart, StartsParagraph
  <2> QED BY <2>1, <2>2, <2>3, NothingPrinted DEF WrapInv
<1>2. CASE \E m \in Messages : Logx(m)
  <2>1. lines' = <<>> /\ lpc' = "format" /\ result' = "none"
    BY <1>2 DEF Logx
  <2> QED BY <2>1, NoLines DEF WrapInv, Printed
<1>3. CASE OutOfMemory \/ RefuseTooLong \/ NoLogFile
  <2>1. /\ lpc = "format" /\ lpc' = "idle" /\ result' = "error"
        /\ message' = message /\ lines' = lines
    BY <1>3 DEF OutOfMemory, RefuseTooLong, NoLogFile, DoesNotFit, Return
  <2>2. Printed = 0 /\ Printed' = 0
    BY <2>1 DEF WrapInv, Printed
  <2> QED BY <2>1, <2>2, NothingPrinted DEF WrapInv
<1>4. CASE StartWriting
  <2>1. /\ lpc = "format" /\ lpc' = "wrap" /\ result' = result /\ result = "none"
        /\ message' = message /\ lines' = lines /\ rest' = message
    BY <1>4 DEF StartWriting, WrapInv
  <2>2. Printed = 0 /\ Printed' = 0
    BY <1>l, <2>1 DEF Printed
  <2>3. AtLineStart'
    <3>1. 0 % MAX_CONTENT_WIDTH = 0
      BY LoggerAssumption
    <3>2. 0 \in 0 .. Printed' /\ (Printed' - 0) % MAX_CONTENT_WIDTH = 0
      BY <2>2, <3>1
    <3>3. \A x \in 0 + 1 .. Printed' : message'[x] # NL
      BY <2>2
    <3> QED BY <3>2, <3>3 DEF AtLineStart, StartsParagraph
  <2>4. \A j \in 1 .. Len(rest') : rest'[j] = message'[Printed' + j]
    BY <1>l, <2>1, <2>2
  <2>5. Len(rest') <= Len(message')
    BY <1>l, <2>1
  <2> QED BY <2>1, <2>2, <2>3, <2>4, <2>5, NothingPrinted DEF WrapInv
<1>5. CASE PrintToNewline
  <2>1. PICK i \in FirstNewlines :
          /\ lines' = Append(lines, SubSeq(rest, 1, i - 1))
          /\ rest' = SubSeq(rest, i + 1, Len(rest))
    BY <1>5 DEF PrintToNewline
  <2>2. /\ i \in 1 .. Len(rest) /\ i <= MAX_CONTENT_WIDTH
        /\ rest[i] = NL /\ \A x \in 1 .. i - 1 : rest[x] # NL
    BY <1>l, ScanLengthBounds, LoggerAssumption DEF FirstNewlines
  <2>3. rest # <<>>
    BY <2>2
  <2>4. LinePrinted(i, i - 1)
    BY <2>1, <2>2, <2>3, <1>5 DEF LinePrinted, PrintToNewline
  <2>5. i - 1 # i
    BY <2>2
  <2> QED BY <2>4, <2>5, LineKeepsWrap, LineFollows
<1>6. CASE PrintFullLine
  <2> DEFINE n == ScanLength
  <2>1. /\ n \in 1 .. Len(rest) /\ n <= MAX_CONTENT_WIDTH /\ rest # <<>>
        /\ \A x \in 1 .. n : rest[x] # NL
        /\ n = MAX_CONTENT_WIDTH \/ n = Len(rest)
    BY <1>6, <1>l, ScanLengthBounds, LoggerAssumption DEF PrintFullLine, ScanLength
  <2>2. /\ lines' = Append(lines, SubSeq(rest, 1, n))
        /\ rest' = SubSeq(rest, n + 1, Len(rest))
        /\ lpc = "wrap" /\ UNCHANGED <<lpc, message, result>>
    BY <1>6 DEF PrintFullLine
  <2> HIDE DEF n
  <2>3. rest[n] # NL /\ \A x \in 1 .. n - 1 : rest[x] # NL
    BY <2>1
  <2>4. LinePrinted(n, n)
    BY <2>1, <2>2, <2>3 DEF LinePrinted
  <2> QED BY <2>1, <2>4, LineKeepsWrap, LineFollows
<1>7. CASE EndOfMessage
  <2>1. /\ lpc = "wrap" /\ rest = <<>> /\ lpc' = "idle" /\ result' = "ok"
        /\ message' = message /\ lines' = lines
    BY <1>7 DEF EndOfMessage, Return
  <2>2. Printed = Len(message) /\ Printed' = Len(message)
    BY <1>l, <2>1 DEF Printed
  <2> QED BY <2>1, <2>2, NothingPrinted DEF WrapInv
<1> QED BY <1>1, <1>2, <1>3, <1>4, <1>5, <1>6, <1>7 DEF Next, InCall, GoesOn

(* Every character of a message is printed once, in the line and the       *)
(* column that wrapping gives it, and a call that returns 0 has printed    *)
(* them all (logger.c:171-207).                                            *)
THEOREM LinesFollow == Spec => []LinesFollowMessage
  BY InitFollows, NextFollows, TypeInit, TypeStep, PTL DEF Spec
=============================================================================
