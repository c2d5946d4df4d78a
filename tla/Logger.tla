------------------------------- MODULE Logger -------------------------------
(***************************************************************************)
(* The logger (logger.c): log_init, log_stop and one call of logx, which   *)
(* formats a message into a buffer that grows and prints it in lines of at *)
(* most MAX_CONTENT_WIDTH characters.  log_init and log_stop are called    *)
(* once each, as the director does; logx and its variants are what the     *)
(* header offers in between.  The message of the DEBUGLOG builds and the   *)
(* prefix of each line are left out.                                       *)
(***************************************************************************)
EXTENDS Integers, Sequences, FiniteSets, FiniteSetsExt

CONSTANTS
  Chars,              (* the characters                                    *)
  Messages,           (* formatted messages: sequences of characters       *)
  NL,                 (* the newline character                             *)
  MAX_CONTENT_WIDTH,  (* characters of a line (80)                         *)
  LOG_INITIAL_BUFSZ,  (* bytes of the buffer on the stack (256)            *)
  LOG_MAX_BUFSZ       (* bytes a buffer may grow to (2^20)                 *)

ASSUME LoggerAssumption ==
  /\ Messages \subseteq Seq(Chars)
  /\ MAX_CONTENT_WIDTH \in Nat \ {0}
  /\ LOG_INITIAL_BUFSZ \in Nat \ {0}
  /\ LOG_MAX_BUFSZ \in Nat /\ 2 * LOG_INITIAL_BUFSZ <= LOG_MAX_BUFSZ

VARIABLES
  fp,       (* the log file: "unset", "null" after a failed log_init,      *)
            (* "open", "closed", "undefined" after fclose(NULL)            *)
  lpc,      (* inside which loop the call of logx is                       *)
  message,  (* what vsnprintf makes of the arguments                       *)
  bufsz,    (* size of the buffer                                          *)
  rest,     (* p and rem of write_buffer: what is still to be printed      *)
  lines,    (* the lines printed for this message                          *)
  result    (* what the last call returned                                 *)

vars == <<fp, lpc, message, bufsz, rest, lines, result>>

TypeOK ==
  /\ fp \in {"unset", "null", "open", "closed", "undefined"}
  /\ lpc \in {"idle", "format", "wrap"}
  /\ message \in Seq(Chars) /\ rest \in Seq(Chars) /\ lines \in Seq(Seq(Chars))
  /\ bufsz \in 1 .. LOG_MAX_BUFSZ
  /\ result \in {"none", "ok", "error"}

Init ==
  /\ fp = "unset"
  /\ lpc = "idle"
  /\ message = <<>>
  /\ bufsz = LOG_INITIAL_BUFSZ
  /\ rest = <<>>
  /\ lines = <<>>
  /\ result = "none"

callVars == <<lpc, message, bufsz, rest, lines, result>>

(* fopen may fail; the director does not look at the result. *)
LogInit ==
  /\ lpc = "idle" /\ fp = "unset"
  /\ fp' \in {"open", "null"}
  /\ UNCHANGED callVars

(* fclose(fp), whatever fp is. *)
LogStop ==
  /\ lpc = "idle" /\ fp \in {"open", "null"}
  /\ fp' = IF fp = "open" THEN "closed" ELSE "undefined"
  /\ UNCHANGED callVars

-----------------------------------------------------------------------------
(* vlogx_impl *)

Logx(m) ==
  /\ lpc = "idle" /\ fp \in {"open", "null"}
  /\ lpc' = "format"
  /\ message' = m
  /\ bufsz' = LOG_INITIAL_BUFSZ
  /\ lines' = <<>>
  /\ result' = "none"
  /\ UNCHANGED <<fp, rest>>

Return(rc) == lpc' = "idle" /\ result' = rc

Larger(m, n) == IF m > n THEN m ELSE n
NewSize == Larger(2 * bufsz, Len(message) + 1)
DoesNotFit == lpc = "format" /\ Len(message) >= bufsz

(* Mutant: >= for >. *)
TooLongAtTheLimit == NewSize >= LOG_MAX_BUFSZ

TooLong == NewSize > LOG_MAX_BUFSZ

(* Mutant: the new buffer is there, its size is not noted. *)
GrowBufferKeepsSize ==
  /\ DoesNotFit /\ ~TooLong
  /\ UNCHANGED vars

(* vsnprintf did not fit: once more, with a larger buffer. *)
GrowBuffer ==
  /\ DoesNotFit /\ ~TooLong
  /\ bufsz' = NewSize
  /\ UNCHANGED <<fp, lpc, message, rest, lines, result>>

OutOfMemory ==
  /\ DoesNotFit /\ ~TooLong
  /\ Return("error")
  /\ UNCHANGED <<fp, message, bufsz, rest, lines>>

RefuseTooLong ==
  /\ DoesNotFit /\ TooLong
  /\ Return("error")
  /\ UNCHANGED <<fp, message, bufsz, rest, lines>>

NoLogFile ==
  /\ lpc = "format" /\ Len(message) < bufsz
  /\ fp = "null"
  /\ Return("error")
  /\ UNCHANGED <<fp, message, bufsz, rest, lines>>

-----------------------------------------------------------------------------
(* write_buffer *)

(* The buffer holds the whole message. *)
StartWriting ==
  /\ lpc = "format" /\ Len(message) < bufsz
  /\ fp = "open"
  /\ lpc' = "wrap"
  /\ rest' = message
  /\ UNCHANGED <<fp, message, bufsz, lines, result>>

(* Mutant: the characters up to the width and the one after it. *)
ScanLengthOneMore ==
  IF Len(rest) <= MAX_CONTENT_WIDTH THEN Len(rest) ELSE MAX_CONTENT_WIDTH + 1

(* The part of rest that memchr scans, and the first newline it finds. *)
ScanLength == IF Len(rest) < MAX_CONTENT_WIDTH THEN Len(rest) ELSE MAX_CONTENT_WIDTH
FirstNewlines ==
  {i \in 1 .. ScanLength : rest[i] = NL /\ \A j \in 1 .. i - 1 : rest[j] # NL}

(* Mutant: the newline itself is not passed over. *)
PrintUpToNewline ==
  /\ lpc = "wrap"
  /\ \E i \in FirstNewlines :
       /\ lines' = Append(lines, SubSeq(rest, 1, i - 1))
       /\ rest' = SubSeq(rest, i, Len(rest))
  /\ UNCHANGED <<fp, lpc, message, bufsz, result>>

PrintToNewline ==
  /\ lpc = "wrap"
  /\ \E i \in FirstNewlines :
       /\ lines' = Append(lines, SubSeq(rest, 1, i - 1))
       /\ rest' = SubSeq(rest, i + 1, Len(rest))
  /\ UNCHANGED <<fp, lpc, message, bufsz, result>>

(* Mutant: the character at the cut is taken for the newline. *)
PrintFullLineAndSkip ==
  /\ lpc = "wrap" /\ rest # <<>>
  /\ \A i \in 1 .. ScanLength : rest[i] # NL
  /\ lines' = Append(lines, SubSeq(rest, 1, ScanLength))
  /\ rest' = SubSeq(rest, ScanLength + 2, Len(rest))
  /\ UNCHANGED <<fp, lpc, message, bufsz, result>>

PrintFullLine ==
  /\ lpc = "wrap" /\ rest # <<>>
  /\ \A i \in 1 .. ScanLength : rest[i] # NL
  /\ lines' = Append(lines, SubSeq(rest, 1, ScanLength))
  /\ rest' = SubSeq(rest, ScanLength + 1, Len(rest))
  /\ UNCHANGED <<fp, lpc, message, bufsz, result>>

EndOfMessage ==
  /\ lpc = "wrap" /\ rest = <<>>
  /\ Return("ok")
  /\ UNCHANGED <<fp, message, bufsz, rest, lines>>

GoesOn ==
  \/ GrowBuffer \/ RefuseTooLong \/ NoLogFile
  \/ StartWriting \/ PrintToNewline \/ PrintFullLine \/ EndOfMessage

InCall == GoesOn \/ OutOfMemory

Next == LogInit \/ LogStop \/ (\E m \in Messages : Logx(m)) \/ InCall

Spec == Init /\ [][Next]_vars

(* A call that has begun goes on; nothing obliges malloc to fail. *)
FairSpec == Spec /\ WF_vars(GoesOn)

-----------------------------------------------------------------------------
(* Every line fits the width and holds no newline. *)
LinesFit ==
  \A n \in DOMAIN lines :
    /\ Len(lines[n]) <= MAX_CONTENT_WIDTH
    /\ \A i \in DOMAIN lines[n] : lines[n][i] # NL

(* Where a character of the message belongs, by the definition of line     *)
(* wrapping: its paragraph ends at a newline, and a paragraph is cut every *)
(* MAX_CONTENT_WIDTH characters.  Offset is its distance from the start of *)
(* its paragraph.  A newline may stand at a cut: it then has a line of its *)
(* own, with nothing to print.                                             *)
Newlines(i) == {j \in 1 .. i - 1 : message[j] = NL}
Offset(i) == i - 1 - Max({0} \cup Newlines(i))
LineStarts(i) == {j \in 1 .. i : Offset(j) % MAX_CONTENT_WIDTH = 0}
LineOf(i) == Cardinality(LineStarts(i))
ColumnOf(i) == 1 + (Offset(i) % MAX_CONTENT_WIDTH)

(* What has been printed at any time is the message up to the place        *)
(* write_buffer has reached, wrapped: every character in its line and      *)
(* column, and nothing else.  A call that returns 0 has printed it all,    *)
(* one that fails nothing.                                                 *)
Printed == IF lpc = "wrap" THEN Len(message) - Len(rest)
           ELSE IF result = "ok" THEN Len(message) ELSE 0
Text == {i \in 1 .. Printed : message[i] # NL}
LinesFollowMessage ==
  /\ \A i \in Text :
       /\ LineOf(i) \in DOMAIN lines /\ ColumnOf(i) \in DOMAIN lines[LineOf(i)]
       /\ lines[LineOf(i)][ColumnOf(i)] = message[i]
  /\ \A n \in DOMAIN lines : \A c \in DOMAIN lines[n] :
       \E i \in Text : LineOf(i) = n /\ ColumnOf(i) = c
  /\ Len(lines) = LineOf(Printed)

(* Each step of a call that goes on has a larger buffer or less to print,  *)
(* so neither loop repeats itself.                                         *)
CallsProgress ==
  [][/\ lpc = "format" /\ lpc' = "format" => bufsz' > bufsz
     /\ lpc = "wrap" /\ lpc' = "wrap" => Len(rest') < Len(rest)]_vars

(* Only a message that does not fit LOG_MAX_BUFSZ bytes with its end is    *)
(* refused for its length (logger.c:35-43): doubling the buffer does not   *)
(* overshoot the limit while the message would still fit.                  *)
RefusedOnlyIfTooLong == [][RefuseTooLong => Len(message) + 1 > LOG_MAX_BUFSZ]_vars

(* Every call of logx returns, though no allocation fails: neither the     *)
(* loop that makes the buffer larger nor the one over the message goes on  *)
(* for ever (logger.c:20-60, 173-208).                                     *)
EveryCallReturns == lpc # "idle" ~> lpc = "idle"
=============================================================================
