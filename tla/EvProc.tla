------------------------------- MODULE EvProc -------------------------------
(***************************************************************************)
(* Event procedures of Canon cameras: canon_adv.c lexes a command line,    *)
(* packs it and has the camera execute it; dec/main.c decodes what it      *)
(* finds in a capture.  Text is a sequence of character codes.             *)
(***************************************************************************)
EXTENDS PtpData

CONSTANTS MaxStr,   \* MAX_STR: 128
          MaxTok,   \* MAX_TOK: 10
          PackBuffer \* 500: bytes of each of the packer's two buffers

ASSUME TokensAssumption == MaxStr \in Nat /\ MaxTok \in Nat
ASSUME PackBufferAssumption == PackBuffer \in Nat

Alpha == (97..122) \cup (65..90) \cup {95}
Digit == 48..57
Hex == Digit \cup (65..70) \cup (97..102)
Blank == {32, 9}
Quote == 39
Nul == 0

HexValue(c) == CASE c \in Digit -> c - 48 [] c \in 65..70 -> c - 55 [] OTHER -> c - 87
ValueOf(cs, base) ==
  LET value[k \in 0..Len(cs)] == IF k = 0 THEN 0 ELSE value[k - 1] * base + HexValue(cs[k])
  IN  value[Len(cs)]

Text(cs) == [type |-> "TEXT", string |-> cs]
Quoted(cs) == [type |-> "STR", string |-> cs]
IntToken(n) == [type |-> "INT", integer |-> n]

-----------------------------------------------------------------------------
(* lex_evproc_command.  "line" is the memory of the command with its NUL;  *)
(* a position behind it is "beyond", where anything may stand.             *)

\* The first position from c on whose character is not in S.
After(line, c, S) == CHOOSE i \in c..Len(line) + 1 :
  /\ \A j \in c..i - 1 : line[j] \in S
  /\ i > Len(line) \/ line[i] \notin S

\* A token of a character that starts one, and the position behind it.  Words and strings are cut when they
\* have more than MAX_STR characters.
Take(line, c) ==
  LET word == SmallerOf(After(line, c, Alpha), c + MaxStr + 1)
      hex == After(line, c + 2, Hex)
      number == After(line, c, Digit)
      string == SmallerOf(After(line, c + 1, 0..127 \ {Quote}), c + MaxStr + 2)
  IN  IF line[c] \in Alpha THEN [token |-> Text(SubSeq(line, c, word - 1)), c |-> word]
      ELSE IF line[c] = 48 /\ line[c + 1] = 120
        THEN [token |-> IntToken(ValueOf(SubSeq(line, c + 2, hex - 1), 16)), c |-> hex]
      ELSE IF line[c] \in Digit
        THEN [token |-> IntToken(ValueOf(SubSeq(line, c, number - 1), 10)), c |-> number]
      ELSE [token |-> Quoted(SubSeq(line, c + 1, string - 1)), c |-> string + 1]

Starts(line, c) == line[c] \in Alpha \cup Digit \cup {Quote}

\* One turn of the loop.  The token is stored before the count is looked at.
LexTurn(line, lex) ==
  LET c == After(line, lex.c, Blank)
      t == Take(line, c)
  IN  IF lex.done \/ line[lex.c] = Nul THEN lex
      ELSE IF ~Starts(line, c)
        THEN [lex EXCEPT !.c = c + 1, !.beyond = c + 1 > Len(line), !.done = c + 1 > Len(line)]
      ELSE [c |-> t.c, tokens |-> Append(lex.tokens, t.token),
            null |-> Len(lex.tokens) >= MaxTok, beyond |-> t.c > Len(line),
            done |-> Len(lex.tokens) >= MaxTok \/ t.c > Len(line)]

\* A turn moves on by a character at least.
Lex(line) ==
  LET lex[i \in 0..Len(line)] ==
        IF i = 0 THEN [c |-> 1, tokens |-> <<>>, null |-> FALSE, beyond |-> FALSE, done |-> FALSE]
        ELSE LexTurn(line, lex[i - 1])
  IN  lex[Len(line)]

-----------------------------------------------------------------------------
(* canon_evproc_pack.                                                      *)
TokInt == 2
TokStr == 4
Null == <<>>               \* no packed command is empty

\* struct EvProcParam: type, number, p3, p4, size.
Param(t) ==
  IF t.type = "INT" THEN Le(4, TokInt) \o Le(4, t.integer) \o Le(4, 0) \o Le(4, 0) \o Le(4, 0)
  ELSE Le(4, TokStr) \o Le(4, 0) \o Le(4, 0) \o Le(4, 0) \o Le(4, Len(t.string) + 1)

\* The tokens of some types, in their order.
Which(tokens, types) ==
  FlattenSeq([i \in 1..Len(tokens) |-> IF tokens[i].type \in types THEN <<tokens[i]>> ELSE <<>>])
Arguments(tokens) == Which(Tail(tokens), {"INT", "STR"})
Strings(tokens) == Which(Arguments(tokens), {"STR"})

\* The number of strings, then each behind a 0.
Footer(tokens) ==
  Le(4, Len(Strings(tokens))) \o
  FlattenSeq([i \in 1..Len(Strings(tokens)) |-> Le(4, 0) \o WriteUtf8String(Strings(tokens)[i].string)])

\* What is written past the end of the two buffers, which nobody checks, is
\* not followed.  The footer is written to the one and copied to the other.
Overrun == <<"overrun">>
Written(bytes) == IF Len(bytes) > PackBuffer THEN Overrun ELSE bytes

Params(args) == FlattenSeq([i \in 1..Len(args) |-> Param(args[i])])

\* Mutant: every word of the line counts as an argument.
PackCountsWords(tokens) ==
  IF tokens = <<>> \/ tokens[1].type # "TEXT" THEN Null
  ELSE Written(WriteUtf8String(tokens[1].string) \o Le(4, Len(tokens))
               \o Params(Arguments(tokens)) \o Footer(tokens))

\* Words behind the first are left out.
Pack(tokens) ==
  IF tokens = <<>> \/ tokens[1].type # "TEXT" THEN Null
  ELSE Written(WriteUtf8String(tokens[1].string) \o Le(4, Len(Arguments(tokens)))
               \o Params(Arguments(tokens)) \o Footer(tokens))

\* The lexer returns NULL for a line of too many tokens, which is not looked at.
Crash == <<"crash">>
PackLine(lex) == IF lex.null THEN Crash ELSE Pack(lex.tokens)

-----------------------------------------------------------------------------
(* ptp_eos_evproc_run and ptp_eos_evproc_run_payload, as the list of       *)
(* commands they send; rc[k] is what the k-th one returns.                 *)

\* Enabling is repeated three times whatever comes back but an I/O error.
Activations(supported, rc) ==
  IF ~supported THEN 0
  ELSE IF \E k \in 1..3 : rc[k] = "io_err"
    THEN CHOOSE k \in 1..3 : rc[k] = "io_err" /\ \A j \in 1..k - 1 : rc[j] # "io_err"
  ELSE 3

Enable(n) == [k \in 1..n |-> "EnableEventProc"]

\* The payload is copied and handed over even when the last command failed.
EvprocRun(supported, rc, packed, payload) ==
  LET n == Activations(supported, rc)
      failed == n > 0 /\ rc[n] = "io_err"
      exec == Append(Enable(n), "ExecuteEventProc")
  IN  IF failed THEN [sent |-> Enable(n), rc |-> "io_err", copied |-> FALSE]
      ELSE IF packed = Null THEN [sent |-> Enable(n), rc |-> "runtime_err", copied |-> FALSE]
      ELSE IF rc[n + 1] # "ok" \/ ~payload
        THEN [sent |-> exec, rc |-> rc[n + 1], copied |-> FALSE]
      ELSE [sent |-> Append(exec, "GetEventProcReturnData"), rc |-> rc[n + 2], copied |-> TRUE]

-----------------------------------------------------------------------------
(* decode_eos_evproc of dec/main.c: strings are looked for behind their    *)
(* parameter, seven words after its start.                                 *)
DecodeBuffer == 64

DecodeParam(d, of) ==
  LET type == Unsigned(d, of, 4)
      s == ReadUtf8String(d, of + 28, DecodeBuffer)
  IN  IF type = TokInt THEN [token |-> IntToken(Unsigned(d, of + 4, 4)), of |-> of + 20]
      ELSE IF type = TokStr THEN [token |-> Quoted(s.str), of |-> s.of]
      ELSE [token |-> Text(<<>>), of |-> of + 4]

DecodeEvproc(d) ==
  LET name == ReadUtf8String(d, 0, DecodeBuffer)
      n == Unsigned(d, name.of, 4)
      read[i \in 0..n] ==
        IF i = 0 THEN [of |-> name.of + 4, values |-> <<>>]
        ELSE LET p == DecodeParam(d, read[i - 1].of)
             IN  [of |-> p.of, values |-> Append(read[i - 1].values, p.token)]
  IN  [name |-> name.str, number |-> n, params |-> read[n].values]
=============================================================================
