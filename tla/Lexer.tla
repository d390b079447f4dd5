------------------------------- MODULE Lexer -------------------------------
(***************************************************************************)
(* The scanner of src/src/frontend/lexer.rs: Lexer::next, one step per     *)
(* state of its loop, called until it returns the Eof token.               *)
(*                                                                         *)
(* A text is a sequence of characters.  A character is a one-letter        *)
(* string, or a name: "nl", "cr", "sp" (space, tab), "quote", "lbrace",    *)
(* "rbrace", "comma", "semi", "under" (the underscore), "nul" (the byte 0, *)
(* which the lexer reads as end of file), "?bad" (a byte of no class).  A  *)
(* word of the keyword and directive tables is one character here, so that *)
(* texts stay short: it is an identifier start and an identifier           *)
(* continuation, as its letters are.  An offset counts characters.         *)
(* Text(Len) is the NUL that job_parse_module appends.                     *)
(***************************************************************************)
EXTENDS Naturals, Sequences, FiniteSets, SequencesExt, TLC

CONSTANT Texts          \* the texts to scan

(* The buffer of job_parse_module is a finite sequence of characters.      *)
ASSUME TextsAssumption == Texts \subseteq Seq(STRING)

VARIABLES text,         \* bytes
          offset,       \* offset
          spanStart,    \* span_start
          state,        \* the state of next(), "Done" once Eof is returned
          kind,         \* the kind next() has in hand while it reads a name or a string
          seenDigit,    \* seen_digit
          scratch,      \* scratch_pad
          errors,       \* errors: where each diagnostic's span starts
          tokens        \* the tokens returned so far

vars == <<text, offset, spanStart, state, kind, seenDigit, scratch, errors, tokens>>

----------------------------------------------------------------------------
(* Character classes. *)

KeywordKind ==
  [fn |-> "KwFn", if |-> "KwIf", in |-> "KwIn", or |-> "KwOr", and |-> "KwAnd",
   pub |-> "KwPub", var |-> "KwVar", for |-> "KwFor", try |-> "KwTry",
   anyptr |-> "TyAnyptr", f16 |-> "TyF16", f32 |-> "TyF32", f64 |-> "TyF64",
   else |-> "KwElse", self |-> "Ident", Self |-> "Ident", loop |-> "KwLoop", enum |-> "KwEnum",
   test |-> "KwTest", null |-> "LitNull", true |-> "LitBool", void |-> "TyVoid",
   never |-> "TyNever", bool |-> "TyBool", type |-> "TyType", f128 |-> "TyF128",
   const |-> "KwConst", while |-> "KwWhile", break |-> "KwBreak",
   defer |-> "KwDefer", catch |-> "KwCatch", union |-> "KwUnion",
   false |-> "LitBool", usize |-> "TyUsize", isize |-> "TyIsize",
   switch |-> "KwSwitch", return |-> "KwReturn", struct |-> "KwStruct",
   extern |-> "KwExtern", anyint |-> "TyAnyint", comptime |-> "KwComptime",
   continue |-> "KwContinue", errdefer |-> "KwErrdefer",
   anyfloat |-> "TyAnyfloat", undefined |-> "KwUndefined"]

DirectiveKind ==
  [inline |-> "DirInline", packed |-> "DirPacked", linear |-> "DirLinear",
   callconv |-> "DirCallconv", noinline |-> "DirNoinline",
   volatile |-> "DirVolatile", addrspace |-> "DirAddrspace"]

Words    == DOMAIN KeywordKind \cup DOMAIN DirectiveKind
BinDigit == {"0", "1"}
OctDigit == BinDigit \cup {"7"}
Digit    == OctDigit \cup {"8", "9"}
HexLower == {"b", "d", "e", "f"}
HexDigit == Digit \cup HexLower \cup {"E"}
IdentStart == HexLower \cup {"E", "g", "i", "n", "o", "r", "t", "u", "x", "under"} \cup Words
IdentCont  == IdentStart \cup Digit
Whitespace == {"sp", "nl", "cr"}
Uscore     == {"under"}

----------------------------------------------------------------------------
(* Reading. *)

len == Len(text)

(* bump and peek read without a bounds check; "oob" is a read past the NUL. *)
At(o) == IF o < len THEN text[o + 1] ELSE IF o = len THEN "nul" ELSE "oob"

(* The offset a `while class(peek()) { offset += 1 }` loop stops at. *)
SkipWhile(class, o) ==
  CHOOSE p \in o .. len : At(p) \notin class /\ \A q \in o .. p - 1 : At(q) \in class

Positions(chars, o) == {p \in o .. len : At(p) \in chars}
First(S) == CHOOSE p \in S : \A q \in S : p <= q

(* memchr over a set of needles; without one the offset becomes len.       *)
EatUntil(chars, o) == IF Positions(chars, o) = {} THEN len ELSE First(Positions(chars, o))

(* eat_until_newline from offset o: the offset it leaves, none when its    *)
(* loop never ends (the caller then takes no step).  Without a newline the *)
(* offset stays; a CR that no LF follows is found again by every round.    *)
EatUntilNewline(o) ==
  LET found == Positions({"nl", "cr"}, o)
      p == First(found)
  IN  IF found = {} THEN {o}
      ELSE IF At(p) = "nl" THEN {p}
      ELSE IF p + 1 < len /\ At(p + 1) = "nl" THEN {p + 1}
      ELSE {}

(* recover_invalid_string: on to the closing quote, or to the end of the line. *)
RecoverTo(o) ==
  LET p == EatUntil({"quote", "nl", "cr"}, o)
  IN  IF o >= len THEN len ELSE IF At(p) = "quote" THEN p + 1 ELSE p

----------------------------------------------------------------------------
(* Returning from next(). *)

K(tag, arg) == [tag |-> tag, arg |-> arg]
NoKind == K("Eof", <<>>)
Slice(lo, hi) == SubSeq(text, lo + 1, hi)

Return(k, o) ==
  /\ tokens' = Append(tokens, [kind |-> k, lo |-> spanStart, hi |-> o])
  /\ offset' = o
  /\ state' = IF k.tag = "Eof" THEN "Done" ELSE "S0"
  /\ kind' = NoKind
  /\ seenDigit' = FALSE
  /\ UNCHANGED <<text, spanStart>>

Emit(k, o) == Return(k, o) /\ UNCHANGED <<scratch, errors>>

(* The diag_* functions: a diagnostic that starts where the token does.    *)
Diag == errors' = Append(errors, spanStart)

Reject(o) == Return(K("Invalid", <<>>), o) /\ Diag /\ UNCHANGED scratch

(* A string given up: the scratch pad is cleared and the rest skipped.     *)
RejectString(o) == Return(K("Invalid", <<>>), RecoverTo(o)) /\ Diag /\ scratch' = <<>>

Goto(s, o) ==
  /\ state' = s
  /\ offset' = o
  /\ UNCHANGED <<text, spanStart, scratch, errors, tokens>>

Stay == UNCHANGED <<kind, seenDigit>>

----------------------------------------------------------------------------
(* S0: blanks, then the first character of a token. *)

Single == {"?", "comma", "semi", ":", "(", ")", "lbrace", "rbrace", "[", "]"}
OpStart == {"-", "+", "*", "/", "%", "^", "&", "|", "!", "~", "=", "<", ">"}
LetterState == [c \in {"#", "@", "$", ".", "under", "\\", "quote", "0"} |->
  CASE c = "#" -> "Hash" [] c = "@" -> "At" [] c = "$" -> "Dollar" [] c = "." -> "Dot"
    [] c = "under" -> "Underscore" [] c = "\\" -> "Backslash" [] c = "quote" -> "Str"
    [] c = "0" -> "IntZero"]

S0 ==
  /\ state = "S0"
  /\ LET o == SkipWhile(Whitespace, offset)
         c == At(o)
         Begin(s, k, digit) ==
           /\ state' = s /\ kind' = k /\ seenDigit' = digit
           /\ offset' = o + 1
           /\ UNCHANGED <<text, scratch, errors, tokens>>
         End(k) ==
           /\ tokens' = Append(tokens, [kind |-> k, lo |-> o, hi |-> o + 1])
           /\ offset' = o + 1
           /\ state' = IF k.tag = "Eof" THEN "Done" ELSE "S0"
           /\ UNCHANGED <<text, kind, seenDigit, scratch>>
     IN  /\ spanStart' = o
         /\ \/ c = "nul" /\ End(NoKind) /\ UNCHANGED errors
            \/ c \in Single /\ End(K("op", <<c>>)) /\ UNCHANGED errors
            \/ c \in OpStart /\ Begin("Op", NoKind, FALSE)
            \/ c \in DOMAIN LetterState
               /\ Begin(LetterState[c], IF c = "quote" THEN K("LitStr", <<>>) ELSE NoKind, c = "0")
            \/ c \in IdentStart \ Uscore /\ Begin("Ident", K("Ident", <<"User">>), FALSE)
            \/ c \in Digit \ {"0"} /\ Begin("IntDec", NoKind, TRUE)
            \/ c \notin {"nul", "under"} \cup Single \cup OpStart \cup DOMAIN LetterState
                         \cup IdentStart \cup Digit
               /\ End(K("Invalid", <<>>)) /\ errors' = Append(errors, o)

----------------------------------------------------------------------------
(* Operators.  A state of the machine is the spelling read so far; an arm   *)
(* is a character that extends it, everything else gives the character back. *)
(* A row of a table is a state and its arms.                               *)

ArithArms ==
  {<<<<"-">>, {"=", "|"}>>, <<<<"-", "|">>, {"="}>>,
   <<<<"+">>, {"=", "|"}>>, <<<<"+", "|">>, {"="}>>,
   <<<<"*">>, {"*", "|"}>>, <<<<"*", "|">>, {"="}>>, <<<<"*", "*">>, {}>>}

BitArms ==
  {<<<<"/">>, {"=", "/"}>>, <<<<"%">>, {"="}>>, <<<<"^">>, {"="}>>,
   <<<<"&">>, {"=", "&"}>>, <<<<"&", "&">>, {"="}>>,
   <<<<"|">>, {"=", "|"}>>, <<<<"|", "|">>, {"="}>>,
   <<<<"!">>, {"="}>>, <<<<"~">>, {"="}>>, <<<<"=">>, {"=", ">"}>>}

VariantShiftArms ==
  {<<<<"<">>, {"=", "<"}>>, <<<<"<", "<">>, {"=", "|", "%"}>>,
   <<<<"<", "<", "|">>, {"="}>>, <<<<"<", "<", "%">>, {}>>,
   <<<<">">>, {"=", ">"}>>, <<<<">", ">">>, {"=", "|", "%"}>>,
   <<<<">", ">", "|">>, {"="}>>, <<<<">", ">", "%">>, {"="}>>}

ShiftArms ==
  {<<<<"<">>, {"=", "<"}>>, <<<<"<", "<">>, {"=", "|", "%"}>>,
   <<<<"<", "<", "|">>, {"="}>>, <<<<"<", "<", "%">>, {"="}>>,
   <<<<">">>, {"=", ">"}>>, <<<<">", ">">>, {"=", "|", "%"}>>,
   <<<<">", ">", "|">>, {"="}>>, <<<<">", ">", "%">>, {"="}>>}

DotArms == {<<<<".", ".">>, {"=", "."}>>}

OpTable == ArithArms \cup BitArms \cup ShiftArms \cup DotArms
OpStates == {row[1] : row \in OpTable}
Arms(spelling) == UNION {row[2] : row \in {r \in OpTable : r[1] = spelling}}

Op ==
  /\ state = "Op"
  /\ LET spelling == Slice(spanStart, offset)
         longer == Append(spelling, At(offset))
     IN  IF At(offset) \notin Arms(spelling) THEN Emit(K("op", spelling), offset)
         ELSE IF longer = <<"/", "/">> THEN Goto("LineComment", offset + 1) /\ Stay
         ELSE IF longer \in OpStates THEN Goto("Op", offset + 1) /\ Stay
         ELSE Emit(K("op", longer), offset + 1)

Dot ==
  /\ state = "Dot"
  /\ LET c == At(offset)
     IN  CASE c = "."         -> Goto("Op", offset + 1) /\ Stay
           [] c \in {"*", "?"} -> Emit(K("op", <<".", c>>), offset + 1)
           [] c \in Digit      -> Goto("FloatDot2", offset + 1) /\ seenDigit' = TRUE
                                  /\ UNCHANGED kind
           [] OTHER            -> Emit(K("op", <<".">>), offset)

(* A comment is skipped and scanning goes on in the same call of next().   *)
VariantLineComment ==
  /\ state = "LineComment"
  /\ \E o \in EatUntilNewline(offset) : Goto("LineComment", o) /\ Stay

LineComment ==
  /\ state = "LineComment"
  /\ \E o \in EatUntilNewline(offset) : Goto("S0", o) /\ Stay

Backslash ==
  /\ state = "Backslash"
  /\ IF At(offset) = "\\"
     THEN \E o \in EatUntilNewline(offset + 1) :
            Emit(K("LitMultiLineStr", Slice(spanStart + 2, o)), o)
     ELSE Emit(K("op", <<"\\">>), offset)

----------------------------------------------------------------------------
(* Names. *)

Hash ==
  /\ state = "Hash"
  /\ LET o == SkipWhile(IdentCont, offset)
         name == Slice(spanStart + 1, o)
     IN  IF At(offset) \notin IdentStart THEN Emit(K("op", <<"#">>), offset)
         ELSE IF Len(name) = 1 /\ name[1] \in DOMAIN DirectiveKind
         THEN Emit(K(DirectiveKind[name[1]], <<>>), o)
         ELSE Emit(K("DirectiveIdent", name), o)

(* @name and @"any text"; the NUL is not consumed. *)
VariantSigilReject(c) == Reject(offset + 1)

SigilReject(c) == Reject(IF c = "nul" THEN len ELSE offset + 1)

Sigil ==
  /\ state \in {"At", "Dollar"}
  /\ LET c == At(offset)
     IN  \/ c \in IdentStart
            /\ Goto("Ident", offset + 1)
            /\ kind' = K("Ident", <<IF state = "At" THEN "Builtin" ELSE "UserComptime">>)
            /\ UNCHANGED seenDigit
         \/ state = "At" /\ c = "quote"
            /\ Goto("Str", offset + 1)
            /\ kind' = K("Ident", <<"UserEscaped">>)
            /\ UNCHANGED seenDigit
         \/ c \notin IdentStart \cup (IF state = "At" THEN {"quote"} ELSE {})
            /\ SigilReject(c)

Underscore ==
  /\ state = "Underscore"
  /\ IF At(offset) \in IdentStart
     THEN Goto("Ident", offset + 1) /\ kind' = K("Ident", <<"User">>) /\ UNCHANGED seenDigit
     ELSE Emit(K("op", <<"under">>), offset)

DigitValue == [d \in Digit |-> CHOOSE n \in 0 .. 9 : ToString(n) = d]
Decimal(s) == FoldLeft(LAMBDA acc, d : 10 * acc + DigitValue[d], 0, s)

(* A word of the table, uN or iN with 1 <= N <= 65535, or a user's name.   *)
Ident ==
  /\ state = "Ident"
  /\ LET o == SkipWhile(IdentCont, offset)
         str == Slice(spanStart, o)
         isInt == /\ str[1] \in {"u", "i"} /\ Len(str) >= 2
                  /\ \A k \in 2 .. Len(str) : str[k] \in Digit
         bits == Decimal(Tail(str))
     IN  IF kind.arg # <<"User">> THEN Emit(kind, o)
         ELSE IF Len(str) = 1 /\ str[1] \in DOMAIN KeywordKind
         THEN Emit(K(KeywordKind[str[1]], <<>>), o)
         ELSE IF isInt
         THEN IF bits = 0 \/ bits > 65535 THEN Reject(o)
              ELSE Emit(K(IF str[1] = "u" THEN "TyU" ELSE "TyI", Tail(str)), o)
         ELSE Emit(kind, o)

----------------------------------------------------------------------------
(* Strings. *)

VariantStrNewline == Return(K("Invalid", <<>>), offset + 1) /\ Diag /\ UNCHANGED scratch

StrNewline == Return(K("Invalid", <<>>), offset + 1) /\ Diag /\ scratch' = <<>>

(* The scratch pad holds one sequence per character: itself, or "x" or "u" *)
(* and the digits it was written with.                                     *)
Plain(s) == [k \in DOMAIN s |-> <<s[k]>>]

Str ==
  /\ state = "Str"
  /\ LET c == At(offset)
         stop == EatUntil({"quote", "\\", "nl"}, offset + 1)
     IN  CASE c = "nul" -> RejectString(len)
           [] c = "nl"  -> StrNewline
           [] c = "quote" -> /\ Return(IF kind.tag = "LitStr" THEN K("LitStr", scratch)
                                                            ELSE kind, offset + 1)
                          /\ scratch' = <<>> /\ UNCHANGED errors
           [] c = "\\" -> Goto("EscapeStr", offset + 1) /\ Stay
           [] OTHER    -> /\ scratch' = scratch \o Plain(Slice(offset, stop))
                          /\ offset' = stop
                          /\ UNCHANGED <<text, spanStart, state, kind, seenDigit, errors, tokens>>

(* What an escape of one letter stands for. *)
Escaped == [c \in {"n", "r", "t", "quote", "\\", "0"} |->
  CASE c = "n" -> "nl" [] c = "r" -> "cr" [] c = "t" -> "sp" [] c = "0" -> "nul" [] OTHER -> c]

Push(char, o) ==
  /\ scratch' = Append(scratch, char)
  /\ state' = "Str"
  /\ offset' = o
  /\ UNCHANGED <<text, spanStart, kind, seenDigit, errors, tokens>>

(* \xHL.  A rejected line end is given back, so that recovery stops there. *)
ByteEscape(o) ==
  LET hi == At(o)
      lo == At(o + 1)
  IN  IF hi = "nul" THEN RejectString(len)
      ELSE IF hi \in HexDigit /\ lo \in HexDigit THEN Push(<<"x", hi, lo>>, o + 2)
      ELSE RejectString(IF lo = "nul" THEN len
                        ELSE IF hi \in {"nl", "cr"} THEN o
                        ELSE IF lo \in {"nl", "cr"} THEN o + 1 ELSE o + 2)

HexValue == [d \in HexDigit |-> IF d \in Digit THEN DigitValue[d]
                               ELSE ("b" :> 11 @@ "d" :> 13 @@ "e" :> 14 @@ "f" :> 15 @@ "E" :> 14)[d]]
Hex(s) == FoldLeft(LAMBDA acc, d : 16 * acc + HexValue[d], 0, s)

(* char::from_u32: at most 0x10FFFF and no surrogate. *)
IsScalar(n) == n <= 1114111 /\ n \notin 55296 .. 57343

(* \u{H...}: at most six digits of one character. *)
UnicodeEscape(o) ==
  LET stop == SkipWhile(HexDigit, o + 1)
      digits == Slice(o + 1, stop)
      c == At(stop)
  IN  IF At(o) # "lbrace"
      THEN RejectString(IF At(o) = "nul" /\ o = len THEN len
                        ELSE IF At(o) \in {"nl", "cr"} THEN o ELSE o + 1)
      ELSE IF c # "rbrace"
      THEN RejectString(IF stop >= len THEN len
                        ELSE IF c \in {"nl", "cr"} THEN stop ELSE stop + 1)
      ELSE IF Len(digits) > 6 \/ ~IsScalar(Hex(digits)) THEN RejectString(stop + 1)
      ELSE Push(<<"u">> \o digits, stop + 1)

EscapeStr ==
  /\ state = "EscapeStr"
  /\ LET c == At(offset)
     IN  CASE c = "nul"            -> RejectString(len)
           [] c \in DOMAIN Escaped -> Push(<<Escaped[c]>>, offset + 1)
           [] c = "x"              -> ByteEscape(offset + 1)
           [] c = "u"              -> UnicodeEscape(offset + 1)
           [] OTHER                -> RejectString(IF c \in {"nl", "cr"} THEN offset ELSE offset + 1)

----------------------------------------------------------------------------
(* Numbers. *)

RadixState == [c \in {"b", "o", "x", ".", "e", "E"} |->
  CASE c = "b" -> "IntBin" [] c = "o" -> "IntOct" [] c = "x" -> "IntHex"
    [] c = "." -> "FloatDot1" [] c \in {"e", "E"} -> "FloatExp1"]

IntZero ==
  /\ state = "IntZero"
  /\ LET c == At(offset)
     IN  CASE c \in DOMAIN RadixState   -> /\ Goto(RadixState[c], offset + 1)
                                          /\ seenDigit' = FALSE /\ UNCHANGED kind
           [] c \in BinDigit \cup Uscore -> Goto("IntDec", offset + 1) /\ Stay
           [] OTHER                     -> Emit(K("LitInt", <<"Decimal">>), offset)

(* Whether a run of digits and underscores holds a digit. *)
Seen(lo, hi) == seenDigit \/ \E p \in lo .. hi - 1 : At(p) # "under"

RadixDigits == [IntBin |-> BinDigit, IntOct |-> OctDigit, IntHex |-> HexDigit]

IntRadix ==
  /\ state \in DOMAIN RadixDigits
  /\ LET o == SkipWhile(RadixDigits[state] \cup Uscore, offset)
     IN  IF Seen(offset, o) THEN Emit(K("LitInt", <<state>>), o) ELSE Reject(o)

(* The digits of a decimal number, then a fraction or an exponent. *)
IntDec ==
  /\ state = "IntDec"
  /\ LET o == SkipWhile(Digit \cup Uscore, offset)
     IN  IF At(o) \in {".", "e", "E"}
         THEN Goto(RadixState[At(o)], o + 1) /\ seenDigit' = FALSE /\ UNCHANGED kind
         ELSE Emit(K("LitInt", <<"Decimal">>), o)

(* After `1.`: a second dot gives both back. *)
FloatDot1 ==
  /\ state = "FloatDot1"
  /\ LET c == At(offset)
     IN  CASE c \in {"e", "E"} -> Reject(offset + 1)
           [] c \in Digit      -> Goto("FloatDot2", offset + 1) /\ Stay
           [] c = "."          -> Emit(K("LitInt", <<"Decimal">>), offset - 1)
           [] OTHER            -> Emit(K("LitFloat", <<>>), offset)

FloatDot2 ==
  /\ state = "FloatDot2"
  /\ LET o == SkipWhile(Digit \cup Uscore, offset)
     IN  IF At(o) \in {"e", "E"}
         THEN Goto("FloatExp1", o + 1) /\ seenDigit' = FALSE /\ kind' = K("LitFloat", <<>>)
         ELSE Emit(K("LitFloat", <<>>), o)

FloatExp1 ==
  /\ state = "FloatExp1"
  /\ LET c == At(offset)
     IN  CASE c \in {"+", "-"} -> Goto("FloatExp2", offset + 1) /\ Stay
           [] c \in Digit      -> /\ Goto("FloatExp2", offset + 1)
                                  /\ seenDigit' = TRUE /\ UNCHANGED kind
           [] c = "under"      -> Goto("FloatExp2", offset) /\ Stay
           [] OTHER            -> Reject(offset)

FloatExp2 ==
  /\ state = "FloatExp2"
  /\ LET o == SkipWhile(Digit \cup Uscore, offset)
     IN  IF Seen(offset, o) THEN Emit(K("LitFloat", <<>>), o) ELSE Reject(o)

----------------------------------------------------------------------------

Init ==
  /\ text \in Texts
  /\ offset = 0 /\ spanStart = 0
  /\ state = "S0" /\ kind = NoKind /\ seenDigit = FALSE
  /\ scratch = <<>> /\ errors = <<>> /\ tokens = <<>>

(* The parser stops asking after Eof. *)
Finished == state = "Done" /\ UNCHANGED vars

Next ==
  \/ S0 \/ Op \/ Dot \/ LineComment \/ Backslash
  \/ Hash \/ Sigil \/ Underscore \/ Ident
  \/ Str \/ EscapeStr
  \/ IntZero \/ IntRadix \/ IntDec \/ FloatDot1 \/ FloatDot2 \/ FloatExp1 \/ FloatExp2
  \/ Finished

(* The scanner is one loop of one thread: it goes on while it can.         *)
Spec == Init /\ [][Next]_vars /\ WF_vars(Next)

----------------------------------------------------------------------------
(* Properties. *)

(* The operator tokens of the tokens! list, by the spelling it documents.  *)
OneCharOps == {<<c>> : c \in Single \cup OpStart \cup {"#", ".", "under", "\\"}}
TwoCharOps ==
  {<<c, "=">> : c \in {"-", "+", "*", "/", "%", "<", ">", "^", "&", "|", "=", "!", "~"}}
  \cup {<<"-", "|">>, <<"+", "|">>, <<"*", "*">>, <<"*", "|">>, <<"<", "<">>, <<">", ">">>,
        <<"&", "&">>, <<"|", "|">>, <<"=", ">">>, <<".", ".">>, <<".", "*">>, <<".", "?">>}
ThreeCharOps ==
  {<<"-", "|", "=">>, <<"+", "|", "=">>, <<"*", "|", "=">>, <<"&", "&", "=">>,
   <<"|", "|", "=">>, <<".", ".", "=">>, <<".", ".", ".">>}
  \cup {<<c, c, d>> : c \in {"<", ">"}, d \in {"=", "|", "%"}}
FourCharOps == {<<c, c, d, "=">> : c \in {"<", ">"}, d \in {"|", "%"}}
OperatorSpellings == OneCharOps \cup TwoCharOps \cup ThreeCharOps \cup FourCharOps

(* The other kinds of the tokens! list that the scanner produces.          *)
OtherKinds ==
  {"Ident", "DirectiveIdent", "LitInt", "LitFloat", "LitBool", "LitStr", "LitMultiLineStr",
   "LitNull", "TyU", "TyI", "Invalid", "Eof"}
  \cup {KeywordKind[w] : w \in DOMAIN KeywordKind}
  \cup {DirectiveKind[w] : w \in DOMAIN DirectiveKind}

(* Every token is of a kind of the list.                                   *)
KindsListed ==
  \A i \in DOMAIN tokens :
    IF tokens[i].kind.tag = "op" THEN tokens[i].kind.arg \in OperatorSpellings
    ELSE tokens[i].kind.tag \in OtherKinds

(* bump and peek never read past the NUL byte they rely on: before every   *)
(* step the offset is within the buffer, and only the Eof token consumes   *)
(* the NUL (lexer.rs:1908, "we should always read from a null-terminated   *)
(* string for this to works").                                             *)
InBounds == state # "Done" => offset <= len

(* p is in a comment that starts between from and to.                      *)
InComment(from, to, p) ==
  \E q \in from .. p : /\ At(q) = "/" /\ At(q + 1) = "/" /\ q + 1 < to
                       /\ \A n \in q .. p - 1 : At(n) # "nl"

(* From one token to the next there are blanks and whole comments.         *)
Gap(from, to) ==
  /\ from <= to
  /\ \A p \in from .. to - 1 : At(p) \in Whitespace \/ InComment(from, to, p)
  /\ to < len => ~InComment(from, to, to)

(* Nothing is lost and nothing is read twice: tokens are in order, do not  *)
(* overlap and are not empty, and what lies between them is blanks and     *)
(* whole comments.                                                         *)
GapsBlank ==
  \A i \in DOMAIN tokens : /\ Gap(IF i = 1 THEN 0 ELSE tokens[i - 1].hi, tokens[i].lo)
                           /\ tokens[i].lo < tokens[i].hi

(* An operator is the longest one of the tokens! list that the text spells *)
(* at its place: no operator of the list is cut in two.                    *)
LongestOperator ==
  \A i \in DOMAIN tokens :
    tokens[i].kind.tag = "op" =>
      ~\E s \in OperatorSpellings :
         /\ Len(s) > Len(tokens[i].kind.arg) /\ tokens[i].lo + Len(s) <= len
         /\ s = SubSeq(text, tokens[i].lo + 1, tokens[i].lo + Len(s))

(* A diagnostic for every invalid token and none for a valid one, in the   *)
(* order of the text: the parser skips Invalid tokens in silence because   *)
(* the lexer has reported them.                                            *)
InvalidReported ==
  /\ Range(errors) = {tokens[i].lo : i \in {j \in DOMAIN tokens : tokens[j].kind.tag = "Invalid"}}
  /\ \A k, l \in DOMAIN errors : k < l => errors[k] < errors[l]

(* The units a string's text stands for, by its definition: the unit that  *)
(* is written at p, where the next one starts, and all from the first on.  *)
Close(s, p) ==
  LET found == {q \in p .. Len(s) : s[q] = "rbrace"}
  IN  IF found = {} THEN Len(s) ELSE First(found)

UnitAt(s, p) ==
  IF s[p] # "\\" THEN <<s[p]>>
  ELSE IF s[p + 1] = "x" THEN SubSeq(s, p + 1, p + 3)
  ELSE IF s[p + 1] = "u" THEN <<"u">> \o SubSeq(s, p + 3, Close(s, p) - 1)
  ELSE <<Escaped[s[p + 1]]>>

UnitEnd(s, p) ==
  IF s[p] # "\\" THEN p + 1
  ELSE IF s[p + 1] = "x" THEN p + 4
  ELSE IF s[p + 1] = "u" THEN Close(s, p) + 1
  ELSE p + 2

Decode(s) ==
  LET units[p \in Nat] ==
        IF p \in 1 .. Len(s) THEN <<UnitAt(s, p)>> \o units[UnitEnd(s, p)] ELSE <<>>
  IN  units[1]

(* The value of a string literal is what its own text spells: the scratch  *)
(* pad, which every string shares, carries nothing over from a string that *)
(* was given up (lexer.rs:1508, 1970).                                     *)
StringValue ==
  \A i \in DOMAIN tokens :
    tokens[i].kind.tag = "LitStr" =>
      tokens[i].kind.arg = Decode(Slice(tokens[i].lo + 1, tokens[i].hi - 1))

(* Recovery stays on its line: an invalid token reaches over no line end   *)
(* but its own last character, so that one bad escape does not hide the    *)
(* next line (texts with an embedded NUL excepted: it reads as the end).   *)
RecoversOnLine ==
  (\A p \in DOMAIN text : text[p] # "nul") =>
    \A i \in DOMAIN tokens :
      tokens[i].kind.tag = "Invalid" =>
        \A p \in tokens[i].lo .. tokens[i].hi - 2 : At(p) # "nl"

(* The tokens are the text: each of a kind of the list, the operators as   *)
(* long as they can be, nothing but blanks and comments in between, and    *)
(* what is invalid reported and kept to its line.                          *)
TokensSpellText ==
  KindsListed /\ GapsBlank /\ LongestOperator /\ InvalidReported /\ RecoversOnLine

(* Every text is scanned to its Eof token.                                 *)
Terminates == <>(state = "Done")

============================================================================
