------------------------------ MODULE MCLexer ------------------------------
(* Texts for the scanner: every text of a few characters over alphabets    *)
(* that belong together, and longer ones for the cases that need them.     *)
EXTENDS Lexer

TextsOver(chars, n) == BoundedSeq(chars, n)

Has(t, s) == \E i \in 0 .. Len(t) - Len(s) : SubSeq(t, i + 1, i + Len(s)) = s

(* A line end ends every comment and multi-line string, and a CR only      *)
(* stands before an LF.                                                    *)
WellEnded(t) ==
  /\ \A i \in DOMAIN t : t[i] = "cr" => i < Len(t) /\ t[i + 1] = "nl"
  /\ Has(t, <<"/", "/">>) \/ Has(t, <<"\\", "\\">>) => t[Len(t)] = "nl"

Operators == TextsOver({"-", "*", "<", "|", "%", "=", ">"}, 4)
             \cup TextsOver({"+", "/", "^", "&", "!", "~", "=", "|", "semi", "?bad"}, 3)
Numbers   == TextsOver({"0", "1", ".", "e", "under", "+", "b"}, 4)
             \cup TextsOver({"0", "9", "x", "o", "E", "7", "under", "nl"}, 3)
Names     == TextsOver({"#", "@", "$", "under", "u", "0", "9", "fn", "inline", "g", "quote", "sp"}, 3)
             \cup {<<"u", "9", "9", "9", "9", "9">>, <<"i", "8">>, <<"else">>, <<"i", "7", "g">>}
(* Pieces of strings: escapes of each form, one without digits, a brace    *)
(* that closes nothing.                                                    *)
Pieces    == {<<>>, <<"n">>, <<"\\", "n">>, <<"\\", "x", "0", "e">>,
              <<"\\", "u", "lbrace", "d", "rbrace">>, <<"\\", "u", "lbrace", "rbrace">>, <<"rbrace">>}
Strings   == {<<"quote">> \o t : t \in TextsOver({"quote", "\\", "n", "x", "0", "nl", "nul"}, 4)
                                   \cup TextsOver({"quote", "\\", "u", "lbrace", "rbrace", "d", "cr", "nl"}, 4)}
             \cup {<<"quote", "\\", "u", "lbrace">> \o t \o <<"rbrace", "quote">> :
                      t \in {<<"d", "8", "0", "0">>, <<"1", "1", "0", "0", "0", "0">>,
                             <<"0", "0", "0", "0", "0", "0", "1">>}}
             \cup {<<"quote">> \o s \o t \o <<"quote">> : s, t \in Pieces}
             \cup {<<"quote", "n", "nl", "quote", "x", "quote">>}
Lines     == TextsOver({"/", "\\", ".", "*", "?", "sp", "cr", "nl", "1"}, 4)

MCTexts == {t \in Operators \cup Numbers \cup Names \cup Strings \cup Lines :
              WellEnded(t) /\ ~Has(t, <<"*", "=">>)}

(* The texts MCTexts leaves out. *)
StarTexts == TextsOver({"*", "=", "+"}, 3)
LastLineTexts == {<<"/", "/">> \o t : t \in TextsOver({"g", "nl", "sp"}, 3)}
LoneCrTexts == {<<"/", "/">> \o t : t \in TextsOver({"cr", "nl"}, 2)}
============================================================================
