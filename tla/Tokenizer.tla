------------------------------ MODULE Tokenizer ------------------------------
(***************************************************************************)
(* src/src/tokenizer.c.  A text is a sequence of characters, the rest of   *)
(* the file; a token is what the buffer holds when tokenizer_next returns. *)
(* A token that is read no further than it goes, or one character further  *)
(* and given back by ungetc, leaves the rest of the text behind it.        *)
(***************************************************************************)
EXTENDS Integers, Sequences, SequencesExt, FiniteSetsExt

CONSTANT LowerOf            \* tolower, on the upper-case letters of the texts

\* What buf_get_char returns at the end of the file.
Nul == ""

Quote     == "\""
Backslash == "\\"

(* ctype.h, as far as the texts go *)
isspace == {" ", "\n", "\t"}
isdigit == {"0", "1", "2", "3", "4", "5", "6", "7", "8", "9"}
ispunct == {Quote, Backslash, ",", ".", ":", "/", "-", "+", "{", "}", "[", "]"}
tolower(c) == IF c \in DOMAIN LowerOf THEN LowerOf[c] ELSE c

Past(text, n) == SubSeq(text, n + 1, Len(text))

\* The character of index i, from 0.
buf_get_char(text, i) == IF i < Len(text) THEN text[i + 1] ELSE Nul

\* How many characters from index i on are in chars.
RunLength(text, i, chars) ==
    Min({n \in 0..Len(text) : buf_get_char(text, i + n) \notin chars})

\* tokenizer_next: the token and the text behind it; no token is NULL.
Token(text, n) == [buf |-> SubSeq(text, 1, n), f |-> Past(text, n)]

-----------------------------------------------------------------------------
(* JSON: the length of the token that the text starts with, or 0 *)

\* MATCH_TOKEN
Fixed == {<<"t", "r", "u", "e">>, <<"f", "a", "l", "s", "e">>, <<"n", "u", "l", "l">>,
          <<"{">>, <<"}">>, <<",">>, <<":">>, <<"[">>, <<"]">>}

MatchLength(text) ==
    IF \E t \in Fixed : IsPrefix(t, text)
    THEN Len(CHOOSE t \in Fixed : IsPrefix(t, text)) ELSE 0

is_number(text) ==
    LET sign == IF buf_get_char(text, 0) = "-" THEN 1 ELSE 0
        int  == IF buf_get_char(text, sign) = "0" THEN 1
                ELSE RunLength(text, sign, isdigit)
        dot  == sign + int
        frac == IF buf_get_char(text, dot) = "."
                THEN 1 + RunLength(text, dot + 1, isdigit) ELSE 0
        e    == dot + frac
        plus == IF buf_get_char(text, e + 1) \in {"+", "-"} THEN 2 ELSE 1
        exp  == IF tolower(buf_get_char(text, e)) = "e"
                THEN plus + RunLength(text, e + plus, isdigit) ELSE 0
    IN  IF int = 0 \/ frac = 1 \/ exp = plus THEN 0 ELSE e + exp

\* mutant: an escaped character is not skipped
StringEndNoSkip(text) ==
    LET end[i \in 1..(Len(text) + 6)] ==
            CASE i >= Len(text) -> 0
              [] i < Len(text) /\ text[i + 1] = Quote -> i + 1
              [] OTHER -> end[i + 1]
    IN  end[1]

\* is_string, once the text starts with a quote: the length with both quotes.
\* 0: the loop does not end, on an escape it does not know, or reads on behind
\* the end of the text.  There it walks over what the buffer still holds of
\* older tokens and over what lies behind the buffer, and may end at a quote it
\* finds there; the models take no such text further.
StringEnd(text) ==
    LET end[i \in 1..(Len(text) + 6)] ==
            CASE i >= Len(text) -> 0
              [] buf_get_char(text, i) = Quote -> i + 1
              [] buf_get_char(text, i) = Backslash ->
                    (CASE buf_get_char(text, i + 1) = "u" -> end[i + 6]
                       [] buf_get_char(text, i + 1) \in
                             {Quote, Backslash, "/", "b", "f", "n", "r", "t"} -> end[i + 2]
                       [] OTHER -> 0)
              [] OTHER -> end[i + 1]
    IN  end[1]

AfterSpace(text) == Past(text, RunLength(text, 0, isspace))

\* json_next_token does not return.
json_next_token_hangs(text) ==
    LET rest == AfterSpace(text)
    IN  buf_get_char(rest, 0) = Quote /\ StringEnd(rest) = 0

json_next_token(text) ==
    LET rest == AfterSpace(text)
    IN  Token(rest, CASE MatchLength(rest) > 0 -> MatchLength(rest)
                      [] is_number(rest) > 0 -> is_number(rest)
                      [] buf_get_char(rest, 0) = Quote -> StringEnd(rest)
                      [] OTHER -> 0)

-----------------------------------------------------------------------------
(* Words *)

Separators == isspace \cup ispunct \cup isdigit

\* str_next_nlp_token.  found is FALSE for NULL: at the end of the text, also
\* when a word ends there, which stays in the buffer.
str_next_nlp_token(text) ==
    LET rest == Past(text, RunLength(text, 0, Separators))
        n    == Min({k \in 0..Len(rest) : buf_get_char(rest, k) \in Separators \cup {Nul}})
    IN  [buf |-> [k \in 1..n |-> tolower(rest[k])], f |-> Past(rest, n + 1),
         found |-> n < Len(rest)]

\* What a tokenizer returns when it is called again and again: call n, from 0.
Calls(tokenizer_next(_), text) ==
    LET call[n \in Nat] == tokenizer_next(IF n = 0 THEN text ELSE call[n - 1].f) IN call

\* str_next_nlp_not_sw_token.  What it calls itself for is a token even when
\* that call says NULL.
str_next_nlp_not_sw_token(stopwords, text) ==
    LET call == Calls(str_next_nlp_token, text)
        n    == Min({k \in 0..Len(text) : call[k].buf \notin stopwords})
    IN  IF call[0].found THEN [call[n] EXCEPT !.found = TRUE] ELSE call[0]

\* while ((token = tokenizer_next(tok)) != NULL)
AllTokens(tokenizer_next(_), text) ==
    LET call == Calls(tokenizer_next, text)
        n    == Min({k \in 0..Len(text) : ~call[k].found})
    IN  [k \in 1..n |-> call[k - 1].buf]

Tokens(text) == AllTokens(str_next_nlp_token, text)

TokensNoStopWords(stopwords, text) ==
    AllTokens(LAMBDA rest : str_next_nlp_not_sw_token(stopwords, rest), text)
==============================================================================
