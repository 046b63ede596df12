----------------------------- MODULE SqlStatement -----------------------------
(***************************************************************************)
(* The check a statement of the console's workbench passes before it is    *)
(* run: a tokenizer that skips comments and takes literals and quoted      *)
(* names as a whole, and the rules one token list is judged by.            *)
(*                                                                         *)
(* A text is a sequence of symbols: a symbol is one character, or a word   *)
(* or number of which only its kind matters (a word takes the words and    *)
(* numbers that follow it, a number the numbers).  One newline stands for  *)
(* all white space, the double quote also for the backtick; a number goes  *)
(* through a sign that follows an exponent's letter, and "0xe" stands for  *)
(* those that end in that letter.  Points and plus signs are left out, and *)
(* words begin with a letter that no number takes.                         *)
(***************************************************************************)
EXTENDS Integers, Sequences, FiniteSets

CONSTANT Texts  \* the statements entered

ASSUME TextsAssumption == Texts \subseteq Seq(STRING)

VARIABLES
  text,     \* the statement
  at,       \* index of the tokenizer
  tokens,   \* tokens read so far: type, first and last symbol
  verdict   \* "reading", "ok" or the code of the rejection

sqlVars == <<text, at, tokens, verdict>>

Newline == "nl"
DoubleQuote == "quote"
Semicolon == "semicolon"
Words == {"SELECT", "WITH", "UPDATE", "name"}
Forbidden == {"UPDATE"}
Numbers == {"1", "0xe"}
EndsInE == {"0xe"}

SqlInit == text \in Texts /\ at = 1 /\ tokens = <<>> /\ verdict = "reading"

Character(i) == IF i \in 1..Len(text) THEN text[i] ELSE "end"
Token(type, from, to) == [type |-> type, from |-> from, to |-> to]

(* The first place from i on where p holds, or 0.                          *)
FirstFrom(i, P(_)) ==
  LET found == {j \in i..Len(text) : P(j)} IN
  IF found = {} THEN 0 ELSE CHOOSE j \in found : \A k \in found : j <= k

Advance(i) == at' = i /\ UNCHANGED <<text, tokens, verdict>>
Take(type, to) ==
  /\ tokens' = Append(tokens, Token(type, at, to)) /\ at' = to + 1
  /\ UNCHANGED <<text, verdict>>
Reject(code) == verdict' = code /\ UNCHANGED <<text, at, tokens>>

Space == Character(at) = Newline /\ Advance(at + 1)

LineComment ==
  /\ Character(at) = "-" /\ Character(at + 1) = "-"
  /\ LET newline == FirstFrom(at + 2, LAMBDA j : text[j] = Newline) IN
     Advance(IF newline = 0 THEN Len(text) + 1 ELSE newline + 1)

(* Mutant of BlockEnd: the star that opens a comment may close it.         *)
BlockEndOverlapping == FirstFrom(at + 1, LAMBDA j : text[j] = "*" /\ Character(j + 1) = "/")
BlockEnd == FirstFrom(at + 2, LAMBDA j : text[j] = "*" /\ Character(j + 1) = "/")

BlockComment ==
  /\ Character(at) = "/" /\ Character(at + 1) = "*"
  /\ IF BlockEnd = 0 THEN Reject("sql_unterminated_comment") ELSE Advance(BlockEnd + 2)

(* Where a literal or quoted name that goes on at i ends; a doubled quote  *)
(* does not end it, a doubled bracket does.                                *)
QuoteEnd(i, close) ==
  LET end[j \in i..Len(text) + 2] ==
        IF j > Len(text) THEN 0
        ELSE IF text[j] # close THEN end[j + 1]
        ELSE IF close # "]" /\ Character(j + 1) = close THEN end[j + 2] ELSE j
  IN end[i]

Quoted ==
  /\ Character(at) \in {"'", DoubleQuote, "["}
  /\ LET end == QuoteEnd(at + 1, IF text[at] = "[" THEN "]" ELSE text[at]) IN
     IF end = 0 THEN Reject("sql_unterminated_literal")
     ELSE Take(IF text[at] = "'" THEN "string" ELSE "quoted", end)

(* The last symbol of the run from at on that Goes on with.               *)
RunEnd(Goes(_)) ==
  LET after == FirstFrom(at, LAMBDA j : ~Goes(j)) IN
  IF after = 0 THEN Len(text) ELSE after - 1

NumberEnd ==
  RunEnd(LAMBDA j : text[j] \in Numbers \/ (text[j] = "-" /\ text[j - 1] \in EndsInE))
Number == Character(at) \in Numbers /\ Take("number", NumberEnd)

WordEnd == RunEnd(LAMBDA j : text[j] \in Words \cup Numbers)
Word == Character(at) \in Words /\ Take("word", WordEnd)

Punctuation ==
  /\ Character(at) \notin Words \cup Numbers \cup {Newline, "'", DoubleQuote, "[", "end"}
  /\ ~(Character(at) = "-" /\ Character(at + 1) = "-")
  /\ ~(Character(at) = "/" /\ Character(at + 1) = "*")
  /\ Take("punct", at)

-----------------------------------------------------------------------------
(* The rules over the tokens.                                              *)

IsPunct(t, c) == t.type = "punct" /\ text[t.from] = c
IsWord(t, w) == t.type = "word" /\ t.from = t.to /\ text[t.from] = w
Semicolons == {k \in 1..Len(tokens) : IsPunct(tokens[k], Semicolon)}
Body == IF Semicolons = {} THEN tokens ELSE SubSeq(tokens, 1, Len(tokens) - 1)
BodyHas(P(_)) == \E k \in 1..Len(Body) : P(Body[k])

(* "?" binds a parameter, and so do the prefixes of a word.                *)
Parameter(k) ==
  \/ IsPunct(Body[k], "?")
  \/ IsPunct(Body[k], ":") /\ k < Len(Body) /\ Body[k + 1].type = "word"

NotSelect ==
  \/ ~IsWord(Body[1], "SELECT") /\ ~IsWord(Body[1], "WITH")
  \/ IsWord(Body[1], "WITH") /\ ~BodyHas(LAMBDA t : IsWord(t, "SELECT"))

Judgement ==
  IF tokens = <<>> THEN "sql_empty"
  ELSE IF ~(Semicolons \subseteq {Len(tokens)}) THEN "sql_multiple_statements"
  ELSE IF Body = <<>> THEN "sql_empty"
  ELSE IF \E k \in 1..Len(Body) : Parameter(k) THEN "sql_parameters_unsupported"
  ELSE IF NotSelect THEN "sql_not_select"
  ELSE IF BodyHas(LAMBDA t : \E w \in Forbidden : IsWord(t, w)) THEN "sql_forbidden_keyword"
  ELSE "ok"

Judge == at > Len(text) /\ Reject(Judgement)

(* The part of the text that is run, as a derived table on lines of its own. *)
Executed == SubSeq(text, Body[1].from, Body[Len(Body)].to)

SqlNext ==
  /\ verdict = "reading"
  /\ Space \/ LineComment \/ BlockComment \/ Quoted \/ Number \/ Word \/ Punctuation \/ Judge

SqlSpec == SqlInit /\ [][SqlNext]_sqlVars

-----------------------------------------------------------------------------
(* The reference: SQL read one symbol at a time, in a mode that says what  *)
(* the symbol is part of.                                                  *)

Outside == {"plain", "slash", "dash"}
Comments == {"line", "block", "star"}

NextMode(mode, c) ==
  CASE mode = "slash" /\ c = "*" -> "block"
    [] mode = "dash" /\ c = "-" -> "line"
    [] mode \in Outside /\ ~(mode = "slash" /\ c = "*") /\ ~(mode = "dash" /\ c = "-") ->
         CASE c = "/" -> "slash" [] c = "-" -> "dash" [] c = "'" -> "string"
           [] c = DoubleQuote -> "name" [] c = "[" -> "bracket" [] OTHER -> "plain"
    [] mode = "line" -> IF c = Newline THEN "plain" ELSE "line"
    [] mode = "block" -> IF c = "*" THEN "star" ELSE "block"
    [] mode = "star" -> IF c = "/" THEN "plain" ELSE IF c = "*" THEN "star" ELSE "block"
    [] mode = "string" -> IF c = "'" THEN "plain" ELSE "string"
    [] mode = "name" -> IF c = DoubleQuote THEN "plain" ELSE "name"
    [] mode = "bracket" -> IF c = "]" THEN "plain" ELSE "bracket"

Modes(t) ==
  LET mode[i \in 0..Len(t)] == IF i = 0 THEN "plain" ELSE NextMode(mode[i - 1], t[i])
  IN mode

Live(t, i) == i \in 1..Len(t) /\ Modes(t)[i - 1] \in Outside /\ Modes(t)[i] = "plain"

(* A symbol of a word, which begins with a word and takes numbers; and a   *)
(* symbol that is a whole word.                                            *)
Part(t, i) ==
  /\ Live(t, i)
  /\ \E j \in 1..i : /\ t[j] \in Words
                     /\ \A k \in j..i : Live(t, k) /\ t[k] \in Words \cup Numbers
Whole(t, i, w) == Live(t, i) /\ t[i] = w /\ ~Part(t, i - 1) /\ ~Part(t, i + 1)

BlankAt(t, i) ==
  \/ {Modes(t)[i - 1], Modes(t)[i]} \cap Comments # {}
  \/ Live(t, i) /\ t[i] = Newline
  \/ i < Len(t) /\ Modes(t)[i] = "slash" /\ Modes(t)[i + 1] = "block"
  \/ i < Len(t) /\ Modes(t)[i] = "dash" /\ Modes(t)[i + 1] = "line"
ShownIn(t) == {i \in 1..Len(t) : ~BlankAt(t, i)}

(* ":1" binds a parameter.                                                 *)
NumberedParameter(t) ==
  \E i \in 1..Len(t) - 1 : Live(t, i) /\ t[i] = ":" /\ t[i + 1] \in Numbers

(* One SELECT and nothing that writes, whatever literals and comments say. *)
ReadsOnly(t) ==
  /\ Modes(t)[Len(t)] \in Outside \cup {"line"}
  /\ \E i \in ShownIn(t) :
       /\ \A j \in ShownIn(t) : i <= j
       /\ \/ Whole(t, i, "SELECT")
          \/ Whole(t, i, "WITH") /\ \E j \in ShownIn(t) : Whole(t, j, "SELECT")
  /\ \A i \in ShownIn(t) :
       /\ \A w \in Forbidden : ~Whole(t, i, w)
       /\ Live(t, i) => t[i] # "?"
       /\ Live(t, i) /\ t[i] = Semicolon => \A j \in ShownIn(t) : j <= i
       /\ Live(t, i) /\ t[i] = ":" =>
            ~\E j \in ShownIn(t) : Part(t, j) /\ i < j
                                 /\ \A k \in ShownIn(t) : ~(i < k /\ k < j)
  /\ ~NumberedParameter(t)

(* A number that ends in "e" right before a comment: the tokenizer takes   *)
(* the first dash of the comment for the sign of an exponent.              *)
SignTakesComment(t) ==
  \E i \in 1..Len(t) - 2 : /\ Live(t, i) /\ ~Part(t, i) /\ t[i] \in EndsInE
                          /\ t[i + 1] = "-" /\ t[i + 2] = "-"

(* "a `;` or keyword inside a literal can never be mistaken for SQL" and   *)
(* "exactly one statement is accepted": the tokenizer with its lookahead   *)
(* accepts exactly the texts that reading symbol by symbol finds to be one *)
(* read-only statement, and the part it cuts out and wraps is one, with no *)
(* semicolon left and nothing still open that would swallow the wrapper.   *)
(* Excepted are the texts with a comment right after a number that ends in *)
(* "e" (CommentsAreRemoved) and those with a numbered parameter.           *)
AcceptsOneSelect ==
  verdict # "reading" /\ ~SignTakesComment(text) /\ ~NumberedParameter(text) =>
    /\ (verdict = "ok") <=> ReadsOnly(text)
    /\ verdict = "ok" =>
         /\ ReadsOnly(Executed) /\ Modes(Executed)[Len(Executed)] \in Outside
         /\ \A i \in 1..Len(Executed) : Executed[i] = Semicolon =>
              ~(Modes(Executed)[i - 1] \in Outside)

(* "a real tokenizer (not a regex) removes comments": no token holds a     *)
(* symbol of a comment.                                                    *)
CommentsAreRemoved ==
  \A k \in 1..Len(tokens) : \A i \in tokens[k].from..tokens[k].to :
    Modes(text)[i] \notin Comments
=============================================================================
