------------------------------ MODULE WatText ------------------------------
(***************************************************************************)
(* The reader of the assembler (deep_wat.c): tokenize and parse_one, which *)
(* turn a text into an S-expression.  A text is written in pieces, each    *)
(* with the tokens a reader of the format would see in it: the code sees   *)
(* only their characters.  A letter stands for itself wherever it is, also *)
(* behind a backslash (as in \\, \" and \').                               *)
(***************************************************************************)
EXTENDS Integers, SequencesExt

CONSTANT StringCap      \* characters a string may have: 4095

VARIABLES
  pieces,   \* the text
  mode,     \* the loop tokenize is in: "next" (the outer one), "line" and
            \* "block" comment, "string"; then "parse" and the outcome: "tree",
            \* "empty", or "overrun" (it has read past the end of the text)
  ptr,      \* p, the next character
  nesting,  \* depth of the block comment
  chars,    \* the string so far
  tokens,
  ti,       \* the parser's next token
  open,     \* the children so far of each list that is open, innermost last
  tree      \* the expression, once it is complete

textVars == <<pieces, mode, ptr, nesting, chars, tokens, ti, open, tree>>

Piece(letters, seen) == [text |-> letters, tokens |-> seen]
Token(kind, letters) == [kind |-> kind, text |-> letters]
AtomToken(letters) == Token("atom", letters)
ParenToken(c) == Token(c, <<c>>)

text == FlattenSeq([i \in DOMAIN pieces |-> pieces[i].text])
NUL == "NUL"
Char(q) == IF q <= Len(text) THEN text[q] ELSE NUL
Pair(a, b) == Char(ptr) = a /\ Char(ptr + 1) = b
Blank == {" ", "\n"}
Stops == Blank \cup {"(", ")", ";", "\"", NUL}

TextInit(written) ==
  /\ pieces = written
  /\ mode = "next" /\ ptr = 1 /\ nesting = 0 /\ chars = <<>> /\ tokens = <<>>
  /\ ti = 1 /\ open = <<>> /\ tree = <<>>

Skip(n) == ptr' = ptr + n
Push(token) == tokens' = Append(tokens, token)
OnlyText == UNCHANGED <<pieces, ti, open, tree>>

-----------------------------------------------------------------------------
(***************************************************************************)
(* tokenize, an iteration of one of its loops a step.                      *)
(***************************************************************************)
TextEnds ==
  /\ mode = "next" /\ Char(ptr) = NUL
  /\ mode' = "parse"
  /\ UNCHANGED <<ptr, nesting, chars, tokens>> /\ OnlyText

SkipBlank ==
  /\ mode = "next" /\ Char(ptr) \in Blank
  /\ Skip(1)
  /\ UNCHANGED <<mode, nesting, chars, tokens>> /\ OnlyText

LineComment ==
  \/ /\ mode = "next" /\ Pair(";", ";")
     /\ mode' = "line"
     /\ UNCHANGED <<ptr, nesting, chars, tokens>> /\ OnlyText
  \/ /\ mode = "line"
     /\ IF Char(ptr) \in {NUL, "\n"} THEN mode' = "next" /\ UNCHANGED ptr
        ELSE Skip(1) /\ UNCHANGED mode
     /\ UNCHANGED <<nesting, chars, tokens>> /\ OnlyText

OpenBlockComment ==
  /\ mode = "next" /\ Pair("(", ";")
  /\ mode' = "block" /\ nesting' = 1 /\ Skip(2)
  /\ UNCHANGED <<chars, tokens>> /\ OnlyText
BlockComment ==
  /\ mode = "block" /\ Char(ptr) # NUL
  /\ nesting' = nesting + (IF Pair("(", ";") THEN 1 ELSE IF Pair(";", ")") THEN -1 ELSE 0)
  /\ Skip(IF nesting' = nesting THEN 1 ELSE 2)
  /\ mode' = IF nesting' = 0 THEN "next" ELSE "block"
  /\ UNCHANGED <<chars, tokens>> /\ OnlyText
BlockCommentCutOff ==
  /\ mode = "block" /\ Char(ptr) = NUL
  /\ mode' = "next"
  /\ UNCHANGED <<ptr, nesting, chars, tokens>> /\ OnlyText

Paren ==
  /\ mode = "next" /\ Char(ptr) \in {"(", ")"} /\ ~Pair("(", ";")
  /\ Push(ParenToken(Char(ptr))) /\ Skip(1)
  /\ UNCHANGED <<mode, nesting, chars>> /\ OnlyText

OpenString ==
  /\ mode = "next" /\ Char(ptr) = "\""
  /\ mode' = "string" /\ chars' = <<>> /\ Skip(1)
  /\ UNCHANGED <<nesting, tokens>> /\ OnlyText
(* A backslash takes the next character with it, even the end of the text; *)
(* what does not fit is dropped.                                           *)
Taken(c) == IF Len(chars) < StringCap THEN Append(chars, c) ELSE chars
StringCharEndsAtQuote ==
  /\ mode = "string" /\ Char(ptr) \notin {NUL, "\""}
  /\ chars' = Taken(Char(ptr)) /\ Skip(1)
  /\ UNCHANGED <<mode, nesting, tokens>> /\ OnlyText
StringChar ==
  /\ mode = "string" /\ Char(ptr) \notin {NUL, "\""}
  /\ LET escape == Char(ptr) = "\\"
         c == IF escape THEN Char(ptr + 1) ELSE Char(ptr)
     IN  /\ chars' = Taken(c)
         /\ Skip(IF escape THEN 2 ELSE 1)
         /\ mode' = IF c = NUL THEN "overrun" ELSE "string"
  /\ UNCHANGED <<nesting, tokens>> /\ OnlyText
CloseString ==
  /\ mode = "string" /\ Char(ptr) \in {NUL, "\""}
  /\ Push(AtomToken(chars))
  /\ Skip(IF Char(ptr) = NUL THEN 0 ELSE 1)
  /\ mode' = "next"
  /\ UNCHANGED <<nesting, chars>> /\ OnlyText

(* A semicolon that begins no comment stops an atom before it has begun:   *)
(* the outer loop comes back to it for ever.                               *)
AtLoneSemicolon ==
  mode = "next" /\ Char(ptr) = ";" /\ Char(ptr + 1) # ";"
StopOf(q) == CHOOSE e \in q..Len(text) + 1 :
               Char(e) \in Stops /\ \A k \in q..e - 1 : Char(k) \notin Stops
ReadAtom ==
  /\ mode = "next" /\ Char(ptr) \notin Stops \ {";"} /\ ~Pair(";", ";")
  /\ ptr' = StopOf(ptr)
  /\ tokens' = IF ptr' > ptr THEN Append(tokens, AtomToken(SubSeq(text, ptr, ptr' - 1)))
               ELSE tokens
  /\ UNCHANGED <<mode, nesting, chars>> /\ OnlyText

-----------------------------------------------------------------------------
(***************************************************************************)
(* parse_one, whose recursion is open.  A closing parenthesis with no list *)
(* open gives no expression; the end of the tokens closes every list.      *)
(***************************************************************************)
AtomNode(letters) == [atom |-> letters, kids |-> <<>>, list |-> FALSE]
ListNode(kids) == [atom |-> <<>>, kids |-> kids, list |-> TRUE]
OnlyTree == UNCHANGED <<pieces, ptr, nesting, chars, tokens>>

(* The expression is complete, or a child of the innermost open list.      *)
Give(lists, node) ==
  IF lists = <<>> THEN tree' = <<node>> /\ mode' = "tree" /\ open' = lists
  ELSE /\ open' = [lists EXCEPT ![Len(lists)] = Append(@, node)]
       /\ UNCHANGED <<tree, mode>>

Next1 == tokens[ti]
ParseAtom ==
  /\ mode = "parse" /\ ti <= Len(tokens) /\ Next1.kind = "atom"
  /\ Give(open, AtomNode(Next1.text)) /\ ti' = ti + 1
  /\ OnlyTree
ParseOpen ==
  /\ mode = "parse" /\ ti <= Len(tokens) /\ Next1.kind = "("
  /\ open' = Append(open, <<>>) /\ ti' = ti + 1
  /\ UNCHANGED <<tree, mode>> /\ OnlyTree
ParseClose ==
  /\ mode = "parse" /\ open # <<>>
  /\ ti <= Len(tokens) => Next1.kind = ")"
  /\ Give(Front(open), ListNode(Last(open)))
  /\ ti' = IF ti <= Len(tokens) THEN ti + 1 ELSE ti
  /\ OnlyTree
ParseNothing ==
  /\ mode = "parse" /\ open = <<>>
  /\ ti <= Len(tokens) => Next1.kind = ")"
  /\ mode' = "empty"
  /\ UNCHANGED <<ti, open, tree>> /\ OnlyTree

ReadText ==
  \/ TextEnds \/ SkipBlank \/ LineComment \/ OpenBlockComment \/ BlockComment
  \/ BlockCommentCutOff \/ Paren \/ OpenString \/ StringChar \/ CloseString \/ ReadAtom
  \/ ParseAtom \/ ParseOpen \/ ParseClose \/ ParseNothing

-----------------------------------------------------------------------------
(***************************************************************************)
(* The tokens are those that were written, whatever stands between them    *)
(* and inside them: comments of both kinds, one in the other, with quotes  *)
(* and parentheses in them, strings with quotes, comments and parentheses  *)
(* in them.                                                                *)
(***************************************************************************)
Written == FlattenSeq([i \in DOMAIN pieces |-> pieces[i].tokens])
TokensAsWritten == mode \in {"parse", "tree", "empty"} => tokens = Written

(***************************************************************************)
(* The expression is made of the tokens up to the parenthesis that closes  *)
(* the first one, or of all, with the closing ones that are missing.       *)
(***************************************************************************)
Unfolded(x) ==
  IF "kind" \in DOMAIN x THEN <<x>>
  ELSE IF ~x.list THEN <<AtomToken(x.atom)>>
  ELSE <<ParenToken("(")>> \o x.kids \o <<ParenToken(")")>>
(* Each pass unfolds a level; there are no more levels than tokens.        *)
Spelled(node) ==
  FoldLeft(LAMBDA seen, t : FlattenSeq([i \in DOMAIN seen |-> Unfolded(seen[i])]),
           <<node>>, tokens)
Count(ts, kind) == Len(SelectSeq(ts, LAMBDA t : t.kind = kind))
Unclosed(n) == Count(SubSeq(tokens, 1, n), "(") - Count(SubSeq(tokens, 1, n), ")")
TreeAsWritten ==
  mode = "tree" =>
    /\ Spelled(tree[1]) = SubSeq(tokens, 1, ti - 1)
                            \o [k \in 1..Unclosed(ti - 1) |-> ParenToken(")")]
    /\ Unclosed(ti - 1) > 0 => ti = Len(tokens) + 1
    /\ \A n \in 1..ti - 2 : Unclosed(n) > 0

(***************************************************************************)
(* The reader leaves the text only behind a backslash that is the last     *)
(* character of an open string, and is never more than one character off.  *)
(***************************************************************************)
StaysInText ==
  /\ ptr <= Len(text) + (IF mode = "overrun" THEN 2 ELSE 1)
  /\ mode = "overrun" => Last(text) = "\\"
=============================================================================
