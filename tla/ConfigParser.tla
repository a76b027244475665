---------------------------- MODULE ConfigParser ----------------------------
(***************************************************************************)
(* The config file parser, config_parser.cc: ParseToken reads characters   *)
(* until it has a token, Parse builds the tree of statements and blocks    *)
(* from the tokens; and the lookups of utils.cc in that tree.              *)
(*                                                                         *)
(* The file is any text of up to MaxChars characters.  A character is its  *)
(* class; the text of a token is one of Words, or ONE for a word of a      *)
(* single character and QUOTED for a quoted string.  The tree is flat: the *)
(* statements in the order of their creation, each with the block that it  *)
(* is in, where a block is the number of its statement and 0 is the file.  *)
(***************************************************************************)
EXTENDS Integers, Sequences, FiniteSets, FiniteSetsExt

CONSTANTS
  Chars,     \* the character classes that occur in the file
  MaxChars,  \* bound: the characters of the file
  Words      \* the words of two or more characters

(* "sp" is a space or a tab, "t" one of the letters t, n, r of an escape   *)
(* sequence, "ch" any other character.                                     *)
Char == {"{", "}", ";", "#", "dq", "sq", "bs", "sp", "lf", "cr", "t", "ch"}

ONE == "x"
QUOTED == "q"

ASSUME ConfigAssumption ==
  /\ Chars \subseteq Char
  /\ MaxChars \in Nat
  /\ ONE \notin Words /\ QUOTED \notin Words

VARIABLES
  good,             \* config_file->good()
  ungot,            \* the character put back with unget(), or "none"
  chars,            \* characters read, for the bound
  state,            \* ParseToken's state, or where Parse looks behind a string
  length,           \* the length of the token, 2 for two or more
  statements_,      \* the statements of all blocks
  config_stack,     \* the blocks that are open
  last_token_type,
  bracketCtr,
  outcome,          \* "parsing", what Parse returns, or "crash"
  group,            \* history: the statements ended and blocks begun or ended
  seen,             \* history: the words and strings that have begun
  stray             \* history: has a quoted string begun a statement?

stream == <<good, ungot, chars>>
token == <<state, length>>
tree == <<statements_, config_stack>>
vars == <<stream, token, tree, last_token_type, bracketCtr, outcome, group,
          seen, stray>>
-----------------------------------------------------------------------------
Whitespace == {"sp", "lf", "cr"}

(* The characters that end a word: '\r' is not one of them. *)
EndsWord == {"sp", "lf", ";", "{", "}"}

(* The states inside a quoted string.  In the escape states ParseToken has *)
(* read a backslash and looks at the character behind it.                  *)
InString == {"SINGLE_QUOTE", "DOUBLE_QUOTE", "SINGLE_ESCAPE", "DOUBLE_ESCAPE"}

Quote(s) == IF s \in {"SINGLE_QUOTE", "SINGLE_ESCAPE"} THEN "sq" ELSE "dq"

Escape(s) == IF s = "SINGLE_QUOTE" THEN "SINGLE_ESCAPE" ELSE "DOUBLE_ESCAPE"

Unescape(s) == IF s = "SINGLE_ESCAPE" THEN "SINGLE_QUOTE" ELSE "DOUBLE_QUOTE"

Init ==
  /\ good = TRUE /\ ungot = "none" /\ chars = 0
  /\ state = "INITIAL_WHITESPACE" /\ length = 0
  /\ statements_ = <<>> /\ config_stack = <<0>>
  /\ last_token_type = "START"
  /\ bracketCtr = 0
  /\ outcome = "parsing"
  /\ group = 0 /\ seen = 0 /\ stray = FALSE

(* input->get() gives c, and input->unget() puts it back if back holds. *)
Get(c, back) ==
  /\ outcome = "parsing"
  /\ good
  /\ c \in Chars
  /\ IF ungot = "none" THEN chars < MaxChars /\ chars' = chars + 1
                       ELSE c = ungot /\ UNCHANGED chars
  /\ ungot' = IF back THEN c ELSE "none"
  /\ UNCHANGED good

(* input->get() finds the end of the file, now or in an earlier call. *)
GetEof == outcome = "parsing" /\ ungot = "none" /\ good' = FALSE
            /\ UNCHANGED <<ungot, chars>>

(* The next call of ParseToken, with an empty token. *)
NextToken == state' = "INITIAL_WHITESPACE" /\ length' = 0

(* Parse returns false. *)
Error ==
  /\ outcome' = "false"
  /\ UNCHANGED <<tree, last_token_type, bracketCtr, group, stray>>
-----------------------------------------------------------------------------
(* Mutant: every character is put back. *)
Scan_PutsBack(c, back, s, n) ==
  /\ Get(c, TRUE)
  /\ state' = s /\ length' = n
  /\ UNCHANGED <<tree, last_token_type, bracketCtr, outcome, group, stray>>

(* ParseToken goes on to state s with n characters. *)
Scan(c, back, s, n) ==
  /\ Get(c, back)
  /\ state' = s /\ length' = n
  /\ UNCHANGED <<tree, last_token_type, bracketCtr, outcome, group, stray>>

SkipWhitespace(c) ==
  /\ state = "INITIAL_WHITESPACE" /\ c \in Whitespace
  /\ Scan(c, FALSE, state, length)
  /\ UNCHANGED seen

BeginToken(c) ==
  /\ state = "INITIAL_WHITESPACE"
  /\ c \notin Whitespace \cup {"{", "}", ";"}
  /\ Scan(c, FALSE, CASE c = "#" -> "COMMENT" [] c = "dq" -> "DOUBLE_QUOTE"
                      [] c = "sq" -> "SINGLE_QUOTE" [] OTHER -> "NORMAL", 1)
  /\ seen' = IF c = "#" THEN seen ELSE seen + 1

(* A further character of a word, a comment or a quoted string. *)
InsideToken(c) ==
  /\ \/ state = "NORMAL" /\ c \notin EndsWord
     \/ state = "COMMENT" /\ c \notin {"lf", "cr"}
     \/ state \in {"SINGLE_QUOTE", "DOUBLE_QUOTE"} /\ c # Quote(state)
  /\ Scan(c, FALSE,
          IF state \in InString /\ c = "bs" THEN Escape(state) ELSE state, 2)
  /\ UNCHANGED seen

(* The character behind a backslash: part of the escape sequence, or else  *)
(* put back to be read as itself.                                          *)
AfterBackslash(c) ==
  /\ state \in {"SINGLE_ESCAPE", "DOUBLE_ESCAPE"}
  /\ Scan(c, c \notin {"t", Quote(state)}, Unescape(state), 2)
  /\ UNCHANGED seen

(* A comment ends, and Parse skips it. *)
EndComment(c) ==
  /\ state = "COMMENT" /\ c \in {"lf", "cr"}
  /\ Scan(c, FALSE, "INITIAL_WHITESPACE", 0)
  /\ UNCHANGED seen

(* A quoted string ends: TOKEN_TYPE_QUOTED_STRING. *)
EndString(c) ==
  /\ state \in {"SINGLE_QUOTE", "DOUBLE_QUOTE"} /\ c = Quote(state)
  /\ Scan(c, FALSE, "QUOTED_STRING", 2)
  /\ UNCHANGED seen
-----------------------------------------------------------------------------
Top == config_stack[Len(config_stack)]

(* statements_ of a block, and its last one. *)
In(b) == {i \in DOMAIN statements_ :
            statements_[i].in = b /\ statements_[i].live}

Back(b) == Max(In(b))

InStatement == last_token_type \in {"NORMAL", "QUOTED_STRING"}

AddToken(i, word) ==
  statements_' = [statements_ EXCEPT ![i].tokens =
                    Append(@, [word |-> word, group |-> group])]

(* Mutant: a word always begins a statement. *)
ParseNormal_AlwaysNew(word) ==
  /\ statements_' = Append(statements_,
                      [in |-> Top, block |-> FALSE, live |-> TRUE,
                       tokens |-> <<[word |-> word, group |-> group]>>])
  /\ last_token_type' = "NORMAL"
  /\ UNCHANGED <<config_stack, bracketCtr, outcome, group, stray>>

(* Parse gets a word. *)
ParseNormal(word) ==
  /\ IF InStatement THEN AddToken(Back(Top), word)
     ELSE statements_' = Append(statements_,
                           [in |-> Top, block |-> FALSE, live |-> TRUE,
                            tokens |-> <<[word |-> word, group |-> group]>>])
  /\ last_token_type' = "NORMAL"
  /\ UNCHANGED <<config_stack, bracketCtr, outcome, group, stray>>

EndWord(c) ==
  /\ state = "NORMAL" /\ c \in EndsWord
  /\ Get(c, TRUE)
  /\ \E word \in IF length = 1 THEN {ONE} ELSE Words : ParseNormal(word)
  /\ NextToken
  /\ UNCHANGED seen

(* Parse gets a quoted string and looks at the character behind it.  The   *)
(* string goes to the last statement of the block, whatever the last token *)
(* was; back() of a block without statements is undefined.                 *)
ParseQuoted(c) ==
  /\ state = "QUOTED_STRING"
  /\ Get(c, TRUE)
  /\ NextToken
  /\ UNCHANGED seen
  /\ \/ c \notin Whitespace \cup {";", "{"} /\ Error
     \/ /\ c \in Whitespace \cup {";", "{"}
        /\ \/ /\ In(Top) = {}
              /\ outcome' = "crash"
              /\ UNCHANGED <<tree, last_token_type>>
           \/ /\ In(Top) # {}
              /\ AddToken(Back(Top), QUOTED)
              /\ last_token_type' = "QUOTED_STRING"
              /\ UNCHANGED <<config_stack, outcome>>
        /\ stray' = (stray \/ ~InStatement)
        /\ UNCHANGED <<bracketCtr, group>>

(* One of the characters that are tokens of their own. *)
Punctuation(c) ==
  /\ state = "INITIAL_WHITESPACE"
  /\ Get(c, FALSE)
  /\ UNCHANGED <<token, seen>>

ParseStatementEnd ==
  /\ Punctuation(";")
  /\ \/ ~InStatement /\ Error
     \/ /\ InStatement
        /\ last_token_type' = "STATEMENT_END"
        /\ group' = group + 1
        /\ UNCHANGED <<tree, bracketCtr, outcome, stray>>

(* The last statement becomes a block; the block it may have had is freed. *)
ParseStartBlock ==
  /\ Punctuation("{")
  /\ \/ ~InStatement /\ Error
     \/ /\ InStatement
        /\ statements_' = [i \in DOMAIN statements_ |->
             [statements_[i] EXCEPT
                !.block = @ \/ i = Back(Top),
                !.live = @ /\ statements_[i].in # Back(Top)]]
        /\ config_stack' = Append(config_stack, Back(Top))
        /\ bracketCtr' = bracketCtr + 1
        /\ last_token_type' = "START_BLOCK"
        /\ group' = group + 1
        /\ UNCHANGED <<outcome, stray>>

(* Mutant: the block is not taken off the stack. *)
Pop_Missing == config_stack

(* config_stack.pop(). *)
Pop == SubSeq(config_stack, 1, Len(config_stack) - 1)

(* Mutant: a bracket too many is not noticed. *)
Checked_Not(n) == outcome

(* The test at the head of Parse's loop. *)
Checked(n) == IF n < 0 THEN "false" ELSE outcome

(* A block ends. *)
ParseEndBlock ==
  /\ Punctuation("}")
  /\ \/ last_token_type \notin {"STATEMENT_END", "END_BLOCK", "START_BLOCK"}
        /\ Error
     \/ /\ last_token_type \in {"STATEMENT_END", "END_BLOCK", "START_BLOCK"}
        /\ config_stack' = Pop
        /\ bracketCtr' = bracketCtr - 1
        /\ outcome' = Checked(bracketCtr - 1)
        /\ last_token_type' = "END_BLOCK"
        /\ group' = group + 1
        /\ UNCHANGED <<statements_, stray>>

(* Mutant: brackets that are still open are not noticed. *)
Ends_Open == last_token_type \in {"STATEMENT_END", "END_BLOCK", "START"}

(* Parse may end here. *)
Ends == /\ bracketCtr = 0
        /\ last_token_type \in {"STATEMENT_END", "END_BLOCK", "START"}

(* The end of the file.  A word or a comment of two or more characters is  *)
(* a token, and the end is found again by the next call; one character is  *)
(* as good as none.                                                        *)
Eof ==
  /\ GetEof
  /\ UNCHANGED seen
  /\ \/ state = "NORMAL" /\ length > 1
        /\ NextToken /\ \E word \in Words : ParseNormal(word)
     \/ state = "COMMENT" /\ length > 1 /\ NextToken
        /\ UNCHANGED <<tree, last_token_type, bracketCtr, outcome, group,
                       stray>>
     \/ state \in InString \cup {"QUOTED_STRING"} /\ Error /\ UNCHANGED token
     \/ /\ state = "INITIAL_WHITESPACE"
             \/ (state \in {"NORMAL", "COMMENT"} /\ length = 1)
        /\ outcome' = IF Ends THEN "true" ELSE "false"
        /\ UNCHANGED <<token, tree, last_token_type, bracketCtr, group, stray>>

ParseToken(c) ==
  \/ SkipWhitespace(c)
  \/ BeginToken(c)
  \/ InsideToken(c)
  \/ AfterBackslash(c)
  \/ EndComment(c)
  \/ EndString(c)
  \/ EndWord(c)
  \/ ParseQuoted(c)

Next ==
  \/ \E c \in Chars : ParseToken(c)
  \/ ParseStatementEnd
  \/ ParseStartBlock
  \/ ParseEndBlock
  \/ Eof

Spec == Init /\ [][Next]_vars

(* Parse is a loop that runs on; the file has an end. *)
FairSpec == Spec /\ WF_vars(Next)
-----------------------------------------------------------------------------
(* The first statement of a set, those of a name, and those with a block. *)
First(S) == IF S = {} THEN {} ELSE {Min(S)}

Named(S, word) == {i \in S : statements_[i].tokens[1].word = word}

Blocks(b) == {i \in In(b) : statements_[i].block}

(* Mutant: the blocks are not entered. *)
configLookup_Flat(b, block_names, field_name) ==
  LET fields == First(Named(In(b) \ Blocks(b), field_name))
  IN  IF fields = {} THEN <<>> ELSE Tail(statements_[Min(fields)].tokens)

(* configLookup: into the first block of each name, then the values of the *)
(* first field of that name; none when there is no such block or field.    *)
configLookup(b, block_names, field_name) ==
  LET reached[k \in 0 .. Len(block_names)] ==
        IF k = 0 THEN {b}
        ELSE UNION {First(Named(Blocks(c), block_names[k])) :
                      c \in reached[k - 1]}
      fields == UNION {First(Named(In(c) \ Blocks(c), field_name)) :
                         c \in reached[Len(block_names)]}
  IN  IF fields = {} THEN <<>> ELSE Tail(statements_[Min(fields)].tokens)

(* getPortNumber: the word that atoi is given, or "-1". *)
getPortNumber ==
  LET field_values == configLookup(0, <<"server">>, "port")
  IN  IF Len(field_values) # 1 THEN "-1" ELSE field_values[1].word
-----------------------------------------------------------------------------
Token == [word : Words \cup {ONE, QUOTED}, group : Nat]

(* A statement has at least one token, the name that the lookups go by. *)
Statement ==
  [in : Nat, tokens : Seq(Token) \ {<<>>}, block : BOOLEAN, live : BOOLEAN]

(* Type invariant. *)
TypeOK ==
  /\ good \in BOOLEAN
  /\ ungot \in Chars \cup {"none"}
  /\ chars \in 0 .. MaxChars
  /\ state \in InString \cup {"INITIAL_WHITESPACE", "COMMENT", "NORMAL",
                              "QUOTED_STRING"}
  /\ length \in 0 .. 2
  /\ statements_ \in Seq(Statement)
  /\ config_stack \in Seq(Nat)
  /\ last_token_type \in {"START", "NORMAL", "QUOTED_STRING", "STATEMENT_END",
                          "START_BLOCK", "END_BLOCK"}
  /\ bracketCtr \in IF outcome = "parsing" THEN Nat ELSE Nat \cup {-1}
  /\ outcome \in {"parsing", "true", "false", "crash"}
  /\ group \in Nat /\ seen \in Nat /\ stray \in BOOLEAN

(* config_stack and bracketCtr count the same brackets, and the stack is a *)
(* path of the tree from the file to the innermost open block: none of its *)
(* pointers is to a block that was freed, and top() is never taken of an   *)
(* empty stack.  In the middle of a statement that block has one to add to.*)
StackIsPath ==
  outcome \in {"parsing", "true"} =>
    /\ Len(config_stack) = bracketCtr + 1
    /\ config_stack # <<>> /\ config_stack[1] = 0
    /\ \A k \in 2 .. Len(config_stack) :
         LET i == config_stack[k]
         IN  /\ i \in In(config_stack[k - 1])
             /\ statements_[i].block
    /\ InStatement => In(Top) # {}

(* include/config_parser.h: "The parsed representation of a single config  *)
(* statement."  Two tokens are in the same statement just if no ';', '{'   *)
(* or '}' stands between them in the file.                                 *)
StatementsAreApart ==
  \A i, j \in DOMAIN statements_ :
    \A a \in DOMAIN statements_[i].tokens, b \in DOMAIN statements_[j].tokens :
      (i = j) <=> (statements_[i].tokens[a].group
                     = statements_[j].tokens[b].group)

(* It is so for files in which no statement begins with a quoted string. *)
WordsAreApart == ~stray => StatementsAreApart

(* The tokens in the tree: those of a block that was freed are gone. *)
Kept == SumFunction([i \in DOMAIN statements_ |->
          IF statements_[i].live THEN Len(statements_[i].tokens) ELSE 0])

(* A file that Parse accepts has its brackets closed, and what it says is  *)
(* in the tree, but for one character in front of the end of the file: no  *)
(* word is dropped, and no block is freed again once it was built.         *)
AcceptedIsComplete ==
  outcome = "true" /\ ~stray =>
    /\ bracketCtr = 0
    /\ seen - Kept = IF state = "NORMAL" THEN 1 ELSE 0

(* include/config_parser.h: "Returns true iff the input config file is     *)
(* valid."  A file that ends in the middle of a statement is not.          *)
AcceptedIsValid == outcome = "true" => state # "NORMAL"

(* The port is the value of a port field of the first server block of the  *)
(* file, and a file with one server block with one such field has a port.  *)
PortIsTheServers ==
  outcome = "true" =>
    LET servers == Named(Blocks(0), "server")
        ports(s) == Named(In(s) \ Blocks(s), "port")
        valued(p) == Len(statements_[p].tokens) = 2
    IN  /\ getPortNumber # "-1" =>
             \E s \in servers : /\ \A r \in servers : s <= r
                                /\ \E p \in ports(s) : valued(p)
        /\ \A s \in servers, p \in UNION {ports(r) : r \in servers} :
             servers = {s} /\ ports(s) = {p} /\ valued(p) =>
               getPortNumber = statements_[p].tokens[2].word

(* A statement is in a block that began before it, so the tree has no      *)
(* cycle.                                                                  *)
BlocksComeFirst == \A i \in DOMAIN statements_ : statements_[i].in < i

(* As long as no statement begins with a quoted string, no block is freed, *)
(* and the statement that is being read is the last of all.                *)
NothingFreed ==
  ~stray =>
    /\ \A i \in DOMAIN statements_ : statements_[i].live
    /\ outcome = "parsing" /\ InStatement => Len(statements_) \in In(Top)

(* The tokens of that statement, and no others, are of the current group. *)
GroupIsCurrent ==
  outcome = "parsing" /\ ~stray =>
    \A i \in DOMAIN statements_ : \A a \in DOMAIN statements_[i].tokens :
      LET g == statements_[i].tokens[a].group
      IN  /\ g <= group
          /\ g = group <=> InStatement /\ i = Len(statements_)

(* Every word and string that has begun is in the tree or being read. *)
Pending == IF state \in InString \cup {"NORMAL", "QUOTED_STRING"} THEN 1 ELSE 0

AllKept == outcome = "parsing" /\ ~stray => seen = Kept + Pending

(* The inductive invariant behind the safety properties proved. *)
IInv ==
  /\ TypeOK /\ BlocksComeFirst /\ StackIsPath
  /\ NothingFreed /\ GroupIsCurrent /\ WordsAreApart
  /\ AllKept /\ AcceptedIsComplete

(* Parse comes to an end, whatever the file holds. *)
ParseEnds == <>(outcome # "parsing")
=============================================================================
