------------------------- MODULE ConfigParserProofs -------------------------
(***************************************************************************)
(* The safety of the config file parser, for files of any length and words *)
(* of any kind.  IInv is inductive.  StackIsPath needs that a statement    *)
(* comes behind the block it is in (BlocksComeFirst): so the stack goes up *)
(* and the statement that a "{" turns into a block is not on it yet.       *)
(* WordsAreApart needs that the statement that is written to is the last   *)
(* one and the only one of the current group (GroupIsCurrent), which it is *)
(* as long as no block was freed (NothingFreed).  AcceptedIsComplete needs *)
(* the count of the words kept so far (AllKept): what a token adds to the  *)
(* sum Kept is told by SizesAddToken and SizesAddStatement, the lemmas     *)
(* that rest on module DataInduction.  PortIsTheServers follows from the   *)
(* shape of the tree and is not needed in the induction.                   *)
(***************************************************************************)
EXTENDS ConfigParser, DataInduction, SequenceTheorems

(* The last statement of a block is in it, and behind the others. *)
LEMMA MaxIs ==
  ASSUME NEW n \in Nat, NEW S \in SUBSET (1 .. n), S # {}
  PROVE  /\ Max(S) \in S
         /\ \A y \in S : y <= Max(S)
         /\ n \in S => Max(S) = n
<1>1. S \in SUBSET (0 .. n)
  OBVIOUS
<1>2. PICK x \in S : \A y \in S : y <= x
  BY <1>1, GreatestNumber
<1>3. \A y \in S : x >= y
  BY <1>2
<1>4. Max(S) \in S /\ \A y \in S : Max(S) >= y
  BY <1>3 DEF Max
<1>5. PICK m : m = Max(S)
  OBVIOUS
<1>6. \A y \in S : y \in Nat /\ y <= n
  OBVIOUS
<1>7. m \in S /\ \A y \in S : y <= m
  BY <1>4, <1>5, <1>6
<1>8. n \in S => m = n
  BY <1>6, <1>7
<1> QED
  BY <1>5, <1>7, <1>8

(* The first statement of a set is in it, and in front of the others. *)
LEMMA MinIs ==
  ASSUME NEW S \in SUBSET Nat, S # {}
  PROVE  Min(S) \in S /\ \A y \in S : Min(S) <= y
  BY LeastNumber DEF Min

(* What AddToken, and ParseNormal at the beginning of a statement, do with *)
(* the statements.                                                         *)
AddsToken(ss, i, tok, tt) ==
  tt = [ss EXCEPT ![i].tokens = Append(@, tok)]
AddsStatement(ss, b, tok, tt) ==
  tt = Append(ss, [in |-> b, block |-> FALSE, live |-> TRUE,
                   tokens |-> <<tok>>])

(* A token is added to one statement. *)
LEMMA TokenAdded ==
  ASSUME NEW ss \in Seq(Statement), NEW i \in DOMAIN ss, NEW tok \in Token,
         NEW tt, AddsToken(ss, i, tok, tt)
  PROVE  /\ tt \in Seq(Statement) /\ Len(tt) = Len(ss)
         /\ \A j \in DOMAIN ss : /\ tt[j].in = ss[j].in
                                 /\ tt[j].block = ss[j].block
                                 /\ tt[j].live = ss[j].live
         /\ \A j \in DOMAIN ss : j # i => tt[j].tokens = ss[j].tokens
         /\ tt[i].tokens = Append(ss[i].tokens, tok)
<1>1. ss[i] \in Statement
  OBVIOUS
<1>2. Append(ss[i].tokens, tok) \in Seq(Token) \ {<<>>}
  <2>1. PICK ts \in Seq(Token) : ts = ss[i].tokens
    BY <1>1 DEF Statement
  <2>2. Append(ts, tok) \in Seq(Token) /\ Append(ts, tok) # <<>>
    OBVIOUS
  <2> QED
    BY <2>1, <2>2
<1>3. PICK x : x = [ss[i] EXCEPT !.tokens = Append(ss[i].tokens, tok)]
  OBVIOUS
<1>4. /\ x \in Statement /\ x.in = ss[i].in /\ x.block = ss[i].block
      /\ x.live = ss[i].live /\ x.tokens = Append(ss[i].tokens, tok)
  BY <1>1, <1>2, <1>3 DEF Statement
<1>5. tt = [ss EXCEPT ![i] = x]
  BY <1>3 DEF AddsToken
<1>6. /\ DOMAIN ss = 1 .. Len(ss) /\ Len(ss) \in Nat
      /\ \A j \in DOMAIN ss : ss[j] \in Statement
  OBVIOUS
<1>7. /\ DOMAIN tt = 1 .. Len(ss) /\ tt[i] = x
      /\ \A j \in DOMAIN ss : j # i => tt[j] = ss[j]
  BY <1>5, <1>6
<1>8. tt \in [1 .. Len(ss) -> Statement]
  BY <1>4, <1>5, <1>6
<1>9. tt \in Seq(Statement) /\ Len(tt) = Len(ss)
  BY <1>6, <1>8
<1> QED
  BY <1>4, <1>7, <1>9

(* A statement is added with its first token. *)
LEMMA StatementAdded ==
  ASSUME NEW ss \in Seq(Statement), NEW b \in Nat, NEW tok \in Token,
         NEW tt, AddsStatement(ss, b, tok, tt)
  PROVE  /\ tt \in Seq(Statement) /\ Len(tt) = Len(ss) + 1
         /\ \A j \in DOMAIN ss : tt[j] = ss[j]
         /\ tt[Len(ss) + 1].in = b /\ tt[Len(ss) + 1].live
         /\ tt[Len(ss) + 1].tokens = <<tok>>
<1>1. PICK x : x = [in |-> b, block |-> FALSE, live |-> TRUE,
                    tokens |-> <<tok>>]
  OBVIOUS
<1>2. x \in Statement /\ x.in = b /\ x.live /\ x.tokens = <<tok>>
  BY <1>1 DEF Statement
<1>3. tt = Append(ss, x)
  BY <1>1 DEF AddsStatement
<1> QED
  BY <1>2, <1>3
-----------------------------------------------------------------------------
(* The lengths of the statements in the tree. *)
Sizes(ss) == [i \in DOMAIN ss |-> IF ss[i].live THEN Len(ss[i].tokens) ELSE 0]

LEMMA SizesAre ==
  ASSUME NEW ss \in Seq(Statement)
  PROVE  /\ Sizes(ss) \in [1 .. Len(ss) -> Nat]
         /\ IsFiniteSet(1 .. Len(ss))
         /\ DOMAIN ss = 1 .. Len(ss)
<1>1. DOMAIN ss = 1 .. Len(ss) /\ Len(ss) \in Nat
  OBVIOUS
<1>2. IsFiniteSet(1 .. Len(ss))
  BY <1>1, FS_Interval
<1>3. \A i \in DOMAIN ss : Len(ss[i].tokens) \in Nat
  BY DEF Statement
<1> QED
  BY <1>1, <1>2, <1>3 DEF Sizes

(* How many tokens there are in the tree is a number. *)
LEMMA KeptIsNumber ==
  ASSUME NEW ss, ss \in Seq(Statement)
  PROVE  SumFunction(Sizes(ss)) \in Nat
<1>1. PICK f, n : f = Sizes(ss) /\ n = Len(ss)
  OBVIOUS
<1>2. f \in [1 .. n -> Nat] /\ IsFiniteSet(1 .. n)
  BY <1>1, SizesAre
<1> QED
  BY <1>1, <1>2, SumIsNumber

(* One token more in the tree. *)
LEMMA SizesAddToken ==
  ASSUME NEW ss \in Seq(Statement), NEW i \in DOMAIN ss, ss[i].live,
         NEW tok \in Token,
         NEW tt, AddsToken(ss, i, tok, tt)
  PROVE  /\ SumFunction(Sizes(ss)) \in Nat
         /\ SumFunction(Sizes(tt)) = SumFunction(Sizes(ss)) + 1
<1>1. /\ tt \in Seq(Statement) /\ Len(tt) = Len(ss)
      /\ \A j \in DOMAIN ss : tt[j].live = ss[j].live
      /\ \A j \in DOMAIN ss : j # i => tt[j].tokens = ss[j].tokens
      /\ tt[i].tokens = Append(ss[i].tokens, tok)
  BY TokenAdded
<1>2. PICK f : f = Sizes(ss)
  OBVIOUS
<1>3. /\ f \in [1 .. Len(ss) -> Nat] /\ IsFiniteSet(1 .. Len(ss))
      /\ i \in 1 .. Len(ss) /\ DOMAIN ss = 1 .. Len(ss)
      /\ DOMAIN tt = 1 .. Len(ss)
  BY <1>1, <1>2, SizesAre
<1>4. f[i] = Len(ss[i].tokens)
  BY <1>2 DEF Sizes
<1>5. Len(tt[i].tokens) = Len(ss[i].tokens) + 1
  BY <1>1 DEF Statement
<1>6. Sizes(tt) = [f EXCEPT ![i] = f[i] + 1]
  <2>1. PICK g, h : g = Sizes(tt) /\ h = [f EXCEPT ![i] = f[i] + 1]
    OBVIOUS
  <2>2. /\ g = [j \in 1 .. Len(ss) |-> g[j]]
        /\ h = [j \in 1 .. Len(ss) |-> h[j]]
    <3>1. g \in [1 .. Len(ss) -> Nat]
      BY <1>1, <2>1, SizesAre
    <3>2. h \in [1 .. Len(ss) -> Nat]
      BY <1>3, <2>1
    <3> QED
      BY <3>1, <3>2
  <2>3. ASSUME NEW j \in 1 .. Len(ss) PROVE g[j] = h[j]
    <3>1. CASE j = i
      BY <1>1, <1>3, <1>4, <1>5, <2>1, <3>1 DEF Sizes
    <3>2. CASE j # i
      BY <1>1, <1>2, <1>3, <2>1, <3>2 DEF Sizes
    <3> QED
      BY <3>1, <3>2
  <2> QED
    BY <2>1, <2>2, <2>3
<1>7. /\ SumFunction(f) \in Nat
      /\ SumFunction([f EXCEPT ![i] = f[i] + 1]) = SumFunction(f) + 1
  BY <1>3, SumIncrement
<1> QED
  BY <1>2, <1>6, <1>7

LEMMA SizesAddStatement ==
  ASSUME NEW ss \in Seq(Statement), NEW b \in Nat, NEW tok \in Token,
         NEW tt, AddsStatement(ss, b, tok, tt)
  PROVE  /\ SumFunction(Sizes(ss)) \in Nat
         /\ SumFunction(Sizes(tt)) = SumFunction(Sizes(ss)) + 1
<1>1. /\ tt \in Seq(Statement) /\ Len(tt) = Len(ss) + 1
      /\ \A j \in DOMAIN ss : tt[j] = ss[j]
      /\ tt[Len(ss) + 1].live
      /\ tt[Len(ss) + 1].tokens = <<tok>>
  BY StatementAdded
<1>0. PICK n \in Nat : n = Len(ss)
  OBVIOUS
<1>2. PICK f, e : n = Len(ss) /\ f = Sizes(tt) /\ e = Sizes(ss)
  BY <1>0
<1>3. /\ f \in [1 .. n + 1 -> Nat] /\ IsFiniteSet(1 .. n + 1)
      /\ e \in [1 .. n -> Nat]
      /\ DOMAIN ss = 1 .. n /\ DOMAIN tt = 1 .. n + 1
  BY <1>1, <1>2, SizesAre
<1>4. (1 .. n + 1) \ {n + 1} = 1 .. n /\ n + 1 \in 1 .. n + 1
  OBVIOUS
<1>5. f[n + 1] = 1
  <2>1. f[n + 1] = IF tt[n + 1].live THEN Len(tt[n + 1].tokens) ELSE 0
    BY <1>2, <1>3, <1>4 DEF Sizes
  <2>2. Len(tt[n + 1].tokens) = 1
    BY <1>1, <1>2
  <2> QED
    BY <1>1, <1>2, <2>1, <2>2
<1>6. ASSUME NEW x \in 1 .. n PROVE e[x] = f[x]
  <2>0. x \in 1 .. n + 1
    OBVIOUS
  <2>1. x \in DOMAIN ss /\ x \in DOMAIN tt /\ tt[x] = ss[x]
    BY <1>1, <1>3, <2>0
  <2> QED
    BY <1>2, <2>1 DEF Sizes
<1>7. /\ SumFunction(e) \in Nat
      /\ SumFunction(f) = f[n + 1] + SumFunction(e)
  BY <1>3, <1>6, SumLonger
<1> QED
  BY <1>2, <1>5, <1>7
-----------------------------------------------------------------------------
(* The two halves of the type invariant: the tree, and the characters. *)
TreeType ==
  /\ statements_ \in Seq(Statement)
  /\ config_stack \in Seq(Nat)
  /\ last_token_type \in {"START", "NORMAL", "QUOTED_STRING", "STATEMENT_END",
                          "START_BLOCK", "END_BLOCK"}
  /\ bracketCtr \in IF outcome = "parsing" THEN Nat ELSE Nat \cup {-1}
  /\ outcome \in {"parsing", "true", "false", "crash"}
  /\ group \in Nat /\ stray \in BOOLEAN

StreamType ==
  /\ good \in BOOLEAN
  /\ ungot \in Chars \cup {"none"}
  /\ chars \in 0 .. MaxChars
  /\ state \in InString \cup {"INITIAL_WHITESPACE", "COMMENT", "NORMAL",
                              "QUOTED_STRING"}
  /\ length \in 0 .. 2
  /\ seen \in Nat

(* What the steps of Parse preserve of the tree. *)
TreeInv ==
  /\ TreeType /\ BlocksComeFirst /\ StackIsPath
  /\ NothingFreed /\ GroupIsCurrent /\ WordsAreApart

LEMMA IInvParts ==
  IInv => TreeInv /\ StreamType /\ AllKept /\ AcceptedIsComplete
  BY DEF IInv, TreeInv, TypeOK, TreeType, StreamType

LEMMA IInvWhole ==
  /\ TreeInv /\ StreamType /\ AllKept /\ AcceptedIsComplete => IInv
  /\ (TreeInv /\ StreamType /\ AllKept /\ AcceptedIsComplete)' => IInv'
  BY DEF IInv, TreeInv, TypeOK, TreeType, StreamType

(* The stack goes up: each block began after the one around it.  So the    *)
(* last statement of the innermost block is not itself on the stack.       *)
LEMMA WhileParsing ==
  ASSUME TreeInv, outcome = "parsing"
  PROVE  /\ Len(config_stack) \in Nat /\ Len(config_stack) >= 1
         /\ Top \in Nat /\ Top <= Len(statements_)
         /\ \A k \in 1 .. Len(config_stack) : config_stack[k] <= Top
         /\ In(Top) # {} => /\ Back(Top) \in In(Top)
                            /\ Back(Top) \in DOMAIN statements_
                            /\ Top < Back(Top)
                            /\ Len(statements_) \in In(Top) =>
                                 Back(Top) = Len(statements_)
<1> USE DEF TreeInv
<1>1. /\ config_stack \in Seq(Nat) /\ statements_ \in Seq(Statement)
      /\ bracketCtr \in Nat
      /\ Len(config_stack) = bracketCtr + 1 /\ config_stack[1] = 0
      /\ \A k \in 2 .. Len(config_stack) :
           config_stack[k] \in In(config_stack[k - 1])
  BY DEF TreeType, StackIsPath
<1>t. config_stack \in Seq(Nat) /\ statements_ \in Seq(Statement)
  BY <1>1
<1>2. PICK n \in Nat, m \in Nat : n = Len(config_stack) /\ m = Len(statements_)
  <2>1. Len(config_stack) \in Nat /\ Len(statements_) \in Nat
    BY <1>t
  <2> QED
    BY <2>1
<1>3. n >= 1 /\ \A k \in 1 .. n : config_stack[k] \in Nat
  BY <1>1, <1>2
<1>4. /\ DOMAIN statements_ = 1 .. m
      /\ \A j \in 1 .. m : statements_[j].in \in Nat /\ statements_[j].in < j
  <2>1. DOMAIN statements_ = 1 .. m
    BY <1>t, <1>2
  <2>2. \A j \in 1 .. m : statements_[j] \in Statement
    BY <1>t, <2>1
  <2> QED
    BY <2>1, <2>2 DEF BlocksComeFirst, Statement
<1>5. \A b : In(b) \in SUBSET (1 .. m)
             /\ \A j \in In(b) : statements_[j].in = b
  BY <1>4 DEF In
<1>6. Top = config_stack[n] /\ Top \in Nat
  BY <1>2, <1>3 DEF Top
<1>7. Top <= m
  <2>1. CASE n = 1
    BY <1>1, <1>6, <2>1
  <2>2. CASE n # 1
    <3>1. n \in 2 .. Len(config_stack)
      BY <1>2, <1>3, <2>2
    <3>2. Top \in In(config_stack[n - 1])
      BY <1>1, <1>6, <3>1
    <3>3. Top \in 1 .. m
      BY <1>5, <3>2
    <3> QED
      BY <3>3
  <2> QED
    BY <2>1, <2>2
<1>8. \A k \in 1 .. n : config_stack[k] <= Top
  <2> DEFINE a == [i \in 0 .. n - 1 |-> config_stack[n - i]]
             D == {x \in Nat : x <= Top}
  <2>1. a[0] \in D
    BY <1>3, <1>6
  <2>2. ASSUME NEW i \in 1 .. n - 1, a[i - 1] \in D PROVE a[i] \in D
    <3>1. PICK k \in 2 .. n : k = n - (i - 1)
      BY <1>3
    <3>2. a[i - 1] = config_stack[k] /\ a[i] = config_stack[k - 1]
      BY <3>1
    <3>3. config_stack[k] \in In(config_stack[k - 1])
      BY <1>1, <1>2
    <3>4. config_stack[k] \in 1 .. m
          /\ statements_[config_stack[k]].in = config_stack[k - 1]
      BY <1>5, <3>3
    <3>5. k \in 1 .. n /\ k - 1 \in 1 .. n
      OBVIOUS
    <3>6. config_stack[k - 1] \in Nat /\ config_stack[k] \in Nat
      BY <1>3, <3>5
    <3>7. config_stack[k - 1] < config_stack[k]
      BY <1>4, <3>4
    <3>8. config_stack[k] <= Top
      BY <2>2, <3>2
    <3> HIDE DEF a
    <3> QED
      BY <1>6, <3>2, <3>6, <3>7, <3>8
  <2>3. \A i \in 0 .. n - 1 : a[i] \in D
    <3>1. n - 1 \in Nat
      BY <1>3
    <3> HIDE DEF a, D
    <3> QED
      BY <2>1, <2>2, <3>1, LoopInvariant
  <2>4. ASSUME NEW k \in 1 .. n PROVE config_stack[k] <= Top
    <3>1. n - k \in 0 .. n - 1 /\ n - (n - k) = k
      OBVIOUS
    <3>2. a[n - k] = config_stack[k]
      BY <3>1
    <3> HIDE DEF a
    <3> QED
      BY <2>3, <3>1, <3>2
  <2> QED
    BY <2>4
<1>9. ASSUME In(Top) # {}
      PROVE  /\ Back(Top) \in In(Top) /\ Back(Top) \in DOMAIN statements_
             /\ Top < Back(Top)
             /\ m \in In(Top) => Back(Top) = m
  <2>1. Back(Top) \in In(Top) /\ (m \in In(Top) => Back(Top) = m)
    BY <1>5, <1>9, MaxIs DEF Back
  <2>2. Back(Top) \in 1 .. m /\ statements_[Back(Top)].in = Top
    BY <1>5, <2>1
  <2> QED
    BY <1>4, <2>1, <2>2
<1> QED
  BY <1>1, <1>2, <1>3, <1>6, <1>7, <1>8, <1>9

(* Tokens of the current group are put into the statement n: the others    *)
(* stay apart.                                                             *)
Apart(ss) ==
  \A i, j \in DOMAIN ss :
    \A a \in DOMAIN ss[i].tokens, b \in DOMAIN ss[j].tokens :
      (i = j) <=> (ss[i].tokens[a].group = ss[j].tokens[b].group)

OnlyIn(ss, tt, n, g) ==
  /\ \A i \in DOMAIN tt : i # n =>
       /\ i \in DOMAIN ss /\ tt[i].tokens = ss[i].tokens
       /\ \A a \in DOMAIN ss[i].tokens : ss[i].tokens[a].group # g
  /\ \A a \in DOMAIN tt[n].tokens : tt[n].tokens[a].group = g

LEMMA StaysApart ==
  ASSUME NEW ss, NEW tt, NEW n, NEW g, Apart(ss), OnlyIn(ss, tt, n, g)
  PROVE  Apart(tt)
<1> USE DEF OnlyIn
<1> SUFFICES ASSUME NEW i \in DOMAIN tt, NEW j \in DOMAIN tt,
                    NEW a \in DOMAIN tt[i].tokens,
                    NEW b \in DOMAIN tt[j].tokens
             PROVE  (i = j) <=> (tt[i].tokens[a].group = tt[j].tokens[b].group)
  BY DEF Apart
<1>1. CASE i = n \/ j = n
  BY <1>1
<1>2. CASE i # n /\ j # n
  BY <1>2 DEF Apart
<1> QED
  BY <1>1, <1>2
-----------------------------------------------------------------------------
(* A token goes to the last statement of the innermost open block. *)
LEMMA AddStep ==
  ASSUME TreeInv, outcome = "parsing", In(Top) # {},
         NEW word \in Words \cup {ONE, QUOTED}, AddToken(Back(Top), word),
         UNCHANGED <<config_stack, bracketCtr, outcome, group>>,
         stray' = (stray \/ ~InStatement),
         last_token_type' \in {"NORMAL", "QUOTED_STRING"}
  PROVE  TreeInv' /\ (~stray' => Kept \in Nat /\ Kept' = Kept + 1)
<1>i. /\ TreeType /\ BlocksComeFirst /\ StackIsPath
      /\ NothingFreed /\ GroupIsCurrent /\ WordsAreApart
  BY DEF TreeInv
<1>1. PICK ss, tt, i, tok : /\ ss = statements_ /\ tt = statements_'
                            /\ i = Back(Top)
                            /\ tok = [word |-> word, group |-> group]
  OBVIOUS
<1>2. /\ ss \in Seq(Statement) /\ i \in DOMAIN ss /\ tok \in Token
      /\ AddsToken(ss, i, tok, tt) /\ tok.group = group
      /\ ss[i].live
  <2>1. i \in In(Top) /\ i \in DOMAIN ss
    BY <1>1, WhileParsing
  <2>2. ss[i].live
    BY <1>1, <2>1 DEF In
  <2>3. tok \in Token /\ tok.group = group
    BY <1>i, <1>1 DEF Token, TreeType
  <2> QED
    BY <1>i, <1>1, <2>1, <2>2, <2>3 DEF AddToken, AddsToken, TreeType
<1>3. /\ tt \in Seq(Statement) /\ Len(tt) = Len(ss)
      /\ \A j \in DOMAIN ss : /\ tt[j].in = ss[j].in
                              /\ tt[j].block = ss[j].block
                              /\ tt[j].live = ss[j].live
      /\ \A j \in DOMAIN ss : j # i => tt[j].tokens = ss[j].tokens
      /\ tt[i].tokens = Append(ss[i].tokens, tok)
  BY <1>2, TokenAdded
<1>4. DOMAIN tt = DOMAIN ss
  BY <1>2, <1>3
<1>5. InStatement'
  BY DEF InStatement
<1>6. TreeType'
  BY <1>i, <1>1, <1>3 DEF TreeType
<1>7. BlocksComeFirst'
  BY <1>i, <1>1, <1>3, <1>4 DEF BlocksComeFirst
<1>8. StackIsPath'
  <2>1. ASSUME NEW k \in 2 .. Len(config_stack)
        PROVE  /\ config_stack[k] \in In(config_stack[k - 1])'
               /\ statements_'[config_stack[k]].block
    <3>1. /\ config_stack[k] \in In(config_stack[k - 1])
          /\ statements_[config_stack[k]].block
      BY <1>i DEF StackIsPath
    <3>2. PICK j, b : j = config_stack[k] /\ b = config_stack[k - 1]
      OBVIOUS
    <3>3. j \in DOMAIN ss /\ ss[j].in = b /\ ss[j].live /\ ss[j].block
      BY <1>1, <3>1, <3>2 DEF In
    <3>4. j \in DOMAIN tt /\ tt[j].in = b /\ tt[j].live /\ tt[j].block
      BY <1>3, <1>4, <3>3
    <3> QED
      BY <1>1, <3>2, <3>4 DEF In
  <2>2. In(Top)' # {}
    BY <1>1, <1>3, <1>4 DEF In, Top
  <2> QED
    BY <1>i, <2>1, <2>2 DEF StackIsPath, In
<1>9. ASSUME ~stray'
      PROVE  ~stray /\ InStatement /\ i = Len(ss) /\ Len(ss) \in In(Top)
  <2>1. ~stray /\ InStatement
    BY <1>i, <1>9 DEF TreeType
  <2>2. Len(ss) \in In(Top)
    BY <1>i, <1>1, <2>1 DEF NothingFreed
  <2> QED
    BY <1>1, <2>1, <2>2, WhileParsing
<1>10. NothingFreed'
  <2> SUFFICES ASSUME ~stray' PROVE NothingFreed'
    BY DEF NothingFreed
  <2>1. Len(statements_') \in In(Top)'
    BY <1>1, <1>3, <1>4, <1>9 DEF In, Top
  <2>2. \A j \in DOMAIN statements_' : statements_'[j].live
    BY <1>i, <1>1, <1>3, <1>4, <1>9 DEF NothingFreed
  <2> QED
    BY <2>1, <2>2 DEF NothingFreed
<1>11. ASSUME ~stray', NEW j \in DOMAIN tt, NEW a \in DOMAIN tt[j].tokens
       PROVE  /\ tt[j].tokens[a].group <= group
              /\ tt[j].tokens[a].group = group <=> j = Len(ss)
  <2>1. ASSUME NEW c \in DOMAIN ss[j].tokens
        PROVE  /\ ss[j].tokens[c].group <= group
               /\ ss[j].tokens[c].group = group <=> j = Len(ss)
    BY <1>i, <1>1, <1>4, <1>9, <1>11 DEF GroupIsCurrent
  <2>2. CASE j # i
    BY <1>3, <1>4, <2>1, <2>2
  <2>3. CASE j = i
    <3>1. ss[i].tokens \in Seq(Token) /\ group \in Nat
      <4>1. ss[i] \in Statement
        BY <1>2
      <4> QED
        BY <1>i, <4>1 DEF Statement, TreeType
    <3>2. \/ a \in DOMAIN ss[i].tokens /\ tt[i].tokens[a] = ss[i].tokens[a]
          \/ tt[i].tokens[a] = tok
      BY <1>2, <1>3, <2>3, <3>1
    <3> QED
      BY <1>2, <1>9, <1>11, <2>1, <2>3, <3>1, <3>2
  <2> QED
    BY <2>2, <2>3
<1>12. GroupIsCurrent'
  BY <1>1, <1>3, <1>5, <1>11 DEF GroupIsCurrent
<1>13. WordsAreApart'
  <2> SUFFICES ASSUME ~stray' PROVE Apart(tt)
    BY <1>1 DEF WordsAreApart, StatementsAreApart, Apart
  <2>1. Apart(ss)
    BY <1>i, <1>1, <1>9 DEF WordsAreApart, StatementsAreApart, Apart
  <2>2. PICK g : g = group
    OBVIOUS
  <2>3. ASSUME NEW j \in DOMAIN tt, j # i
        PROVE  /\ j \in DOMAIN ss /\ tt[j].tokens = ss[j].tokens
               /\ \A a \in DOMAIN ss[j].tokens : ss[j].tokens[a].group # g
    BY <1>3, <1>4, <1>9, <1>11, <2>2, <2>3
  <2>4. \A a \in DOMAIN tt[i].tokens : tt[i].tokens[a].group = g
    BY <1>2, <1>4, <1>9, <1>11, <2>2
  <2>5. OnlyIn(ss, tt, i, g)
    BY <2>3, <2>4 DEF OnlyIn
  <2> QED
    BY <2>1, <2>5, StaysApart
<1>14. Kept \in Nat /\ Kept' = Kept + 1
  <2>1. /\ Kept = SumFunction(Sizes(statements_))
        /\ Kept' = SumFunction(Sizes(statements_'))
    BY DEF Kept, Sizes
  <2> QED
    BY <1>1, <1>2, <2>1, SizesAddToken
<1> QED
  BY <1>6, <1>7, <1>8, <1>10, <1>12, <1>13, <1>14 DEF TreeInv

(* A word begins a statement of the innermost open block. *)
LEMMA NewStep ==
  ASSUME TreeInv, outcome = "parsing", ~InStatement,
         NEW word \in Words \cup {ONE, QUOTED},
         statements_' = Append(statements_,
                          [in |-> Top, block |-> FALSE, live |-> TRUE,
                           tokens |-> <<[word |-> word, group |-> group]>>]),
         UNCHANGED <<config_stack, bracketCtr, outcome, group, stray>>,
         last_token_type' = "NORMAL"
  PROVE  TreeInv' /\ Kept \in Nat /\ Kept' = Kept + 1
<1>i. /\ TreeType /\ BlocksComeFirst /\ StackIsPath
      /\ NothingFreed /\ GroupIsCurrent /\ WordsAreApart
  BY DEF TreeInv
<1>1. PICK ss, tt, b, tok : /\ ss = statements_ /\ tt = statements_'
                            /\ b = Top
                            /\ tok = [word |-> word, group |-> group]
  OBVIOUS
<1>2. /\ ss \in Seq(Statement) /\ b \in Nat /\ tok \in Token
      /\ AddsStatement(ss, b, tok, tt) /\ tok.group = group
      /\ b <= Len(ss)
  <2>1. b \in Nat /\ b <= Len(ss)
    BY <1>1, WhileParsing
  <2>2. tok \in Token /\ tok.group = group
    BY <1>i, <1>1 DEF Token, TreeType
  <2> QED
    BY <1>i, <1>1, <2>1, <2>2 DEF AddsStatement, TreeType
<1>3. PICK n \in Nat : n = Len(ss)
  BY <1>2
<1>4. /\ tt \in Seq(Statement) /\ Len(tt) = n + 1
      /\ \A j \in DOMAIN ss : tt[j] = ss[j]
      /\ tt[n + 1].in = b /\ tt[n + 1].live
      /\ tt[n + 1].tokens = <<tok>>
  BY <1>2, <1>3, StatementAdded
<1>5. /\ DOMAIN ss = 1 .. n /\ DOMAIN tt = 1 .. n + 1
      /\ 1 .. n + 1 = (1 .. n) \cup {n + 1}
  BY <1>2, <1>3, <1>4
<1>6. InStatement'
  BY DEF InStatement
<1>7. TreeType'
  BY <1>i, <1>1, <1>4 DEF TreeType
<1>8. BlocksComeFirst'
  <2>1. ASSUME NEW j \in DOMAIN tt PROVE tt[j].in < j
    <3>1. CASE j \in DOMAIN ss
      BY <1>i, <1>1, <1>4, <3>1 DEF BlocksComeFirst
    <3>2. CASE j = n + 1
      BY <1>2, <1>3, <1>4, <3>2
    <3> QED
      BY <1>5, <3>1, <3>2
  <2> QED
    BY <1>1, <2>1 DEF BlocksComeFirst
<1>9. n + 1 \in In(Top)'
  BY <1>1, <1>4, <1>5 DEF In, Top
<1>10. StackIsPath'
  <2>1. \A k \in 2 .. Len(config_stack) :
          /\ config_stack[k] \in In(config_stack[k - 1])'
          /\ statements_'[config_stack[k]].block
    BY <1>i, <1>1, <1>4, <1>5 DEF StackIsPath, In
  <2> QED
    BY <1>i, <1>9, <2>1 DEF StackIsPath, In
<1>11. NothingFreed'
  <2> SUFFICES ASSUME ~stray' PROVE NothingFreed'
    BY DEF NothingFreed
  <2>1. Len(statements_') \in In(Top)'
    BY <1>1, <1>4, <1>9
  <2>2. \A j \in DOMAIN statements_' : statements_'[j].live
    BY <1>i, <1>1, <1>4, <1>5 DEF NothingFreed
  <2> QED
    BY <2>1, <2>2 DEF NothingFreed
<1>12. ASSUME ~stray, NEW j \in DOMAIN ss, NEW a \in DOMAIN ss[j].tokens
       PROVE  ss[j].tokens[a].group <= group /\ ss[j].tokens[a].group # group
  BY <1>i, <1>1, <1>12 DEF GroupIsCurrent
<1>13. \A a \in DOMAIN tt[n + 1].tokens : tt[n + 1].tokens[a].group = group
  BY <1>2, <1>4
<1>14. GroupIsCurrent'
  <2> SUFFICES ASSUME ~stray, NEW j \in DOMAIN tt,
                      NEW a \in DOMAIN tt[j].tokens
               PROVE  /\ tt[j].tokens[a].group <= group
                      /\ tt[j].tokens[a].group = group <=> j = n + 1
    BY <1>1, <1>4, <1>6 DEF GroupIsCurrent
  <2>1. CASE j = n + 1
    BY <1>i, <1>13, <2>1 DEF TreeType
  <2>2. CASE j # n + 1
    BY <1>4, <1>5, <1>12, <2>2
  <2> QED
    BY <2>1, <2>2
<1>15. WordsAreApart'
  <2> SUFFICES ASSUME ~stray PROVE Apart(tt)
    BY <1>1 DEF WordsAreApart, StatementsAreApart, Apart
  <2>1. Apart(ss)
    BY <1>i, <1>1 DEF WordsAreApart, StatementsAreApart, Apart
  <2>2. PICK g, m : g = group /\ m = n + 1
    OBVIOUS
  <2>3. ASSUME NEW j \in DOMAIN tt, j # m
        PROVE  /\ j \in DOMAIN ss /\ tt[j].tokens = ss[j].tokens
               /\ \A a \in DOMAIN ss[j].tokens : ss[j].tokens[a].group # g
    BY <1>4, <1>5, <1>12, <2>2, <2>3
  <2>4. OnlyIn(ss, tt, m, g)
    BY <1>13, <2>2, <2>3 DEF OnlyIn
  <2> QED
    BY <2>1, <2>4, StaysApart
<1>16. Kept \in Nat /\ Kept' = Kept + 1
  <2>1. /\ Kept = SumFunction(Sizes(statements_))
        /\ Kept' = SumFunction(Sizes(statements_'))
    BY DEF Kept, Sizes
  <2> QED
    BY <1>1, <1>2, <2>1, SizesAddStatement
<1> QED
  BY <1>7, <1>8, <1>10, <1>11, <1>14, <1>15, <1>16 DEF TreeInv

(* At a ';', '{' or '}' the tokens so far are of an earlier group. *)
LEMMA NextGroup ==
  ASSUME TreeInv, outcome = "parsing", ~InStatement',
         group' = group + 1, stray' = stray,
         DOMAIN statements_' = DOMAIN statements_,
         \A i \in DOMAIN statements_ :
           statements_'[i].tokens = statements_[i].tokens
  PROVE  GroupIsCurrent' /\ WordsAreApart'
<1>1. GroupIsCurrent'
  <2> SUFFICES ASSUME ~stray, NEW i \in DOMAIN statements_,
                      NEW a \in DOMAIN statements_[i].tokens
               PROVE  /\ statements_[i].tokens[a].group <= group + 1
                      /\ statements_[i].tokens[a].group # group + 1
    BY DEF GroupIsCurrent
  <2>1. statements_[i].tokens[a].group <= group
    BY DEF TreeInv, GroupIsCurrent
  <2>2. statements_[i].tokens[a].group \in Nat /\ group \in Nat
    <3>1. statements_[i] \in Statement
      BY DEF TreeInv, TreeType
    <3>2. statements_[i].tokens[a] \in Token
      BY <3>1 DEF Statement
    <3> QED
      BY <3>2 DEF Token, TreeInv, TreeType
  <2> QED
    BY <2>1, <2>2
<1>2. WordsAreApart'
  BY DEF TreeInv, WordsAreApart, StatementsAreApart
<1> QED
  BY <1>1, <1>2

(* The stack after push() and after pop(). *)
LEMMA Pushed ==
  ASSUME NEW cs \in Seq(Nat), NEW n \in Nat, n = Len(cs), NEW i \in Nat,
         NEW ds, ds = Append(cs, i)
  PROVE  /\ Len(ds) = n + 1 /\ ds[n + 1] = i
         /\ \A k \in 1 .. n : ds[k] = cs[k]
  OBVIOUS

LEMMA Popped ==
  ASSUME NEW cs \in Seq(Nat), NEW n \in Nat, n = Len(cs), n >= 1,
         NEW ds, ds = SubSeq(cs, 1, n - 1)
  PROVE  /\ ds \in Seq(Nat) /\ Len(ds) = n - 1
         /\ \A k \in 1 .. n - 1 : ds[k] = cs[k]
<1>1. PICK m \in Int : m = n - 1
  <2>1. n - 1 \in Int
    OBVIOUS
  <2> QED
    BY <2>1, Zenon
<1>2. \A k \in 1 .. m : cs[k] \in Nat
  BY <1>1
<1>3. /\ SubSeq(cs, 1, m) \in Seq(Nat)
      /\ Len(SubSeq(cs, 1, m)) = IF 1 <= m THEN m - 1 + 1 ELSE 0
      /\ \A k \in 1 .. m - 1 + 1 : SubSeq(cs, 1, m)[k] = cs[1 + k - 1]
  BY <1>2, SubSeqProperties
<1>4. \A k \in 1 .. m : k \in 1 .. m - 1 + 1 /\ 1 + k - 1 = k
  OBVIOUS
<1>5. Len(SubSeq(cs, 1, m)) = m
  BY <1>1, <1>3
<1>6. \A k \in 1 .. m : SubSeq(cs, 1, m)[k] = cs[k]
  BY <1>3, <1>4
<1> QED
  BY <1>1, <1>3, <1>5, <1>6

(* A statement ends. *)
LEMMA EndStep ==
  ASSUME TreeInv, outcome = "parsing",
         UNCHANGED <<statements_, config_stack, bracketCtr, outcome, stray>>,
         group' = group + 1, last_token_type' = "STATEMENT_END"
  PROVE  TreeInv' /\ Kept' = Kept
<1>1. ~InStatement'
  BY DEF InStatement
<1>2. TreeType' /\ BlocksComeFirst'
  BY DEF TreeInv, TreeType, BlocksComeFirst
<1>3. StackIsPath' /\ NothingFreed'
  BY <1>1 DEF TreeInv, StackIsPath, NothingFreed, In, Top
<1>4. GroupIsCurrent' /\ WordsAreApart'
  BY <1>1, NextGroup
<1>5. Kept' = Kept
  BY DEF Kept
<1> QED
  BY <1>2, <1>3, <1>4, <1>5 DEF TreeInv

(* What ParseStartBlock does with the statements. *)
OpensBlock(ss, i, tt) ==
  tt = [j \in DOMAIN ss |->
          [ss[j] EXCEPT !.block = @ \/ j = i, !.live = @ /\ ss[j].in # i]]

(* A block begins: its statement is not on the stack yet, so what the new  *)
(* block replaces is not either.                                           *)
LEMMA OpenStep ==
  ASSUME TreeInv, outcome = "parsing", InStatement,
         OpensBlock(statements_, Back(Top), statements_'),
         config_stack' = Append(config_stack, Back(Top)),
         bracketCtr' = bracketCtr + 1, last_token_type' = "START_BLOCK",
         group' = group + 1, UNCHANGED <<outcome, stray>>
  PROVE  TreeInv' /\ (~stray => Kept' = Kept)
<1>i. /\ TreeType /\ BlocksComeFirst /\ StackIsPath
      /\ NothingFreed /\ GroupIsCurrent /\ WordsAreApart
  BY DEF TreeInv
<1>1. PICK ss, tt, i : ss = statements_ /\ tt = statements_' /\ i = Back(Top)
  OBVIOUS
<1>2. In(Top) # {}
  BY <1>i DEF StackIsPath
<1>3. /\ i \in In(Top) /\ i \in DOMAIN ss /\ Top < i /\ i \in Nat
      /\ Top \in Nat /\ ss \in Seq(Statement)
      /\ DOMAIN ss = 1 .. Len(ss) /\ Len(ss) \in Nat
      /\ ss[i].live /\ ss[i].in = Top
  <2>1. i \in In(Top) /\ i \in DOMAIN ss /\ Top < i /\ Top \in Nat
    BY <1>1, <1>2, WhileParsing
  <2>2. ss \in Seq(Statement)
    BY <1>i, <1>1 DEF TreeType
  <2>3. DOMAIN ss = 1 .. Len(ss) /\ Len(ss) \in Nat
    BY <2>2
  <2>4. ss[i].live /\ ss[i].in = Top
    BY <1>1, <2>1 DEF In
  <2> QED
    BY <2>1, <2>2, <2>3, <2>4
<1>4. ASSUME NEW j \in DOMAIN ss
      PROVE  /\ tt[j] \in Statement
             /\ tt[j].in = ss[j].in /\ tt[j].tokens = ss[j].tokens
             /\ tt[j].block <=> ss[j].block \/ j = i
             /\ tt[j].live <=> ss[j].live /\ ss[j].in # i
             /\ ss[j].in \in Nat
  <2>1. ss[j] \in Statement
    BY <1>3
  <2>2. tt[j] = [ss[j] EXCEPT !.block = ss[j].block \/ j = i,
                              !.live = ss[j].live /\ ss[j].in # i]
    BY <1>1 DEF OpensBlock
  <2>3. PICK x \in BOOLEAN, y \in BOOLEAN :
          /\ x = (ss[j].block \/ j = i) /\ y = (ss[j].live /\ ss[j].in # i)
    OBVIOUS
  <2>4. tt[j] = [ss[j] EXCEPT !.block = x, !.live = y]
    BY <2>2, <2>3
  <2>5. /\ tt[j] \in Statement /\ ss[j].in \in Nat
        /\ tt[j].in = ss[j].in /\ tt[j].tokens = ss[j].tokens
        /\ tt[j].block = x /\ tt[j].live = y
    BY <2>1, <2>4 DEF Statement
  <2> QED
    BY <2>3, <2>5
<1>5. tt \in Seq(Statement) /\ DOMAIN tt = DOMAIN ss /\ Len(tt) = Len(ss)
  <2>1. DOMAIN tt = DOMAIN ss /\ tt = [j \in DOMAIN ss |-> tt[j]]
    BY <1>1 DEF OpensBlock
  <2>2. tt \in [1 .. Len(ss) -> Statement]
    BY <1>3, <1>4, <2>1
  <2> QED
    BY <1>3, <2>1, <2>2
<1>6. ~InStatement'
  BY DEF InStatement
<1>7. TreeType'
  BY <1>i, <1>1, <1>3, <1>5 DEF TreeType
<1>8. BlocksComeFirst'
  BY <1>i, <1>1, <1>4, <1>5 DEF BlocksComeFirst
<1>9. StackIsPath'
  <2>1. PICK cs \in Seq(Nat), n \in Nat : cs = config_stack /\ n = Len(cs)
    BY <1>i, WhileParsing DEF TreeType
  <2>2. /\ cs \in Seq(Nat) /\ n >= 1 /\ cs[n] = Top /\ cs[1] = 0
        /\ n = bracketCtr + 1 /\ bracketCtr \in Nat
        /\ \A k \in 1 .. n : cs[k] \in Nat /\ cs[k] <= Top
    <3>1. cs \in Seq(Nat) /\ bracketCtr \in Nat
      BY <1>i, <2>1 DEF TreeType
    <3> QED
      BY <1>i, <2>1, <3>1, WhileParsing DEF StackIsPath, Top
  <2>3. /\ Len(config_stack') = n + 1 /\ config_stack'[n + 1] = i
        /\ \A k \in 1 .. n : config_stack'[k] = cs[k]
    <3>1. PICK ds : ds = Append(cs, i) /\ ds = config_stack'
      BY <1>1, <2>1
    <3>2. n = Len(cs) /\ ds = Append(cs, i) /\ i \in Nat
      BY <1>3, <2>1, <3>1
    <3>3. Len(ds) = n + 1 /\ ds[n + 1] = i /\ \A k \in 1 .. n : ds[k] = cs[k]
      BY <3>2, Pushed
    <3> QED
      BY <3>1, <3>3
  <2>4. ASSUME NEW k \in 2 .. n + 1
        PROVE  /\ config_stack'[k] \in DOMAIN tt
               /\ tt[config_stack'[k]].in = config_stack'[k - 1]
               /\ tt[config_stack'[k]].live /\ tt[config_stack'[k]].block
    <3>1. CASE k = n + 1
      <4>1. config_stack'[k] = i /\ config_stack'[k - 1] = Top
        BY <2>2, <2>3, <3>1
      <4> QED
        BY <1>3, <1>4, <1>5, <4>1
    <3>2. CASE k # n + 1
      <4>1. k \in 2 .. n /\ k \in 1 .. n /\ k - 1 \in 1 .. n
        BY <3>2
      <4>2. config_stack'[k] = cs[k] /\ config_stack'[k - 1] = cs[k - 1]
        BY <2>3, <4>1
      <4>3. /\ cs[k] \in DOMAIN ss /\ ss[cs[k]].in = cs[k - 1]
            /\ ss[cs[k]].live /\ ss[cs[k]].block
        BY <1>i, <1>1, <2>1, <4>1 DEF StackIsPath, In
      <4>4. cs[k - 1] # i
        BY <1>3, <2>2, <4>1
      <4> QED
        BY <1>4, <1>5, <4>2, <4>3, <4>4
    <3> QED
      BY <3>1, <3>2
  <2>5. \A k \in 2 .. Len(config_stack') :
          /\ config_stack'[k] \in In(config_stack[k - 1])'
          /\ statements_'[config_stack'[k]].block
    BY <1>1, <2>3, <2>4 DEF In
  <2>6. /\ Len(config_stack') = bracketCtr' + 1 /\ config_stack' # <<>>
        /\ config_stack'[1] = 0
    BY <2>2, <2>3
  <2> QED
    BY <1>6, <2>5, <2>6 DEF StackIsPath, In
<1>10. ASSUME ~stray, NEW j \in DOMAIN ss
       PROVE  ss[j].live /\ ss[j].in # i
  <2>1. Len(ss) \in In(Top) /\ ss[j].live
    BY <1>i, <1>1, <1>10 DEF NothingFreed
  <2>2. i = Len(ss)
    BY <1>1, <1>2, <2>1, WhileParsing
  <2>3. ss[j].in < j
    BY <1>i, <1>1 DEF BlocksComeFirst
  <2> QED
    BY <1>3, <1>4, <2>1, <2>2, <2>3
<1>11. NothingFreed'
  BY <1>1, <1>4, <1>5, <1>6, <1>10 DEF NothingFreed
<1>12. GroupIsCurrent' /\ WordsAreApart'
  BY <1>1, <1>4, <1>5, <1>6, NextGroup
<1>13. ASSUME ~stray PROVE Kept' = Kept
  <2>1. /\ Kept = SumFunction(Sizes(ss))
        /\ Kept' = SumFunction(Sizes(tt))
    BY <1>1 DEF Kept, Sizes
  <2>2. Sizes(tt) = Sizes(ss)
    <3>1. ASSUME NEW j \in DOMAIN ss
          PROVE  tt[j].live /\ ss[j].live /\ tt[j].tokens = ss[j].tokens
      BY <1>4, <1>10, <1>13
    <3> QED
      BY <1>5, <3>1 DEF Sizes
  <2> QED
    BY <2>1, <2>2
<1> QED
  BY <1>7, <1>8, <1>9, <1>11, <1>12, <1>13 DEF TreeInv

(* A block ends, or there was none to end. *)
LEMMA CloseStep ==
  ASSUME TreeInv, outcome = "parsing",
         config_stack' = Pop, bracketCtr' = bracketCtr - 1,
         outcome' = Checked(bracketCtr - 1), last_token_type' = "END_BLOCK",
         group' = group + 1, UNCHANGED <<statements_, stray>>
  PROVE  TreeInv' /\ Kept' = Kept
<1>i. /\ TreeType /\ BlocksComeFirst /\ StackIsPath
      /\ NothingFreed /\ GroupIsCurrent /\ WordsAreApart
  BY DEF TreeInv
<1>1. ~InStatement'
  BY DEF InStatement
<1>2. PICK cs \in Seq(Nat), n \in Nat : cs = config_stack /\ n = Len(cs)
  BY <1>i, WhileParsing DEF TreeType
<1>3. /\ cs \in Seq(Nat) /\ n >= 1 /\ cs[1] = 0
      /\ n = bracketCtr + 1 /\ bracketCtr \in Nat
  <2>1. cs \in Seq(Nat) /\ bracketCtr \in Nat
    BY <1>i, <1>2 DEF TreeType
  <2> QED
    BY <1>i, <1>2, <2>1, WhileParsing DEF StackIsPath
<1>4. /\ config_stack' \in Seq(Nat) /\ Len(config_stack') = n - 1
      /\ \A k \in 1 .. n - 1 : config_stack'[k] = cs[k]
  <2>1. PICK ds : ds = SubSeq(cs, 1, n - 1) /\ ds = config_stack'
    BY <1>2 DEF Pop
  <2>2. n = Len(cs) /\ ds = SubSeq(cs, 1, n - 1) /\ n >= 1
    BY <1>2, <1>3, <2>1
  <2>3. /\ ds \in Seq(Nat) /\ Len(ds) = n - 1
        /\ \A k \in 1 .. n - 1 : ds[k] = cs[k]
    BY <2>2, Popped
  <2> QED
    BY <2>1, <2>3
<1>5. /\ bracketCtr = 0 => outcome' = "false"
      /\ bracketCtr # 0 => outcome' = "parsing"
  BY <1>3 DEF Checked
<1>6. TreeType' /\ BlocksComeFirst'
  BY <1>i, <1>3, <1>4, <1>5 DEF TreeType, BlocksComeFirst
<1>7. StackIsPath'
  <2> SUFFICES ASSUME bracketCtr # 0 PROVE StackIsPath'
    BY <1>5 DEF StackIsPath
  <2>1. n >= 2
    BY <1>3
  <2>2. /\ Len(config_stack') = bracketCtr' + 1 /\ config_stack' # <<>>
        /\ config_stack'[1] = 0
    BY <1>3, <1>4, <2>1
  <2>3. ASSUME NEW k \in 2 .. n - 1
        PROVE  /\ config_stack'[k] \in In(config_stack[k - 1])'
               /\ statements_[config_stack'[k]].block
    <3>1. k \in 1 .. n - 1 /\ k - 1 \in 1 .. n - 1 /\ k \in 2 .. n
      OBVIOUS
    <3>2. config_stack'[k] = cs[k] /\ config_stack'[k - 1] = cs[k - 1]
      BY <1>4, <3>1
    <3> QED
      BY <1>i, <1>2, <3>1, <3>2 DEF StackIsPath, In
  <2> QED
    BY <1>1, <1>4, <2>2, <2>3 DEF StackIsPath, In
<1>8. NothingFreed'
  BY <1>i, <1>1 DEF NothingFreed
<1>9. GroupIsCurrent' /\ WordsAreApart'
  BY <1>1, NextGroup
<1>10. Kept' = Kept
  BY DEF Kept
<1> QED
  BY <1>6, <1>7, <1>8, <1>9, <1>10 DEF TreeInv

(* A step that leaves the tree alone, whether Parse goes on or returns. *)
LEMMA SameTree ==
  ASSUME TreeInv, outcome = "parsing",
         UNCHANGED <<tree, last_token_type, bracketCtr, group>>,
         outcome' \in {"parsing", "true", "false", "crash"},
         stray' \in BOOLEAN, stray => stray'
  PROVE  TreeInv' /\ Kept' = Kept
<1>i. /\ TreeType /\ BlocksComeFirst /\ StackIsPath
      /\ NothingFreed /\ GroupIsCurrent /\ WordsAreApart
  BY DEF TreeInv
<1> USE DEF tree
<1>1. bracketCtr \in Nat
  BY <1>i DEF TreeType
<1>2. TreeType' /\ BlocksComeFirst'
  BY <1>i, <1>1 DEF TreeType, BlocksComeFirst
<1>3. StackIsPath' /\ NothingFreed'
  BY <1>i DEF StackIsPath, NothingFreed, In, Top, InStatement
<1>4. GroupIsCurrent' /\ WordsAreApart'
  BY <1>i DEF GroupIsCurrent, WordsAreApart, StatementsAreApart, InStatement
<1>5. Kept' = Kept
  BY DEF Kept
<1> QED
  BY <1>2, <1>3, <1>4, <1>5 DEF TreeInv
-----------------------------------------------------------------------------
(* What get() and unget() leave of the stream. *)
StreamOK ==
  good \in BOOLEAN /\ ungot \in Chars \cup {"none"} /\ chars \in 0 .. MaxChars

LEMMA GetKeeps ==
  ASSUME StreamOK, NEW c \in Chars, NEW back \in BOOLEAN, Get(c, back)
  PROVE  StreamOK' /\ outcome = "parsing"
<1> USE ConfigAssumption DEF StreamOK
<1>1. chars' \in 0 .. MaxChars
  BY DEF Get
<1> QED
  BY <1>1 DEF Get

LEMMA GetEofKeeps ==
  ASSUME StreamOK, GetEof
  PROVE  StreamOK' /\ outcome = "parsing"
  BY DEF StreamOK, GetEof

(* A step of ParseToken that does not complete a token for Parse. *)
LEMMA ScanKeeps ==
  ASSUME IInv, outcome = "parsing",
         UNCHANGED <<tree, last_token_type, bracketCtr, outcome, group, stray>>,
         StreamType', seen' + Pending = seen + Pending'
  PROVE  IInv'
<1>1. TreeInv /\ AllKept /\ StreamType
  BY IInvParts
<1>2. TreeInv' /\ Kept' = Kept
  <2>1. outcome' = outcome /\ stray' = stray /\ stray \in BOOLEAN
    BY <1>1 DEF TreeInv, TreeType
  <2> QED
    BY <1>1, <2>1, SameTree
<1>3. seen \in Nat /\ seen' \in Nat /\ Pending \in {0, 1} /\ Pending' \in {0, 1}
  BY <1>1 DEF StreamType, Pending
<1>4. AllKept'
  <2> SUFFICES ASSUME ~stray PROVE seen' = Kept' + Pending'
    BY DEF AllKept
  <2>1. seen = Kept + Pending
    BY <1>1 DEF AllKept
  <2>2. Kept \in Nat
    <3>1. Kept = SumFunction(Sizes(statements_))
      BY DEF Kept, Sizes
    <3>2. statements_ \in Seq(Statement)
      BY <1>1 DEF TreeInv, TreeType
    <3> QED
      BY <3>1, <3>2, KeptIsNumber
  <2>3. PICK p, q, k, m, n :
          /\ p = Pending /\ q = Pending' /\ k = Kept /\ m = seen /\ n = seen'
    OBVIOUS
  <2>4. n + p = m + q /\ m = k + p
    BY <2>1, <2>3
  <2>5. p \in Nat /\ q \in Nat /\ k \in Nat /\ m \in Nat /\ n \in Nat
    BY <1>3, <2>2, <2>3
  <2>6. n = k + q
    BY <2>4, <2>5
  <2> QED
    BY <1>2, <2>3, <2>6
<1>5. AcceptedIsComplete'
  BY DEF AcceptedIsComplete
<1> QED
  BY <1>2, <1>4, <1>5, IInvWhole

(* A step that gives Parse a word or a string, which goes to the tree. *)
LEMMA TokenKeeps ==
  ASSUME IInv, outcome = "parsing", TreeInv', StreamType',
         outcome' = "parsing",
         ~stray' => ~stray /\ Kept \in Nat /\ Kept' = Kept + 1,
         seen' = seen, Pending = 1, Pending' = 0
  PROVE  IInv'
<1>1. AllKept'
  <2> SUFFICES ASSUME ~stray' PROVE seen' = Kept' + Pending'
    BY DEF AllKept
  <2>1. seen = Kept + Pending
    BY IInvParts DEF AllKept
  <2> QED
    BY <2>1
<1>2. AcceptedIsComplete'
  BY DEF AcceptedIsComplete
<1> QED
  BY <1>1, <1>2, IInvWhole

(* A step of Parse that takes a ';', '{' or '}', and may refuse it. *)
LEMMA PunctuationKeeps ==
  ASSUME IInv, outcome = "parsing", TreeInv', StreamType',
         outcome' \in {"parsing", "false"},
         ~stray' => ~stray /\ Kept' = Kept,
         seen' = seen, state' = state
  PROVE  IInv'
<1>1. AllKept'
  BY IInvParts DEF AllKept, Pending
<1>2. AcceptedIsComplete'
  BY DEF AcceptedIsComplete
<1> QED
  BY <1>1, <1>2, IInvWhole

(* A step with which Parse returns false, or the process dies. *)
LEMMA FailureKeeps ==
  ASSUME IInv, outcome = "parsing", StreamType',
         UNCHANGED <<tree, last_token_type, bracketCtr, group>>,
         outcome' \in {"false", "crash"}, stray' \in BOOLEAN, stray => stray'
  PROVE  IInv'
<1>1. TreeInv'
  BY IInvParts, SameTree
<1>2. AllKept' /\ AcceptedIsComplete'
  BY DEF AllKept, AcceptedIsComplete
<1> QED
  BY <1>1, <1>2, IInvWhole

(* Parse begins with the file as the only block and nothing in it. *)
LEMMA InitIInv == Init => IInv
<1> SUFFICES ASSUME Init PROVE IInv
  OBVIOUS
<1> USE ConfigAssumption
<1>1. statements_ = <<>> /\ DOMAIN statements_ = {} /\ config_stack = <<0>>
  BY DEF Init
<1>2. TreeType /\ StreamType
  <2>1. <<>> \in Seq(Statement) /\ <<0>> \in Seq(Nat)
    OBVIOUS
  <2>2. TreeType
    BY <2>1 DEF Init, TreeType
  <2>3. StreamType
    BY DEF Init, StreamType
  <2> QED
    BY <2>2, <2>3
<1>3. BlocksComeFirst /\ NothingFreed /\ GroupIsCurrent /\ WordsAreApart
  BY <1>1 DEF Init, BlocksComeFirst, NothingFreed, GroupIsCurrent,
              WordsAreApart, StatementsAreApart, InStatement
<1>4. StackIsPath
  BY <1>1 DEF Init, StackIsPath, InStatement
<1>5. Kept = 0
  <2>1. Sizes(statements_) = [x \in {} |-> 0]
    BY <1>1 DEF Sizes
  <2>2. IsFiniteSet({})
    BY FS_EmptySet
  <2>3. Kept = SumFunction(Sizes(statements_))
    BY DEF Kept, Sizes
  <2> QED
    BY <2>1, <2>2, <2>3, SumOfNone
<1>6. AllKept /\ AcceptedIsComplete
  BY <1>5 DEF Init, AllKept, AcceptedIsComplete, Pending, InString
<1>7. TreeInv
  BY <1>2, <1>3, <1>4 DEF TreeInv
<1> QED
  BY <1>2, <1>6, <1>7, IInvWhole

(* A word for Parse. *)
LEMMA NormalKeeps ==
  ASSUME IInv, outcome = "parsing", StreamOK', state = "NORMAL",
         NEW word \in Words \cup {ONE}, ParseNormal(word), NextToken,
         seen' = seen
  PROVE  IInv'
<1>i. TreeInv /\ StreamType
  BY IInvParts
<1>1. StreamType'
  BY <1>i DEF StreamType, StreamOK, NextToken
<1>2. Pending = 1 /\ Pending' = 0
  BY DEF Pending, NextToken, InString
<1>3. /\ UNCHANGED <<config_stack, bracketCtr, outcome, group, stray>>
      /\ last_token_type' = "NORMAL" /\ stray \in BOOLEAN
      /\ word \in Words \cup {ONE, QUOTED}
  BY <1>i DEF ParseNormal, TreeInv, TreeType
<1>4. CASE InStatement
  <2>1. In(Top) # {}
    BY <1>i, <1>4 DEF TreeInv, StackIsPath
  <2>2. AddToken(Back(Top), word)
    BY <1>4 DEF ParseNormal
  <2>3. stray' = (stray \/ ~InStatement)
    BY <1>3, <1>4
  <2>4. TreeInv' /\ (~stray' => Kept \in Nat /\ Kept' = Kept + 1)
    BY <1>i, <1>3, <2>1, <2>2, <2>3, AddStep
  <2> QED
    BY <1>1, <1>2, <1>3, <2>4, TokenKeeps
<1>5. CASE ~InStatement
  <2>1. statements_' = Append(statements_,
                         [in |-> Top, block |-> FALSE, live |-> TRUE,
                          tokens |-> <<[word |-> word, group |-> group]>>])
    BY <1>5 DEF ParseNormal
  <2>2. TreeInv' /\ Kept \in Nat /\ Kept' = Kept + 1
    BY <1>i, <1>3, <1>5, <2>1, NewStep
  <2> QED
    BY <1>1, <1>2, <1>3, <2>2, TokenKeeps
<1> QED
  BY <1>4, <1>5

(* A quoted string for Parse, and the character behind it. *)
LEMMA QuotedKeeps ==
  ASSUME IInv, NEW c \in Chars, ParseQuoted(c)
  PROVE  IInv'
<1>i. TreeInv /\ StreamType
  BY IInvParts
<1>1. StreamOK' /\ outcome = "parsing"
  BY <1>i, GetKeeps DEF ParseQuoted, StreamType, StreamOK
<1>2. StreamType'
  <2>1. NextToken /\ seen' = seen
    BY DEF ParseQuoted
  <2> QED
    BY <1>i, <1>1, <2>1 DEF StreamType, StreamOK, NextToken
<1>3. stray \in BOOLEAN /\ InStatement \in BOOLEAN
  BY <1>i DEF TreeInv, TreeType, InStatement
<1>4. CASE Error
  BY <1>1, <1>2, <1>3, <1>4, FailureKeeps DEF Error
<1>5. CASE /\ outcome' = "crash" /\ UNCHANGED <<tree, last_token_type>>
           /\ stray' = (stray \/ ~InStatement)
           /\ UNCHANGED <<bracketCtr, group>>
  BY <1>1, <1>2, <1>3, <1>5, FailureKeeps
<1>6. CASE /\ In(Top) # {} /\ AddToken(Back(Top), QUOTED)
           /\ last_token_type' = "QUOTED_STRING"
           /\ UNCHANGED <<config_stack, outcome>>
           /\ stray' = (stray \/ ~InStatement)
           /\ UNCHANGED <<bracketCtr, group>>
  <2>1. TreeInv' /\ (~stray' => Kept \in Nat /\ Kept' = Kept + 1)
    BY <1>i, <1>1, <1>6, AddStep
  <2>2. Pending = 1 /\ Pending' = 0 /\ seen' = seen
    BY DEF ParseQuoted, Pending, NextToken, InString
  <2> QED
    BY <1>1, <1>2, <1>3, <1>6, <2>1, <2>2, TokenKeeps
<1> QED
  BY <1>4, <1>5, <1>6 DEF ParseQuoted

(* Every step of ParseToken and of Parse preserves IInv. *)
LEMMA NextIInv == IInv /\ [Next]_vars => IInv'
<1> SUFFICES ASSUME IInv, [Next]_vars PROVE IInv'
  OBVIOUS
<1>i. TreeInv /\ StreamType /\ StreamOK /\ stray \in BOOLEAN
  BY IInvParts DEF StreamType, StreamOK, TreeInv, TreeType
<1> DEFINE States == InString \cup {"INITIAL_WHITESPACE", "COMMENT", "NORMAL",
                                    "QUOTED_STRING"}
<1>s. ASSUME NEW c \in Chars, NEW back \in BOOLEAN, NEW s \in States,
             NEW n, n \in 0 .. 2,
             Scan(c, back, s, n), seen' \in Nat,
             seen' + Pending = seen + Pending'
      PROVE  IInv'
  <2>1. StreamOK' /\ outcome = "parsing"
    BY <1>i, <1>s, GetKeeps DEF Scan
  <2>2. /\ state' = s /\ length' = n
        /\ UNCHANGED <<tree, last_token_type, bracketCtr, outcome, group,
                       stray>>
    BY <1>s DEF Scan
  <2>3. StreamType'
    BY <1>s, <2>1, <2>2 DEF StreamType, StreamOK
  <2> QED
    BY <1>s, <2>1, <2>2, <2>3, ScanKeeps
<1>1. ASSUME NEW c \in Chars, SkipWhitespace(c) PROVE IInv'
  <2>1. Scan(c, FALSE, state, length) /\ seen' = seen /\ state' = state
    BY <1>1 DEF SkipWhitespace, Scan
  <2>2. Pending' = Pending /\ seen \in Nat
    BY <1>i, <2>1 DEF Pending, StreamType
  <2> QED
    BY <1>i, <1>s, <2>1, <2>2 DEF StreamType
<1>2. ASSUME NEW c \in Chars, BeginToken(c) PROVE IInv'
  <2>1. PICK s : s = CASE c = "#" -> "COMMENT" [] c = "dq" -> "DOUBLE_QUOTE"
                       [] c = "sq" -> "SINGLE_QUOTE" [] OTHER -> "NORMAL"
    OBVIOUS
  <2>2. /\ Scan(c, FALSE, s, 1) /\ state' = s /\ state = "INITIAL_WHITESPACE"
        /\ seen' = IF c = "#" THEN seen ELSE seen + 1
    BY <1>2, <2>1 DEF BeginToken, Scan
  <2>3. /\ c = "#" => s = "COMMENT"
        /\ c # "#" => s \in {"DOUBLE_QUOTE", "SINGLE_QUOTE", "NORMAL"}
    BY <2>1
  <2>4. Pending = 0 /\ Pending' = (IF c = "#" THEN 0 ELSE 1) /\ seen \in Nat
    BY <1>i, <2>2, <2>3 DEF Pending, StreamType, InString
  <2>5. seen' \in Nat /\ seen' + Pending = seen + Pending' /\ 1 \in 0 .. 2
    BY <2>2, <2>4
  <2>6. s \in States
    BY <2>3 DEF InString
  <2> HIDE DEF States
  <2> QED
    BY <1>s, <2>2, <2>5, <2>6
<1>3. ASSUME NEW c \in Chars, InsideToken(c) PROVE IInv'
  <2>1. PICK s : s = IF state \in InString /\ c = "bs"
                     THEN Escape(state) ELSE state
    OBVIOUS
  <2>2. /\ Scan(c, FALSE, s, 2) /\ state' = s /\ seen' = seen
        /\ state \in {"NORMAL", "COMMENT", "SINGLE_QUOTE", "DOUBLE_QUOTE"}
    BY <1>3, <2>1 DEF InsideToken, Scan
  <2>3. s = state \/ (s \in InString /\ state \in InString)
    BY <2>1, <2>2 DEF Escape, InString
  <2>4. Pending' = Pending /\ seen \in Nat
    BY <1>i, <2>2, <2>3 DEF Pending, StreamType
  <2>5. s \in States /\ 2 \in 0 .. 2 /\ seen' + Pending = seen + Pending'
    BY <1>i, <2>2, <2>3, <2>4 DEF StreamType
  <2> HIDE DEF States
  <2> QED
    BY <1>s, <2>2, <2>4, <2>5
<1>4. ASSUME NEW c \in Chars, AfterBackslash(c) PROVE IInv'
  <2>0. PICK back \in BOOLEAN : back = (c \notin {"t", Quote(state)})
    OBVIOUS
  <2>1. PICK s : s = Unescape(state)
    OBVIOUS
  <2>2. /\ Scan(c, back, s, 2) /\ state' = s /\ seen' = seen
        /\ state \in InString /\ s \in InString
    BY <1>4, <2>0, <2>1 DEF AfterBackslash, Scan, Unescape, InString
  <2>3. Pending' = Pending /\ seen \in Nat
    BY <1>i, <2>2 DEF Pending, StreamType
  <2>4. s \in States /\ 2 \in 0 .. 2 /\ seen' + Pending = seen + Pending'
    BY <2>2, <2>3
  <2> HIDE DEF States
  <2> QED
    BY <1>s, <2>2, <2>3, <2>4
<1>5. ASSUME NEW c \in Chars, EndComment(c) PROVE IInv'
  <2>1. /\ Scan(c, FALSE, "INITIAL_WHITESPACE", 0) /\ seen' = seen
        /\ state = "COMMENT" /\ state' = "INITIAL_WHITESPACE"
    BY <1>5 DEF EndComment, Scan
  <2>2. Pending' = Pending /\ seen \in Nat
    BY <1>i, <2>1 DEF Pending, StreamType, InString
  <2>3. /\ "INITIAL_WHITESPACE" \in States /\ 0 \in 0 .. 2
        /\ seen' + Pending = seen + Pending'
    BY <2>1, <2>2
  <2> HIDE DEF States
  <2> QED
    BY <1>s, <2>1, <2>2, <2>3
<1>6. ASSUME NEW c \in Chars, EndString(c) PROVE IInv'
  <2>1. /\ Scan(c, FALSE, "QUOTED_STRING", 2) /\ seen' = seen
        /\ state \in InString /\ state' = "QUOTED_STRING"
    BY <1>6 DEF EndString, Scan, InString
  <2>2. Pending' = Pending /\ seen \in Nat
    BY <1>i, <2>1 DEF Pending, StreamType
  <2>3. /\ "QUOTED_STRING" \in States /\ 2 \in 0 .. 2
        /\ seen' + Pending = seen + Pending'
    BY <2>1, <2>2
  <2> HIDE DEF States
  <2> QED
    BY <1>s, <2>1, <2>2, <2>3
<1>7. ASSUME NEW c \in Chars, EndWord(c) PROVE IInv'
  <2>1. /\ Get(c, TRUE) /\ state = "NORMAL" /\ NextToken /\ seen' = seen
        /\ \E word \in Words \cup {ONE} : ParseNormal(word)
    BY <1>7 DEF EndWord
  <2>2. StreamOK' /\ outcome = "parsing"
    BY <1>i, <2>1, GetKeeps
  <2>3. PICK word \in Words \cup {ONE} : ParseNormal(word)
    BY <2>1
  <2> QED
    BY <2>1, <2>2, <2>3, NormalKeeps
<1>8. ASSUME NEW c \in Chars, ParseQuoted(c) PROVE IInv'
  BY <1>8, QuotedKeeps
<1>p. ASSUME NEW c, Punctuation(c)
      PROVE  /\ StreamType' /\ outcome = "parsing"
             /\ seen' = seen /\ state' = state
  <2>1. /\ Get(c, FALSE) /\ c \in Chars /\ state' = state /\ length' = length
        /\ seen' = seen
    BY <1>p DEF Punctuation, token, Get
  <2>2. StreamOK' /\ outcome = "parsing"
    BY <1>i, <2>1, GetKeeps
  <2> QED
    BY <1>i, <2>1, <2>2 DEF StreamType, StreamOK
<1>e. ASSUME NEW c, Punctuation(c), Error PROVE IInv'
  BY <1>i, <1>e, <1>p, FailureKeeps DEF Error
<1>9. CASE ParseStatementEnd
  <2>1. CASE Error
    BY <1>9, <1>e, <2>1 DEF ParseStatementEnd
  <2>2. CASE ~Error
    <3>1. /\ UNCHANGED <<statements_, config_stack, bracketCtr, outcome, stray>>
          /\ group' = group + 1 /\ last_token_type' = "STATEMENT_END"
          /\ Punctuation(";")
      BY <1>9, <2>2 DEF ParseStatementEnd, tree
    <3>2. /\ StreamType' /\ outcome = "parsing"
          /\ seen' = seen /\ state' = state
      BY <1>p, <3>1
    <3>3. TreeInv' /\ Kept' = Kept
      BY <1>i, <3>1, <3>2, EndStep
    <3> QED
      BY <1>i, <3>1, <3>2, <3>3, PunctuationKeeps
  <2> QED
    BY <2>1, <2>2
<1>10. CASE ParseStartBlock
  <2>1. CASE Error
    BY <1>10, <1>e, <2>1 DEF ParseStartBlock
  <2>2. CASE ~Error
    <3>1. /\ InStatement /\ OpensBlock(statements_, Back(Top), statements_')
          /\ config_stack' = Append(config_stack, Back(Top))
          /\ bracketCtr' = bracketCtr + 1 /\ last_token_type' = "START_BLOCK"
          /\ group' = group + 1 /\ UNCHANGED <<outcome, stray>>
          /\ Punctuation("{")
      BY <1>10, <2>2 DEF ParseStartBlock, OpensBlock
    <3>2. /\ StreamType' /\ outcome = "parsing"
          /\ seen' = seen /\ state' = state
      BY <1>p, <3>1
    <3>3. TreeInv' /\ (~stray => Kept' = Kept)
      BY <1>i, <3>1, <3>2, OpenStep
    <3> QED
      BY <1>i, <3>1, <3>2, <3>3, PunctuationKeeps
  <2> QED
    BY <2>1, <2>2
<1>11. CASE ParseEndBlock
  <2>1. CASE Error
    BY <1>11, <1>e, <2>1 DEF ParseEndBlock
  <2>2. CASE ~Error
    <3>1. /\ config_stack' = Pop /\ bracketCtr' = bracketCtr - 1
          /\ outcome' = Checked(bracketCtr - 1)
          /\ last_token_type' = "END_BLOCK"
          /\ group' = group + 1 /\ UNCHANGED <<statements_, stray>>
          /\ Punctuation("}")
      BY <1>11, <2>2 DEF ParseEndBlock
    <3>2. /\ StreamType' /\ outcome = "parsing"
          /\ seen' = seen /\ state' = state
      BY <1>p, <3>1
    <3>3. TreeInv' /\ Kept' = Kept
      BY <1>i, <3>1, <3>2, CloseStep
    <3>4. outcome' \in {"parsing", "false"}
      BY <3>1, <3>2 DEF Checked
    <3> QED
      BY <1>i, <3>1, <3>2, <3>3, <3>4, PunctuationKeeps
  <2> QED
    BY <2>1, <2>2
<1>12. CASE Eof
  <2>1. StreamOK' /\ outcome = "parsing" /\ seen' = seen
    BY <1>i, <1>12, GetEofKeeps DEF Eof
  <2>2. CASE /\ state = "NORMAL" /\ length > 1 /\ NextToken
             /\ \E word \in Words : ParseNormal(word)
    <3>1. PICK word \in Words \cup {ONE} : ParseNormal(word)
      BY <2>2
    <3> QED
      BY <2>1, <2>2, <3>1, NormalKeeps
  <2>3. CASE /\ state = "COMMENT" /\ NextToken
             /\ UNCHANGED <<tree, last_token_type, bracketCtr, outcome, group,
                            stray>>
    <3>1. StreamType' /\ Pending' = Pending /\ seen \in Nat
      BY <1>i, <2>1, <2>3
      DEF StreamType, StreamOK, NextToken, Pending, InString
    <3> QED
      BY <2>1, <2>3, <3>1, ScanKeeps
  <2>4. CASE Error /\ UNCHANGED token
    <3>1. StreamType'
      BY <1>i, <2>1, <2>4 DEF StreamType, StreamOK, token
    <3> QED
      BY <1>i, <2>1, <2>4, <3>1, FailureKeeps DEF Error
  <2>5. CASE /\ \/ state = "INITIAL_WHITESPACE"
                \/ state \in {"NORMAL", "COMMENT"} /\ length = 1
             /\ outcome' = IF Ends THEN "true" ELSE "false"
             /\ UNCHANGED <<token, tree, last_token_type, bracketCtr, group,
                            stray>>
    <3>1. StreamType' /\ state' = state
      BY <1>i, <2>1, <2>5 DEF StreamType, StreamOK, token
    <3>2. CASE ~Ends
      BY <1>i, <2>1, <2>5, <3>1, <3>2, FailureKeeps
    <3>3. CASE Ends
      <4>1. outcome' = "true" /\ bracketCtr' = 0 /\ stray' = stray
        BY <2>5, <3>3 DEF Ends
      <4>2. TreeInv' /\ Kept' = Kept
        BY <1>i, <2>1, <2>5, <4>1, SameTree
      <4>3. AllKept'
        BY <4>1 DEF AllKept
      <4>4. AcceptedIsComplete'
        <5> SUFFICES ASSUME ~stray
                     PROVE  seen - Kept = IF state = "NORMAL" THEN 1 ELSE 0
          BY <2>1, <3>1, <4>1, <4>2 DEF AcceptedIsComplete
        <5>1. seen = Kept + Pending
          BY <2>1, IInvParts DEF AllKept
        <5>2. Pending = IF state = "NORMAL" THEN 1 ELSE 0
          BY <2>5 DEF Pending, InString
        <5>3. Kept \in Nat
          <6>1. Kept = SumFunction(Sizes(statements_))
            BY DEF Kept, Sizes
          <6>2. statements_ \in Seq(Statement)
            BY <1>i DEF TreeInv, TreeType
          <6> QED
            BY <6>1, <6>2, KeptIsNumber
        <5> QED
          BY <5>1, <5>2, <5>3
      <4> QED
        BY <3>1, <4>2, <4>3, <4>4, IInvWhole
    <3> QED
      BY <3>2, <3>3
  <2> QED
    BY <1>12, <2>2, <2>3, <2>4, <2>5 DEF Eof
<1>13. CASE UNCHANGED vars
  BY <1>13 DEF vars, stream, token, tree, IInv, TypeOK, BlocksComeFirst,
       StackIsPath, NothingFreed, GroupIsCurrent, WordsAreApart,
       StatementsAreApart, AllKept, AcceptedIsComplete, Kept, Pending, In, Top,
       InStatement
<1> QED
  BY <1>1, <1>2, <1>3, <1>4, <1>5, <1>6, <1>7, <1>8, <1>9, <1>10, <1>11,
     <1>12, <1>13
  DEF Next, ParseToken
-----------------------------------------------------------------------------
(* The blocks that configLookup reaches for <<"server">>. *)
Reaches(g) ==
  g = [k \in 0 .. Len(<<"server">>) |->
         IF k = 0 THEN {0}
         ELSE UNION {First(Named(Blocks(c), <<"server">>[k])) : c \in g[k - 1]}]

(* They are the first server block of the file, if there is one; and the   *)
(* field is the first port field in it.                                    *)
LEMMA PortLookup ==
  ASSUME NEW servers, servers = Named(Blocks(0), "server"),
         NEW fields,
         fields = UNION {First(Named(In(c) \ Blocks(c), "port")) :
                           c \in First(servers)}
  PROVE  configLookup(0, <<"server">>, "port")
           = IF fields = {} THEN <<>> ELSE Tail(statements_[Min(fields)].tokens)
<1>1. Len(<<"server">>) = 1 /\ <<"server">>[1] = "server"
  OBVIOUS
<1>2. PICK g : g = [k \in 0 .. 1 |-> IF k = 0 THEN {0} ELSE First(servers)]
  OBVIOUS
<1>3. Reaches(g)
  <2>1. g[0] = {0} /\ g[1] = First(servers)
    BY <1>2
  <2>2. UNION {First(Named(Blocks(c), "server")) : c \in {0}} = First(servers)
    OBVIOUS
  <2>3. \A k \in 0 .. 1 : k # 0 => k = 1 /\ k - 1 = 0
    OBVIOUS
  <2>4. g = [k \in 0 .. 1 |->
               IF k = 0 THEN {0}
               ELSE UNION {First(Named(Blocks(c), <<"server">>[k])) :
                             c \in g[k - 1]}]
    BY <1>1, <1>2, <2>1, <2>2, <2>3
  <2> QED
    BY <1>1, <2>4 DEF Reaches
<1>4. PICK h : h = CHOOSE r : Reaches(r)
  OBVIOUS
<1>5. Reaches(h)
  BY <1>3, <1>4
<1>6. h[1] = First(servers)
  <2>1. h[0] = {0}
    BY <1>1, <1>5 DEF Reaches
  <2>2. h[1] = UNION {First(Named(Blocks(c), <<"server">>[1])) : c \in h[0]}
    BY <1>1, <1>5 DEF Reaches
  <2> QED
    BY <1>1, <2>1, <2>2
<1>7. configLookup(0, <<"server">>, "port")
        = LET fs == UNION {First(Named(In(c) \ Blocks(c), "port")) :
                             c \in h[Len(<<"server">>)]}
          IN  IF fs = {} THEN <<>> ELSE Tail(statements_[Min(fs)].tokens)
  BY <1>4 DEF configLookup, Reaches
<1> QED
  BY <1>1, <1>6, <1>7

(* The value of a field is what follows its name. *)
LEMMA ValueIs ==
  ASSUME NEW x \in Statement
  PROVE  /\ Len(Tail(x.tokens)) = 1 <=> Len(x.tokens) = 2
         /\ Len(x.tokens) = 2 => Tail(x.tokens)[1] = x.tokens[2]
<1>1. PICK ts \in Seq(Token) : ts = x.tokens /\ ts # <<>>
  BY DEF Statement
<1>2. Len(Tail(ts)) = Len(ts) - 1 /\ Len(ts) \in Nat
  BY <1>1
<1>3. Len(ts) = 2 => Tail(ts)[1] = ts[2]
  BY <1>1
<1> QED
  BY <1>1, <1>2, <1>3

(* getPortNumber gives the port of the first server block of any tree.     *)
LEMMA PortOfTree == IInv => PortIsTheServers
<1> SUFFICES ASSUME IInv PROVE PortIsTheServers
  OBVIOUS
<1>1. PICK m \in Nat : m = Len(statements_) /\ DOMAIN statements_ = 1 .. m
                       /\ \A i \in 1 .. m : statements_[i] \in Statement
  <2>1. statements_ \in Seq(Statement)
    BY DEF IInv, TypeOK
  <2> QED
    BY <2>1
<1>2. PICK servers : servers = Named(Blocks(0), "server")
  OBVIOUS
<1> DEFINE Ports(s) == Named(In(s) \ Blocks(s), "port")
<1>3. servers \subseteq 1 .. m /\ \A s : Ports(s) \subseteq 1 .. m
  BY <1>1, <1>2 DEF Named, Blocks, In
<1>4. PICK fields : fields = UNION {First(Ports(c)) : c \in First(servers)}
  OBVIOUS
<1>5. PICK vs : vs = configLookup(0, <<"server">>, "port")
  OBVIOUS
<1>6. /\ fields = {} => vs = <<>>
      /\ fields # {} => vs = Tail(statements_[Min(fields)].tokens)
  BY <1>2, <1>4, <1>5, PortLookup
<1>7. getPortNumber = IF Len(vs) # 1 THEN "-1" ELSE vs[1].word
  BY <1>5 DEF getPortNumber
<1> HIDE DEF Ports
<1>8. ASSUME fields # {}
      PROVE  \E s \in servers : /\ \A r \in servers : s <= r
                                /\ \E p \in Ports(s) : Min(fields) = p
  <2>1. First(servers) # {}
    BY <1>4, <1>8
  <2>2. PICK s \in servers : First(servers) = {s} /\ \A r \in servers : s <= r
    <3>1. servers # {} /\ servers \in SUBSET Nat
      BY <1>3, <2>1 DEF First
    <3> QED
      BY <3>1, MinIs DEF First
  <2>3. fields = First(Ports(s))
    BY <1>4, <2>2
  <2>4. Ports(s) # {} /\ Ports(s) \in SUBSET Nat
    BY <1>3, <1>8, <2>3 DEF First
  <2>5. PICK p \in Ports(s) : fields = {p}
    BY <2>3, <2>4, MinIs DEF First
  <2>6. Min(fields) = p
    BY <2>5 DEF Min
  <2> QED
    BY <2>2, <2>6
<1>9. ASSUME getPortNumber # "-1"
      PROVE  \E s \in servers :
               /\ \A r \in servers : s <= r
               /\ \E p \in Ports(s) : Len(statements_[p].tokens) = 2
  <2>1. Len(vs) = 1 /\ fields # {}
    BY <1>6, <1>7, <1>9
  <2>2. PICK s \in servers : /\ \A r \in servers : s <= r
                             /\ \E p \in Ports(s) : Min(fields) = p
    BY <1>8, <2>1
  <2>3. PICK p \in Ports(s) : Min(fields) = p
    BY <2>2
  <2>4. statements_[p] \in Statement /\ Len(Tail(statements_[p].tokens)) = 1
    BY <1>1, <1>3, <1>6, <2>1, <2>3
  <2>5. Len(statements_[p].tokens) = 2
    BY <2>4, ValueIs
  <2> QED
    BY <2>2, <2>5
<1>10. ASSUME NEW s \in servers, NEW p, servers = {s}, Ports(s) = {p},
              Len(statements_[p].tokens) = 2
       PROVE  getPortNumber = statements_[p].tokens[2].word
  <2>1. Min({s}) = s /\ Min({p}) = p
    <3>1. s \in Nat /\ p \in Nat /\ p \in 1 .. m
      BY <1>3, <1>10
    <3> QED
      BY <3>1 DEF Min
  <2>2. First(servers) = {s} /\ First(Ports(s)) = {p}
    BY <1>10, <2>1 DEF First
  <2>3. fields = {p}
    BY <1>4, <2>2
  <2>4. vs = Tail(statements_[p].tokens) /\ statements_[p] \in Statement
    BY <1>1, <1>3, <1>6, <1>10, <2>1, <2>3
  <2>5. Len(vs) = 1 /\ vs[1] = statements_[p].tokens[2]
    BY <1>10, <2>4, ValueIs
  <2> QED
    BY <1>7, <2>5
<1> QED
  BY <1>2, <1>9, <1>10 DEF PortIsTheServers, Ports
-----------------------------------------------------------------------------
(* The inductive invariant holds while and after Parse reads any file. *)
THEOREM Invariance == Spec => []IInv
<1>1. Init => IInv
  BY InitIInv
<1>2. IInv /\ [Next]_vars => IInv'
  BY NextIInv
<1> QED
  BY <1>1, <1>2, PTL DEF Spec

(* Type correctness of ParseToken, of Parse and of the tree. *)
THEOREM TypeCorrect == Spec => []TypeOK
<1>1. IInv => TypeOK
  BY DEF IInv
<1> QED
  BY <1>1, Invariance, PTL

(* top() is never taken of an empty config_stack, back() never of a block  *)
(* without statements in the middle of one, and no pointer on the stack is *)
(* to a block that was replaced, for files of any length and depth.        *)
THEOREM StackIsSound == Spec => []StackIsPath
<1>1. IInv => StackIsPath
  BY DEF IInv
<1> QED
  BY <1>1, Invariance, PTL

(* Parse puts the words of a file into statements as ';', '{' and '}' part *)
(* them, for every file in which no statement begins with a quoted string. *)
THEOREM StatementsArePartedRight == Spec => []WordsAreApart
<1>1. IInv => WordsAreApart
  BY DEF IInv
<1> QED
  BY <1>1, Invariance, PTL

(* A file that Parse accepts is in the tree, brackets, words and strings.  *)
THEOREM NothingIsDropped == Spec => []AcceptedIsComplete
<1>1. IInv => AcceptedIsComplete
  BY DEF IInv
<1> QED
  BY <1>1, Invariance, PTL

(* getPortNumber looks into the first server block of a file of any shape. *)
THEOREM PortIsRight == Spec => []PortIsTheServers
<1>1. IInv => PortIsTheServers
  BY PortOfTree
<1> QED
  BY <1>1, Invariance, PTL
=============================================================================
