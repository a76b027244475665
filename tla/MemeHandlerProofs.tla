------------------------- MODULE MemeHandlerProofs -------------------------
(***************************************************************************)
(* The meme handler.  The upload form first, for every form of any length: *)
(* FormIInv is inductive.  It says of the part that parse() is in the      *)
(* middle of that it is split as if the next line were its last boundary.  *)
(*                                                                         *)
(* Then the memes, for any number of threads, uploads and restarts,        *)
(* whatever two threads do to memes_ at once: IInv is inductive.           *)
(* ShownIsOnDisk needs that a thread on its way to log_meme has written    *)
(* its file, or has failed to (UploadSoFar), that no other thread works on *)
(* that image (OneUploader) and that a new uuid is in no map and on no     *)
(* page (Fresh).  AcceptedIsShown needs that an entry of a map that is     *)
(* whole never changes (MapIsWhole).                                       *)
(***************************************************************************)
EXTENDS MemeForm, MemeStore, DataInduction, SequenceTheorems

(* The boundary lines that have been read when getline delivers line n     *)
(* next.                                                                   *)
Before(n) == {j \in Delimiters : j < n}

(* Part p was found between its boundaries. *)
IsFound(p) ==
  \E a, b \in Delimiters :
    IsDelimiter(a, p - 1) /\ IsDelimiter(b, p) /\ IsPart(p, a, b)

(* The part that parse() is in the middle of, behind its boundary a: it is *)
(* split as if the next line were its last boundary.                       *)
IsOpen(a) ==
  /\ IsDelimiter(a, part - 1) /\ a < next
  /\ Cardinality(Before(next)) = part
  /\ IsPart(part, a, next)
  /\ state = "reading_header" <=> HeaderEnd(a + 1, next - 1) = {}
  /\ state = "reading_header" =>
       (crlf_end <=> next > a + 1 /\ EndsInCR(req.body[next - 1]))

(* The parts before it were found, those behind it are empty, and it is    *)
(* open or, when its boundary was reached, found as well.                  *)
PartsSoFar ==
  /\ Invalid = "no_error" /\ req.body[1] = "open" /\ next > 1
  /\ \A p \in 1 .. part - 1 : IsFound(p)
  /\ \A p \in part + 1 .. 4 : header[p] = <<>> /\ text[p] = <<>>
  /\ IF state = "reached_boundary"
     THEN /\ IsFound(part)
          /\ IsDelimiter(next - 1, part)
          /\ Cardinality(Before(next)) = part + 1
     ELSE \E a \in Delimiters : IsOpen(a)

(* The inductive invariant of the form. *)
FormIInv ==
  /\ FormTypeOK
  /\ status = "reading" =>
       IF part = 0
       THEN /\ next = 1 /\ state = "reached_boundary"
            /\ \A p \in Parts : header[p] = <<>> /\ text[p] = <<>>
       ELSE PartsSoFar
  /\ FormIsSplit

(* The lines of the body, and the place in it. *)
LEMMA BodyType ==
  ASSUME FormTypeOK
  PROVE  /\ req.body \in Seq(Line) /\ Len(req.body) \in Nat
         /\ DOMAIN req.body = 1 .. Len(req.body)
         /\ next \in Nat /\ part \in Nat
<1>1. req \in Upload
  BY UploadAssumption DEF FormTypeOK
<1>2. req.body \in Seq(Line)
  BY <1>1 DEF Upload
<1> QED
  BY <1>2, LenProperties DEF FormTypeOK

(* The boundary lines before a line are numbered by the lines before them. *)
LEMMA BeforeLine ==
  ASSUME FormTypeOK, NEW n \in 1 .. Len(req.body)
  PROVE  /\ IsFiniteSet(Before(n)) /\ Cardinality(Before(n)) \in Nat
         /\ n \in Delimiters =>
              Cardinality(Before(n + 1)) = Cardinality(Before(n)) + 1
         /\ n \notin Delimiters => Before(n + 1) = Before(n)
<1>1. Delimiters \subseteq 1 .. Len(req.body)
  BY BodyType DEF Delimiters
<1>2. IsFiniteSet(Delimiters)
  <2>1. IsFiniteSet(1 .. Len(req.body))
    <3>1. 1 \in Int /\ Len(req.body) \in Int
      BY BodyType
    <3> QED
      BY <3>1, FS_Interval
  <2> QED
    BY <1>1, <2>1, FS_Subset
<1>3. IsFiniteSet(Before(n)) /\ Cardinality(Before(n)) \in Nat
  BY <1>2, FS_Subset, FS_CardinalityType DEF Before
<1>4. ASSUME n \in Delimiters
      PROVE  Cardinality(Before(n + 1)) = Cardinality(Before(n)) + 1
  <2>1. Before(n + 1) = Before(n) \cup {n} /\ n \notin Before(n)
    <3>1. n \in Int /\ ~(n < n)
      BY BodyType
    <3>2. \A j \in Delimiters : j < n + 1 <=> j < n \/ j = n
      BY <1>1, <3>1, BodyType
    <3> QED
      BY <1>4, <3>1, <3>2 DEF Before
  <2> QED
    BY <1>3, <2>1, FS_AddElement
<1>5. ASSUME n \notin Delimiters PROVE Before(n + 1) = Before(n)
  <2>1. \A j \in Delimiters : j < n + 1 <=> j < n
    BY <1>1, <1>5, BodyType
  <2> QED
    BY <2>1 DEF Before
<1> QED
  BY <1>3, <1>4, <1>5

(* Behind the last line, all of them have been read. *)
LEMMA BeforeEnd ==
  ASSUME FormTypeOK, ~More
  PROVE  next = Len(req.body) + 1 /\ Before(next) = Delimiters
<1>1. Delimiters \subseteq 1 .. Len(req.body)
  BY BodyType DEF Delimiters
<1>2. next = Len(req.body) + 1
  BY BodyType DEF FormTypeOK, More
<1>3. \A j \in Delimiters : j < next
  BY <1>1, <1>2, BodyType
<1> QED
  BY <1>2, <1>3 DEF Before

(* One more line is one more line of a text. *)
LEMMA OneLineMore ==
  ASSUME NEW a \in Nat, NEW b \in Nat, a <= b + 1
  PROVE  Append(Lines(a, b), b + 1) = Lines(a, b + 1)
<1>1. /\ Lines(a, b) \in Seq(Nat) /\ Len(Lines(a, b)) = b - a + 1
      /\ Lines(a, b + 1) \in Seq(Nat) /\ Len(Lines(a, b + 1)) = b - a + 2
  BY DEF Lines
<1>2. /\ Len(Append(Lines(a, b), b + 1)) = b - a + 2
      /\ Append(Lines(a, b), b + 1) \in Seq(Nat)
  BY <1>1
<1>3. ASSUME NEW k \in 1 .. b - a + 2
      PROVE  Append(Lines(a, b), b + 1)[k] = Lines(a, b + 1)[k]
  BY <1>1, <1>3 DEF Lines
<1> QED
  BY <1>1, <1>2, <1>3, SeqEqual

(* No line is the empty text. *)
LEMMA NoLines ==
  ASSUME NEW a \in Nat
  PROVE  Lines(a + 1, a) = <<>>
BY DEF Lines

(* A line more of a part that is open: it can only add a place where the   *)
(* header may end, and that is the line itself.                            *)
LEMMA HeaderEndGrows ==
  ASSUME FormTypeOK, NEW a \in Nat, a < next, More, a >= 1
  PROVE  HeaderEnd(a + 1, next) =
           HeaderEnd(a + 1, next - 1)
             \cup {i \in {next} : /\ next > a + 1 /\ line = "blank"
                                  /\ EndsInCR(req.body[next - 1])}
BY BodyType DEF HeaderEnd, line

(* A request with no line read has no part. *)
LEMMA InitFormIInv == FormInit => FormIInv
<1> SUFFICES ASSUME FormInit PROVE FormIInv
  OBVIOUS
<1>1. req \in Upload
  BY UploadAssumption DEF FormInit
<1>2. req.body \in Seq(Line)
  BY <1>1 DEF Upload
<1>3. Len(req.body) \in Nat
  BY <1>2
<1>4. FormTypeOK
  <2>1. <<>> \in Seq(1 .. Len(req.body))
    OBVIOUS
  <2>2. /\ header \in [Parts -> Seq(1 .. Len(req.body))]
        /\ text \in [Parts -> Seq(1 .. Len(req.body))]
    BY <2>1 DEF FormInit
  <2>3. next \in 1 .. Len(req.body) + 1 /\ part \in 0 .. 4
    BY <1>3 DEF FormInit
  <2> QED
    BY <2>2, <2>3 DEF FormInit, FormTypeOK
<1> QED
  BY <1>4 DEF FormInit, FormIInv, FormIsSplit, Parts

(* A part that was found stays so while its lines stay what they are. *)
LEMMA FoundStays ==
  ASSUME NEW p, req' = req, header'[p] = header[p], text'[p] = text[p],
         IsFound(p)
  PROVE  IsFound(p)'
<1>1. Delimiters' = Delimiters
  BY DEF Delimiters
<1>2. PICK a \in Delimiters, b \in Delimiters :
        IsDelimiter(a, p - 1) /\ IsDelimiter(b, p) /\ IsPart(p, a, b)
  BY DEF IsFound
<1>3. IsDelimiter(a, p - 1)' /\ IsDelimiter(b, p)'
  BY <1>1, <1>2 DEF IsDelimiter
<1>4. IsPart(p, a, b)'
  BY <1>2 DEF IsPart, HeaderEnd, Lines
<1> QED
  BY <1>1, <1>2, <1>3, <1>4 DEF IsFound

(* getline delivers a line of the part that is open: what is open stays so *)
(* when the part is split with that line.                                  *)
LEMMA OpenStays ==
  ASSUME FormTypeOK, PartsSoFar, Getline, ~is_boundary(line),
         NEW a \in Delimiters, IsOpen(a),
         state' # "reached_boundary",
         \A p \in Parts : p # part =>
           header'[p] = header[p] /\ text'[p] = text[p],
         IsPart(part, a, next)',
         (state = "reading_header" <=> HeaderEnd(a + 1, next - 1) = {})'
  PROVE  PartsSoFar'
<1>b. /\ req.body \in Seq(Line) /\ Len(req.body) \in Nat
      /\ DOMAIN req.body = 1 .. Len(req.body)
      /\ next \in Nat /\ part \in 1 .. 4 /\ next \in 1 .. Len(req.body)
  BY BodyType DEF FormTypeOK, Getline, More, Parts
<1>1. /\ req' = req /\ next' = next + 1 /\ part' = part
      /\ crlf_end' = EndsInCR(line)
  BY DEF Getline
<1>2. Delimiters' = Delimiters
  BY <1>1 DEF Delimiters
<1>3. \A p \in 1 .. part - 1 : IsFound(p)'
  <2> SUFFICES ASSUME NEW p \in 1 .. part - 1 PROVE IsFound(p)'
    OBVIOUS
  <2>1. p \in Parts /\ p # part
    BY <1>b DEF Parts
  <2> QED
    BY <1>1, <2>1, FoundStays DEF PartsSoFar
<1>4. \A p \in part + 1 .. 4 : header'[p] = <<>> /\ text'[p] = <<>>
  BY <1>b DEF PartsSoFar, Parts
<1>5. next \notin Delimiters
  BY <1>b DEF Delimiters, line
<1>6. Cardinality(Before(next))' = part'
  <2>1. Before(next + 1) = Before(next)
    BY <1>b, <1>5, BeforeLine
  <2>2. Before(next)' = Before(next + 1)
    BY <1>1, <1>2 DEF Before
  <2> QED
    BY <1>1, <2>1, <2>2 DEF IsOpen
<1>7. IsDelimiter(a, part - 1)' /\ a < next'
  <2>1. a \in Nat
    BY <1>b DEF Delimiters
  <2> QED
    BY <1>1, <1>2, <1>b, <2>1 DEF IsOpen, IsDelimiter
<1>8. (crlf_end <=> next > a + 1 /\ EndsInCR(req.body[next - 1]))'
  <2>1. a \in Nat /\ a < next
    BY <1>b DEF IsOpen, Delimiters
  <2>2. next' > a + 1 /\ next' - 1 = next
    BY <1>1, <1>b, <2>1
  <2>3. req'.body[next' - 1] = line
    BY <1>1, <2>2 DEF line
  <2> QED
    BY <1>1, <2>2, <2>3 DEF EndsInCR
<1>9. IsOpen(a)'
  BY <1>6, <1>7, <1>8 DEF IsOpen
<1>10. (Invalid = "no_error" /\ req.body[1] = "open" /\ next > 1)'
  BY <1>1, <1>b DEF PartsSoFar, Invalid
<1> QED
  BY <1>1, <1>2, <1>3, <1>4, <1>9, <1>10 DEF PartsSoFar

(* The line is added to the header of the part, ... *)
LEMMA HeaderLineSplit ==
  ASSUME FormTypeOK, PartsSoFar, HeaderLine
  PROVE  PartsSoFar'
<1>b. /\ req.body \in Seq(Line) /\ Len(req.body) \in Nat
      /\ DOMAIN req.body = 1 .. Len(req.body)
      /\ next \in Nat /\ part \in Parts /\ next \in 1 .. Len(req.body)
  BY BodyType DEF FormTypeOK, HeaderLine, Getline, More, Parts
<1>1. PICK a \in Delimiters : IsOpen(a)
  BY DEF PartsSoFar, HeaderLine
<1>a. a \in Nat /\ a >= 1 /\ a < next
  BY <1>1, <1>b DEF Delimiters, IsOpen
<1>2. /\ req' = req /\ next' = next + 1 /\ part' = part /\ state' = state
      /\ header' = [header EXCEPT ![part] = Append(@, next)] /\ text' = text
      /\ More /\ state = "reading_header"
  BY DEF HeaderLine, Getline
<1>3. HeaderEnd(a + 1, next - 1) = {} /\ HeaderEnd(a + 1, next) = {}
  <2>1. ~(line = "blank" /\ next > a + 1 /\ EndsInCR(req.body[next - 1]))
    BY <1>1, <1>2 DEF HeaderLine, BlankLine, IsOpen
  <2>2. HeaderEnd(a + 1, next - 1) = {}
    BY <1>1, <1>2 DEF IsOpen
  <2>3. HeaderEnd(a + 1, next) =
          HeaderEnd(a + 1, next - 1)
            \cup {i \in {next} : /\ next > a + 1 /\ line = "blank"
                                 /\ EndsInCR(req.body[next - 1])}
    BY <1>a, <1>2, HeaderEndGrows
  <2> QED
    BY <2>1, <2>2, <2>3
<1>4. header[part] = Lines(a + 1, next - 1) /\ text[part] = <<>>
  BY <1>1, <1>3 DEF IsOpen, IsPart
<1>5. header'[part] = Lines(a + 1, next)
  <2>1. Append(Lines(a + 1, next - 1), next - 1 + 1)
          = Lines(a + 1, next - 1 + 1)
    <3>1. a + 1 \in Nat /\ next - 1 \in Nat /\ a + 1 <= next - 1 + 1
      BY <1>a, <1>b
    <3> QED
      BY <3>1, OneLineMore
  <2>2. header'[part] = Append(header[part], next)
    BY <1>2, <1>b DEF FormTypeOK
  <2>3. next - 1 + 1 = next
    BY <1>b
  <2> QED
    BY <1>4, <2>1, <2>2, <2>3
<1>6. next' - 1 = next
  BY <1>2, <1>b
<1>7. HeaderEnd(a + 1, next - 1)' = {}
  BY <1>2, <1>3, <1>6 DEF HeaderEnd
<1>8. IsPart(part, a, next)'
  BY <1>2, <1>4, <1>5, <1>6, <1>7 DEF IsPart, Lines
<1>9. \A p \in Parts : p # part => header'[p] = header[p] /\ text'[p] = text[p]
  BY <1>2 DEF FormTypeOK
<1>10. Getline /\ ~is_boundary(line) /\ state' # "reached_boundary"
  BY <1>2 DEF HeaderLine
<1> QED
  BY <1>1, <1>2, <1>7, <1>8, <1>9, <1>10, OpenStays

(* ... ends it, with no text so far, ... *)
LEMMA HeaderEndsSplit ==
  ASSUME FormTypeOK, PartsSoFar, HeaderEnds
  PROVE  PartsSoFar'
<1>b. /\ req.body \in Seq(Line) /\ Len(req.body) \in Nat
      /\ DOMAIN req.body = 1 .. Len(req.body)
      /\ next \in Nat /\ part \in Parts /\ next \in 1 .. Len(req.body)
  BY BodyType DEF FormTypeOK, HeaderEnds, Getline, More, Parts
<1>1. PICK a \in Delimiters : IsOpen(a)
  BY DEF PartsSoFar, HeaderEnds
<1>a. a \in Nat /\ a >= 1 /\ a < next
  BY <1>1, <1>b DEF Delimiters, IsOpen
<1>2. /\ req' = req /\ next' = next + 1 /\ part' = part
      /\ state' = "reading_body"
      /\ header' = header /\ text' = text
      /\ More /\ state = "reading_header"
  BY DEF HeaderEnds, Getline
<1>3. HeaderEnd(a + 1, next - 1) = {} /\ HeaderEnd(a + 1, next) = {next}
  <2>1. line = "blank" /\ next > a + 1 /\ EndsInCR(req.body[next - 1])
    BY <1>1, <1>2 DEF HeaderEnds, BlankLine, IsOpen
  <2>2. HeaderEnd(a + 1, next - 1) = {}
    BY <1>1, <1>2 DEF IsOpen
  <2>3. HeaderEnd(a + 1, next) =
          HeaderEnd(a + 1, next - 1)
            \cup {i \in {next} : /\ next > a + 1 /\ line = "blank"
                                 /\ EndsInCR(req.body[next - 1])}
    BY <1>a, <1>2, HeaderEndGrows
  <2> QED
    BY <2>1, <2>2, <2>3
<1>4. header[part] = Lines(a + 1, next - 1) /\ text[part] = <<>>
  BY <1>1, <1>3 DEF IsOpen, IsPart
<1>5. text[part] = Lines(next + 1, next)
  BY <1>4, <1>b, NoLines
<1>6. next' - 1 = next
  BY <1>2, <1>b
<1>7. HeaderEnd(a + 1, next - 1)' = {next}
  BY <1>2, <1>3, <1>6 DEF HeaderEnd
<1>8. IsPart(part, a, next)'
  <2>1. /\ next \in HeaderEnd(a + 1, next - 1)'
        /\ \A i \in HeaderEnd(a + 1, next - 1)' : next <= i
    BY <1>7, <1>b
  <2> QED
    BY <1>2, <1>4, <1>5, <1>6, <2>1 DEF IsPart, Lines
<1>9. \A p \in Parts : p # part => header'[p] = header[p] /\ text'[p] = text[p]
  BY <1>2
<1>10. Getline /\ ~is_boundary(line) /\ state' # "reached_boundary"
  BY <1>2 DEF HeaderEnds
<1> QED
  BY <1>1, <1>2, <1>7, <1>8, <1>9, <1>10, OpenStays

(* ... or is added to its text. *)
LEMMA BodyLineSplit ==
  ASSUME FormTypeOK, PartsSoFar, BodyLine
  PROVE  PartsSoFar'
<1>b. /\ req.body \in Seq(Line) /\ Len(req.body) \in Nat
      /\ DOMAIN req.body = 1 .. Len(req.body)
      /\ next \in Nat /\ part \in Parts /\ next \in 1 .. Len(req.body)
  BY BodyType DEF FormTypeOK, BodyLine, Getline, More, Parts
<1>1. PICK a \in Delimiters : IsOpen(a)
  BY DEF PartsSoFar, BodyLine
<1>a. a \in Nat /\ a >= 1 /\ a < next
  BY <1>1, <1>b DEF Delimiters, IsOpen
<1>2. /\ req' = req /\ next' = next + 1 /\ part' = part
      /\ state' = state
      /\ text' = [text EXCEPT ![part] = Append(@, next)] /\ header' = header
      /\ More /\ state = "reading_body"
  BY DEF BodyLine, Getline
<1>3. HeaderEnd(a + 1, next - 1) # {}
  BY <1>1, <1>2 DEF IsOpen
<1>4. PICK e \in HeaderEnd(a + 1, next - 1) :
        /\ \A i \in HeaderEnd(a + 1, next - 1) : e <= i
        /\ header[part] = Lines(a + 1, e - 1)
        /\ text[part] = Lines(e + 1, next - 1)
  BY <1>1, <1>3 DEF IsOpen, IsPart
<1>e. e \in Nat /\ e < next
  BY <1>a, <1>b DEF HeaderEnd
<1>5. text'[part] = Lines(e + 1, next)
  <2>1. Append(Lines(e + 1, next - 1), next - 1 + 1)
          = Lines(e + 1, next - 1 + 1)
    <3>1. e + 1 \in Nat /\ next - 1 \in Nat /\ e + 1 <= next - 1 + 1
      BY <1>e, <1>b
    <3> QED
      BY <3>1, OneLineMore
  <2>2. text'[part] = Append(text[part], next)
    BY <1>2, <1>b DEF FormTypeOK
  <2>3. next - 1 + 1 = next
    BY <1>b
  <2> QED
    BY <1>4, <2>1, <2>2, <2>3
<1>6. next' - 1 = next
  BY <1>2, <1>b
<1>7. /\ e \in HeaderEnd(a + 1, next)
      /\ \A i \in HeaderEnd(a + 1, next) : e <= i
  <2>1. HeaderEnd(a + 1, next) =
          HeaderEnd(a + 1, next - 1)
            \cup {i \in {next} : /\ next > a + 1 /\ line = "blank"
                                 /\ EndsInCR(req.body[next - 1])}
    BY <1>a, <1>2, HeaderEndGrows
  <2>2. \A i \in HeaderEnd(a + 1, next) :
          i \in HeaderEnd(a + 1, next - 1) \/ i = next
    BY <2>1
  <2> QED
    BY <1>b, <1>e, <1>4, <2>1, <2>2
<1>8. HeaderEnd(a + 1, next - 1)' = HeaderEnd(a + 1, next)
  BY <1>2, <1>6 DEF HeaderEnd
<1>9. IsPart(part, a, next)'
  <2>1. /\ e \in HeaderEnd(a + 1, next - 1)'
        /\ \A i \in HeaderEnd(a + 1, next - 1)' : e <= i
    BY <1>7, <1>8
  <2> QED
    BY <1>2, <1>4, <1>5, <1>6, <2>1 DEF IsPart, Lines
<1>10. \A p \in Parts : p # part =>
         header'[p] = header[p] /\ text'[p] = text[p]
  BY <1>2 DEF FormTypeOK
<1>11. Getline /\ ~is_boundary(line) /\ state' # "reached_boundary"
  BY <1>2 DEF BodyLine
<1> QED
  BY <1>1, <1>2, <1>7, <1>8, <1>9, <1>10, <1>11, OpenStays

(* The boundary ends the part where it was open. *)
LEMMA BoundarySplit ==
  ASSUME FormTypeOK, PartsSoFar, Boundary
  PROVE  PartsSoFar'
<1>b. /\ req.body \in Seq(Line) /\ Len(req.body) \in Nat
      /\ DOMAIN req.body = 1 .. Len(req.body)
      /\ next \in Nat /\ part \in 1 .. 4 /\ next \in 1 .. Len(req.body)
  BY BodyType DEF FormTypeOK, Boundary, Getline, More, Parts
<1>1. PICK a \in Delimiters : IsOpen(a)
  BY DEF PartsSoFar, Boundary, Getline
<1>2. /\ req' = req /\ next' = next + 1 /\ part' = part
      /\ state' = "reached_boundary"
      /\ header' = header /\ text' = text
  BY DEF Boundary, Getline
<1>3. Delimiters' = Delimiters
  BY <1>2 DEF Delimiters
<1>4. next \in Delimiters
  BY <1>b DEF Delimiters, line, Boundary
<1>5. IsDelimiter(next, part)
  BY <1>1, <1>4 DEF IsOpen, IsDelimiter, Before
<1>6. Cardinality(Before(next + 1)) = part + 1
  BY <1>1, <1>4, <1>b, BeforeLine DEF IsOpen
<1>7. Before(next)' = Before(next + 1)
  BY <1>2, <1>3 DEF Before
<1>8. IsFound(part)
  BY <1>1, <1>4, <1>5 DEF IsFound, IsOpen
<1>9. \A p \in 1 .. part : IsFound(p)'
  <2> SUFFICES ASSUME NEW p \in 1 .. part PROVE IsFound(p)'
    OBVIOUS
  <2>1. IsFound(p)
    BY <1>8, <1>b DEF PartsSoFar
  <2> QED
    BY <1>2, <2>1, FoundStays
<1>10. IsDelimiter(next - 1, part)'
  <2>1. next' - 1 = next
    BY <1>2, <1>b
  <2> QED
    BY <1>2, <1>3, <1>5, <2>1 DEF IsDelimiter
<1>11. (Invalid = "no_error" /\ req.body[1] = "open" /\ next > 1)'
  BY <1>2, <1>b DEF PartsSoFar, Invalid
<1>12. (\A p \in 1 .. part - 1 : IsFound(p))' /\ IsFound(part)'
  <2>1. \A p \in 1 .. part' - 1 : p \in 1 .. part
    BY <1>2, <1>b
  <2>2. part \in 1 .. part
    BY <1>b
  <2>3. \A p \in 1 .. part' - 1 : IsFound(p)'
    BY <1>9, <2>1
  <2>4. IsFound(part)'
    <3>1. PICK q \in 1 .. part : q = part
      BY <2>2
    <3>2. IsFound(q)' /\ part' = q
      BY <1>2, <1>9, <3>1
    <3> QED
      BY <3>2 DEF IsFound, IsDelimiter, IsPart
  <2> QED
    BY <2>3, <2>4
<1> QED
  BY <1>2, <1>6, <1>7, <1>10, <1>11, <1>12 DEF PartsSoFar

(* parse() is called for the next part, behind the boundary that ended     *)
(* the one before.                                                         *)
LEMMA NextPartSplit ==
  ASSUME FormTypeOK, PartsSoFar, NextPart
  PROVE  PartsSoFar'
<1>b. /\ req.body \in Seq(Line) /\ Len(req.body) \in Nat
      /\ DOMAIN req.body = 1 .. Len(req.body)
      /\ next \in Nat /\ part \in 1 .. 3
  BY BodyType DEF FormTypeOK, NextPart, Parts
<1>1. /\ req' = req /\ next' = next /\ part' = part + 1
      /\ state' = "reading_header" /\ crlf_end' = FALSE
      /\ header' = header /\ text' = text /\ state = "reached_boundary"
  BY DEF NextPart, BeginPart
<1>2. Delimiters' = Delimiters /\ (\A n : Before(n)' = Before(n))
  BY <1>1 DEF Delimiters, Before
<1>3. /\ IsFound(part) /\ IsDelimiter(next - 1, part)
      /\ Cardinality(Before(next)) = part + 1
  BY <1>1 DEF PartsSoFar
<1>4. next - 1 \in Delimiters /\ next - 1 \in Nat
  BY <1>3, <1>b DEF IsDelimiter, Delimiters
<1>5. ASSUME NEW p \in 1 .. part PROVE IsFound(p)'
  <2>1. IsFound(p)
    BY <1>3, <1>b DEF PartsSoFar
  <2> QED
    BY <1>1, <2>1, FoundStays
<1>6. IsOpen(next - 1)'
  <2>1. HeaderEnd(next, next - 1) = {} /\ next - 1 + 1 = next
    BY <1>b DEF HeaderEnd
  <2>2. HeaderEnd(next - 1 + 1, next - 1)' = {}
    BY <1>1, <2>1 DEF HeaderEnd
  <2>3. header'[part'] = <<>> /\ text'[part'] = <<>>
    BY <1>1, <1>b DEF PartsSoFar
  <2>4. Lines(next' - 1 + 1, next' - 1) = <<>>
    BY <1>1, <1>4, NoLines
  <2>5. IsPart(part, next - 1, next)'
    BY <2>2, <2>3, <2>4 DEF IsPart
  <2>6. IsDelimiter(next - 1, part - 1)'
    <3>1. part' - 1 = part
      BY <1>1, <1>b
    <3> QED
      BY <1>1, <1>2, <1>3, <3>1 DEF IsDelimiter
  <2>7. Cardinality(Before(next))' = part'
    BY <1>1, <1>2, <1>3
  <2>8. (next - 1 < next /\ ~(next > next - 1 + 1))'
    BY <1>1, <1>b
  <2> QED
    BY <1>1, <2>2, <2>5, <2>6, <2>7, <2>8 DEF IsOpen
<1>7. (Invalid = "no_error" /\ req.body[1] = "open" /\ next > 1)'
  BY <1>1, <1>b DEF PartsSoFar, Invalid
<1>8. (\A p \in 1 .. part - 1 : IsFound(p))'
  <2>1. part' - 1 = part
    BY <1>1, <1>b
  <2> QED
    BY <1>5, <2>1
<1>9. (\A p \in part + 1 .. 4 : header[p] = <<>> /\ text[p] = <<>>)'
  BY <1>1, <1>b DEF PartsSoFar
<1>10. (\E a \in Delimiters : IsOpen(a))'
  BY <1>1, <1>2, <1>4, <1>6
<1> QED
  BY <1>1, <1>7, <1>8, <1>9, <1>10 DEF PartsSoFar

(* The first boundary opens the first part. *)
LEMMA FirstBoundarySplit ==
  ASSUME FormTypeOK, FirstBoundary, next = 1,
         \A p \in Parts : header[p] = <<>> /\ text[p] = <<>>
  PROVE  PartsSoFar'
<1>b. /\ req.body \in Seq(Line) /\ Len(req.body) \in Nat
      /\ DOMAIN req.body = 1 .. Len(req.body)
      /\ 1 \in 1 .. Len(req.body)
  BY BodyType DEF FormTypeOK, FirstBoundary, More
<1>1. /\ req' = req /\ next' = 2 /\ part' = 1
      /\ state' = "reading_header" /\ crlf_end' = FALSE
      /\ header' = header /\ text' = text
      /\ Invalid = "no_error" /\ req.body[1] = "open"
  BY DEF FirstBoundary, BeginPart, line
<1>2. Delimiters' = Delimiters
  BY <1>1 DEF Delimiters
<1>3. 1 \in Delimiters
  BY <1>1, <1>b DEF Delimiters, is_boundary
<1>4. Before(1) = {} /\ Cardinality(Before(1)) = 0
  <2>1. Before(1) = {}
    BY <1>b DEF Before, Delimiters
  <2> QED
    BY <2>1, FS_EmptySet
<1>5. IsOpen(1)'
  <2>1. HeaderEnd(1 + 1, 2 - 1)' = {}
    BY DEF HeaderEnd
  <2>2. header'[1] = <<>> /\ text'[1] = <<>>
    BY <1>1 DEF Parts
  <2>3. Lines(1 + 1, 2 - 1) = <<>>
    BY NoLines
  <2>4. IsPart(part, 1, next)'
    BY <1>1, <2>1, <2>2, <2>3 DEF IsPart
  <2>5. IsDelimiter(1, part - 1)'
    BY <1>1, <1>2, <1>3, <1>4 DEF IsDelimiter, Before
  <2>6. Cardinality(Before(next))' = part'
    <3>1. Cardinality(Before(1 + 1)) = 1
      BY <1>3, <1>4, <1>b, BeforeLine
    <3>2. Before(next)' = Before(1 + 1)
      BY <1>1, <1>2 DEF Before
    <3> QED
      BY <1>1, <3>1, <3>2
  <2> QED
    BY <1>1, <2>1, <2>4, <2>5, <2>6 DEF IsOpen
<1>6. (Invalid = "no_error" /\ req.body[1] = "open" /\ next > 1)'
  BY <1>1 DEF Invalid
<1>7. (\A p \in part + 1 .. 4 : header[p] = <<>> /\ text[p] = <<>>)'
  BY <1>1 DEF Parts
<1> QED
  BY <1>1, <1>2, <1>3, <1>5, <1>6, <1>7 DEF PartsSoFar

(* Nothing of the form changes when it is answered. *)
LEMMA AnswerKeeps ==
  ASSUME NEW e \in {"bad_request", "unsupported_media_type", "form"},
         FormTypeOK, Answer(e)
  PROVE  /\ FormTypeOK' /\ status' = e
         /\ GoodForm' = GoodForm
         /\ \A p \in Parts : IsFound(p) => IsFound(p)'
<1>1. FormTypeOK'
  BY DEF Answer, FormTypeOK
<1>2. GoodForm' = GoodForm
  BY DEF Answer, GoodForm, Invalid, Delimiters, IsImage, ContentTypes
<1> QED
  BY <1>1, <1>2, FoundStays DEF Answer

(* The form is accepted exactly when it is good. *)
LEMMA AnswerIsRight ==
  ASSUME FormIInv,
         \/ InvalidRequest \/ NoBoundary \/ PartUnfinished
         \/ TooManyFields \/ BadFileType \/ AcceptForm
  PROVE  FormIInv'
<1>t. FormTypeOK
  BY DEF FormIInv
<1>b. /\ req.body \in Seq(Line) /\ Len(req.body) \in Nat
      /\ DOMAIN req.body = 1 .. Len(req.body)
      /\ next \in Nat /\ part \in Nat
  BY <1>t, BodyType
<1>d. Delimiters \subseteq 1 .. Len(req.body) /\ IsFiniteSet(Delimiters)
  <2>1. Delimiters \subseteq 1 .. Len(req.body)
    BY <1>b DEF Delimiters
  <2>2. IsFiniteSet(1 .. Len(req.body))
    <3>1. 1 \in Int /\ Len(req.body) \in Int
      BY <1>b
    <3> QED
      BY <3>1, FS_Interval
  <2> QED
    BY <2>1, <2>2, FS_Subset
<1>n. GoodForm => Len(req.body) \in Delimiters /\ 1 <= Len(req.body)
  <2>1. GoodForm => Delimiters # {}
    <3>1. Delimiters = {} => Cardinality(Delimiters) = 0
      BY FS_EmptySet
    <3> QED
      BY <3>1 DEF GoodForm
  <2> QED
    BY <1>b, <1>d, <2>1 DEF GoodForm, Delimiters
<1>r. ASSUME NEW e \in {"bad_request", "unsupported_media_type"},
             Answer(e), ~GoodForm
      PROVE  FormIInv'
  BY <1>r, <1>t, AnswerKeeps DEF FormIInv, FormIsSplit
<1>1. CASE InvalidRequest
  <2>1. Invalid \in {"bad_request", "unsupported_media_type"}
    BY <1>1 DEF InvalidRequest, Invalid
  <2>2. ~GoodForm
    BY <1>1 DEF InvalidRequest, GoodForm
  <2> QED
    BY <1>1, <1>r, <2>1, <2>2 DEF InvalidRequest
<1>2. CASE NoBoundary
  <2>1. ~GoodForm
    <3>1. next = 1
      BY <1>2 DEF FormIInv, NoBoundary
    <3> QED
      BY <1>2, <1>n, <3>1 DEF NoBoundary, GoodForm, More, line
  <2> QED
    BY <1>2, <1>r, <2>1 DEF NoBoundary
<1>3. CASE PartUnfinished
  <2>1. PartsSoFar /\ part \in 1 .. 4
    BY <1>3, <1>t DEF PartUnfinished, FormIInv, Parts
  <2>2. Cardinality(Before(next)) = part
    BY <1>3, <2>1 DEF PartsSoFar, PartUnfinished, IsOpen
  <2>3. Before(next) = Delimiters
    BY <1>3, <1>t, BeforeEnd DEF PartUnfinished
  <2>4. ~GoodForm
    BY <2>1, <2>2, <2>3 DEF GoodForm
  <2> QED
    BY <1>3, <1>r, <2>4 DEF PartUnfinished
<1>4. CASE TooManyFields
  <2>1. PartsSoFar
    BY <1>4 DEF TooManyFields, FormIInv
  <2>2. Cardinality(Before(next)) = 5
    BY <1>4, <2>1 DEF PartsSoFar, TooManyFields
  <2>3. ASSUME GoodForm PROVE FALSE
    <3>1. Len(req.body) \in Delimiters /\ Len(req.body) \notin Before(next)
      BY <1>4, <1>n, <1>b, <2>3 DEF TooManyFields, TooMany, More, Before
    <3>2. Before(next) \in SUBSET Delimiters /\ Before(next) # Delimiters
      BY <3>1 DEF Before
    <3>3. Cardinality(Before(next)) # Cardinality(Delimiters)
      BY <1>d, <3>2, FS_Subset
    <3> QED
      BY <2>2, <2>3, <3>3 DEF GoodForm
  <2> QED
    BY <1>4, <1>r, <2>3 DEF TooManyFields
<1>5. CASE BadFileType
  <2>1. ~GoodForm
    BY <1>5 DEF BadFileType, GoodForm
  <2> QED
    BY <1>5, <1>r, <2>1 DEF BadFileType
<1>6. CASE AcceptForm
  <2>1. PartsSoFar /\ part = 4 /\ state = "reached_boundary" /\ ~More
    BY <1>6 DEF AcceptForm, FormIInv, TooMany
  <2>2. next = Len(req.body) + 1 /\ Before(next) = Delimiters
    BY <1>t, <2>1, BeforeEnd
  <2>3. Cardinality(Delimiters) = 5
    BY <2>1, <2>2 DEF PartsSoFar
  <2>4. next - 1 = Len(req.body) /\ next - 1 \in Delimiters
    BY <1>b, <2>1, <2>2 DEF PartsSoFar, IsDelimiter
  <2>5. GoodForm
    BY <1>6, <2>1, <2>3, <2>4 DEF GoodForm, PartsSoFar, Delimiters, AcceptForm
  <2>6. \A p \in Parts : IsFound(p)
    BY <2>1 DEF PartsSoFar, Parts
  <2>7. /\ FormTypeOK' /\ status' = "form" /\ GoodForm'
        /\ \A p \in Parts : IsFound(p)'
    <3>1. Answer("form")
      BY <1>6 DEF AcceptForm
    <3> QED
      BY <1>t, <2>5, <2>6, <3>1, AnswerKeeps
  <2> QED
    BY <2>7 DEF FormIInv, FormIsSplit, IsFound
<1> QED
  BY <1>1, <1>2, <1>3, <1>4, <1>5, <1>6

(* A line that getline delivers, and a boundary, keep the types. *)
LEMMA LineType ==
  ASSUME FormTypeOK, Getline,
         state' \in {"reading_header", "reading_body", "reached_boundary"},
         \/ header' = [header EXCEPT ![part] = Append(@, next)]
         \/ header' = header,
         \/ text' = [text EXCEPT ![part] = Append(@, next)]
         \/ text' = text
  PROVE  FormTypeOK'
<1>b. Len(req.body) \in Nat /\ next \in 1 .. Len(req.body)
  BY BodyType DEF FormTypeOK, Getline, More
<1>1. \A s \in Seq(1 .. Len(req.body)) :
         Append(s, next) \in Seq(1 .. Len(req.body))
  BY <1>b
<1>2. \A f \in [Parts -> Seq(1 .. Len(req.body))] :
        [f EXCEPT ![part] = Append(@, next)]
          \in [Parts -> Seq(1 .. Len(req.body))]
  BY <1>1 DEF Getline
<1>3. header' \in [Parts -> Seq(1 .. Len(req.body))]
  BY <1>2 DEF FormTypeOK
<1>4. text' \in [Parts -> Seq(1 .. Len(req.body))]
  BY <1>2 DEF FormTypeOK
<1> QED
  BY <1>b, <1>3, <1>4 DEF FormTypeOK, Getline, EndsInCR

(* Every line that is read, and every answer, preserves FormIInv. *)
LEMMA NextFormIInv == FormIInv /\ [FormNext]_formvars => FormIInv'
<1> SUFFICES ASSUME FormIInv, [FormNext]_formvars PROVE FormIInv'
  OBVIOUS
<1>t. FormTypeOK
  BY DEF FormIInv
<1>r. ASSUME status' = "reading", part' # 0, FormTypeOK', PartsSoFar'
      PROVE  FormIInv'
  BY <1>r DEF FormIInv, FormIsSplit
<1>g. Getline => PartsSoFar /\ status' = "reading" /\ part' # 0
  BY DEF Getline, FormIInv, Parts
<1>1. CASE FirstBoundary
  <2>1. PartsSoFar'
    BY <1>1, <1>t, FirstBoundarySplit DEF FormIInv, FirstBoundary
  <2>2. FormTypeOK'
    <3>1. next' \in 1 .. Len(req'.body) + 1
      BY <1>1, <1>t, BodyType DEF FormTypeOK, FirstBoundary, More
    <3>2. part' \in 0 .. 4
      BY <1>1 DEF FirstBoundary
    <3>3. /\ state' = "reading_header" /\ crlf_end' = FALSE
          /\ req' = req /\ header' = header /\ text' = text
          /\ status' = status
      BY <1>1 DEF FirstBoundary, BeginPart
    <3> QED
      BY <1>t, <3>1, <3>2, <3>3 DEF FormTypeOK
  <2> QED
    BY <1>1, <1>r, <2>1, <2>2 DEF FirstBoundary
<1>2. CASE HeaderLine
  <2>1. PartsSoFar'
    BY <1>2, <1>t, <1>g, HeaderLineSplit DEF HeaderLine
  <2>2. FormTypeOK'
    BY <1>2, <1>t, LineType DEF HeaderLine
  <2> QED
    BY <1>2, <1>g, <1>r, <2>1, <2>2 DEF HeaderLine
<1>3. CASE HeaderEnds
  <2>1. PartsSoFar'
    BY <1>3, <1>t, <1>g, HeaderEndsSplit DEF HeaderEnds
  <2>2. FormTypeOK'
    BY <1>3, <1>t, LineType DEF HeaderEnds
  <2> QED
    BY <1>3, <1>g, <1>r, <2>1, <2>2 DEF HeaderEnds
<1>4. CASE BodyLine
  <2>1. PartsSoFar'
    BY <1>4, <1>t, <1>g, BodyLineSplit DEF BodyLine
  <2>2. FormTypeOK'
    BY <1>4, <1>t, LineType DEF BodyLine
  <2> QED
    BY <1>4, <1>g, <1>r, <2>1, <2>2 DEF BodyLine
<1>5. CASE Boundary
  <2>1. PartsSoFar'
    BY <1>5, <1>t, <1>g, BoundarySplit DEF Boundary
  <2>2. FormTypeOK'
    BY <1>5, <1>t, LineType DEF Boundary
  <2> QED
    BY <1>5, <1>g, <1>r, <2>1, <2>2 DEF Boundary
<1>6. CASE NextPart
  <2>1. PartsSoFar'
    BY <1>6, <1>t, NextPartSplit DEF FormIInv, NextPart, Parts
  <2>2. FormTypeOK'
    <3>1. part' \in 0 .. 4
      BY <1>6 DEF NextPart, Parts
    <3> QED
      BY <1>6, <1>t, <3>1 DEF FormTypeOK, NextPart, BeginPart
  <2>3. part' # 0 /\ status' = "reading"
    BY <1>6 DEF NextPart, Parts
  <2> QED
    BY <1>r, <2>1, <2>2, <2>3
<1>7. CASE \/ InvalidRequest \/ NoBoundary \/ PartUnfinished
           \/ TooManyFields \/ BadFileType \/ AcceptForm
  BY <1>7, AnswerIsRight
<1>8. CASE UNCHANGED formvars
  <2> USE <1>8 DEF formvars
  <2>1. FormTypeOK' /\ GoodForm' = GoodForm
    BY <1>t DEF FormTypeOK, GoodForm, Invalid, Delimiters, IsImage,
                ContentTypes
  <2>2. \A p : IsFound(p) <=> IsFound(p)'
    BY DEF IsFound, IsDelimiter, Delimiters, IsPart, HeaderEnd
  <2>3. \A a : IsOpen(a) <=> IsOpen(a)'
    BY DEF IsOpen, IsDelimiter, Delimiters, IsPart, HeaderEnd, Before
  <2>4. PartsSoFar <=> PartsSoFar'
    <3>1. IsFound(part) <=> IsFound(part)'
      BY DEF IsFound, IsDelimiter, Delimiters, IsPart, HeaderEnd
    <3> QED
      BY <2>2, <2>3, <3>1
      DEF PartsSoFar, Invalid, IsDelimiter, Delimiters, Before
  <2>5. FormIsSplit'
    BY <2>1, <2>2 DEF FormIInv, FormIsSplit, IsFound
  <2> QED
    BY <2>1, <2>4, <2>5 DEF FormIInv
<1> QED
  BY <1>1, <1>2, <1>3, <1>4, <1>5, <1>6, <1>7, <1>8 DEF FormNext

(* FormIInv holds in every state of every behaviour of the form. *)
THEOREM FormInvariance == FormSpec => []FormIInv
<1> QED
  BY InitFormIInv, NextFormIInv, PTL DEF FormSpec

(* Type correctness of the form. *)
THEOREM FormTypeCorrect == FormSpec => []FormTypeOK
<1>1. FormIInv => FormTypeOK
  BY DEF FormIInv
<1> QED
  BY <1>1, FormInvariance, PTL

(* A form of any length is accepted exactly when it is good, and split to  *)
(* the byte where its boundaries and empty lines are.                      *)
THEOREM FormIsSplitRight == FormSpec => []FormIsSplit
<1>1. FormIInv => FormIsSplit
  BY DEF FormIInv
<1> QED
  BY <1>1, FormInvariance, PTL
-----------------------------------------------------------------------------
(* The memes.                                                              *)

(* What is left of a map that is corrupt: some of its entries, unchanged. *)
LEMMA RemainsArePart ==
  ASSUME NEW m \in [Images -> Entry], NEW r \in Remains(m)
  PROVE  /\ r \in [Images -> Entry]
         /\ \A i \in Images : r[i] \in {"absent", m[i]}
<1>1. PICK kept \in SUBSET Images :
        r = [i \in Images |-> IF i \in kept THEN m[i] ELSE "absent"]
  BY DEF Remains
<1> QED
  BY <1>1 DEF Entry

(* A process starts with nothing but the files that it finds. *)
LEMMA NewProcessType ==
  ASSUME NewProcess
  PROVE  /\ memes_' \in [Images -> Entry]
         /\ pc' \in [Threads -> {"idle"}]
         /\ img' \in [Threads -> Images \cup {NoImage}]
         /\ style' \in [Threads -> Entry]
         /\ page' \in [Threads -> [Images -> Entry]]
         /\ corrupt' \in BOOLEAN
         /\ tainted' \in SUBSET Threads
         /\ accepted' \in SUBSET Images
         /\ promised' \in [Threads -> SUBSET Images]
<1>1. [i \in Images |-> "absent"] \in [Images -> Entry]
  BY DEF Entry
<1> QED
  BY <1>1 DEF NewProcess, Entry

(* A new name leads to a file that no unused uuid has, and if it is the    *)
(* file of another upload, that one is shared from now on.                 *)
LEMMA NewNameFacts ==
  ASSUME TypeOK, Fresh, StoreAssumption, NEW t \in Threads, img[t] = NoImage,
         NEW i \in Images \ used, NEW p \in Paths(i), NewName(t, i, p)
  PROVE  /\ p \in Places
         /\ file' \in [Images -> Places]
         /\ img' \in [Threads -> Images \cup {NoImage}]
         /\ used' = used \cup {i} /\ used' \in SUBSET Images
         /\ file'[i] = p /\ \A j \in Images \ {i} : file'[j] = file[j]
         /\ img'[t] = i
         /\ \A u \in Threads \ {t} : img'[u] = img[u] /\ img[u] # i
         /\ \A j \in Images \ used' : p # j /\ \A k \in used' : file'[k] # j
         /\ \A j \in used : Shared(j) \/ file[j] = p => Shared(j)'
<1>1. p \in Places
  BY DEF Paths, Places, TypeOK
<1>2. /\ used' = used \cup {i} /\ used' \in SUBSET Images
      /\ img' = [img EXCEPT ![t] = i] /\ file' = [file EXCEPT ![i] = p]
  BY DEF NewName, TypeOK
<1>3. /\ file' \in [Images -> Places]
      /\ file'[i] = p /\ \A j \in Images \ {i} : file'[j] = file[j]
  BY <1>1, <1>2 DEF TypeOK
<1>4. /\ img' \in [Threads -> Images \cup {NoImage}] /\ img'[t] = i
      /\ \A u \in Threads \ {t} : img'[u] = img[u] /\ img[u] # i
  BY <1>2 DEF TypeOK, Fresh
<1>5. ASSUME NEW j \in Images \ used'
      PROVE  p # j /\ \A k \in used' : file'[k] # j
  <2>1. j \in Images \ used /\ j # i /\ \A k \in used : file[k] # j
    BY <1>2, <1>5 DEF Fresh
  <2>2. j \notin Outside
    BY <1>5 DEF StoreAssumption
  <2>3. p # j
    BY <2>1, <2>2 DEF Paths
  <2> QED
    BY <1>2, <1>3, <2>1, <2>3 DEF TypeOK
<1>6. ASSUME NEW j \in used, Shared(j) \/ file[j] = p PROVE Shared(j)'
  <2>1. j # i /\ j \in Images /\ file'[j] = file[j]
    BY <1>3 DEF TypeOK
  <2>2. CASE file[j] = p
    <3>1. i \in used' \ {j} /\ file'[i] = file'[j]
      BY <1>2, <1>3, <2>1, <2>2
    <3> QED
      BY <3>1 DEF Shared
  <2>3. CASE Shared(j)
    <3>1. PICK k \in used \ {j} : file[k] = file[j]
      BY <2>3 DEF Shared
    <3>2. k \in used' \ {j} /\ file'[k] = file'[j]
      BY <1>2, <1>3, <2>1, <3>1 DEF TypeOK
    <3> QED
      BY <3>2 DEF Shared
  <2> QED
    BY <1>6, <2>2, <2>3
<1> QED
  BY <1>1, <1>2, <1>3, <1>4, <1>5, <1>6

(* A step that leaves files and map alone makes no orphan, if every thread *)
(* at work on a file stays at work on it.                                  *)
LEMMA OrphanStays ==
  ASSUME OrphanHasCause, Alive, UNCHANGED <<disk, file, memes_, leftover>>,
         corrupt => corrupt',
         \A u \in Threads : \A p : AtWork(u, p) => AtWork(u, p)'
  PROVE  OrphanHasCause'
<1> SUFFICES ASSUME NEW p \in (OnDisk \ {file[i] : i \in InMap})'
             PROVE  (\/ p \in leftover
                     \/ \E t \in Threads : AtWork(t, p)
                     \/ corrupt)'
  BY DEF OrphanHasCause
<1>1. p \in OnDisk \ {file[i] : i \in InMap}
  BY DEF OnDisk, InMap
<1>2. \/ p \in leftover
      \/ \E t \in Threads : AtWork(t, p)
      \/ corrupt
  BY <1>1 DEF OrphanHasCause
<1> QED
  BY <1>2

(* Before the first start there is no file, and no thread does anything. *)
LEMMA InitIInv == Init => IInv
<1> SUFFICES ASSUME Init PROVE IInv
  OBVIOUS
<1> USE StoreAssumption
<1>1. TypeOK
  BY DEF Init, TypeOK, Entry, Style, Places
<1>2. Fresh /\ OneUploader /\ UploadSoFar
  BY DEF Init, Fresh, OneUploader, UploadSoFar, Uploading, Places
<1>3. MapIsWhole /\ PromisedWasAccepted
  BY DEF Init, MapIsWhole, PromisedWasAccepted
<1>4. ShownIsOnDisk /\ OrphanHasCause /\ AcceptedIsShown
  BY DEF Init, ShownIsOnDisk, OrphanHasCause, AcceptedIsShown,
         Alive
<1> QED
  BY <1>1, <1>2, <1>3, <1>4 DEF IInv

(* Every step of a thread, of main and of a restart preserves IInv. *)
LEMMA NextIInv == IInv /\ [Next]_vars => IInv'
<1> SUFFICES ASSUME IInv, [Next]_vars PROVE IInv'
  OBVIOUS
<1> USE StoreAssumption DEF files, race, history
<1>i. /\ TypeOK /\ Fresh /\ OneUploader /\ UploadSoFar /\ MapIsWhole
      /\ PromisedWasAccepted /\ ShownIsOnDisk /\ OrphanHasCause
      /\ AcceptedIsShown
  BY DEF IInv
<1>1. CASE Start
  <2>1. TypeOK'
    BY <1>1, <1>i, NewProcessType DEF Start, CanStart, TypeOK, OnDisk
  <2>2. Fresh' /\ OneUploader'
    BY <1>1, <1>i
    DEF Start, CanStart, NewProcess, Fresh, OneUploader, TypeOK, Alive
  <2>3. UploadSoFar'
    BY <1>1, <1>i
    DEF Start, CanStart, NewProcess, UploadSoFar, Shared, Uploading, TypeOK,
        Alive
  <2>4. MapIsWhole' /\ PromisedWasAccepted'
    BY <1>1, <1>i
    DEF Start, CanStart, NewProcess, MapIsWhole, PromisedWasAccepted, TypeOK,
        Alive
  <2>5. ShownIsOnDisk'
    BY <1>1, <1>i
    DEF Start, CanStart, NewProcess, ShownIsOnDisk, Shared, Alive, TypeOK
  <2>6. OrphanHasCause'
    BY <1>1, <1>i
    DEF Start, CanStart, NewProcess, OrphanHasCause, AtWork, Alive, OnDisk,
        InMap, TypeOK
  <2>7. AcceptedIsShown'
    BY <1>1, <1>i
    DEF Start, CanStart, NewProcess, AcceptedIsShown, Alive, OnDisk, TypeOK
  <2> QED
    BY <2>1, <2>2, <2>3, <2>4, <2>5, <2>6, <2>7 DEF IInv
<1>2. CASE StartThrows
  <2>1. TypeOK'
    BY <1>2, <1>i, NewProcessType DEF StartThrows, CanStart, TypeOK, OnDisk
  <2>2. Fresh' /\ OneUploader'
    BY <1>2, <1>i
    DEF StartThrows, CanStart, NewProcess, Fresh, OneUploader, TypeOK, Alive
  <2>3. UploadSoFar'
    BY <1>2, <1>i
    DEF StartThrows, CanStart, NewProcess, UploadSoFar, Shared, Uploading,
        TypeOK, Alive
  <2>4. MapIsWhole' /\ PromisedWasAccepted'
    BY <1>2, <1>i
    DEF StartThrows, CanStart, NewProcess, MapIsWhole, PromisedWasAccepted,
        TypeOK, Alive
  <2>5. ShownIsOnDisk'
    BY <1>2, <1>i
    DEF StartThrows, CanStart, NewProcess, ShownIsOnDisk, Shared, Alive,
        TypeOK
  <2>6. OrphanHasCause'
    BY <1>2, <1>i
    DEF StartThrows, CanStart, NewProcess, OrphanHasCause, AtWork, Alive,
        OnDisk, InMap, TypeOK
  <2>7. AcceptedIsShown'
    BY <1>2, <1>i
    DEF StartThrows, CanStart, NewProcess, AcceptedIsShown, Alive, OnDisk,
        TypeOK
  <2> QED
    BY <2>1, <2>2, <2>3, <2>4, <2>5, <2>6, <2>7 DEF IInv
<1>3. CASE StartWithoutPort
  <2>c. /\ disk' \in [Places -> {"absent", "partial", "complete"}]
        /\ \A j \in Images : disk'[j] = "absent"
    BY <1>3, <1>i
    DEF StartWithoutPort, Cleared, TypeOK, Places, StoreAssumption
  <2>1. TypeOK'
    BY <1>3, <1>i, <2>c, NewProcessType DEF StartWithoutPort, CanStart, TypeOK
  <2>2. Fresh' /\ OneUploader'
    BY <1>3, <1>i, <2>c
    DEF StartWithoutPort, CanStart, NewProcess, Fresh, OneUploader, TypeOK
  <2>3. UploadSoFar'
    BY <1>3, <1>i
    DEF StartWithoutPort, CanStart, NewProcess, UploadSoFar, Shared,
        Uploading, TypeOK, Alive
  <2>4. MapIsWhole' /\ PromisedWasAccepted'
    BY <1>3, <1>i
    DEF StartWithoutPort, CanStart, NewProcess, MapIsWhole,
        PromisedWasAccepted, TypeOK, Alive
  <2>5. ShownIsOnDisk'
    BY <1>3, <1>i
    DEF StartWithoutPort, CanStart, NewProcess, ShownIsOnDisk, Shared, Alive,
        TypeOK
  <2>6. OrphanHasCause'
    BY <1>3, <1>i
    DEF StartWithoutPort, CanStart, NewProcess, OrphanHasCause, AtWork, Alive,
        OnDisk, InMap, TypeOK
  <2>7. AcceptedIsShown'
    BY <1>3, <1>i
    DEF StartWithoutPort, CanStart, NewProcess, AcceptedIsShown, Alive,
        OnDisk, TypeOK
  <2> QED
    BY <2>1, <2>2, <2>3, <2>4, <2>5, <2>6, <2>7 DEF IInv
<1>4. CASE Stop
  BY <1>4, <1>i
  DEF Stop, IInv, TypeOK, Entry, Style, Fresh, OneUploader, UploadSoFar,
      Uploading, MapIsWhole, PromisedWasAccepted, ShownIsOnDisk, Shared,
      Alive, OrphanHasCause, AtWork, OnDisk, InMap, AcceptedIsShown
<1>5. CASE Destroy
  <2>c. /\ disk' \in [Places -> {"absent", "partial", "complete"}]
        /\ \A j \in Images : disk'[j] = "absent"
    BY <1>5, <1>i DEF Destroy, Cleared, TypeOK, Places, StoreAssumption
  <2>1. TypeOK'
    BY <1>5, <1>i, <2>c DEF Destroy, TypeOK
  <2>2. Fresh' /\ OneUploader'
    BY <1>5, <1>i, <2>c DEF Destroy, Fresh, OneUploader
  <2>3. UploadSoFar'
    BY <1>5, <1>i
    DEF Destroy, UploadSoFar, Shared, Uploading, Fresh, OneUploader, Style,
        TypeOK, Alive
  <2>4. MapIsWhole' /\ PromisedWasAccepted'
    BY <1>5, <1>i
    DEF Destroy, MapIsWhole, PromisedWasAccepted, UploadSoFar, Shared,
        Uploading, Fresh, TypeOK, Alive
  <2>5. ShownIsOnDisk'
    BY <1>5, <1>i
    DEF Destroy, ShownIsOnDisk, Shared, Alive, UploadSoFar, Uploading, Fresh,
        TypeOK
  <2>6. OrphanHasCause'
    BY <1>5, <1>i
    DEF Destroy, OrphanHasCause, AtWork, Alive, OnDisk, InMap, UploadSoFar,
        Uploading, TypeOK
  <2>7. AcceptedIsShown'
    BY <1>5, <1>i
    DEF Destroy, AcceptedIsShown, Alive, OnDisk, MapIsWhole,
        PromisedWasAccepted, TypeOK
  <2> QED
    BY <2>1, <2>2, <2>3, <2>4, <2>5, <2>6, <2>7 DEF IInv
<1>6. CASE Terminate
  BY <1>6, <1>i
  DEF Terminate, IInv, TypeOK, Entry, Style, Fresh, OneUploader, UploadSoFar,
      Uploading, MapIsWhole, PromisedWasAccepted, ShownIsOnDisk, Shared,
      Alive, OrphanHasCause, AtWork, OnDisk, InMap, AcceptedIsShown
<1>7. ASSUME NEW t \in Threads, NEW s \in Style, generate_meme(t, s)
      PROVE IInv'
  <2>1. TypeOK'
    BY <1>7, <1>i
    DEF generate_meme, Free, Goto, TypeOK, Entry, Style, Alive
  <2>2. Fresh' /\ OneUploader'
    BY <1>7, <1>i
    DEF generate_meme, Free, Goto, Fresh, OneUploader, UploadSoFar, Uploading,
        TypeOK, Alive
  <2>3. UploadSoFar'
    BY <1>7, <1>i
    DEF generate_meme, Free, Goto, UploadSoFar, Shared, Uploading, Fresh,
        OneUploader, Style, TypeOK, Alive
  <2>4. MapIsWhole' /\ PromisedWasAccepted'
    BY <1>7, <1>i
    DEF generate_meme, Free, Goto, MapIsWhole, PromisedWasAccepted,
        UploadSoFar, Shared, Uploading, Fresh, TypeOK, Alive
  <2>5. ShownIsOnDisk'
    BY <1>7, <1>i
    DEF generate_meme, Free, Goto, ShownIsOnDisk, Shared, Alive, UploadSoFar,
        Uploading, Fresh, TypeOK
  <2>6. OrphanHasCause'
    BY <1>7, <1>i
    DEF generate_meme, Free, Goto, OrphanHasCause, AtWork, Alive, OnDisk,
        InMap, UploadSoFar, Shared, Uploading, TypeOK
  <2>7. AcceptedIsShown'
    BY <1>7, <1>i
    DEF generate_meme, Free, Goto, AcceptedIsShown, Alive, OnDisk, MapIsWhole,
        PromisedWasAccepted, TypeOK
  <2> QED
    BY <2>1, <2>2, <2>3, <2>4, <2>5, <2>6, <2>7 DEF IInv
<1>8. ASSUME NEW t \in Threads, MakeFile(t) PROVE IInv'
  <2>i. PICK i \in Images \ used : \E p \in Paths(i) :
          NewName(t, i, p) /\ disk' = [disk EXCEPT ![p] = "partial"]
    BY <1>8 DEF MakeFile
  <2>a. PICK p \in Paths(i) :
          NewName(t, i, p) /\ disk' = [disk EXCEPT ![p] = "partial"]
    BY <2>i
  <2>b. img[t] = NoImage
    BY <1>8, <1>i DEF MakeFile, UploadSoFar
  <2>n. /\ p \in Places
        /\ file' \in [Images -> Places]
        /\ img' \in [Threads -> Images \cup {NoImage}]
        /\ used' = used \cup {i} /\ used' \in SUBSET Images
        /\ file'[i] = p /\ \A j \in Images \ {i} : file'[j] = file[j]
        /\ img'[t] = i
        /\ \A u \in Threads \ {t} : img'[u] = img[u] /\ img[u] # i
        /\ \A j \in Images \ used' : p # j /\ \A k \in used' : file'[k] # j
        /\ \A j \in used : Shared(j) \/ file[j] = p => Shared(j)'
    BY <1>i, <2>a, <2>b, NewNameFacts
  <2>d. /\ disk' \in [Places -> {"absent", "partial", "complete"}]
        /\ disk'[p] = "partial"
        /\ \A q \in Places \ {p} : disk'[q] = disk[q]
    BY <1>i, <2>a, <2>n DEF TypeOK
  <2>f. /\ Alive /\ pc[t] = "making" /\ Goto(t, "writing")
        /\ UNCHANGED <<phase, memes_, style, page, corrupt, tainted, starts,
                       failed, accepted, promised, leftover>>
    BY <1>8 DEF MakeFile
  <2>g. /\ pc' \in [Threads -> {"idle", "making", "writing", "written",
                                 "storing", "stored", "copying", "rendering",
                                 "stuck"}]
        /\ pc'[t] = "writing" /\ \A u \in Threads \ {t} : pc'[u] = pc[u]
    BY <1>i, <2>f DEF Goto, TypeOK
  <2>1. TypeOK'
    BY <1>i, <2>d, <2>f, <2>g, <2>n DEF TypeOK
  <2>2. Fresh' /\ OneUploader'
    <3>1. Fresh'
      BY <1>i, <2>d, <2>f, <2>n DEF Fresh, Places
    <3> QED
      BY <1>i, <2>n, <3>1 DEF OneUploader
  <2>s. ASSUME NEW j \in used, disk[file[j]] = "complete" \/ Shared(j)
        PROVE  (disk[file[j]] = "complete" \/ Shared(j))'
    <3>1. j # i /\ j \in Images /\ file'[j] = file[j] /\ file[j] \in Places
      BY <1>i, <2>n DEF TypeOK
    <3> QED
      BY <2>s, <2>d, <2>n, <3>1
  <2>3. UploadSoFar'
    <3>1. ASSUME NEW u \in Threads \ {t}, img[u] \in Images
          PROVE  img[u] \in used
      BY <1>i, <3>1 DEF Fresh
    <3>2. ASSUME NEW u \in Threads \ {t},
                 pc[u] \in {"written", "storing", "stored"}
          PROVE  (disk[file[img[u]]] = "complete" \/ img[u] \in failed
                    \/ Shared(img[u]))'
      <4>1. img[u] \in used /\ img'[u] = img[u]
        BY <1>i, <2>n, <3>1, <3>2 DEF UploadSoFar, Uploading
      <4>2. disk[file[img[u]]] = "complete" \/ img[u] \in failed
              \/ Shared(img[u])
        BY <1>i, <3>2 DEF UploadSoFar
      <4>3. CASE img[u] \in failed
        BY <2>f, <4>1, <4>3
      <4>4. CASE disk[file[img[u]]] = "complete" \/ Shared(img[u])
        <5>1. PICK j \in used : j = img[u]
          BY <4>1
        <5>2. (disk[file[j]] = "complete" \/ Shared(j))'
          BY <2>s, <4>4, <5>1
        <5>3. img'[u] = j
          BY <4>1, <5>1
        <5>4. CASE disk'[file'[j]] = "complete"
          BY <5>3, <5>4
        <5>5. CASE Shared(j)'
          BY <5>3, <5>5 DEF Shared
        <5> QED
          BY <5>2, <5>4, <5>5
      <4> QED
        BY <4>2, <4>3, <4>4
    <3>3. memes_[i] = "absent" /\ \A u \in Threads : page[u][i] = "absent"
      BY <1>i DEF Fresh
    <3> QED
      BY <1>i, <2>f, <2>g, <2>n, <3>2, <3>3 DEF UploadSoFar, Uploading
  <2>4. MapIsWhole' /\ PromisedWasAccepted'
    BY <1>8, <1>i
    DEF MakeFile, Goto, MapIsWhole, PromisedWasAccepted, UploadSoFar,
        Uploading, Fresh, TypeOK, Alive
  <2>5. ShownIsOnDisk'
    <3> SUFFICES ASSUME NEW j \in Images \ failed,
                        \/ memes_[j] # "absent"
                        \/ \E u \in Threads : page[u][j] # "absent"
                 PROVE  (disk[file[j]] = "complete" \/ Shared(j))'
      BY <2>f DEF ShownIsOnDisk
    <3>1. j \in used
      BY <1>i DEF Fresh
    <3>2. disk[file[j]] = "complete" \/ Shared(j)
      BY <1>i, <2>f DEF ShownIsOnDisk
    <3> QED
      BY <2>s, <3>1, <3>2
  <2>6. OrphanHasCause'
    <3> SUFFICES ASSUME NEW q \in Places, disk'[q] # "absent",
                        \A j \in Images : memes_[j] # "absent" => file'[j] # q
                 PROVE  (\/ q \in leftover
                         \/ \E u \in Threads : AtWork(u, q)
                         \/ corrupt)'
      BY <2>f DEF OrphanHasCause, OnDisk, InMap
    <3>1. CASE q = p
      BY <2>g, <2>n, <3>1 DEF AtWork
    <3>2. CASE q # p
      <4>1. \A j \in Images : memes_[j] # "absent" => j # i
        BY <1>i DEF Fresh
      <4>2. q \in OnDisk \ {file[j] : j \in InMap}
        BY <2>d, <2>n, <3>2, <4>1 DEF OnDisk, InMap
      <4>3. \/ q \in leftover
            \/ \E u \in Threads : AtWork(u, q)
            \/ corrupt
        BY <1>i, <2>f, <4>2 DEF OrphanHasCause
      <4>4. ASSUME NEW u \in Threads, AtWork(u, q) PROVE AtWork(u, q)'
        <5>1. u # t /\ img[u] \in Images \ {i}
          BY <2>b, <2>f, <2>n, <4>4 DEF AtWork
        <5> QED
          BY <2>g, <2>n, <4>4, <5>1 DEF AtWork
      <4> QED
        BY <2>f, <4>3, <4>4
    <3> QED
      BY <3>1, <3>2
  <2>7. AcceptedIsShown'
    BY <1>8, <1>i
    DEF MakeFile, Goto, AcceptedIsShown, Alive, OnDisk, MapIsWhole,
        PromisedWasAccepted, TypeOK
  <2> QED
    BY <2>1, <2>2, <2>3, <2>4, <2>5, <2>6, <2>7 DEF IInv
<1>9. ASSUME NEW t \in Threads, MakeThrows(t) PROVE IInv'
  <2>1. TypeOK'
    BY <1>9, <1>i
    DEF MakeThrows, Answered, Goto, TypeOK, Entry, Style, Alive
  <2>2. Fresh' /\ OneUploader'
    BY <1>9, <1>i
    DEF MakeThrows, Answered, Goto, Fresh, OneUploader, UploadSoFar,
        Uploading, TypeOK, Alive
  <2>3. UploadSoFar'
    BY <1>9, <1>i
    DEF MakeThrows, Answered, Goto, UploadSoFar, Shared, Uploading, Fresh,
        OneUploader, Style, TypeOK, Alive
  <2>4. MapIsWhole' /\ PromisedWasAccepted'
    BY <1>9, <1>i
    DEF MakeThrows, Answered, Goto, MapIsWhole, PromisedWasAccepted,
        UploadSoFar, Shared, Uploading, Fresh, TypeOK, Alive
  <2>5. ShownIsOnDisk'
    BY <1>9, <1>i
    DEF MakeThrows, Answered, Goto, ShownIsOnDisk, Shared, Alive, UploadSoFar,
        Uploading, Fresh, TypeOK
  <2>6. OrphanHasCause'
    <3>1. \A u \in Threads : \A p : AtWork(u, p) => AtWork(u, p)'
      BY <1>9, <1>i DEF MakeThrows, Answered, Goto, AtWork, TypeOK
    <3> QED
      BY <1>9, <1>i, <3>1, OrphanStays DEF MakeThrows
  <2>7. AcceptedIsShown'
    BY <1>9, <1>i
    DEF MakeThrows, Answered, Goto, AcceptedIsShown, Alive, OnDisk,
        MapIsWhole, PromisedWasAccepted, TypeOK
  <2> QED
    BY <2>1, <2>2, <2>3, <2>4, <2>5, <2>6, <2>7 DEF IInv
<1>10. ASSUME NEW t \in Threads, OpenFails(t) PROVE IInv'
  <2>i. PICK i \in Images \ used : \E p \in Paths(i) :
          NewName(t, i, p) /\ failed' = failed \cup {i} /\ disk' = disk
    BY <1>10 DEF OpenFails
  <2>a. PICK p \in Paths(i) :
          NewName(t, i, p) /\ failed' = failed \cup {i} /\ disk' = disk
    BY <2>i
  <2>b. img[t] = NoImage
    BY <1>10, <1>i DEF OpenFails, UploadSoFar
  <2>n. /\ p \in Places
        /\ file' \in [Images -> Places]
        /\ img' \in [Threads -> Images \cup {NoImage}]
        /\ used' = used \cup {i} /\ used' \in SUBSET Images
        /\ file'[i] = p /\ \A j \in Images \ {i} : file'[j] = file[j]
        /\ img'[t] = i
        /\ \A u \in Threads \ {t} : img'[u] = img[u] /\ img[u] # i
        /\ \A j \in Images \ used' : p # j /\ \A k \in used' : file'[k] # j
        /\ \A j \in used : Shared(j) \/ file[j] = p => Shared(j)'
    BY <1>i, <2>a, <2>b, NewNameFacts
  <2>f. /\ Alive /\ pc[t] = "making" /\ Goto(t, "written")
        /\ UNCHANGED <<phase, memes_, style, page, corrupt, tainted, starts,
                       accepted, promised, leftover>>
        /\ failed' = failed \cup {i} /\ disk' = disk
    BY <1>10, <2>a DEF OpenFails
  <2>g. /\ pc' \in [Threads -> {"idle", "making", "writing", "written",
                                 "storing", "stored", "copying", "rendering",
                                 "stuck"}]
        /\ pc'[t] = "written" /\ \A u \in Threads \ {t} : pc'[u] = pc[u]
    BY <1>i, <2>f DEF Goto, TypeOK
  <2>1. TypeOK'
    BY <1>i, <2>f, <2>g, <2>n DEF TypeOK
  <2>2. Fresh' /\ OneUploader'
    <3>1. Fresh'
      BY <1>i, <2>f, <2>n DEF Fresh, Places
    <3> QED
      BY <1>i, <2>n, <3>1 DEF OneUploader
  <2>s. ASSUME NEW j \in used, disk[file[j]] = "complete" \/ Shared(j)
        PROVE  (disk[file[j]] = "complete" \/ Shared(j))'
    <3>1. j # i /\ j \in Images /\ file'[j] = file[j] /\ file[j] \in Places
      BY <1>i, <2>n DEF TypeOK
    <3> QED
      BY <2>s, <2>f, <2>n, <3>1
  <2>3. UploadSoFar'
    <3>1. ASSUME NEW u \in Threads \ {t}, img[u] \in Images
          PROVE  img[u] \in used
      BY <1>i, <3>1 DEF Fresh
    <3>2. ASSUME NEW u \in Threads \ {t},
                 pc[u] \in {"written", "storing", "stored"}
          PROVE  (disk[file[img[u]]] = "complete" \/ img[u] \in failed
                    \/ Shared(img[u]))'
      <4>1. img[u] \in used /\ img'[u] = img[u]
        BY <1>i, <2>n, <3>1, <3>2 DEF UploadSoFar, Uploading
      <4>2. disk[file[img[u]]] = "complete" \/ img[u] \in failed
              \/ Shared(img[u])
        BY <1>i, <3>2 DEF UploadSoFar
      <4>3. CASE img[u] \in failed
        BY <2>f, <4>1, <4>3
      <4>4. CASE disk[file[img[u]]] = "complete" \/ Shared(img[u])
        <5>1. PICK j \in used : j = img[u]
          BY <4>1
        <5>2. (disk[file[j]] = "complete" \/ Shared(j))'
          BY <2>s, <4>4, <5>1
        <5>3. img'[u] = j
          BY <4>1, <5>1
        <5>4. CASE disk'[file'[j]] = "complete"
          BY <5>3, <5>4
        <5>5. CASE Shared(j)'
          BY <5>3, <5>5 DEF Shared
        <5> QED
          BY <5>2, <5>4, <5>5
      <4> QED
        BY <4>2, <4>3, <4>4
    <3>3. memes_[i] = "absent" /\ \A u \in Threads : page[u][i] = "absent"
      BY <1>i DEF Fresh
    <3> QED
      BY <1>i, <2>f, <2>g, <2>n, <3>2, <3>3 DEF UploadSoFar, Uploading
  <2>4. MapIsWhole' /\ PromisedWasAccepted'
    BY <1>10, <1>i
    DEF OpenFails, Goto, MapIsWhole, PromisedWasAccepted, UploadSoFar,
        Uploading, Fresh, TypeOK, Alive
  <2>5. ShownIsOnDisk'
    <3> SUFFICES ASSUME NEW j \in Images \ failed',
                        \/ memes_[j] # "absent"
                        \/ \E u \in Threads : page[u][j] # "absent"
                 PROVE  (disk[file[j]] = "complete" \/ Shared(j))'
      BY <2>f DEF ShownIsOnDisk
    <3>1. j \in used /\ j \notin failed
      BY <1>i, <2>f DEF Fresh
    <3>2. disk[file[j]] = "complete" \/ Shared(j)
      BY <1>i, <2>f, <3>1 DEF ShownIsOnDisk
    <3> QED
      BY <2>s, <3>1, <3>2
  <2>6. OrphanHasCause'
    <3> SUFFICES ASSUME NEW q \in Places, disk'[q] # "absent",
                        \A j \in Images : memes_[j] # "absent" => file'[j] # q
                 PROVE  (\/ q \in leftover
                         \/ \E u \in Threads : AtWork(u, q)
                         \/ corrupt)'
      BY <2>f DEF OrphanHasCause, OnDisk, InMap
    <3>1. \A j \in Images : memes_[j] # "absent" => j # i
      BY <1>i DEF Fresh
    <3>2. q \in OnDisk \ {file[j] : j \in InMap}
      BY <2>f, <2>n, <3>1 DEF OnDisk, InMap
    <3>3. \/ q \in leftover
          \/ \E u \in Threads : AtWork(u, q)
          \/ corrupt
      BY <1>i, <2>f, <3>2 DEF OrphanHasCause
    <3>4. ASSUME NEW u \in Threads, AtWork(u, q) PROVE AtWork(u, q)'
      <4>1. u # t /\ img[u] \in Images \ {i}
        BY <2>b, <2>f, <2>n, <3>4 DEF AtWork
      <4> QED
        BY <2>g, <2>n, <3>4, <4>1 DEF AtWork
    <3> QED
      BY <2>f, <3>3, <3>4
  <2>7. AcceptedIsShown'
    BY <1>10, <1>i
    DEF OpenFails, Goto, AcceptedIsShown, Alive, OnDisk, MapIsWhole,
        PromisedWasAccepted, TypeOK
  <2> QED
    BY <2>1, <2>2, <2>3, <2>4, <2>5, <2>6, <2>7 DEF IInv
<1>11. ASSUME NEW t \in Threads, WriteFile(t) PROVE IInv'
  <2>1. TypeOK'
    BY <1>11, <1>i
    DEF WriteFile, Goto, TypeOK, Entry, Style, Alive
  <2>2. Fresh' /\ OneUploader'
    BY <1>11, <1>i
    DEF WriteFile, Goto, Fresh, OneUploader, UploadSoFar, Shared, Uploading,
        TypeOK, Alive
  <2>3. UploadSoFar'
    BY <1>11, <1>i
    DEF WriteFile, Goto, UploadSoFar, Shared, Uploading, Fresh, OneUploader,
        Style, TypeOK, Alive
  <2>4. MapIsWhole' /\ PromisedWasAccepted'
    BY <1>11, <1>i
    DEF WriteFile, Goto, MapIsWhole, PromisedWasAccepted, UploadSoFar,
        Uploading, Fresh, TypeOK, Alive
  <2>5. ShownIsOnDisk'
    BY <1>11, <1>i
    DEF WriteFile, Goto, ShownIsOnDisk, Shared, Alive, UploadSoFar, Uploading,
        Fresh, TypeOK
  <2>6. OrphanHasCause'
    BY <1>11, <1>i
    DEF WriteFile, Goto, OrphanHasCause, AtWork, Alive, OnDisk, InMap,
        UploadSoFar, Shared, Uploading, TypeOK
  <2>7. AcceptedIsShown'
    BY <1>11, <1>i
    DEF WriteFile, Goto, AcceptedIsShown, Alive, OnDisk, MapIsWhole,
        PromisedWasAccepted, TypeOK
  <2> QED
    BY <2>1, <2>2, <2>3, <2>4, <2>5, <2>6, <2>7 DEF IInv
<1>12. ASSUME NEW t \in Threads, WriteFails(t) PROVE IInv'
  <2>1. TypeOK'
    <3>1. img[t] \in Images
      BY <1>12, <1>i DEF WriteFails, UploadSoFar, Shared, Uploading
    <3> QED
      BY <1>12, <1>i, <3>1 DEF WriteFails, Goto, TypeOK
  <2>2. Fresh' /\ OneUploader'
    BY <1>12, <1>i
    DEF WriteFails, Goto, Fresh, OneUploader, UploadSoFar, Shared, Uploading,
        TypeOK, Alive
  <2>3. UploadSoFar'
    BY <1>12, <1>i
    DEF WriteFails, Goto, UploadSoFar, Shared, Uploading, Fresh, OneUploader,
        Style, TypeOK, Alive
  <2>4. MapIsWhole' /\ PromisedWasAccepted'
    BY <1>12, <1>i
    DEF WriteFails, Goto, MapIsWhole, PromisedWasAccepted, UploadSoFar,
        Uploading, Fresh, TypeOK, Alive
  <2>5. ShownIsOnDisk'
    BY <1>12, <1>i
    DEF WriteFails, Goto, ShownIsOnDisk, Shared, Alive, UploadSoFar,
        Uploading, Fresh, TypeOK
  <2>6. OrphanHasCause'
    BY <1>12, <1>i
    DEF WriteFails, Goto, OrphanHasCause, AtWork, Alive, OnDisk, InMap,
        UploadSoFar, Shared, Uploading, TypeOK
  <2>7. AcceptedIsShown'
    BY <1>12, <1>i
    DEF WriteFails, Goto, AcceptedIsShown, Alive, OnDisk, MapIsWhole,
        PromisedWasAccepted, TypeOK
  <2> QED
    BY <2>1, <2>2, <2>3, <2>4, <2>5, <2>6, <2>7 DEF IInv
<1>13. ASSUME NEW t \in Threads, log_meme(t) PROVE IInv'
  <2>1. TypeOK'
    BY <1>13, <1>i
    DEF log_meme, FileDone, Goto, TypeOK, Entry, Style, Alive
  <2>2. Fresh' /\ OneUploader'
    BY <1>13, <1>i
    DEF log_meme, FileDone, Goto, Fresh, OneUploader, UploadSoFar, Shared,
        Uploading, TypeOK, Alive
  <2>3. UploadSoFar'
    BY <1>13, <1>i
    DEF log_meme, FileDone, Goto, UploadSoFar, Shared, Uploading, Fresh,
        OneUploader, Style, TypeOK, Alive
  <2>4. MapIsWhole' /\ PromisedWasAccepted'
    BY <1>13, <1>i
    DEF log_meme, FileDone, Goto, MapIsWhole, PromisedWasAccepted,
        UploadSoFar, Shared, Uploading, Fresh, TypeOK, Alive
  <2>5. ShownIsOnDisk'
    BY <1>13, <1>i
    DEF log_meme, FileDone, Goto, ShownIsOnDisk, Shared, Alive, UploadSoFar,
        Uploading, Fresh, TypeOK
  <2>6. OrphanHasCause'
    BY <1>13, <1>i
    DEF log_meme, FileDone, Goto, OrphanHasCause, AtWork, Alive, OnDisk,
        InMap, UploadSoFar, Shared, Uploading, TypeOK
  <2>7. AcceptedIsShown'
    BY <1>13, <1>i
    DEF log_meme, FileDone, Goto, AcceptedIsShown, Alive, OnDisk, MapIsWhole,
        PromisedWasAccepted, TypeOK
  <2> QED
    BY <2>1, <2>2, <2>3, <2>4, <2>5, <2>6, <2>7 DEF IInv
<1>14. ASSUME NEW t \in Threads, Store(t) PROVE IInv'
  <2>a. /\ img[t] \in Images /\ style[t] \in Style /\ memes_[img[t]] = "absent"
        /\ \A u \in Threads : page[u][img[t]] = "absent"
        /\ disk[file[img[t]]] = "complete" \/ img[t] \in failed
             \/ Shared(img[t])
    BY <1>14, <1>i DEF Store, UploadSoFar, Uploading
  <2> DEFINE stored == [memes_ EXCEPT ![img[t]] = style[t]]
  <2>b. /\ stored \in [Images -> Entry]
        /\ stored[img[t]] = style[t]
        /\ \A i \in Images \ {img[t]} : stored[i] = memes_[i]
    BY <1>i, <2>a DEF TypeOK, Entry
  <2>c. IF corrupt THEN memes_' \in Remains(stored) ELSE memes_' = stored
    BY <1>14, <2>a DEF Store, InMap
  <2>d. /\ memes_' \in [Images -> Entry]
        /\ \A i \in Images : memes_'[i] \in {"absent", stored[i]}
        /\ ~corrupt => memes_' = stored
    BY <2>b, <2>c, RemainsArePart
  <2> HIDE DEF stored
  <2>f. /\ Alive /\ pc[t] = "storing" /\ Goto(t, "stored")
        /\ UNCHANGED <<phase, files, img, style, page, race, starts, history>>
    BY <1>14 DEF Store
  <2>1. TypeOK'
    BY <1>i, <2>a, <2>b, <2>d, <2>f DEF Goto, TypeOK
  <2>2. Fresh' /\ OneUploader'
    BY <1>i, <2>a, <2>b, <2>d, <2>f DEF Goto, TypeOK, Fresh, OneUploader
  <2>3. UploadSoFar'
    BY <1>i, <2>a, <2>b, <2>d, <2>f
    DEF Goto, TypeOK, UploadSoFar, Shared, Uploading, OneUploader
  <2>4. MapIsWhole' /\ PromisedWasAccepted'
    BY <1>i, <2>a, <2>b, <2>d, <2>f
    DEF Goto, TypeOK, MapIsWhole, PromisedWasAccepted
  <2>5. ShownIsOnDisk'
    BY <1>i, <2>a, <2>b, <2>d, <2>f DEF TypeOK, ShownIsOnDisk, Shared, Alive
  <2>6. OrphanHasCause'
    BY <1>i, <2>a, <2>b, <2>d, <2>f
    DEF Goto, TypeOK, OrphanHasCause, AtWork, OnDisk, InMap, Alive, Style
  <2>7. AcceptedIsShown'
    BY <1>i, <2>a, <2>b, <2>d, <2>f
    DEF Goto, TypeOK, AcceptedIsShown, OnDisk, Alive
  <2> QED
    BY <2>1, <2>2, <2>3, <2>4, <2>5, <2>6, <2>7 DEF IInv
<1>15. ASSUME NEW t \in Threads, AnswerOk(t) PROVE IInv'
  <2>1. TypeOK'
    <3>1. img[t] \in Images
      BY <1>15, <1>i DEF AnswerOk, UploadSoFar, Shared, Uploading
    <3> QED
      BY <1>15, <1>i, <3>1 DEF AnswerOk, Answered, Goto, TypeOK, Entry
  <2>2. Fresh' /\ OneUploader'
    BY <1>15, <1>i
    DEF AnswerOk, Answered, Goto, Shown, Fresh, OneUploader, UploadSoFar,
        Uploading, TypeOK, Alive
  <2>3. UploadSoFar'
    BY <1>15, <1>i
    DEF AnswerOk, Answered, Goto, Shown, UploadSoFar, Shared, Uploading,
        Fresh, OneUploader, Style, TypeOK, Alive
  <2>4. MapIsWhole' /\ PromisedWasAccepted'
    BY <1>15, <1>i
    DEF AnswerOk, Answered, Goto, Shown, MapIsWhole, PromisedWasAccepted,
        UploadSoFar, Shared, Uploading, Fresh, TypeOK, Alive
  <2>5. ShownIsOnDisk'
    BY <1>15, <1>i
    DEF AnswerOk, Answered, Goto, Shown, ShownIsOnDisk, Shared, Alive,
        UploadSoFar, Uploading, Fresh, TypeOK
  <2>6. OrphanHasCause'
    <3>1. \A u \in Threads : \A p : AtWork(u, p) => AtWork(u, p)'
      BY <1>15, <1>i DEF AnswerOk, Answered, Goto, AtWork, TypeOK
    <3> QED
      BY <1>15, <1>i, <3>1, OrphanStays DEF AnswerOk
  <2>7. AcceptedIsShown'
    <3>1. img[t] \in Images /\ (~corrupt => memes_[img[t]] = "valid")
      BY <1>15, <1>i DEF AnswerOk, Shown, UploadSoFar, Shared, Uploading
    <3>2. ~corrupt => \A u \in Threads : page[u][img[t]] \in {"absent", "valid"}
      BY <1>i, <3>1 DEF MapIsWhole
    <3>3. /\ \A u \in Threads : pc'[u] = "rendering" => pc[u] = "rendering"
          /\ accepted' = accepted \cup {img[t]}
          /\ UNCHANGED <<phase, page, corrupt, tainted, promised, disk>>
          /\ phase # "exited"
      BY <1>15, <1>i DEF AnswerOk, Answered, Goto, TypeOK, Alive
    <3>4. AcceptedIsShown'
      BY <1>i, <3>2, <3>3 DEF AcceptedIsShown, Alive
    <3> QED
      BY <3>4
  <2> QED
    BY <2>1, <2>2, <2>3, <2>4, <2>5, <2>6, <2>7 DEF IInv
<1>16. ASSUME NEW t \in Threads, AnswerBad(t) PROVE IInv'
  <2>1. TypeOK'
    BY <1>16, <1>i
    DEF AnswerBad, Answered, Goto, TypeOK, Entry, Style, Alive
  <2>2. Fresh' /\ OneUploader'
    BY <1>16, <1>i
    DEF AnswerBad, Answered, Goto, Fresh, OneUploader, UploadSoFar, Uploading,
        TypeOK, Alive
  <2>3. UploadSoFar'
    BY <1>16, <1>i
    DEF AnswerBad, Answered, Goto, UploadSoFar, Shared, Uploading, Fresh,
        OneUploader, Style, TypeOK, Alive
  <2>4. MapIsWhole' /\ PromisedWasAccepted'
    BY <1>16, <1>i
    DEF AnswerBad, Answered, Goto, MapIsWhole, PromisedWasAccepted,
        UploadSoFar, Shared, Uploading, Fresh, TypeOK, Alive
  <2>5. ShownIsOnDisk'
    BY <1>16, <1>i
    DEF AnswerBad, Answered, Goto, ShownIsOnDisk, Shared, Alive, UploadSoFar,
        Uploading, Fresh, TypeOK
  <2>6. OrphanHasCause'
    <3>1. \A u \in Threads : \A p : AtWork(u, p) => AtWork(u, p)'
      BY <1>16, <1>i DEF AnswerBad, Answered, Goto, AtWork, TypeOK
    <3> QED
      BY <1>16, <1>i, <3>1, OrphanStays DEF AnswerBad
  <2>7. AcceptedIsShown'
    BY <1>16, <1>i
    DEF AnswerBad, Answered, Goto, AcceptedIsShown, Alive, OnDisk, MapIsWhole,
        PromisedWasAccepted, TypeOK
  <2> QED
    BY <2>1, <2>2, <2>3, <2>4, <2>5, <2>6, <2>7 DEF IInv
<1>17. ASSUME NEW t \in Threads, browse_memes(t) PROVE IInv'
  <2>1. TypeOK'
    BY <1>17, <1>i
    DEF browse_memes, Free, Goto, TypeOK, Entry, Style, Alive
  <2>2. Fresh' /\ OneUploader'
    BY <1>17, <1>i
    DEF browse_memes, Free, Goto, Fresh, OneUploader, UploadSoFar, Shared,
        Uploading, TypeOK, Alive
  <2>3. UploadSoFar'
    BY <1>17, <1>i
    DEF browse_memes, Free, Goto, UploadSoFar, Shared, Uploading, Fresh,
        OneUploader, Style, TypeOK, Alive
  <2>4. MapIsWhole' /\ PromisedWasAccepted'
    BY <1>17, <1>i
    DEF browse_memes, Free, Goto, MapIsWhole, PromisedWasAccepted,
        UploadSoFar, Shared, Uploading, Fresh, TypeOK, Alive
  <2>5. ShownIsOnDisk'
    BY <1>17, <1>i
    DEF browse_memes, Free, Goto, ShownIsOnDisk, Shared, Alive, UploadSoFar,
        Uploading, Fresh, TypeOK
  <2>6. OrphanHasCause'
    BY <1>17, <1>i
    DEF browse_memes, Free, Goto, OrphanHasCause, AtWork, Alive, OnDisk,
        InMap, UploadSoFar, Shared, Uploading, TypeOK
  <2>7. AcceptedIsShown'
    BY <1>17, <1>i
    DEF browse_memes, Free, Goto, AcceptedIsShown, Alive, OnDisk, MapIsWhole,
        PromisedWasAccepted, TypeOK
  <2> QED
    BY <2>1, <2>2, <2>3, <2>4, <2>5, <2>6, <2>7 DEF IInv
<1>18. ASSUME NEW t \in Threads, get_memes(t) PROVE IInv'
  <2>a. PICK m \in [Images -> Entry] :
          /\ page' = [page EXCEPT ![t] = m]
          /\ \A i \in Images : m[i] \in {"absent", memes_[i]}
          /\ ~corrupt /\ t \notin tainted => m = memes_
    <3>1. CASE corrupt \/ t \in tainted
      BY <1>18, <1>i, <3>1, RemainsArePart DEF get_memes, TypeOK
    <3>2. CASE ~(corrupt \/ t \in tainted)
      BY <1>18, <1>i, <3>2 DEF get_memes, TypeOK
    <3> QED
      BY <3>1, <3>2
  <2>f. /\ Alive /\ pc[t] = "copying" /\ Goto(t, "rendering")
        /\ UNCHANGED <<phase, memes_, files, img, style, race, starts, history>>
    BY <1>18 DEF get_memes
  <2>p. /\ page'[t] = m
        /\ \A u \in Threads \ {t} : page'[u] = page[u]
        /\ \A u \in Threads, i \in Images :
             page'[u][i] # "absent" => page'[u][i] \in {page[u][i], memes_[i]}
    BY <1>i, <2>a DEF TypeOK
  <2>1. TypeOK'
    BY <1>i, <2>a, <2>f DEF Goto, TypeOK
  <2>2. Fresh' /\ OneUploader'
    BY <1>i, <2>f, <2>p DEF Goto, TypeOK, Fresh, OneUploader
  <2>3. UploadSoFar'
    BY <1>i, <2>f, <2>p DEF Goto, TypeOK, UploadSoFar, Shared, Uploading
  <2>4. MapIsWhole' /\ PromisedWasAccepted'
    BY <1>i, <2>a, <2>f, <2>p DEF TypeOK, MapIsWhole, PromisedWasAccepted
  <2>5. ShownIsOnDisk'
    BY <1>i, <2>f, <2>p DEF TypeOK, ShownIsOnDisk, Shared, Alive
  <2>6. OrphanHasCause'
    BY <1>18, <1>i
    DEF get_memes, Goto, OrphanHasCause, AtWork, Alive, OnDisk, InMap,
        UploadSoFar, Shared, Uploading, TypeOK
  <2>7. AcceptedIsShown'
    BY <1>i, <2>a, <2>f, <2>p
    DEF Goto, TypeOK, AcceptedIsShown, OnDisk, Alive, MapIsWhole,
        PromisedWasAccepted
  <2> QED
    BY <2>1, <2>2, <2>3, <2>4, <2>5, <2>6, <2>7 DEF IInv
<1>19. ASSUME NEW t \in Threads, Rendered(t) PROVE IInv'
  <2>1. TypeOK'
    BY <1>19, <1>i
    DEF Rendered, Goto, TypeOK, Entry, Style, Alive
  <2>2. Fresh' /\ OneUploader'
    BY <1>19, <1>i
    DEF Rendered, Goto, Fresh, OneUploader, UploadSoFar, Shared, Uploading,
        TypeOK, Alive
  <2>3. UploadSoFar'
    <3>1. /\ pc[t] = "rendering" /\ pc' = [pc EXCEPT ![t] = "idle"]
          /\ UNCHANGED <<memes_, disk, file, img, style, corrupt, used, failed>>
          /\ page' = [page EXCEPT ![t] = [i \in Images |-> "absent"]]
      BY <1>19 DEF Rendered, Goto
    <3>2. img[t] = NoImage
      BY <1>i, <3>1 DEF UploadSoFar
    <3>3. \A u \in Threads, i \in Images :
            page[u][i] = "absent" => page'[u][i] = "absent"
      BY <1>i, <3>1 DEF TypeOK
    <3> QED
      BY <1>i, <3>1, <3>2, <3>3 DEF TypeOK, UploadSoFar, Shared, Uploading
  <2>4. MapIsWhole' /\ PromisedWasAccepted'
    BY <1>19, <1>i
    DEF Rendered, Goto, MapIsWhole, PromisedWasAccepted, UploadSoFar,
        Uploading, Fresh, TypeOK, Alive
  <2>5. ShownIsOnDisk'
    BY <1>19, <1>i
    DEF Rendered, Goto, ShownIsOnDisk, Shared, Alive, UploadSoFar, Uploading,
        Fresh, TypeOK
  <2>6. OrphanHasCause'
    BY <1>19, <1>i
    DEF Rendered, Goto, OrphanHasCause, AtWork, Alive, OnDisk, InMap,
        UploadSoFar, Shared, Uploading, TypeOK
  <2>7. AcceptedIsShown'
    BY <1>19, <1>i
    DEF Rendered, Goto, AcceptedIsShown, Alive, OnDisk, MapIsWhole,
        PromisedWasAccepted, TypeOK
  <2> QED
    BY <2>1, <2>2, <2>3, <2>4, <2>5, <2>6, <2>7 DEF IInv
<1>20. ASSUME NEW t \in Threads, MapHangs(t) PROVE IInv'
  <2>1. TypeOK'
    BY <1>20, <1>i
    DEF MapHangs, Goto, InBrokenMap, TypeOK, Entry, Style, Alive
  <2>2. Fresh' /\ OneUploader'
    BY <1>20, <1>i
    DEF MapHangs, Goto, InBrokenMap, Fresh, OneUploader, UploadSoFar,
        Uploading, TypeOK, Alive
  <2>3. UploadSoFar'
    BY <1>20, <1>i
    DEF MapHangs, Goto, InBrokenMap, UploadSoFar, Shared, Uploading, Fresh,
        OneUploader, Style, TypeOK, Alive
  <2>4. MapIsWhole' /\ PromisedWasAccepted'
    BY <1>20, <1>i
    DEF MapHangs, Goto, InBrokenMap, MapIsWhole, PromisedWasAccepted,
        UploadSoFar, Shared, Uploading, Fresh, TypeOK, Alive
  <2>5. ShownIsOnDisk'
    BY <1>20, <1>i
    DEF MapHangs, Goto, InBrokenMap, ShownIsOnDisk, Shared, Alive,
        UploadSoFar, Uploading, Fresh, TypeOK
  <2>6. OrphanHasCause'
    BY <1>20, <1>i
    DEF MapHangs, Goto, InBrokenMap, OrphanHasCause, AtWork, Alive, OnDisk,
        InMap, UploadSoFar, Shared, Uploading, TypeOK
  <2>7. AcceptedIsShown'
    BY <1>20, <1>i
    DEF MapHangs, Goto, InBrokenMap, AcceptedIsShown, Alive, OnDisk,
        MapIsWhole, PromisedWasAccepted, TypeOK
  <2> QED
    BY <2>1, <2>2, <2>3, <2>4, <2>5, <2>6, <2>7 DEF IInv
<1>21. CASE UNCHANGED vars
  BY <1>21, <1>i
  DEF vars, IInv, TypeOK, Entry, Style, Fresh, OneUploader, UploadSoFar,
      Uploading, MapIsWhole, PromisedWasAccepted, ShownIsOnDisk, Shared,
      Alive, OrphanHasCause, AtWork, OnDisk, InMap, AcceptedIsShown
<1> QED
  BY <1>1, <1>2, <1>3, <1>4, <1>5, <1>6, <1>7, <1>8, <1>9, <1>10, <1>11,
      <1>12, <1>13, <1>14, <1>15, <1>16, <1>17, <1>18, <1>19, <1>20, <1>21
  DEF Next, Crash, StyleThrows, RenderThrows, MapFails

(* IInv holds in every state of every behaviour. *)
THEOREM Invariance == Spec => []IInv
<1> QED
  BY InitIInv, NextIInv, PTL DEF Spec

(* Type correctness: every variable keeps its type, through restarts, hung *)
(* threads and corrupt maps.                                               *)
THEOREM TypeCorrect == Spec => []TypeOK
<1>1. IInv => TypeOK
  BY DEF IInv
<1> QED
  BY <1>1, Invariance, PTL

(* generate_meme writes the file before log_meme makes the entry: whatever *)
(* browse_memes shows has its whole image on disk while the process lives, *)
(* unless ofstream failed or another upload's name leads to the same file. *)
THEOREM ShownHasItsImage == Spec => []ShownIsOnDisk
<1>1. IInv => ShownIsOnDisk
  BY DEF IInv
<1> QED
  BY <1>1, Invariance, PTL

(* A file in ./memes/imgs without an entry in memes_ is one of a process   *)
(* that died, of an upload that is not done, or lost in a race of log_meme *)
(* with log_meme.                                                          *)
THEOREM NoOrphanWithoutCause == Spec => []OrphanHasCause
<1>1. IInv => OrphanHasCause
  BY DEF IInv
<1> QED
  BY <1>1, Invariance, PTL

(* Without a race for memes_, browse_memes shows each meme that was        *)
(* answered with 200 before, and no 200 makes a page fail.                 *)
THEOREM AcceptedMemesAreShown == Spec => []AcceptedIsShown
<1>1. IInv => AcceptedIsShown
  BY DEF IInv
<1> QED
  BY <1>1, Invariance, PTL
=============================================================================
