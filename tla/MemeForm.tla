------------------------------ MODULE MemeForm ------------------------------
(***************************************************************************)
(* The upload form: MemeHandler::generate_meme (meme_handler.cc) from the  *)
(* checks of the request up to an accepted form, with parse(), which is    *)
(* called for each of the four parts, as an automaton over the lines that  *)
(* getline delivers.                                                       *)
(*                                                                         *)
(* A line is its kind: "open" is --boundary and CR, "close" is             *)
(* --boundary-- and CR, "blank" is a CR alone, "image" and "notimage" are  *)
(* Content-Type header lines that do and do not name an image, "crlf" is   *)
(* any other line that ends in CR, and "bare" one that does not.  A text   *)
(* is the sequence of its lines, by their places in the body: equal texts  *)
(* are equal bytes.                                                        *)
(***************************************************************************)
EXTENDS Naturals, Sequences, FiniteSets

CONSTANT Uploads  \* the requests for /meme/generate that clients send

Line == {"open", "close", "blank", "image", "notimage", "crlf", "bare"}

(* An upload: whether it is a POST, its Content-Type, whether the boundary *)
(* is one that the regular expression finds, and the lines of its body.    *)
Upload == [post : BOOLEAN, type : {"none", "other", "multipart"},
           boundary : BOOLEAN, body : Seq(Line)]

ASSUME UploadAssumption == Uploads \subseteq Upload

Parts == 1 .. 4  \* style, image, top caption, bottom caption

VARIABLES
  req,       \* the request
  next,      \* the line that getline delivers next
  part,      \* the part that parse() reads, 0 before the first
  state,     \* parse(): reading_header, reading_body or reached_boundary
  crlf_end,  \* parse(): the last line of this part ended in CR
  header,    \* ss_*_header: the header lines of each part
  text,      \* ss_*_body: the body lines of each part
  status     \* "reading", the error that is answered, or "form"

formvars == <<req, next, part, state, crlf_end, header, text, status>>
-----------------------------------------------------------------------------
is_boundary(line) == line \in {"open", "close"}

EndsInCR(line) == line # "bare"

More == next <= Len(req.body)
line == req.body[next]

FormInit ==
  /\ req \in Uploads
  /\ next = 1
  /\ part = 0
  /\ state = "reached_boundary"
  /\ crlf_end = FALSE
  /\ header = [p \in Parts |-> <<>>]
  /\ text = [p \in Parts |-> <<>>]
  /\ status = "reading"

(* show_error_page *)
Answer(error) ==
  /\ status' = error
  /\ UNCHANGED <<req, next, part, state, crlf_end, header, text>>

(* The request is checked before its body; with no error, it may have a    *)
(* form.                                                                   *)
Invalid ==
  CASE ~req.post \/ req.type = "none" -> "bad_request"
    [] req.post /\ req.type = "other" -> "unsupported_media_type"
    [] req.post /\ req.type = "multipart" /\ ~req.boundary -> "bad_request"
    [] OTHER -> "no_error"

InvalidRequest ==
  /\ status = "reading" /\ part = 0
  /\ Invalid # "no_error"
  /\ Answer(Invalid)

(* The first line is not the boundary. *)
NoBoundary ==
  /\ status = "reading" /\ part = 0
  /\ Invalid = "no_error"
  /\ ~(More /\ line = "open")
  /\ Answer("bad_request")

(* Mutant: crlf_end is carried over from the part before. *)
BeginPart_KeepsCR ==
  /\ state' = "reading_header"
  /\ crlf_end' = TRUE

(* parse() is called for the next part. *)
BeginPart ==
  /\ state' = "reading_header"
  /\ crlf_end' = FALSE

FirstBoundary ==
  /\ status = "reading" /\ part = 0
  /\ Invalid = "no_error"
  /\ More /\ line = "open"
  /\ next' = next + 1
  /\ part' = 1
  /\ BeginPart
  /\ UNCHANGED <<req, header, text, status>>

(* getline delivers a line to parse(). *)
Getline ==
  /\ status = "reading" /\ part \in Parts
  /\ state # "reached_boundary"
  /\ More
  /\ next' = next + 1
  /\ crlf_end' = EndsInCR(line)
  /\ UNCHANGED <<req, part, status>>

(* "Two CRLFs transition to body" *)
BlankLine == line = "blank" /\ crlf_end

HeaderLine ==
  /\ Getline
  /\ state = "reading_header"
  /\ ~is_boundary(line) /\ ~BlankLine
  /\ header' = [header EXCEPT ![part] = Append(@, next)]
  /\ UNCHANGED <<state, text>>

HeaderEnds ==
  /\ Getline
  /\ state = "reading_header"
  /\ ~is_boundary(line) /\ BlankLine
  /\ state' = "reading_body"
  /\ UNCHANGED <<header, text>>

BodyLine ==
  /\ Getline
  /\ state = "reading_body"
  /\ ~is_boundary(line)
  /\ text' = [text EXCEPT ![part] = Append(@, next)]
  /\ UNCHANGED <<state, header>>

Boundary ==
  /\ Getline
  /\ is_boundary(line)
  /\ state' = "reached_boundary"
  /\ UNCHANGED <<header, text>>

(* Mutant: there is no fourth part that ends it. *)
NextPart_Endless ==
  /\ status = "reading" /\ part \in Parts
  /\ state = "reached_boundary"
  /\ part' = part + 1
  /\ BeginPart
  /\ UNCHANGED <<req, next, header, text, status>>

(* parse() returns true, and is called for the next part. *)
NextPart ==
  /\ status = "reading" /\ part \in Parts \ {4}
  /\ state = "reached_boundary"
  /\ part' = part + 1
  /\ BeginPart
  /\ UNCHANGED <<req, next, header, text, status>>

(* parse() returns false: the body ends inside a part. *)
PartUnfinished ==
  /\ status = "reading" /\ part \in Parts
  /\ state # "reached_boundary"
  /\ ~More
  /\ Answer("bad_request")

(* getline finds another line. *)
TooMany == More

TooManyFields ==
  /\ status = "reading" /\ part = 4 /\ state = "reached_boundary"
  /\ TooMany
  /\ Answer("bad_request")

(* The type of the image is that of the first Content-Type line among the  *)
(* headers of the second part.                                             *)
ContentTypes == {k \in DOMAIN header[2] :
                   req.body[header[2][k]] \in {"image", "notimage"}}
IsImage ==
  \E k \in ContentTypes : /\ req.body[header[2][k]] = "image"
                          /\ \A j \in ContentTypes : k <= j

BadFileType ==
  /\ status = "reading" /\ part = 4 /\ state = "reached_boundary"
  /\ ~TooMany /\ ~IsImage
  /\ Answer("bad_request")

(* The form is accepted: module MemeStore goes on. *)
AcceptForm ==
  /\ status = "reading" /\ part = 4 /\ state = "reached_boundary"
  /\ ~TooMany /\ IsImage
  /\ Answer("form")

FormNext ==
  \/ InvalidRequest \/ NoBoundary \/ FirstBoundary
  \/ HeaderLine \/ HeaderEnds \/ BodyLine \/ Boundary
  \/ NextPart \/ PartUnfinished
  \/ TooManyFields \/ BadFileType \/ AcceptForm

FormSpec == FormInit /\ [][FormNext]_formvars
-----------------------------------------------------------------------------
(* Type invariant. *)
FormTypeOK ==
  /\ req \in Uploads
  /\ next \in 1 .. Len(req.body) + 1
  /\ part \in 0 .. 4
  /\ state \in {"reading_header", "reading_body", "reached_boundary"}
  /\ crlf_end \in BOOLEAN
  /\ header \in [Parts -> Seq(1 .. Len(req.body))]
  /\ text \in [Parts -> Seq(1 .. Len(req.body))]
  /\ status \in {"reading", "bad_request", "unsupported_media_type", "form"}

(* What a form is, line by line: the places of its boundary lines, ...     *)
Delimiters == {i \in DOMAIN req.body : is_boundary(req.body[i])}

(* ... the p-th of them, counted from 0, ...                               *)
IsDelimiter(i, p) ==
  i \in Delimiters /\ Cardinality({j \in Delimiters : j < i}) = p

(* ... the places where the header of a part that has the lines a .. b may *)
(* end: a blank line behind a line that ended in CR, ...                   *)
HeaderEnd(a, b) ==
  {i \in a + 1 .. b : req.body[i] = "blank" /\ EndsInCR(req.body[i - 1])}

(* ... and the lines a .. b in their order.                                *)
Lines(a, b) == [k \in 1 .. b - a + 1 |-> a + k - 1]

(* A request of the right kind, whose first line is the boundary and whose *)
(* last line is the last of exactly five boundary lines, and whose second  *)
(* part says first that it is an image.                                    *)
GoodForm ==
  /\ Invalid = "no_error"
  /\ Cardinality(Delimiters) = 5
  /\ req.body[1] = "open" /\ is_boundary(req.body[Len(req.body)])
  /\ IsImage

(* The lines of a part between its boundaries a and b are its header up to *)
(* the first empty line, and its text behind that.                         *)
IsPart(p, a, b) ==
  LET ends == HeaderEnd(a + 1, b - 1)
  IN  IF ends = {}
      THEN header[p] = Lines(a + 1, b - 1) /\ text[p] = <<>>
      ELSE \E e \in ends :
             /\ \A i \in ends : e <= i
             /\ header[p] = Lines(a + 1, e - 1)
             /\ text[p] = Lines(e + 1, b - 1)

(* generate_meme: "If the body doesn't consist of exactly four parts       *)
(* sectioned off by the boundaries (and no content outside of the          *)
(* boundaries), then it is considered invalid".  A form is accepted        *)
(* exactly when it is good; then the text of each part is, to the byte,    *)
(* what is between its empty line and the next boundary, so that of an     *)
(* image nothing is lost and nothing of another part is added.  (Either    *)
(* boundary line will do in every place but the first.)                    *)
FormIsSplit ==
  status # "reading" =>
    /\ status = "form" <=> GoodForm
    /\ status = "form" =>
         \A p \in Parts : \E a, b \in Delimiters :
           IsDelimiter(a, p - 1) /\ IsDelimiter(b, p) /\ IsPart(p, a, b)
=============================================================================
