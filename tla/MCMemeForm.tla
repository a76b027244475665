----------------------------- MODULE MCMemeForm -----------------------------
(***************************************************************************)
(* Model checking MemeForm: forms of four parts, each of a few shapes,     *)
(* with either boundary behind each part and something or nothing at the   *)
(* end; forms that break off; and requests that have no form.              *)
(***************************************************************************)
EXTENDS MemeForm

Short == {<<>>, <<"crlf", "blank", "crlf">>, <<"blank", "blank", "bare">>}

Image == {<<"image">>,
          <<"crlf", "image", "blank", "bare", "crlf">>,
          <<"notimage", "image", "blank", "bare">>,
          <<"crlf", "blank", "image">>,
          <<"bare", "blank", "image", "blank", "blank">>,
          <<"blank", "image", "blank", "blank", "crlf">>}

Ends == {"open", "close"}

FourParts ==
  {<<"open">> \o s \o <<d1>> \o i \o <<d2>> \o t \o <<d3>> \o b \o <<d4>>
     \o rest :
     s \in Short, i \in Image, t \in Short, b \in Short,
     d1 \in Ends, d2 \in Ends, d3 \in Ends, d4 \in Ends,
     rest \in {<<>>, <<"bare">>, <<"open">>}}

BrokenOff ==
  UNION {{SubSeq(f, 1, n) : n \in 0 .. Len(f)} :
           f \in {g \in FourParts : \A k \in DOMAIN g : g[k] # "close"}}

Bodies == FourParts \cup BrokenOff
            \cup {<<"close">> \o Tail(f) : f \in BrokenOff \ {<<>>}}

MCUploads ==
  [post : {TRUE}, type : {"multipart"}, boundary : {TRUE}, body : Bodies]
    \cup [post : BOOLEAN, type : {"none", "other", "multipart"},
          boundary : BOOLEAN, body : {<<"open">>}]
=============================================================================
