----------------------------- MODULE MemeStore -----------------------------
(***************************************************************************)
(* The memes: MemeHandler (meme_handler.cc) writes the image of an upload  *)
(* to a file and its captions and style to server::memes_, which no lock   *)
(* protects; browse_memes shows what is in memes_.  The files outlive the  *)
(* process, the map does not: the constructor and the destructor of server *)
(* say what a start finds and what an end leaves behind.                   *)
(*                                                                         *)
(* An upload is here from the moment its form is accepted (module MemeForm *)
(* has the form); of its selections only the style matters, as stoi sees   *)
(* it.  An upload, its image and its entry in memes_ are named by the      *)
(* random uuid that is part of the name of its file; the rest of that name *)
(* is text of the client, so that the file itself may be another one.  The *)
(* root of the handler is ./memes/imgs, as in server_config.               *)
(***************************************************************************)
EXTENDS Naturals, FiniteSets

CONSTANTS
  Threads,    \* the pool
  Images,     \* bound: the uuids of all uploads of a run
  NoImage,    \* no image
  Outside,    \* bound: files outside ./memes/imgs that an upload may name
  MaxStarts   \* bound: how often the server is started

ASSUME StoreAssumption ==
  /\ NoImage \notin Images
  /\ Outside \cap Images = {}
  /\ MaxStarts \in Nat

(* The files: one in ./memes/imgs for each uuid, and those outside. *)
Places == Images \cup Outside

(* A style is 1, 2 or 3, another number, or a text that stoi refuses. *)
Style == {"valid", "other", "nan"}
Entry == Style \cup {"absent"}

VARIABLES
  phase,      \* down, running, stopping, exited (~server), terminated
  memes_,     \* server::memes_: the style of each image that is in it
  disk,       \* the files that uploads have written
  file,       \* the file that the name of each image leads to
  pc,         \* where each thread is in generate_meme or browse_memes
  img,        \* generate_meme's image, per thread
  style,      \* generate_meme's style, per thread
  page,       \* browse_memes' copy of memes_, per thread
  corrupt,    \* two threads have written memes_ at once
  tainted,    \* threads whose copy of memes_ ran beside a write
  starts,     \* starts so far, for the bound
  used,       \* history: the uuids drawn
  failed,     \* history: images that ofstream did not write, unnoticed
  accepted,   \* history: images whose upload this process answered with 200
  promised,   \* history: accepted, when the thread began to browse
  leftover    \* history: the files that this process found at its start

files == <<disk, file>>
race == <<corrupt, tainted>>
history == <<used, failed, accepted, promised, leftover>>
vars == <<phase, memes_, disk, file, pc, img, style, page, corrupt, tainted,
          starts, used, failed, accepted, promised, leftover>>
-----------------------------------------------------------------------------
(* What a process starts with. *)
NewProcess ==
  /\ memes_' = [i \in Images |-> "absent"]
  /\ pc' = [t \in Threads |-> "idle"]
  /\ img' = [t \in Threads |-> NoImage]
  /\ style' = [t \in Threads |-> "absent"]
  /\ page' = [t \in Threads |-> [i \in Images |-> "absent"]]
  /\ corrupt' = FALSE
  /\ tainted' = {}
  /\ accepted' = {}
  /\ promised' = [t \in Threads |-> {}]

Init ==
  /\ phase = "down"
  /\ memes_ = [i \in Images |-> "absent"]
  /\ disk = [p \in Places |-> "absent"]
  /\ file = [i \in Images |-> i]
  /\ pc = [t \in Threads |-> "idle"]
  /\ img = [t \in Threads |-> NoImage]
  /\ style = [t \in Threads |-> "absent"]
  /\ page = [t \in Threads |-> [i \in Images |-> "absent"]]
  /\ corrupt = FALSE
  /\ tainted = {}
  /\ starts = 0
  /\ used = {} /\ failed = {} /\ accepted = {} /\ leftover = {}
  /\ promised = [t \in Threads |-> {}]

Alive == phase \in {"running", "stopping"}
Free(t) == phase = "running" /\ pc[t] = "idle"

OnDisk == {p \in Places : disk[p] # "absent"}
InMap == {i \in Images : memes_[i] # "absent"}

(* What is left when everything in ./memes/imgs is removed. *)
Cleared == [p \in Places |-> IF p \in Outside THEN disk[p] ELSE "absent"]

Goto(t, where) == pc' = [pc EXCEPT ![t] = where]

(* An exception leaves io_service::run: no destructor runs. *)
Terminate ==
  /\ phase' = "terminated"
  /\ UNCHANGED <<memes_, files, pc, img, style, page, race, starts, history>>
-----------------------------------------------------------------------------
CanStart ==
  /\ phase \in {"down", "exited", "terminated"}
  /\ starts < MaxStarts
  /\ starts' = starts + 1

(* The constructor succeeds: ./memes/imgs is created or was there, and     *)
(* whatever is in it stays.                                                *)
Start ==
  /\ CanStart
  /\ phase' = "running"
  /\ NewProcess
  /\ leftover' = OnDisk
  /\ UNCHANGED <<files, used, failed>>

(* The constructor throws (./memes, or the port is taken), or returns      *)
(* without ./memes/imgs, so that directory_iterator throws in ~server.     *)
StartThrows ==
  /\ CanStart
  /\ phase' = "terminated"
  /\ NewProcess
  /\ UNCHANGED <<files, used, failed, leftover>>

(* No port in the config: the constructor returns, run() has nothing to    *)
(* do, and ~server removes the files.                                      *)
StartWithoutPort ==
  /\ CanStart
  /\ phase' = "exited"
  /\ NewProcess
  /\ disk' = Cleared
  /\ UNCHANGED <<file, used, failed, leftover>>

(* SIGINT: the threads finish the handlers that they are in. *)
Stop ==
  /\ phase = "running"
  /\ phase' = "stopping"
  /\ UNCHANGED <<memes_, files, pc, img, style, page, race, starts, history>>

(* run() has joined the threads; ~server removes everything that is in     *)
(* ./memes/imgs, and nothing outside it.                                   *)
Destroy ==
  /\ phase = "stopping"
  /\ \A t \in Threads : pc[t] = "idle"
  /\ phase' = "exited"
  /\ disk' = Cleared
  /\ UNCHANGED <<memes_, file, pc, img, style, page, race, starts, history>>

(* Another request ends the process (module Server: Terminate). *)
Crash == Alive /\ Terminate
-----------------------------------------------------------------------------
(* generate_meme, behind the form. *)
generate_meme(t, s) ==
  /\ Free(t)
  /\ Goto(t, "making")
  /\ style' = [style EXCEPT ![t] = s]
  /\ UNCHANGED <<phase, memes_, files, img, page, race, starts, history>>

(* The response is made, and the thread is done. *)
Answered(t) ==
  /\ Goto(t, "idle")
  /\ img' = [img EXCEPT ![t] = NoImage]
  /\ style' = [style EXCEPT ![t] = "absent"]

(* root / (uuid + "." + subtype): a file of the upload's own, unless the   *)
(* subtype, which is whatever the client wrote behind "image/", has "/.."  *)
(* in it; then it may be the file of any other upload, or one outside.     *)
Paths(i) == {i} \cup {file[j] : j \in used} \cup Outside

(* A new uuid makes a new name, and with it the key of a new entry. *)
NewName(t, i, p) ==
  /\ used' = used \cup {i}
  /\ img' = [img EXCEPT ![t] = i]
  /\ file' = [file EXCEPT ![i] = p]

(* The ofstream opens the file: whatever was in it, it is empty now. *)
MakeFile(t) ==
  /\ Alive /\ pc[t] = "making"
  /\ \E i \in Images \ used : \E p \in Paths(i) :
       /\ NewName(t, i, p)
       /\ disk' = [disk EXCEPT ![p] = "partial"]
  /\ Goto(t, "writing")
  /\ UNCHANGED <<phase, memes_, style, page, race, starts, failed, accepted,
                 promised, leftover>>

(* create_directories, or the generator, throws: 500. *)
MakeThrows(t) ==
  /\ Alive /\ pc[t] = "making"
  /\ Answered(t)
  /\ UNCHANGED <<phase, memes_, files, page, race, starts, history>>

(* The ofstream cannot open the file: it says so to nobody, and            *)
(* generate_meme goes on without a file.                                   *)
OpenFails(t) ==
  /\ Alive /\ pc[t] = "making"
  /\ \E i \in Images \ used : \E p \in Paths(i) :
       /\ NewName(t, i, p)
       /\ failed' = failed \cup {i}
  /\ Goto(t, "written")
  /\ UNCHANGED <<phase, memes_, disk, style, page, race, starts, accepted,
                 promised, leftover>>

(* Mutant: the style is checked as soon as the image is written. *)
WriteFile_ChecksStyle(t) ==
  /\ Alive /\ pc[t] = "writing"
  /\ disk' = [disk EXCEPT ![file[img[t]]] = "complete"]
  /\ IF style[t] = "other" THEN Answered(t)
     ELSE Goto(t, "written") /\ UNCHANGED <<img, style>>
  /\ UNCHANGED <<phase, memes_, file, page, race, starts, history>>

(* The image is written and the file closed. *)
WriteFile(t) ==
  /\ Alive /\ pc[t] = "writing"
  /\ disk' = [disk EXCEPT ![file[img[t]]] = "complete"]
  /\ Goto(t, "written")
  /\ UNCHANGED <<phase, memes_, file, img, style, page, race, starts, history>>

(* The disk is full: part of the image, and again nobody notices. *)
WriteFails(t) ==
  /\ Alive /\ pc[t] = "writing"
  /\ failed' = failed \cup {img[t]}
  /\ Goto(t, "written")
  /\ UNCHANGED <<phase, memes_, files, img, style, page, race, starts, used,
                 accepted, promised, leftover>>

(* Mutant: the meme is logged while its file is still open. *)
FileDone_Open(t) == pc[t] \in {"writing", "written"}

FileDone(t) == pc[t] = "written"

(* log_meme begins.  No lock is taken: a second writer corrupts the map,   *)
(* and who copies it meanwhile reads what is being changed.                *)
log_meme(t) ==
  /\ Alive /\ FileDone(t)
  /\ Goto(t, "storing")
  /\ corrupt' = (corrupt \/ \E u \in Threads : pc[u] = "storing")
  /\ tainted' = tainted \cup {u \in Threads : pc[u] = "copying"}
  /\ UNCHANGED <<phase, memes_, files, img, style, page, starts, history>>

(* The maps that m may have become, once its nodes are corrupt. *)
Remains(m) ==
  {[i \in Images |-> IF i \in kept THEN m[i] ELSE "absent"] :
     kept \in SUBSET Images}

(* log_meme stores the meme, unless its name is taken; in a corrupt map    *)
(* nodes may get lost.                                                     *)
Store(t) ==
  LET stored == IF img[t] \in InMap THEN memes_
                ELSE [memes_ EXCEPT ![img[t]] = style[t]]
  IN
  /\ Alive /\ pc[t] = "storing"
  /\ IF corrupt THEN memes_' \in Remains(stored) ELSE memes_' = stored
  /\ Goto(t, "stored")
  /\ UNCHANGED <<phase, files, img, style, page, race, starts, history>>

(* Mutant: a number that is no style is answered with 200. *)
Shown_AnyNumber == {"valid", "other"}

(* The styles for which the switch has a case. *)
Shown == {"valid"}

(* stoi and the switch: 200 for 1, 2 or 3, ... *)
AnswerOk(t) ==
  /\ Alive /\ pc[t] = "stored"
  /\ style[t] \in Shown
  /\ accepted' = accepted \cup {img[t]}
  /\ Answered(t)
  /\ UNCHANGED <<phase, memes_, files, page, race, starts, used, failed,
                 promised, leftover>>

(* ... 400 for another number; the meme stays in memes_ ... *)
AnswerBad(t) ==
  /\ Alive /\ pc[t] = "stored"
  /\ style[t] \notin Shown \cup {"nan"}
  /\ Answered(t)
  /\ UNCHANGED <<phase, memes_, files, page, race, starts, history>>

(* ... and what is no number ends the process. *)
StyleThrows(t) ==
  /\ Alive /\ pc[t] = "stored"
  /\ style[t] = "nan"
  /\ Terminate
-----------------------------------------------------------------------------
(* browse_memes: get_memes begins to copy the map. *)
browse_memes(t) ==
  /\ Free(t)
  /\ Goto(t, "copying")
  /\ tainted' = tainted \cup
                  (IF \E u \in Threads : pc[u] = "storing" THEN {t} ELSE {})
  /\ promised' = [promised EXCEPT ![t] = accepted]
  /\ UNCHANGED <<phase, memes_, files, img, style, page, corrupt, starts, used,
                 failed, accepted, leftover>>

(* Mutant: it is the list of the files that is shown. *)
get_memes_Files(t) ==
  /\ Alive /\ pc[t] = "copying"
  /\ page' = [page EXCEPT ![t] = [i \in Images |-> disk[file[i]]]]
  /\ Goto(t, "rendering")
  /\ UNCHANGED <<phase, memes_, files, img, style, race, starts, history>>

(* The copy is done. *)
get_memes(t) ==
  /\ Alive /\ pc[t] = "copying"
  /\ IF corrupt \/ t \in tainted
     THEN \E m \in Remains(memes_) : page' = [page EXCEPT ![t] = m]
     ELSE page' = [page EXCEPT ![t] = memes_]
  /\ Goto(t, "rendering")
  /\ UNCHANGED <<phase, memes_, files, img, style, race, starts, history>>

(* The page is rendered, meme by meme in the order of the uuids, up to the *)
(* first that has no style: then the answer is 400.                        *)
Rendered(t) ==
  /\ Alive /\ pc[t] = "rendering"
  /\ \/ \A i \in Images : page[t][i] \in Shown \cup {"absent"}
     \/ \E i \in Images : page[t][i] = "other"
  /\ Goto(t, "idle")
  /\ page' = [page EXCEPT ![t] = [i \in Images |-> "absent"]]
  /\ promised' = [promised EXCEPT ![t] = {}]
  /\ tainted' = tainted \ {t}
  /\ UNCHANGED <<phase, memes_, files, img, style, corrupt, starts, used,
                 failed, accepted, leftover>>

(* stoi throws for a meme whose style is no number: one whose upload is    *)
(* about to end the process itself.                                        *)
RenderThrows(t) ==
  /\ Alive /\ pc[t] = "rendering"
  /\ \E i \in Images : page[t][i] = "nan"
  /\ Terminate

(* A thread in a map that is corrupt, or changes under its eyes (operator  *)
(* [] puts the node in before its value, so [2] may be read of an empty    *)
(* vector): the process dies, ...                                          *)
InBrokenMap(t) ==
  \/ corrupt /\ pc[t] \in {"storing", "copying"}
  \/ t \in tainted /\ pc[t] \in {"copying", "rendering"}

MapFails(t) ==
  /\ Alive /\ InBrokenMap(t)
  /\ Terminate

(* ... or the thread runs in circles. *)
MapHangs(t) ==
  /\ Alive /\ InBrokenMap(t) /\ pc[t] # "rendering"
  /\ Goto(t, "stuck")
  /\ UNCHANGED <<phase, memes_, files, img, style, page, race, starts,
                 history>>

Next ==
  \/ Start \/ StartThrows \/ StartWithoutPort
  \/ Stop \/ Destroy \/ Crash
  \/ \E t \in Threads :
       \/ \E s \in Style : generate_meme(t, s)
       \/ MakeFile(t) \/ MakeThrows(t) \/ OpenFails(t)
       \/ WriteFile(t) \/ WriteFails(t)
       \/ log_meme(t) \/ Store(t)
       \/ AnswerOk(t) \/ AnswerBad(t) \/ StyleThrows(t)
       \/ browse_memes(t) \/ get_memes(t) \/ Rendered(t) \/ RenderThrows(t)
       \/ MapFails(t) \/ MapHangs(t)

Spec == Init /\ [][Next]_vars
-----------------------------------------------------------------------------
(* Type invariant. *)
TypeOK ==
  /\ phase \in {"down", "running", "stopping", "exited", "terminated"}
  /\ memes_ \in [Images -> Entry]
  /\ disk \in [Places -> {"absent", "partial", "complete"}]
  /\ file \in [Images -> Places]
  /\ pc \in [Threads -> {"idle", "making", "writing", "written", "storing",
                         "stored", "copying", "rendering", "stuck"}]
  /\ img \in [Threads -> Images \cup {NoImage}]
  /\ style \in [Threads -> Entry]
  /\ page \in [Threads -> [Images -> Entry]]
  /\ corrupt \in BOOLEAN
  /\ tainted \in SUBSET Threads
  /\ starts \in Nat
  /\ used \in SUBSET Images
  /\ failed \in SUBSET Images
  /\ accepted \in SUBSET Images
  /\ promised \in [Threads -> SUBSET Images]
  /\ leftover \in SUBSET Places

(* Another upload names the same file: its subtype, or that of i, leads    *)
(* out of the name that the uuid makes.                                    *)
Shared(i) == \E j \in used \ {i} : file[j] = file[i]

(* The file comes before the entry: a meme that is in memes_, or on a page *)
(* that is being rendered, has its whole image on disk, and keeps it for   *)
(* as long as the process lives, whatever other uploads do, fail to do or  *)
(* leave undone.  Two things are outside of this: generate_meme does not   *)
(* see that its own write failed, and the name that it makes of the        *)
(* client's text may lead to the file of another upload.                   *)
ShownIsOnDisk ==
  Alive =>
    \A i \in Images \ failed :
      (memes_[i] # "absent" \/ \E t \in Threads : page[t][i] # "absent")
        => disk[file[i]] = "complete" \/ Shared(i)

(* The thread that is still at work on a file. *)
AtWork(t, p) ==
  /\ pc[t] \in {"writing", "written", "storing", "stuck"}
  /\ img[t] \in Images /\ file[img[t]] = p

(* No image is forgotten: a file that no meme refers to was left by a      *)
(* process before this one, or belongs to an upload that is still running, *)
(* or its node was lost in a race for the map.                             *)
OrphanHasCause ==
  Alive => \A p \in OnDisk \ {file[i] : i \in InMap} :
             \/ p \in leftover
             \/ \E t \in Threads : AtWork(t, p)
             \/ corrupt

(* Without a race, a browse page has every meme whose upload was answered  *)
(* with 200 before the page was asked for, with a style that the page can  *)
(* show: a page fails only for an upload that got no 200 itself.           *)
AcceptedIsShown ==
  \A t \in Threads :
    Alive /\ pc[t] = "rendering" /\ t \notin tainted /\ ~corrupt =>
      /\ \A i \in promised[t] : page[t][i] = "valid"
      /\ \A i \in accepted : page[t][i] \in {"absent", "valid"}
-----------------------------------------------------------------------------
(* What the proofs of module MemeHandlerProofs need besides.               *)

Uploading == {"writing", "written", "storing", "stored"}

(* A uuid that was not drawn yet is nowhere, and no name leads to its file. *)
Fresh ==
  \A i \in Images \ used :
    /\ disk[i] = "absent" /\ memes_[i] = "absent"
    /\ \A j \in used : file[j] # i
    /\ \A t \in Threads : page[t][i] = "absent" /\ img[t] # i

(* An image belongs to the upload of one thread. *)
OneUploader ==
  \A t, u \in Threads : img[t] = img[u] /\ img[t] # NoImage => t = u

(* What generate_meme has done so far, by where its thread is. *)
UploadSoFar ==
  \A t \in Threads :
    /\ pc[t] \in {"idle", "making", "copying", "rendering"} => img[t] = NoImage
    /\ pc[t] \in Uploading \cup {"making"} => style[t] \in Style
    /\ pc[t] \in Uploading => img[t] \in Images
    /\ pc[t] \in {"writing", "written", "storing"} =>
         /\ memes_[img[t]] = "absent"
         /\ \A u \in Threads : page[u][img[t]] = "absent"
    /\ pc[t] \in {"written", "storing", "stored"} =>
         disk[file[img[t]]] = "complete" \/ img[t] \in failed \/ Shared(img[t])
    /\ pc[t] = "stored" /\ ~corrupt => memes_[img[t]] = style[t]

(* As long as the map is whole, an entry never changes: a copy of it has   *)
(* the same style for an image or does not have it yet.                    *)
MapIsWhole ==
  ~corrupt =>
    /\ \A t \in Threads, i \in Images : page[t][i] \in {"absent", memes_[i]}
    /\ \A i \in accepted : memes_[i] = "valid"

PromisedWasAccepted == \A t \in Threads : promised[t] \subseteq accepted

(* The inductive invariant. *)
IInv ==
  /\ TypeOK
  /\ Fresh
  /\ OneUploader
  /\ UploadSoFar
  /\ MapIsWhole
  /\ PromisedWasAccepted
  /\ ShownIsOnDisk
  /\ OrphanHasCause
  /\ AcceptedIsShown
=============================================================================
