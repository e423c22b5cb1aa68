--------------------------------- MODULE Chat ---------------------------------
(***************************************************************************)
(* One conversation between a student and a teacher: MessagesPage          *)
(* (messaging/student_messsages.dart) on the one device and                *)
(* TeacherMessagesPage (messaging/teacher_messages.dart) on the other.     *)
(*                                                                         *)
(* A message is stamped by the clock of its sender's device, stored some   *)
(* time later, and streamed to the pages that are open. Nobody waits for   *)
(* it to be stored: a message that is refused disappears from its sender's *)
(* list and is lost. Until the first snapshot arrives there is no list on  *)
(* the page for _scrollController to scroll: a text that is sent then is   *)
(* set and the handler throws.                                             *)
(***************************************************************************)
EXTENDS PageData

VARIABLES
  now,       \* the number of messages sent so far, as time
  texts,     \* texts written so far; a text is its number, 0 the empty one
  server,    \* conversations/<...>/messages as stored
  view,      \* the messages on each person's device
  attached,  \* whether the page has had its first snapshot
  text,      \* _textController.text
  isPhoto,
  imageUrl,
  uploads,   \* the images picked whose upload is not finished
  removed,   \* history: the images removed with the close icon
  posted     \* history: every message that was set

store == <<now, server, view, posted>>
photoVars == <<isPhoto, imageUrl, uploads, removed>>
vars == <<store, texts, attached, text, photoVars>>

NoImage == "none"

(* A message: its sender, its stamp, its text or image, and, for the       *)
(* properties, whether a list was there.                                   *)
Message(p, content) ==
  [sender |-> p, timeSent |-> now + 1 + Skew[p], content |-> content,
   attached |-> attached[p]]

TextOf(n) == [isImage |-> FALSE, value |-> n]
Image(i) == [isImage |-> TRUE, value |-> i]

TypeOK ==
  /\ now \in 0..MaxMessages /\ texts \in 0..MaxTexts
  /\ server \subseteq posted /\ view \in [People -> SUBSET posted]
  /\ \A m \in posted :
       m.sender \in People /\ m.timeSent \in Nat
         /\ m.content \in {TextOf(n) : n \in 1..MaxTexts} \cup {Image(i) : i \in Images}
  /\ attached \in [People -> BOOLEAN]
  /\ text \in [People -> 0..MaxTexts]
  /\ isPhoto \in [People -> BOOLEAN]
  /\ imageUrl \in [People -> Images \cup {NoImage}]
  /\ uploads \in [People -> SUBSET Images] /\ removed \in [People -> SUBSET Images]

Init ==
  /\ now = 0 /\ texts = 0 /\ server = {} /\ posted = {}
  /\ view = [p \in People |-> {}]
  /\ attached = [p \in People |-> FALSE]
  /\ text = [p \in People |-> 0]
  /\ isPhoto = [p \in People |-> FALSE] /\ imageUrl = [p \in People |-> NoImage]
  /\ uploads = [p \in People |-> {}] /\ removed = [p \in People |-> {}]

-----------------------------------------------------------------------------
(* Firestore: a message reaches the server, and a snapshot of the server   *)
(* a device. A device's own messages are in its snapshots at once.         *)
Store(p) ==
  /\ \E m \in view[p] \ server : server' = server \cup {m}
  /\ UNCHANGED <<now, view, posted, texts, attached, text, photoVars>>

(* The server refuses a message, which its sender's device had shown.      *)
Refuse(p) ==
  /\ \E m \in view[p] \ server : view' = [view EXCEPT ![p] = @ \ {m}]
  /\ UNCHANGED <<now, server, posted, texts, attached, text, photoVars>>

Snapshot(p) ==
  /\ ~attached[p] \/ ~(server \subseteq view[p])
  /\ view' = [view EXCEPT ![p] = @ \cup server]
  /\ attached' = [attached EXCEPT ![p] = TRUE]
  /\ UNCHANGED <<now, server, posted, texts, text, photoVars>>

(* The text field.                                                         *)
Type(p) ==
  /\ ~isPhoto[p]
  /\ texts < MaxTexts
  /\ texts' = texts + 1
  /\ text' = [text EXCEPT ![p] = texts + 1]
  /\ UNCHANGED <<store, attached, photoVars>>

Set(p, m) ==
  /\ now < MaxMessages
  /\ now' = now + 1
  /\ view' = [view EXCEPT ![p] = @ \cup {m}]
  /\ posted' = posted \cup {m}

(* The send button with a text: it is set if it is not empty, and cleared  *)
(* unless scrolling to it throws.                                          *)
sendMessage(p) ==
  /\ ~isPhoto[p]
  /\ text[p] # 0
  /\ Set(p, Message(p, TextOf(text[p])))
  /\ text' = IF attached[p] THEN [text EXCEPT ![p] = 0] ELSE text
  /\ UNCHANGED <<server, texts, attached, photoVars>>

(* The send button with an image: the image whose url came last.           *)
setImageData(p) ==
  /\ isPhoto[p]
  /\ Set(p, Message(p, Image(imageUrl[p])))
  /\ isPhoto' = [isPhoto EXCEPT ![p] = FALSE]
  /\ UNCHANGED <<server, texts, attached, text, imageUrl, uploads, removed>>

(* The add icon: an image is picked and its upload starts, under a name no *)
(* other upload has. The icon stays until some upload is finished.         *)
uploadImage(p, i) ==
  /\ ~isPhoto[p]
  /\ i \notin UNION {uploads[q] \cup removed[q] \cup {imageUrl[q]} : q \in People}
  /\ \A m \in posted : m.content # Image(i)
  /\ uploads' = [uploads EXCEPT ![p] = @ \cup {i}]
  /\ UNCHANGED <<store, texts, attached, text, isPhoto, imageUrl, removed>>

UploadedShownFirst(p, i) ==
  /\ i \in uploads[p]
  /\ uploads' = [uploads EXCEPT ![p] = @ \ {i}]
  /\ isPhoto' = [isPhoto EXCEPT ![p] = TRUE]
  /\ imageUrl' = IF imageUrl[p] = NoImage THEN [imageUrl EXCEPT ![p] = i] ELSE imageUrl
  /\ UNCHANGED <<store, texts, attached, text, removed>>

(* The url of an image that was stored is its preview now.                 *)
Uploaded(p, i) ==
  /\ i \in uploads[p]
  /\ uploads' = [uploads EXCEPT ![p] = @ \ {i}]
  /\ isPhoto' = [isPhoto EXCEPT ![p] = TRUE]
  /\ imageUrl' = [imageUrl EXCEPT ![p] = i]
  /\ UNCHANGED <<store, texts, attached, text, removed>>

(* The upload fails, and the error is swallowed.                           *)
UploadFails(p, i) ==
  /\ i \in uploads[p]
  /\ uploads' = [uploads EXCEPT ![p] = @ \ {i}]
  /\ UNCHANGED <<store, texts, attached, text, isPhoto, imageUrl, removed>>

(* The close icon.                                                         *)
RemoveImage(p) ==
  /\ isPhoto[p]
  /\ isPhoto' = [isPhoto EXCEPT ![p] = FALSE]
  /\ removed' = [removed EXCEPT ![p] = @ \cup {imageUrl[p]}]
  /\ UNCHANGED <<store, texts, attached, text, imageUrl, uploads>>

(* The page is left and opened again: a new state. An upload that ends     *)
(* later calls setState on the old one, which throws inside of the try.    *)
Reopen(p) ==
  /\ attached[p]
  /\ attached' = [attached EXCEPT ![p] = FALSE]
  /\ text' = [text EXCEPT ![p] = 0]
  /\ isPhoto' = [isPhoto EXCEPT ![p] = FALSE]
  /\ imageUrl' = [imageUrl EXCEPT ![p] = NoImage]
  /\ uploads' = [uploads EXCEPT ![p] = {}]
  /\ UNCHANGED <<store, texts, removed>>

(* The two pages.                                                          *)
PageStep(p) ==
  \/ Type(p) \/ sendMessage(p) \/ setImageData(p) \/ RemoveImage(p) \/ Reopen(p)
  \/ \E i \in Images : uploadImage(p, i) \/ Uploaded(p, i) \/ UploadFails(p, i)

StudentPage == PageStep("student")
TeacherPage == PageStep("teacher")

Next == StudentPage \/ TeacherPage \/ \E p \in People : Store(p) \/ Refuse(p) \/ Snapshot(p)

-----------------------------------------------------------------------------
(* A text is sent once, unless it was sent before the first snapshot,      *)
(* when it stays in the text field.                                        *)
TextSentOnce ==
  \A m, n \in posted :
    /\ ~m.content.isImage /\ m.content = n.content
    /\ m.timeSent < n.timeSent
    => ~m.attached

(* "there will be a close icon to remove the image": an image that was     *)
(* removed is never sent, whatever other uploads end before or after.      *)
RemovedNotSent ==
  \A p \in People : \A i \in removed[p] : \A m \in posted :
    m.sender = p => m.content # Image(i)
=============================================================================
