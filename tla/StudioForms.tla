------------------------------ MODULE StudioForms ------------------------------
(***************************************************************************)
(* The input forms of the web studio (components/studio/templates): what   *)
(* the drawer of a tool asks for before the confirmation modal opens.  A   *)
(* form shows files, uploads them - as soon as they are picked, or all of  *)
(* them after the button is pressed - and hands the page a payload of the  *)
(* addresses the uploads returned.  The user goes on picking and clearing  *)
(* while uploads are on their way, so what is shown and what is sent are   *)
(* two things.  The address of an uploaded file is written as the file.    *)
(* The wallet is taken to suffice: that test is CanAfford of StudioPage.   *)
(***************************************************************************)
EXTENDS Integers, Sequences, FiniteSets

CONSTANTS
    Null,
    File,            \* files the user may pick
    Character,       \* characters of a video script
    Examples,        \* those of them that come with the form
    MinScenes,       \* scenes a story cannot go below (2 in the code)
    MaxScenes,       \* scenes a story cannot go above (6)
    MinSlides, MaxSlides,
    MaxCharacters,
    \* bounds
    MaxLines         \* lines of dialogue of all scenes

ASSUME FormAssumption ==
    /\ Null \notin File \cup Character \cup {"link"} /\ "link" \notin File
    /\ Examples \subseteq Character /\ MaxCharacters \in Nat
    /\ MinScenes \in 1 .. 2 /\ MaxScenes \in MinScenes .. 2
    /\ MinSlides \in Nat /\ MaxSlides \in Nat /\ MaxLines \in Nat \ {0}

\* Places of a form that take a file: the picture and its tail, the photo and the voice, the
\* subject and one of the two references (scene and style behave alike), the scenes of a story.
Slot == 1 .. 2

VARIABLES
    form,            \* the template of the tool, fixed
    auto,            \* the tool needs no words (bg-remover, image-analyser), fixed
    slot,            \* what each slot shows and what its upload returned
    flying,          \* uploads begun when a file was picked
    text,            \* the words are long enough
    mic,             \* the microphone of VoiceStudio is busy
    own,             \* TalkingAvatar speaks an uploaded voice
    rec,             \* the voice recorder of TalkingAvatar
    scenes,          \* scenes on screen, of a story
    cast,            \* characters, and who speaks each line of each scene
    slides,          \* pictures of a slideshow
    adding,          \* batches of pictures that are being added to it
    busy,            \* the upload flag of the slideshow
    chain,           \* uploads begun by the button, one after the other
    page,            \* the form is in use, covered by the modal, or generating
    last             \* what was shown and what was sent when the page took the payload

words == <<text, mic>>
voice == <<own, rec>>
show  == <<slides, adding, busy>>
media == <<slot, flying>>
formVars == <<form, auto, media, words, voice, scenes, cast, show, chain, page, last>>

NewSlot == [file |-> Null, url |-> Null, link |-> FALSE, busy |-> FALSE,
            failed |-> FALSE, crossed |-> FALSE]

NewScene == <<Null>>       \* one line, spoken by the narrator

------------------------------------------------------------------------------
(* What a form shows and what it would send.                               *)

Shown(s) == IF slot[s].file # Null THEN slot[s].file ELSE IF slot[s].link THEN "link" ELSE Null

\* uploadedUrl || imageUrl.trim()
Given(s) == IF slot[s].url # Null THEN slot[s].url ELSE IF slot[s].link THEN "link" ELSE Null

Uploading == \E s \in Slot : slot[s].busy

Filled == {s \in scenes : slot[s].url # Null \/ Shown(s) # Null}

\* A slot that shows nothing can be picked for, or take a link; one that shows something can be
\* cleared.
Offer(ready) == [pick |-> {s \in Slot : Shown(s) = Null}, clear |-> {s \in Slot : Shown(s) # Null},
                 submit |-> ready]

\* Handlers of a form that uploads what is picked.  "needs" are the slots whose address the
\* form never submits without; "asks" says that its words decide, too.
Picker == [slots |-> {1}, links |-> {1}, early |-> TRUE, forgets |-> TRUE, needs |-> {},
           clearEnds |-> FALSE, erases |-> FALSE, caches |-> FALSE, failure |-> "keep",
           asks |-> FALSE]

WordsOnly == [Picker EXCEPT !.slots = {}, !.links = {}, !.asks = TRUE]

\* Handlers of a form that uploads when its button is pressed.
AtTheButton == [Picker EXCEPT !.early = FALSE]

------------------------------------------------------------------------------
(* The forms: for each, its handlers and what it offers.  The first three  *)
(* trust a picked file: they submit without an address if its upload       *)
(* failed.                                                                 *)

ImageEditor == [Picker EXCEPT !.asks = ~auto, !.erases = TRUE]
ImageEditorOffers == Offer((Given(1) # Null \/ slot[1].file # Null) /\ (auto \/ text) /\ ~Uploading)

VisionAsk == [Picker EXCEPT !.asks = ~auto]
VisionAskOffers == Offer((Given(1) # Null \/ slot[1].file # Null) /\ (auto \/ text) /\ ~Uploading)

Transcribe == Picker
TranscribeOffers == Offer((Given(1) # Null \/ slot[1].file # Null) /\ ~Uploading)

CodePro == [Picker EXCEPT !.asks = TRUE]
CodeProOffers == Offer(text /\ ~Uploading)

VideoExtender == [Picker EXCEPT !.needs = {1}]
VideoExtenderOffers == Offer(Given(1) # Null /\ ~Uploading)

VideoEditor == [Picker EXCEPT !.asks = TRUE, !.needs = {1}]
VideoEditorOffers == Offer(Given(1) # Null /\ text /\ ~Uploading)

\* The picture is optional; a failed upload takes its address away, not its preview.
VideoCreator == [Picker EXCEPT !.asks = TRUE, !.links = {}, !.forgets = FALSE,
                                !.failure = "forget"]
VideoCreatorOffers == Offer(text /\ ~Uploading)

ImageCreator == [Picker EXCEPT !.asks = TRUE, !.links = {}, !.forgets = FALSE]
ImageCreatorOffers == Offer(text /\ ~Uploading)

\* The document is dropped when its upload fails, and cannot be removed before it ended.
KnowledgeDoc == [Picker EXCEPT !.asks = TRUE, !.links = {}, !.forgets = FALSE,
                                !.failure = "drop"]
KnowledgeDocOffers ==
    [Offer((slot[1].url # Null \/ text) /\ ~Uploading) EXCEPT
        !.clear = IF Uploading THEN {} ELSE @]

TranslateLayout == WordsOnly
TranslateLayoutOffers == Offer(text)

\* Each slot has its own flag, and clearing the slot resets it.
ImageCompose == [Picker EXCEPT !.asks = TRUE, !.slots = Slot, !.links = {}, !.needs = {1},
                                !.clearEnds = TRUE]
ImageComposeOffers == Offer(slot[1].url # Null /\ text /\ ~Uploading)

VideoAnimator == [AtTheButton EXCEPT !.slots = Slot, !.links = Slot, !.needs = {1}]
VideoAnimatorOffers == Offer(Shown(1) # Null)

\* The voice file is replaced by picking another; there is no way to remove it.
TalkingAvatar == [AtTheButton EXCEPT !.asks = ~own, !.slots = Slot, !.needs = IF own THEN {1, 2} ELSE {1}]
TalkingAvatarOffers ==
    [pick   |-> (IF Shown(1) = Null THEN {1} ELSE {}) \cup (IF own THEN {2} ELSE {}),
     clear  |-> IF Shown(1) # Null THEN {1} ELSE {},
     submit |-> Shown(1) # Null /\ (IF own THEN Shown(2) # Null ELSE text)]

VideoMultiScene == [AtTheButton EXCEPT !.slots = scenes, !.links = scenes, !.needs = Filled]
VideoMultiSceneOffers == Offer(Cardinality(Filled) >= MinScenes)

\* The address of an uploaded scene is kept for the next submission.
VideoScript == [AtTheButton EXCEPT !.slots = scenes, !.links = scenes, !.needs = Filled,
                                   !.forgets = FALSE, !.caches = TRUE]
VideoScriptOffers ==
    [pick |-> scenes \ Filled, clear |-> Filled, submit |-> Filled # {}]

VideoSlideshow == [WordsOnly EXCEPT !.asks = FALSE]
VideoSlideshowOffers == Offer(Len(slides) >= MinSlides /\ ~busy)

MusicComposer == WordsOnly
MusicComposerOffers == Offer(text)

VoiceStudio == WordsOnly
VoiceStudioOffers == Offer(text /\ ~mic)

Forms == {"ImageEditor", "VisionAsk", "Transcribe", "CodePro", "VideoExtender", "VideoEditor",
          "VideoCreator", "ImageCreator", "KnowledgeDoc", "TranslateLayout", "ImageCompose",
          "VideoAnimator", "TalkingAvatar", "VideoMultiScene", "VideoScript", "VideoSlideshow",
          "MusicComposer", "VoiceStudio"}

\* renderTemplate
Handlers ==
    CASE form = "ImageEditor" -> ImageEditor         [] form = "VisionAsk" -> VisionAsk
      [] form = "Transcribe" -> Transcribe           [] form = "CodePro" -> CodePro
      [] form = "VideoExtender" -> VideoExtender     [] form = "VideoEditor" -> VideoEditor
      [] form = "VideoCreator" -> VideoCreator       [] form = "ImageCreator" -> ImageCreator
      [] form = "TranslateLayout" -> TranslateLayout [] form = "ImageCompose" -> ImageCompose
      [] form = "VideoAnimator" -> VideoAnimator     [] form = "TalkingAvatar" -> TalkingAvatar
      [] form = "VideoMultiScene" -> VideoMultiScene [] form = "VideoScript" -> VideoScript
      [] form = "VideoSlideshow" -> VideoSlideshow   [] form = "MusicComposer" -> MusicComposer
      [] form = "VoiceStudio" -> VoiceStudio         [] OTHER -> KnowledgeDoc

Offers ==
    CASE form = "ImageEditor" -> ImageEditorOffers   [] form = "VisionAsk" -> VisionAskOffers
      [] form = "Transcribe" -> TranscribeOffers     [] form = "CodePro" -> CodeProOffers
      [] form = "VideoExtender" -> VideoExtenderOffers
      [] form = "VideoEditor" -> VideoEditorOffers
      [] form = "VideoCreator" -> VideoCreatorOffers
      [] form = "ImageCreator" -> ImageCreatorOffers
      [] form = "TranslateLayout" -> TranslateLayoutOffers
      [] form = "ImageCompose" -> ImageComposeOffers
      [] form = "VideoAnimator" -> VideoAnimatorOffers
      [] form = "TalkingAvatar" -> TalkingAvatarOffers
      [] form = "VideoMultiScene" -> VideoMultiSceneOffers
      [] form = "VideoScript" -> VideoScriptOffers
      [] form = "VideoSlideshow" -> VideoSlideshowOffers
      [] form = "MusicComposer" -> MusicComposerOffers
      [] form = "VoiceStudio" -> VoiceStudioOffers   [] OTHER -> KnowledgeDocOffers

------------------------------------------------------------------------------
(* Pictures, films, documents.                                             *)

\* An upload of this slot is on its way, and will write into it.
InFlight(s) == (\E f \in File : <<s, f>> \in flying) \/ (Handlers.caches /\ chain # Null)

UsesForm == page # "modal"

Media(m, f) ==
    /\ slot' = m /\ flying' = f
    /\ UNCHANGED <<form, auto, voice, scenes, cast, show, chain, page, last>>

\* handleFile and its kin, from the file dialog or a drop.
HandleFile(s, f) ==
    /\ UsesForm /\ s \in Handlers.slots \cap Offers.pick
    /\ Media([slot EXCEPT ![s] =
                 [NewSlot EXCEPT !.file = f, !.busy = Handlers.early,
                                 !.url = IF Handlers.forgets THEN Null ELSE slot[s].url,
                                 !.crossed = slot[s].crossed \/ InFlight(s)]],
             IF Handlers.early THEN flying \cup {<<s, f>>} ELSE flying)
    /\ UNCHANGED words

\* A link is pasted where nothing is shown.
PasteLink(s) ==
    /\ UsesForm /\ s \in Handlers.links \cap Offers.pick
    /\ Media([slot EXCEPT ![s].link = TRUE, ![s].crossed = @ \/ InFlight(s)], flying)
    /\ UNCHANGED words

\* The address of the last upload is left behind.
ClearMutant(s) ==
    /\ UsesForm /\ s \in Handlers.slots \cap Offers.clear
    /\ Media([slot EXCEPT ![s] =
                 [NewSlot EXCEPT !.busy = slot[s].busy /\ ~Handlers.clearEnds,
                                 !.url = slot[s].url,
                                 !.crossed = slot[s].crossed \/ InFlight(s)]],
             flying)
    /\ text' = (text /\ ~Handlers.erases) /\ UNCHANGED mic

\* clearImage and its kin; an upload on its way is not stopped.
Clear(s) ==
    /\ UsesForm /\ s \in Handlers.slots \cap Offers.clear
    /\ Media([slot EXCEPT ![s] =
                 [NewSlot EXCEPT !.busy = slot[s].busy /\ ~Handlers.clearEnds,
                                 !.crossed = slot[s].crossed \/ InFlight(s)]],
             flying)
    /\ text' = (text /\ ~Handlers.erases) /\ UNCHANGED mic

\* The upload of a picked file: its address is the slot's, whatever the slot shows by now.
UploadEnds(s, f) ==
    /\ <<s, f>> \in flying
    /\ Media([slot EXCEPT ![s].url = f, ![s].busy = FALSE], flying \ {<<s, f>>})
    /\ UNCHANGED words

UploadFails(s, f) ==
    /\ <<s, f>> \in flying
    /\ Media([slot EXCEPT ![s].busy = FALSE, ![s].failed = TRUE,
                          ![s].file = IF Handlers.failure = "drop" THEN Null ELSE @,
                          ![s].url = IF Handlers.failure = "forget" THEN Null ELSE @],
             flying \ {<<s, f>>})
    /\ UNCHANGED words

------------------------------------------------------------------------------
(* Words and voices.                                                       *)

Words(t, m) ==
    /\ UsesForm /\ text' = t /\ mic' = m
    /\ UNCHANGED <<form, auto, media, voice, scenes, cast, show, chain, page, last>>

\* Typed, taken from a suggestion, or heard, where words decide.
Write == Handlers.asks /\ \E t \in BOOLEAN : t # text /\ Words(t, mic)

Dictate == form = "VoiceStudio" /\ ~mic /\ page = "idle" /\ Words(text, TRUE)

Dictated == mic /\ \E t \in {text, TRUE} : Words(t, FALSE)

Voice(o, r) ==
    /\ UsesForm /\ form = "TalkingAvatar" /\ own' = o /\ rec' = r
    /\ UNCHANGED <<form, auto, media, words, scenes, cast, show, chain, page, last>>

\* "Use my own audio" and the voices are offered side by side.
ToggleOwnAudio == Voice(~own, rec)

PickVoice == ~own /\ rec.mine /\ Voice(own, [rec EXCEPT !.mine = FALSE])

\* "My Voice": the clone if there is one, else the recorder, which a second button opens too.
MyVoice ==
    ~own /\ \/ Voice(own, IF rec.clone THEN [rec EXCEPT !.mine = TRUE] ELSE [rec EXCEPT !.open = TRUE])
            \/ rec.clone /\ Voice(own, [rec EXCEPT !.open = TRUE])

StartRecording ==
    ~own /\ rec.open /\ ~rec.on /\ ~rec.blob /\ Voice(own, [rec EXCEPT !.on = TRUE])

\* By the button, or at 45 seconds.
StopRecording == rec.on /\ Voice(own, [rec EXCEPT !.on = FALSE, !.blob = TRUE])

\* The recorder is stopped and its recording dropped, in this order: what was being recorded
\* arrives after it was dropped.
CloseRecorder ==
    ~own /\ rec.open /\ Voice(own, [rec EXCEPT !.open = FALSE, !.on = FALSE, !.blob = rec.on])

DiscardRecording ==
    ~own /\ rec.open /\ rec.blob /\ ~rec.cloning /\ Voice(own, [rec EXCEPT !.blob = FALSE])

SaveClone ==
    ~own /\ rec.open /\ rec.blob /\ ~rec.cloning /\ Voice(own, [rec EXCEPT !.cloning = TRUE])

CloneEnds ==
    /\ rec.cloning
    /\ \/ Voice(own, [rec EXCEPT !.cloning = FALSE, !.clone = TRUE, !.mine = TRUE,
                                 !.open = FALSE, !.blob = FALSE])
       \/ Voice(own, [rec EXCEPT !.cloning = FALSE])

------------------------------------------------------------------------------
(* Stories: scenes, characters, dialogue; slides.                          *)

Story(sc, ca, sl) ==
    /\ UsesForm /\ scenes' = sc /\ cast' = ca /\ slot' = sl
    /\ UNCHANGED <<form, auto, flying, words, voice, show, chain, page, last>>

\* A new scene has a new id: none that a submission under way still knows.
AddScene(s) ==
    /\ form \in {"VideoMultiScene", "VideoScript"}
    /\ s \notin scenes /\ Cardinality(scenes) < MaxScenes
    /\ chain # Null => chain.shown[s] = Null
    /\ Story(scenes \cup {s}, [cast EXCEPT !.lines[s] = NewScene], [slot EXCEPT ![s] = NewSlot])

RemoveScene(s) ==
    /\ form \in {"VideoMultiScene", "VideoScript"}
    /\ s \in scenes /\ Cardinality(scenes) > MinScenes
    /\ Story(scenes \ {s}, [cast EXCEPT !.lines[s] = NewScene], [slot EXCEPT ![s] = NewSlot])

Cast(ca) == form = "VideoScript" /\ Story(scenes, ca, slot)

\* Offered with no characters, and then as long as there is room.
AddCharacter(c) ==
    /\ c \in Character \ (cast.who \cup Examples)
    /\ cast.who = {} \/ Cardinality(cast.who) < MaxCharacters
    /\ Cast([cast EXCEPT !.who = @ \cup {c}])

\* The examples take the place of all characters: offered once, while there are none.
LoadExamples ==
    /\ cast.who = {} /\ ~cast.loaded
    /\ Cast([cast EXCEPT !.who = Examples, !.loaded = TRUE])

\* The lines of the character keep its id.
RemoveCharacterMutant(c) ==
    /\ c \in cast.who
    /\ Cast([cast EXCEPT !.who = @ \ {c}])

\* "Replace removed character's lines with narrator"
RemoveCharacter(c) ==
    /\ c \in cast.who
    /\ Cast([cast EXCEPT
           !.who = @ \ {c},
           !.lines = [s \in Slot |->
               [i \in DOMAIN @[s] |-> IF @[s][i] = c THEN Null ELSE @[s][i]]]])

AddDialogueLine(s) ==
    /\ s \in scenes /\ Len(cast.lines[1]) + Len(cast.lines[2]) < MaxLines
    /\ Cast([cast EXCEPT !.lines[s] = Append(@, Null)])

UpdateDialogueLine(s, c) ==
    /\ s \in scenes /\ c \in cast.who \cup {Null}
    /\ \E i \in DOMAIN cast.lines[s] : Cast([cast EXCEPT !.lines[s][i] = c])

RemoveDialogueLine(s) ==
    /\ s \in scenes /\ Len(cast.lines[s]) > 1
    /\ \E i \in DOMAIN cast.lines[s] :
          Cast([cast EXCEPT !.lines[s] = SubSeq(@, 1, i - 1) \o SubSeq(@, i + 1, Len(@))])

Slides(sl, ad, b) ==
    /\ slides' = sl /\ adding' = ad /\ busy' = b
    /\ UNCHANGED <<form, auto, media, words, voice, scenes, cast, chain, page, last>>

\* As many of the chosen files as there was room for when they were chosen: the button stays
\* enabled while a batch is on its way.
AddFiles(b) ==
    /\ UsesForm /\ form = "VideoSlideshow"
    /\ Len(slides) < MaxSlides /\ adding[b] = 0
    /\ \E n \in 1 .. MaxSlides - Len(slides) : Slides(slides, [adding EXCEPT ![b] = n], TRUE)

\* The batch ends with its last file, and with it the flag.
Added(b) == [adding EXCEPT ![b] = @ - 1]

\* The room is not looked at again.
SlideUploadedMutant(b, f) ==
    /\ adding[b] > 0
    /\ Slides(Append(slides, f), Added(b), busy /\ adding[b] > 1)

SlideUploaded(b, f) ==
    /\ adding[b] > 0
    /\ Slides(IF Len(slides) < MaxSlides THEN Append(slides, f) ELSE slides,
              Added(b), busy /\ adding[b] > 1)

SlideFails(b) == adding[b] > 0 /\ Slides(slides, [adding EXCEPT ![b] = 0], FALSE)

RemoveSlide ==
    /\ UsesForm
    /\ \E i \in DOMAIN slides :
          Slides(SubSeq(slides, 1, i - 1) \o SubSeq(slides, i + 1, Len(slides)), adding, busy)

MoveSlide ==
    /\ UsesForm
    /\ \E i \in 1 .. Len(slides) - 1 :
          Slides([slides EXCEPT ![i] = slides[i + 1], ![i + 1] = slides[i]], adding, busy)

------------------------------------------------------------------------------
(* The button.                                                             *)

\* onSubmit: the payload is stashed and the modal opens.
Submit(shown, sent, r) ==
    /\ page' = "modal"
    /\ last' = [shown |-> shown, sent |-> sent, needs |-> r.needs, mine |-> r.mine,
                excused |-> r.excused, lost |-> r.lost, count |-> r.count]

\* What the closure of the button knows when it is pressed.
Pressed == [needs |-> Handlers.needs, mine |-> rec.mine /\ ~own,
            excused |-> {s \in Slot : slot[s].crossed},
            lost |-> {s \in Slot : slot[s].failed}, count |-> Len(slides)]

\* Slots the button uploads: shown files without an address that is kept; the voice file only
\* if it is to be spoken.
Sendable(s) == s \in Handlers.slots /\ (form = "TalkingAvatar" => s = 1 \/ own)

Uploads(s) == Sendable(s) /\ slot[s].file # Null /\ slot[s].url = Null

HandleSubmit ==
    /\ page = "idle" /\ chain = Null /\ Offers.submit
    /\ LET shown == [s \in Slot |-> IF Sendable(s) THEN Shown(s) ELSE Null]
           given == [s \in Slot |-> IF Sendable(s) THEN Given(s) ELSE Null]
       IN  IF Handlers.early
           THEN Submit(shown, given, Pressed) /\ UNCHANGED chain
           ELSE /\ chain' = [todo |-> {s \in Slot : Uploads(s)}, shown |-> shown, sent |-> given,
                             pressed |-> Pressed]
                /\ UNCHANGED <<page, last>>
    /\ UNCHANGED <<form, auto, media, words, voice, scenes, cast, show>>

\* The uploads of the button follow each other; a story keeps the address with the scene, if
\* that is still there.
NextUpload ==
    /\ chain # Null /\ chain.todo # {}
    /\ LET s == CHOOSE x \in chain.todo : \A y \in chain.todo : x <= y
           f == chain.shown[s]
       IN  /\ chain' = [chain EXCEPT !.todo = @ \ {s}, !.sent[s] = f]
           /\ slot' = IF Handlers.caches /\ s \in scenes THEN [slot EXCEPT ![s].url = f] ELSE slot
    /\ UNCHANGED <<form, auto, flying, words, voice, scenes, cast, show, page, last>>

\* The payload goes out without the file.
UploadsFailMutant ==
    /\ chain # Null /\ chain.todo # {}
    /\ chain' = [chain EXCEPT !.todo = {}]
    /\ UNCHANGED <<form, auto, media, words, voice, scenes, cast, show, page, last>>

\* One that fails ends the submission.
UploadsFail ==
    /\ chain # Null /\ chain.todo # {}
    /\ chain' = Null
    /\ UNCHANGED <<form, auto, media, words, voice, scenes, cast, show, page, last>>

UploadsDone ==
    /\ chain # Null /\ chain.todo = {}
    /\ chain' = Null
    /\ Submit(chain.shown, chain.sent, chain.pressed)
    /\ UNCHANGED <<form, auto, media, words, voice, scenes, cast, show>>

\* The modal is left, confirmed; the generation fails.
PageMoves ==
    /\ \/ page = "modal" /\ page' \in {"idle", "generating"}
       \/ page = "generating" /\ page' = "idle"
    /\ last' = Null
    /\ UNCHANGED <<form, auto, media, words, voice, scenes, cast, show, chain>>

------------------------------------------------------------------------------

\* A form as it is mounted; a preloaded result of another tool stands where a link would.
Fresh ==
    /\ slot \in [Slot -> {NewSlot, [NewSlot EXCEPT !.link = TRUE]}]
    /\ \A s \in Slot : slot[s].link =>
          s = 1 /\ form \in {"ImageEditor", "VisionAsk", "VideoExtender", "VideoAnimator",
                             "TalkingAvatar"}
    /\ flying = {} /\ text = FALSE /\ mic = FALSE /\ own = FALSE
    /\ rec \in [open : {FALSE}, on : {FALSE}, blob : {FALSE}, cloning : {FALSE},
                clone : IF form = "TalkingAvatar" THEN BOOLEAN ELSE {FALSE}, mine : {FALSE}]
    /\ scenes = 1 .. MinScenes
    /\ cast = [who |-> {}, loaded |-> FALSE, lines |-> [s \in Slot |-> NewScene]]
    /\ slides = <<>> /\ adding = [b \in 1 .. 2 |-> 0] /\ busy = FALSE
    /\ chain = Null /\ page = "idle" /\ last = Null

FormInit ==
    /\ form \in Forms
    /\ auto \in IF form \in {"ImageEditor", "VisionAsk"} THEN BOOLEAN ELSE {FALSE}
    /\ Fresh

Files == \E s \in Slot : \/ PasteLink(s) \/ Clear(s)
                         \/ \E f \in File : HandleFile(s, f) \/ UploadEnds(s, f) \/ UploadFails(s, f)

Recorder ==
    \/ ToggleOwnAudio \/ PickVoice \/ MyVoice \/ StartRecording \/ StopRecording
    \/ CloseRecorder \/ DiscardRecording \/ SaveClone \/ CloneEnds

Stories ==
    \/ \E s \in Slot : AddScene(s) \/ RemoveScene(s) \/ AddDialogueLine(s) \/ RemoveDialogueLine(s)
                       \/ \E c \in Character \cup {Null} : UpdateDialogueLine(s, c)
    \/ \E c \in Character : AddCharacter(c) \/ RemoveCharacter(c)
    \/ LoadExamples

Slideshow ==
    \/ \E b \in 1 .. 2 : AddFiles(b) \/ SlideFails(b) \/ \E f \in File : SlideUploaded(b, f)
    \/ RemoveSlide \/ MoveSlide

Button == HandleSubmit \/ NextUpload \/ UploadsFail \/ UploadsDone \/ PageMoves

FormNext == Files \/ Write \/ Dictate \/ Dictated \/ Recorder \/ Stories \/ Slideshow \/ Button

FormSpec == FormInit /\ [][FormNext]_formVars

------------------------------------------------------------------------------
(* Properties.                                                             *)

\* What the page sends for a slot is what the slot showed when the button was pressed, or
\* nothing if its upload failed - in every form and in every order of picking, clearing,
\* uploading and pressing, unless the slot was changed under an upload of its own, which the
\* forms do not guard against (uploadedUrl, imageUrl, docURL).
ShownIsSent ==
    last # Null => \A s \in Slot \ last.excused :
        last.sent[s] = last.shown[s] \/ (s \in last.lost /\ last.sent[s] = Null)

\* A form that requires a file never submits, and the user is never charged, without the
\* address of one, although uploads fail and the form changes while they last; and the user's
\* own voice is asked for only once it was cloned ("the backend uses the user's stored clone").
InputPaidFor ==
    last # Null => /\ \A s \in last.needs : last.sent[s] # Null
                   /\ last.mine => rec.clone

\* Every line of a script is spoken by the narrator or by a character that is still there.
DialogueHasSpeaker ==
    \A s \in Slot : \A i \in DOMAIN cast.lines[s] : cast.lines[s][i] \in cast.who \cup {Null}

\* Batches that overlap never add more slides than the tool takes.
SlidesFit ==
    /\ Len(slides) <= MaxSlides
    /\ last # Null /\ form = "VideoSlideshow" => last.count \in MinSlides .. MaxSlides

\* A story stays one the tool can make: characters are removed and examples loaded while lines
\* name them, and slides arrive in batches that each saw room (removeCharacter, addFiles).
StoryConsistent == DialogueHasSpeaker /\ SlidesFit

------------------------------------------------------------------------------
(* The inductive invariant.                                                *)

Address == File \cup {Null, "link"}

SlotState == [file : File \cup {Null}, url : File \cup {Null}, link : BOOLEAN, busy : BOOLEAN,
              failed : BOOLEAN, crossed : BOOLEAN]

Recording == [open : BOOLEAN, on : BOOLEAN, blob : BOOLEAN, cloning : BOOLEAN, clone : BOOLEAN,
              mine : BOOLEAN]

Casting == [who : SUBSET Character, loaded : BOOLEAN, lines : [Slot -> Seq(Character \cup {Null})]]

Press == [needs : SUBSET Slot, mine : BOOLEAN, excused : SUBSET Slot, lost : SUBSET Slot,
          count : Nat]

Submission == [todo : SUBSET Slot, shown : [Slot -> Address], sent : [Slot -> Address],
               pressed : Press]

Payload == [shown : [Slot -> Address], sent : [Slot -> Address], needs : SUBSET Slot,
            mine : BOOLEAN, excused : SUBSET Slot, lost : SUBSET Slot, count : Nat]

\* Every variable has its type (state of the templates).
FormTypeOK ==
    /\ form \in Forms /\ auto \in BOOLEAN
    /\ slot \in [Slot -> SlotState] /\ flying \subseteq Slot \X File
    /\ text \in BOOLEAN /\ mic \in BOOLEAN /\ own \in BOOLEAN
    /\ rec \in Recording
    /\ scenes \subseteq Slot /\ cast \in Casting
    /\ slides \in Seq(File) /\ adding \in [1 .. 2 -> Nat] /\ busy \in BOOLEAN
    /\ chain \in Submission \cup {Null}
    /\ page \in {"idle", "modal", "generating"}
    /\ last \in Payload \cup {Null}

\* What the slots of a form that uploads as files are picked know of each other and of the
\* uploads, unless they were changed under one.
EarlySlot(s) ==
    IF slot[s].file = Null THEN slot[s].url = Null /\ \A f \in File : <<s, f>> \notin flying
    ELSE IF slot[s].busy
         THEN slot[s].url = Null /\ \A f \in File : <<s, f>> \in flying => f = slot[s].file
         ELSE /\ slot[s].url = slot[s].file \/ (slot[s].url = Null /\ slot[s].failed)
              /\ \A f \in File : <<s, f>> \notin flying

\* Forms that upload when the button is pressed keep no address, but that of the file shown.
LateSlot(s) == slot[s].url = Null \/ (Handlers.caches /\ slot[s].url = slot[s].file)

FieldInv(s) ==
    /\ slot[s].file # Null => ~slot[s].link
    /\ ~slot[s].crossed => IF Handlers.early THEN EarlySlot(s) ELSE LateSlot(s)

\* What is needed is sent, or will be uploaded; what is uploaded is what was shown, and still is
\* in a scene that keeps the address.
ChainInv ==
    chain # Null =>
        /\ ~Handlers.early
        /\ chain.pressed.mine => rec.clone
        /\ \A s \in Slot :
              /\ s \in chain.todo => chain.shown[s] \in File
              /\ s \in chain.pressed.needs => chain.sent[s] # Null \/ s \in chain.todo
              /\ s \notin chain.pressed.excused =>
                     \/ chain.sent[s] = chain.shown[s] \/ s \in chain.todo
              /\ Handlers.caches /\ s \in chain.todo \cap scenes /\ ~slot[s].crossed =>
                     slot[s].file = chain.shown[s]

FormInv ==
    /\ FormTypeOK
    /\ ~Handlers.early => flying = {} /\ \A s \in Slot : ~Handlers.caches => slot[s].url = Null
    /\ \A s \in Slot : FieldInv(s)
    /\ ChainInv
    /\ rec.mine => rec.clone
    /\ ShownIsSent /\ InputPaidFor /\ StoryConsistent
==============================================================================
