------------------------------ MODULE StudioChat ------------------------------
(***************************************************************************)
(* The three chats of the web studio: the tab of the studio page, whose    *)
(* modes share one input line, the overlay (NexusChatUI) and the page of   *)
(* its own (NexusChat).  Threads, the draft with its attachment, the       *)
(* message in flight, the history restored on opening, session ids, the    *)
(* microphone; and the sessions the server keeps for each tool.            *)
(***************************************************************************)
EXTENDS Integers, Sequences, SequencesExt

CONSTANTS
    None,
    Surfaces,        \* the chats looked at
    Mode,            \* modes of the tab; each names the tool its history is asked for
    Slug,            \* tool the messages of each mode are sent to
    Visited,         \* tools that may have been asked on an earlier visit
    File,            \* files the user may attach
    Limit,           \* messages a day
    \* bounds
    MaxMessages, MaxSessions

ASSUME ChatAssumption ==
    /\ Surfaces \subseteq {"tab", "overlay", "page"}
    /\ Mode # {} /\ DOMAIN Slug = Mode /\ Visited \subseteq {Slug[m] : m \in Mode}
    \* a mode named like a tool is sent to that tool, as "general" is
    /\ \A m, n \in Mode : Slug[n] = m => Slug[m] = m
    /\ "general" \in Mode => Slug["general"] = "general"
    /\ None \notin File
    /\ {Limit, MaxMessages, MaxSessions} \subseteq Nat

VARIABLES
    surface,         \* which chat this is
    mode,            \* the mode shown
    thread,          \* bubbles of each mode below the welcome
    draft,           \* the input line and its attachment
    flight,          \* the message being answered, 0 for none
    session,         \* session id kept for each mode: None for one made up by the client
    sent,            \* every message sent
    history,         \* the request for the history of the chat
    told,            \* messages used, as last told by the server
    voice,           \* the microphone
    active,          \* server: the active session of each tool, 0 for none
    opened           \* server: sessions of each tool opened so far

vars == <<surface, mode, thread, draft, flight, session, sent, history, told, voice, active,
          opened>>
server == <<active, opened>>

Tools == Mode \cup {Slug[m] : m \in Mode}

\* Bubbles of this visit, by message; 0 stands for what an earlier visit left.
User(n) == [by |-> "user", of |-> n]
Nexus(n) == [by |-> "nexus", of |-> n]
Restored == <<User(0), Nexus(0)>>

\* seen: the attachment the tab's send handler was built with.
Empty == [text |-> FALSE, chip |-> None, url |-> None, link |-> FALSE, upload |-> None,
          seen |-> None]

Silent == [state |-> "idle", recording |-> FALSE, fades |-> FALSE]

\* Earlier visits may have left a session active, and its id in the browser's storage.
Init ==
    /\ surface \in Surfaces
    /\ mode \in Mode /\ (surface = "page" => Slug[mode] = mode)
    /\ thread = [m \in Mode |-> <<>>]
    /\ draft = Empty
    /\ flight = 0
    /\ sent = <<>>
    /\ history = [state |-> "asked", had |-> {}]
    /\ told = 0
    /\ voice = Silent
    /\ opened = [k \in Tools |-> IF k \in Visited THEN 1 ELSE 0]
    /\ \E live, kept \in SUBSET Visited :
          /\ active = [k \in Tools |-> IF k \in live THEN 1 ELSE 0]
          /\ session = [m \in Mode |-> IF Slug[m] \in kept THEN <<Slug[m], 1>> ELSE None]

------------------------------------------------------------------------------
(* The draft.                                                              *)

\* The overlay and the page close their input at the limit and while the microphone listens.
Closed == surface # "tab" /\ (told >= Limit \/ voice.state = "listening")

\* The tab's handler is built anew when the text, the mode, the session or the flight changes,
\* with the attachment there is by then; an attachment of its own does not.
Rebuilt(d) == IF surface = "tab" THEN [d EXCEPT !.seen = d.url] ELSE d

DraftOnly == UNCHANGED <<surface, mode, thread, flight, session, sent, history, told, voice, server>>

Type ==
    /\ ~Closed /\ (surface = "tab" => flight = 0)
    /\ draft' = Rebuilt([draft EXCEPT !.text = TRUE])
    /\ DraftOnly

\* The tab's suggestions only fill the input, while there is nothing but the welcome.
TakeSuggestion ==
    /\ surface = "tab" /\ history.state = "done" /\ thread[mode] = <<>> /\ flight = 0
    /\ draft' = Rebuilt([draft EXCEPT !.text = TRUE])
    /\ DraftOnly

\* Asks in the user's name, once there is something to sum up; the welcome counts.
HandleSummariseChat ==
    /\ surface = "tab" /\ Len(thread[mode]) >= 3
    /\ draft' = Rebuilt([draft EXCEPT !.text = TRUE])
    /\ DraftOnly

\* The same file chosen again is a file of its own.
Fresh(f) ==
    /\ f \notin {draft.chip, draft.url, draft.upload, draft.seen}
    /\ \A n \in DOMAIN sent : sent[n].url # f

HandleFileSelect(f) ==
    /\ ~Closed /\ draft.upload = None /\ flight = 0 /\ Fresh(f)
    /\ draft' = [draft EXCEPT !.chip = f, !.upload = f, !.link = FALSE]
    /\ DraftOnly

UploadEnds ==
    /\ draft.upload # None
    /\ \/ draft' = [draft EXCEPT !.url = draft.upload, !.upload = None]
       \/ draft' = [draft EXCEPT !.chip = None, !.upload = None,
                                 !.url = IF surface = "tab" THEN @ ELSE None]
    /\ DraftOnly

\* The tab hides the cross while it uploads; the others do not.
ClearAttachment ==
    /\ draft.chip # None \/ draft.link
    /\ surface = "tab" => draft.upload = None
    /\ draft' = [draft EXCEPT !.chip = None, !.url = None, !.link = FALSE]
    /\ DraftOnly

\* The link row stays open, and takes effect, while a file uploads.
ConfirmLink ==
    /\ surface # "tab" /\ ~draft.link
    /\ draft' = [draft EXCEPT !.link = TRUE, !.chip = None, !.url = None]
    /\ DraftOnly

------------------------------------------------------------------------------
(* Sending and answering.                                                  *)

\* The attachment that goes out: the tab's handler knows the one it was built with.
Outgoing == IF surface = "tab" THEN draft.seen ELSE draft.url

\* The Enter key asks the handler only, which in the tab does not wait for an upload.
MaySend(text) ==
    /\ flight = 0 /\ Len(sent) < MaxMessages
    /\ text \/ (surface = "tab" /\ draft.seen # None)
    /\ surface # "tab" => draft.upload = None

\* The attachment of a message is left behind for the next.
SentMutant == Rebuilt([draft EXCEPT !.text = FALSE, !.chip = None])

\* Nothing stays attached but a file still on its way.
Sent == [Empty EXCEPT !.upload = draft.upload]

\* Only the page prepares the bubble of its answer.
Send(text) ==
    /\ MaySend(text)
    /\ LET n == Len(sent) + 1 IN
          /\ sent' = Append(sent, [mode |-> mode, url |-> Outgoing, session |-> session[mode]])
          /\ flight' = n
          /\ thread' = [thread EXCEPT ![mode] =
                @ \o (IF surface = "page" THEN <<User(n), Nexus(n)>> ELSE <<User(n)>>)]
    /\ draft' = Sent
    /\ UNCHANGED <<surface, mode, session, history, told, voice, server>>

HandleSend == ~Closed /\ Send(draft.text)

\* A suggestion of the overlay or the page is sent at once, the draft's attachment with it.
SendSuggestion == surface # "tab" /\ thread[mode] = <<>> /\ Send(TRUE)

\* A session id made up by the client is no UUID: the server takes the tool's active session,
\* or opens one.
ResolveOrCreateSession(id, tool) ==
    IF id # None THEN id
    ELSE IF active[tool] # 0 THEN <<tool, active[tool]>> ELSE <<tool, opened[tool] + 1>>

Serve(id, tool) ==
    IF id # None \/ active[tool] # 0 THEN UNCHANGED server
    ELSE /\ opened[tool] < MaxSessions
         /\ opened' = [opened EXCEPT ![tool] = @ + 1]
         /\ active' = [active EXCEPT ![tool] = opened[tool] + 1]

ServedIn(n) == ResolveOrCreateSession(sent[n].session, Slug[sent[n].mode])

\* The answer goes to the mode that is shown when it comes.
AnswerModeMutant(n) == mode

\* The answer goes to the mode the question was asked in, whichever is shown now.
AnswerMode(n) == sent[n].mode

\* The page sends a token nobody stores: the server knows no user.
Authenticated == surface # "page"

\* The server's session replaces the one the message was sent with.
Answer ==
    /\ flight # 0 /\ Authenticated
    /\ Serve(sent[flight].session, Slug[sent[flight].mode])
    /\ thread' = [thread EXCEPT ![AnswerMode(flight)] = Append(@, Nexus(flight))]
    /\ session' = IF surface = "tab" /\ ServedIn(flight) = sent[flight].session THEN session
                  ELSE [session EXCEPT ![AnswerMode(flight)] = ServedIn(flight)]
    /\ told' = IF told < Limit THEN told + 1 ELSE told
    /\ flight' = 0
    /\ draft' = Rebuilt(draft)
    /\ UNCHANGED <<surface, mode, sent, history, voice>>

\* An apology instead of the answer, in its place; the server may have answered all the same.
AnswerFails ==
    /\ flight # 0
    /\ \/ /\ Authenticated
          /\ Serve(sent[flight].session, Slug[sent[flight].mode])
       \/ UNCHANGED server
    /\ thread' = IF surface = "page" THEN thread
                 ELSE [thread EXCEPT ![AnswerMode(flight)] = Append(@, Nexus(flight))]
    /\ flight' = 0
    /\ draft' = Rebuilt(draft)
    /\ UNCHANGED <<surface, mode, session, sent, history, told, voice>>

------------------------------------------------------------------------------
(* Opening, clearing and switching.                                        *)

\* The tool the history of a mode is asked for: the tab gives the mode itself.
HistoryKey(m) == IF surface = "tab" THEN m ELSE Slug[m]

\* The server looks for the active sessions; the answer is on its way from there on.
GetChatHistory ==
    /\ history.state = "asked"
    /\ history' = [state |-> "served", had |-> {<<k, active[k]>> : k \in {t \in Tools : active[t] # 0}}]
    /\ UNCHANGED <<surface, mode, thread, draft, flight, session, sent, told, voice, server>>

PristineMutant(m) == TRUE

\* No bubble but the welcome.
Pristine(m) == thread[m] = <<>>

\* Sessions and threads of the modes the server remembers are replaced; only the overlay spares
\* a thread that has begun.
LoadHistory ==
    /\ history.state = "served"
    /\ history' = [history EXCEPT !.state = "done"]
    /\ LET Of(m) == {h \in history.had : h[1] = HistoryKey(m)}
           R == {m \in Mode : Of(m) # {} /\ (surface = "tab" \/ m = mode)} IN
          /\ session' = [m \in Mode |-> IF m \in R THEN CHOOSE h \in Of(m) : TRUE ELSE session[m]]
          /\ thread' = [m \in Mode |->
                IF m \in R /\ (surface = "overlay" => Pristine(m)) THEN Restored ELSE thread[m]]
    /\ draft' = Rebuilt(draft)
    /\ UNCHANGED <<surface, mode, flight, sent, told, voice, server>>

HistoryFails ==
    /\ history.state # "done"
    /\ history' = [history EXCEPT !.state = "done"]
    /\ UNCHANGED <<surface, mode, thread, draft, flight, session, sent, told, voice, server>>

SwitchMode(m) ==
    /\ surface = "tab" /\ m # mode
    /\ mode' = m
    /\ draft' = Rebuilt(draft)
    /\ UNCHANGED <<surface, thread, flight, session, sent, history, told, voice, server>>

\* "New chat": the thread of the mode is emptied and a fresh id is made up.
HandleClearChat ==
    /\ surface = "tab"
    /\ thread' = [thread EXCEPT ![mode] = <<>>]
    /\ session' = [session EXCEPT ![mode] = None]
    /\ draft' = Rebuilt(draft)
    /\ UNCHANGED <<surface, mode, flight, sent, history, told, voice, server>>

\* The server closes a session that was idle for long.
ExpireSession(k) ==
    /\ active[k] # 0 /\ flight = 0
    /\ active' = [active EXCEPT ![k] = 0]
    /\ UNCHANGED <<surface, mode, thread, draft, flight, session, sent, history, told, voice, opened>>

------------------------------------------------------------------------------
(* The microphone.  The tab records and has the server transcribe; the     *)
(* others use the browser's recognition (useSpeechToText).                 *)

VoiceOnly == UNCHANGED <<surface, mode, thread, flight, session, sent, history, told>>

MicOpen == flight = 0 /\ IF surface = "tab" THEN draft.upload = None ELSE told < Limit

HandleMicClick ==
    /\ MicOpen /\ voice.state \in {"idle", "error"} /\ ~voice.recording
    /\ voice' = [voice EXCEPT !.state = "listening", !.recording = TRUE]
    /\ VoiceOnly /\ UNCHANGED <<draft, server>>

\* What was said goes behind what was typed.
Heard == Rebuilt([draft EXCEPT !.text = TRUE])

\* A recognition ends, with words or without.
SpeechEnds ==
    /\ surface # "tab" /\ voice.recording
    /\ voice' = [voice EXCEPT !.state = "idle", !.recording = FALSE]
    /\ draft' \in {draft, Heard}
    /\ VoiceOnly /\ UNCHANGED server

\* An error is shown until a timer clears it, or the end of the same recognition does.
SpeechError ==
    /\ surface # "tab" /\ voice.recording
    /\ voice' = [voice EXCEPT !.state = "error", !.fades = TRUE]
    /\ VoiceOnly /\ UNCHANGED <<draft, server>>

ErrorFades ==
    /\ voice.fades
    /\ voice' = [voice EXCEPT !.state = "idle", !.fades = FALSE]
    /\ VoiceOnly /\ UNCHANGED <<draft, server>>

StopRecording ==
    /\ MicOpen /\ surface = "tab" /\ voice.state = "listening"
    /\ voice' = [voice EXCEPT !.state = "processing"]
    /\ VoiceOnly /\ UNCHANGED <<draft, server>>

\* The recording is transcribed by a chat message nobody sees, in the session of the mode.
Transcribed ==
    /\ surface = "tab" /\ voice.state = "processing"
    /\ voice' = Silent
    /\ \/ draft' = Heard /\ \E m \in Mode : Serve(session[m], "general")
       \/ UNCHANGED <<draft, server>>
    /\ VoiceOnly

Next ==
    \/ Type \/ TakeSuggestion \/ HandleSummariseChat \/ UploadEnds \/ ClearAttachment \/ ConfirmLink
    \/ \E f \in File : HandleFileSelect(f)
    \/ HandleSend \/ SendSuggestion \/ Answer \/ AnswerFails
    \/ GetChatHistory \/ LoadHistory \/ HistoryFails \/ HandleClearChat
    \/ \E m \in Mode : SwitchMode(m)
    \/ \E k \in Tools : ExpireSession(k)
    \/ HandleMicClick \/ SpeechEnds \/ SpeechError \/ ErrorFades \/ StopRecording \/ Transcribed

Spec == Init /\ [][Next]_vars

------------------------------------------------------------------------------
(* Properties.                                                             *)

Bubble == [by : {"user", "nexus"}, of : Nat]

Draft == [text : BOOLEAN, link : BOOLEAN, chip : File \cup {None}, url : File \cup {None},
          upload : File \cup {None}, seen : File \cup {None}]

SessionId == {None} \cup Tools \X Nat

Message == [mode : Mode, url : File \cup {None}, session : SessionId]

\* Every variable has its type (state of StudioPageInner, NexusChatUI and NexusChat).
TypeOK ==
    /\ surface \in Surfaces /\ mode \in Mode
    /\ thread \in [Mode -> Seq(Bubble)]
    /\ draft \in Draft
    /\ flight \in 0 .. Len(sent)
    /\ session \in [Mode -> SessionId]
    /\ sent \in Seq(Message)
    /\ history \in [state : {"asked", "served", "done"}, had : SUBSET (Tools \X Nat)]
    /\ told \in 0 .. Limit
    /\ voice \in [state : {"idle", "listening", "processing", "error"}, recording : BOOLEAN,
                  fades : BOOLEAN]
    /\ active \in [Tools -> Nat] /\ opened \in [Tools -> Nat]

\* However the user switches while Nexus thinks, a question and its answer stand in the thread
\* of the mode the question was asked in, and nowhere else; nor does a mode take over the
\* session of another tool.
AnswerInItsThread ==
    \A m \in Mode :
        /\ \A b \in ToSet(thread[m]) : b.of # 0 => sent[b.of].mode = m
        /\ session[m] # None => session[m][1] = Slug[m]

\* A file goes out with one message at most: what a message took along is not sent again with
\* the next, whenever its upload ended.
FileSentOnce ==
    \A i, j \in DOMAIN sent : sent[i].url # None /\ sent[i].url = sent[j].url => i = j

\* The overlay never takes a bubble back: history that comes late leaves a thread that has begun
\* alone (its comment: "leave their thread alone rather than clobbering it").
OverlayKeepsThread ==
    [][surface = "overlay" => \A m \in Mode : IsPrefix(thread[m], thread'[m])]_vars

------------------------------------------------------------------------------
(* The inductive invariant.                                                *)

\* A file on its way up is no other of the draft, and nothing of the draft was sent before.
FileInv ==
    /\ draft.upload # None => draft.upload \notin {draft.url, draft.seen}
    /\ \A n \in DOMAIN sent :
          sent[n].url # None => sent[n].url \notin {draft.url, draft.upload, draft.seen}
    /\ FileSentOnce

Asked == {Slug[m] : m \in Mode}

\* Every session, kept or sent along, is one of the tool its mode is sent to; the server has
\* sessions, and remembers them in a history, of tools that are sent to only.
SessionInv ==
    /\ \A m \in Mode : session[m] # None => session[m][1] = Slug[m]
    /\ \A n \in DOMAIN sent : sent[n].session # None => sent[n].session[1] = Slug[sent[n].mode]
    /\ \A k \in Tools : active[k] # 0 => k \in Asked
    /\ \A h \in history.had : h[1] \in Asked

\* A bubble of this visit belongs to a message that was sent, in its mode.
BubbleInv ==
    \A m \in Mode : \A i \in DOMAIN thread[m] :
        thread[m][i].of # 0 => thread[m][i].of \in DOMAIN sent /\ sent[thread[m][i].of].mode = m

ChatInv == TypeOK /\ FileInv /\ SessionInv /\ BubbleInv
==============================================================================
