--------------------------- MODULE StudioChatProofs ---------------------------
(***************************************************************************)
(* Proofs about StudioChat: for any modes, tools and files, and any number *)
(* of messages and sessions.                                               *)
(***************************************************************************)
EXTENDS StudioChat, TLAPS

LEMMA Constants ==
  /\ None \notin File /\ {Limit, MaxMessages, MaxSessions} \subseteq Nat
  /\ \A m \in Mode : Slug[m] \in Tools /\ Slug[m] \in Asked
  /\ Mode \subseteq Tools /\ Asked \subseteq Tools
  /\ \A m \in Mode : m \in Asked => Slug[m] = m
  /\ "general" \in Tools => "general" \in Asked
  BY ChatAssumption DEF Tools, Asked

------------------------------------------------------------------------------
(* The draft.                                                              *)

LEMMA RebuiltFields ==
  ASSUME NEW d \in Draft
  PROVE  /\ Rebuilt(d) \in Draft
         /\ Rebuilt(d).url = d.url /\ Rebuilt(d).upload = d.upload
         /\ Rebuilt(d).seen \in {d.url, d.seen}
  BY DEF Rebuilt, Draft

\* No file comes to the draft that was not there, and none is sent.
LEMMA NoNewFile ==
  ASSUME FileInv, UNCHANGED sent,
         draft'.upload # None => draft'.upload \notin {draft'.url, draft'.seen},
         {draft'.url, draft'.upload, draft'.seen}
             \subseteq {draft.url, draft.upload, draft.seen, None}
  PROVE  FileInv'
  BY DEF FileInv, FileSentOnce

\* The draft is built anew, if at all, with the files it has.
LEMMA SameFiles ==
  ASSUME TypeOK, FileInv, UNCHANGED sent, NEW d \in Draft,
         d.url = draft.url, d.upload = draft.upload, d.seen = draft.seen,
         draft' \in {draft, d, Rebuilt(d)}
  PROVE  draft' \in Draft /\ FileInv'
  <1>1. draft \in Draft
    BY DEF TypeOK
  <1>2. draft' \in Draft /\ draft'.url = draft.url /\ draft'.upload = draft.upload
        /\ draft'.seen \in {draft.url, draft.seen}
    BY <1>1, RebuiltFields
  <1>3. QED
    BY <1>2, NoNewFile DEF FileInv

LEMMA DraftStep ==
  ASSUME ChatInv, DraftOnly, draft' \in Draft, FileInv'
  PROVE  ChatInv'
  BY DEF ChatInv, TypeOK, SessionInv, BubbleInv, DraftOnly, server

LEMMA TypingStep ==
  ASSUME ChatInv, Type \/ TakeSuggestion \/ HandleSummariseChat
  PROVE  ChatInv'
  <1> DEFINE d == [draft EXCEPT !.text = TRUE]
  <1>1. d \in Draft /\ d.url = draft.url /\ d.upload = draft.upload /\ d.seen = draft.seen
    BY DEF ChatInv, TypeOK, Draft
  <1>2. draft' = Rebuilt(d) /\ DraftOnly
    BY DEF Type, TakeSuggestion, HandleSummariseChat
  <1> HIDE DEF d
  <1>3. draft' \in Draft /\ FileInv'
    BY <1>1, <1>2, SameFiles DEF ChatInv, DraftOnly
  <1>4. QED
    BY <1>2, <1>3, DraftStep

LEMMA SelectStep ==
  ASSUME ChatInv, NEW f \in File, HandleFileSelect(f)
  PROVE  ChatInv'
  <1>1. draft' \in Draft /\ draft'.url = draft.url /\ draft'.upload = f /\ draft'.seen = draft.seen
    BY DEF HandleFileSelect, ChatInv, TypeOK, Draft
  <1>2. FileInv'
    BY <1>1 DEF HandleFileSelect, Fresh, DraftOnly, ChatInv, FileInv, FileSentOnce
  <1>3. QED
    BY <1>1, <1>2, DraftStep DEF HandleFileSelect

LEMMA AttachmentStep ==
  ASSUME ChatInv, UploadEnds \/ ClearAttachment \/ ConfirmLink
  PROVE  ChatInv'
  <1>1. DraftOnly
    BY DEF UploadEnds, ClearAttachment, ConfirmLink
  <1>2. /\ draft' \in Draft
        /\ draft'.upload # None => draft'.upload \notin {draft'.url, draft'.seen}
        /\ {draft'.url, draft'.upload, draft'.seen}
               \subseteq {draft.url, draft.upload, draft.seen, None}
    <2>1. draft \in Draft /\ (draft.upload # None => draft.upload \notin {draft.url, draft.seen})
      BY DEF ChatInv, TypeOK, FileInv
    <2>2. CASE UploadEnds
      <3>1. draft' \in Draft /\ draft'.upload = None /\ draft'.seen = draft.seen
            /\ draft'.url \in {draft.upload, draft.url, None}
        <4>1. CASE draft' = [draft EXCEPT !.url = draft.upload, !.upload = None]
          BY <2>1, <4>1 DEF Draft
        <4>2. ASSUME NEW u \in {draft.url, None},
                     draft' = [draft EXCEPT !.chip = None, !.upload = None, !.url = u]
              PROVE  /\ draft' \in Draft /\ draft'.upload = None /\ draft'.seen = draft.seen
                     /\ draft'.url \in {draft.upload, draft.url, None}
          BY <2>1, <4>2 DEF Draft
        <4>3. QED
          BY <2>2, <4>1, <4>2 DEF UploadEnds
      <3>2. QED
        BY <3>1
    <2>3. CASE ClearAttachment
      BY <2>1, <2>3 DEF ClearAttachment, Draft
    <2>4. CASE ConfirmLink
      BY <2>1, <2>4 DEF ConfirmLink, Draft
    <2>5. QED
      BY <2>2, <2>3, <2>4
  <1>3. FileInv'
    BY <1>1, <1>2, NoNewFile DEF ChatInv, DraftOnly
  <1>4. QED
    BY <1>1, <1>2, <1>3, DraftStep

------------------------------------------------------------------------------
(* Sending and answering.                                                  *)

LEMMA SendStep ==
  ASSUME ChatInv, NEW text, Send(text)
  PROVE  ChatInv'
  <1> DEFINE msg == [mode |-> mode, url |-> Outgoing, session |-> session[mode]]
             n == Len(sent) + 1
             tail == IF surface = "page" THEN <<User(n), Nexus(n)>> ELSE <<User(n)>>
  <1>1. draft \in Draft /\ sent \in Seq(Message) /\ thread \in [Mode -> Seq(Bubble)]
        /\ mode \in Mode /\ session \in [Mode -> SessionId]
    BY DEF ChatInv, TypeOK
  <1>2. /\ draft' \in Draft /\ draft'.url = None /\ draft'.seen = None
        /\ draft'.upload = draft.upload
    BY <1>1 DEF Send, Sent, Empty, Draft
  <1>3. msg \in Message /\ msg.mode = mode /\ msg.session = session[mode]
        /\ msg.url = Outgoing /\ Outgoing \in {draft.url, draft.seen}
    BY <1>1 DEF Message, Outgoing, Draft
  <1>4. sent' = Append(sent, msg) /\ flight' = n
        /\ thread' = [thread EXCEPT ![mode] = @ \o tail]
        /\ UNCHANGED <<surface, mode, session, history, told, voice, active, opened>>
    BY DEF Send, server
  <1>5. tail \in Seq(Bubble) /\ \A i \in DOMAIN tail : tail[i].of = n
    <2>1. n \in Nat
      BY <1>1
    <2> HIDE DEF n
    <2>2. User(n) \in Bubble /\ Nexus(n) \in Bubble /\ User(n).of = n /\ Nexus(n).of = n
      BY <2>1 DEF Bubble, User, Nexus
    <2>3. QED
      BY <2>2
  <1> HIDE DEF msg, tail
  <1>6. /\ sent' \in Seq(Message) /\ Len(sent') = n /\ sent'[n] = msg
        /\ \A i \in DOMAIN sent : i \in DOMAIN sent' /\ sent'[i] = sent[i]
        /\ \A i \in DOMAIN sent' : i \in DOMAIN sent \/ i = n
    BY <1>1, <1>3, <1>4
  <1>7. /\ thread' \in [Mode -> Seq(Bubble)]
        /\ \A m \in Mode : \A i \in DOMAIN thread'[m] :
              \/ i \in DOMAIN thread[m] /\ thread'[m][i] = thread[m][i]
              \/ m = mode /\ thread'[m][i].of = n
    <2>1. thread[mode] \o tail \in Seq(Bubble)
      BY <1>1, <1>5
    <2>2. \A i \in DOMAIN (thread[mode] \o tail) :
              \/ i \in DOMAIN thread[mode] /\ (thread[mode] \o tail)[i] = thread[mode][i]
              \/ (thread[mode] \o tail)[i].of = n
      <3>1. thread[mode] \in Seq(Bubble)
        BY <1>1
      <3>2. QED
        BY <3>1, <1>5
    <2>3. QED
      BY <1>1, <1>4, <2>1, <2>2
  <1>8. TypeOK'
    BY <1>2, <1>4, <1>6, <1>7 DEF ChatInv, TypeOK
  <1>9. FileInv'
    BY <1>2, <1>3, <1>6 DEF ChatInv, FileInv, FileSentOnce
  <1>10. SessionInv'
    BY <1>1, <1>3, <1>4, <1>6 DEF ChatInv, SessionInv
  <1>11. BubbleInv'
    BY <1>1, <1>3, <1>6, <1>7 DEF ChatInv, BubbleInv
  <1>12. QED
    BY <1>8, <1>9, <1>10, <1>11 DEF ChatInv

\* The server opens sessions of tools that are sent to.
LEMMA ServeStep ==
  ASSUME ChatInv, NEW id, NEW k, k \in Tools => k \in Asked, Serve(id, k)
  PROVE  /\ active' \in [Tools -> Nat] /\ opened' \in [Tools -> Nat]
         /\ \A t \in Tools : active'[t] # 0 => t \in Asked
  <1>1. active \in [Tools -> Nat] /\ opened \in [Tools -> Nat]
        /\ \A t \in Tools : active[t] # 0 => t \in Asked
    BY DEF ChatInv, TypeOK, SessionInv
  <1>2. CASE UNCHANGED server
    BY <1>1, <1>2 DEF server
  <1>3. CASE /\ opened' = [opened EXCEPT ![k] = @ + 1]
             /\ active' = [active EXCEPT ![k] = opened[k] + 1]
    <2>1. CASE k \in Tools
      <3>1. k \in Asked /\ opened[k] + 1 \in Nat
        BY <1>1, <2>1
      <3>2. QED
        BY <1>1, <1>3, <3>1
    <2>2. CASE k \notin Tools
      <3>1. active' = active /\ opened' = opened
        BY <1>1, <1>3, <2>2
      <3>2. QED
        BY <1>1, <3>1
    <2>3. QED
      BY <2>1, <2>2
  <1>4. QED
    BY <1>2, <1>3 DEF Serve

\* The session a message was answered in is one of the tool it was sent to.
LEMMA ServedSession ==
  ASSUME ChatInv, flight # 0
  PROVE  /\ flight \in DOMAIN sent /\ sent[flight].mode \in Mode
         /\ ServedIn(flight) \in SessionId
         /\ ServedIn(flight) # None => ServedIn(flight)[1] = Slug[sent[flight].mode]
  <1>1. flight \in DOMAIN sent /\ sent[flight] \in Message
    BY DEF ChatInv, TypeOK
  <1>2. sent[flight].mode \in Mode /\ sent[flight].session \in SessionId
    BY <1>1 DEF Message
  <1> DEFINE k == Slug[sent[flight].mode]
  <1>3. k \in Tools /\ active[k] \in Nat /\ opened[k] + 1 \in Nat
    <2>1. k \in Tools
      BY <1>2, Constants
    <2>2. QED
      BY <2>1 DEF ChatInv, TypeOK
  <1>4. sent[flight].session # None => sent[flight].session[1] = k
    BY <1>1 DEF ChatInv, SessionInv
  <1> HIDE DEF k
  <1>5. ServedIn(flight) \in {sent[flight].session, <<k, active[k]>>, <<k, opened[k] + 1>>}
    BY DEF ServedIn, ResolveOrCreateSession, k
  <1>6. <<k, active[k]>> \in SessionId /\ <<k, opened[k] + 1>> \in SessionId
    BY <1>3 DEF SessionId
  <1>7. QED
    BY <1>1, <1>2, <1>4, <1>5, <1>6 DEF k

\* A bubble of the message in flight is put behind the thread of its mode, or none is.
LEMMA BubbleStep ==
  ASSUME ChatInv, flight # 0, UNCHANGED sent,
         thread' \in {thread, [thread EXCEPT ![AnswerMode(flight)] = Append(@, Nexus(flight))]}
  PROVE  thread' \in [Mode -> Seq(Bubble)] /\ BubbleInv'
  <1> DEFINE m == sent[flight].mode
  <1>1. flight \in DOMAIN sent /\ m \in Mode /\ thread \in [Mode -> Seq(Bubble)] /\ flight \in Nat
    BY ServedSession DEF ChatInv, TypeOK
  <1>2. Nexus(flight) \in Bubble /\ Nexus(flight).of = flight
    BY <1>1 DEF Nexus, Bubble
  <1>3. CASE thread' = thread
    BY <1>1, <1>3 DEF ChatInv, BubbleInv
  <1>4. CASE thread' = [thread EXCEPT ![m] = Append(@, Nexus(flight))]
    <2>1. thread[m] \in Seq(Bubble)
      BY <1>1
    <2>2. /\ Append(thread[m], Nexus(flight)) \in Seq(Bubble)
          /\ \A i \in DOMAIN Append(thread[m], Nexus(flight)) :
                \/ i \in DOMAIN thread[m] /\ Append(thread[m], Nexus(flight))[i] = thread[m][i]
                \/ Append(thread[m], Nexus(flight))[i] = Nexus(flight)
      BY <1>2, <2>1
    <2>3. thread' \in [Mode -> Seq(Bubble)]
      BY <1>1, <1>4, <2>2
    <2>4. \A t \in Mode : \A i \in DOMAIN thread'[t] :
              \/ i \in DOMAIN thread[t] /\ thread'[t][i] = thread[t][i]
              \/ t = m /\ thread'[t][i].of = flight
      BY <1>1, <1>2, <1>4, <2>2
    <2>5. QED
      BY <1>1, <2>3, <2>4 DEF ChatInv, BubbleInv
  <1>5. QED
    BY <1>3, <1>4 DEF AnswerMode

LEMMA AnswerStep ==
  ASSUME ChatInv, Answer
  PROVE  ChatInv'
  <1>1. flight # 0 /\ UNCHANGED <<surface, mode, sent, history, voice>> /\ flight' = 0
        /\ told' \in {told, told + 1} /\ (told < Limit \/ told' = told)
    BY DEF Answer
  <1>2. /\ flight \in DOMAIN sent /\ sent[flight].mode \in Mode
        /\ ServedIn(flight) \in SessionId
        /\ ServedIn(flight) # None => ServedIn(flight)[1] = Slug[sent[flight].mode]
    BY <1>1, ServedSession
  <1>3. thread' \in [Mode -> Seq(Bubble)] /\ BubbleInv'
    BY <1>1, BubbleStep DEF Answer
  <1>4. draft' \in Draft /\ FileInv'
    BY <1>1, SameFiles DEF Answer, ChatInv, TypeOK
  <1>5. /\ active' \in [Tools -> Nat] /\ opened' \in [Tools -> Nat]
        /\ \A t \in Tools : active'[t] # 0 => t \in Asked
    BY <1>2, ServeStep, Constants DEF Answer
  <1>6. /\ session' \in [Mode -> SessionId]
        /\ \A m \in Mode : session'[m] # None => session'[m][1] = Slug[m]
    <2>1. /\ session \in [Mode -> SessionId]
          /\ \A m \in Mode : session[m] # None => session[m][1] = Slug[m]
      BY DEF ChatInv, TypeOK, SessionInv
    <2>2. session' = session \/ session' = [session EXCEPT ![sent[flight].mode] = ServedIn(flight)]
      BY DEF Answer, AnswerMode
    <2>3. QED
      BY <1>2, <2>1, <2>2
  <1>7. told' \in 0 .. Limit
    BY <1>1, Constants DEF ChatInv, TypeOK
  <1>8. TypeOK'
    BY <1>1, <1>3, <1>4, <1>5, <1>6, <1>7 DEF ChatInv, TypeOK
  <1>9. SessionInv'
    BY <1>1, <1>5, <1>6 DEF ChatInv, SessionInv
  <1>10. QED
    BY <1>3, <1>4, <1>8, <1>9 DEF ChatInv

LEMMA AnswerFailsStep ==
  ASSUME ChatInv, AnswerFails
  PROVE  ChatInv'
  <1>1. flight # 0 /\ UNCHANGED <<surface, mode, session, sent, history, told, voice>> /\ flight' = 0
    BY DEF AnswerFails
  <1>2. thread' \in [Mode -> Seq(Bubble)] /\ BubbleInv'
    BY <1>1, BubbleStep DEF AnswerFails
  <1>3. draft' \in Draft /\ FileInv'
    BY <1>1, SameFiles DEF AnswerFails, ChatInv, TypeOK
  <1>4. /\ active' \in [Tools -> Nat] /\ opened' \in [Tools -> Nat]
        /\ \A t \in Tools : active'[t] # 0 => t \in Asked
    <2>1. CASE UNCHANGED server
      BY <2>1 DEF server, ChatInv, TypeOK, SessionInv
    <2>2. CASE Serve(sent[flight].session, Slug[sent[flight].mode])
      BY <1>1, <2>2, ServedSession, ServeStep, Constants
    <2>3. QED
      BY <2>1, <2>2 DEF AnswerFails
  <1>5. TypeOK'
    BY <1>1, <1>2, <1>3, <1>4 DEF ChatInv, TypeOK
  <1>6. SessionInv'
    BY <1>1, <1>4 DEF ChatInv, SessionInv
  <1>7. QED
    BY <1>2, <1>3, <1>5, <1>6 DEF ChatInv

------------------------------------------------------------------------------
(* Opening, clearing, switching; the microphone.                           *)

LEMMA HistoryStep ==
  ASSUME ChatInv, GetChatHistory \/ HistoryFails
  PROVE  ChatInv'
  <1>1. UNCHANGED <<surface, mode, thread, draft, flight, session, sent, told, voice, active, opened>>
    BY DEF GetChatHistory, HistoryFails, server
  <1>2. /\ history' \in [state : {"asked", "served", "done"}, had : SUBSET (Tools \X Nat)]
        /\ \A h \in history'.had : h[1] \in Asked
    <2>1. CASE GetChatHistory
      <3> DEFINE had == {<<k, active[k]>> : k \in {t \in Tools : active[t] # 0}}
      <3>1. had \in SUBSET (Tools \X Nat) /\ \A h \in had : h[1] \in Asked
        BY DEF ChatInv, TypeOK, SessionInv
      <3>2. history' = [state |-> "served", had |-> had]
        BY <2>1 DEF GetChatHistory
      <3> HIDE DEF had
      <3>3. QED
        BY <3>1, <3>2
    <2>2. CASE HistoryFails
      BY <2>2 DEF HistoryFails, ChatInv, TypeOK, SessionInv
    <2>3. QED
      BY <2>1, <2>2
  <1>3. TypeOK'
    BY <1>1, <1>2 DEF ChatInv, TypeOK
  <1>4. FileInv' /\ SessionInv' /\ BubbleInv'
    BY <1>1, <1>2 DEF ChatInv, FileInv, FileSentOnce, SessionInv, BubbleInv
  <1>5. QED
    BY <1>3, <1>4 DEF ChatInv

LEMMA RestoredBubbles == Restored \in Seq(Bubble) /\ \A i \in DOMAIN Restored : Restored[i].of = 0
  BY DEF Restored, User, Nexus, Bubble

LEMMA LoadStep ==
  ASSUME ChatInv, LoadHistory
  PROVE  ChatInv'
  <1> DEFINE Of(m) == {h \in history.had : h[1] = HistoryKey(m)}
             R == {m \in Mode : Of(m) # {} /\ (surface = "tab" \/ m = mode)}
  <1>1. /\ history.had \subseteq Tools \X Nat /\ \A h \in history.had : h[1] \in Asked
        /\ session \in [Mode -> SessionId] /\ thread \in [Mode -> Seq(Bubble)]
        /\ \A m \in Mode : session[m] # None => session[m][1] = Slug[m]
    BY DEF ChatInv, TypeOK, SessionInv
  <1>2. ASSUME NEW m \in Mode, NEW h \in Of(m) PROVE h \in SessionId /\ h[1] = Slug[m]
    BY <1>1, Constants DEF HistoryKey, SessionId
  <1>3. /\ UNCHANGED <<surface, mode, flight, sent, told, voice, active, opened>>
        /\ history' = [history EXCEPT !.state = "done"]
        /\ draft' = Rebuilt(draft)
    BY DEF LoadHistory, server
  <1>4. /\ session' \in [Mode -> SessionId]
        /\ \A m \in Mode : session'[m] # None => session'[m][1] = Slug[m]
    <2>1. session' = [m \in Mode |-> IF m \in R THEN CHOOSE h \in Of(m) : TRUE ELSE session[m]]
      BY DEF LoadHistory
    <2>2. ASSUME NEW m \in Mode, m \in R PROVE (CHOOSE h \in Of(m) : TRUE) \in Of(m)
      BY <2>2
    <2> HIDE DEF Of, R
    <2>3. QED
      BY <1>1, <1>2, <2>1, <2>2
  <1>5. /\ thread' \in [Mode -> Seq(Bubble)]
        /\ \A m \in Mode : thread'[m] \in {thread[m], Restored}
    BY <1>1, RestoredBubbles DEF LoadHistory
  <1>6. draft' \in Draft /\ FileInv'
    BY <1>3, SameFiles DEF ChatInv, TypeOK
  <1>7. /\ history' \in [state : {"asked", "served", "done"}, had : SUBSET (Tools \X Nat)]
        /\ history'.had = history.had
    BY <1>3 DEF ChatInv, TypeOK
  <1>8. TypeOK'
    BY <1>3, <1>4, <1>5, <1>6, <1>7 DEF ChatInv, TypeOK
  <1>9. SessionInv'
    BY <1>3, <1>4, <1>7 DEF ChatInv, SessionInv
  <1>10. BubbleInv'
    BY <1>3, <1>5, RestoredBubbles DEF ChatInv, BubbleInv
  <1>11. QED
    BY <1>6, <1>8, <1>9, <1>10 DEF ChatInv

LEMMA SwitchStep ==
  ASSUME ChatInv, HandleClearChat \/ \E m \in Mode : SwitchMode(m)
  PROVE  ChatInv'
  <1>1. UNCHANGED <<surface, flight, sent, history, told, voice, active, opened>>
        /\ draft' = Rebuilt(draft) /\ mode' \in Mode
    BY DEF HandleClearChat, SwitchMode, server, ChatInv, TypeOK
  <1>2. draft' \in Draft /\ FileInv'
    BY <1>1, SameFiles DEF ChatInv, TypeOK
  <1>3. /\ thread' \in [Mode -> Seq(Bubble)] /\ \A m \in Mode : thread'[m] \in {thread[m], <<>>}
        /\ session' \in [Mode -> SessionId] /\ \A m \in Mode : session'[m] \in {session[m], None}
    <2>1. thread \in [Mode -> Seq(Bubble)] /\ session \in [Mode -> SessionId]
          /\ <<>> \in Seq(Bubble) /\ None \in SessionId
      BY DEF ChatInv, TypeOK, SessionId
    <2>2. CASE HandleClearChat
      BY <2>1, <2>2 DEF HandleClearChat
    <2>3. CASE \E m \in Mode : SwitchMode(m)
      BY <2>1, <2>3 DEF SwitchMode
    <2>4. QED
      BY <2>2, <2>3
  <1>4. TypeOK'
    BY <1>1, <1>2, <1>3 DEF ChatInv, TypeOK
  <1>5. SessionInv'
    BY <1>1, <1>3 DEF ChatInv, SessionInv
  <1>6. BubbleInv'
    <2> SUFFICES ASSUME NEW m \in Mode, NEW i \in DOMAIN thread'[m], thread'[m][i].of # 0
                 PROVE  thread'[m][i].of \in DOMAIN sent' /\ sent'[thread'[m][i].of].mode = m
      BY DEF BubbleInv
    <2>1. thread'[m] = thread[m]
      BY <1>3
    <2>2. QED
      BY <1>1, <2>1 DEF ChatInv, BubbleInv
  <1>7. QED
    BY <1>2, <1>4, <1>5, <1>6 DEF ChatInv

LEMMA ExpireStep ==
  ASSUME ChatInv, NEW k \in Tools, ExpireSession(k)
  PROVE  ChatInv'
  <1>1. /\ active' = [active EXCEPT ![k] = 0]
        /\ UNCHANGED <<surface, mode, thread, draft, flight, session, sent, history, told, voice, opened>>
    BY DEF ExpireSession
  <1>2. TypeOK' /\ FileInv'
    BY <1>1 DEF ChatInv, TypeOK, FileInv, FileSentOnce
  <1>3. SessionInv' /\ BubbleInv'
    BY <1>1 DEF ChatInv, TypeOK, SessionInv, BubbleInv
  <1>4. QED
    BY <1>2, <1>3 DEF ChatInv

LEMMA VoiceStep ==
  ASSUME ChatInv,
         HandleMicClick \/ SpeechEnds \/ SpeechError \/ ErrorFades \/ StopRecording \/ Transcribed
  PROVE  ChatInv'
  <1>1. UNCHANGED <<surface, mode, thread, flight, session, sent, history, told>>
    BY DEF VoiceOnly, HandleMicClick, SpeechEnds, SpeechError, ErrorFades, StopRecording, Transcribed
  <1>2. voice' \in [state : {"idle", "listening", "processing", "error"}, recording : BOOLEAN,
                    fades : BOOLEAN]
    <2> DEFINE V == [state : {"idle", "listening", "processing", "error"}, recording : BOOLEAN,
                     fades : BOOLEAN]
    <2>1. voice \in V
      BY DEF ChatInv, TypeOK
    <2>2. Silent \in V
      BY DEF Silent
    <2>3. CASE HandleMicClick
      BY <2>1, <2>3 DEF HandleMicClick
    <2>4. CASE SpeechEnds
      BY <2>1, <2>4 DEF SpeechEnds
    <2>5. CASE SpeechError \/ ErrorFades \/ StopRecording
      BY <2>1, <2>5 DEF SpeechError, ErrorFades, StopRecording
    <2>6. CASE Transcribed
      BY <2>2, <2>6 DEF Transcribed
    <2>7. QED
      BY <2>3, <2>4, <2>5, <2>6
  <1>3. draft' \in Draft /\ FileInv'
    <2> DEFINE d == [draft EXCEPT !.text = TRUE]
    <2>1. d \in Draft /\ d.url = draft.url /\ d.upload = draft.upload /\ d.seen = draft.seen
      BY DEF ChatInv, TypeOK, Draft
    <2>2. draft' \in {draft, Rebuilt(d)}
      BY DEF HandleMicClick, SpeechEnds, SpeechError, ErrorFades, StopRecording, Transcribed, Heard
    <2> HIDE DEF d
    <2>3. QED
      BY <1>1, <2>1, <2>2, SameFiles DEF ChatInv
  <1>4. /\ active' \in [Tools -> Nat] /\ opened' \in [Tools -> Nat]
        /\ \A t \in Tools : active'[t] # 0 => t \in Asked
    <2>1. CASE UNCHANGED server
      BY <2>1 DEF server, ChatInv, TypeOK, SessionInv
    <2>2. CASE \E m \in Mode : Serve(session[m], "general")
      BY <2>2, ServeStep, Constants
    <2>3. QED
      BY <2>1, <2>2 DEF HandleMicClick, SpeechEnds, SpeechError, ErrorFades, StopRecording, Transcribed
  <1>5. TypeOK'
    BY <1>1, <1>2, <1>3, <1>4 DEF ChatInv, TypeOK
  <1>6. SessionInv' /\ BubbleInv'
    BY <1>1, <1>4 DEF ChatInv, SessionInv, BubbleInv
  <1>7. QED
    BY <1>3, <1>5, <1>6 DEF ChatInv

------------------------------------------------------------------------------
(* The theorems.                                                           *)

LEMMA InitInv == Init => ChatInv
  <1> SUFFICES ASSUME Init PROVE ChatInv
    OBVIOUS
  <1>1. /\ surface \in Surfaces /\ mode \in Mode /\ flight = 0 /\ sent = <<>> /\ told = 0
        /\ thread = [m \in Mode |-> <<>>] /\ draft = Empty /\ voice = Silent
        /\ history = [state |-> "asked", had |-> {}]
        /\ opened = [k \in Tools |-> IF k \in Visited THEN 1 ELSE 0]
    BY DEF Init
  <1>2. PICK live \in SUBSET Visited, kept \in SUBSET Visited :
          /\ active = [k \in Tools |-> IF k \in live THEN 1 ELSE 0]
          /\ session = [m \in Mode |-> IF Slug[m] \in kept THEN <<Slug[m], 1>> ELSE None]
    BY DEF Init
  <1>3. Visited \subseteq Asked
    BY ChatAssumption DEF Asked
  <1>4. draft \in Draft /\ draft.upload = None
    BY <1>1 DEF Empty, Draft
  <1>5. session \in [Mode -> SessionId]
    BY <1>2, Constants DEF SessionId
  <1>6. history \in [state : {"asked", "served", "done"}, had : SUBSET (Tools \X Nat)]
    BY <1>1
  <1>7. thread \in [Mode -> Seq(Bubble)] /\ sent \in Seq(Message)
    BY <1>1
  <1>8. TypeOK
    BY <1>1, <1>2, <1>4, <1>5, <1>6, <1>7, Constants DEF TypeOK, Silent
  <1>9. FileInv
    BY <1>1, <1>4 DEF FileInv, FileSentOnce
  <1>10. SessionInv
    BY <1>1, <1>2, <1>3 DEF SessionInv
  <1>11. BubbleInv
    BY <1>1 DEF BubbleInv
  <1>12. QED
    BY <1>8, <1>9, <1>10, <1>11 DEF ChatInv

LEMMA NextInv == ChatInv /\ [Next]_vars => ChatInv'
  <1> SUFFICES ASSUME ChatInv, [Next]_vars PROVE ChatInv'
    OBVIOUS
  <1>1. CASE Type \/ TakeSuggestion \/ HandleSummariseChat
    BY <1>1, TypingStep
  <1>2. CASE UploadEnds \/ ClearAttachment \/ ConfirmLink
    BY <1>2, AttachmentStep
  <1>3. ASSUME NEW f \in File, HandleFileSelect(f) PROVE ChatInv'
    BY <1>3, SelectStep
  <1>4. CASE HandleSend \/ SendSuggestion
    BY <1>4, SendStep DEF HandleSend, SendSuggestion
  <1>5. CASE Answer
    BY <1>5, AnswerStep
  <1>6. CASE AnswerFails
    BY <1>6, AnswerFailsStep
  <1>7. CASE GetChatHistory \/ HistoryFails
    BY <1>7, HistoryStep
  <1>8. CASE LoadHistory
    BY <1>8, LoadStep
  <1>9. CASE HandleClearChat \/ \E m \in Mode : SwitchMode(m)
    BY <1>9, SwitchStep
  <1>10. ASSUME NEW k \in Tools, ExpireSession(k) PROVE ChatInv'
    BY <1>10, ExpireStep
  <1>11. CASE HandleMicClick \/ SpeechEnds \/ SpeechError \/ ErrorFades \/ StopRecording \/ Transcribed
    BY <1>11, VoiceStep
  <1>12. CASE UNCHANGED vars
    BY <1>12 DEF vars, server, ChatInv, TypeOK, FileInv, FileSentOnce, SessionInv, BubbleInv
  <1>13. QED
    BY <1>1, <1>2, <1>3, <1>4, <1>5, <1>6, <1>7, <1>8, <1>9, <1>10, <1>11, <1>12 DEF Next

\* The inductive invariant of the chats (state of the three chat components and the sessions
\* ResolveOrCreateSession keeps).
THEOREM ChatInductive == Spec => []ChatInv
  BY InitInv, NextInv, PTL DEF Spec

\* Every variable keeps its type, for any number of messages and sessions.
THEOREM TypeCorrect == Spec => []TypeOK
  <1>1. ChatInv => TypeOK
    BY DEF ChatInv
  <1>2. QED
    BY <1>1, ChatInductive, PTL

\* A file goes out with one message at most (handleSend and the upload that ends meanwhile).
THEOREM SentOnce == Spec => []FileSentOnce
  <1>1. ChatInv => FileSentOnce
    BY DEF ChatInv, FileInv
  <1>2. QED
    BY <1>1, ChatInductive, PTL

\* Questions, answers and sessions stay in the mode and the tool they belong to.
THEOREM RightThread == Spec => []AnswerInItsThread
  <1>1. ChatInv => AnswerInItsThread
    <2> SUFFICES ASSUME ChatInv, NEW m \in Mode
                 PROVE  /\ \A b \in ToSet(thread[m]) : b.of # 0 => sent[b.of].mode = m
                        /\ session[m] # None => session[m][1] = Slug[m]
      BY DEF AnswerInItsThread
    <2>1. \A b \in ToSet(thread[m]) : \E i \in DOMAIN thread[m] : b = thread[m][i]
      BY DEF ToSet
    <2>2. QED
      BY <2>1 DEF ChatInv, BubbleInv, SessionInv
  <1>2. QED
    BY <1>1, ChatInductive, PTL

------------------------------------------------------------------------------
(* The overlay.                                                            *)

LEMMA PrefixOfItself ==
  ASSUME NEW s \in Seq(Bubble) PROVE IsPrefix(s, s) /\ IsPrefix(<<>>, s)
  BY DEF IsPrefix

LEMMA PrefixOfMore ==
  ASSUME NEW s \in Seq(Bubble), NEW t \in Seq(Bubble) PROVE IsPrefix(s, s \o t)
  BY DEF IsPrefix

LEMMA PrefixOfOneMore ==
  ASSUME NEW s \in Seq(Bubble), NEW b \in Bubble PROVE IsPrefix(s, Append(s, b))
  BY DEF IsPrefix

\* In the overlay a thread only grows, and history fills one that has no bubble.
LEMMA OverlayStep ==
  ASSUME ChatInv, [Next]_vars, surface = "overlay", NEW m \in Mode
  PROVE  IsPrefix(thread[m], thread'[m])
  <1>1. thread \in [Mode -> Seq(Bubble)] /\ thread[m] \in Seq(Bubble) /\ mode \in Mode
        /\ sent \in Seq(Message)
    BY DEF ChatInv, TypeOK
  <1>2. CASE UNCHANGED thread
    BY <1>1, <1>2, PrefixOfItself
  <1>3. ASSUME NEW text, Send(text) PROVE IsPrefix(thread[m], thread'[m])
    <2> DEFINE n == Len(sent) + 1
    <2>1. <<User(n)>> \in Seq(Bubble)
      BY <1>1 DEF User, Bubble
    <2>2. thread' = [thread EXCEPT ![mode] = @ \o <<User(n)>>]
      BY <1>3 DEF Send
    <2> HIDE DEF n
    <2>3. QED
      BY <1>1, <2>1, <2>2, PrefixOfMore, PrefixOfItself
  <1>4. CASE Answer \/ AnswerFails
    <2>1. flight # 0 /\ flight \in Nat
      BY <1>4 DEF Answer, AnswerFails, ChatInv, TypeOK
    <2>2. Nexus(flight) \in Bubble
      BY <2>1 DEF Nexus, Bubble
    <2>3. thread' = [thread EXCEPT ![AnswerMode(flight)] = Append(@, Nexus(flight))]
      BY <1>4 DEF Answer, AnswerFails
    <2>4. QED
      BY <1>1, <2>2, <2>3, PrefixOfOneMore, PrefixOfItself
  <1>5. CASE LoadHistory
    <2>1. thread'[m] = thread[m] \/ (thread[m] = <<>> /\ thread'[m] = Restored)
      BY <1>5 DEF LoadHistory, Pristine
    <2>2. QED
      BY <1>1, <2>1, PrefixOfItself, RestoredBubbles
  <1>6. ~HandleClearChat /\ \A k \in Mode : ~SwitchMode(k)
    BY DEF HandleClearChat, SwitchMode
  <1>7. QED
    BY <1>2, <1>3, <1>4, <1>5, <1>6
       DEF Next, vars, Type, TakeSuggestion, HandleSummariseChat, UploadEnds, ClearAttachment,
           ConfirmLink, HandleFileSelect, DraftOnly, HandleSend, SendSuggestion, GetChatHistory,
           HistoryFails, ExpireSession, HandleMicClick, SpeechEnds, SpeechError, ErrorFades,
           StopRecording, Transcribed, VoiceOnly

\* The overlay never takes a bubble back, however late the history comes.
THEOREM OverlayGrows == Spec => OverlayKeepsThread
  <1>1. ChatInv /\ [Next]_vars
          => [surface = "overlay" => \A m \in Mode : IsPrefix(thread[m], thread'[m])]_vars
    BY OverlayStep
  <1>2. QED
    BY <1>1, ChatInductive, PTL DEF Spec, OverlayKeepsThread
==============================================================================
