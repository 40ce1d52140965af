---------------------- MODULE ProgressiveMessageProofs ----------------------
(***************************************************************************)
(* Proofs about the reply bubble, for replies of any length and however    *)
(* Telegram loses requests and answers.                                    *)
(***************************************************************************)
EXTENDS ProgressiveMessage, TLAPS

Shape ==
  /\ stage \in Stages
  /\ versions \in Versions
  /\ buffer \in Texts /\ lastSent \in Texts
  /\ call \in [method: {"none", "send", "edit"}, text: Texts]
  /\ screen \in Seq(Versions)
  /\ messageID \in Nat /\ lost \in Nat
  /\ failed \subseteq Stages \X Versions

(* The buffer holds the latest text, and so does a request in flight; a    *)
(* first send is made without a message ID, an edit with one.              *)
InFlight ==
  /\ buffer.version = versions
  /\ versions = 0 => buffer = Nothing
  /\ call.method = "none" => call = NoCall
  /\ call.method # "none" => call.text.version = versions
  /\ call.method = "send" => messageID = 0
  /\ call.method = "edit" => messageID # 0 /\ call.text = lastSent

(* The bubble that is edited is the newest one.                            *)
Newest ==
  /\ messageID # 0 => messageID = Len(screen)
  /\ \A i \in 1 .. Len(screen) : screen[i] <= versions

Untroubled(v) == \A s \in Stages : <<s, v>> \notin failed

(* What lastSent claims to be on the screen is, but for a failed edit ...  *)
Honest ==
  messageID # 0 /\ Idle /\ Untroubled(lastSent.version)
    => screen[messageID] = lastSent.version

(* ... and once the reply is over it claims the last text.                 *)
Complete ==
  stage # "streaming" /\ versions # 0 /\ call.method # "send" /\ Untroubled(versions)
    => messageID # 0 /\ lastSent.version = versions

IInv == Shape /\ InFlight /\ Newest /\ OneBubble /\ Honest /\ Complete

LEMMA NothingTyped ==
  Nothing \in Texts /\ NoCall \in [method: {"none", "send", "edit"}, text: Texts]
<1>1. 0 \in Versions
  BY BubbleAssumption DEF Versions
<1>2. Nothing \in Texts
  BY <1>1 DEF Nothing, Texts
<1> QED BY <1>2 DEF NoCall

LEMMA InitIInv == Init => IInv
<1> SUFFICES ASSUME Init PROVE IInv
  OBVIOUS
<1>1. 0 \in Versions
  BY BubbleAssumption DEF Versions
<1>3. Shape
  BY <1>1, NothingTyped DEF Init, Shape, Stages, NoCall
<1> QED
  BY <1>3 DEF Init, IInv, InFlight, Newest, OneBubble, Honest, Complete, NoCall,
              Nothing

(* Painting a text the handler has just rendered, or the trimmed buffer.   *)
LEMMA PaintKeeps ==
  ASSUME IInv, NEW text \in Texts, Idle, Paint(text),
         versions' \in Versions, versions' >= versions,
         text.version = versions', text.version = 0 => text = Nothing,
         buffer' \in Texts, buffer'.version = versions',
         versions' = 0 => buffer' = Nothing,
         stage' \in Stages,
         UNCHANGED <<messageID, screen, lost, failed>>
  PROVE  IInv'
<1>0. versions \in Nat /\ versions' \in Nat /\ Versions \subseteq Nat
  BY BubbleAssumption DEF IInv, Shape, Versions
<1>u. \A v : Untroubled(v)' <=> Untroubled(v)
  BY DEF Untroubled
<1>i. call = NoCall /\ call.method = "none" /\ NoCall.method = "none"
  BY DEF Idle, NoCall
<1>n. NoCall \in [method: {"none", "send", "edit"}, text: Texts]
      /\ NoCall.text.version = 0 /\ Nothing.version = 0
  BY NothingTyped DEF NoCall, Nothing
<1>m. \A i \in 1 .. Len(screen) : screen[i] \in Nat /\ screen[i] <= versions'
  <2>1. \A i \in 1 .. Len(screen) : screen[i] \in Versions
    BY DEF IInv, Shape
  <2>2. \A i \in 1 .. Len(screen) : screen[i] <= versions
    BY DEF IInv, Newest
  <2>3. \A i \in 1 .. Len(screen) : screen[i] \in Nat
    BY <2>1, <1>0
  <2> QED BY <2>2, <2>3, <1>0
<1>1. CASE messageID = 0 /\ text = Nothing
  <2>1. UNCHANGED <<lastSent, open>> /\ call' = NoCall /\ versions' = 0
    BY <1>1, <1>n DEF Paint, sendFirst
  <2>a. Shape'
    BY <1>1, <2>1, <1>0, <1>u, <1>i, <1>n DEF IInv, Shape, NoCall, Stages
  <2>b. InFlight'
    BY <1>1, <2>1, <1>0, <1>u, <1>i, <1>n DEF IInv, Shape, InFlight, NoCall, Nothing
  <2>c. Newest'
    BY <1>m, <1>1, <2>1, <1>0, <1>u, <1>i, <1>n DEF IInv, Shape, InFlight, Newest, NoCall
  <2>d. OneBubble'
    BY <1>1, <2>1, <1>0, <1>u, <1>i, <1>n DEF IInv, Shape, OneBubble, InFlight
  <2>e. Honest'
    BY <1>1, <2>1, <1>0, <1>u, <1>i, <1>n DEF IInv, Shape, InFlight, Newest, Honest, Idle, NoCall, Nothing
  <2>f. Complete'
    BY <1>1, <2>1, <1>0, <1>u, <1>i, <1>n DEF IInv, Shape, InFlight, Complete, Idle, NoCall, Nothing
  <2> QED BY <2>a, <2>b, <2>c, <2>d, <2>e, <2>f DEF IInv
<1>2. CASE messageID = 0 /\ text # Nothing
  <2>1. UNCHANGED <<lastSent, open>> /\ call' = [method |-> "send", text |-> text]
    BY <1>2 DEF Paint, sendFirst
  <2>a. Shape'
    BY <1>2, <2>1, <1>0, <1>u, <1>i, <1>n DEF IInv, Shape, NoCall, Stages
  <2>b. InFlight'
    BY <1>2, <2>1, <1>0, <1>u, <1>i, <1>n DEF IInv, Shape, InFlight, NoCall, Nothing
  <2>c. Newest'
    BY <1>m, <1>2, <2>1, <1>0, <1>u, <1>i, <1>n DEF IInv, Shape, InFlight, Newest, NoCall
  <2>d. OneBubble'
    BY <1>2, <2>1, <1>0, <1>u, <1>i, <1>n DEF IInv, Shape, OneBubble, InFlight
  <2>e. Honest'
    BY <1>2, <2>1, <1>0, <1>u, <1>i, <1>n DEF IInv, Shape, InFlight, Newest, Honest, Idle, NoCall, Nothing
  <2>f. Complete'
    BY <1>2, <2>1, <1>0, <1>u, <1>i, <1>n DEF IInv, Shape, InFlight, Complete, Idle, NoCall, Nothing
  <2> QED BY <2>a, <2>b, <2>c, <2>d, <2>e, <2>f DEF IInv
<1>3. CASE messageID # 0 /\ (text = Nothing \/ text = lastSent)
  <2>1. UNCHANGED <<lastSent, open, call>>
    BY <1>3 DEF Paint, flush
  <2>2. versions' = 0 \/ lastSent.version = versions'
    BY <1>3, <1>n
  <2>a. Shape'
    BY <1>3, <2>1, <2>2, <1>0, <1>u, <1>i, <1>n DEF IInv, Shape, NoCall, Stages
  <2>b. InFlight'
    BY <1>3, <2>1, <2>2, <1>0, <1>u, <1>i, <1>n DEF IInv, Shape, InFlight, NoCall, Nothing
  <2>c. Newest'
    BY <1>m, <1>3, <2>1, <2>2, <1>0, <1>u, <1>i, <1>n DEF IInv, Shape, InFlight, Newest, NoCall
  <2>d. OneBubble'
    BY <1>3, <2>1, <2>2, <1>0, <1>u, <1>i, <1>n DEF IInv, Shape, OneBubble, InFlight
  <2>e. Honest'
    BY <1>3, <2>1, <2>2, <1>0, <1>u, <1>i, <1>n DEF IInv, Shape, InFlight, Newest, Honest, Idle, NoCall, Nothing
  <2>f. Complete'
    BY <1>3, <2>1, <2>2, <1>0, <1>u, <1>i, <1>n DEF IInv, Shape, InFlight, Complete, Idle, NoCall, Nothing
  <2> QED BY <2>a, <2>b, <2>c, <2>d, <2>e, <2>f DEF IInv
<1>4. CASE messageID # 0 /\ text # Nothing /\ text # lastSent
  <2>1. lastSent' = text /\ call' = [method |-> "edit", text |-> text]
    BY <1>4 DEF Paint, flush
  <2>a. Shape'
    BY <1>4, <2>1, <1>0, <1>u, <1>i, <1>n DEF IInv, Shape, NoCall, Stages
  <2>b. InFlight'
    BY <1>4, <2>1, <1>0, <1>u, <1>i, <1>n DEF IInv, Shape, InFlight, NoCall, Nothing
  <2>c. Newest'
    BY <1>m, <1>4, <2>1, <1>0, <1>u, <1>i, <1>n DEF IInv, Shape, InFlight, Newest, NoCall
  <2>d. OneBubble'
    BY <1>4, <2>1, <1>0, <1>u, <1>i, <1>n DEF IInv, Shape, OneBubble, InFlight
  <2>e. Honest'
    BY <1>4, <2>1, <1>0, <1>u, <1>i, <1>n DEF IInv, Shape, InFlight, Newest, Honest, Idle, NoCall, Nothing
  <2>f. Complete'
    BY <1>4, <2>1, <1>0, <1>u, <1>i, <1>n DEF IInv, Shape, InFlight, Complete, Idle, NoCall, Nothing
  <2> QED BY <2>a, <2>b, <2>c, <2>d, <2>e, <2>f DEF IInv
<1> QED BY <1>1, <1>2, <1>3, <1>4

(* A request has arrived: the newest bubble shows the latest text.         *)
LEMMA DeliverShows ==
  ASSUME IInv, call.method # "none", Deliver
  PROVE  /\ screen' \in Seq(Versions)
         /\ Len(screen') = Len(screen) + (IF call.method = "send" THEN 1 ELSE 0)
         /\ screen'[Len(screen')] = versions
         /\ \A i \in 1 .. Len(screen') : screen'[i] <= versions
<1>0. versions \in Versions /\ Versions \subseteq Nat /\ screen \in Seq(Versions)
      /\ call.text.version = versions
  BY BubbleAssumption DEF IInv, Shape, Versions, InFlight
<1>1. CASE call.method = "send"
  <2>1. screen' = Append(screen, versions)
    BY <1>0, <1>1 DEF Deliver
  <2>2. /\ screen' \in Seq(Versions) /\ Len(screen') = Len(screen) + 1
        /\ screen'[Len(screen')] = versions
        /\ \A i \in 1 .. Len(screen) : screen'[i] = screen[i]
    BY <1>0, <2>1
  <2> QED BY <1>0, <1>1, <2>2 DEF IInv, Newest
<1>2. CASE call.method # "send"
  <2>1. screen' = [screen EXCEPT ![messageID] = versions] /\ messageID = Len(screen)
        /\ messageID # 0
    BY <1>0, <1>2 DEF Deliver, IInv, Shape, InFlight, Newest
  <2>2. Len(screen) \in Nat /\ DOMAIN screen = 1 .. Len(screen)
        /\ \A i \in 1 .. Len(screen) : screen[i] \in Versions
    BY <1>0
  <2>3. screen' \in [1 .. Len(screen) -> Versions]
    BY <1>0, <2>1, <2>2
  <2>4. screen' \in Seq(Versions) /\ Len(screen') = Len(screen)
    BY <2>2, <2>3
  <2>5. \A i \in 1 .. Len(screen) :
          screen'[i] = IF i = Len(screen) THEN versions ELSE screen[i]
    BY <1>0, <2>1, <2>2
  <2> QED BY <1>0, <1>2, <2>1, <2>2, <2>4, <2>5 DEF IInv, Newest
<1> QED BY <1>1, <1>2

LEMMA NextIInv == IInv /\ [Next]_vars => IInv'
<1> SUFFICES ASSUME IInv, [Next]_vars PROVE IInv'
  OBVIOUS
<1>0. versions \in Nat /\ Versions \subseteq Nat /\ "finished" \in Stages
      /\ "replaced" \in Stages
  BY BubbleAssumption DEF IInv, Shape, Versions, Stages
<1>n. NoCall.method = "none" /\ Nothing.version = 0 /\ NoCall.text = Nothing
  BY DEF NoCall, Nothing
<1>1. CASE AppendChunk
  <2>1. PICK text \in Texts :
          /\ Fresh(text) \/ (text = buffer /\ versions > 0)
          /\ Render(text)
          /\ IF open THEN Paint(text) ELSE UNCHANGED <<lastSent, open, call>>
    BY <1>1 DEF AppendChunk
  <2>2. /\ stage = "streaming" /\ Idle
        /\ UNCHANGED <<stage, messageID, screen, lost, failed>>
        /\ versions' = text.version /\ buffer' = text
    BY <1>1, <2>1 DEF AppendChunk, Render
  <2>3. text.version \in Versions /\ text.version > 0 /\ text.version >= versions
    BY <2>1, <1>0 DEF Texts, Fresh, IInv, InFlight
  <2>4. CASE open
    <3>1. stage' \in Stages
      BY <2>2 DEF IInv, Shape
    <3> QED BY <2>1, <2>2, <2>3, <2>4, <3>1, PaintKeeps, <1>0
  <2>5. CASE ~open
    <3>1. UNCHANGED <<lastSent, call>> /\ call = NoCall
      BY <2>1, <2>2, <2>5 DEF Idle
    <3>m. \A i \in 1 .. Len(screen) : screen[i] \in Nat /\ screen[i] <= versions'
      <4>1. \A i \in 1 .. Len(screen) : screen[i] \in Versions
        BY DEF IInv, Shape
      <4>2. \A i \in 1 .. Len(screen) : screen[i] <= versions
        BY DEF IInv, Newest
      <4>3. \A i \in 1 .. Len(screen) : screen[i] \in Nat
        BY <4>1, <1>0
      <4>4. versions' \in Nat /\ versions' >= versions
        BY <2>2, <2>3, <1>0
      <4> QED BY <4>2, <4>3, <4>4, <1>0
    <3>u. \A v : Untroubled(v)' <=> Untroubled(v)
      BY <2>2 DEF Untroubled
    <3>a. Shape'
      BY <2>2, <2>3, <3>1, <3>u, <1>0, <1>n DEF IInv, Shape, NoCall, Stages
    <3>b. InFlight'
      BY <2>2, <2>3, <3>1, <3>u, <1>0, <1>n DEF IInv, Shape, InFlight, NoCall, Nothing
    <3>c. Newest'
      BY <3>m, <2>2, <2>3, <3>1, <3>u, <1>0, <1>n DEF IInv, Shape, InFlight, Newest, NoCall
    <3>d. OneBubble'
      BY <2>2, <2>3, <3>1, <3>u, <1>0, <1>n DEF IInv, Shape, OneBubble, InFlight
    <3>e. Honest'
      BY <2>2, <2>3, <3>1, <3>u, <1>0, <1>n DEF IInv, Shape, InFlight, Newest, Honest, Idle, NoCall, Nothing
    <3>f. Complete'
      BY <2>2, <2>3, <3>1, <3>u, <1>0, <1>n DEF IInv, Shape, InFlight, Complete, Idle, NoCall, Nothing
    <3> QED BY <3>a, <3>b, <3>c, <3>d, <3>e, <3>f DEF IInv
  <2> QED BY <2>4, <2>5
<1>2. CASE Finish
  <2>1. /\ stage' = "finished" /\ Idle /\ Paint(Trim(buffer))
        /\ UNCHANGED <<versions, buffer, messageID, screen, lost, failed>>
    BY <1>2 DEF Finish
  <2>2. buffer \in Texts /\ buffer.version = versions /\ versions \in Versions
        /\ (versions = 0 => buffer = Nothing)
    BY DEF IInv, Shape, InFlight
  <2>3. Trim(buffer) \in Texts /\ Trim(buffer).version = versions
    BY <2>2 DEF Trim, Texts
  <2>4. versions = 0 => Trim(buffer) = Nothing
    BY <2>2 DEF Trim, Nothing
  <2> QED BY <2>1, <2>2, <2>3, <2>4, PaintKeeps, <1>0
<1>3. CASE ReplaceWith
  <2>1. PICK text \in Texts : Fresh(text) /\ Render(text) /\ Paint(text)
    BY <1>3 DEF ReplaceWith
  <2>2. /\ stage' = "replaced" /\ Idle
        /\ UNCHANGED <<messageID, screen, lost, failed>>
        /\ versions' = text.version /\ buffer' = text
        /\ text.version = versions + 1 /\ text.version \in Versions
    BY <1>3, <2>1 DEF ReplaceWith, Render, Fresh, Texts
  <2> QED BY <2>1, <2>2, PaintKeeps, <1>0
<1>4. CASE Acknowledged
  <2>1. /\ call.method # "none" /\ call' = NoCall /\ Deliver
        /\ UNCHANGED <<stage, versions, buffer, lost, failed>>
    BY <1>4 DEF Acknowledged, Idle, IInv, InFlight
  <2>2. /\ screen' \in Seq(Versions)
        /\ Len(screen') = Len(screen) + (IF call.method = "send" THEN 1 ELSE 0)
        /\ screen'[Len(screen')] = versions
        /\ \A i \in 1 .. Len(screen') : screen'[i] <= versions
    BY <2>1, DeliverShows
  <2>3. lastSent' = call.text /\ lastSent' \in Texts /\ lastSent'.version = versions
    BY <1>4, <2>1 DEF Acknowledged, IInv, Shape, InFlight
  <2>4. messageID' = Len(screen') /\ messageID' # 0
        /\ (call.method = "send" <=> messageID = 0)
        /\ (call.method # "send" => messageID' = messageID)
    <3>1. CASE call.method = "send"
      BY <1>4, <2>2, <3>1 DEF Acknowledged, IInv, InFlight, Shape
    <3>2. CASE call.method # "send"
      BY <1>4, <2>1, <2>2, <3>2 DEF Acknowledged, IInv, InFlight, Shape, Newest
    <3> QED BY <3>1, <3>2
  <2>5. Len(screen') \in Nat /\ Len(screen) \in Nat
    BY <2>2 DEF IInv, Shape
  <2>u. \A v : Untroubled(v)' <=> Untroubled(v)
    BY <2>1 DEF Untroubled
  <2>s. NoCall \in [method: {"none", "send", "edit"}, text: Texts]
    BY NothingTyped
  <2>a. Shape'
    BY <2>1, <2>2, <2>3, <2>4, <2>5, <2>u, <2>s, <1>0, <1>n DEF IInv, Shape, NoCall, Stages
  <2>b. InFlight'
    BY <2>1, <2>2, <2>3, <2>4, <2>5, <2>u, <2>s, <1>0, <1>n DEF IInv, Shape, InFlight, NoCall, Nothing
  <2>c. Newest'
    BY <2>1, <2>2, <2>3, <2>4, <2>5, <2>u, <2>s, <1>0, <1>n DEF IInv, Shape, InFlight, Newest, NoCall
  <2>d. OneBubble'
    BY <2>1, <2>2, <2>3, <2>4, <2>5, <2>u, <2>s, <1>0, <1>n DEF IInv, Shape, OneBubble, InFlight
  <2>e. Honest'
    BY <2>1, <2>2, <2>3, <2>4, <2>5, <2>u, <2>s, <1>0, <1>n DEF IInv, Shape, InFlight, Newest, Honest, Idle, NoCall, Nothing
  <2>f. Complete'
    BY <2>1, <2>2, <2>3, <2>4, <2>5, <2>u, <2>s, <1>0, <1>n DEF IInv, Shape, InFlight, Complete, Idle, NoCall, Nothing
  <2> QED BY <2>a, <2>b, <2>c, <2>d, <2>e, <2>f DEF IInv
<1>5. CASE Rejected \/ AnswerLost
  <2>1. /\ call.method # "none" /\ call' = NoCall
        /\ failed' = failed \cup {<<stage, versions>>}
        /\ UNCHANGED <<stage, versions, buffer, lastSent, messageID>>
    BY <1>5 DEF Rejected, AnswerLost, Error, Idle, IInv, InFlight
  <2>2. stage \in Stages /\ versions \in Versions
    BY DEF IInv, Shape
  <2>3. ~Untroubled(versions)'
    BY <2>1, <2>2 DEF Untroubled
  <2>4. call.method = "edit" => lastSent.version = versions
    BY DEF IInv, InFlight
  <2>5. call.method \in {"send", "edit"}
    BY <2>1 DEF IInv, Shape
  <2>6. /\ screen' \in Seq(Versions)
        /\ \A i \in 1 .. Len(screen') : screen'[i] <= versions
        /\ Len(screen') = Len(screen) + (IF call.method = "send" THEN lost' - lost ELSE 0)
        /\ lost' = lost \/ (call.method = "send" /\ lost' = lost + 1)
    <3>1. CASE Rejected
      BY <3>1, <2>1 DEF Rejected, IInv, Shape, Newest
    <3>2. CASE AnswerLost
      BY <3>2, <2>1, DeliverShows DEF AnswerLost, IInv, Shape
    <3> QED BY <1>5, <3>1, <3>2
  <2>7. call.method = "send" <=> messageID = 0
    BY <2>5 DEF IInv, InFlight
  <2>8. Len(screen) \in Nat /\ Len(screen') \in Nat
    BY <2>6 DEF IInv, Shape
  <2>s. NoCall \in [method: {"none", "send", "edit"}, text: Texts]
    BY NothingTyped
  <2>a. Shape'
    BY <2>1, <2>2, <2>3, <2>4, <2>5, <2>6, <2>7, <2>8, <2>s, <1>0, <1>n DEF IInv, Shape, NoCall, Stages
  <2>b. InFlight'
    BY <2>1, <2>2, <2>3, <2>4, <2>5, <2>6, <2>7, <2>8, <2>s, <1>0, <1>n DEF IInv, Shape, InFlight, NoCall, Nothing
  <2>c. Newest'
    BY <2>1, <2>2, <2>3, <2>4, <2>5, <2>6, <2>7, <2>8, <2>s, <1>0, <1>n DEF IInv, Shape, InFlight, Newest, NoCall
  <2>d. OneBubble'
    BY <2>1, <2>2, <2>3, <2>4, <2>5, <2>6, <2>7, <2>8, <2>s, <1>0, <1>n DEF IInv, Shape, OneBubble, InFlight
  <2>e. Honest'
    BY <2>1, <2>2, <2>3, <2>4, <2>5, <2>6, <2>7, <2>8, <2>s, <1>0, <1>n DEF IInv, Shape, InFlight, Newest, Honest, Idle, NoCall, Nothing
  <2>f. Complete'
    BY <2>1, <2>2, <2>3, <2>4, <2>5, <2>6, <2>7, <2>8, <2>s, <1>0, <1>n DEF IInv, Shape, InFlight, Complete, Idle, NoCall, Nothing
  <2> QED BY <2>a, <2>b, <2>c, <2>d, <2>e, <2>f DEF IInv
<1>6. CASE Wait \/ UNCHANGED vars
  <2>1. UNCHANGED <<stage, versions, buffer, lastSent, messageID, call, screen, lost,
                    failed>>
    BY <1>6 DEF Wait, vars
  <2>u. \A v : Untroubled(v)' <=> Untroubled(v)
    BY <2>1 DEF Untroubled
  <2>a. Shape'
    BY <2>1, <2>u DEF IInv, Shape, NoCall, Stages
  <2>b. InFlight'
    BY <2>1, <2>u DEF IInv, Shape, InFlight, NoCall, Nothing
  <2>c. Newest'
    BY <2>1, <2>u DEF IInv, Shape, InFlight, Newest, NoCall
  <2>d. OneBubble'
    BY <2>1, <2>u DEF IInv, Shape, OneBubble, InFlight
  <2>e. Honest'
    BY <2>1, <2>u DEF IInv, Shape, InFlight, Newest, Honest, Idle, NoCall, Nothing
  <2>f. Complete'
    BY <2>1, <2>u DEF IInv, Shape, InFlight, Complete, Idle, NoCall, Nothing
  <2> QED BY <2>a, <2>b, <2>c, <2>d, <2>e, <2>f DEF IInv
<1> QED BY <1>1, <1>2, <1>3, <1>4, <1>5, <1>6 DEF Next

(* A reply is one bubble, and one more for every first send whose answer   *)
(* was lost (sendFirst).                                                   *)
THEOREM OneBubbleAlways == Spec => []OneBubble
<1>1. IInv => OneBubble
  BY DEF IInv
<1> QED BY InitIInv, NextIInv, <1>1, PTL DEF Spec

(* When the reply is over the bubble shows its last text, unless a request *)
(* for that text failed (Finish, ReplaceWith, flush).                      *)
THEOREM LastTextShownAlways == Spec => []LastTextShown
<1>1. IInv => LastTextShown
  <2> SUFFICES ASSUME IInv, Idle, stage # "streaming", buffer # Nothing,
                      \A s \in Stages : <<s, buffer.version>> \notin failed
               PROVE  messageID # 0 /\ screen[messageID] = buffer.version
    BY DEF LastTextShown
  <2>1. buffer.version = versions /\ versions # 0 /\ Untroubled(versions)
        /\ call.method # "send"
    BY DEF IInv, InFlight, Untroubled, Idle, NoCall
  <2> QED BY <2>1 DEF IInv, Complete, Honest
<1> QED BY InitIInv, NextIInv, <1>1, PTL DEF Spec

(* What the newest bubble shows follows what the handler rendered, and is  *)
(* never put back to an older text (Append, Finish, ReplaceWith).          *)
THEOREM ReplyFollows == Spec => ReplyNeverGoesBack
<1>1. Init => Reply!Init
  BY DEF Init, Reply!Init, Shown
<1>2. IInv /\ [Next]_vars => [Reply!Next]_<<versions, Shown>>
  <2> SUFFICES ASSUME IInv, [Next]_vars
               PROVE Reply!Next \/ UNCHANGED <<versions, Shown>>
    OBVIOUS
  <2>1. versions \in Nat /\ Shown \in 0 .. versions
    <3>1. versions \in Nat /\ Versions \subseteq Nat /\ screen \in Seq(Versions)
      BY BubbleAssumption DEF IInv, Shape, Versions
    <3>2. CASE screen = <<>>
      BY <3>1, <3>2 DEF Shown
    <3>3. CASE screen # <<>>
      <4>1. Len(screen) \in 1 .. Len(screen) /\ screen[Len(screen)] \in Versions
        BY <3>1, <3>3
      <4>2. screen[Len(screen)] <= versions
        BY <4>1 DEF IInv, Newest
      <4>3. screen[Len(screen)] \in Nat
        BY <3>1, <4>1
      <4>4. Shown = screen[Len(screen)]
        BY <3>3 DEF Shown
      <4> HIDE DEF Shown
      <4> QED BY <3>1, <4>2, <4>3, <4>4
    <3> QED BY <3>2, <3>3
  <2>2. CASE AppendChunk \/ ReplaceWith
    <3>1. versions' = versions + 1 \/ versions' = versions
      BY <2>2 DEF AppendChunk, ReplaceWith, Fresh, Render, IInv, InFlight
    <3>2. Shown' = Shown
      BY <2>2 DEF AppendChunk, ReplaceWith, Shown
    <3> QED BY <3>1, <3>2 DEF Reply!Next, Reply!Advance
  <2>3. CASE Acknowledged \/ AnswerLost
    <3>1. /\ call.method # "none" /\ Deliver /\ versions' = versions
      BY <2>3 DEF Acknowledged, AnswerLost, Error, Idle, IInv, InFlight
    <3>2. screen' \in Seq(Versions) /\ screen'[Len(screen')] = versions
      BY <3>1, DeliverShows
    <3>3. Len(screen') # 0
      <4>1. call.method = "edit" => Len(screen) # 0
        BY DEF IInv, InFlight, Newest
      <4>2. Len(screen') = Len(screen) + (IF call.method = "send" THEN 1 ELSE 0)
            /\ Len(screen) \in Nat /\ call.method \in {"send", "edit"}
        BY <3>1, DeliverShows DEF IInv, Shape
      <4> QED BY <4>1, <4>2
    <3>4. Shown' = versions
      BY <3>2, <3>3 DEF Shown
    <3> QED BY <2>1, <3>1, <3>4 DEF Reply!Next, Reply!Catch
  <2>4. CASE Finish \/ Rejected \/ Wait \/ UNCHANGED vars
    BY <2>4 DEF Finish, Rejected, Error, Wait, vars, Shown
  <2> QED BY <2>2, <2>3, <2>4 DEF Next
<1> QED BY InitIInv, NextIInv, <1>1, <1>2, PTL
        DEF Spec, ReplyNeverGoesBack, Reply!Spec

=============================================================================
