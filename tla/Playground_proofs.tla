-------------------------- MODULE Playground_proofs --------------------------
(***************************************************************************)
(* What the playground page shows, for conversations of any length, any      *)
(* number of requests and any limit of the poll.                             *)
(*                                                                         *)
(* The handlers never ask which request they serve.  The invariant says what *)
(* makes up for it: as long as no edit is submitted during a generation, at  *)
(* most one request is under way, a ref or a flag of the page stands for it, *)
(* and the last message is its answer (Held); everything else in the         *)
(* conversation is finished (Quiet).                                         *)
(***************************************************************************)
EXTENDS Playground, SequenceTheorems, TLAPS

Streams == {"stream", "hung"}
Chats == {"chat", "responses"}
Medias == {"post", "poll", "aborted"}
Phases == Streams \cup Chats \cup Medias \cup {"none"}

Message == [from : {"user", "assistant"}, id : Requests,
            status : {"loading", "streaming", "complete", "error"},
            text : SUBSET (Requests \cup {Notice, Words})]

Types ==
    /\ messages \in Seq(Message)
    /\ source \in Requests \cup {None} /\ controller \in Requests \cup {None}
    /\ complete \in BOOLEAN /\ media \in BOOLEAN /\ chat \in BOOLEAN /\ overlap \in BOOLEAN
    /\ live \in [Requests -> Phases]
    /\ started \subseteq Requests

\* Behind every ref and flag there is a request of its kind, also when edits
\* are submitted during a generation.
Refs ==
    /\ source # None => live[source] \in Streams /\ ~complete
    /\ controller # None => live[controller] \in Medias
    /\ media <=> controller # None
    /\ chat => \E r \in Requests : live[r] \in Chats

\* Only what was sent is under way, shown or stopped.
Born ==
    /\ \A r \in Requests : live[r] # "none" => r \in started
    /\ \A i \in 1..Len(messages) : messages[i].id \in started
    /\ stopped \subseteq started

\* The request under way is the only one, the page knows it, and the last
\* message is its answer; the user has stopped it only if it is aborted.
Held(r) ==
    /\ live[r] \in Streams => source = r
    /\ live[r] \in Chats => chat
    /\ live[r] \in Medias => controller = r
    /\ \A q \in Requests : live[q] # "none" => q = r
    /\ Len(messages) # 0
    /\ messages[Len(messages)].from = "assistant" /\ messages[Len(messages)].id = r
    /\ live[r] # "aborted" => r \notin stopped

Own(m) == m.from = "assistant" => m.text \cap Requests \subseteq {m.id}

Quiet(m) == m.from = "assistant" /\ m.status \in Unfinished => m.id \in empty

\* Only the last message may be unfinished, and then its request is at work.
Told(i) ==
    \/ Quiet(messages[i])
    \/ i = Len(messages) /\ live[messages[i].id] \notin {"none", "aborted"}

Single ==
    /\ \A r \in Requests : live[r] # "none" => Held(r)
    /\ \A i \in 1..Len(messages) : Own(messages[i]) /\ Told(i)

IInv == Types /\ Refs /\ Born /\ (~overlap => Single)
-----------------------------------------------------------------------------
(* What the handlers do to a conversation.                                  *)

\* Requests and texts are different things.
LEMMA Distinct == None \notin Requests /\ Notice \notin Requests /\ Words \notin Requests
  BY PlaygroundAssumption DEF Requests

\* The answers of ms but the last message are the same in u, and so is
\* who wrote them.
Rewrites(ms, u) ==
    /\ u \in Seq(Message) /\ Len(u) = Len(ms)
    /\ \A i \in 1..Len(ms) : u[i].from = ms[i].from /\ u[i].id = ms[i].id
    /\ \A i \in 1..Len(ms) : i # Len(ms) \/ ms[i].from # "assistant" => u[i] = ms[i]

Answered(ms) == Len(ms) # 0 /\ ms[Len(ms)].from = "assistant"

LEMMA UpdateRewrites ==
  ASSUME NEW ms \in Seq(Message), NEW new,
         Answered(ms) => new \in Message /\ new.from = "assistant" /\ new.id = ms[Len(ms)].id
  PROVE  LET u == updateLastAssistantMessage(ms, new)
         IN  Rewrites(ms, u) /\ (Answered(ms) => u[Len(ms)] = new)
<1>1. Len(ms) \in Nat /\ (ms # <<>> <=> Len(ms) # 0)
  BY EmptySeq, LenProperties
<1>2. CASE Answered(ms)
  <2>1. Len(ms) \in 1..Len(ms) /\ new \in Message
    BY <1>1, <1>2 DEF Answered
  <2>2. updateLastAssistantMessage(ms, new) = [ms EXCEPT ![Len(ms)] = new]
    BY <1>1, <1>2 DEF updateLastAssistantMessage, Answered, Last
  <2>3. /\ [ms EXCEPT ![Len(ms)] = new] \in Seq(Message)
        /\ Len([ms EXCEPT ![Len(ms)] = new]) = Len(ms)
        /\ \A j \in 1..Len(ms) : [ms EXCEPT ![Len(ms)] = new][j] = IF j = Len(ms) THEN new ELSE ms[j]
    BY <2>1, ExceptSeq
  <2> QED
    BY <1>2, <2>1, <2>2, <2>3 DEF Rewrites, Answered
<1>3. CASE ~Answered(ms)
  <2>1. updateLastAssistantMessage(ms, new) = ms
    BY <1>1, <1>3 DEF updateLastAssistantMessage, Answered, Last
  <2> QED
    BY <1>3, <2>1 DEF Rewrites, Answered
<1> QED
  BY <1>2, <1>3

\* The last message is one.
LEMMA LastMessage ==
  ASSUME NEW ms \in Seq(Message), Answered(ms)
  PROVE  Last(ms) = ms[Len(ms)] /\ Last(ms) \in Message /\ Last(ms).from = "assistant"
<1>1. Len(ms) \in 1..Len(ms)
  BY LenProperties DEF Answered
<1> QED
  BY <1>1, ElementOfSeq DEF Last, Answered

LEMMA ErrorRewrites ==
  ASSUME NEW ms \in Seq(Message)
  PROVE  /\ Rewrites(ms, WithError(ms))
         /\ Answered(ms) => LET m == WithError(ms)[Len(ms)]
                            IN  m.status = "error" /\ m.text = {Notice}
<1> DEFINE new == [Last(ms) EXCEPT !.status = "error", !.text = {Notice}]
<1>1. ASSUME Answered(ms)
      PROVE  /\ new \in Message /\ new.from = "assistant" /\ new.id = ms[Len(ms)].id
             /\ new.status = "error" /\ new.text = {Notice}
  <2>1. {Notice} \in SUBSET (Requests \cup {Notice, Words})
    OBVIOUS
  <2>2. Last(ms) = ms[Len(ms)] /\ Last(ms) \in Message /\ Last(ms).from = "assistant"
    BY <1>1, LastMessage
  <2> QED
    BY <2>1, <2>2 DEF Message
<1>2. WithError(ms) = updateLastAssistantMessage(ms, new)
  BY DEF WithError
<1> HIDE DEF new
<1> QED
  BY <1>1, <1>2, UpdateRewrites

LEMMA TextRewrites ==
  ASSUME NEW ms \in Seq(Message), NEW r \in Requests, NEW s \in {"streaming", "complete"}
  PROVE  /\ Rewrites(ms, WithText(ms, r, s))
         /\ Answered(ms) => LET m == WithText(ms, r, s)[Len(ms)]
                            IN  m.status = s /\ m.text = {r}
<1> DEFINE new == [Last(ms) EXCEPT !.status = s, !.text = {r}]
<1>1. ASSUME Answered(ms)
      PROVE  /\ new \in Message /\ new.from = "assistant" /\ new.id = ms[Len(ms)].id
             /\ new.status = s /\ new.text = {r}
  <2>1. {r} \in SUBSET (Requests \cup {Notice, Words})
    OBVIOUS
  <2>2. Last(ms) = ms[Len(ms)] /\ Last(ms) \in Message /\ Last(ms).from = "assistant"
    BY <1>1, LastMessage
  <2> QED
    BY <2>1, <2>2 DEF Message
<1>2. WithText(ms, r, s) = updateLastAssistantMessage(ms, new)
  BY DEF WithText
<1> HIDE DEF new
<1> QED
  BY <1>1, <1>2, UpdateRewrites

LEMMA ChunkRewrites ==
  ASSUME NEW ms \in Seq(Message), NEW r \in Requests
  PROVE  /\ Rewrites(ms, WithChunk(ms, r))
         /\ Answered(ms) => LET m == WithChunk(ms, r)[Len(ms)]
                            IN  m.text \subseteq ms[Len(ms)].text \cup {r}
<1> DEFINE t == Last(ms).text \cup {r}
           new == IF Last(ms).status = "error" THEN Last(ms)
                  ELSE [Last(ms) EXCEPT !.status = "streaming", !.text = t]
<1>1. ASSUME Answered(ms)
      PROVE  /\ new \in Message /\ new.from = "assistant" /\ new.id = ms[Len(ms)].id
             /\ new.text \subseteq ms[Len(ms)].text \cup {r}
  <2>1. Last(ms) = ms[Len(ms)] /\ Last(ms) \in Message /\ Last(ms).from = "assistant"
    BY <1>1, LastMessage
  <2>2. t \in SUBSET (Requests \cup {Notice, Words})
    BY <2>1 DEF Message
  <2> HIDE DEF t
  <2>3. /\ [Last(ms) EXCEPT !.status = "streaming", !.text = t] \in Message
        /\ [Last(ms) EXCEPT !.status = "streaming", !.text = t].from = "assistant"
        /\ [Last(ms) EXCEPT !.status = "streaming", !.text = t].id = Last(ms).id
        /\ [Last(ms) EXCEPT !.status = "streaming", !.text = t].text = t
    BY <2>1, <2>2 DEF Message
  <2>4. t = ms[Len(ms)].text \cup {r}
    BY <2>1 DEF t
  <2> QED
    BY <2>1, <2>3, <2>4
<1>2. WithChunk(ms, r) = updateLastAssistantMessage(ms, new)
  BY DEF WithChunk
<1> HIDE DEF new
<1> QED
  BY <1>1, <1>2, UpdateRewrites

LEMMA EndRewrites ==
  ASSUME NEW ms \in Seq(Message)
  PROVE  /\ Rewrites(ms, WithEnd(ms))
         /\ Answered(ms) => LET m == WithEnd(ms)[Len(ms)]
                            IN  m.status \notin Unfinished /\ m.text = ms[Len(ms)].text
<1> DEFINE new == IF Last(ms).status \in Unfinished
                    THEN [Last(ms) EXCEPT !.status = "complete"] ELSE Last(ms)
<1>1. ASSUME Answered(ms)
      PROVE  /\ new \in Message /\ new.from = "assistant" /\ new.id = ms[Len(ms)].id
             /\ new.status \notin Unfinished /\ new.text = ms[Len(ms)].text
  <2>1. Last(ms) = ms[Len(ms)] /\ Last(ms) \in Message /\ Last(ms).from = "assistant"
    BY <1>1, LastMessage
  <2>2. /\ [Last(ms) EXCEPT !.status = "complete"] \in Message
        /\ [Last(ms) EXCEPT !.status = "complete"].from = "assistant"
        /\ [Last(ms) EXCEPT !.status = "complete"].id = Last(ms).id
        /\ [Last(ms) EXCEPT !.status = "complete"].status = "complete"
        /\ [Last(ms) EXCEPT !.status = "complete"].text = Last(ms).text
    BY <2>1 DEF Message
  <2> QED
    BY <2>1, <2>2 DEF Unfinished
<1>2. WithEnd(ms) = updateLastAssistantMessage(ms, new)
  BY DEF WithEnd
<1> HIDE DEF new
<1> QED
  BY <1>1, <1>2, UpdateRewrites

-----------------------------------------------------------------------------
(* Events of a request under way.                                           *)

\* What a conversation that is rewritten in its last message keeps.
LEMMA RewriteKeeps ==
  ASSUME IInv, Rewrites(messages, messages'), started' = started
  PROVE  /\ messages' \in Seq(Message) /\ Len(messages') = Len(messages) /\ Len(messages) \in Nat
         /\ \A i \in 1..Len(messages) : messages'[i].id = messages[i].id /\ messages'[i].id \in started'
         /\ \A i \in 1..Len(messages) : messages'[i].from = messages[i].from
         /\ \A i \in 1..Len(messages) : i # Len(messages) => messages'[i] = messages[i]
<1>1. messages \in Seq(Message) /\ Len(messages) \in Nat
  BY LenProperties DEF IInv, Types
<1> QED
  BY <1>1 DEF Rewrites, IInv, Born

\* A request that stays under way may write to its own answer.
LEMMA Continues ==
  ASSUME IInv, NEW r \in Requests, live[r] \notin {"none", "aborted"},
         Rewrites(messages, messages'),
         UNCHANGED <<source, complete, controller, media, chat, history>>,
         live' \in [Requests -> Phases], \A q \in Requests \ {r} : live'[q] = live[q],
         \/ live'[r] = live[r]
         \/ live[r] \in Streams /\ live'[r] \in Streams
         \/ live[r] = "post" /\ live'[r] = "poll",
         ~overlap /\ Held(r) => Own(messages'[Len(messages)])
  PROVE  IInv'
<1>1. Types /\ Refs /\ Born /\ UNCHANGED <<started, stopped, empty, overlap>>
  BY DEF IInv, history
<1>2. /\ messages' \in Seq(Message) /\ Len(messages') = Len(messages) /\ Len(messages) \in Nat
      /\ \A i \in 1..Len(messages) : messages'[i].id = messages[i].id /\ messages'[i].id \in started'
      /\ \A i \in 1..Len(messages) : messages'[i].from = messages[i].from
      /\ \A i \in 1..Len(messages) : i # Len(messages) => messages'[i] = messages[i]
  BY <1>1, RewriteKeeps
<1>3. /\ live'[r] \notin {"none", "aborted"}
      /\ \A q \in Requests : live'[q] # "none" => live[q] # "none"
      /\ \A q \in Requests : (live'[q] \in Streams) = (live[q] \in Streams)
      /\ \A q \in Requests : (live'[q] \in Chats) = (live[q] \in Chats)
      /\ \A q \in Requests : (live'[q] \in Medias) = (live[q] \in Medias)
  BY DEF Streams, Chats, Medias
<1>4. Types'
  BY <1>1, <1>2 DEF Types
<1>5. Refs'
  BY <1>1, <1>3 DEF Types, Refs
<1>6. Born'
  BY <1>1, <1>2, <1>3 DEF Born
<1>7. ASSUME ~overlap' PROVE Single'
  <2>1. Single /\ ~overlap
    BY <1>1, <1>7 DEF IInv
  <2>2. Held(r)
    BY <2>1 DEF Single
  <2>3. ASSUME NEW q \in Requests, live'[q] # "none" PROVE Held(q)'
    <3>1. q = r
      BY <1>3, <2>2, <2>3 DEF Held
    <3>2. Len(messages) \in 1..Len(messages)
      BY <1>2, <2>2 DEF Held
    <3>3. /\ Len(messages') # 0 /\ messages'[Len(messages')].from = "assistant"
          /\ messages'[Len(messages')].id = r
      BY <1>2, <2>2, <3>2 DEF Held
    <3>4. \A k \in Requests : live'[k] # "none" => k = r
      BY <1>3, <2>2 DEF Held
    <3>5. r \notin stopped'
      BY <1>1, <2>2 DEF Held
    <3>6. /\ live'[r] \in Streams => source' = r
          /\ live'[r] \in Chats => chat'
          /\ live'[r] \in Medias => controller' = r
      BY <1>3, <2>2 DEF Held
    <3> QED
      BY <3>1, <3>3, <3>4, <3>5, <3>6 DEF Held
  <2>4. ASSUME NEW i \in 1..Len(messages') PROVE Own(messages'[i]) /\ Told(i)'
    <3>1. CASE i = Len(messages)
      <4>1. messages'[i].id = r
        BY <1>2, <2>2, <2>4, <3>1 DEF Held
      <4> QED
        BY <1>2, <1>3, <2>1, <2>2, <3>1, <4>1 DEF Told
    <3>2. CASE i # Len(messages)
      <4>1. i \in 1..Len(messages) /\ messages'[i] = messages[i]
        BY <1>2, <2>4, <3>2
      <4>2. Own(messages[i]) /\ Quiet(messages[i])
        BY <2>1, <3>2, <4>1 DEF Single, Told
      <4> QED
        BY <1>1, <4>1, <4>2 DEF Told, Quiet
    <3> QED
      BY <3>1, <3>2
  <2> QED
    BY <2>3, <2>4 DEF Single, Own
<1> QED
  BY <1>4, <1>5, <1>6, <1>7 DEF IInv

\* A request that ends leaves a finished answer, and no ref or flag behind.
LEMMA Ends ==
  ASSUME IInv, NEW r \in Requests, live[r] # "none",
         Rewrites(messages, messages'),
         live' = [live EXCEPT ![r] = "none"],
         source' \in {source, None}, source = r => source' = None,
         complete' \in BOOLEAN, complete' => complete \/ source' = None,
         \/ UNCHANGED <<controller, media>> /\ live[r] \notin Medias
         \/ controller' = None /\ media' = FALSE,
         \/ UNCHANGED chat /\ live[r] \notin Chats
         \/ chat' = FALSE,
         UNCHANGED <<started, stopped, overlap>>, empty \subseteq empty',
         ~overlap /\ Held(r) => Own(messages'[Len(messages)]) /\ Quiet(messages[Len(messages)])'
  PROVE  IInv'
<1>1. Types /\ Refs /\ Born
  BY DEF IInv
<1>2. /\ messages' \in Seq(Message) /\ Len(messages') = Len(messages) /\ Len(messages) \in Nat
      /\ \A i \in 1..Len(messages) : messages'[i].id = messages[i].id /\ messages'[i].id \in started'
      /\ \A i \in 1..Len(messages) : messages'[i].from = messages[i].from
      /\ \A i \in 1..Len(messages) : i # Len(messages) => messages'[i] = messages[i]
  BY RewriteKeeps
<1>3. /\ live' \in [Requests -> Phases] /\ live'[r] = "none"
      /\ \A q \in Requests \ {r} : live'[q] = live[q]
      /\ \A q \in Requests : live'[q] # "none" => live[q] # "none"
  BY <1>1 DEF Types, Phases
<1>4. Types'
  BY <1>1, <1>2, <1>3 DEF Types
<1>5. Refs'
  <2>1. source' # None => live'[source'] \in Streams /\ ~complete'
    BY <1>1, <1>3 DEF Types, Refs
  <2>2. controller' # None => live'[controller'] \in Medias
    BY <1>1, <1>3 DEF Types, Refs
  <2>3. media' <=> controller' # None
    BY <1>1 DEF Refs
  <2>4. chat' => \E q \in Requests : live'[q] \in Chats
    BY <1>1, <1>3 DEF Refs
  <2> QED
    BY <2>1, <2>2, <2>3, <2>4 DEF Refs
<1>6. Born'
  BY <1>1, <1>2, <1>3 DEF Born
<1>7. ASSUME ~overlap' PROVE Single'
  <2>1. Single /\ ~overlap
    BY <1>7 DEF IInv
  <2>2. Held(r)
    BY <2>1 DEF Single
  <2>3. \A q \in Requests : live'[q] = "none"
    BY <1>3, <2>2 DEF Held
  <2>4. ASSUME NEW i \in 1..Len(messages') PROVE Own(messages'[i]) /\ Told(i)'
    <3>1. CASE i = Len(messages)
      BY <1>2, <2>1, <2>2, <3>1 DEF Told, Quiet
    <3>2. CASE i # Len(messages)
      <4>1. i \in 1..Len(messages) /\ messages'[i] = messages[i]
        BY <1>2, <2>4, <3>2
      <4>2. Own(messages[i]) /\ Quiet(messages[i])
        BY <2>1, <3>2, <4>1 DEF Single, Told
      <4> QED
        BY <4>1, <4>2 DEF Told, Quiet
    <3> QED
      BY <3>1, <3>2
  <2> QED
    BY <2>3, <2>4 DEF Single, Own
<1> QED
  BY <1>4, <1>5, <1>6, <1>7 DEF IInv

\* The request that is held has its answer last.
LEMMA HeldAnswer ==
  ASSUME IInv, NEW r \in Requests, ~overlap, Held(r)
  PROVE  /\ Answered(messages) /\ messages[Len(messages)].id = r
         /\ Len(messages) \in 1..Len(messages)
         /\ messages[Len(messages)].text \cap Requests \subseteq {r}
<1>1. Len(messages) \in 1..Len(messages)
  BY LenProperties DEF IInv, Types, Held
<1>2. Own(messages[Len(messages)])
  BY <1>1 DEF IInv, Single
<1> QED
  BY <1>1, <1>2 DEF Held, Answered, Own

\* A chunk is added to the answer of its own stream.
LEMMA StreamChunkKeeps ==
  ASSUME IInv, NEW r \in Requests, StreamChunk(r)
  PROVE  IInv'
<1>1. /\ messages \in Seq(Message) /\ live \in [Requests -> Phases] /\ live[r] = "stream"
      /\ messages' = WithChunk(messages, r) /\ UNCHANGED <<page, network, history>>
  BY DEF IInv, Types, StreamChunk
<1>2. /\ Rewrites(messages, messages')
      /\ Answered(messages) => messages'[Len(messages)].text \subseteq messages[Len(messages)].text \cup {r}
  BY <1>1, ChunkRewrites
<1>3. ~overlap /\ Held(r) => Own(messages'[Len(messages)])
  <2> SUFFICES ASSUME ~overlap, Held(r) PROVE Own(messages'[Len(messages)])
    OBVIOUS
  <2>1. /\ Answered(messages) /\ messages[Len(messages)].id = r
        /\ Len(messages) \in 1..Len(messages)
        /\ messages[Len(messages)].text \cap Requests \subseteq {r}
    BY HeldAnswer
  <2>2. messages'[Len(messages)].id = r
    BY <1>2, <2>1 DEF Rewrites
  <2> QED
    BY <1>2, <2>1, <2>2 DEF Own
<1>4. UNCHANGED <<source, complete, controller, media, chat, history>> /\ live' = live
  BY <1>1 DEF page, network
<1> QED
  BY <1>1, <1>2, <1>3, <1>4, Continues

\* A text that replaces the answer is the request's own; so is a notice.
LEMMA OwnText ==
  ASSUME IInv, NEW r \in Requests, ~overlap, Held(r), Rewrites(messages, messages'),
         NEW t, messages'[Len(messages)].text = t, t \cap Requests \subseteq {r}
  PROVE  Own(messages'[Len(messages)])
<1>1. messages'[Len(messages)].id = r
  BY HeldAnswer DEF Rewrites
<1> QED
  BY <1>1 DEF Own

\* The end of a stream.
LEMMA StreamDoneKeeps ==
  ASSUME IInv, NEW r \in Requests, StreamDone(r)
  PROVE  IInv'
<1>1. /\ messages \in Seq(Message) /\ live[r] = "stream" /\ r # None
      /\ messages' = WithEnd(messages) /\ complete' = TRUE /\ source' = None
      /\ UNCHANGED <<controller, media, chat, history>> /\ live' = [live EXCEPT ![r] = "none"]
  BY Distinct DEF IInv, Types, StreamDone, closeSource
<1>2. /\ Rewrites(messages, messages')
      /\ Answered(messages) => /\ messages'[Len(messages)].status \notin Unfinished
                               /\ messages'[Len(messages)].text = messages[Len(messages)].text
  BY <1>1, EndRewrites
<1>3. Len(messages') = Len(messages)
  BY <1>2 DEF Rewrites
<1>4. ASSUME ~overlap, Held(r) PROVE Own(messages'[Len(messages)]) /\ Quiet(messages[Len(messages)])'
  BY <1>2, <1>3, <1>4, HeldAnswer, OwnText DEF Quiet
<1>5. live[r] \notin {"none"} \cup Medias \cup Chats
  BY <1>1 DEF Medias, Chats
<1> QED
  BY <1>1, <1>2, <1>4, <1>5, Ends DEF history

\* An error is shown in the answer of the request.
LEMMA StreamErrorKeeps ==
  ASSUME IInv, NEW r \in Requests, StreamError(r)
  PROVE  IInv'
<1>1. /\ messages \in Seq(Message) /\ live[r] = "stream" /\ r # None /\ ~complete /\ complete \in BOOLEAN
      /\ UNCHANGED <<complete, controller, media, chat, history>> /\ live' = [live EXCEPT ![r] = "none"]
      /\ messages' = WithError(messages) /\ source' = None
  BY Distinct DEF IInv, Types, StreamError, closeSource
<1>2. live[r] \notin {"none"} \cup Medias \cup Chats
  BY <1>1 DEF Medias, Chats
<1>3. /\ Rewrites(messages, messages')
      /\ Answered(messages) => /\ messages'[Len(messages)].status = "error"
                               /\ messages'[Len(messages)].text = {Notice}
  BY <1>1, ErrorRewrites
<1>4. Len(messages') = Len(messages)
  BY <1>3 DEF Rewrites
<1>5. {Notice} \cap Requests \subseteq {r}
  BY Distinct
<1>6. ASSUME ~overlap, Held(r) PROVE Own(messages'[Len(messages)]) /\ Quiet(messages[Len(messages)])'
  BY <1>3, <1>4, <1>5, <1>6, HeldAnswer, OwnText DEF Quiet, Unfinished
<1> QED
  BY <1>1, <1>2, <1>3, <1>6, Ends DEF history

\* After a completion the page holds no source, so the one that fails is nobody's.
LEMMA SourceFailsKeeps ==
  ASSUME IInv, NEW r \in Requests, SourceFails(r)
  PROVE  IInv'
<1>1. /\ messages \in Seq(Message) /\ live[r] = "stream" /\ r # None /\ complete
      /\ UNCHANGED <<messages, source, complete, controller, media, chat, history>>
      /\ live' = [live EXCEPT ![r] = "none"]
  BY Distinct DEF IInv, Types, SourceFails, closeSource, page
<1>2. live[r] \notin {"none"} \cup Medias \cup Chats
  BY <1>1 DEF Medias, Chats
<1>3. source = None
  BY <1>1 DEF IInv, Refs
<1>4. ~Held(r)
  BY <1>1, <1>3 DEF Held, Streams
<1>5. Rewrites(messages, messages')
  BY <1>1 DEF Rewrites
<1> QED
  BY <1>1, <1>2, <1>3, <1>4, <1>5, Ends DEF history

\* A stream that ends without [DONE] is still held.
LEMMA StreamHangsKeeps ==
  ASSUME IInv, NEW r \in Requests, StreamHangs(r)
  PROVE  IInv'
<1>1. /\ messages \in Seq(Message) /\ live[r] = "stream" /\ live \in [Requests -> Phases]
      /\ UNCHANGED <<messages, page, history>> /\ live' = [live EXCEPT ![r] = "hung"]
  BY DEF IInv, Types, StreamHangs, Now
<1>2. /\ live' \in [Requests -> Phases] /\ \A q \in Requests \ {r} : live'[q] = live[q]
      /\ live[r] \in Streams /\ live'[r] \in Streams
  BY <1>1 DEF Phases, Streams
<1>3. Rewrites(messages, messages') /\ UNCHANGED <<source, complete, controller, media, chat>>
  BY <1>1 DEF Rewrites, page
<1>4. ASSUME ~overlap, Held(r) PROVE Own(messages'[Len(messages)])
  BY <1>1, <1>4, HeldAnswer DEF Own
<1> QED
  BY <1>1, <1>2, <1>3, <1>4, Continues

\* A completion, its failure, or one that came without a choice.
LEMMA ChatKeeps ==
  ASSUME IInv, NEW r \in Requests, ChatAnswered(r) \/ ChatWithoutChoice(r) \/ ChatFailed(r)
  PROVE  IInv'
<1>1. /\ messages \in Seq(Message) /\ live[r] \in Chats /\ complete \in BOOLEAN /\ chat' = FALSE
      /\ UNCHANGED <<source, complete, controller, media, started, stopped, overlap>>
      /\ live' = [live EXCEPT ![r] = "none"] /\ empty \subseteq empty'
  BY DEF IInv, Types, ChatAnswered, ChatWithoutChoice, ChatFailed, ChatSettles, Now, Chats
<1>2. /\ live[r] \notin {"none"} \cup Medias /\ live[r] \notin Streams
  BY <1>1 DEF Medias, Chats, Streams
<1>3. source # r
  BY <1>2, Distinct DEF IInv, Refs
<1> SUFFICES /\ Rewrites(messages, messages')
             /\ ~overlap /\ Held(r) => Own(messages'[Len(messages)]) /\ Quiet(messages[Len(messages)])'
  BY <1>1, <1>2, <1>3, Ends
<1>4. CASE ChatAnswered(r)
  <2>1. messages' = WithText(messages, r, "complete")
    BY <1>4 DEF ChatAnswered, ChatSettles
  <2>2. /\ Rewrites(messages, messages')
        /\ Answered(messages) => /\ messages'[Len(messages)].status = "complete"
                                 /\ messages'[Len(messages)].text = {r}
    BY <1>1, <2>1, TextRewrites
  <2>3. Len(messages') = Len(messages) /\ {r} \cap Requests \subseteq {r}
    BY <2>2 DEF Rewrites
  <2> QED
    BY <2>2, <2>3, HeldAnswer, OwnText DEF Quiet, Unfinished
<1>5. CASE ChatWithoutChoice(r)
  <2>1. UNCHANGED messages /\ r \in empty'
    BY <1>5 DEF ChatWithoutChoice, ChatSettles
  <2>2. Rewrites(messages, messages')
    BY <1>1, <2>1 DEF Rewrites
  <2> QED
    BY <2>1, <2>2, HeldAnswer DEF Quiet, Own
<1>6. CASE ChatFailed(r)
  <2>1. messages' = WithError(messages)
    BY <1>6 DEF ChatFailed, ChatSettles
  <2>2. /\ Rewrites(messages, messages')
        /\ Answered(messages) => /\ messages'[Len(messages)].status = "error"
                                 /\ messages'[Len(messages)].text = {Notice}
    BY <1>1, <2>1, ErrorRewrites
  <2>3. Len(messages') = Len(messages) /\ {Notice} \cap Requests \subseteq {r}
    BY <2>2, Distinct DEF Rewrites
  <2> QED
    BY <2>2, <2>3, HeldAnswer, OwnText DEF Quiet, Unfinished
<1> QED
  BY <1>4, <1>5, <1>6

\* The finally block: the ref and the flag go with the request.
LEMMA MediaEnds ==
  ASSUME IInv, NEW r \in Requests, live[r] \in Medias, MediaSettles(r, messages'),
         Rewrites(messages, messages'),
         ~overlap /\ Held(r) => Own(messages'[Len(messages)]) /\ Quiet(messages[Len(messages)])'
  PROVE  IInv'
<1>1. /\ complete \in BOOLEAN /\ controller' = None /\ media' = FALSE
      /\ UNCHANGED <<source, complete, chat, started, stopped, empty, overlap>>
      /\ live' = [live EXCEPT ![r] = "none"]
  BY DEF IInv, Types, MediaSettles, Now, history
<1>2. live[r] # "none" /\ live[r] \notin Chats /\ live[r] \notin Streams
  BY DEF Medias, Chats, Streams
<1>3. source # r
  BY <1>2, Distinct DEF IInv, Refs
<1> QED
  BY <1>1, <1>2, <1>3, Ends

\* A media request or its poll shows its own result and ends.
LEMMA MediaTextEnds ==
  ASSUME IInv, NEW r \in Requests, live[r] \in Medias,
         MediaSettles(r, WithText(messages, r, "complete"))
  PROVE  IInv'
<1>1. messages \in Seq(Message) /\ messages' = WithText(messages, r, "complete")
  BY DEF IInv, Types, MediaSettles
<1>2. /\ Rewrites(messages, messages')
      /\ Answered(messages) => /\ messages'[Len(messages)].status = "complete"
                               /\ messages'[Len(messages)].text = {r}
  BY <1>1, TextRewrites
<1>3. Len(messages') = Len(messages) /\ {r} \cap Requests \subseteq {r}
  BY <1>2 DEF Rewrites
<1>4. ~overlap /\ Held(r) => Own(messages'[Len(messages)]) /\ Quiet(messages[Len(messages)])'
  BY <1>2, <1>3, HeldAnswer, OwnText DEF Quiet, Unfinished
<1>5. MediaSettles(r, messages')
  BY <1>1
<1> QED
  BY <1>2, <1>4, <1>5, MediaEnds

\* Progress is shown in the own answer.
LEMMA ProgressKeeps ==
  ASSUME IInv, NEW r \in Requests, live[r] \in {"post", "poll"}, UNCHANGED <<page, history>>,
         live' = [live EXCEPT ![r] = "poll"] \/ (UNCHANGED live /\ live[r] = "poll"),
         messages' = WithText(messages, r, "streaming") \/ UNCHANGED messages
  PROVE  IInv'
<1>1. messages \in Seq(Message) /\ live \in [Requests -> Phases]
  BY DEF IInv, Types
<1>2. /\ live' \in [Requests -> Phases] /\ live'[r] = "poll"
      /\ \A q \in Requests \ {r} : live'[q] = live[q]
  BY <1>1 DEF Phases, Medias
<1>3. Rewrites(messages, messages') /\ (~overlap /\ Held(r) => Own(messages'[Len(messages)]))
  <2>1. CASE messages' = WithText(messages, r, "streaming")
    <3>1. /\ Rewrites(messages, messages')
          /\ Answered(messages) => messages'[Len(messages)].text = {r}
      BY <1>1, <2>1, TextRewrites
    <3>2. {r} \cap Requests \subseteq {r}
      OBVIOUS
    <3> QED
      BY <3>1, <3>2, HeldAnswer, OwnText
  <2>2. CASE UNCHANGED messages
    BY <1>1, <2>2, HeldAnswer DEF Rewrites, Own
  <2> QED
    BY <2>1, <2>2
<1>4. UNCHANGED <<source, complete, controller, media, chat>>
  BY DEF page
<1> QED
  BY <1>2, <1>3, <1>4, Continues

\* Every step of a media request and its poll.
LEMMA MediaKeeps ==
  ASSUME IInv, NEW r \in Requests,
         \/ MediaAnswered(r) \/ MediaFailed(r) \/ MediaAborted(r)
         \/ PollProgress(r) \/ PollRetry(r) \/ PollEnds(r)
  PROVE  IInv'
<1>1. messages \in Seq(Message)
  BY DEF IInv, Types
<1>2. CASE MediaAnswered(r)
  <2>1. live[r] = "post" /\ live[r] \in Medias
    BY <1>2 DEF MediaAnswered, Medias
  <2>2. CASE MediaSettles(r, WithText(messages, r, "complete"))
    BY <2>1, <2>2, MediaTextEnds
  <2>3. CASE messages' = WithText(messages, r, "streaming") /\ Now(r, "poll") /\ UNCHANGED <<page, history>>
    BY <2>1, <2>3, ProgressKeeps DEF Now
  <2> QED
    BY <1>2, <2>2, <2>3 DEF MediaAnswered
<1>3. CASE MediaFailed(r)
  <2>1. live[r] \in Medias /\ MediaSettles(r, WithError(messages)) /\ messages' = WithError(messages)
    BY <1>3 DEF MediaFailed, MediaSettles, Medias
  <2>2. /\ Rewrites(messages, messages')
        /\ Answered(messages) => /\ messages'[Len(messages)].status = "error"
                                 /\ messages'[Len(messages)].text = {Notice}
    BY <1>1, <2>1, ErrorRewrites
  <2>3. Len(messages') = Len(messages) /\ {Notice} \cap Requests \subseteq {r}
    BY <2>2, Distinct DEF Rewrites
  <2>4. ~overlap /\ Held(r) => Own(messages'[Len(messages)]) /\ Quiet(messages[Len(messages)])'
    BY <2>2, <2>3, HeldAnswer, OwnText DEF Quiet, Unfinished
  <2> QED
    BY <2>1, <2>2, <2>4, MediaEnds
<1>4. CASE MediaAborted(r)
  <2>1. live[r] = "aborted" /\ live[r] \in Medias /\ MediaSettles(r, messages) /\ messages' = messages
    BY <1>4 DEF MediaAborted, MediaSettles, Medias
  <2>2. Rewrites(messages, messages')
    BY <1>1, <2>1 DEF Rewrites
  <2>3. ASSUME ~overlap, Held(r) PROVE Own(messages'[Len(messages)]) /\ Quiet(messages[Len(messages)])'
    <3>1. Len(messages) \in 1..Len(messages) /\ messages[Len(messages)].id = r
      BY <2>3, HeldAnswer
    <3>2. Own(messages[Len(messages)]) /\ Told(Len(messages))
      BY <2>3, <3>1 DEF IInv, Single
    <3>3. Quiet(messages[Len(messages)]) /\ empty' = empty
      BY <2>1, <3>1, <3>2 DEF Told, MediaSettles, history
    <3> QED
      BY <2>1, <3>2, <3>3 DEF Own, Quiet
  <2> QED
    BY <2>1, <2>2, <2>3, MediaEnds
<1>5. CASE PollProgress(r) \/ PollRetry(r)
  BY <1>5, ProgressKeeps DEF PollProgress, PollRetry, PollTurn
<1>6. CASE PollEnds(r)
  BY <1>6, MediaTextEnds DEF PollEnds, Medias
<1> QED
  BY <1>2, <1>3, <1>4, <1>5, <1>6

-----------------------------------------------------------------------------
(* The user.                                                                *)

\* Nothing is under way on a page that is not generating.
LEMMA NothingUnderWay ==
  ASSUME IInv, ~overlap, ~IsGenerating
  PROVE  /\ \A r \in Requests : live[r] = "none"
         /\ \A i \in 1..Len(messages) : Own(messages[i]) /\ Quiet(messages[i])
         /\ source = None /\ controller = None /\ ~media /\ ~chat
<1>1. Types /\ Refs /\ Born /\ Single /\ source = None /\ ~media /\ ~chat /\ controller = None
  BY DEF IInv, IsGenerating, Refs
<1>2. ASSUME NEW r \in Requests PROVE live[r] = "none"
  BY <1>1, Distinct DEF Single, Held, Types, Phases
<1>3. ASSUME NEW i \in 1..Len(messages) PROVE Own(messages[i]) /\ Quiet(messages[i])
  <2>1. messages[i].id \in Requests
    BY <1>1 DEF Born, Types
  <2> QED
    BY <1>1, <1>2, <2>1 DEF Single, Told
<1> QED
  BY <1>1, <1>2, <1>3

\* The stop button finishes the answer; its request ends or is aborted.
LEMMA StopKeeps ==
  ASSUME IInv, stopGeneration
  PROVE  IInv'
<1>1. /\ Types /\ Refs /\ Born /\ CanStop /\ source' = None /\ messages' = WithEnd(messages)
      /\ live' = [r \in Requests |-> IF r = source THEN "none"
                                     ELSE IF r = controller THEN "aborted" ELSE live[r]]
      /\ stopped' = IF messages # <<>> /\ Last(messages).from = "assistant"
                      THEN stopped \cup {Last(messages).id} ELSE stopped
      /\ UNCHANGED <<complete, controller, media, chat, started, empty, overlap>>
  BY DEF IInv, stopGeneration
<1>2. messages \in Seq(Message) /\ Rewrites(messages, messages')
  BY <1>1, EndRewrites DEF Types
<1>3. /\ messages' \in Seq(Message) /\ Len(messages') = Len(messages) /\ Len(messages) \in Nat
      /\ \A i \in 1..Len(messages) : messages'[i].id = messages[i].id /\ messages'[i].id \in started'
      /\ \A i \in 1..Len(messages) : messages'[i].from = messages[i].from
      /\ \A i \in 1..Len(messages) : i # Len(messages) => messages'[i] = messages[i]
  BY <1>1, <1>2, RewriteKeeps
<1>4. (messages # <<>> <=> Len(messages) # 0) /\ Last(messages) = messages[Len(messages)]
  BY <1>2, EmptySeq DEF Last
<1>5. Types'
  <2>1. live' \in [Requests -> Phases]
    BY <1>1 DEF Types, Phases, Medias
  <2> QED
    BY <1>1, <1>3, <2>1 DEF Types
<1>6. Refs'
  <2>1. controller' # None => live'[controller'] \in Medias
    BY <1>1 DEF Types, Refs, Streams, Medias
  <2>2. chat' => \E r \in Requests : live'[r] \in Chats
    <3> SUFFICES ASSUME chat PROVE \E r \in Requests : live'[r] \in Chats
      BY <1>1
    <3>1. PICK r \in Requests : live[r] \in Chats
      BY <1>1 DEF Refs
    <3>2. r # source /\ r # controller
      BY <1>1, <3>1, Distinct DEF Refs, Chats, Streams, Medias
    <3> QED
      BY <1>1, <3>1, <3>2
  <2> QED
    BY <1>1, <2>1, <2>2 DEF Refs
<1>7. Born'
  <2>1. \A r \in Requests : live'[r] # "none" => r \in started'
    BY <1>1, Distinct DEF Types, Refs, Born, Medias
  <2>2. stopped' \subseteq started'
    BY <1>1, <1>3, <1>4 DEF Born
  <2> QED
    BY <1>3, <2>1, <2>2 DEF Born
<1>8. ASSUME ~overlap' PROVE Single'
  <2>1. Single /\ ~overlap
    BY <1>1, <1>8 DEF IInv
  <2>2. PICK r \in Requests : live[r] # "none" /\ (r = source \/ r = controller)
    BY <1>1 DEF CanStop, Refs, Types, Streams, Medias
  <2>3. Held(r)
    BY <2>1, <2>2 DEF Single
  <2>4. /\ Answered(messages) /\ messages[Len(messages)].id = r
        /\ Len(messages) \in 1..Len(messages)
        /\ messages[Len(messages)].text \cap Requests \subseteq {r}
    BY <2>1, <2>3, HeldAnswer
  <2>5. /\ messages'[Len(messages)].status \notin Unfinished
        /\ messages'[Len(messages)].text = messages[Len(messages)].text
    BY <1>1, <1>2, <2>4, EndRewrites
  <2>6. /\ \A q \in Requests : live'[q] # "none" => q = r
        /\ live'[r] \in {"none", "aborted"} /\ (live'[r] # "none" => controller = r)
    BY <1>1, <2>2, <2>3, Distinct DEF Held, Refs, Medias, Types
  <2>7. ASSUME NEW q \in Requests, live'[q] # "none" PROVE Held(q)'
    <3>1. q = r /\ live'[r] = "aborted" /\ controller' = r
      BY <1>1, <2>6, <2>7
    <3>2. /\ Len(messages') # 0 /\ messages'[Len(messages')].from = "assistant"
          /\ messages'[Len(messages')].id = r
      BY <1>3, <2>4 DEF Answered
    <3> QED
      BY <2>6, <3>1, <3>2 DEF Held, Streams, Chats
  <2>8. ASSUME NEW i \in 1..Len(messages') PROVE Own(messages'[i]) /\ Told(i)'
    <3>1. CASE i = Len(messages)
      BY <1>3, <2>4, <2>5, <3>1 DEF Told, Quiet, Own
    <3>2. CASE i # Len(messages)
      <4>1. i \in 1..Len(messages) /\ messages'[i] = messages[i]
        BY <1>3, <2>8, <3>2
      <4>2. Own(messages[i]) /\ Quiet(messages[i])
        BY <2>1, <3>2, <4>1 DEF Single, Told
      <4> QED
        BY <1>1, <4>1, <4>2 DEF Told, Quiet
    <3> QED
      BY <3>1, <3>2
  <2> QED
    BY <2>7, <2>8 DEF Single, Own
<1> QED
  BY <1>5, <1>6, <1>7, <1>8 DEF IInv

\* The message of the edit box and the conversation that is loaded.
LEMMA Sanitized ==
  ASSUME NEW ms \in Seq(Message)
  PROVE  LET u == sanitizeMessagesOnLoad(ms)
         IN  /\ u \in Seq(Message) /\ Len(u) = Len(ms)
             /\ \A i \in 1..Len(ms) : /\ u[i].from = ms[i].from /\ u[i].id = ms[i].id
                                      /\ u[i].text = ms[i].text \/ u[i].text = {Notice}
                                      /\ u[i] = ms[i] \/ u[i].status \notin Unfinished
             /\ Answered(ms) => u[Len(ms)].status \notin Unfinished
<1> DEFINE stuck == {i \in DOMAIN ms : ms[i].from = "assistant" /\ ms[i].status \in Unfinished}
           Settled(m) == IF m.text # {} THEN [m EXCEPT !.status = "complete"]
                         ELSE [m EXCEPT !.status = "error", !.text = {Notice}]
           k == CHOOSE i \in stuck : \A j \in stuck : j <= i
           u == sanitizeMessagesOnLoad(ms)
<1>1. Len(ms) \in Nat /\ DOMAIN ms = 1..Len(ms)
  BY LenProperties
<1>2. u = IF stuck = {} THEN ms ELSE [ms EXCEPT ![k] = Settled(ms[k])]
  BY DEF sanitizeMessagesOnLoad
<1>3. ASSUME NEW m \in Message
      PROVE  /\ Settled(m) \in Message /\ Settled(m).from = m.from /\ Settled(m).id = m.id
             /\ Settled(m).status \notin Unfinished
             /\ Settled(m).text = m.text \/ Settled(m).text = {Notice}
  <2>1. {Notice} \in SUBSET (Requests \cup {Notice, Words})
    OBVIOUS
  <2> QED
    BY <1>3, <2>1 DEF Message, Unfinished
<1>4. Answered(ms) /\ Len(ms) \notin stuck => ms[Len(ms)].status \notin Unfinished
  BY <1>1 DEF Answered
<1>5. Len(ms) \in stuck => k = Len(ms)
  <2> SUFFICES ASSUME Len(ms) \in stuck PROVE k = Len(ms)
    OBVIOUS
  <2>1. stuck \subseteq 1..Len(ms)
    BY <1>1
  <2>2. \E i \in stuck : \A j \in stuck : j <= i
    BY <1>1, <2>1
  <2> HIDE DEF stuck
  <2>3. k \in stuck /\ \A j \in stuck : j <= k
    BY <2>2
  <2> HIDE DEF k
  <2>4. k \in 1..Len(ms)
    BY <2>1, <2>3
  <2>5. Len(ms) <= k
    BY <2>3
  <2>6. \A n \in Nat : \A x \in 1..n : n <= x => x = n
    OBVIOUS
  <2> QED
    BY <1>1, <2>4, <2>5, <2>6
<1> HIDE DEF u, k, stuck, Settled
<1>6. CASE stuck # {} /\ k \in 1..Len(ms)
  <2>1. ms[k] \in Message
    BY <1>6, ElementOfSeq
  <2>2. Settled(ms[k]) \in Message
    BY <1>3, <2>1
  <2>3. /\ u \in Seq(Message) /\ Len(u) = Len(ms)
        /\ \A j \in 1..Len(ms) : u[j] = IF j = k THEN Settled(ms[k]) ELSE ms[j]
    BY <1>2, <1>6, <2>2, ExceptSeq
  <2>4. Answered(ms) => u[Len(ms)].status \notin Unfinished
    <3>1. Answered(ms) => Len(ms) \in 1..Len(ms)
      BY <1>1 DEF Answered
    <3> QED
      BY <1>3, <1>4, <1>5, <2>1, <2>3, <3>1
  <2> QED
    BY <1>3, <2>1, <2>3, <2>4 DEF u
<1>7. CASE stuck = {} \/ k \notin 1..Len(ms)
  <2>1. u = ms
    BY <1>1, <1>2, <1>7
  <2>2. Len(ms) \notin stuck
    BY <1>5, <1>7, <1>1 DEF stuck
  <2> QED
    BY <1>4, <2>1, <2>2 DEF u
<1> QED
  BY <1>6, <1>7

\* A reload ends every request and finishes the last unfinished answer, which
\* is the only one.
LEMMA ReloadKeeps ==
  ASSUME IInv, Reload
  PROVE  IInv'
<1>1. /\ Types /\ Refs /\ Born /\ messages' = sanitizeMessagesOnLoad(messages)
      /\ source' = None /\ controller' = None /\ complete' = FALSE /\ media' = FALSE /\ chat' = FALSE
      /\ live' = [r \in Requests |-> "none"]
      /\ UNCHANGED <<started, stopped, empty, overlap>>
  BY DEF IInv, Reload, history
<1>2. messages \in Seq(Message) /\ Len(messages) \in Nat
  BY <1>1, LenProperties DEF Types
<1>3. /\ messages' \in Seq(Message) /\ Len(messages') = Len(messages)
      /\ \A i \in 1..Len(messages) :
            /\ messages'[i].from = messages[i].from /\ messages'[i].id = messages[i].id
            /\ messages'[i].text = messages[i].text \/ messages'[i].text = {Notice}
            /\ messages'[i] = messages[i] \/ messages'[i].status \notin Unfinished
      /\ Answered(messages) => messages'[Len(messages)].status \notin Unfinished
  BY <1>1, <1>2, Sanitized
<1>4. Types' /\ Refs' /\ Born'
  BY <1>1, <1>3 DEF Types, Phases, Refs, Born
<1>5. ASSUME ~overlap' PROVE Single'
  <2>1. Single
    BY <1>1, <1>5 DEF IInv
  <2>2. ASSUME NEW i \in 1..Len(messages') PROVE Own(messages'[i]) /\ Told(i)'
    <3>1. i \in 1..Len(messages) /\ Own(messages[i]) /\ Told(i)
      BY <1>3, <2>1, <2>2 DEF Single
    <3>2. Own(messages'[i])
      BY <1>3, <3>1, Distinct DEF Own
    <3>3. Quiet(messages[i])'
      <4>1. CASE Quiet(messages[i])
        BY <1>1, <1>3, <3>1, <4>1 DEF Quiet
      <4>2. CASE i = Len(messages)
        BY <1>2, <1>3, <3>1, <4>2 DEF Quiet, Answered
      <4> QED
        BY <3>1, <4>1, <4>2 DEF Told
    <3> QED
      BY <3>2, <3>3 DEF Told
  <2> QED
    BY <1>1, <2>2 DEF Single, Own
<1> QED
  BY <1>4, <1>5 DEF IInv

\* The edit box.
LEMMA EditKeeps ==
  ASSUME IInv, NEW i \in DOMAIN messages, applyEditSave(i)
  PROVE  IInv'
<1>1. /\ Types /\ Refs /\ Born /\ UNCHANGED <<source, complete, controller, media, chat, live>>
      /\ UNCHANGED <<started, stopped, empty, overlap>>
      /\ messages' = [messages EXCEPT ![i].text = {Words}]
  BY DEF IInv, applyEditSave, network, history
<1>2. messages \in Seq(Message) /\ Len(messages) \in Nat /\ i \in 1..Len(messages)
  BY <1>1, LenProperties DEF Types
<1> DEFINE m == [messages[i] EXCEPT !.text = {Words}]
<1>3. m \in Message /\ m.from = messages[i].from /\ m.id = messages[i].id
      /\ m.status = messages[i].status /\ m.text = {Words}
  <2>1. messages[i] \in Message /\ {Words} \in SUBSET (Requests \cup {Notice, Words})
    BY <1>2, ElementOfSeq
  <2> QED
    BY <2>1 DEF Message
<1>4. messages' = [messages EXCEPT ![i] = m]
  BY <1>1
<1> HIDE DEF m
<1>5. /\ messages' \in Seq(Message) /\ Len(messages') = Len(messages)
      /\ \A j \in 1..Len(messages) : messages'[j] = IF j = i THEN m ELSE messages[j]
  BY <1>2, <1>3, <1>4, ExceptSeq
<1>6. \A j \in 1..Len(messages) :
         /\ messages'[j].from = messages[j].from /\ messages'[j].id = messages[j].id
         /\ messages'[j].status = messages[j].status
         /\ messages'[j].text = messages[j].text \/ messages'[j].text = {Words}
  BY <1>3, <1>5
<1>7. Types' /\ Refs' /\ Born'
  BY <1>1, <1>5, <1>6 DEF Types, Refs, Born
<1>8. ASSUME ~overlap' PROVE Single'
  <2>1. Single
    BY <1>1, <1>8 DEF IInv
  <2>2. ASSUME NEW r \in Requests, live'[r] # "none" PROVE Held(r)'
    <3>1. Held(r)
      BY <1>1, <2>1, <2>2 DEF Single
    <3>2. Len(messages) \in 1..Len(messages)
      BY <1>2, <3>1 DEF Held
    <3> QED
      BY <1>1, <1>5, <1>6, <3>1, <3>2 DEF Held
  <2>3. ASSUME NEW j \in 1..Len(messages') PROVE Own(messages'[j]) /\ Told(j)'
    <3>1. j \in 1..Len(messages) /\ Own(messages[j]) /\ Told(j)
      BY <1>5, <2>1, <2>3 DEF Single
    <3>2. Own(messages'[j])
      BY <1>6, <3>1, Distinct DEF Own
    <3>3. Told(j)'
      BY <1>1, <1>5, <1>6, <3>1 DEF Told, Quiet
    <3> QED
      BY <3>2, <3>3
  <2> QED
    BY <2>2, <2>3 DEF Single, Own
<1> QED
  BY <1>7, <1>8 DEF IInv

\* Opening and closing the edit box changes nothing else.
LEMMA EditBoxKeeps ==
  ASSUME IInv, handleEditOpenChange \/ \E i \in DOMAIN messages : handleEditMessage(i)
  PROVE  IInv'
<1>1. UNCHANGED <<messages, source, complete, controller, media, chat, live>>
      /\ UNCHANGED <<started, stopped, empty, overlap>>
  BY DEF handleEditOpenChange, handleEditMessage, network, history
<1> QED
  BY <1>1 DEF IInv, Types, Refs, Born, Single, Held, Own, Told, Quiet

\* A part of a conversation holds nothing new.
Part(u, ms) ==
    /\ u \in Seq(Message) /\ Len(u) \in Nat
    /\ \A j \in 1..Len(u) : \E k \in 1..Len(ms) : u[j] = ms[k]

LEMMA SubSeqPart ==
  ASSUME NEW ms \in Seq(Message), NEW a \in Nat, NEW b \in Nat, 1 <= a, b <= Len(ms)
  PROVE  Part(SubSeq(ms, a, b), ms)
<1>1. \A i \in a..b : ms[i] \in Message
  BY ElementOfSeq, LenProperties
<1>2. /\ SubSeq(ms, a, b) \in Seq(Message)
      /\ Len(SubSeq(ms, a, b)) = IF a <= b THEN b - a + 1 ELSE 0
      /\ \A i \in 1..(b - a + 1) : SubSeq(ms, a, b)[i] = ms[a + i - 1]
  BY <1>1, SubSeqProperties
<1>3. Len(ms) \in Nat
  BY LenProperties
<1>4. ASSUME NEW j \in 1..Len(SubSeq(ms, a, b)) PROVE \E k \in 1..Len(ms) : SubSeq(ms, a, b)[j] = ms[k]
  <2>1. j \in 1..(b - a + 1) /\ a + j - 1 \in 1..Len(ms)
    BY <1>2, <1>3, <1>4
  <2> QED
    BY <1>2, <2>1
<1> QED
  BY <1>2, <1>3, <1>4 DEF Part

LEMMA RemoveAtPart ==
  ASSUME NEW ms \in Seq(Message), NEW i \in 1..Len(ms)
  PROVE  Part(RemoveAt(ms, i), ms)
<1> DEFINE u == SubSeq(ms, 1, i - 1)
           v == SubSeq(ms, i + 1, Len(ms))
<1>1. Len(ms) \in Nat /\ i - 1 \in Nat /\ i + 1 \in Nat /\ i - 1 <= Len(ms) /\ 1 <= i + 1
  BY LenProperties
<1>2. Part(u, ms) /\ Part(v, ms)
  BY <1>1, SubSeqPart
<1>3. RemoveAt(ms, i) = u \o v
  BY DEF RemoveAt
<1> HIDE DEF u, v
<1>4. /\ u \o v \in Seq(Message) /\ Len(u \o v) = Len(u) + Len(v)
      /\ \A j \in 1..Len(u) + Len(v) : (u \o v)[j] = IF j <= Len(u) THEN u[j] ELSE v[j - Len(u)]
  BY <1>2, ConcatProperties DEF Part
<1>5. ASSUME NEW j \in 1..Len(u) + Len(v) PROVE \E k \in 1..Len(ms) : (u \o v)[j] = ms[k]
  <2>1. CASE j <= Len(u)
    BY <1>2, <1>4, <1>5, <2>1 DEF Part
  <2>2. CASE ~(j <= Len(u))
    <3>1. j - Len(u) \in 1..Len(v)
      BY <1>2, <1>5, <2>2 DEF Part
    <3> QED
      BY <1>2, <1>4, <1>5, <2>2, <3>1 DEF Part
  <2> QED
    BY <2>1, <2>2
<1> QED
  BY <1>2, <1>3, <1>4, <1>5 DEF Part

\* A message is deleted only while nothing is under way.
LEMMA DeleteKeeps ==
  ASSUME IInv, NEW i \in DOMAIN messages, handleDeleteMessage(i)
  PROVE  IInv'
<1>1. /\ Types /\ Refs /\ Born /\ UNCHANGED <<source, complete, controller, media, chat, live>>
      /\ UNCHANGED <<started, stopped, empty, overlap>> /\ ~IsGenerating
      /\ messages' = RemoveAt(messages, i)
  BY DEF IInv, handleDeleteMessage, page, network, history
<1>2. messages \in Seq(Message) /\ i \in 1..Len(messages)
  BY <1>1, LenProperties DEF Types
<1>3. Part(messages', messages)
  BY <1>1, <1>2, RemoveAtPart
<1>4. Types' /\ Refs' /\ Born'
  BY <1>1, <1>3 DEF Types, Refs, Born, Part
<1>5. ASSUME ~overlap' PROVE Single'
  <2>1. /\ \A r \in Requests : live[r] = "none"
        /\ \A k \in 1..Len(messages) : Own(messages[k]) /\ Quiet(messages[k])
    BY <1>1, <1>5, NothingUnderWay
  <2> QED
    BY <1>1, <1>3, <2>1 DEF Single, Own, Told, Quiet, Part
<1> QED
  BY <1>4, <1>5 DEF IInv

\* A request begins with its own unfinished answer as the last message.
Opens(r, ms) ==
    /\ ms \in Seq(Message) /\ Len(ms) # 0 /\ ms[Len(ms)] = createLoadingAssistantMessage(r)
    /\ \A j \in 1..Len(ms) : ms[j].id \in started \cup {r}
    /\ ~overlap /\ ~IsGenerating =>
          \A j \in 1..Len(ms) : Own(ms[j]) /\ (j # Len(ms) => Quiet(ms[j]))

\* A request that was sent.
LEMMA SentKeeps ==
  ASSUME IInv, NEW r \in Requests, r \notin started, started' = started \cup {r},
         NEW ms, Opens(r, ms), messages' = ms,
         NEW p \in {"stream", "chat", "responses", "post"}, live' = [live EXCEPT ![r] = p],
         IF p = "stream" THEN source' = r /\ complete' = FALSE ELSE UNCHANGED <<source, complete>>,
         IF p \in Chats THEN chat' = TRUE ELSE UNCHANGED chat,
         IF p = "post" THEN media' = TRUE /\ controller' = r ELSE UNCHANGED <<media, controller>>,
         UNCHANGED <<stopped, empty>>, overlap' \in BOOLEAN, ~overlap' => ~overlap /\ ~IsGenerating
  PROVE  IInv'
<1>1. Types /\ Refs /\ Born /\ live[r] = "none"
  BY DEF IInv, Born
<1>2. live' \in [Requests -> Phases] /\ live'[r] = p /\ \A q \in Requests \ {r} : live'[q] = live[q]
  BY <1>1 DEF Types, Phases, Streams, Chats, Medias
<1>3. Types'
  BY <1>1, <1>2 DEF Types, Opens, Chats
<1>4. Refs'
  <2>1. source' # None => live'[source'] \in Streams /\ ~complete'
    BY <1>1, <1>2 DEF Types, Refs, Streams
  <2>2. controller' # None => live'[controller'] \in Medias
    BY <1>1, <1>2 DEF Types, Refs, Medias
  <2>3. media' <=> controller' # None
    BY <1>1, Distinct DEF Refs
  <2>4. chat' => \E q \in Requests : live'[q] \in Chats
    BY <1>1, <1>2 DEF Refs, Chats
  <2> QED
    BY <2>1, <2>2, <2>3, <2>4 DEF Refs
<1>5. Born'
  BY <1>1, <1>2 DEF Born, Opens
<1>6. ASSUME ~overlap' PROVE Single'
  <2>1. ~overlap /\ ~IsGenerating /\ \A q \in Requests : live[q] = "none"
    BY <1>6, NothingUnderWay
  <2>2. messages'[Len(messages')].from = "assistant" /\ messages'[Len(messages')].id = r
    BY DEF Opens, createLoadingAssistantMessage
  <2>3. r \notin stopped'
    BY <1>1 DEF Born
  <2>4. Held(r)' /\ \A q \in Requests : live'[q] # "none" => q = r
    BY <1>2, <2>1, <2>2, <2>3 DEF Held, Opens, Streams, Chats, Medias
  <2>5. ASSUME NEW j \in 1..Len(messages') PROVE Own(messages'[j]) /\ Told(j)'
    <3>1. Own(ms[j]) /\ (j # Len(ms) => Quiet(ms[j]))
      BY <2>1, <2>5 DEF Opens
    <3> QED
      BY <1>2, <2>2, <3>1 DEF Told, Quiet
  <2> QED
    BY <2>4, <2>5 DEF Single, Own
<1> QED
  BY <1>3, <1>4, <1>5, <1>6 DEF IInv

\* A stream that could not be started leaves an error.
LEMMA NotSentKeeps ==
  ASSUME IInv, NEW r \in Requests, r \notin started, started' = started \cup {r},
         NEW ms, Opens(r, ms), messages' = WithError(ms), UNCHANGED live,
         \/ UNCHANGED <<source, complete>>
         \/ source' = None /\ complete' = FALSE,
         UNCHANGED <<controller, media, chat>>,
         UNCHANGED <<stopped, empty>>, overlap' \in BOOLEAN, ~overlap' => ~overlap /\ ~IsGenerating
  PROVE  IInv'
<1>1. Types /\ Refs /\ Born
  BY DEF IInv
<1>2. /\ ms \in Seq(Message) /\ Len(ms) \in Nat /\ Len(ms) \in 1..Len(ms)
      /\ Answered(ms) /\ ms[Len(ms)].id = r
  BY LenProperties DEF Opens, Answered, createLoadingAssistantMessage
<1>3. /\ Rewrites(ms, messages')
      /\ messages'[Len(ms)].status = "error" /\ messages'[Len(ms)].text = {Notice}
  BY <1>2, ErrorRewrites
<1>4. /\ messages' \in Seq(Message) /\ Len(messages') = Len(ms)
      /\ \A j \in 1..Len(ms) : messages'[j].id = ms[j].id
      /\ \A j \in 1..Len(ms) : j # Len(ms) => messages'[j] = ms[j]
  BY <1>3 DEF Rewrites
<1>5. Types' /\ Refs'
  <2>1. Types'
    BY <1>1, <1>4 DEF Types
  <2>2. source' # None => live'[source'] \in Streams /\ ~complete'
    BY <1>1 DEF Refs
  <2> QED
    BY <1>1, <2>1, <2>2 DEF Refs
<1>6. Born'
  BY <1>1, <1>4 DEF Born, Opens
<1>7. ASSUME ~overlap' PROVE Single'
  <2>1. ~overlap /\ ~IsGenerating /\ \A q \in Requests : live[q] = "none"
    BY <1>7, NothingUnderWay
  <2>2. ASSUME NEW j \in 1..Len(messages') PROVE Own(messages'[j]) /\ Quiet(messages[j])'
    <3>1. CASE j = Len(ms)
      BY <1>2, <1>3, <3>1, Distinct DEF Own, Quiet, Unfinished
    <3>2. CASE j # Len(ms)
      <4>1. Own(ms[j]) /\ Quiet(ms[j]) /\ messages'[j] = ms[j]
        BY <1>4, <2>1, <2>2, <3>2 DEF Opens
      <4> QED
        BY <4>1 DEF Quiet
    <3> QED
      BY <3>1, <3>2
  <2> QED
    BY <2>1, <2>2 DEF Single, Told, Own
<1> QED
  BY <1>5, <1>6, <1>7 DEF IInv

\* Whatever kind of request the configuration chooses.
LEMMA SendKeeps ==
  ASSUME IInv, NEW r \in Requests, NEW ms, Opens(r, ms), sendChat(r, ms),
         UNCHANGED <<stopped, empty>>, overlap' \in BOOLEAN, ~overlap' => ~overlap /\ ~IsGenerating
  PROVE  IInv'
<1>1. r \notin started /\ started' = started \cup {r}
  BY DEF sendChat
<1>2. CASE sendStreamingChat(r, ms)
  <2>1. UNCHANGED <<controller, media, chat>>
    BY <1>2 DEF sendStreamingChat
  <2>2. CASE messages' = ms /\ source' = r /\ complete' = FALSE /\ Now(r, "stream")
    BY <1>1, <2>1, <2>2, SentKeeps DEF Now, Chats
  <2>3. CASE messages' = WithError(ms) /\ UNCHANGED <<source, complete, live>>
    BY <1>1, <2>1, <2>3, NotSentKeeps
  <2>4. CASE messages' = WithError(ms) /\ source' = None /\ complete' = FALSE /\ UNCHANGED live
    BY <1>1, <2>1, <2>4, NotSentKeeps
  <2> QED
    BY <1>2, <2>2, <2>3, <2>4 DEF sendStreamingChat
<1>3. CASE sendNonStreamingChat(r, ms)
  <2>1. PICK p \in Chats : live' = [live EXCEPT ![r] = p]
    BY <1>3 DEF sendNonStreamingChat, Now, Chats
  <2>2. p \in {"stream", "chat", "responses", "post"} /\ p # "stream" /\ p # "post"
    BY <2>1 DEF Chats
  <2>3. messages' = ms /\ chat' = TRUE /\ UNCHANGED <<source, complete, controller, media>>
    BY <1>3 DEF sendNonStreamingChat
  <2> QED
    BY <1>1, <2>1, <2>2, <2>3, SentKeeps
<1>4. CASE sendMediaGeneration(r, ms)
  BY <1>1, <1>4, SentKeeps DEF sendMediaGeneration, Now, Chats
<1> QED
  BY <1>2, <1>3, <1>4 DEF sendChat

\* A part of the conversation with a new question and a new answer.
LEMMA PartOpens ==
  ASSUME IInv, NEW r \in Requests, NEW u, Part(u, messages),
         NEW v \in {<<createLoadingAssistantMessage(r)>>,
                    <<UserMessage(r), createLoadingAssistantMessage(r)>>}
  PROVE  Opens(r, u \o v)
<1> DEFINE a == createLoadingAssistantMessage(r)
           q == UserMessage(r)
<1>1. /\ a \in Message /\ a.id = r /\ a.from = "assistant" /\ a.text = {}
      /\ q \in Message /\ q.id = r /\ q.from = "user"
  BY DEF createLoadingAssistantMessage, UserMessage, Message
<1> HIDE DEF a, q
<1>2. /\ v \in Seq(Message) /\ Len(v) \in {1, 2} /\ v[Len(v)] = a
      /\ \A j \in 1..Len(v) : j # Len(v) => v[j] = q
  <2>1. CASE v = <<a>>
    BY <1>1, <2>1
  <2>2. CASE v = <<q, a>>
    BY <1>1, <2>2
  <2> QED
    BY <2>1, <2>2 DEF a, q
<1>3. u \in Seq(Message) /\ Len(u) \in Nat
  BY DEF Part
<1>4. /\ u \o v \in Seq(Message) /\ Len(u \o v) = Len(u) + Len(v)
      /\ \A j \in 1..Len(u) + Len(v) : (u \o v)[j] = IF j <= Len(u) THEN u[j] ELSE v[j - Len(u)]
  BY <1>2, <1>3, ConcatProperties
<1>5. (u \o v)[Len(u \o v)] = a /\ Len(u \o v) # 0
  BY <1>2, <1>3, <1>4
<1>6. ASSUME NEW j \in 1..Len(u \o v)
      PROVE  \/ \E k \in 1..Len(messages) : (u \o v)[j] = messages[k]
             \/ (u \o v)[j] = q
             \/ j = Len(u \o v) /\ (u \o v)[j] = a
  <2>1. CASE j <= Len(u)
    BY <1>3, <1>4, <1>6, <2>1 DEF Part
  <2>2. CASE ~(j <= Len(u))
    <3>1. j - Len(u) \in 1..Len(v) /\ (j - Len(u) = Len(v) <=> j = Len(u \o v))
      BY <1>2, <1>3, <1>4, <1>6, <2>2
    <3> QED
      BY <1>2, <1>4, <1>6, <2>2, <3>1
  <2> QED
    BY <2>1, <2>2
<1>7. \A j \in 1..Len(u \o v) : (u \o v)[j].id \in started \cup {r}
  BY <1>1, <1>6 DEF IInv, Born
<1>8. ASSUME ~overlap, ~IsGenerating, NEW j \in 1..Len(u \o v)
      PROVE  Own((u \o v)[j]) /\ (j # Len(u \o v) => Quiet((u \o v)[j]))
  <2>1. \A k \in 1..Len(messages) : Own(messages[k]) /\ Quiet(messages[k])
    BY <1>8, NothingUnderWay
  <2>2. Own(a) /\ Own(q) /\ Quiet(q)
    BY <1>1 DEF Own, Quiet
  <2> QED
    BY <1>6, <1>8, <2>1, <2>2
<1> QED
  BY <1>4, <1>5, <1>7, <1>8 DEF Opens, a

\* The three ways to ask for an answer.
LEMMA AskKeeps ==
  ASSUME IInv, NEW r \in Requests,
         \/ handleSendMessage(r)
         \/ \E i \in DOMAIN messages : handleRegenerateMessage(r, i) \/ applyEditSubmit(r, i)
  PROVE  IInv'
<1>1. messages \in Seq(Message) /\ Len(messages) \in Nat /\ DOMAIN messages = 1..Len(messages)
      /\ overlap \in BOOLEAN
  BY LenProperties DEF IInv, Types
<1>2. CASE handleSendMessage(r)
  <2>1. Part(messages, messages)
    BY <1>1 DEF Part
  <2>2. Opens(r, messages \o <<UserMessage(r), createLoadingAssistantMessage(r)>>)
    BY <2>1, PartOpens
  <2> QED
    BY <1>1, <1>2, <2>2, SendKeeps DEF handleSendMessage
<1>3. ASSUME NEW i \in DOMAIN messages, handleRegenerateMessage(r, i) PROVE IInv'
  <2>1. i - 1 \in Nat /\ i - 1 <= Len(messages)
    BY <1>1, <1>3
  <2>2. Part(SubSeq(messages, 1, i - 1), messages)
    BY <1>1, <2>1, SubSeqPart
  <2>3. Opens(r, SubSeq(messages, 1, i - 1) \o <<createLoadingAssistantMessage(r)>>)
    BY <2>2, PartOpens
  <2> QED
    BY <1>1, <1>3, <2>3, SendKeeps DEF handleRegenerateMessage
<1>4. ASSUME NEW i \in DOMAIN messages, applyEditSubmit(r, i) PROVE IInv'
  <2>1. i \in Nat /\ i <= Len(messages)
    BY <1>1, <1>4
  <2>2. Part(SubSeq(messages, 1, i), messages)
    BY <1>1, <2>1, SubSeqPart
  <2>3. Opens(r, SubSeq(messages, 1, i) \o <<createLoadingAssistantMessage(r)>>)
    BY <2>2, PartOpens
  <2>4. IsGenerating \in BOOLEAN
    BY DEF IInv, Types, IsGenerating
  <2>5. overlap' \in BOOLEAN /\ (~overlap' => ~overlap /\ ~IsGenerating)
    BY <1>1, <1>4, <2>4 DEF applyEditSubmit
  <2> QED
    BY <1>4, <2>3, <2>5, SendKeeps DEF applyEditSubmit
<1> QED
  BY <1>2, <1>3, <1>4

-----------------------------------------------------------------------------
(* The specification.                                                       *)

\* An empty page.
LEMMA PageInit == Init => IInv
<1> SUFFICES ASSUME Init PROVE IInv
  OBVIOUS
<1>1. messages = <<>> /\ messages \in Seq(Message) /\ Len(messages) = 0
  BY EmptySeq DEF Init
<1>2. Types
  BY <1>1 DEF Init, Types, Phases
<1>3. Refs /\ Born /\ Single
  BY <1>1 DEF Init, Refs, Born, Single
<1> QED
  BY <1>2, <1>3 DEF IInv

\* Every step of the user and of the requests.
LEMMA PageStep == IInv /\ [Next]_vars => IInv'
<1> SUFFICES ASSUME IInv, [Next]_vars PROVE IInv'
  OBVIOUS
<1>1. CASE User
  BY <1>1, AskKeeps, EditKeeps, EditBoxKeeps, DeleteKeeps, StopKeeps, ReloadKeeps DEF User
<1>2. ASSUME NEW r \in Requests, StreamChunk(r) \/ Settle(r) PROVE IInv'
  BY <1>2, StreamChunkKeeps, StreamDoneKeeps, StreamErrorKeeps, SourceFailsKeeps, StreamHangsKeeps, ChatKeeps, MediaKeeps
     DEF Settle
<1>3. CASE UNCHANGED vars
  <2>1. UNCHANGED <<messages, source, complete, controller, media, chat, live>>
        /\ UNCHANGED <<started, stopped, empty, overlap>>
    BY <1>3 DEF vars, page, network, history
  <2> QED
    BY <2>1 DEF IInv, Types, Refs, Born, Single, Held, Own, Told, Quiet
<1> QED
  BY <1>1, <1>2, <1>3 DEF Next

\* The invariant holds in every state.
LEMMA PageInvariant == Spec => []IInv
  BY PageInit, PageStep, PTL DEF Spec

\* Whatever the user does, also when edits are submitted during a generation,
\* the page never waits for nothing: behind its source there is a stream and
\* behind each flag a request of its kind.
THEOREM PageWaitsForSomething == Spec => []WaitsForSomething
<1>1. IInv => WaitsForSomething
  <2> SUFFICES ASSUME IInv PROVE WaitsForSomething
    OBVIOUS
  <2>1. Types /\ Refs
    BY DEF IInv
  <2>2. media => \E r \in Requests : live[r] \in {"post", "poll", "aborted"}
    BY <2>1 DEF Types, Refs, Medias
  <2> QED
    BY <2>1, <2>2 DEF Refs, WaitsForSomething, Streams, Chats
<1> QED
  BY <1>1, PageInvariant, PTL

\* An answer shows the output of its own request only, in conversations of any
\* length, unless an edit was submitted during a generation.
THEOREM PageOwnAnswer == Spec => []OwnAnswer
<1>1. IInv => OwnAnswer
  <2> SUFFICES ASSUME IInv, ~overlap, NEW i \in DOMAIN messages, messages[i].from = "assistant"
               PROVE  messages[i].text \cap Requests \subseteq {messages[i].id}
    BY DEF OwnAnswer, Answers
  <2>1. i \in 1..Len(messages)
    BY LenProperties DEF IInv, Types
  <2> QED
    BY <2>1 DEF IInv, Single, Own
<1> QED
  BY <1>1, PageInvariant, PTL

\* An answer that looks busy is the last one, is being generated and was not
\* stopped, unless an edit was submitted during a generation or the completion
\* came without a choice.
THEOREM PageBusyIsGenerated == Spec => []BusyIsGenerated
<1>1. IInv => BusyIsGenerated
  <2> SUFFICES ASSUME IInv, ~overlap, NEW i \in DOMAIN messages, messages[i].from = "assistant",
                      messages[i].status \in Unfinished, messages[i].id \notin empty
               PROVE  i = Len(messages) /\ IsGenerating /\ messages[i].id \notin stopped
    BY DEF BusyIsGenerated
  <2>1. i \in 1..Len(messages) /\ Types /\ Refs /\ Born /\ Single
    BY LenProperties DEF IInv, Types
  <2> DEFINE r == messages[i].id
  <2>2. i = Len(messages) /\ live[r] \notin {"none", "aborted"} /\ r \in Requests
    BY <2>1 DEF Single, Told, Quiet, Born, Types
  <2>3. Held(r)
    BY <2>1, <2>2 DEF Single
  <2>4. live[r] \in Phases
    BY <2>1, <2>2 DEF Types
  <2> HIDE DEF r
  <2>5. IsGenerating
    BY <2>1, <2>2, <2>3, <2>4, Distinct DEF IsGenerating, Held, Refs, Phases
  <2>6. r \notin stopped
    BY <2>2, <2>3 DEF Held
  <2> QED
    BY <2>2, <2>5, <2>6 DEF r
<1> QED
  BY <1>1, PageInvariant, PTL
=============================================================================
