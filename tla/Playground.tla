----------------------------- MODULE Playground -----------------------------
(***************************************************************************)
(* The playground page of the web client: a conversation, and the requests  *)
(* that fill in its last answer.  Everything runs on one thread, so an event *)
(* handler is one step; what interleaves are the events: server-sent chunks, *)
(* answers of ordinary requests, timers of the task poll, and the user, who  *)
(* sends, stops, regenerates, edits, deletes and reloads.                    *)
(*                                                                         *)
(* No handler knows which request it serves: each one writes to whatever     *)
(* message is last.  Only the refs (source, controller), the flags (media,   *)
(* chat) and the guards on the buttons keep an answer to its own request.    *)
(***************************************************************************)
EXTENDS Naturals, Sequences, SequencesExt

CONSTANTS
    MaxRequests,   \* bound on the requests of one conversation
    PollLimit,     \* timeoutMs of the task poll, in units of five seconds
    None, Notice, Words   \* no request; an error notice; the user's own words

ASSUME PlaygroundAssumption ==
    /\ MaxRequests \in Nat
    /\ PollLimit \in Nat
    /\ {None, Notice, Words} \cap 1..MaxRequests = {}

\* Requests, numbered in the order they start.
Requests == 1..MaxRequests

VARIABLES
    messages,      \* the conversation; saved in localStorage at every change
    source,        \* sseSourceRef
    complete,      \* isStreamCompleteRef
    controller,    \* mediaController: the request it aborts
    media, chat,   \* isMediaGenerating, isChatGenerating
    editing,       \* editingMessageKey
    live,          \* request -> what of it is still under way
    failures,      \* request -> failed polls in a row
    waited,        \* request -> time the poll has spent waiting
    started,       \* requests sent so far
    \* History, read by the properties only:
    stopped,       \* answers the user stopped
    empty,         \* requests answered without a choice
    overlap        \* an edit was submitted while an answer was generated

page == <<source, complete, controller, media, chat, editing>>
network == <<live, failures, waited>>
history == <<started, stopped, empty, overlap>>
vars == <<messages, page, network, history>>

Unfinished == {"loading", "streaming"}

\* The text of a message is what it shows: the requests whose output is in it,
\* an error notice or the user's own words.
UserMessage(r) ==
    [from |-> "user", id |-> r, status |-> "complete", text |-> {Words}]

createLoadingAssistantMessage(r) ==
    [from |-> "assistant", id |-> r, status |-> "loading", text |-> {}]

IsGenerating == source # None \/ media \/ chat
CanStop == source # None \/ media

-----------------------------------------------------------------------------
(* What the handlers do to the conversation.                                *)

\* The last message becomes new if it is an answer.
updateLastAssistantMessage(ms, new) ==
    IF ms # <<>> /\ Last(ms).from = "assistant"
      THEN [ms EXCEPT ![Len(ms)] = new]
      ELSE ms

\* An error is shown whatever the message was.
WithError(ms) ==
    updateLastAssistantMessage(ms,
        [Last(ms) EXCEPT !.status = "error", !.text = {Notice}])

WithChunk(ms, r) ==
    updateLastAssistantMessage(ms,
        IF Last(ms).status = "error" THEN Last(ms)
        ELSE [Last(ms) EXCEPT !.status = "streaming", !.text = @ \cup {r}])

\* The end of a stream and the stop button: they finish what is unfinished.
WithEnd(ms) ==
    updateLastAssistantMessage(ms,
        IF Last(ms).status \in Unfinished
          THEN [Last(ms) EXCEPT !.status = "complete"] ELSE Last(ms))

\* Progress and result of an ordinary request replace the whole text.
WithText(ms, r, status) ==
    updateLastAssistantMessage(ms,
        [Last(ms) EXCEPT !.status = status, !.text = {r}])

\* On load, the last unfinished answer becomes an answer or an error.
sanitizeMessagesOnLoad(ms) ==
    LET stuck == {i \in DOMAIN ms : ms[i].from = "assistant"
                                      /\ ms[i].status \in Unfinished}
        Settled(m) == IF m.text # {}
                        THEN [m EXCEPT !.status = "complete"]
                        ELSE [m EXCEPT !.status = "error", !.text = {Notice}]
    IN  IF stuck = {} THEN ms
        ELSE LET i == CHOOSE i \in stuck : \A j \in stuck : j <= i
             IN  [ms EXCEPT ![i] = Settled(@)]

-----------------------------------------------------------------------------
Init ==
    /\ messages = <<>>
    /\ source = None /\ complete = FALSE /\ controller = None
    /\ media = FALSE /\ chat = FALSE /\ editing = None
    /\ live = [r \in Requests |-> "none"]
    /\ failures = [r \in Requests |-> 0]
    /\ waited = [r \in Requests |-> 0]
    /\ started = {} /\ stopped = {} /\ empty = {} /\ overlap = FALSE

Now(r, phase) == live' = [live EXCEPT ![r] = phase]

\* Streaming chat: the source is opened, or the extra body does not parse and
\* nothing is sent, or the source cannot be started.
sendStreamingChat(r, ms) ==
    /\ \/ messages' = ms /\ source' = r /\ complete' = FALSE
          /\ Now(r, "stream")
       \/ messages' = WithError(ms) /\ UNCHANGED <<source, complete, live>>
       \/ messages' = WithError(ms) /\ source' = None /\ complete' = FALSE
          /\ UNCHANGED live
    /\ UNCHANGED <<controller, media, chat, failures, waited>>

\* Chat completions without streaming, and the Responses endpoint.
sendNonStreamingChat(r, ms) ==
    /\ messages' = ms /\ chat' = TRUE
    /\ \E phase \in {"chat", "responses"} : Now(r, phase)
    /\ UNCHANGED <<source, complete, controller, media, failures, waited>>

sendMediaGeneration(r, ms) ==
    /\ messages' = ms /\ media' = TRUE /\ controller' = r
    /\ Now(r, "post")
    /\ UNCHANGED <<source, complete, chat, failures, waited>>

\* The configuration chooses the kind of request.
sendChat(r, ms) ==
    /\ r \notin started /\ (r = 1 \/ r - 1 \in started)
    /\ started' = started \cup {r}
    /\ \/ sendStreamingChat(r, ms)
       \/ sendNonStreamingChat(r, ms)
       \/ sendMediaGeneration(r, ms)

-----------------------------------------------------------------------------
(* The user.                                                                *)

\* The input is disabled while an answer is generated.
handleSendMessage(r) ==
    /\ ~IsGenerating
    /\ sendChat(r, messages \o <<UserMessage(r),
                                 createLoadingAssistantMessage(r)>>)
    /\ UNCHANGED <<editing, stopped, empty, overlap>>

\* Offered on finished answers; guarded like edit and delete.
handleRegenerateMessage(r, i) ==
    /\ ~IsGenerating
    /\ messages[i].from = "assistant" /\ messages[i].status \notin Unfinished
    /\ sendChat(r, SubSeq(messages, 1, i - 1)
                     \o <<createLoadingAssistantMessage(r)>>)
    /\ UNCHANGED <<editing, stopped, empty, overlap>>

handleEditMessage(i) ==
    /\ ~IsGenerating
    /\ messages[i].text # {}
    /\ editing' = <<messages[i].from, messages[i].id>>
    /\ UNCHANGED <<messages, source, complete, controller, media, chat,
                   network, history>>

handleEditOpenChange ==
    /\ editing # None /\ editing' = None
    /\ UNCHANGED <<messages, source, complete, controller, media, chat,
                   network, history>>

Edited(i) ==
    editing = <<messages[i].from, messages[i].id>>

\* Save: the text changes in place.  Nothing guards it.
applyEditSave(i) ==
    /\ Edited(i)
    /\ messages' = [messages EXCEPT ![i].text = {Words}]
    /\ editing' = None
    /\ UNCHANGED <<source, complete, controller, media, chat, network,
                   history>>

\* Save & Submit of a user message: what follows it goes, and a new answer is
\* asked for.  Nothing guards this either: the box may have been opened before
\* the answer that is now being generated was asked for.
applyEditSubmit(r, i) ==
    /\ Edited(i) /\ messages[i].from = "user"
    /\ sendChat(r, SubSeq(messages, 1, i)
                     \o <<createLoadingAssistantMessage(r)>>)
    /\ editing' = None
    /\ overlap' = (overlap \/ IsGenerating)
    /\ UNCHANGED <<stopped, empty>>

handleDeleteMessage(i) ==
    /\ ~IsGenerating
    /\ messages' = RemoveAt(messages, i)
    /\ UNCHANGED <<page, network, history>>

\* close() ends the events of a source at once.
closeSource(r) ==
    live' = IF r # None THEN [live EXCEPT ![r] = "none"] ELSE live

\* Mutant: the ref is dropped, the source is not closed.
StopWithoutClose ==
    /\ CanStop
    /\ source' = None
    /\ live' = [r \in Requests |->
                  IF r = controller THEN "aborted" ELSE live[r]]
    /\ messages' = WithEnd(messages)
    /\ stopped' = IF messages # <<>> /\ Last(messages).from = "assistant"
                    THEN stopped \cup {Last(messages).id} ELSE stopped
    /\ UNCHANGED <<complete, controller, media, chat, editing, failures,
                   waited, started, empty, overlap>>

\* Mutant: the media request is not aborted.
StopWithoutAbort ==
    /\ CanStop
    /\ source' = None
    /\ closeSource(source)
    /\ messages' = WithEnd(messages)
    /\ stopped' = IF messages # <<>> /\ Last(messages).from = "assistant"
                    THEN stopped \cup {Last(messages).id} ELSE stopped
    /\ UNCHANGED <<complete, controller, media, chat, editing, failures,
                   waited, started, empty, overlap>>

\* The stop button.  An aborted media request settles a little later.
stopGeneration ==
    /\ CanStop
    /\ source' = None
    /\ live' = [r \in Requests |->
                  IF r = source THEN "none"
                  ELSE IF r = controller THEN "aborted" ELSE live[r]]
    /\ messages' = WithEnd(messages)
    /\ stopped' = IF messages # <<>> /\ Last(messages).from = "assistant"
                    THEN stopped \cup {Last(messages).id} ELSE stopped
    /\ UNCHANGED <<complete, controller, media, chat, editing, failures,
                   waited, started, empty, overlap>>

\* A reload of the page: what was under way is gone, the conversation comes
\* back from localStorage.
Reload ==
    /\ messages' = sanitizeMessagesOnLoad(messages)
    /\ source' = None /\ complete' = FALSE /\ controller' = None
    /\ media' = FALSE /\ chat' = FALSE /\ editing' = None
    /\ live' = [r \in Requests |-> "none"]
    /\ failures' = [r \in Requests |-> 0]
    /\ waited' = [r \in Requests |-> 0]
    /\ UNCHANGED history

-----------------------------------------------------------------------------
(* The events of a stream.                                                  *)

StreamChunk(r) ==
    /\ live[r] = "stream"
    /\ messages' = WithChunk(messages, r)
    /\ UNCHANGED <<page, network, history>>

\* [DONE]
StreamDone(r) ==
    /\ live[r] = "stream"
    /\ complete' = TRUE /\ source' = None
    /\ closeSource(r)
    /\ messages' = WithEnd(messages)
    /\ UNCHANGED <<controller, media, chat, editing, failures, waited,
                   history>>

\* handleError: an error event, a failed status or a chunk that does not parse,
\* while no stream has completed since the last one started.
StreamError(r) ==
    /\ live[r] = "stream" /\ ~complete
    /\ messages' = WithError(messages) /\ source' = None
    /\ closeSource(r)
    /\ UNCHANGED <<complete, controller, media, chat, editing, failures,
                   waited, history>>

\* After a completion handleError does nothing, and the stream goes on after a
\* bad chunk; a source whose connection failed has closed itself.
SourceFails(r) ==
    /\ live[r] = "stream" /\ complete
    /\ closeSource(r)
    /\ UNCHANGED <<messages, page, failures, waited, history>>

\* The connection ends with status 200 and no [DONE]: no listener acts on it,
\* and the page goes on showing a stream.
StreamHangs(r) ==
    /\ live[r] = "stream"
    /\ Now(r, "hung")
    /\ UNCHANGED <<messages, page, failures, waited, history>>

-----------------------------------------------------------------------------
(* Answers of ordinary requests.                                            *)

ChatSettles(r, ms) ==
    /\ messages' = ms
    /\ chat' = FALSE
    /\ Now(r, "none")
    /\ UNCHANGED <<source, complete, controller, media, editing, failures,
                   waited, started, stopped, overlap>>

ChatAnswered(r) ==
    /\ live[r] \in {"chat", "responses"}
    /\ ChatSettles(r, WithText(messages, r, "complete"))
    /\ UNCHANGED empty

\* A completion without a choice is dropped: the message stays as it is.
ChatWithoutChoice(r) ==
    /\ live[r] = "chat"
    /\ ChatSettles(r, messages)
    /\ empty' = empty \cup {r}

ChatFailed(r) ==
    /\ live[r] \in {"chat", "responses"}
    /\ ChatSettles(r, WithError(messages))
    /\ UNCHANGED empty

\* The finally block of sendMediaGeneration; the poll's own counters are gone.
MediaSettles(r, ms) ==
    /\ messages' = ms
    /\ controller' = None /\ media' = FALSE
    /\ Now(r, "none")
    /\ failures' = [failures EXCEPT ![r] = 0]
    /\ waited' = [waited EXCEPT ![r] = 0]
    /\ UNCHANGED <<source, complete, chat, editing, history>>

\* The first answer either holds the media or names a task to poll.
MediaAnswered(r) ==
    /\ live[r] = "post"
    /\ \/ MediaSettles(r, WithText(messages, r, "complete"))
       \/ /\ messages' = WithText(messages, r, "streaming")
          /\ Now(r, "poll")
          /\ UNCHANGED <<page, failures, waited, history>>

\* min(30 s, 5 s * 2^failures), in units of five seconds.
Delay(f) == IF 2 ^ f <= 6 THEN 2 ^ f ELSE 6

WithinTime(r) == waited[r] < PollLimit

\* A request that fails, or a poll that meets an error it does not retry.
MediaFailed(r) ==
    /\ live[r] = "post" \/ (live[r] = "poll" /\ WithinTime(r))
    /\ MediaSettles(r, WithError(messages))

\* Mutant: the early return skips the resets.
MediaAbortedSilently(r) ==
    /\ live[r] = "aborted"
    /\ Now(r, "none")
    /\ UNCHANGED <<messages, page, failures, waited, history>>

MediaAborted(r) ==
    /\ live[r] = "aborted"
    /\ MediaSettles(r, messages)

\* Mutant: the time is counted from the last turn.
PollTurnRestarted(r) ==
    /\ live[r] = "poll" /\ WithinTime(r)
    /\ waited' = [waited EXCEPT ![r] = Delay(failures[r])]

\* One turn of the loop of pollPlaygroundTask: wait, then fetch.
PollTurn(r) ==
    /\ live[r] = "poll" /\ WithinTime(r)
    /\ waited' = [waited EXCEPT ![r] = @ + Delay(failures[r])]

PollProgress(r) ==
    /\ PollTurn(r)
    /\ failures' = [failures EXCEPT ![r] = 0]
    /\ messages' = WithText(messages, r, "streaming")
    /\ UNCHANGED <<page, live, history>>

\* A transport error, 408, 409, 425, 429 or 5xx is tried again.
PollRetry(r) ==
    /\ PollTurn(r)
    /\ failures' = [failures EXCEPT ![r] = IF @ < 3 THEN @ + 1 ELSE 3]
    /\ UNCHANGED <<messages, page, live, history>>

\* A turn finds that the task ended, or there is no time for another one: the
\* last result is shown as the answer either way.
PollEnds(r) ==
    /\ live[r] = "poll"
    /\ MediaSettles(r, WithText(messages, r, "complete"))

-----------------------------------------------------------------------------
User ==
    \/ \E r \in Requests : handleSendMessage(r)
    \/ \E r \in Requests, i \in DOMAIN messages : handleRegenerateMessage(r, i)
    \/ \E r \in Requests, i \in DOMAIN messages : applyEditSubmit(r, i)
    \/ \E i \in DOMAIN messages : handleEditMessage(i)
    \/ \E i \in DOMAIN messages : applyEditSave(i)
    \/ \E i \in DOMAIN messages : handleDeleteMessage(i)
    \/ handleEditOpenChange
    \/ stopGeneration
    \/ Reload

\* What ends a request, or brings its end nearer.
Settle(r) ==
    \/ StreamDone(r) \/ StreamError(r) \/ SourceFails(r) \/ StreamHangs(r)
    \/ ChatAnswered(r) \/ ChatWithoutChoice(r) \/ ChatFailed(r)
    \/ MediaAnswered(r) \/ MediaFailed(r) \/ MediaAborted(r)
    \/ PollProgress(r) \/ PollRetry(r) \/ PollEnds(r)

Next ==
    \/ User
    \/ \E r \in Requests : StreamChunk(r) \/ Settle(r)

Spec == Init /\ [][Next]_vars

\* Requests end: the gateway cuts off a silent stream, an ordinary request is
\* answered or fails, and the timers of the poll fire.  The user owes nothing.
FairSpec == Spec /\ \A r \in Requests : WF_vars(Settle(r))

-----------------------------------------------------------------------------
Answers == {messages[i] : i \in {j \in DOMAIN messages :
                                   messages[j].from = "assistant"}}

\* Unless an edit was submitted during a generation, an answer shows the
\* output of its own request only, although every handler writes to whatever
\* message is last.
OwnAnswer ==
    ~overlap => \A m \in Answers : m.text \cap Requests \subseteq {m.id}

\* Unless an edit was submitted during a generation, an answer that still
\* looks busy is the last message, the page is generating it, and the user has
\* not stopped it: no late chunk or poll brings a stopped answer back to life,
\* and no ending leaves one behind.  The one exception is a completion that
\* came without a choice.
BusyIsGenerated ==
    ~overlap =>
        \A i \in DOMAIN messages :
            /\ messages[i].from = "assistant"
            /\ messages[i].status \in Unfinished
            /\ messages[i].id \notin empty
            => i = Len(messages) /\ IsGenerating /\ messages[i].id \notin stopped

\* Whatever the user does, the page waits only for something: behind a source
\* in the ref there is a stream, behind each flag a request of its kind.
WaitsForSomething ==
    /\ source # None => live[source] \in {"stream", "hung"}
    /\ media => \E r \in Requests : live[r] \in {"post", "poll", "aborted"}
    /\ chat => \E r \in Requests : live[r] \in {"chat", "responses"}

\* Every generation ends, by itself, unless its stream ended without [DONE];
\* a media task that never finishes is given up after the time limit.
GenerationEnds ==
    IsGenerating ~> (~IsGenerating \/ (source # None /\ live[source] = "hung"))
=============================================================================
