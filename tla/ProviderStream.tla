--------------------------- MODULE ProviderStream ---------------------------
(***************************************************************************)
(* One turn of the generic provider adapter: the call (call_generic), the  *)
(* stream that is read in chunks (StreamingTurn), the assembler of its     *)
(* frames (CompletionStream), the redactor that masks the host credential  *)
(* across chunks (StreamingSecretRedactor), the record of the turn for     *)
(* replay, and the collector that pulls the events.                        *)
(*                                                                         *)
(* The provider is arbitrary: a chunk is any sequence of complete lines,   *)
(* which may leave a line cut, so that the content of a line is chosen     *)
(* when the line is complete.  Deltas of the answer and of the reasoning   *)
(* go through one redactor with one held suffix.                           *)
(***************************************************************************)
EXTENDS Naturals, SequencesExt

CONSTANTS Chars,         \* what texts are made of
          Secret,        \* the credential, a sequence of Chars
          Marker,        \* what it is replaced by
          Deltas,        \* the deltas of one frame
          MaxCalls,      \* MAX_STREAMED_TOOL_CALLS
          Pieces,        \* the fragments that make the arguments of a call
          MaxChunk,      \* lines and cut lines of one chunk
          MaxBytes,      \* MAX_RESPONSE_BYTES, in lines and cut lines
          MaxEvents      \* MAX_STREAM_EVENTS

\* A marker is no part of a text.
ASSUME StreamAssumption ==
    /\ {MaxCalls, Pieces, MaxChunk, MaxBytes, MaxEvents} \subseteq Nat
    /\ Secret \in Seq(Chars) /\ Len(Secret) > 0 /\ Marker \notin Chars
    /\ Deltas \subseteq [kind : {"text"}, on : {"answer", "reasoning"},
                        s : Seq(Chars) \ {<< >>}]

VARIABLES signal,     \* the turn was opened with a cancellation signal
          cancelled,  \* the host has cancelled
          state,      \* StreamState, and what comes before it
          asm,        \* CompletionStream
          cut,        \* its pending: a line that has begun
          held,       \* the redactor's pending suffix
          queue,      \* queued
          store,      \* what the recorder holds of the turn
          last,       \* last_replay
          inside,     \* the collector has looked at its token, and is in next
          outcome,    \* what it has concluded
          received,   \* history: the text the provider sent, on both channels
          shown,      \* the text the collector accepted, on both channels
          spoken,     \* history: the part of received that is the answer
          answer,     \* assistant_text: the part of shown that is the answer
          calls       \* the tool calls it accepted

accepted == <<shown, answer, calls>>
sent == <<received, spoken>>
vars == <<signal, cancelled, state, asm, cut, held, queue, store, last, inside,
          outcome, sent, accepted>>

Indexes == 1 .. MaxCalls

Text(c, s) == [kind |-> "text", on |-> c, s |-> s]
Call(i) == [kind |-> "call", index |-> i]
Completed == [kind |-> "completed"]
Failed == [kind |-> "failed"]
Cancelled == [kind |-> "cancelled"]

\* The lines.  "comment" stands for every line that is ignored, "bad" for
\* every frame that is refused.
Frames ==
    Deltas
        \cup [kind : {"call"}, index : Indexes, parts : SUBSET {"head", "args"} \ {{}}]
        \cup [kind : {"done", "comment", "bad"}]

\* What one read brings: complete lines, and perhaps more of the next.
Chunks ==
    {c \in [lines : BoundedSeq(Frames, MaxChunk), more : BOOLEAN] :
        Len(c.lines) + (IF c.more THEN 1 ELSE 0) \in 1 .. MaxChunk}

\* PartialCall: its id and name, and how many fragments of its arguments
\* have come, where more than Pieces is no JSON any more.
NoCall == [head |-> FALSE, args |-> 0]

Init ==
    /\ signal \in BOOLEAN /\ cancelled = FALSE /\ state = "calling"
    /\ asm = [bytes |-> 0, count |-> 0, failed |-> FALSE, completed |-> FALSE,
              plain |-> FALSE, calls |-> [i \in Indexes |-> NoCall]]
    /\ cut = FALSE /\ held = << >> /\ queue = << >>
    /\ store = "none" /\ last = "unavailable" /\ inside = FALSE /\ outcome = "none"
    /\ received = << >> /\ spoken = << >>
    /\ shown = << >> /\ answer = << >> /\ calls = << >>

----------------------------------------------------------------------------
(* The redactor. *)

Ends(t) == {i \in Len(Secret) .. Len(t) :
                SubSeq(t, i - Len(Secret) + 1, i) = Secret}

\* The places of the occurrences that end in E.
Covered(E) == UNION {i - Len(Secret) + 1 .. i : i \in E}

\* t with those masked, place by place: a marker where one ends, and what
\* none covers.
Masked(E, t, i) ==
    IF i \in E THEN <<Marker>>
    ELSE IF i \in Covered(E) THEN << >> ELSE <<t[i]>>

MaskedBy(E, t) == FlattenSeq([i \in 1 .. Len(t) |-> Masked(E, t, i)])

\* VariantMatcher::replace: all are, also when they overlap.
Replace(t) == MaskedBy(Ends(t), t)

\* variant_prefix_len: the longest suffix that the credential may begin
\* with.  Seeded fault: the shortest.
Beginnings(t) ==
    {k \in 1 .. Len(Secret) - 1 :
        k <= Len(t) /\ SubSeq(t, Len(t) - k + 1, Len(t)) = SubSeq(Secret, 1, k)}

ShortestHold(t) ==
    IF Beginnings(t) = {} THEN 0
    ELSE CHOOSE k \in Beginnings(t) : \A j \in Beginnings(t) : k <= j

Hold(t) ==
    IF Beginnings(t) = {} THEN 0
    ELSE CHOOSE k \in Beginnings(t) : \A j \in Beginnings(t) : k >= j

\* redact_event, over the events of a read: r holds the suffix and the queue.
\* What was held goes where the new text goes, on whichever channel it came.
\* Seeded fault: what was held is not taken up.
RedactAlone(r, e) ==
    IF e.kind # "text" THEN [r EXCEPT !.queue = Append(@, e)]
    ELSE LET t == Replace(e.s)
             k == Hold(t)
         IN  [held |-> SubSeq(t, Len(t) - k + 1, Len(t)),
              queue |-> Append(r.queue, Text(e.on, SubSeq(t, 1, Len(t) - k)))]

RedactEvent(r, e) ==
    IF e.kind # "text" THEN [r EXCEPT !.queue = Append(@, e)]
    ELSE LET t == Replace(r.held \o e.s)
             k == Hold(t)
         IN  [held |-> SubSeq(t, Len(t) - k + 1, Len(t)),
              queue |-> Append(r.queue, Text(e.on, SubSeq(t, 1, Len(t) - k)))]

RedactEvents(q, events) ==
    FoldLeft(RedactEvent, [held |-> held, queue |-> q], events)

\* flush_redaction_tail: what is held is masked, before the completion.
Flush(r) ==
    LET at == SelectLastInSeq(r.queue, LAMBDA e : e = Completed)
        mask == Text("answer", <<Marker>>)
    IN  IF r.held = << >> THEN r
        ELSE [held |-> << >>,
              queue |-> IF at = 0 THEN Append(r.queue, mask)
                        ELSE InsertAt(r.queue, at, mask)]

----------------------------------------------------------------------------
(* The assembler: s is asm with the events and the text it makes of lines, *)
(* and the part of the text that is the answer.                            *)

Assembling ==
    [f \in DOMAIN asm \cup {"events", "text", "spoken"} |->
        IF f \in DOMAIN asm THEN asm[f] ELSE << >>]

Fail(s) == [s EXCEPT !.failed = TRUE, !.events = Append(@, Failed)]

\* emit_event.
Emit(s, e) ==
    IF s.count >= MaxEvents THEN Fail(s)
    ELSE [s EXCEPT !.count = @ + 1, !.events = Append(@, e)]

\* What an emission past the bound leaves of the events of a commit.
Unless(events, s) == IF s.failed THEN [s EXCEPT !.events = events] ELSE s

Used(s) == {i \in Indexes : s.calls[i] # NoCall}

Whole(s, i) == s.calls[i].head /\ s.calls[i].args = Pieces

InOrder == [i \in Indexes |-> i]

\* commit: every call and then the completion, or a failure and nothing
\* else; a failure for the bound of the events is not even told.  Seeded
\* fault: the calls before the one that fails are told.
CommitCalls(s) ==
    LET step(t, i) == CASE i \notin Used(t) \/ t.failed -> t
                        [] i \in Used(t) /\ ~t.failed /\ ~Whole(t, i) -> Fail(t)
                        [] OTHER -> Emit(t, Call(i))
        told == FoldLeft(step, s, InOrder)
    IN  IF told.failed THEN told
        ELSE [Emit(told, Completed) EXCEPT !.completed = TRUE]

CommitCall(s, t, i) ==
    CASE i \notin Used(t) \/ t.failed -> t
      [] i \in Used(t) /\ ~t.failed /\ ~Whole(t, i) ->
             Fail([t EXCEPT !.events = s.events])
      [] OTHER -> Unless(s.events, Emit(t, Call(i)))

Commit(s) ==
    LET told == FoldLeft(LAMBDA t, i : CommitCall(s, t, i), s, InOrder)
    IN  CASE told.failed -> told
          [] ~told.failed /\ received \o s.text = << >> /\ Used(s) = {} -> Fail(s)
          [] OTHER -> [Unless(s.events, Emit(told, Completed))
                           EXCEPT !.completed = TRUE]

\* What an event or a frame says, and what of it is the answer.
Said(e) == IF e.kind = "text" THEN e.s ELSE << >>

OnAnswer(e) == IF e.kind = "text" /\ e.on = "answer" THEN e.s ELSE << >>

ConsumeLine(s, line) ==
    CASE s.failed \/ s.completed \/ line.kind = "comment" -> s
      [] OTHER ->
           CASE line.kind = "bad" -> Fail(s)
             [] line.kind = "done" -> Commit(s)
             [] line.kind = "text" ->
                    Emit([s EXCEPT !.text = @ \o line.s,
                                   !.spoken = @ \o OnAnswer(line)], line)
             [] line.kind = "call" ->
                    [s EXCEPT !.calls[line.index] =
                        [head |-> @.head \/ "head" \in line.parts,
                         args |-> IF "args" \in line.parts /\ @.args <= Pieces
                                  THEN @.args + 1 ELSE @.args]]

Consume(s, lines) == FoldLeft(ConsumeLine, s, lines)

Assembled(s) ==
    /\ asm' = [f \in DOMAIN asm |-> s[f]]
    /\ received' = received \o s.text /\ spoken' = spoken \o s.spoken

\* completion_events_from_body: a failure, or a text, a call, a completion.
Bodies == {<<Failed>>} \cup {<<d, Completed>> : d \in Deltas}
              \cup {<<d, Call(i), Completed>> : d \in Deltas, i \in Indexes}

BodyText(body) == IF body = <<Failed>> THEN << >> ELSE body[1].s

BodySent(body) ==
    received' = received \o BodyText(body) /\ spoken' = spoken \o OnAnswer(body[1])

----------------------------------------------------------------------------
(* The record: record_once and the record_outcome family. *)

RecordEvidence == store' = "evidence" /\ last' = "unavailable"

\* The recorder may refuse the body, or replay may not accept it.
RecordReplayable ==
    \E kept \in BOOLEAN :
        /\ store' = IF kept THEN "replayable" ELSE "evidence"
        /\ last' = IF kept THEN "recorded" ELSE "unavailable"

RecordOnce(failed, complete) ==
    IF failed \/ ~complete THEN RecordEvidence ELSE RecordReplayable

----------------------------------------------------------------------------
(* call_generic. *)

Answer(r, next) == held' = r.held /\ queue' = r.queue /\ state' = next

\* Before the call, before the send, after the answer.
CallCancelled ==
    /\ state = "calling" /\ signal /\ cancelled
    /\ queue' = <<Cancelled>> /\ state' = "buffered"
    /\ last' = "unavailable"
    /\ UNCHANGED <<signal, cancelled, asm, cut, held, store, inside, outcome, sent,
                   accepted>>

\* No client, no connection, a status that is no success, no body, no JSON.
CallFails ==
    /\ state = "calling"
    /\ queue' = <<Failed>> /\ state' = "buffered"
    /\ RecordEvidence
    /\ UNCHANGED <<signal, cancelled, asm, cut, held, inside, outcome, sent, accepted>>

\* The protocols without a stream: the body is read at once, and what the
\* redactor holds is masked behind the last event.
CallBuffered ==
    /\ state = "calling"
    /\ \E body \in Bodies :
           LET r == RedactEvents(queue, body)
               tail == IF r.held = << >> THEN << >>
                       ELSE <<Text("answer", <<Marker>>)>>
           IN  /\ Answer([held |-> << >>, queue |-> r.queue \o tail], "buffered")
               /\ BodySent(body)
               /\ RecordOnce(body = <<Failed>>, TRUE)
    /\ UNCHANGED <<signal, cancelled, asm, cut, inside, outcome, accepted>>

CallStreams ==
    /\ state = "calling"
    /\ state' = "reading"
    /\ UNCHANGED <<signal, cancelled, asm, cut, held, queue, store, last, inside,
                   outcome, sent, accepted>>

----------------------------------------------------------------------------
(* The collector, and StreamingTurn::next. *)

\* The collector has not stopped, and is in next.
Pulling == outcome \in {"none", "Completed"}

InNext == Pulling /\ inside

\* Before it asks for an event it looks at its own token, which outranks a
\* completion.  "Stopped" is the cancellation it finds there, "Cancelled" the
\* one that the adapter tells.
Look ==
    /\ Pulling /\ ~inside /\ state \notin {"calling", "done"}
    /\ inside' = ~cancelled
    /\ outcome' = IF cancelled THEN "Stopped" ELSE outcome
    /\ UNCHANGED <<signal, cancelled, state, asm, cut, held, queue, store, last, sent,
                   accepted>>

\* collect_provider_turn looks again when it has left its loop, a session
\* does not.
Concludes(o) ==
    /\ inside' = FALSE
    /\ outcome' = o \/ (cancelled /\ outcome' = "Stopped")

\* Seeded fault: a completed stream is cancelled like any other.
CancelsAlways == state \in {"reading", "draining"} /\ signal /\ cancelled

Cancels == CancelsAlways /\ ~asm.completed

NextCancelled ==
    /\ InNext /\ Cancels
    /\ last' = "unavailable" /\ state' = "done" /\ queue' = << >>
    /\ inside' = FALSE /\ outcome' = "Cancelled"
    /\ UNCHANGED <<signal, cancelled, asm, cut, held, store, sent, accepted>>

Taking == InNext /\ ~Cancels /\ queue # << >> /\ queue' = Tail(queue)

\* push: the provider's own end, and what follows the completion.
NextTerminal ==
    /\ Taking
    /\ LET e == Head(queue)
       IN  \/ e = Failed /\ inside' = FALSE /\ outcome' = "Failed"
           \/ e = Cancelled /\ inside' = FALSE /\ outcome' = "Cancelled"
           \/ e \notin {Failed, Cancelled} /\ outcome = "Completed" /\ Concludes("Refused")
    /\ UNCHANGED <<signal, cancelled, state, asm, cut, held, store, last, sent, accepted>>

\* apply_event: a text, a call or the completion.
NextQueued ==
    /\ Taking /\ outcome = "none"
    /\ LET e == Head(queue)
       IN  /\ e \notin {Failed, Cancelled}
           /\ inside' = FALSE
           /\ outcome' = IF e = Completed THEN "Completed" ELSE "none"
           /\ shown' = shown \o Said(e) /\ answer' = answer \o OnAnswer(e)
           /\ calls' = IF e.kind = "call" THEN Append(calls, e.index) ELSE calls
    /\ UNCHANGED <<signal, cancelled, state, asm, cut, held, store, last, sent>>

\* push_text, push_reasoning, push_tool_call and the count of the calls: one
\* more is too much.  Sizes are not modelled, so that any may be.
NextRefused ==
    /\ Taking /\ outcome = "none"
    /\ Head(queue).kind \in {"text", "call"}
    /\ Concludes("Refused")
    /\ UNCHANGED <<signal, cancelled, state, asm, cut, held, store, last, sent, accepted>>

\* There is no more: finish.
NextEnds ==
    /\ InNext /\ ~Cancels /\ queue = << >>
    /\ state \in {"draining", "buffered"}
    /\ state' = "done"
    /\ Concludes(IF outcome = "Completed" THEN "Completed" ELSE "Unfinished")
    /\ UNCHANGED <<signal, cancelled, asm, cut, held, queue, store, last, sent, accepted>>

Reads == InNext /\ state = "reading" /\ queue = << >> /\ ~Cancels

\* After a read: the events are redacted and queued, and a stream that
\* completed or failed is recorded and no longer read.
Queue(s) ==
    IF s.failed \/ s.completed
    THEN /\ Answer(RedactEvents(queue, s.events), "draining")
         /\ RecordOnce(s.failed, s.completed)
    ELSE /\ Answer(RedactEvents(queue, s.events), "reading")
         /\ UNCHANGED <<store, last>>

\* push_chunk of a chunk in the event framing, or of a plain body, which is
\* only collected.  Seeded fault: only lines that say something are counted.
CountSaid(c) == Len(SelectSeq(c.lines, LAMBDA l : l.kind # "comment"))

Count(c) == Len(c.lines) + (IF c.more THEN 1 ELSE 0)

ReadLines ==
    /\ Reads /\ ~asm.plain
    /\ \E c \in Chunks :
           LET s == [Assembling EXCEPT !.bytes = @ + Count(c)]
               t == Consume(s, c.lines)
           IN  /\ s.bytes <= MaxBytes
               /\ cut' = c.more
               /\ Assembled(t) /\ Queue(t)
    /\ UNCHANGED <<signal, cancelled, inside, outcome, accepted>>

ReadPlain ==
    /\ Reads /\ ~cut
    /\ asm.bytes < MaxBytes
    /\ asm' = [asm EXCEPT !.plain = TRUE, !.bytes = @ + 1]
    /\ UNCHANGED <<signal, cancelled, state, cut, held, queue, store, last, inside,
                   outcome, sent, accepted>>

ReadTooMuch ==
    /\ Reads
    /\ asm.bytes + MaxChunk > MaxBytes
    /\ LET s == Fail(Assembling) IN Assembled(s) /\ Queue(s)
    /\ UNCHANGED <<signal, cancelled, cut, inside, outcome, accepted>>

\* finish: a line without its end is a line, and the completion is explicit.
Finished(s) ==
    IF s.failed \/ s.completed THEN s ELSE Fail(s)

ReadEnd ==
    /\ Reads
    /\ \/ /\ ~asm.plain
          /\ \E lines \in IF cut THEN [1 .. 1 -> Frames] ELSE {<< >>} :
                 LET s == Finished(Consume(Assembling, lines))
                 IN  /\ Assembled(s)
                     /\ Answer(Flush(RedactEvents(queue, s.events)), "draining")
                     /\ RecordOnce(s.failed, s.completed)
       \/ /\ asm.plain
          /\ \E body \in Bodies :
                 /\ Answer(Flush(RedactEvents(queue, body)), "draining")
                 /\ BodySent(body)
                 /\ RecordOnce(body = <<Failed>>, TRUE)
          /\ UNCHANGED asm
    /\ UNCHANGED <<signal, cancelled, cut, inside, outcome, accepted>>

ReadFails ==
    /\ Reads
    /\ RecordEvidence /\ state' = "done" /\ inside' = FALSE /\ outcome' = "Failed"
    /\ UNCHANGED <<signal, cancelled, asm, cut, held, queue, sent, accepted>>

Cancel ==
    /\ ~cancelled /\ cancelled' = TRUE
    /\ UNCHANGED <<signal, state, asm, cut, held, queue, store, last, inside, outcome,
                   sent, accepted>>

----------------------------------------------------------------------------

Calling == CallCancelled \/ CallFails \/ CallBuffered \/ CallStreams
Reading == ReadLines \/ ReadPlain \/ ReadTooMuch \/ ReadEnd \/ ReadFails

Taken == NextCancelled \/ NextTerminal \/ NextQueued \/ NextRefused \/ NextEnds

Next == Calling \/ Look \/ Taken \/ Reading \/ Cancel

Spec == Init /\ [][Next]_vars

\* The call and each read end (the client has timeouts), and the collector
\* pulls until it stops.  The provider need not end its stream.
FairSpec == Spec /\ WF_vars(Calling \/ Look \/ Taken \/ Reading)

----------------------------------------------------------------------------
(* What the adapter promises. *)

TextOf(q) == FlattenSeq([i \in 1 .. Len(q) |-> Said(q[i])])

\* What t may be redacted to, by the occurrences of the credential that are
\* masked: where two overlap, the cut of t decides which are seen.
Maskings(t) == {MaskedBy(E, t) : E \in SUBSET Ends(t)}

\* d accounts for all of the masked text r: but for a beginning of the
\* credential, which is held back while the turn is read, has the marker in
\* its place at the end of the body, and was dropped when the stream
\* completed in the middle of it.
Accounts(d, r) ==
    \/ d = r
    \/ /\ state \in {"calling", "reading"} \/ asm.completed
       /\ held # << >> /\ d \o held = r
    \/ /\ state \notin {"calling", "reading"} /\ held = << >>
       /\ \E k \in Beginnings(r) : d = SubSeq(r, 1, Len(r) - k) \o <<Marker>>

\* However the provider's text is cut into frames and the frames into
\* chunks, what is shown on the two channels, read as one text, is what the
\* provider sent with occurrences of the credential masked and nothing else
\* lost, doubled or put in, up to the last beginning of the credential.
ShownIsRedacted ==
    /\ \E r \in Maskings(received) : IsPrefix(shown, r) \/ Accounts(shown, r)
    /\ ~asm.failed /\ Pulling =>
           \E r \in Maskings(received) : Accounts(shown \o TextOf(queue), r)

\* The credential is nowhere in what is shown, the two channels read as one
\* text in the order of the events, not even across two events: neither what
\* redaction puts together nor where a turn breaks off brings it back.
CredentialIsHidden == Ends(shown) = {}

\* A tool call of a stream is shown only when the response is complete, and
\* with every other call of it, in their order: one that cannot be used takes
\* the others with it.
AllOrNothing ==
    /\ calls # << >> /\ asm.bytes > 0 /\ ~asm.plain => asm.completed
    /\ outcome = "Completed" /\ asm.completed =>
           /\ ToSet(calls) = Used(asm)
           /\ \A i, j \in DOMAIN calls : i < j => calls[i] < calls[j]

\* The record says how the response ended: it is there when the turn
\* completed, a response that failed or broke off is recorded as evidence
\* only, and one that is recorded as complete is neither failed nor cancelled
\* by a late signal.  Only the collector may still reject it, for a limit or
\* for its own token.
RecordIsTrue ==
    /\ outcome = "Completed" => store # "none"
    /\ outcome \in {"Failed", "Unfinished"} => store = "evidence"
    /\ last = "recorded" => store = "replayable"
    /\ store = "replayable" /\ asm.completed =>
           /\ last = "recorded" /\ outcome \in {"none", "Completed", "Refused", "Stopped"}
           /\ state = "done" => outcome \in {"Completed", "Stopped"}

\* The turn ends, even if the provider sends for ever.
TurnEnds == <>(state = "done" \/ ~Pulling)

\* The reasoning never reaches the assistant text: no letter is there more
\* often than the provider sent it as the answer.
ReasoningStaysOut ==
    \A c \in Chars : Len(SelectSeq(answer, LAMBDA x : x = c))
                        <= Len(SelectSeq(spoken, LAMBDA x : x = c))
=============================================================================
