---------------------------- MODULE MoonshotChat ----------------------------
(***************************************************************************)
(* One chat request of the kronos-moonshot extension, from fetch to its    *)
(* result: the streamed answer is decoded, cut into lines and shown as it  *)
(* arrives (handleRequest, streamMoonshotCompletion and readSseDeltas of   *)
(* extensions/kronos-moonshot/src/extension.ts).                           *)
(*                                                                         *)
(* The answer is a sequence of events.  Its bytes arrive in chunks that    *)
(* may end inside a line or inside a character.  "u" stands for characters *)
(* of several bytes (here "h1", "h2"), "a" for those of one.               *)
(***************************************************************************)
EXTENDS Integers, Sequences, SequencesExt

CONSTANT
    Answers     \* the answers of the API: sequences of events

VARIABLES
    answer,     \* the events the API answers with
    coming,     \* the bytes that have not been read yet
    decoder,    \* the TextDecoder holds the start of a character
    buffer,     \* the characters of a line that is not complete
    shown,      \* the characters shown in the chat
    notices,    \* what else the user is told
    finish,     \* finishReason
    cancelled,  \* token.isCancellationRequested
    phase       \* what the request awaits, or how it ended

vars == <<answer, coming, decoder, buffer, shown, notices, finish, cancelled,
          phase>>

Text == {"a", "u"}
Reasons == {"stop", "length"}
Bytes == {"data:", "done", "}", "nl", ":", "a", "h1", "h2"} \cup Reasons
Characters == (Bytes \ {"h1", "h2"}) \cup {"u", "?"}
Ends == {"completed", "cancelled", "failed"}

\* What step makes of start and the elements of s, one after the other.  (A
\* fold over a function: about FoldLeft, which takes an operator, nothing can
\* be proved by induction.)
Folded(step, start, s) ==
    LET folded[i \in 0 .. Len(s)] ==
            IF i = 0 THEN start ELSE step[folded[i - 1]][s[i]]
    IN folded[Len(s)]

-----------------------------------------------------------------------------
(* The API                                                                 *)

\* An event is a delta, a comment or the end mark.
DeltaEvent(content, reason) ==
    [kind |-> "delta", content |-> content, reason |-> reason]
Comment == [kind |-> "comment"]
Done == [kind |-> "done"]

Event == {Comment, Done} \cup
         [kind : {"delta"}, content : Seq(Text),
          reason : {<<>>} \cup {<<r>> : r \in Reasons}]

\* Nothing follows the end mark, and the reasons given for stopping agree.
ASSUME AnswersAssumption ==
    \A events \in Answers :
        /\ events \in Seq(Event)
        /\ \A i \in 1 .. Len(events) : events[i] = Done => i = Len(events)
        /\ \A i, j \in 1 .. Len(events) :
              /\ events[i].kind = "delta" /\ events[i].reason # <<>>
              /\ events[j].kind = "delta" /\ events[j].reason # <<>>
              => events[i].reason = events[j].reason

EncodeCharacter ==
    [bytes \in Seq(Bytes) |-> [ch \in Text |->
        bytes \o IF ch = "u" THEN <<"h1", "h2">> ELSE <<ch>>]]

EncodeEvent(e) ==
    CASE e.kind = "delta" ->
           Folded(EncodeCharacter, <<"data:">>, e.content)
             \o e.reason \o <<"}">>
      [] e.kind = "comment" -> <<":", "a">>
      [] e.kind = "done" -> <<"data:", "done">>

\* Events are separated by line feeds; the last may lack its own.
EncodeLine ==
    [bytes \in Seq(Bytes) |-> [e \in Event |->
        bytes \o EncodeEvent(e) \o <<"nl">>]]
Encode(events, terminated) ==
    LET body == Folded(EncodeLine, <<>>, events)
    IN IF terminated THEN body ELSE Front(body)

\* What the user should see of an answer.
Intend ==
    [text \in Seq(Text) |-> [e \in Event |->
        IF e.kind = "delta" THEN text \o e.content ELSE text]]
Intended(events) == Folded(Intend, <<>>, events)

-----------------------------------------------------------------------------
(* Decoding                                                                *)

\* TextDecoder.decode with {stream: true}: the start of a character is kept
\* for the next chunk, a stray byte becomes a replacement character.
DecodeByte ==
    [d \in [held : BOOLEAN, out : Seq(Characters)] |-> [b \in Bytes |->
        LET out == IF d.held /\ b # "h2" THEN Append(d.out, "?") ELSE d.out
        IN CASE b = "h1" -> [held |-> TRUE, out |-> out]
             [] b = "h2" -> [held |-> FALSE,
                             out |-> Append(out, IF d.held THEN "u" ELSE "?")]
             [] OTHER -> [held |-> FALSE, out |-> Append(out, b)]]]

DecodeEachChunk(held, bytes) ==
    Folded(DecodeByte, [held |-> FALSE, out |-> <<>>], bytes)

Decode(held, bytes) ==
    Folded(DecodeByte, [held |-> held, out |-> <<>>], bytes)

\* buffer.split('\n') and lines.pop(): the lines, and the one that is not
\* complete yet.
SplitAt ==
    [s \in [lines : Seq(Seq(Characters)), rest : Seq(Characters)] |->
     [ch \in Characters |->
        IF ch = "nl" THEN [lines |-> Append(s.lines, s.rest), rest |-> <<>>]
        ELSE [s EXCEPT !.rest = Append(@, ch)]]]
SplitLines(chars) == Folded(SplitAt, [lines |-> <<>>, rest |-> <<>>], chars)

\* parseSseLine: the payload of a data line, when it is well-formed.
Pick(S) ==
    [s \in Seq(Characters) |-> [ch \in Characters |->
        IF ch \in S THEN Append(s, ch) ELSE s]]
Picked(line, S) == Folded(Pick(S), <<>>, line)
IsDone(line) == line = <<"data:", "done">>
IsDelta(line) ==
    /\ Len(line) >= 2
    /\ Head(line) = "data:"
    /\ Last(line) = "}"
Content(line) == Picked(line, Text \cup {"?"})
Reason(line) == Picked(line, Reasons)

\* The deltas of lines are shown, up to the end mark if there is one.
ShowLine ==
    [s \in [shown : Seq(Characters), finish : Seq(Characters),
            done : BOOLEAN] |->
     [line \in Seq(Characters) |->
        CASE s.done -> s
          [] ~s.done /\ IsDone(line) -> [s EXCEPT !.done = TRUE]
          [] ~s.done /\ IsDelta(line) ->
               [shown |-> s.shown \o Content(line),
                finish |-> IF Reason(line) = <<>> THEN s.finish
                           ELSE Reason(line),
                done |-> FALSE]
          [] OTHER -> s]]
Show(lines) ==
    Folded(ShowLine, [shown |-> shown, finish |-> finish, done |-> FALSE],
           lines)

-----------------------------------------------------------------------------
(* The request                                                             *)

\* The end of handleRequest after a whole answer, and in its catch clause.
Complete ==
    /\ phase' = "completed"
    /\ notices' = IF finish' = <<"length">> THEN Append(notices, "truncated")
                  ELSE notices
FailUnlessAborted ==
    IF cancelled THEN UNCHANGED <<phase, notices>>
    ELSE phase' = "failed" /\ notices' = Append(notices, "error")
Fail ==
    /\ phase' = IF cancelled THEN "cancelled" ELSE "failed"
    /\ notices' = IF cancelled THEN notices ELSE Append(notices, "error")

\* fetch is answered with a body; or with an error status, or not at all.
\* Aborting the request rejects it.
FetchAnswered ==
    /\ phase = "fetching"
    /\ ~cancelled
    /\ phase' = "reading"
    /\ UNCHANGED <<answer, coming, decoder, buffer, shown, notices, finish,
                   cancelled>>

FetchFails ==
    /\ phase = "fetching"
    /\ Fail
    /\ UNCHANGED <<answer, coming, decoder, buffer, shown, finish, cancelled>>

\* reader.read resolves with a chunk; its complete lines are shown before
\* anything else happens.
ReadChunk(n) ==
    /\ phase = "reading"
    /\ ~cancelled
    /\ n <= Len(coming)
    /\ coming' = SubSeq(coming, n + 1, Len(coming))
    /\ LET decoded == Decode(decoder, SubSeq(coming, 1, n))
           split == SplitLines(buffer \o decoded.out)
           seen == Show(split.lines)
       IN /\ decoder' = decoded.held
          /\ buffer' = split.rest
          /\ shown' = seen.shown
          /\ finish' = seen.finish
          /\ IF seen.done THEN Complete ELSE UNCHANGED <<phase, notices>>
    /\ UNCHANGED <<answer, cancelled>>

LastLineDropped == <<>>

\* What is left when the answer ends without an end mark: the incomplete line
\* and what flushing the decoder adds to it.
LastLine == <<IF decoder THEN Append(buffer, "?") ELSE buffer>>

ReadDone ==
    /\ phase = "reading"
    /\ ~cancelled
    /\ coming = <<>>
    /\ shown' = Show(LastLine).shown
    /\ finish' = Show(LastLine).finish
    /\ Complete
    /\ UNCHANGED <<answer, coming, decoder, buffer, cancelled>>

\* The connection breaks, or is aborted.
ReadFails ==
    /\ phase = "reading"
    /\ Fail
    /\ UNCHANGED <<answer, coming, decoder, buffer, shown, finish, cancelled>>

\* The user stops the request, which aborts it.
Cancel ==
    /\ ~cancelled
    /\ phase \notin Ends
    /\ cancelled' = TRUE
    /\ UNCHANGED <<answer, coming, decoder, buffer, shown, notices, finish,
                   phase>>

-----------------------------------------------------------------------------
Init ==
    /\ answer \in Answers
    /\ \E terminated \in BOOLEAN : coming = Encode(answer, terminated)
    /\ decoder = FALSE
    /\ buffer = <<>>
    /\ shown = <<>>
    /\ notices = <<>>
    /\ finish = <<>>
    /\ cancelled = FALSE
    /\ phase = "fetching"

\* The body arrives, ends or breaks.
Read == ReadDone \/ ReadFails \/ \E n \in 1 .. Len(coming) : ReadChunk(n)

Next == FetchAnswered \/ FetchFails \/ Read \/ Cancel

Spec == Init /\ [][Next]_vars

\* The network answers, delivers and ends, one way or another.
LiveSpec ==
    Spec /\ WF_vars(FetchAnswered \/ FetchFails) /\ WF_vars(Read)

-----------------------------------------------------------------------------
(* Properties                                                              *)

\* Wherever the chunks were cut, the user sees the start of the answer:
\* nothing garbled, repeated, dropped or out of place.
ShownIsPrefix == IsPrefix(shown, Intended(answer))

\* A request that completes has shown the whole answer, and says so when the
\* model ran out of room.
CompletedIsWhole ==
    phase = "completed" =>
        /\ shown = Intended(answer)
        /\ (ToSet(notices) = {"truncated"}) <=>
              \E i \in 1 .. Len(answer) :
                  answer[i].kind = "delta" /\ answer[i].reason = <<"length">>

\* A request whose body arrives, ends, breaks or is aborted comes to an end:
\* stopping it is enough, wherever it is.
EveryRequestEnds == <>(phase \in Ends)
=============================================================================
