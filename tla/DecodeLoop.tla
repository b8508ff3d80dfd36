------------------------------- MODULE DecodeLoop -------------------------------
(***************************************************************************)
(* One decode loop: which tokens are thinking, which are response, what is *)
(* streamed and when, where a stop string cuts, and what the finalizer     *)
(* takes for the text.                                                     *)
(*                                                                         *)
(*   drowse/generation/decode.py    generate_steered, GenerationState      *)
(*   drowse/generation/finalize.py  the text of the result                 *)
(*   drowse/model/chat.py           ThinkDelimiters, thinking_optional     *)
(*                                                                         *)
(* A token is its own character; text is a sequence of tokens.  A partial  *)
(* token is a UTF-8 fragment that cannot be shown by itself.  The forward  *)
(* and the sampler are a choice among the tokens.                          *)
(***************************************************************************)
EXTENDS Integers, Sequences, SequencesExt

CONSTANTS
  Words, Space, Partial,     \* tokens of content
  Opens, Closes, Message, Eos,   \* structural tokens; a channel both opens and closes
  Formats,                   \* [start, end, message, startsIn, optional]
  StopStrings,               \* sets of stop strings a call may ask for
  MaxNewTokens,
  SplitsBeforeThinking,      \* a fragment may come right before a thinking section
  Absent

ASSUME DecodeLoopAssumption ==
  /\ MaxNewTokens \in Nat /\ SplitsBeforeThinking \in BOOLEAN
  /\ \A s \in UNION StopStrings : s # <<>>

Content == Words \cup {Space, Partial}
Specials == {Opens, Closes, Message, Eos}
Tokens == Content \cup Specials

VARIABLES
  call,        \* the family's delimiters, the thinking flag, the stop strings
  generated,   \* generated_ids
  tstate,      \* _ThinkState
  pending,     \* pending_ids, with the section they began in
  emitted,     \* the on_token calls: text, section, index of the last token
  emitMap,     \* GenerationState.emit_map
  tail,        \* completion_text, the bounded tail stop strings are sought in
  ending       \* finish_reason, thinking_end_idx, response_text, response_aggregate_index

decodeVars == <<call, generated, tstate, pending, emitted, emitMap, tail, ending>>

NoPending == [ids |-> <<>>, thinking |-> FALSE]
TextOf(es) == FlattenSeq([i \in DOMAIN es |-> es[i].text])
Responses(es) == SelectSeq(es, LAMBDA e : ~e.thinking)

\* starts_in_thinking is forced off only where the template has the switch.
DecodeInit ==
  /\ call \in [think : Formats, thinking : BOOLEAN, stops : StopStrings]
  /\ tstate = IF call.think.startsIn /\ (call.thinking \/ ~call.think.optional) /\ call.think.end # Absent
              THEN "THINKING" ELSE "IDLE"
  /\ generated = <<>> /\ pending = NoPending /\ emitted = <<>> /\ emitMap = <<>> /\ tail = <<>>
  /\ ending = [finish |-> Absent, thinkingEnd |-> 0, text |-> Absent, aggregate |-> Absent]

Running == ending.finish = Absent
Channel == call.think.message # Absent

-----------------------------------------------------------------------------
(* Leaving the loop.                                                       *)

Flush == [text |-> pending.ids, thinking |-> pending.thinking, at |-> Len(generated) - 1]

\* Mid-thought the response is empty; a fragment left over is flushed.
End(finish, generatedAfter, ended) ==
  /\ ending' = [ended EXCEPT !.finish = finish,
                  !.thinkingEnd = IF tstate # "IDLE" THEN Len(generatedAfter) ELSE @]
  /\ generated' = generatedAfter
  /\ UNCHANGED <<call, tstate>>

EndAndFlush(finish) ==
  /\ End(finish, generated, ending)
  /\ emitted' = IF pending.ids = <<>> THEN emitted ELSE Append(emitted, Flush)
  /\ emitMap' = IF pending.ids = <<>> THEN emitMap
                ELSE Append(emitMap, [at |-> Len(generated) - 1, thinking |-> pending.thinking])
  /\ pending' = NoPending
  /\ UNCHANGED tail

\* The stop flag at the top of the loop, the budget, an end token.
StopRequested == Running /\ EndAndFlush("stop")
BudgetSpent == Running /\ Len(generated) = MaxNewTokens /\ EndAndFlush("length")
EosEnds ==
  /\ Running /\ Len(generated) < MaxNewTokens
  /\ ~Channel \/ tstate = "IDLE"
  /\ EndAndFlush("stop")

-----------------------------------------------------------------------------
(* Structural tokens.                                                      *)

Sample(t) ==
  /\ Running /\ Len(generated) < MaxNewTokens
  /\ generated' = Append(generated, t)

Enter(state) == tstate' = state
ThinkingEnds == ending' = [ending EXCEPT !.thinkingEnd = Len(generated')]

\* Fragments at the end of a section are shown with it; emit_map does not list them.
FlushPending ==
  /\ emitted' = IF pending.ids = <<>> THEN emitted ELSE Append(emitted, [Flush EXCEPT !.at = Len(generated)])
  /\ pending' = NoPending
  /\ UNCHANGED <<emitMap, tail>>

Silent == UNCHANGED <<pending, emitted, emitMap, tail>>

\* Channel formats: an end token separates channels.
EosSeparates ==
  /\ Sample(Eos) /\ Channel /\ tstate # "IDLE"
  /\ \/ tstate = "THINKING" /\ Enter("RESPONSE_PREAMBLE") /\ FlushPending /\ UNCHANGED ending
     \/ tstate = "PREAMBLE" /\ Enter("IDLE") /\ FlushPending /\ ThinkingEnds
     \/ tstate = "RESPONSE_PREAMBLE" /\ Silent /\ UNCHANGED <<tstate, ending>>
  /\ UNCHANGED call

OpenThinking ==
  /\ call.think.start # Absent /\ tstate = "IDLE"
  /\ SplitsBeforeThinking \/ pending.ids = <<>>
  /\ Sample(call.think.start) /\ Enter("PREAMBLE") /\ Silent
  /\ UNCHANGED <<call, ending>>

\* A section closed before it began.
CloseInPreamble ==
  /\ tstate = "PREAMBLE" /\ call.think.end # Absent
  /\ Sample(call.think.end) /\ Enter("IDLE") /\ ThinkingEnds /\ Silent
  /\ UNCHANGED call

\* The channel's name is not shown; its message begins the thinking.
ChannelName(t) ==
  /\ tstate = "PREAMBLE" /\ Channel /\ t \notin {Eos, call.think.end}
  /\ Sample(t) /\ Silent
  /\ IF t = call.think.message THEN Enter("THINKING") ELSE UNCHANGED tstate
  /\ UNCHANGED <<call, ending>>

\* Whitespace before the first thought is swallowed.
SwallowSpace ==
  /\ tstate = "PREAMBLE" /\ ~Channel
  /\ Sample(Space) /\ Enter("THINKING") /\ Silent
  /\ UNCHANGED <<call, ending>>

CloseThinking_NoEnd ==
  /\ tstate = "THINKING" /\ call.think.end # Absent
  /\ Sample(call.think.end) /\ FlushPending
  /\ Enter(IF Channel THEN "RESPONSE_PREAMBLE" ELSE "IDLE") /\ UNCHANGED ending
  /\ UNCHANGED call

CloseThinking ==
  /\ tstate = "THINKING" /\ call.think.end # Absent
  /\ Sample(call.think.end) /\ FlushPending
  /\ IF Channel THEN Enter("RESPONSE_PREAMBLE") /\ UNCHANGED ending
     ELSE Enter("IDLE") /\ ThinkingEnds
  /\ UNCHANGED call

ResponseName(t) ==
  /\ tstate = "RESPONSE_PREAMBLE" /\ t # Eos
  /\ Sample(t) /\ Silent
  /\ IF t = call.think.message THEN Enter("IDLE") /\ ThinkingEnds ELSE UNCHANGED <<tstate, ending>>
  /\ UNCHANGED call

-----------------------------------------------------------------------------
(* Content.                                                                *)

Shows(t) ==
  /\ t # Eos
  /\ \/ tstate = "IDLE" /\ t # call.think.start
     \/ tstate = "PREAMBLE" /\ ~Channel /\ t \notin {Space, call.think.end}   \* the first thought
     \/ tstate = "THINKING" /\ t # call.think.end

InThinking == tstate \in {"PREAMBLE", "THINKING"}

BufferPartial ==
  /\ Shows(Partial) /\ Sample(Partial)
  /\ Enter(IF InThinking THEN "THINKING" ELSE tstate)
  /\ pending' = [ids |-> Append(pending.ids, Partial),
                 thinking |-> IF pending.ids = <<>> THEN InThinking ELSE pending.thinking]
  /\ UNCHANGED <<call, emitted, emitMap, tail, ending>>

\* What a whole token shows: itself, or the fragments it completes, in their section.
Piece(t) ==
  [text |-> Append(pending.ids, t),
   thinking |-> IF pending.ids = <<>> THEN InThinking ELSE pending.thinking,
   at |-> Len(generated)]

Occurrences(text) ==
  {i \in 1..Len(text) : \E s \in call.stops : IsPrefix(s, SubSeq(text, i, Len(text)))}
First(S) == CHOOSE i \in S : \A j \in S : i <= j

\* _stop_keep: the longest stop string less one.
Kept_OneLess(text) ==
  LET longest == CHOOSE n \in {Len(s) : s \in call.stops} : \A s \in call.stops : Len(s) <= n
      keep == longest - 2
  IN SubSeq(text, IF Len(text) > keep THEN Len(text) - keep + 1 ELSE 1, Len(text))
Kept(text) ==
  LET longest == CHOOSE n \in {Len(s) : s \in call.stops} : \A s \in call.stops : Len(s) <= n
      keep == longest - 1
  IN SubSeq(text, IF Len(text) > keep THEN Len(text) - keep + 1 ELSE 1, Len(text))

Sought(t) == call.stops # {} /\ ~Piece(t).thinking
StopFound(t) == Sought(t) /\ Occurrences(tail \o Piece(t).text) # {}

Emit(t) ==
  /\ Shows(t) /\ t # Partial /\ ~StopFound(t) /\ Sample(t)
  /\ Enter(IF InThinking THEN "THINKING" ELSE tstate)
  /\ emitted' = Append(emitted, Piece(t))
  /\ emitMap' = Append(emitMap, [at |-> Len(generated), thinking |-> Piece(t).thinking])
  /\ tail' = IF Sought(t) THEN Kept(tail \o Piece(t).text) ELSE tail
  /\ pending' = NoPending
  /\ UNCHANGED <<call, ending>>

\* _response_prefix: what was streamed, up to the hit.
CutText(combined, at) ==
  LET streamed == TextOf(Responses(emitted)) \o SubSeq(combined, Len(tail) + 1, at - 1)
      chars == Len(TextOf(Responses(emitted))) - Len(tail) + at - 1
  IN SubSeq(streamed, 1, chars)

\* The part of this token before the stop string is shown; the rest is cut.
StopString(t) ==
  /\ Shows(t) /\ t # Partial /\ StopFound(t)
  /\ Running /\ Len(generated) < MaxNewTokens
  /\ LET combined == tail \o Piece(t).text
         at == First(Occurrences(combined))
         trimmed == SubSeq(combined, Len(tail) + 1, at - 1)
         shows == trimmed # <<>>
         map == IF shows THEN Append(emitMap, [at |-> Len(generated), thinking |-> FALSE]) ELSE emitMap
         responses == SelectSeq(map, LAMBDA m : ~m.thinking)
     IN /\ emitted' = IF shows THEN Append(emitted, [Piece(t) EXCEPT !.text = trimmed]) ELSE emitted
        /\ emitMap' = map
        /\ End("stop_sequence", Append(generated, t),
               [ending EXCEPT !.text = CutText(combined, at),
                              !.aggregate = IF responses = <<>> THEN Absent ELSE Last(responses).at])
  /\ pending' = NoPending
  /\ UNCHANGED tail

DecodeNext ==
  \/ StopRequested \/ BudgetSpent \/ EosEnds
  \/ EosSeparates \/ OpenThinking \/ CloseInPreamble \/ SwallowSpace \/ CloseThinking
  \/ \E t \in Tokens : ChannelName(t) \/ ResponseName(t) \/ Emit(t) \/ StopString(t)
  \/ BufferPartial

DecodeSpec == DecodeInit /\ [][DecodeNext]_decodeVars

-----------------------------------------------------------------------------
(* The result.                                                             *)

Shown(text) == SelectSeq(text, LAMBDA t : t \notin Specials)

\* finalize_generation: the accepted prefix, or the ids after the thinking, specials skipped.
FinalText ==
  IF ending.finish = "stop_sequence" THEN ending.text
  ELSE Shown(SubSeq(generated, ending.thinkingEnd + 1, Len(generated)))

-----------------------------------------------------------------------------
(* Properties.                                                             *)

\* The text of the result is the response the client was streamed (its text since
\* the last thought; a stop string may cut more), no thought among it.
ResultIsTheStream ==
  ending.finish \in {"stop", "length"} =>
    FinalText = Shown(TextOf(SelectSeq(emitted, LAMBDA e : ~e.thinking /\ e.at >= ending.thinkingEnd)))

\* A call ends at the first occurrence of a stop string in the whole response,
\* though only a bounded tail is searched, and keeps what came before it.
StopCutsAtTheFirst ==
  LET streamed == TextOf(Responses(emitted))
  IN /\ Occurrences(streamed) = {}
     /\ ending.finish = "stop_sequence" =>
          /\ IsPrefix(ending.text, streamed)
          /\ \E s \in call.stops :
               /\ IsPrefix(SubSeq(streamed, Len(ending.text) + 1, Len(streamed)), s)
               /\ Last(generated) \in ToSet(s)

\* Each response emission has its emit_map entry, in order, naming its last token.
EmitMapFollows ==
  LET shown == Responses(emitted) listed == SelectSeq(emitMap, LAMBDA m : ~m.thinking)
  IN /\ Len(shown) = Len(listed)
     /\ \A i \in DOMAIN shown : shown[i].at = listed[i].at

TextIsTheResponse == ResultIsTheStream /\ StopCutsAtTheFirst /\ EmitMapFollows

\* "Raw generated_ids index whose hidden state corresponds to the visible response
\* endpoint": the token the aggregate reads is one whose text is left.
AggregateIsVisible ==
  (ending.finish = "stop_sequence" /\ ending.aggregate # Absent) =>
    LET upTo == SelectSeq(emitted, LAMBDA e : ~e.thinking /\ e.at < ending.aggregate)
    IN Len(ending.text) > Len(TextOf(upTo))
=============================================================================
