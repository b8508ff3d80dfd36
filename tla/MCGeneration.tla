---------------------------- MODULE MCGeneration ----------------------------
(***************************************************************************)
(* What surrounds one forward, for TLC: a behaviour is one of series of    *)
(* rows, of steering hooks under changing scopes, of one decode loop, of a *)
(* session with one thread and its cached prefix, or of expressions that   *)
(* are written, recorded and read again.                                   *)
(***************************************************************************)
EXTENDS BatchRuns, SteeringHooks, DecodeLoop, DrowseSession, SteeringGrammar

VARIABLE part

\* Rows of one prompt that part at its last token.
TwoPrompts == {<<"1", "2", "3">>, <<"1", "2", "4">>}

\* Scopes: what steers, what it reads, when it fires, its sign.
Term(key, kind, reads, t, sign) == [key |-> key, kind |-> kind, reads |-> reads, trigger |-> t, sign |-> sign]
AfterOne == [Both EXCEPT !.prompt = FALSE, !.after = 2, !.thinking = FALSE]
FirstOne == [Both EXCEPT !.prompt = FALSE, !.first = 2, !.response = FALSE]
Gated == [Both EXCEPT !.prompt = FALSE, !.gate = TRUE]
Steered(t, sign) == Term("v", "push", {"v", "neutral"}, t, sign)
Curve(key, t, sign) == Term(key, "curved", {key}, t, sign)

StackScopes ==
  { {Steered(Both, 1)},
    {Steered(AfterOne, -1), Term("v~w", "project", {"v", "w", "neutral"}, Both, 1)},
    {Term("!v", "ablate", {"v", "neutral"}, Both, 1), Curve("c", Both, 1)},
    {Curve("c", Gated, 1), Steered(FirstOne, -1)},
    {Curve("d", Both, 1)},
    {Curve("c", Both, -1)} }

LayersOf ==
  [k \in {"v", "!v", "v~w", "c", "d"} |->
     CASE k \in {"v", "!v", "c"} -> {1, 2} [] k = "v~w" -> {1} [] OTHER -> {2}]

\* No delimiters; a template that opens the thought; tags; two channel formats.
Format(start, end, message, startsIn, optional) ==
  [start |-> start, end |-> end, message |-> message, startsIn |-> startsIn, optional |-> optional]
FiveFormats ==
  { Format(Absent, Absent, Absent, FALSE, FALSE), Format(Absent, Closes, Absent, TRUE, TRUE),
    Format(Opens, Closes, Absent, FALSE, TRUE), Format(Opens, Opens, Message, FALSE, FALSE),
    Format(Absent, Opens, Message, TRUE, FALSE) }

\* One string that two emissions make up, and two of different lengths.
ThreeStops == {{}, {<<"a", "b">>}, {<<"b">>, <<"a", "a", "b">>}}

\* Two manifolds that read as vectors and share a name, and one that shares
\* their labels; keys that may be registered, one of them a label.
Manifold(ns, name, labels, pca) == [ns |-> ns, name |-> name, labels |-> labels, pca |-> pca]
Poles == <<"angry", "calm">>
ThreeManifolds ==
  { Manifold("default", <<"angry", ".", "calm">>, Poles, TRUE),
    Manifold("alice", <<"angry", ".", "calm">>, Poles, TRUE),
    Manifold("alice", <<"moods">>, <<"happy", "angry">>, FALSE) }
TwoProfiles == {<<"warm">>, <<"angry">>}

Halves == [n \in {"0", "0.5", "1", "1.5", "2", "12"} |->
             CASE n = "0" -> 0 [] n = "0.5" -> 1 [] n = "1" -> 2 [] n = "1.5" -> 3
               [] n = "2" -> 4 [] OTHER -> 24]
\* No text names a label otherwise than by its slug.
Slugs == [n \in {"angry", "calm", "happy", "moods", "warm", "Warm", "default", "alice",
                "sae", "jlens", "role", "bad"} |-> IF n = "Warm" THEN "warm" ELSE n]

\* One term with each kind of coefficient, selector and trigger, the malformed
\* ones among them, and sums of two.
Coefficients ==
  {<<>>, <<"0.5">>, <<"-", "1", "*">>, <<"1", ",", "0.5">>, <<"-", "0.5", ",", "-", "1">>,
   <<"0", ",", "0.5">>, <<"1", ",", "1", ",", "1">>}
Selectors ==
  {<<"angry">>, <<"happy">>, <<"warm">>, <<"angry", ".", "calm">>,
   <<"default", "/", "angry", ".", "calm">>, <<"alice", "/", "warm">>, <<"warm", ":", "sae">>,
   <<"warm", ":", "bad">>, <<"sae", "/", "12">>, <<"jlens", "/", "#", "12">>,
   <<"jlens", "/", "Warm">>, <<"jlens", "/", "Warm", ":", "sae">>, <<"!", "Warm">>,
   <<"!", "moods", "%", "happy">>, <<"Warm", "~", "happy">>,
   <<"warm", "|", "alice", "/", "calm", ":", "role">>, <<"warm", "~", "calm", "|", "happy">>,
   <<"moods", "%", "happy">>, <<"alice", "/", "moods", ":", "sae", "%", "0.5", ",", "-", "1">>,
   <<"moods", "%", "+", "1">>, <<"moods", "%", "1", "~", "calm">>}
OnCalm == <<"when", ":", "angry", ".", "calm", "[", "1", "]", ">", "0.5">>
Triggers ==
  {<<>>, <<"@", "both">>, <<"@", "after">>, <<"@", "prompt">>, <<"@", "first", ":", "2">>,
   <<"@", "first">>, <<"@", "after", ":", "1.5">>, <<"@", "after", ":", "1">>, <<"@">> \o OnCalm,
   <<"@", "generated", "&">> \o OnCalm, <<"@", "thinking", "&">> \o OnCalm,
   <<"@", "when", ":", "moods", "@", "happy", "<=", "-", "1">>,
   <<"@", "when", ":", "jlens", "/", "#", "12", ">=", "+", "1">>,
   <<"@", "after", "&", "when", ":", "alice", "/", "moods", ":", "fraction", "<", "1">>,
   <<"@", "when", ":", "angry", ".", "calm", ":", "fraction", ">", "1">>}
Summands ==
  {<<"angry">>, <<"0.5", "angry">>, <<"moods", "%", "happy">>, <<"happy", "@", "after">>,
   <<"1", ",", "0.5", "alice", "/", "moods", "%", "happy">>, <<"warm">>, <<"warm", "@", "both">>,
   <<"!", "warm">>, <<"0.5", "!", "Warm">>, <<"warm", "~", "happy">>,
   <<"alice", "/", "moods", "%", "angry">>}
SomeTexts == {c \o s \o t : c \in Coefficients, s \in Selectors, t \in Triggers}
             \cup {a \o <<op>> \o b : a \in Summands, b \in Summands, op \in {"+", "-"}}

MCInit ==
  /\ part \in {"fans", "rows", "hooks", "decode", "session", "grammar"}
  /\ BatchInit /\ HooksInit /\ DecodeInit /\ Init /\ GrammarInit
  /\ part # "grammar" => catalog = {} /\ profiles = {}
  /\ IF part \in {"fans", "rows"} THEN part = "fans" => ~runtime.compiled /\ ~runtime.cudaGraphs
     ELSE ~runtime.compiled /\ ~runtime.cudaGraphs
  /\ part # "hooks" => buffers = Unset
  /\ IF part = "decode" THEN ~call.thinking => call.think.optional /\ call.think.startsIn
     ELSE ~call.thinking /\ call.stops = {} /\ call.think.startsIn /\ call.think.message # Absent

Plain == [needs |-> "nothing", steering |-> "none", transient |-> FALSE, thread |-> "owner", budget |-> Default]

\* Stateful fans and sweeps are checked apart from batches on the caches.
FansNext ==
  /\ BatchNext
  /\ entry' = Nothing
  /\ series' # Nothing => ~series'.stateless /\ series'.kind = "fan" /\ series'.route = Route(Plain)
RowsNext ==
  /\ BatchNext
  /\ series' # Nothing => series'.stateless /\ series'.kind = "batch"

\* Only the names of affine steering are registered anew; a reading is high or absent.
StackNext ==
  /\ HooksNext
  /\ changes' # changes => \A key \in {"c", "d"} : registry'[key] = registry[key]
  /\ gen' # Unset => gen'.score # "below"

\* Another family's structural tokens are ordinary content.
TokensNext ==
  /\ DecodeNext
  /\ generated' # generated =>
       Last(generated') \in Content \cup {Eos, call.think.start, call.think.end, call.think.message}

MCNext ==
  /\ UNCHANGED part
  /\ \/ part = "fans" /\ FansNext /\ UNCHANGED <<hookVars, decodeVars, vars, grammarVars>>
     \/ part = "rows" /\ RowsNext /\ UNCHANGED <<hookVars, decodeVars, vars, grammarVars>>
     \/ part = "hooks" /\ StackNext /\ UNCHANGED <<batchVars, decodeVars, vars, grammarVars>>
     \/ part = "decode" /\ TokensNext /\ UNCHANGED <<batchVars, hookVars, vars, grammarVars>>
     \/ part = "session" /\ Next /\ UNCHANGED <<batchVars, hookVars, decodeVars, grammarVars>>
     \/ part = "grammar" /\ GrammarNext /\ UNCHANGED <<batchVars, hookVars, decodeVars, vars>>

MCSpec == MCInit /\ [][MCNext]_<<part, batchVars, hookVars, decodeVars, vars, grammarVars>>
=============================================================================
