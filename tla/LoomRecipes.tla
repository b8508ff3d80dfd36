----------------------------- MODULE LoomRecipes -----------------------------
(***************************************************************************)
(* What a generation runs under, and what becomes of it when the turn is   *)
(* fanned, forked, compared, exported, imported and replayed.              *)
(*                                                                         *)
(*   drowse/loom/recipe.py        Recipe, compose_call, the seed schedule  *)
(*   drowse/session/engine.py     compose_call, resolve_call               *)
(*   drowse/session/session.py    _start_loom_assistant (the receipt)      *)
(*   drowse/session/batch.py      fan                                      *)
(*   drowse/loom/ops.py           plan_fork, plan_prefill                  *)
(*   drowse/loom/transcript.py    from_path, import_into, replay           *)
(*   webui/.../ab.svelte.ts       sendShadowGenerate                       *)
(*                                                                         *)
(* A recipe is a function of its fields, Inherit where it says nothing.    *)
(* What the model says is a function of the conditions it speaks under:    *)
(* everything that reaches the prompt, the hooks and the sampler.  `said`  *)
(* lists the conditions met, and a generated text is <<"said", its place   *)
(* there>>, so two texts are equal when their conditions are.              *)
(*                                                                         *)
(* A node is never edited or removed here and is generated anew, not       *)
(* continued in place: LoomTree has those.                                 *)
(***************************************************************************)
EXTENDS Integers, Sequences, FiniteSets, FiniteSetsExt, SequencesExt

CONSTANTS
  Inherit,      \* a field that says nothing
  Calls,        \* the recipes a caller may ask for
  Requests,     \* what a caller may generate: recipe, seat, input, modifier, raw, rows
  Modes,        \* the modifiers of comparisons
  Partials,     \* the partial recipes a modifier may spell out, by its text
  Members,      \* the standing recipes a cast member may have
  CastLabels,   \* the labels that may have one
  Settings,     \* the configurations of a session
  MaxTurns,     \* bound: nodes of a tree, the root included
  MaxRolls,     \* bound: calls
  MaxMoves      \* bound: what else is done

VARIABLES
  turns,     \* the nodes of the tree in the order they were made, the root first
  active,    \* the active node
  cast,      \* the standing recipes by label
  setting,   \* the session's model and defaults
  said,      \* the conditions the model has spoken under
  rolls,     \* calls so far, each with entropy of its own
  fan,       \* the fan under way
  replay,    \* the recorded turns a replay has yet to regenerate
  file,      \* an exported transcript
  shadow,    \* the comparison just made
  arrival,   \* the import just made
  moves      \* what else was done so far

recipeVars == <<turns, active, cast, setting, said, rolls, fan, replay, file, shadow, arrival, moves>>

---------------------------------------------------------------------------
(* Recipes.                                                                *)

Fields == {"steering", "thinking", "prompt", "seed", "temperature", "user_role",
           "assistant_role"}
Blank == [f \in Fields |-> Inherit]
Over(weak, strong) == [f \in Fields |-> IF strong[f] # Inherit THEN strong[f] ELSE weak[f]]
FirstSet(values) == IF \E v \in Range(values) : v # Inherit
                    THEN SelectSeq(values, LAMBDA v : v # Inherit)[1] ELSE Inherit

Seed(base, row) == [base |-> base, row |-> row]
Entropy == Seed(-(rolls + 1), 0)
Schedule_OneSeed(base, n) == [row \in 1..n |-> base]  \* for a mutant
Schedule(base, n) == [row \in 1..n |-> Seed(base.base, row)]

Opposite == [s \in {"up", "down"} |-> IF s = "up" THEN "down" ELSE "up"]

\* Recipe.compose_modifier
Modifier(anchor, mode) ==
  CASE mode = "unsteered" -> [Blank EXCEPT !.steering = "none"]
    [] mode = "inverted" -> [Blank EXCEPT !.steering =
         IF anchor.steering \in DOMAIN Opposite THEN Opposite[anchor.steering] ELSE "none"]
    [] mode = "reseed" -> [Blank EXCEPT !.seed = Entropy]
    [] mode = "cool" -> [Blank EXCEPT !.temperature = "cool"]
    [] mode \in DOMAIN Partials -> Partials[mode]

\* For a mutant: the anchor's seed before the call's.
Composed_AnchorSeeds(call, standing, anchor, modifier) ==
  [Over(Over(Over(standing, call), anchor), modifier) EXCEPT
     !.seed = FirstSet(<<modifier.seed, anchor.seed, call.seed, standing.seed>>)]

\* compose_call: the tiers from weak to strong, but for the seed.  (The knobs
\* that only observe, which come from the call alone, are no field here.)
Composed(call, standing, anchor, modifier) ==
  [Over(Over(Over(standing, call), anchor), modifier) EXCEPT
     !.seed = FirstSet(<<modifier.seed, call.seed, anchor.seed, standing.seed>>)]

SeatLabel(recipe, seat) == IF seat = "user" THEN recipe.user_role ELSE recipe.assistant_role

---------------------------------------------------------------------------
(* The tree.                                                               *)

Root == [parent |-> 0, seat |-> "system", label |-> Inherit, text |-> <<>>,
         recipe |-> Inherit, raw_ids |-> FALSE, why |-> <<>>]
NewTurn(parent, seat, label, text, recipe) ==
  [Root EXCEPT !.parent = parent, !.seat = seat, !.label = label, !.text = text, !.recipe = recipe]

\* The nodes below the root on the way to n.
PathTo(tree, n) ==
  LET path[k \in DOMAIN tree] == IF k = 1 THEN <<>> ELSE Append(path[tree[k].parent], k)
  IN  path[n]
Users(tree, n) == SelectSeq(PathTo(tree, n), LAMBDA k : tree[k].seat = "user")

\* anchor_recipe.  A child is made after its parent.
AnchorRecipe(n) ==
  LET generated == {k \in Range(PathTo(turns, n)) : turns[k].recipe # Inherit}
  IN  IF generated = {} THEN Blank ELSE turns[Max(generated)].recipe

\* add_user_turn: the tree with the turn in it, and its place.
WithUserTurn(tree, text, parent, label) ==
  LET twins == {k \in DOMAIN tree : /\ tree[k].parent = parent /\ tree[k].seat = "user"
                                    /\ tree[k].text = text /\ tree[k].label = label}
  IN  IF twins # {} THEN [tree |-> tree, at |-> Min(twins)]
      ELSE [tree |-> Append(tree, NewTurn(parent, "user", label, text, Inherit)), at |-> Len(tree) + 1]

\* check_user_send_target
MaySend(c, parent) == c.input = <<>> \/ c.raw \/ c.seat = "user" \/ turns[parent].seat # "user"

---------------------------------------------------------------------------
(* A call.  `parent` is the node it names, or Inherit.                     *)

NoMode == "none"
AskFor(call, seat, input, mode, raw, n) ==
  [call |-> call, seat |-> seat, input |-> input, mode |-> mode, raw |-> raw, n |-> n]
Asks(request, parent, forced) ==
  [call |-> request.call, seat |-> request.seat, input |-> request.input, mode |-> request.mode,
   raw |-> request.raw, parent |-> parent, forced |-> forced]
Plain(call, seat) == AskFor(call, seat, <<>>, NoMode, FALSE, 1)

Standing(c) ==
  LET own == SeatLabel(c.call, c.seat)
      label == IF own = Inherit THEN c.seat ELSE own
  IN  IF ~c.raw /\ label \in DOMAIN cast THEN cast[label] ELSE Blank

\* compose_call of the engine, and what resolve_call makes of blank fields.
Resolved(c) ==
  LET anchor == IF c.mode = NoMode \/ c.parent = Inherit THEN Blank ELSE AnchorRecipe(c.parent)
      modifier == IF c.mode = NoMode THEN Blank ELSE Modifier(anchor, c.mode)
      recipe == Composed(c.call, Standing(c), anchor, modifier)
  IN  [recipe EXCEPT
         !.steering = IF @ = "none" THEN Inherit ELSE @,
         !.thinking = IF @ = Inherit THEN "yes" ELSE @,
         !.prompt = IF c.raw THEN "none" ELSE IF @ = Inherit THEN setting.prompt ELSE @]

\* What the model is shown: every turn with its header, or the bare texts.
Rendered(turn) == <<turn.seat, turn.label, turn.text>>
Shown(tree, n, raw) ==
  LET path == PathTo(tree, n)
  IN  [i \in DOMAIN path |-> IF raw THEN <<tree[path[i]].text>> ELSE Rendered(tree[path[i]])]

Conditions(c, recipe, past) ==
  [past |-> past, seat |-> IF c.raw THEN Inherit ELSE c.seat,
   label |-> IF c.raw THEN Inherit ELSE SeatLabel(recipe, c.seat),
   steering |-> recipe.steering, thinking |-> recipe.thinking, prompt |-> recipe.prompt,
   temperature |-> IF recipe.temperature = Inherit THEN setting.temperature ELSE recipe.temperature,
   seed |-> IF recipe.seed = Inherit THEN Entropy ELSE recipe.seed,
   forced |-> c.forced, raw |-> c.raw]

Text(conditions) ==
  <<"said", IF conditions \in Range(said)
            THEN CHOOSE i \in DOMAIN said : said[i] = conditions ELSE Len(said) + 1>>
Speak(conditions) ==
  said' = IF conditions \in Range(said) THEN said ELSE Append(said, conditions)

\* A generation that lands under `at`: the input, its reply and the receipt.
Generates(c, at, why) ==
  LET recipe == Resolved(c)
      sent == IF c.input = <<>> THEN [tree |-> turns, at |-> at]
              ELSE WithUserTurn(turns, c.input, at, IF c.raw THEN Inherit ELSE recipe.user_role)
      conditions == Conditions(c, recipe, Shown(sent.tree, sent.at, c.raw))
      reply == [NewTurn(sent.at, c.seat, conditions.label, Text(conditions), recipe) EXCEPT
                  !.raw_ids = TRUE, !.why = why]
  IN  /\ MaySend(c, at)
      /\ Len(sent.tree) < MaxTurns /\ rolls < MaxRolls
      /\ turns' = Append(sent.tree, reply)
      /\ active' = Len(turns')
      /\ Speak(conditions)
      /\ rolls' = rolls + 1

---------------------------------------------------------------------------
(* The operations.                                                         *)

Unremarked == shadow' = <<>> /\ arrival' = <<>>
Moves == moves < MaxMoves /\ moves' = moves + 1

RecipesInit ==
  /\ turns = <<Root>> /\ active = 1 /\ cast = <<>>
  /\ setting \in Settings /\ moves = 0
  /\ said = <<>> /\ rolls = 0
  /\ fan = <<>> /\ replay = <<>> /\ file = <<>> /\ shadow = <<>> /\ arrival = <<>>

TreeNodes == DOMAIN turns
Parents == TreeNodes \cup {Inherit}
Landing(parent) == IF parent = Inherit THEN active ELSE parent
Idle == fan = <<>> /\ replay = <<>>

\* generate with n = 1
Generate(request, parent) ==
  /\ Idle /\ request.n = 1
  /\ Generates(Asks(request, parent, <<>>), Landing(parent), <<>>)
  /\ UNCHANGED <<cast, setting, fan, replay, file, moves>> /\ Unremarked

\* BatchRunner.fan: the seeds of the rows, and the node they all start from.
Fan(request, parent) ==
  /\ Idle /\ request.n > 1 /\ rolls < MaxRolls
  /\ MaySend(request, Landing(parent))
  /\ LET base == IF request.call.seed = Inherit THEN Entropy ELSE request.call.seed
     IN  fan' = <<[asked |-> Asks(request, parent, <<>>), start |-> Landing(parent),
                   name |-> rolls + 1, seeds |-> Schedule(base, request.n)]>>
  /\ UNCHANGED <<turns, active, cast, setting, said, rolls, replay, file, moves>> /\ Unremarked

\* A row without a parent starts where the fan did, and has no anchor.
FanRow ==
  \E f \in Range(fan) :
    /\ Generates([f.asked EXCEPT !.call.seed = Head(f.seeds)], f.start,
                 [fan |-> f.name, mode |-> f.asked.mode])
    /\ fan' = IF Len(f.seeds) = 1 THEN <<>> ELSE <<[f EXCEPT !.seeds = Tail(@)]>>
    /\ UNCHANGED <<cast, setting, replay, file, moves>> /\ Unremarked

\* plan_fork: the tokens up to one, another in its place, and on under the
\* receipt, with its seed or a new one.
ForkFromToken(n, seed) ==
  LET node == turns[n]
      relabelled == IF node.seat = "user" THEN [node.recipe EXCEPT !.user_role = node.label]
                    ELSE [node.recipe EXCEPT !.assistant_role = node.label]
      call == IF seed = Inherit THEN relabelled ELSE [relabelled EXCEPT !.seed = seed]
  IN  /\ Idle /\ node.raw_ids
      /\ Generates(Asks(Plain(call, node.seat), node.parent, <<"fork">> \o node.text),
                   node.parent, [forkOf |-> n, seed |-> seed])
      /\ UNCHANGED <<cast, setting, fan, replay, file, moves>> /\ Unremarked

\* plan_prefill: the user turn is sent again under its own parent.
PrefillAssistant(n, call) ==
  LET node == turns[n]
  IN  /\ Idle /\ node.seat = "user"
      /\ Generates(Asks(AskFor([call EXCEPT !.thinking = "no"], "assistant", node.text, NoMode, FALSE, 1),
                        node.parent, <<"open">>),
                   node.parent, [prefillOf |-> n])
      /\ UNCHANGED <<cast, setting, fan, replay, file, moves>> /\ Unremarked

\* sendShadowGenerate: the dashboard sends the messages above a reply and asks
\* for another reply to them that nothing keeps; the reply is its anchor.
SendShadowGenerate(n, mode, call) ==
  LET node == turns[n]
      own == IF node.label = Inherit THEN SeatLabel(call, node.seat) ELSE node.label
      labelled == IF node.seat = "user" THEN [call EXCEPT !.user_role = own]
                  ELSE [call EXCEPT !.assistant_role = own]
      sent == [labelled EXCEPT !.steering = "none", !.thinking = IF @ = Inherit THEN "no" ELSE @]
      c == Asks(AskFor(sent, node.seat, <<>>, mode, FALSE, 1), n, <<>>)
  IN  /\ Idle /\ node.recipe # Inherit /\ rolls < MaxRolls
      /\ shadow' = <<[of |-> n, mode |-> mode, seeded |-> call.seed # Inherit,
                      ran |-> Conditions(c, Resolved(c), Shown(turns, node.parent, FALSE))]>>
      /\ rolls' = rolls + 1
      /\ UNCHANGED <<turns, active, cast, setting, said, fan, replay, file, moves>> /\ arrival' = <<>>

\* set_cast_member and remove_cast_member are never refused.
SetCastMember(label, member) ==
  /\ Moves /\ Unremarked
  /\ cast' = [l \in DOMAIN cast \cup {label} |-> IF l = label THEN member ELSE cast[l]]
  /\ UNCHANGED <<turns, active, setting, said, rolls, fan, replay, file>>
RemoveCastMember(label) ==
  /\ Moves /\ Unremarked
  /\ cast' = [l \in DOMAIN cast \ {label} |-> cast[l]]
  /\ UNCHANGED <<turns, active, setting, said, rolls, fan, replay, file>>

Navigate(n) ==
  /\ Moves /\ Unremarked
  /\ active' = n
  /\ UNCHANGED <<turns, cast, setting, said, rolls, fan, replay, file>>

\* The session's defaults are set, or another session takes its place.
Configure(new) ==
  /\ Moves /\ Unremarked
  /\ new.model = setting.model /\ setting' = new
  /\ UNCHANGED <<turns, active, cast, said, rolls, fan, replay, file>>
OpenSession(new) ==
  /\ Idle /\ Moves /\ Unremarked
  /\ turns' = <<Root>> /\ active' = 1 /\ cast' = <<>> /\ setting' = new
  /\ UNCHANGED <<said, rolls, fan, replay, file>>

---------------------------------------------------------------------------
(* Transcripts.                                                            *)

\* The conditions of a generated turn, and whether every reply on the way to n
\* has above it what its model was shown: it may have been imported elsewhere.
Said(n) == said[turns[n].text[2]]
Coherent(n) ==
  \A k \in Range(PathTo(turns, n)) :
    turns[k].recipe # Inherit /\ ~Said(k).raw => Shown(turns, turns[k].parent, FALSE) = Said(k).past

\* Transcript.from_path
Export(n) ==
  /\ Moves /\ Unremarked
  /\ LET path == PathTo(turns, n)
         Recorded(turn) == [seat |-> turn.seat, label |-> turn.label, text |-> turn.text,
                            recipe |-> turn.recipe]
     IN  file' = <<[model |-> setting.model, prompt |-> setting.prompt,
                    cast |-> cast, turns |-> [i \in DOMAIN path |-> Recorded(turns[path[i]])],
                    coherent |-> Coherent(n)]>>
  /\ UNCHANGED <<turns, active, cast, setting, said, rolls, fan, replay>>

Spoke(f) == SelectSeq(f.turns, LAMBDA t : t.seat = "user")

\* How many users' turns agree, from the first.
Agreeing(users, texts) ==
  Max({k \in 0..Min({Len(users), Len(texts)}) :
         \A i \in 1..k : turns[users[i]].text = texts[i].text})

\* _find_merge_anchor
MergeAnchor(f) ==
  LET users == Users(turns, active)
      k == Agreeing(users, Spoke(f))
  IN  IF k = 0 THEN 1 ELSE users[k]

AttachParent(f, mode) ==
  CASE mode = "default" -> 1 [] mode = "here" -> active [] mode = "merge" -> MergeAnchor(f)

\* _branch_chain: the turns behind those the branch has already.
Skipped_Replies(i, seen, skip, seat) == seen <= skip  \* for a mutant
Skipped(i, seen, skip, seat) == IF seat = "user" THEN seen <= skip ELSE seen < skip
BranchChain(f, at) ==
  LET skip == IF at = 1 THEN 0 ELSE Agreeing(Users(turns, at), Spoke(f))
      seen == [i \in DOMAIN f.turns |-> Cardinality({j \in 1..i : f.turns[j].seat = "user"})]
      kept == {i \in DOMAIN f.turns : ~Skipped(i, seen[i], skip, f.turns[i].seat)}
  IN  [j \in 1..Cardinality(kept) |->
         f.turns[CHOOSE i \in kept : Cardinality({k \in kept : k <= i}) = j]]

\* _collect_guard_notes.  (A strict import is one of those below, or refused.)
Mismatch(f) == f.model # setting.model

\* import_into with its graft, and the turns a replay will regenerate.
ImportInto(mode, replays) ==
  \E f \in Range(file) :
    LET at == AttachParent(f, mode)
        chain == BranchChain(f, at)
        leaf == IF chain = <<>> THEN at ELSE Len(turns) + Len(chain)
        added == [j \in DOMAIN chain |->
                    NewTurn(IF j = 1 THEN at ELSE Len(turns) + j - 1, chain[j].seat, chain[j].label,
                         chain[j].text, chain[j].recipe)]
    IN  /\ Idle /\ Moves
        /\ ~(mode = "merge" /\ Mismatch(f))
        /\ Len(turns) + Len(chain) <= MaxTurns
        /\ turns' = turns \o added
        /\ cast' = [l \in DOMAIN cast \cup DOMAIN f.cast |->
                      IF l \in DOMAIN cast THEN cast[l] ELSE f.cast[l]]
        /\ active' = IF chain = <<>> THEN active ELSE leaf
        /\ replay' = IF replays
                     THEN SelectSeq([j \in DOMAIN chain |-> Len(turns) + j],
                                    LAMBDA k : turns'[k].recipe # Inherit)
                     ELSE <<>>
        /\ arrival' = <<[file |-> f, mode |-> mode, leaf |-> leaf]>>
        /\ UNCHANGED <<setting, said, rolls, fan, file>> /\ shadow' = <<>>
\* replay: a recorded turn again, beside it.  One that raises ends the replay,
\* or is passed over.
ReplayTurn ==
  /\ replay # <<>>
  /\ LET node == turns[Head(replay)]
         call == [node.recipe EXCEPT !.steering = IF @ = Inherit THEN "none" ELSE @]
     IN  Generates(Asks(Plain(call, node.seat), node.parent, <<>>), node.parent,
                   [replayOf |-> Head(replay)])
  /\ replay' = Tail(replay)
  /\ UNCHANGED <<cast, setting, fan, file, moves>> /\ Unremarked
ReplayRaises ==
  /\ replay # <<>>
  /\ replay' \in {<<>>, Tail(replay)}
  /\ UNCHANGED <<turns, active, cast, setting, said, rolls, fan, file, moves>> /\ Unremarked

Sample ==
  \/ \E request \in Requests, parent \in Parents : Generate(request, parent) \/ Fan(request, parent)
  \/ FanRow
Rework ==
  \E n \in TreeNodes \ {1} :
    \/ \E seed \in {Inherit, Entropy} : ForkFromToken(n, seed)
    \/ \E call \in Calls : PrefillAssistant(n, call)
    \/ \E mode \in Modes, call \in Calls : SendShadowGenerate(n, mode, call)
Arrange ==
  \/ \E label \in CastLabels :
       (\E member \in Members : SetCastMember(label, member)) \/ RemoveCastMember(label)
  \/ \E n \in TreeNodes : Navigate(n)
  \/ \E new \in Settings : Configure(new) \/ OpenSession(new)
Travel ==
  \/ \E n \in TreeNodes \ {1} : Export(n)
  \/ \E mode \in {"default", "here", "merge"}, replays \in BOOLEAN : ImportInto(mode, replays)
  \/ ReplayTurn
  \/ ReplayRaises

RecipesNext == Sample \/ Rework \/ Arrange \/ Travel

RecipesSpec == RecipesInit /\ [][RecipesNext]_recipeVars

---------------------------------------------------------------------------
(* Properties.                                                             *)

Because(n, field) == field \in DOMAIN turns[n].why

\* What a receipt leaves open: what it does not name is filled anew.
Open(recipe) == {f \in {"steering", "temperature", "seed"} : recipe[f] = Inherit}
Displaced(n) == IF Coherent(n) THEN {} ELSE {"past"}
AlikeBut(a, b, fields) == \A f \in DOMAIN a \ fields : a[f] = b[f]

\* A fork speaks under the conditions of its source, the forced tokens and a
\* new seed apart, in its seat, under its label and at its side (plan_fork).
ForksAreControlled ==
  \A n \in TreeNodes : Because(n, "forkOf") =>
    LET source == turns[n].why.forkOf
    IN  /\ turns[n].parent = turns[source].parent
        /\ ~Said(source).raw => AlikeBut(Said(n), Said(source), {"forced"} \cup
             (Displaced(source) \cup Open(turns[source].recipe) \cup (IF turns[n].why.seed = Inherit THEN {} ELSE {"seed"})))

\* A comparison that brings no seed differs from the reply it stands beside in
\* what its mode changes (sendShadowGenerate: the parent is used only to resolve
\* the original turn's recipe; an unseeded regen is a controlled comparison).
Changed(mode) ==
  CASE mode \in {"unsteered", "inverted"} -> {"steering"}
    [] mode = "reseed" -> {"seed"}
    [] mode = "cool" -> {"temperature"}
    [] mode \in DOMAIN Partials -> {f \in Fields : Partials[mode][f] # Inherit}
ComparisonsAreControlled ==
  \A s \in Range(shadow) : ~Said(s.of).raw =>
    AlikeBut(s.ran, Said(s.of),
      {"forced"} \cup Changed(s.mode) \cup Displaced(s.of) \cup (Open(turns[s.of].recipe) \ {"steering"})
      \cup (IF turns[s.of].label = Inherit THEN {"label"} ELSE {})
      \cup (IF s.seeded THEN {"seed"} ELSE {}))

\* A transcript imported at the root replays word for word in any session, for
\* all its receipts pin and whatever the cast there (Transcript.replay).
ReplaysAreFaithful ==
  \A n \in TreeNodes : Because(n, "replayOf") =>
    LET recorded == turns[n].why.replayOf
        was == Said(recorded)
    IN  /\ turns[n].parent = turns[recorded].parent
        /\ ~was.raw /\ was.forced = <<>> =>
             AlikeBut(Said(n), was, Displaced(recorded) \cup (Open(turns[recorded].recipe) \ {"steering"}))

\* The rows of a fan are distinct samples of one prompt, unless its modifier
\* pins the seed (compose_call: N fanned siblings stay N distinct samples).
FansAreDistinct ==
  \A j, k \in TreeNodes : j # k /\ Because(j, "fan") /\ Because(k, "fan") =>
    (turns[j].why = turns[k].why =>
       /\ turns[j].parent = turns[k].parent
       /\ (turns[j].why.mode \in DOMAIN Partials => Partials[turns[j].why.mode].seed = Inherit) => turns[j].text # turns[k].text)

\* A prefilled reply hangs under the turn it replies to or under its twin, when
\* the call asks under that turn's label (plan_prefill).
PrefillsReply ==
  \A n \in TreeNodes : Because(n, "prefillOf") =>
    LET prompt == turns[n].why.prefillOf
    IN  turns[prompt].label = turns[n].recipe.user_role =>
          Shown(turns, turns[n].parent, FALSE) = Shown(turns, prompt, FALSE)

\* What the users of a transcript say is said on the branch it becomes, once
\* and in order, down to its last turn, and at the root every reply has above
\* it what its model was shown; a merge finds what is there already
\* (import_into, _branch_chain, _find_merge_anchor).
ImportsAreWhole ==
  \A a \in Range(arrival) : a.file.turns # <<>> =>
    LET users == Users(turns, a.leaf)
    IN  /\ a.mode # "here" => /\ turns[a.leaf].text = Last(a.file.turns).text
                              /\ Len(users) = Len(Spoke(a.file))
                              /\ \A i \in DOMAIN users : turns[users[i]].text = Spoke(a.file)[i].text
        /\ a.mode = "default" /\ a.file.coherent => Coherent(a.leaf)

\* Whatever repeats a turn, by its receipt or by its record, repeats what was
\* recorded, and what travels arrives.
ReproducedAsRecorded ==
  /\ ForksAreControlled /\ ComparisonsAreControlled /\ ReplaysAreFaithful
  /\ FansAreDistinct /\ PrefillsReply /\ ImportsAreWhole
==============================================================================
