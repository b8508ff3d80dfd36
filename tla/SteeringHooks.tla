----------------------------- MODULE SteeringHooks -----------------------------
(***************************************************************************)
(* From the steering frames to what each layer of a forward adds.           *)
(*                                                                         *)
(*   drowse/steering/composer.py  flatten_stack, compose, plan_for,        *)
(*                                rebuild_hooks, push, pop                 *)
(*   drowse/steering/hooks.py     SteeringPlan, SteeringHook,              *)
(*                                SteeringManager                          *)
(*   drowse/steering/triggers.py  Trigger, TriggerContext                  *)
(*                                                                         *)
(* An entry of a frame is a record: its key, its kind (push, project, ablate,    *)
(* curved), the registered values it reads, its trigger and the sign of    *)
(* its coefficient.  Directions, shares and gains are values: an atom is   *)
(* an entry with the versions of what it was computed from.                *)
(***************************************************************************)
EXTENDS Integers, Sequences, FiniteSets, SequencesExt

CONSTANTS
  Layers,
  Names,            \* registered profiles, manifolds, and the neutral baseline
  Scopes,           \* sets of entries a scope may push
  Covers,           \* the layers each key touches
  Overlapping,      \* pairs of curved keys whose spans are not orthogonal
  PlanCacheSize,
  MaxFrames, MaxChanges, MaxRuns, MaxForwards,   \* bounds
  Unset

VARIABLES
  registry,     \* the version registered under each name, or Unset
  frames,        \* SteeringComposer._stack
  plans,        \* SteeringComposer._plans, least recently used first
  projections,  \* SteeringComposer._projections: what each was computed from
  buffers,      \* persistent offsets per layer, Unset without a compiled model
  hooks,        \* SteeringManager.hooks per layer; a layer without one has no groups
  ctx,          \* SteeringManager.ctx
  gen,          \* the decode loop that runs, or Unset
  shown,        \* what the last forward applied
  wanted,       \* history: the entries of the last rebuild, as of that rebuild
  changes, genRuns

hookVars == <<registry, frames, plans, projections, buffers, hooks, ctx, gen, shown, wanted, changes, genRuns>>

\* Trigger.
TriggerSpace ==
  [prompt : BOOLEAN, generated : BOOLEAN, thinking : BOOLEAN, response : BOOLEAN,
   first : Nat \cup {Unset}, after : Nat \cup {Unset}, gate : BOOLEAN]

\* What an atom is made of: its entry, and the versions it was computed from.
Entries == UNION Scopes
RegistryValues == Nat \cup {Unset}
AtomSpace ==
  [key : {e.key : e \in Entries}, kind : {e.kind : e \in Entries}, sign : {e.sign : e \in Entries},
   read : UNION {[names -> RegistryValues] : names \in SUBSET Names}]

ASSUME HooksAssumption ==
  /\ "neutral" \in Names /\ MaxForwards \in Nat
  /\ \A e \in Entries : e.trigger \in TriggerSpace /\ e.reads \subseteq Names
  /\ Unset \notin Nat /\ Unset \notin [Layers -> SUBSET AtomSpace]

\* Trigger.BOTH.
Both == [prompt |-> TRUE, generated |-> TRUE, thinking |-> TRUE, response |-> TRUE,
         first |-> Unset, after |-> Unset, gate |-> FALSE]

-----------------------------------------------------------------------------
(* Composition.                                                            *)

\* flatten_stack: a later scope overwrites the keys it names.
Flatten(s) ==
  UNION { {e \in s[i] : \A j \in (i + 1)..Len(s) : \A f \in s[j] : f.key # e.key} : i \in 1..Len(s) }

Versions(names) == [n \in names |-> registry[n]]

\* _projected: memoized on the identities of base, onto and whitener.
Projected_AnyWhitener(e) ==
  IF e.key \in DOMAIN projections
       /\ \A n \in e.reads \ {"neutral"} : projections[e.key][n] = registry[n]
  THEN projections[e.key] ELSE Versions(e.reads)
Projected(e) ==
  IF e.key \in DOMAIN projections /\ projections[e.key] = Versions(e.reads)
  THEN projections[e.key] ELSE Versions(e.reads)

Atom(e) == [key |-> e.key, kind |-> e.kind, sign |-> e.sign,
            read |-> IF e.kind = "project" THEN Projected(e) ELSE Versions(e.reads)]

Composable(flat) ==
  /\ registry["neutral"] # Unset
  /\ \A e \in flat : /\ \A n \in e.reads : registry[n] # Unset
                     /\ e.kind = "curved" => e.sign > 0

\* compose: one affine term per trigger, one curved term per manifold.
compose(flat) ==
  LET affine == {e \in flat : e.kind # "curved"}
  IN [affine |-> {[trigger |-> t, atoms |-> {Atom(e) : e \in {a \in affine : a.trigger = t}}] :
                    t \in {a.trigger : a \in affine}},
      curved |-> {[trigger |-> e.trigger, atoms |-> {Atom(e)}] : e \in flat \ affine}]

Dependencies(flat) == Versions({"neutral"} \cup UNION {e.reads : e \in flat})

\* _CachedPlan.valid.
valid_Unchecked(deps) == TRUE
valid(deps) == \A n \in DOMAIN deps : registry[n] = deps[n]

Cached(flat) == {p \in ToSet(plans) : p.flat = flat /\ valid(p.deps)}

\* plan_for: a hit moves to the end, a miss composes and evicts the oldest.
plan_for(flat) ==
  IF Cached(flat) # {} THEN (CHOOSE p \in Cached(flat) : TRUE).plan ELSE compose(flat)

PlansAfter(flat) ==
  LET entry == [flat |-> flat, deps |-> IF Cached(flat) # {} THEN (CHOOSE p \in Cached(flat) : TRUE).deps
                                        ELSE Dependencies(flat), plan |-> plan_for(flat)]
      held == {i \in 1..Len(plans) : plans[i].flat = flat}
      others == IF held = {} THEN plans ELSE RemoveAt(plans, CHOOSE i \in held : TRUE)
      used == Append(others, entry)
  IN IF Len(used) > PlanCacheSize THEN Tail(used) ELSE used

ProjectionsAfter(flat) ==
  LET new == {e \in flat : e.kind = "project"}
  IN IF Cached(flat) # {} THEN projections
     ELSE [k \in DOMAIN projections \cup {e.key : e \in new} |->
             IF \E e \in new : e.key = k THEN Projected(CHOOSE e \in new : e.key = k) ELSE projections[k]]

-----------------------------------------------------------------------------
(* Lowering and installation.                                              *)

At(term, l) == {a \in term.atoms : l \in Covers[a.key]}

\* lower refuses curved spans that overlap at a layer.
Lowerable(plan) ==
  \A c, d \in plan.curved : \A a \in c.atoms, b \in d.atoms :
    {a.key, b.key} \in Overlapping => Covers[a.key] \cap Covers[b.key] = {}

Group(kind, term, l) == [kind |-> kind, trigger |-> term.trigger, atoms |-> At(term, l)]

lower(plan) ==
  [l \in Layers |-> {g \in {Group("curved", t, l) : t \in plan.curved}
                           \cup {Group("affine", t, l) : t \in plan.affine} : g.atoms # {}}]

\* static_offsets: an always-active pure push is a constant per layer.
IsConstant_AnyTrigger(plan) ==
  plan.curved = {} /\ \A t \in plan.affine : \A a \in t.atoms : a.kind # "ablate"
IsConstant(plan) ==
  plan.curved = {} /\ \A t \in plan.affine : t.trigger = Both /\ \A a \in t.atoms : a.kind # "ablate"

\* SteeringHook.recompose: the static short-circuit, and every foot cold.
Armed_AnyTrigger(groups) ==
  [groups |-> groups, static |-> Cardinality(groups) = 1 /\ \A g \in groups : g.kind = "affine",
   feet |-> [g \in groups |-> Unset]]
Armed(groups) ==
  [groups |-> groups,
   static |-> Cardinality(groups) = 1 /\ \A g \in groups : g.kind = "affine" /\ g.trigger = Both,
   feet |-> [g \in groups |-> Unset]]

Zeroed == IF buffers = Unset THEN Unset ELSE [l \in Layers |-> {}]
Bare == [l \in Layers |-> Armed({})]

\* SteeringManager.install: offsets without hooks, or hooks over zeroed offsets.
UsesOffsets(plan) == buffers # Unset /\ IsConstant(plan)

OffsetsOf_Kept(plan) ==
  IF UsesOffsets(plan) THEN [l \in Layers |-> UNION {At(t, l) : t \in plan.affine}] ELSE buffers
OffsetsOf(plan) ==
  IF UsesOffsets(plan) THEN [l \in Layers |-> UNION {At(t, l) : t \in plan.affine}] ELSE Zeroed

HooksOf(plan) ==
  [l \in Layers |-> Armed(IF UsesOffsets(plan) THEN {} ELSE lower(plan)[l])]

-----------------------------------------------------------------------------
(* The stack.                                                              *)

\* rebuild_hooks of a stack that composes and lowers.
Rebuilds(s) ==
  LET flat == Flatten(s)
  IN flat = {} \/ (Composable(flat) /\ Lowerable(plan_for(flat)))

Uninstalled == buffers' = Zeroed /\ hooks' = Bare /\ wanted' = {}

Rebuilt(s) ==
  LET flat == Flatten(s) plan == plan_for(flat)
  IN IF flat = {} THEN Uninstalled /\ UNCHANGED <<plans, projections>>
     ELSE /\ buffers' = OffsetsOf(plan) /\ hooks' = HooksOf(plan)
          /\ plans' = PlansAfter(flat) /\ projections' = ProjectionsAfter(flat)
          /\ wanted' = {[entry |-> e, read |-> Versions(e.reads)] : e \in flat}

\* A stack that composes keeps its plan though its spans overlap.
PlansAfterFailure(s) ==
  IF Composable(Flatten(s))
  THEN plans' = PlansAfter(Flatten(s)) /\ projections' = ProjectionsAfter(Flatten(s))
  ELSE UNCHANGED <<plans, projections>>

Push(scope) ==
  /\ gen = Unset /\ Len(frames) < MaxFrames
  /\ LET pushed == Append(frames, scope)
     IN IF Rebuilds(pushed) THEN frames' = pushed /\ Rebuilt(pushed)
        ELSE PlansAfterFailure(pushed) /\ UNCHANGED <<frames, buffers, hooks, wanted>>
  /\ shown' = Unset
  /\ UNCHANGED <<registry, ctx, gen, changes, genRuns>>

\* pop fails closed: an outer head that no longer composes leaves no steering.
Pop ==
  /\ gen = Unset /\ frames # <<>>
  /\ frames' = Front(frames)
  /\ IF Rebuilds(Front(frames)) THEN Rebuilt(Front(frames))
     ELSE PlansAfterFailure(Front(frames)) /\ Uninstalled
  /\ shown' = Unset
  /\ UNCHANGED <<registry, ctx, gen, changes, genRuns>>

\* A registration, a refresh or an unregistration, while scopes are open or not.
Change(n, version) ==
  /\ changes < MaxChanges
  /\ n = "neutral" => version # Unset
  /\ registry' = [registry EXCEPT ![n] = version]
  /\ changes' = changes + 1
  /\ UNCHANGED <<frames, plans, projections, buffers, hooks, ctx, gen, shown, wanted, genRuns>>

-----------------------------------------------------------------------------
(* Generations.                                                            *)

\* Trigger.active.
active(t, c) ==
  IF c.prefill THEN t.prompt /\ ~t.gate
  ELSE /\ t.generated
       /\ IF c.thinking THEN t.thinking ELSE t.response
       /\ t.first # Unset => c.step < t.first
       /\ t.after # Unset => c.step >= t.after
       /\ t.gate => c.score = "above"

NewContext == [prefill |-> FALSE, thinking |-> FALSE, step |-> 0, score |-> Unset]

Cold(h) ==
  [l \in Layers |-> [h[l] EXCEPT !.feet = [g \in DOMAIN @ |-> Unset]]]

\* reset_manifold_feet.
reset_manifold_feet_Unreset(h) == h
reset_manifold_feet(h) == Cold(h)

\* fast_batch_blocked: HF generate drives no trigger context.
BatchAllowed == \A e \in Flatten(frames) : e.trigger = Both

needs_probe_gating == \E e \in Flatten(frames) : e.trigger.gate

\* The engine's loop over one row, or one HF generate over two.
StartRun(rows, prompt) ==
  /\ gen = Unset /\ genRuns < MaxRuns
  /\ rows > 1 => BatchAllowed
  /\ gen' = [rows |-> rows, lead |-> prompt, step |-> 0, thinking |-> FALSE, score |-> Unset,
             gating |-> needs_probe_gating]
  /\ ctx' = NewContext
  /\ hooks' = reset_manifold_feet(hooks)
  /\ genRuns' = genRuns + 1 /\ shown' = Unset
  /\ UNCHANGED <<registry, frames, plans, projections, buffers, wanted, changes>>

\* _apply_curved: the last foot seeds when its shape broadcasts.
Warm(foot) == foot # Unset /\ foot.rows = gen.rows /\ gen.lead = 1

Fires(h, c) == {g \in h.groups : h.static \/ active(g.trigger, c)}

\* One forward: the context the loop sets, then every layer's hooks in turn.
ForwardSteered(thinking, score) ==
  /\ gen # Unset /\ gen.step < MaxForwards
  /\ gen.step = 0 => ~thinking
  /\ gen.gating \/ score = Unset
  /\ LET single == gen.rows = 1
         now == IF single THEN [prefill |-> gen.step = 0, thinking |-> thinking, step |-> gen.step,
                                score |-> ctx.score]
                ELSE ctx
         fired(l) == Fires(hooks[l], now)
         seeds(l) == {hooks[l].feet[g] : g \in {f \in fired(l) : f.kind = "curved" /\ Warm(hooks[l].feet[f])}}
     IN /\ ctx' = IF single THEN [now EXCEPT !.score = IF gen.gating THEN score ELSE @] ELSE ctx
        /\ shown' = [applied |-> [l \in Layers |-> (IF buffers = Unset THEN {} ELSE buffers[l])
                                                   \cup UNION {g.atoms : g \in fired(l)}],
                     seeds |-> UNION {seeds(l) : l \in Layers},
                     thinking |-> thinking, step |-> gen.step, score |-> gen.score]
        /\ hooks' = [l \in Layers |->
             [hooks[l] EXCEPT !.feet = [g \in DOMAIN @ |->
                IF g \in fired(l) /\ g.kind = "curved" THEN [run |-> genRuns, rows |-> gen.rows] ELSE @[g]]]]
  /\ gen' = [gen EXCEPT !.step = @ + 1, !.lead = 1, !.thinking = thinking, !.score = score]
  /\ UNCHANGED <<registry, frames, plans, projections, buffers, wanted, changes, genRuns>>

EndRun ==
  /\ gen # Unset /\ gen.step > 0
  /\ gen' = Unset /\ shown' = Unset
  /\ UNCHANGED <<registry, frames, plans, projections, buffers, hooks, ctx, wanted, changes, genRuns>>

-----------------------------------------------------------------------------
HooksInit ==
  /\ registry = [n \in Names |-> 1]
  /\ frames = <<>> /\ plans = <<>> /\ projections = <<>>
  /\ buffers \in {Unset, [l \in Layers |-> {}]}
  /\ hooks = Bare
  /\ ctx = NewContext /\ gen = Unset /\ shown = Unset /\ wanted = {}
  /\ changes = 0 /\ genRuns = 0

HooksNext ==
  \/ \E scope \in Scopes : Push(scope)
  \/ Pop
  \/ \E n \in Names : Change(n, changes + 2) \/ Change(n, Unset)
  \/ \E rows \in {1, 2}, prompt \in {1, 2} : StartRun(rows, prompt)
  \/ \E thinking \in BOOLEAN, score \in {Unset, "below", "above"} : ForwardSteered(thinking, score)
  \/ EndRun

HooksSpec == HooksInit /\ [][HooksNext]_hookVars

-----------------------------------------------------------------------------
(* Property.                                                               *)

\* What an entry means at a moment of a generation, read off the generation itself.
Means(t, moment) ==
  IF moment.step = 0 THEN t.prompt /\ ~t.gate
  ELSE /\ t.generated
       /\ (moment.thinking /\ t.thinking) \/ (~moment.thinking /\ t.response)
       /\ moment.step \in (IF t.after = Unset THEN 0 ELSE t.after)
                            ..(IF t.first = Unset THEN MaxForwards ELSE t.first - 1)
       /\ t.gate => moment.score = "above"

\* Every forward adds, at each layer, exactly the entries of the open scopes (the
\* innermost scope's where two name a key) whose trigger means this step, each
\* once and as registered when the frames last changed; whether by persistent
\* offsets, by a static hook or by gated groups, on a plan newly composed or
\* cached.  A curved entry follows only feet of its own generation.
SteeringIsWhatScopesSay ==
  shown # Unset =>
    /\ \A l \in Layers :
         shown.applied[l] =
           {[key |-> w.entry.key, kind |-> w.entry.kind, sign |-> w.entry.sign, read |-> w.read] :
              w \in {v \in wanted : l \in Covers[v.entry.key] /\ Means(v.entry.trigger, shown)}}
    /\ \A foot \in shown.seeds : foot.run = genRuns
=============================================================================
