---------------------------- MODULE GenerationProofs ----------------------------
(***************************************************************************)
(* What surrounds one forward, for any scopes, layers and registry: what   *)
(* each layer adds is what the open scopes say of that step.               *)
(*                                                                         *)
(* The invariant relates the installed hooks and offsets to the entries of *)
(* the last rebuild, a cached plan to the registry it was composed under,  *)
(* and the trigger context to the generation it belongs to.                *)
(***************************************************************************)
EXTENDS BatchRuns, SteeringHooks, SequenceTheorems, WellFoundedInduction, TLAPS

(***************************************************************************)
(* Plans.                                                                  *)
(***************************************************************************)

Registries == [Names -> RegistryValues]

\* What composition reads of the registry r for the entries flat.
ReadOf(r, names) == [n \in names |-> r[n]]
AtomUnder(r, e) == [key |-> e.key, kind |-> e.kind, sign |-> e.sign, read |-> ReadOf(r, e.reads)]
DependsOn(flat) == {"neutral"} \cup UNION {e.reads : e \in flat}

\* The plan composed for flat under r.
PlanUnder(r, flat) ==
  LET affine == {e \in flat : e.kind # "curved"}
  IN [affine |-> {[trigger |-> t, atoms |-> {AtomUnder(r, e) : e \in {a \in affine : a.trigger = t}}] :
                    t \in {a.trigger : a \in affine}},
      curved |-> {[trigger |-> e.trigger, atoms |-> {AtomUnder(r, e)}] : e \in flat \ affine}]

CachedUnder(r, flat) ==
  [flat |-> flat, deps |-> ReadOf(r, DependsOn(flat)), plan |-> PlanUnder(r, flat)]

CachedPlans == {CachedUnder(r, flat) : r \in Registries, flat \in SUBSET Entries}

(***************************************************************************)
(* The invariant.                                                          *)
(***************************************************************************)

HooksTypes ==
  /\ registry \in Registries
  /\ frames \in Seq(Scopes)
  /\ plans \in Seq(CachedPlans)
  /\ changes \in Nat
  /\ hooks = [l \in Layers |-> [groups |-> hooks[l].groups, static |-> hooks[l].static,
                                feet |-> hooks[l].feet]]
  /\ \A l \in Layers : DOMAIN hooks[l].feet = hooks[l].groups

AtomOf(w) == [key |-> w.entry.key, kind |-> w.entry.kind, sign |-> w.entry.sign, read |-> w.read]

\* The entries of a rebuild that touch a layer.
WantedAt(W, l) == {w \in W : l \in Covers[w.entry.key]}

ByOffsets(B, H, W) ==
  /\ B # Unset
  /\ \A w \in W : w.entry.trigger = Both
  /\ \A l \in Layers : /\ B[l] = {AtomOf(w) : w \in WantedAt(W, l)}
                       /\ H[l].groups = {}

ByHooks(B, H, W) ==
  /\ B # Unset => \A l \in Layers : B[l] = {}
  /\ \A l \in Layers :
       /\ \A g \in H[l].groups : \A a \in g.atoms :
            \E w \in WantedAt(W, l) : a = AtomOf(w) /\ g.trigger = w.entry.trigger
       /\ \A w \in WantedAt(W, l) :
            \E g \in H[l].groups : AtomOf(w) \in g.atoms /\ g.trigger = w.entry.trigger
       /\ H[l].static => \A g \in H[l].groups : g.trigger = Both

\* What is installed is what the last rebuild asked for.
InstalledInv ==
  /\ \A w \in wanted : w.entry \in Flatten(frames)
  /\ ByOffsets(buffers, hooks, wanted) \/ ByHooks(buffers, hooks, wanted)

\* The trigger context is the one of the generation that runs.
ContextInv ==
  gen # Unset =>
    /\ gen \in [rows : {1, 2}, lead : {1, 2}, step : Nat, thinking : BOOLEAN,
                score : {Unset, "below", "above"}, gating : BOOLEAN]
    /\ IF gen.rows = 1
       THEN ctx.score = gen.score /\ (~gen.gating => gen.score = Unset)
       ELSE ctx = NewContext /\ \A w \in wanted : w.entry.trigger = Both

\* A foot is of the generation that runs, or cold.
FeetInv ==
  \A l \in Layers : \A g \in hooks[l].groups :
    hooks[l].feet[g] # Unset => hooks[l].feet[g].run = genRuns

HooksInv == HooksTypes /\ InstalledInv /\ ContextInv /\ FeetInv /\ SteeringIsWhatScopesSay

(***************************************************************************)
(* Composition.                                                            *)
(***************************************************************************)

\* Registries that agree on what the entries read give one plan.
LEMMA PlanIsOfItsReads ==
  ASSUME NEW flat, NEW r, NEW s, \A n \in DependsOn(flat) : r[n] = s[n]
  PROVE  PlanUnder(r, flat) = PlanUnder(s, flat)
<1>1. \A e \in flat : AtomUnder(r, e) = AtomUnder(s, e)
  <2> SUFFICES ASSUME NEW e \in flat PROVE ReadOf(r, e.reads) = ReadOf(s, e.reads) BY DEF AtomUnder
  <2>1. \A n \in e.reads : r[n] = s[n] BY DEF DependsOn
  <2> QED BY <2>1 DEF ReadOf
<1> DEFINE affine == {e \in flat : e.kind # "curved"}
           Of(q, t) == {AtomUnder(q, e) : e \in {a \in affine : a.trigger = t}}
<1>2. \A t : Of(r, t) = Of(s, t) BY <1>1
<1>3. {[trigger |-> t, atoms |-> Of(r, t)] : t \in {a.trigger : a \in affine}}
        = {[trigger |-> t, atoms |-> Of(s, t)] : t \in {a.trigger : a \in affine}}
  <2> HIDE DEF Of
  <2> QED BY <1>2
<1>4. {[trigger |-> e.trigger, atoms |-> {AtomUnder(r, e)}] : e \in flat \ affine}
        = {[trigger |-> e.trigger, atoms |-> {AtomUnder(s, e)}] : e \in flat \ affine}
  BY <1>1
<1> QED BY <1>3, <1>4 DEF PlanUnder

\* _projected is a memo: it gives what it would compute now.
LEMMA AtomsAreCurrent ==
  ASSUME NEW e PROVE Atom(e) = AtomUnder(registry, e)
BY DEF Atom, Projected, Versions, AtomUnder, ReadOf

LEMMA ComposeIsPlan ==
  ASSUME NEW flat PROVE compose(flat) = PlanUnder(registry, flat)
<1>1. \A e : Atom(e) = AtomUnder(registry, e) BY AtomsAreCurrent
<1> DEFINE affine == {e \in flat : e.kind # "curved"}
<1>2. {[trigger |-> t, atoms |-> {Atom(e) : e \in {a \in affine : a.trigger = t}}] :
          t \in {a.trigger : a \in affine}}
        = {[trigger |-> t, atoms |-> {AtomUnder(registry, e) : e \in {a \in affine : a.trigger = t}}] :
          t \in {a.trigger : a \in affine}}
  <2> DEFINE Now(t) == {Atom(e) : e \in {a \in affine : a.trigger = t}}
             Under(t) == {AtomUnder(registry, e) : e \in {a \in affine : a.trigger = t}}
  <2>1. \A t : Now(t) = Under(t) BY <1>1
  <2> HIDE DEF Now, Under
  <2>2. {[trigger |-> t, atoms |-> Now(t)] : t \in {a.trigger : a \in affine}}
          = {[trigger |-> t, atoms |-> Under(t)] : t \in {a.trigger : a \in affine}} BY <2>1
  <2> QED BY <2>2 DEF Now, Under
<1>3. {[trigger |-> e.trigger, atoms |-> {Atom(e)}] : e \in flat \ affine}
        = {[trigger |-> e.trigger, atoms |-> {AtomUnder(registry, e)}] : e \in flat \ affine}
  BY <1>1
<1> QED BY <1>2, <1>3 DEF compose, PlanUnder

\* A cached plan that is still valid is the one composed under a registry that agrees.
LEMMA CachedIsCurrent ==
  ASSUME plans \in Seq(CachedPlans), NEW flat, NEW p \in Cached(flat)
  PROVE  p = CachedUnder(registry, flat)
<1>1. p \in CachedPlans /\ p.flat = flat /\ valid(p.deps)
  BY DEF Cached, ToSet
<1>2. PICK r \in Registries : p = CachedUnder(r, flat) BY <1>1 DEF CachedPlans, CachedUnder
<1>3. p.deps = ReadOf(r, DependsOn(flat)) /\ p.plan = PlanUnder(r, flat) BY <1>2 DEF CachedUnder
<1>4. \A n \in DependsOn(flat) : registry[n] = r[n] BY <1>1, <1>3 DEF valid, ReadOf
<1>5. PlanUnder(r, flat) = PlanUnder(registry, flat) BY <1>4, PlanIsOfItsReads
<1>6. ReadOf(r, DependsOn(flat)) = ReadOf(registry, DependsOn(flat)) BY <1>4 DEF ReadOf
<1> QED BY <1>2, <1>5, <1>6 DEF CachedUnder

\* plan_for: cached or composed, a plan is of the entries and of the registry.
LEMMA PlanIsCurrent ==
  ASSUME plans \in Seq(CachedPlans), NEW flat
  PROVE  plan_for(flat) = PlanUnder(registry, flat)
<1>1. CASE Cached(flat) # {}
  <2> DEFINE p == CHOOSE q \in Cached(flat) : TRUE
  <2>1. p \in Cached(flat) BY <1>1
  <2>2. plan_for(flat) = p.plan BY <1>1 DEF plan_for
  <2> HIDE DEF p
  <2>3. p = CachedUnder(registry, flat) BY <2>1, CachedIsCurrent
  <2> QED BY <2>2, <2>3 DEF CachedUnder
<1>2. CASE Cached(flat) = {} BY <1>2, ComposeIsPlan DEF plan_for
<1> QED BY <1>1, <1>2

\* One entry removed from a sequence leaves a sequence.
LEMMA RemovingKeepsSeq ==
  ASSUME NEW S, NEW s \in Seq(S), NEW i \in 1..Len(s)
  PROVE  RemoveAt(s, i) \in Seq(S)
<1>1. SubSeq(s, 1, i - 1) \in Seq(S) BY SubSeqProperties
<1>2. SubSeq(s, i + 1, Len(s)) \in Seq(S) BY SubSeqProperties
<1> QED BY <1>1, <1>2, ConcatProperties DEF RemoveAt

LEMMA PlansStayOfTheirRegistry ==
  ASSUME HooksTypes, NEW flat \in SUBSET Entries
  PROVE  PlansAfter(flat) \in Seq(CachedPlans)
<1>0. plans \in Seq(CachedPlans) /\ registry \in Registries BY DEF HooksTypes
<1> DEFINE newest == [flat |-> flat, deps |-> IF Cached(flat) # {} THEN (CHOOSE p \in Cached(flat) : TRUE).deps
                                             ELSE Dependencies(flat), plan |-> plan_for(flat)]
           held == {i \in 1..Len(plans) : plans[i].flat = flat}
           others == IF held = {} THEN plans ELSE RemoveAt(plans, CHOOSE i \in held : TRUE)
           used == Append(others, newest)
<1>1. newest = CachedUnder(registry, flat)
  <2>1. CASE Cached(flat) # {}
    <3> DEFINE p == CHOOSE q \in Cached(flat) : TRUE
    <3>1. p \in Cached(flat) BY <2>1
    <3>2. newest = [flat |-> flat, deps |-> p.deps, plan |-> plan_for(flat)] BY <2>1
    <3> HIDE DEF p, newest
    <3>3. p = CachedUnder(registry, flat) BY <1>0, <3>1, CachedIsCurrent
    <3>4. p.deps = ReadOf(registry, DependsOn(flat)) BY <3>3 DEF CachedUnder
    <3>5. plan_for(flat) = PlanUnder(registry, flat) BY <1>0, PlanIsCurrent
    <3> QED BY <3>2, <3>4, <3>5 DEF CachedUnder
  <2>2. CASE Cached(flat) = {}
    <3>1. Dependencies(flat) = ReadOf(registry, DependsOn(flat))
      BY DEF Dependencies, Versions, ReadOf, DependsOn
    <3>2. plan_for(flat) = PlanUnder(registry, flat) BY <1>0, PlanIsCurrent
    <3>3. newest = [flat |-> flat, deps |-> Dependencies(flat), plan |-> plan_for(flat)] BY <2>2
    <3> HIDE DEF newest
    <3> QED BY <3>1, <3>2, <3>3 DEF CachedUnder
  <2> QED BY <2>1, <2>2
<1>2. newest \in CachedPlans
  <2>1. CachedUnder(registry, flat) \in CachedPlans BY <1>0 DEF CachedPlans
  <2> QED BY <1>1, <2>1
<1>3. others \in Seq(CachedPlans)
  <2>1. CASE held = {} BY <1>0, <2>1
  <2>2. CASE held # {}
    <3>1. (CHOOSE i \in held : TRUE) \in 1..Len(plans) BY <2>2
    <3> HIDE DEF held
    <3> QED BY <1>0, <2>2, <3>1, RemovingKeepsSeq
  <2> QED BY <2>1, <2>2
<1> HIDE DEF newest, others
<1>4. used \in Seq(CachedPlans) /\ used # <<>> BY <1>2, <1>3, AppendProperties
<1>5. Tail(used) \in Seq(CachedPlans)
  <2> HIDE DEF used
  <2> QED BY <1>4, HeadTailProperties
<1>6. PlansAfter(flat) = IF Len(used) > PlanCacheSize THEN Tail(used) ELSE used
  BY DEF PlansAfter, used, others, held, newest
<1> HIDE DEF used
<1> QED BY <1>4, <1>5, <1>6

(***************************************************************************)
(* Lowering and installation.                                              *)
(***************************************************************************)

\* The entries of a flattened stack are entries of its scopes.
LEMMA FlatIsOfScopes ==
  ASSUME NEW s \in Seq(Scopes) PROVE Flatten(s) \in SUBSET Entries
BY DEF Flatten, Entries

\* What a rebuild of flat asks for, as of the registry now.
WantedNow(flat) == {[entry |-> e, read |-> Versions(e.reads)] : e \in flat}

LEMMA WantedGivesAtom ==
  ASSUME NEW e
  PROVE  AtomOf([entry |-> e, read |-> Versions(e.reads)]) = AtomUnder(registry, e)
BY DEF AtomOf, AtomUnder, Versions, ReadOf

\* The terms of the plan are the wanted entries, under their triggers.
LEMMA TermsAreWanted ==
  ASSUME NEW flat, NEW W, W = WantedNow(flat), NEW P, P = PlanUnder(registry, flat)
  PROVE  /\ \A t \in P.affine \cup P.curved : \A a \in t.atoms :
              \E w \in W : a = AtomOf(w) /\ t.trigger = w.entry.trigger
         /\ \A w \in W : \E t \in P.affine \cup P.curved :
              AtomOf(w) \in t.atoms /\ t.trigger = w.entry.trigger
<1> DEFINE affine == {e \in flat : e.kind # "curved"}
           Of(t) == {AtomUnder(registry, e) : e \in {a \in affine : a.trigger = t}}
           Affine(t) == [trigger |-> t, atoms |-> Of(t)]
           Curved(e) == [trigger |-> e.trigger, atoms |-> {AtomUnder(registry, e)}]
           Want(e) == [entry |-> e, read |-> Versions(e.reads)]
<1>1. P.affine = {Affine(t) : t \in {a.trigger : a \in affine}} BY DEF PlanUnder
<1>2. P.curved = {Curved(e) : e \in flat \ affine} BY DEF PlanUnder
<1>3. W = {Want(e) : e \in flat} BY DEF WantedNow
<1>4. \A e : AtomOf(Want(e)) = AtomUnder(registry, e) /\ Want(e).entry = e BY WantedGivesAtom
<1>5. \A t : Affine(t).trigger = t /\ Affine(t).atoms = Of(t) OBVIOUS
<1>6. \A e : Curved(e).trigger = e.trigger /\ Curved(e).atoms = {AtomUnder(registry, e)} OBVIOUS
<1> HIDE DEF Affine, Curved, Want
<1>7. ASSUME NEW t \in P.affine \cup P.curved, NEW a \in t.atoms
      PROVE  \E w \in W : a = AtomOf(w) /\ t.trigger = w.entry.trigger
  <2>1. CASE t \in P.affine
    <3>1. PICK u : t = Affine(u) BY <2>1, <1>1
    <3>2. PICK e \in flat : a = AtomUnder(registry, e) /\ e.trigger = u BY <3>1, <1>5
    <3> QED BY <3>1, <3>2, <1>3, <1>4, <1>5
  <2>2. CASE t \in P.curved
    <3>1. PICK e \in flat : t = Curved(e) BY <2>2, <1>2
    <3> QED BY <3>1, <1>3, <1>4, <1>6
  <2> QED BY <2>1, <2>2
<1>8. ASSUME NEW w \in W
      PROVE  \E t \in P.affine \cup P.curved : AtomOf(w) \in t.atoms /\ t.trigger = w.entry.trigger
  <2>1. PICK e \in flat : w = Want(e) BY <1>3
  <2>2. CASE e \in affine
    <3>1. AtomOf(w) \in Of(e.trigger) BY <2>1, <2>2, <1>4
    <3>2. Affine(e.trigger) \in P.affine BY <2>2, <1>1
    <3> QED BY <2>1, <3>1, <3>2, <1>4, <1>5
  <2>3. CASE e \notin affine
    <3>1. Curved(e) \in P.curved BY <2>3, <1>2
    <3> QED BY <2>1, <3>1, <1>4, <1>6
  <2> QED BY <2>2, <2>3
<1> QED BY <1>7, <1>8

\* An atom of an entry of some scope is an atom.
LEMMA AtomsAreAtoms ==
  ASSUME registry \in Registries, NEW e \in Entries
  PROVE  AtomUnder(registry, e) \in AtomSpace
<1>1. e.reads \in SUBSET Names BY HooksAssumption
<1>2. ReadOf(registry, e.reads) \in [e.reads -> RegistryValues] BY <1>1 DEF ReadOf, Registries
<1> DEFINE reads == {[names -> RegistryValues] : names \in SUBSET Names}
<1>3. [e.reads -> RegistryValues] \in reads BY <1>1
<1>4. ReadOf(registry, e.reads) \in UNION reads
  <2> HIDE DEF reads
  <2> QED BY <1>2, <1>3
<1> HIDE DEF reads
<1>5. AtomSpace = [key : {f.key : f \in Entries}, kind : {f.kind : f \in Entries},
                   sign : {f.sign : f \in Entries}, read : UNION reads]
  BY DEF AtomSpace, reads
<1> QED BY <1>4, <1>5 DEF AtomUnder

\* install: offsets or hooks, each layer gets the wanted entries that cover it.
LEMMA InstalledIsWanted ==
  ASSUME HooksTypes, NEW flat \in SUBSET Entries, NEW W, W = WantedNow(flat),
         NEW P, P = PlanUnder(registry, flat)
  PROVE  ByOffsets(OffsetsOf(P), HooksOf(P), W) \/ ByHooks(OffsetsOf(P), HooksOf(P), W)
<1> DEFINE terms == P.affine \cup P.curved
<1>1. \A t \in terms : \A a \in t.atoms : \E w \in W : a = AtomOf(w) /\ t.trigger = w.entry.trigger
  BY TermsAreWanted
<1>2. \A w \in W : \E t \in terms : AtomOf(w) \in t.atoms /\ t.trigger = w.entry.trigger
  BY TermsAreWanted
<1>3. \A w : AtomOf(w).key = w.entry.key BY DEF AtomOf
<1>4. ASSUME NEW l \in Layers, NEW t \in terms, NEW a \in At(t, l)
      PROVE  \E w \in WantedAt(W, l) : a = AtomOf(w) /\ t.trigger = w.entry.trigger
  <2>1. a \in t.atoms /\ l \in Covers[a.key] BY <1>4 DEF At
  <2>2. PICK w \in W : a = AtomOf(w) /\ t.trigger = w.entry.trigger BY <1>1, <2>1
  <2> QED BY <2>1, <2>2, <1>3 DEF WantedAt
<1>5. ASSUME NEW l \in Layers, NEW w \in WantedAt(W, l)
      PROVE  \E t \in terms : AtomOf(w) \in At(t, l) /\ t.trigger = w.entry.trigger
  <2>1. w \in W /\ l \in Covers[w.entry.key] BY DEF WantedAt
  <2>2. PICK t \in terms : AtomOf(w) \in t.atoms /\ t.trigger = w.entry.trigger BY <1>2, <2>1
  <2> QED BY <2>1, <2>2, <1>3 DEF At
<1>6. CASE UsesOffsets(P)
  <2>1. P.curved = {} /\ \A t \in P.affine : t.trigger = Both BY <1>6 DEF UsesOffsets, IsConstant
  <2>2. OffsetsOf(P) = [l \in Layers |-> UNION {At(t, l) : t \in P.affine}] BY <1>6 DEF OffsetsOf
  <2>3. ASSUME NEW l \in Layers
        PROVE  OffsetsOf(P)[l] = {AtomOf(w) : w \in WantedAt(W, l)}
    <3>1. OffsetsOf(P)[l] = UNION {At(t, l) : t \in P.affine} BY <2>2
    <3>2. ASSUME NEW a \in UNION {At(t, l) : t \in P.affine}
          PROVE  a \in {AtomOf(w) : w \in WantedAt(W, l)}
      BY <1>4, <3>2
    <3>3. ASSUME NEW w \in WantedAt(W, l)
          PROVE  AtomOf(w) \in UNION {At(t, l) : t \in P.affine}
      BY <1>5, <2>1, <3>3
    <3> QED BY <3>1, <3>2, <3>3
  <2>4. \A w \in W : w.entry.trigger = Both BY <1>2, <2>1
  <2>5. \A l \in Layers : HooksOf(P)[l].groups = {} BY <1>6 DEF HooksOf, Armed
  <2>6. OffsetsOf(P) # Unset
    <3>1. ASSUME NEW l \in Layers, NEW w \in WantedAt(W, l) PROVE AtomOf(w) \in AtomSpace
      <4>1. PICK e \in flat : w = [entry |-> e, read |-> Versions(e.reads)] BY DEF WantedAt, WantedNow
      <4>2. AtomOf(w) = AtomUnder(registry, e) BY <4>1, WantedGivesAtom
      <4> QED BY <4>2, AtomsAreAtoms DEF HooksTypes
    <3>2. \A l \in Layers : OffsetsOf(P)[l] \in SUBSET AtomSpace BY <2>3, <3>1
    <3>3. OffsetsOf(P) = [l \in Layers |-> OffsetsOf(P)[l]] BY <2>2
    <3>4. OffsetsOf(P) \in [Layers -> SUBSET AtomSpace] BY <3>2, <3>3
    <3> QED BY <3>4, HooksAssumption
  <2> QED BY <2>3, <2>4, <2>5, <2>6 DEF ByOffsets
<1>7. CASE ~UsesOffsets(P)
  <2>1. OffsetsOf(P) # Unset => \A l \in Layers : OffsetsOf(P)[l] = {} BY <1>7 DEF OffsetsOf, Zeroed
  <2>2. ASSUME NEW l \in Layers
        PROVE  HooksOf(P)[l].groups = {g \in {Group("curved", t, l) : t \in P.curved}
                                             \cup {Group("affine", t, l) : t \in P.affine} : g.atoms # {}}
    BY <1>7 DEF HooksOf, Armed, lower
  <2>3. \A k, t, l : Group(k, t, l).atoms = At(t, l) /\ Group(k, t, l).trigger = t.trigger BY DEF Group
  <2>4. ASSUME NEW l \in Layers, NEW g \in HooksOf(P)[l].groups, NEW a \in g.atoms
        PROVE  \E w \in WantedAt(W, l) : a = AtomOf(w) /\ g.trigger = w.entry.trigger
    <3>1. PICK t \in terms : g.atoms = At(t, l) /\ g.trigger = t.trigger BY <2>2, <2>3
    <3> QED BY <3>1, <1>4
  <2>5. ASSUME NEW l \in Layers, NEW w \in WantedAt(W, l)
        PROVE  \E g \in HooksOf(P)[l].groups : AtomOf(w) \in g.atoms /\ g.trigger = w.entry.trigger
    <3>1. PICK t \in terms : AtomOf(w) \in At(t, l) /\ t.trigger = w.entry.trigger BY <1>5
    <3>2. CASE t \in P.affine BY <3>1, <3>2, <2>2, <2>3
    <3>3. CASE t \in P.curved BY <3>1, <3>3, <2>2, <2>3
    <3> QED BY <3>2, <3>3
  <2>6. \A l \in Layers : HooksOf(P)[l].static => \A g \in HooksOf(P)[l].groups : g.trigger = Both
    BY DEF HooksOf, Armed
  <2> QED BY <2>1, <2>4, <2>5, <2>6 DEF ByHooks
<1> QED BY <1>6, <1>7

(***************************************************************************)
(* The steps.                                                              *)
(***************************************************************************)

\* A table of newly armed hooks: typed, and every foot cold.
LEMMA ArmedIsCold ==
  ASSUME NEW groups, NEW H, H = [l \in Layers |-> Armed(groups[l])]
  PROVE  /\ H = [l \in Layers |-> [groups |-> H[l].groups, static |-> H[l].static, feet |-> H[l].feet]]
         /\ \A l \in Layers : H[l].groups = groups[l] /\ DOMAIN H[l].feet = groups[l]
         /\ \A l \in Layers : \A g \in groups[l] : H[l].feet[g] = Unset
<1>1. \A l \in Layers :
        /\ H[l] = Armed(groups[l])
        /\ Armed(groups[l]).groups = groups[l]
        /\ Armed(groups[l]).feet = [g \in groups[l] |-> Unset]
        /\ Armed(groups[l]) = [groups |-> Armed(groups[l]).groups, static |-> Armed(groups[l]).static,
                               feet |-> Armed(groups[l]).feet]
  BY DEF Armed
<1> HIDE DEF Armed
<1> QED BY <1>1

LEMMA HooksOfAreCold ==
  ASSUME NEW P, hooks' = HooksOf(P), HooksTypes
  PROVE  /\ hooks' = [l \in Layers |-> [groups |-> hooks'[l].groups, static |-> hooks'[l].static,
                                        feet |-> hooks'[l].feet]]
         /\ \A l \in Layers : DOMAIN hooks'[l].feet = hooks'[l].groups
         /\ FeetInv'
<1> DEFINE groups == [l \in Layers |-> IF UsesOffsets(P) THEN {} ELSE lower(P)[l]]
<1>1. hooks' = [l \in Layers |-> Armed(groups[l])] BY DEF HooksOf
<1> HIDE DEF groups
<1> QED BY <1>1, ArmedIsCold DEF FeetInv

\* Nothing installed: no scope, or an outer stack that no longer composes.
LEMMA UninstalledHolds ==
  ASSUME Uninstalled
  PROVE  /\ hooks' = [l \in Layers |-> [groups |-> hooks'[l].groups, static |-> hooks'[l].static,
                                        feet |-> hooks'[l].feet]]
         /\ \A l \in Layers : DOMAIN hooks'[l].feet = hooks'[l].groups
         /\ FeetInv' /\ InstalledInv'
<1> DEFINE groups == [l \in Layers |-> {}]
<1>1. hooks' = [l \in Layers |-> Armed(groups[l])] BY DEF Uninstalled, Bare
<1>2. \A l \in Layers : groups[l] = {} OBVIOUS
<1> HIDE DEF groups
<1>3. /\ hooks' = [l \in Layers |-> [groups |-> hooks'[l].groups, static |-> hooks'[l].static,
                                     feet |-> hooks'[l].feet]]
      /\ \A l \in Layers : DOMAIN hooks'[l].feet = hooks'[l].groups
      /\ \A l \in Layers : hooks'[l].groups = {}
  BY <1>1, <1>2, ArmedIsCold
<1>4. FeetInv' BY <1>3 DEF FeetInv
<1>5. wanted' = {} /\ (buffers' # Unset => \A l \in Layers : buffers'[l] = {})
  BY DEF Uninstalled, Zeroed
<1>6. ByHooks(buffers', hooks', wanted') BY <1>3, <1>5 DEF ByHooks, WantedAt
<1> QED BY <1>3, <1>4, <1>5, <1>6 DEF InstalledInv

\* A rebuild installs what the stack asks for.
LEMMA RebuiltHolds ==
  ASSUME HooksTypes, NEW s \in Seq(Scopes), frames' = s, Rebuilt(s)
  PROVE  /\ plans' \in Seq(CachedPlans)
         /\ hooks' = [l \in Layers |-> [groups |-> hooks'[l].groups, static |-> hooks'[l].static,
                                        feet |-> hooks'[l].feet]]
         /\ \A l \in Layers : DOMAIN hooks'[l].feet = hooks'[l].groups
         /\ FeetInv' /\ InstalledInv'
<1> DEFINE flat == Flatten(s)
<1>0. flat \in SUBSET Entries BY FlatIsOfScopes
<1>1. CASE flat = {}
  <2>1. Uninstalled /\ plans' = plans BY <1>1 DEF Rebuilt
  <2> QED BY <2>1, UninstalledHolds DEF HooksTypes
<1>2. CASE flat # {}
  <2> DEFINE P == plan_for(flat)
  <2>1. /\ buffers' = OffsetsOf(P) /\ hooks' = HooksOf(P) /\ plans' = PlansAfter(flat)
        /\ wanted' = {[entry |-> e, read |-> Versions(e.reads)] : e \in flat}
    BY <1>2 DEF Rebuilt
  <2>2. P = PlanUnder(registry, flat) BY PlanIsCurrent DEF HooksTypes
  <2> HIDE DEF P, flat
  <2>3. plans' \in Seq(CachedPlans) BY <2>1, <1>0, PlansStayOfTheirRegistry
  <2>4. ByOffsets(buffers', hooks', wanted') \/ ByHooks(buffers', hooks', wanted')
    <3>1. wanted' = WantedNow(flat) BY <2>1 DEF WantedNow
    <3> QED BY <2>1, <2>2, <3>1, <1>0, InstalledIsWanted
  <2>5. \A w \in wanted' : w.entry \in flat BY <2>1
  <2>6. InstalledInv' BY <2>4, <2>5 DEF InstalledInv, flat
  <2> QED BY <2>1, <2>3, <2>6, HooksOfAreCold
<1> QED BY <1>1, <1>2

LEMMA FailureKeepsPlans ==
  ASSUME HooksTypes, NEW s \in Seq(Scopes), PlansAfterFailure(s)
  PROVE  plans' \in Seq(CachedPlans)
<1>1. Flatten(s) \in SUBSET Entries BY FlatIsOfScopes
<1>2. CASE Composable(Flatten(s)) BY <1>1, <1>2, PlansStayOfTheirRegistry DEF PlansAfterFailure
<1>3. CASE ~Composable(Flatten(s)) BY <1>3 DEF PlansAfterFailure, HooksTypes
<1> QED BY <1>2, <1>3

LEMMA PushHolds ==
  ASSUME HooksInv, NEW scope \in Scopes, Push(scope)
  PROVE  HooksInv'
<1> DEFINE pushed == Append(frames, scope)
<1>0. HooksTypes /\ InstalledInv /\ FeetInv BY DEF HooksInv
<1>1. pushed \in Seq(Scopes) BY <1>0, AppendProperties DEF HooksTypes
<1>2. gen' = Unset /\ shown' = Unset /\ registry' = registry /\ changes' = changes /\ genRuns' = genRuns
  BY DEF Push
<1>3. CASE Rebuilds(pushed)
  <2>1. frames' = pushed /\ Rebuilt(pushed) BY <1>3 DEF Push
  <2> HIDE DEF pushed
  <2> QED BY <2>1, <1>0, <1>1, <1>2, RebuiltHolds
      DEF HooksInv, HooksTypes, ContextInv, SteeringIsWhatScopesSay
<1>4. CASE ~Rebuilds(pushed)
  <2>1. PlansAfterFailure(pushed) /\ UNCHANGED <<frames, buffers, hooks, wanted>> BY <1>4 DEF Push
  <2> HIDE DEF pushed
  <2>2. plans' \in Seq(CachedPlans) BY <2>1, <1>0, <1>1, FailureKeepsPlans
  <2>3. InstalledInv' BY <2>1, <1>0 DEF InstalledInv
  <2>4. FeetInv' BY <2>1, <1>0, <1>2 DEF FeetInv
  <2>5. HooksTypes' BY <2>1, <2>2, <1>0, <1>2 DEF HooksTypes
  <2> QED BY <2>3, <2>4, <2>5, <1>2 DEF HooksInv, ContextInv, SteeringIsWhatScopesSay
<1> QED BY <1>3, <1>4

LEMMA PopHolds ==
  ASSUME HooksInv, Pop
  PROVE  HooksInv'
<1> DEFINE outer == Front(frames)
<1>0. HooksTypes /\ InstalledInv /\ FeetInv BY DEF HooksInv
<1>1. outer \in Seq(Scopes) BY <1>0, SubSeqProperties DEF HooksTypes, Pop, Front
<1>2. /\ gen' = Unset /\ shown' = Unset /\ registry' = registry /\ changes' = changes
      /\ genRuns' = genRuns /\ frames' = outer
  BY DEF Pop
<1>3. CASE Rebuilds(outer)
  <2>1. Rebuilt(outer) BY <1>3 DEF Pop
  <2> HIDE DEF outer
  <2> QED BY <2>1, <1>0, <1>1, <1>2, RebuiltHolds
      DEF HooksInv, HooksTypes, ContextInv, SteeringIsWhatScopesSay
<1>4. CASE ~Rebuilds(outer)
  <2>1. PlansAfterFailure(outer) /\ Uninstalled BY <1>4 DEF Pop
  <2> HIDE DEF outer
  <2>2. plans' \in Seq(CachedPlans) BY <2>1, <1>0, <1>1, FailureKeepsPlans
  <2> QED BY <2>1, <2>2, <1>0, <1>1, <1>2, UninstalledHolds
      DEF HooksInv, HooksTypes, ContextInv, SteeringIsWhatScopesSay
<1> QED BY <1>3, <1>4

\* A registration changes what the next rebuild reads, not what is installed.
LEMMA ChangeHolds ==
  ASSUME HooksInv, NEW n \in Names, NEW version \in RegistryValues, Change(n, version)
  PROVE  HooksInv'
<1>1. registry' \in Registries BY DEF Change, HooksInv, HooksTypes, Registries
<1>2. changes' \in Nat BY DEF Change, HooksInv, HooksTypes
<1>3. UNCHANGED <<frames, plans, projections, buffers, hooks, ctx, gen, shown, wanted, genRuns>>
  BY DEF Change
<1>4. HooksTypes' BY <1>1, <1>2, <1>3 DEF HooksInv, HooksTypes
<1>5. InstalledInv' BY <1>3 DEF HooksInv, InstalledInv
<1>6. ContextInv' BY <1>3 DEF HooksInv, ContextInv
<1>7. FeetInv' BY <1>3 DEF HooksInv, FeetInv
<1>8. SteeringIsWhatScopesSay' BY <1>3 DEF HooksInv, SteeringIsWhatScopesSay, Means
<1> QED BY <1>4, <1>5, <1>6, <1>7, <1>8 DEF HooksInv

\* A table with the same groups and static flags is installed alike.
LEMMA FeetAreNotSteering ==
  ASSUME InstalledInv, UNCHANGED <<frames, buffers, wanted>>,
         \A l \in Layers : hooks'[l].groups = hooks[l].groups /\ hooks'[l].static = hooks[l].static
  PROVE  InstalledInv'
<1>1. CASE ByOffsets(buffers, hooks, wanted)
  <2>1. ByOffsets(buffers', hooks', wanted') BY <1>1 DEF ByOffsets
  <2> QED BY <2>1 DEF InstalledInv
<1>2. CASE ByHooks(buffers, hooks, wanted)
  <2>1. ByHooks(buffers', hooks', wanted') BY <1>2 DEF ByHooks
  <2> QED BY <2>1 DEF InstalledInv
<1> QED BY <1>1, <1>2 DEF InstalledInv

LEMMA TableOfHooks ==
  ASSUME NEW H, H = [l \in Layers |-> H[l]],
         \A l \in Layers : H[l] = [groups |-> H[l].groups, static |-> H[l].static, feet |-> H[l].feet]
  PROVE  H = [l \in Layers |-> [groups |-> H[l].groups, static |-> H[l].static, feet |-> H[l].feet]]
OBVIOUS

\* Replacing the feet of every hook leaves the rest of it.
LEMMA FeetReplaced ==
  ASSUME HooksTypes, NEW F, hooks' = [l \in Layers |-> [hooks[l] EXCEPT !.feet = F[l]]],
         \A l \in Layers : DOMAIN F[l] = hooks[l].groups
  PROVE  /\ hooks' = [l \in Layers |-> [groups |-> hooks'[l].groups, static |-> hooks'[l].static,
                                        feet |-> hooks'[l].feet]]
         /\ \A l \in Layers : DOMAIN hooks'[l].feet = hooks'[l].groups
         /\ \A l \in Layers : /\ hooks'[l].groups = hooks[l].groups
                              /\ hooks'[l].static = hooks[l].static
                              /\ hooks'[l].feet = F[l]
<1>1. \A l \in Layers : hooks[l] = [groups |-> hooks[l].groups, static |-> hooks[l].static,
                                    feet |-> hooks[l].feet]
  BY DEF HooksTypes
<1>2. ASSUME NEW l \in Layers
      PROVE  hooks'[l] = [groups |-> hooks[l].groups, static |-> hooks[l].static, feet |-> F[l]]
  <2>1. \A g, s, f, x : [[groups |-> g, static |-> s, feet |-> f] EXCEPT !.feet = x]
                         = [groups |-> g, static |-> s, feet |-> x]
    OBVIOUS
  <2>2. hooks'[l] = [hooks[l] EXCEPT !.feet = F[l]] OBVIOUS
  <2> QED BY <2>1, <2>2, <1>1
<1>3. \A l \in Layers : hooks'[l].groups = hooks[l].groups /\ hooks'[l].static = hooks[l].static
                         /\ hooks'[l].feet = F[l]
  BY <1>2
<1>4. hooks' = [l \in Layers |-> [groups |-> hooks'[l].groups, static |-> hooks'[l].static,
                                  feet |-> hooks'[l].feet]]
  <2>1. hooks' = [l \in Layers |-> hooks'[l]] OBVIOUS
  <2>2. \A l \in Layers : hooks'[l] = [groups |-> hooks'[l].groups, static |-> hooks'[l].static,
                                       feet |-> hooks'[l].feet]
    BY <1>2, <1>3
  <2> QED BY <2>1, <2>2, TableOfHooks
<1> QED BY <1>3, <1>4

LEMMA StartRunHolds ==
  ASSUME HooksInv, NEW rows \in {1, 2}, NEW prompt \in {1, 2}, StartRun(rows, prompt)
  PROVE  HooksInv'
<1> DEFINE F == [l \in Layers |-> [g \in DOMAIN hooks[l].feet |-> Unset]]
<1>1. /\ gen' = [rows |-> rows, lead |-> prompt, step |-> 0, thinking |-> FALSE, score |-> Unset,
                 gating |-> needs_probe_gating]
      /\ ctx' = NewContext /\ shown' = Unset /\ (rows > 1 => BatchAllowed)
      /\ UNCHANGED <<registry, frames, plans, buffers, wanted, changes>>
  BY DEF StartRun
<1>2. hooks' = [l \in Layers |-> [hooks[l] EXCEPT !.feet = F[l]]]
  BY DEF StartRun, reset_manifold_feet, Cold
<1>3. \A l \in Layers : DOMAIN F[l] = hooks[l].groups BY DEF HooksInv, HooksTypes
<1>4. \A l \in Layers : \A g \in hooks[l].groups : F[l][g] = Unset BY <1>3
<1> HIDE DEF F
<1>5. /\ hooks' = [l \in Layers |-> [groups |-> hooks'[l].groups, static |-> hooks'[l].static,
                                     feet |-> hooks'[l].feet]]
      /\ \A l \in Layers : DOMAIN hooks'[l].feet = hooks'[l].groups
      /\ \A l \in Layers : /\ hooks'[l].groups = hooks[l].groups
                           /\ hooks'[l].static = hooks[l].static
                           /\ hooks'[l].feet = F[l]
  <2>1. HooksTypes BY DEF HooksInv
  <2> QED BY <2>1, <1>2, <1>3, FeetReplaced
<1>6. HooksTypes' BY <1>1, <1>5 DEF HooksInv, HooksTypes
<1>7. InstalledInv' BY <1>1, <1>5, FeetAreNotSteering DEF HooksInv
<1>8. FeetInv' BY <1>4, <1>5 DEF FeetInv
<1>9. ContextInv'
  <2>0. gen' \in [rows : {1, 2}, lead : {1, 2}, step : Nat, thinking : BOOLEAN,
                  score : {Unset, "below", "above"}, gating : BOOLEAN]
    BY <1>1 DEF needs_probe_gating
  <2>1. CASE rows = 1 BY <1>1, <2>0, <2>1 DEF ContextInv, NewContext
  <2>2. CASE rows = 2
    <3>1. BatchAllowed BY <1>1, <2>2
    <3>2. \A w \in wanted' : w.entry.trigger = Both
      BY <3>1, <1>1 DEF BatchAllowed, HooksInv, InstalledInv
    <3> QED BY <1>1, <2>0, <2>2, <3>2 DEF ContextInv
  <2> QED BY <2>1, <2>2
<1> QED BY <1>1, <1>6, <1>7, <1>8, <1>9 DEF HooksInv, SteeringIsWhatScopesSay

(***************************************************************************)
(* One forward.                                                            *)
(***************************************************************************)

\* active, on the context the loop sets, is what the trigger means of the step.
LEMMA TriggersMeanTheStep ==
  ASSUME NEW t \in TriggerSpace, NEW now, NEW moment,
         moment.step \in Nat, moment.step < MaxForwards,
         moment.thinking \in BOOLEAN, moment.step = 0 => ~moment.thinking,
         \/ /\ now.prefill = (moment.step = 0) /\ now.thinking = moment.thinking
            /\ now.step = moment.step /\ now.score = moment.score
         \/ t = Both /\ now = NewContext
  PROVE  active(t, now) <=> Means(t, moment)
<1>0. MaxForwards \in Nat /\ Unset \notin Nat BY HooksAssumption
<1>1. CASE t = Both /\ now = NewContext
  BY <1>0, <1>1 DEF active, Means, Both, NewContext
<1>2. CASE /\ now.prefill = (moment.step = 0) /\ now.thinking = moment.thinking
           /\ now.step = moment.step /\ now.score = moment.score
  <2>1. CASE moment.step = 0 BY <1>2, <2>1 DEF active, Means, TriggerSpace
  <2>2. CASE moment.step # 0
    <3>1. ~now.prefill BY <1>2, <2>2
    <3>2. (IF now.thinking THEN t.thinking ELSE t.response)
            <=> ((moment.thinking /\ t.thinking) \/ (~moment.thinking /\ t.response))
      BY <1>2 DEF TriggerSpace
    <3>3. /\ (t.first # Unset => now.step < t.first) /\ (t.after # Unset => now.step >= t.after)
          <=> moment.step \in (IF t.after = Unset THEN 0 ELSE t.after)
                                ..(IF t.first = Unset THEN MaxForwards ELSE t.first - 1)
      <4>1. t.first \in Nat \cup {Unset} /\ t.after \in Nat \cup {Unset} BY DEF TriggerSpace
      <4> QED BY <1>0, <1>2, <4>1
    <3> QED BY <2>2, <3>1, <3>2, <3>3, <1>2 DEF active, Means
  <2> QED BY <2>1, <2>2
<1> QED BY <1>1, <1>2

\* What the offsets and hooks of a layer add, and what the wanted entries mean there.
AddedAt(l, now) ==
  (IF buffers = Unset THEN {} ELSE buffers[l]) \cup UNION {g.atoms : g \in Fires(hooks[l], now)}
MeantAt(l, moment) ==
  {AtomOf(w) : w \in {v \in wanted : l \in Covers[v.entry.key] /\ Means(v.entry.trigger, moment)}}

\* What a layer adds, whichever way its entries are installed.
LEMMA LayerAddsWanted ==
  ASSUME InstalledInv, NEW l \in Layers, NEW now, NEW moment,
         \A w \in wanted : active(w.entry.trigger, now) <=> Means(w.entry.trigger, moment),
         \A w \in wanted : w.entry.trigger = Both => active(Both, now)
  PROVE  AddedAt(l, now) = MeantAt(l, moment)
<1> DEFINE offset == IF buffers = Unset THEN {} ELSE buffers[l]
           added == UNION {g.atoms : g \in Fires(hooks[l], now)}
           meant == {v \in wanted : l \in Covers[v.entry.key] /\ Means(v.entry.trigger, moment)}
<1>1. CASE ByOffsets(buffers, hooks, wanted)
  <2>1. offset = {AtomOf(w) : w \in WantedAt(wanted, l)} BY <1>1 DEF ByOffsets
  <2>2. added = {} BY <1>1 DEF ByOffsets, Fires
  <2>3. WantedAt(wanted, l) = meant BY <1>1 DEF ByOffsets, WantedAt
  <2> HIDE DEF offset, added, meant
  <2>4. offset \cup added = {AtomOf(w) : w \in meant} BY <2>1, <2>2, <2>3
  <2> QED BY <2>4 DEF offset, added, meant, AddedAt, MeantAt
<1>2. CASE ByHooks(buffers, hooks, wanted)
  <2>1. offset = {} BY <1>2 DEF ByHooks
  <2>2. ASSUME NEW g \in Fires(hooks[l], now), NEW a \in g.atoms
        PROVE  a \in {AtomOf(w) : w \in meant}
    <3>1. g \in hooks[l].groups /\ (hooks[l].static \/ active(g.trigger, now)) BY DEF Fires
    <3>2. PICK w \in WantedAt(wanted, l) : a = AtomOf(w) /\ g.trigger = w.entry.trigger
      BY <1>2, <3>1 DEF ByHooks
    <3>3. w \in wanted /\ l \in Covers[w.entry.key] BY DEF WantedAt
    <3>4. active(w.entry.trigger, now)
      <4>1. CASE hooks[l].static
        <5>1. g.trigger = Both BY <1>2, <3>1, <4>1 DEF ByHooks
        <5> QED BY <5>1, <3>2, <3>3
      <4>2. CASE active(g.trigger, now) BY <4>2, <3>2
      <4> QED BY <4>1, <4>2, <3>1
    <3>5. w \in meant BY <3>3, <3>4
    <3> QED BY <3>2, <3>5
  <2>3. ASSUME NEW w \in meant PROVE AtomOf(w) \in added
    <3>1. w \in WantedAt(wanted, l) /\ active(w.entry.trigger, now) BY DEF WantedAt
    <3>2. PICK g \in hooks[l].groups : AtomOf(w) \in g.atoms /\ g.trigger = w.entry.trigger
      BY <1>2, <3>1 DEF ByHooks
    <3>3. g \in Fires(hooks[l], now) BY <3>1, <3>2 DEF Fires
    <3> QED BY <3>2, <3>3
  <2>4. added = {AtomOf(w) : w \in meant}
    <3>1. added \subseteq {AtomOf(w) : w \in meant} BY <2>2
    <3>2. {AtomOf(w) : w \in meant} \subseteq added
      <4> HIDE DEF meant, added
      <4> QED BY <2>3
    <3> QED BY <3>1, <3>2
  <2> HIDE DEF offset, added, meant
  <2>5. offset \cup added = {AtomOf(w) : w \in meant} BY <2>1, <2>4
  <2> QED BY <2>5 DEF offset, added, meant, AddedAt, MeantAt
<1> QED BY <1>1, <1>2 DEF InstalledInv

LEMMA ForwardHolds ==
  ASSUME HooksInv, NEW thinking \in BOOLEAN, NEW score \in {Unset, "below", "above"},
         ForwardSteered(thinking, score)
  PROVE  HooksInv'
<1> DEFINE single == gen.rows = 1
           now == IF single THEN [prefill |-> gen.step = 0, thinking |-> thinking, step |-> gen.step,
                                  score |-> ctx.score]
                  ELSE ctx
           fired(l) == Fires(hooks[l], now)
           seeds(l) == {hooks[l].feet[g] : g \in {f \in fired(l) : f.kind = "curved" /\ Warm(hooks[l].feet[f])}}
           F == [l \in Layers |-> [g \in DOMAIN hooks[l].feet |->
                   IF g \in fired(l) /\ g.kind = "curved" THEN [run |-> genRuns, rows |-> gen.rows]
                   ELSE hooks[l].feet[g]]]
           applied == [l \in Layers |-> (IF buffers = Unset THEN {} ELSE buffers[l])
                                        \cup UNION {g.atoms : g \in fired(l)}]
<1>1. /\ gen # Unset /\ gen.step < MaxForwards /\ (gen.step = 0 => ~thinking)
      /\ (gen.gating \/ score = Unset)
      /\ ctx' = IF single THEN [now EXCEPT !.score = IF gen.gating THEN score ELSE @] ELSE ctx
      /\ shown' = [applied |-> applied, seeds |-> UNION {seeds(l) : l \in Layers},
                   thinking |-> thinking, step |-> gen.step, score |-> gen.score]
      /\ gen' = [gen EXCEPT !.step = @ + 1, !.lead = 1, !.thinking = thinking, !.score = score]
      /\ UNCHANGED <<registry, frames, plans, projections, buffers, wanted, changes, genRuns>>
  BY DEF ForwardSteered
<1>2. hooks' = [l \in Layers |-> [hooks[l] EXCEPT !.feet = F[l]]] BY DEF ForwardSteered
<1>3. HooksTypes /\ InstalledInv /\ ContextInv /\ FeetInv BY DEF HooksInv
<1>4. \A l \in Layers : DOMAIN F[l] = hooks[l].groups BY <1>3 DEF HooksTypes
<1>5. \A l \in Layers : \A g \in hooks[l].groups :
        F[l][g] # Unset => F[l][g] = hooks[l].feet[g] \/ F[l][g].run = genRuns
  BY <1>4
<1>6. gen.step \in Nat /\ gen' = [rows |-> gen.rows, lead |-> 1, step |-> gen.step + 1,
                                  thinking |-> thinking, score |-> score, gating |-> gen.gating]
  <2>1. gen.step \in Nat BY <1>1, <1>3 DEF ContextInv
  <2>2. gen \in [rows : {1, 2}, lead : {1, 2}, step : Nat, thinking : BOOLEAN,
                 score : {Unset, "below", "above"}, gating : BOOLEAN]
    BY <1>1, <1>3 DEF ContextInv
  <2>3. gen' = [gen EXCEPT !.step = gen.step + 1, !.lead = 1, !.thinking = thinking, !.score = score]
    BY <1>1
  <2> QED BY <2>1, <2>2, <2>3
<1>7. \A w \in wanted : w.entry.trigger \in TriggerSpace
  <2>1. Flatten(frames) \in SUBSET Entries BY <1>3, FlatIsOfScopes DEF HooksTypes
  <2> QED BY <2>1, <1>3, HooksAssumption DEF InstalledInv
<1>8. /\ shown'.step = gen.step /\ shown'.thinking = thinking /\ shown'.score = gen.score
      /\ shown'.applied = applied /\ shown'.seeds = UNION {seeds(l) : l \in Layers}
  BY <1>1
<1>9. \/ /\ now.prefill = (gen.step = 0) /\ now.thinking = thinking /\ now.step = gen.step
         /\ now.score = gen.score
      \/ now = NewContext /\ \A w \in wanted : w.entry.trigger = Both
  <2>1. CASE single BY <2>1, <1>1, <1>3 DEF ContextInv
  <2>2. CASE ~single BY <2>2, <1>1, <1>3 DEF ContextInv
  <2> QED BY <2>1, <2>2
<1>10. ctx' = IF single THEN [prefill |-> gen.step = 0, thinking |-> thinking, step |-> gen.step,
                              score |-> IF gen.gating THEN score ELSE ctx.score] ELSE ctx
  BY <1>1
<1> HIDE DEF F, now, applied, single
<1>11. /\ hooks' = [l \in Layers |-> [groups |-> hooks'[l].groups, static |-> hooks'[l].static,
                                      feet |-> hooks'[l].feet]]
       /\ \A l \in Layers : DOMAIN hooks'[l].feet = hooks'[l].groups
       /\ \A l \in Layers : /\ hooks'[l].groups = hooks[l].groups
                            /\ hooks'[l].static = hooks[l].static
                            /\ hooks'[l].feet = F[l]
  BY <1>2, <1>3, <1>4, FeetReplaced
<1>12. HooksTypes' BY <1>1, <1>3, <1>11 DEF HooksTypes
<1>13. InstalledInv' BY <1>1, <1>3, <1>11, FeetAreNotSteering
<1>14. FeetInv'
  <2> SUFFICES ASSUME NEW l \in Layers, NEW g \in hooks'[l].groups, hooks'[l].feet[g] # Unset
               PROVE  hooks'[l].feet[g].run = genRuns'
    BY DEF FeetInv
  <2>1. g \in hooks[l].groups /\ hooks'[l].feet[g] = F[l][g] BY <1>11
  <2>2. CASE F[l][g] = hooks[l].feet[g] BY <2>1, <2>2, <1>1, <1>3 DEF FeetInv
  <2>3. CASE F[l][g].run = genRuns BY <2>1, <2>3, <1>1
  <2> QED BY <2>1, <2>2, <2>3, <1>5
<1>15. ContextInv'
  <2>1. gen'.step \in Nat /\ gen'.rows = gen.rows /\ gen'.score = score /\ gen'.gating = gen.gating
        /\ gen' \in [rows : {1, 2}, lead : {1, 2}, step : Nat, thinking : BOOLEAN,
                     score : {Unset, "below", "above"}, gating : BOOLEAN]
    <3>1. gen \in [rows : {1, 2}, lead : {1, 2}, step : Nat, thinking : BOOLEAN,
                   score : {Unset, "below", "above"}, gating : BOOLEAN]
      BY <1>1, <1>3 DEF ContextInv
    <3> QED BY <1>6, <3>1
  <2>2. CASE single
    <3>1. gen.rows = 1 /\ ctx.score = gen.score /\ (~gen.gating => gen.score = Unset)
      BY <2>2, <1>1, <1>3 DEF single, ContextInv
    <3>2. ctx'.score = IF gen.gating THEN score ELSE ctx.score BY <1>10, <2>2
    <3> QED BY <1>1, <2>1, <3>1, <3>2 DEF ContextInv
  <2>3. CASE ~single
    <3>1. ctx' = NewContext /\ \A w \in wanted' : w.entry.trigger = Both
      BY <2>3, <1>1, <1>3, <1>10 DEF single, ContextInv
    <3> QED BY <2>1, <2>3, <3>1 DEF ContextInv, single
  <2> QED BY <2>2, <2>3
<1>16. \A foot \in shown'.seeds : foot.run = genRuns'
  <2> SUFFICES ASSUME NEW foot \in shown'.seeds PROVE foot.run = genRuns BY <1>1
  <2>1. PICK l \in Layers : foot \in seeds(l) BY <1>8
  <2>2. PICK g \in fired(l) : foot = hooks[l].feet[g] /\ Warm(hooks[l].feet[g]) BY <2>1
  <2>3. g \in hooks[l].groups BY <2>2 DEF Fires
  <2> QED BY <2>2, <2>3, <1>3 DEF FeetInv, Warm
<1>17. ASSUME NEW l \in Layers
       PROVE  shown'.applied[l] =
                {AtomOf(w) : w \in {v \in wanted' : l \in Covers[v.entry.key] /\ Means(v.entry.trigger, shown')}}
  <2>1. ASSUME NEW w \in wanted
        PROVE  active(w.entry.trigger, now) <=> Means(w.entry.trigger, shown')
    <3>1. CASE now.prefill = (gen.step = 0) /\ now.thinking = thinking /\ now.step = gen.step
                 /\ now.score = gen.score
      BY <3>1, <1>1, <1>6, <1>7, <1>8, TriggersMeanTheStep
    <3>2. CASE now = NewContext /\ w.entry.trigger = Both
      BY <3>2, <1>1, <1>6, <1>7, <1>8, TriggersMeanTheStep
    <3> QED BY <3>1, <3>2, <1>9
  <2>2. \A w \in wanted : w.entry.trigger = Both => active(Both, now)
    <3>1. CASE now.prefill = (gen.step = 0) /\ now.thinking = thinking /\ now.step = gen.step
      BY <3>1 DEF active, Both
    <3>2. CASE now = NewContext BY <3>2 DEF active, Both, NewContext
    <3> QED BY <3>1, <3>2, <1>9
  <2>3. applied[l] = AddedAt(l, now) BY DEF applied, AddedAt
  <2>4. AddedAt(l, now) = MeantAt(l, shown') BY <2>1, <2>2, <1>3, LayerAddsWanted
  <2>5. shown'.applied[l] = MeantAt(l, shown') BY <2>3, <2>4, <1>8
  <2> QED BY <2>5, <1>1 DEF MeantAt
<1>18. SteeringIsWhatScopesSay' BY <1>16, <1>17 DEF SteeringIsWhatScopesSay, AtomOf
<1> QED BY <1>12, <1>13, <1>14, <1>15, <1>18 DEF HooksInv

LEMMA EndRunHolds ==
  ASSUME HooksInv, EndRun PROVE HooksInv'
<1>1. gen' = Unset /\ shown' = Unset
      /\ UNCHANGED <<registry, frames, plans, projections, buffers, hooks, ctx, wanted, changes, genRuns>>
  BY DEF EndRun
<1>2. HooksTypes' BY <1>1 DEF HooksInv, HooksTypes
<1>3. InstalledInv' BY <1>1 DEF HooksInv, InstalledInv
<1>4. FeetInv' BY <1>1 DEF HooksInv, FeetInv
<1> QED BY <1>1, <1>2, <1>3, <1>4 DEF HooksInv, ContextInv, SteeringIsWhatScopesSay

(***************************************************************************)
(* The theorem.                                                            *)
(***************************************************************************)

LEMMA HooksStart == ASSUME HooksInit PROVE HooksInv
<1> DEFINE groups == [l \in Layers |-> {}]
<1>1. hooks = [l \in Layers |-> Armed(groups[l])] BY DEF HooksInit, Bare
<1>2. \A l \in Layers : groups[l] = {} OBVIOUS
<1> HIDE DEF groups
<1>3. /\ hooks = [l \in Layers |-> [groups |-> hooks[l].groups, static |-> hooks[l].static,
                                    feet |-> hooks[l].feet]]
      /\ \A l \in Layers : DOMAIN hooks[l].feet = hooks[l].groups
      /\ \A l \in Layers : hooks[l].groups = {}
  BY <1>1, <1>2, ArmedIsCold
<1>4. HooksTypes
  <2>1. registry \in Registries BY DEF HooksInit, Registries, RegistryValues
  <2>2. frames \in Seq(Scopes) /\ plans \in Seq(CachedPlans) /\ changes \in Nat
    BY EmptySeq DEF HooksInit
  <2> QED BY <2>1, <2>2, <1>3 DEF HooksTypes
<1>5. InstalledInv
  <2>1. wanted = {} /\ (buffers # Unset => \A l \in Layers : buffers[l] = {}) BY DEF HooksInit
  <2>2. ByHooks(buffers, hooks, wanted) BY <1>3, <2>1 DEF ByHooks, WantedAt
  <2> QED BY <2>1, <2>2 DEF InstalledInv
<1> QED BY <1>3, <1>4, <1>5
    DEF HooksInv, HooksInit, ContextInv, FeetInv, SteeringIsWhatScopesSay

LEMMA HooksStep == ASSUME HooksInv, [HooksNext]_hookVars PROVE HooksInv'
<1>1. ASSUME NEW scope \in Scopes, Push(scope) PROVE HooksInv' BY <1>1, PushHolds
<1>2. ASSUME Pop PROVE HooksInv' BY <1>2, PopHolds
<1>3. ASSUME NEW n \in Names, Change(n, changes + 2) \/ Change(n, Unset) PROVE HooksInv'
  <2>1. changes + 2 \in RegistryValues /\ Unset \in RegistryValues
    BY DEF HooksInv, HooksTypes, RegistryValues
  <2> QED BY <1>3, <2>1, ChangeHolds
<1>4. ASSUME NEW rows \in {1, 2}, NEW prompt \in {1, 2}, StartRun(rows, prompt) PROVE HooksInv'
  BY <1>4, StartRunHolds
<1>5. ASSUME NEW thinking \in BOOLEAN, NEW score \in {Unset, "below", "above"},
             ForwardSteered(thinking, score)
      PROVE  HooksInv'
  BY <1>5, ForwardHolds
<1>6. ASSUME EndRun PROVE HooksInv' BY <1>6, EndRunHolds
<1>7. ASSUME UNCHANGED hookVars PROVE HooksInv'
  BY <1>7 DEF hookVars, HooksInv, HooksTypes, InstalledInv, ContextInv, FeetInv,
              SteeringIsWhatScopesSay, Means
<1> QED BY <1>1, <1>2, <1>3, <1>4, <1>5, <1>6, <1>7 DEF HooksNext

\* The inductive invariant of the steering stack: what is installed, cached and
\* cold follows composer.py's rebuilds and hooks.py's installs.
THEOREM HooksInvariant == HooksSpec => []HooksInv
<1>1. HooksInit => HooksInv BY HooksStart
<1>2. HooksInv /\ [HooksNext]_hookVars => HooksInv' BY HooksStep
<1> QED BY <1>1, <1>2, PTL DEF HooksSpec

\* Every forward adds, at each layer, exactly the entries of the open scopes whose
\* trigger means its step, whatever the scopes, the layers and the registrations
\* under them: flatten_stack, plan_for, install and Trigger.active agree.
THEOREM ForwardsAddWhatScopesSay == HooksSpec => []SteeringIsWhatScopesSay
<1>1. HooksInv => SteeringIsWhatScopesSay BY DEF HooksInv
<1> QED BY <1>1, HooksInvariant, PTL

-----------------------------------------------------------------------------
(***************************************************************************)
(* Rows.                                                                   *)
(*                                                                         *)
(* The caches: wherever a row decodes, what its cache holds and what is    *)
(* still to be fed are together its input and the tokens generated.        *)
(***************************************************************************)

Entry ==
  [prefix : Seq(RowTokens), cache : Caches, left : Seq(RowTokens), static : BOOLEAN, max : Nat]
Resident == [cache : Caches, max : Nat]
TurnTexts == Prompts \cup {Nothing, Reply}
Looms == [parent : Seq(Nat), text : Seq(TurnTexts), active : Nat]

\* The tokens a row of n forwards has sampled.
GeneratedBy(n) == [i \in 1..n |-> Generated]

RowShapes ==
  /\ runtime \in Runtimes
  /\ entry \in Entry \cup {Nothing} /\ resident \in Resident \cup {Nothing}
  /\ row \in Rows \cup {Nothing} /\ series \in Series \cup {Nothing}
  /\ row # Nothing => series \in Series
  /\ stopCount \in Nat /\ flagged \in BOOLEAN

\* The cached prefix leads what the row that hit it has fed.
HitInv ==
  /\ entry \in Entry /\ Len(entry.prefix) <= Len(entry.cache.kv)
  /\ SubSeq(entry.cache.kv, 1, Len(entry.prefix)) = entry.prefix
  /\ Len(entry.prefix) < Len(row.ids) /\ SubSeq(row.ids, 1, Len(entry.prefix)) = entry.prefix
  /\ entry.static => Len(row.ids) + series.route.budget <= entry.max

ResidentInv == resident \in Resident /\ Len(row.ids) + series.route.budget <= resident.max

RowInv ==
  InLoop =>
    /\ row.generated <= series.route.budget
    /\ Fed = Cache(InputSeen \o GeneratedBy(row.generated))
    /\ row.generated > 0 => CacheOf = Cache(InputSeen \o GeneratedBy(row.generated - 1))
    /\ row.on = "prefix" => HitInv
    /\ row.on = "resident" => ResidentInv

(***************************************************************************)
(* The tree and the stop flag.                                             *)
(***************************************************************************)

\* The turn that add_user_turn takes again: the first child of its anchor with its text.
IsFirstTurn(l, n, anchor, text) ==
  /\ n \in 1..Len(l.parent) /\ l.parent[n] = anchor /\ l.text[n] = text
  /\ \A o \in 1..Len(l.parent) : l.parent[o] = anchor /\ l.text[o] = text => n <= o

AnchorOf(job) == IF job.start # Nothing THEN job.start ELSE job.parent

\* A reply hangs where its job says.
HangsUnder(l, n, job) ==
  /\ n \in 1..Len(l.parent) /\ l.text[n] = Reply
  /\ IF job.input = Nothing THEN l.parent[n] = AnchorOf(job)
     ELSE IsFirstTurn(l, l.parent[n], AnchorOf(job), job.input)

IsTree(l) ==
  /\ l \in Looms /\ Len(l.parent) = Len(l.text) /\ Len(l.parent) >= 1
  /\ l.active \in 1..Len(l.parent)

PlacedIn(l, place) == place # Nothing => place \in 1..Len(l.parent)

\* The rows of a stateful fan hang under one anchor, whatever was selected between them.
FanInv(job) ==
  /\ \A i \in 1..Len(series.jobs) : series.jobs[i] = job
  /\ AnchorOf(job) # Nothing /\ (job.start # Nothing => job.parent = Nothing)
  /\ \A i \in 1..Len(series.done) : HangsUnder(loom, series.done[i], job)
  /\ \A i, j \in 1..Len(series.done) : i # j => series.done[i] # series.done[j]
  /\ series.pc \in {"decoding", "collect"} =>
       /\ HangsUnder(loom, loom.active, job)
       /\ \A i \in 1..Len(series.done) : series.done[i] # loom.active

StatefulFan == series # Nothing /\ series.kind = "fan" /\ ~series.stateless

JobsPlaced ==
  series # Nothing => \A i \in 1..Len(series.jobs) :
    PlacedIn(loom, series.jobs[i].start) /\ PlacedIn(loom, series.jobs[i].parent)

TreesInv ==
  /\ IsTree(loom) /\ JobsPlaced
  /\ StatefulFan => \E job \in Jobs : FanInv(job)

\* A row that began after the stop is the last one.
StopInv ==
  /\ lateRows \in {0, 1}
  /\ series # Nothing =>
       /\ series.stops <= stopCount
       /\ series.pc = "next" => lateRows = 0
       /\ lateRows = 1 => stopCount # series.stops

BatchInv == RowShapes /\ PrefixIsWhole /\ RowInv /\ TreesInv /\ StopInv
(***************************************************************************)
(* Facts about naturals and sequences.                                     *)
(***************************************************************************)

Below == {pair \in Nat \X Nat : pair[1] < pair[2]}

LEMMA NaturalsHaveALeast ==
  ASSUME NEW S, S \subseteq Nat, S # {}
  PROVE  \E least \in S : \A x \in S : least <= x
<1>1. IsWellFoundedOn(Below, Nat) BY NatLessThanWellFounded DEF OpToRel, Below
<1>2. PICK least \in S : \A x \in S : ~(<<x, least>> \in Below) BY <1>1, WFMin
<1>3. ASSUME NEW x \in S PROVE least <= x
  <2>1. x < least => <<x, least>> \in Below BY DEF Below
  <2> QED BY <1>2, <2>1
<1> QED BY <1>3

LEMMA GeneratedGrows ==
  ASSUME NEW s \in Seq(RowTokens), NEW n \in Nat
  PROVE  /\ s \o GeneratedBy(n) \in Seq(RowTokens)
         /\ Len(s \o GeneratedBy(n)) = Len(s) + n
         /\ (s \o GeneratedBy(n)) \o <<Generated>> = s \o GeneratedBy(n + 1)
         /\ s \o GeneratedBy(0) = s
<1>1. \A k \in Nat : GeneratedBy(k) \in Seq(RowTokens) /\ Len(GeneratedBy(k)) = k
  BY DEF GeneratedBy, RowTokens
<1>2. <<Generated>> \in Seq(RowTokens) BY DEF RowTokens
<1>3. GeneratedBy(n) \o <<Generated>> = GeneratedBy(n + 1)
  <2>1. GeneratedBy(n) \o <<Generated>> \in Seq(RowTokens)
        /\ Len(GeneratedBy(n) \o <<Generated>>) = n + 1
    BY <1>1, <1>2, ConcatProperties
  <2>2. GeneratedBy(n + 1) \in Seq(RowTokens) /\ Len(GeneratedBy(n + 1)) = n + 1 BY <1>1
  <2>3. \A i \in 1..(n + 1) : (GeneratedBy(n) \o <<Generated>>)[i] = Generated
    BY <1>1, <1>2, ConcatProperties DEF GeneratedBy
  <2>4. \A i \in 1..(n + 1) : GeneratedBy(n + 1)[i] = Generated BY DEF GeneratedBy
  <2> QED BY <2>1, <2>2, <2>3, <2>4, SeqEqual
<1>4. (s \o GeneratedBy(n)) \o <<Generated>> = s \o (GeneratedBy(n) \o <<Generated>>)
  <2> DEFINE g == GeneratedBy(n) e == <<Generated>>
  <2>1. g \in Seq(RowTokens) /\ e \in Seq(RowTokens) BY <1>1, <1>2
  <2> HIDE DEF g, e
  <2>2. (s \o g) \o e = s \o (g \o e) BY <2>1, ConcatAssociative, SMTT(30)
  <2> QED BY <2>2 DEF g, e
<1>5. s \o GeneratedBy(n) \in Seq(RowTokens) /\ Len(s \o GeneratedBy(n)) = Len(s) + n
  <2> DEFINE g == GeneratedBy(n)
  <2>1. g \in Seq(RowTokens) /\ Len(g) = n BY <1>1
  <2> HIDE DEF g
  <2>2. s \o g \in Seq(RowTokens) /\ Len(s \o g) = Len(s) + n BY <2>1, ConcatProperties
  <2> QED BY <2>2 DEF g
<1>6. s \o GeneratedBy(0) = s
  <2>1. GeneratedBy(0) = <<>> BY DEF GeneratedBy
  <2> QED BY <2>1, ConcatEmptySeq
<1> QED BY <1>3, <1>4, <1>5, <1>6

LEMMA PromptsAreRowTokens ==
  /\ Prompts \subseteq Seq(RowTokens)
  /\ \A job \in Jobs : Rendered(job.input) \in Prompts
<1>1. Seq(PromptTokens) \subseteq Seq(RowTokens) BY SeqMonotonic DEF RowTokens
<1> QED BY <1>1, BatchRunsAssumption DEF Jobs, Rendered

\* The largest budget is the default.
LEMMA DefaultIsLargest ==
  Default \in Nat /\ \A b \in Budgets : b <= Default
BY BatchRunsAssumption DEF Default

\* common_prefix: the longest run the rows share, less one when a row is that run.
LEMMA SharedIsASequence ==
  ASSUME NEW rows \in SeqOf(Prompts, MaxRows) \ {<<>>}, common_prefix(rows) # Nothing
  PROVE  common_prefix(rows) \in Seq(RowTokens)
<1> DEFINE lengths == {Len(rows[i]) : i \in DOMAIN rows}
           shortest == CHOOSE k \in lengths : \A i \in DOMAIN rows : k <= Len(rows[i])
           agrees(k) == \A i \in DOMAIN rows : SubSeq(rows[i], 1, k) = SubSeq(rows[1], 1, k)
           run == CHOOSE k \in 0..shortest : agrees(k) /\ (k < shortest => ~agrees(k + 1))
           shared == IF run = shortest THEN run - 1 ELSE run
<1>1. PICK m \in Nat : rows \in [1..m -> Prompts] /\ m # 0
  <2>1. PICK m \in 0..MaxRows : rows \in [1..m -> Prompts] BY DEF SeqOf
  <2>2. rows \in Seq(Prompts) /\ Len(rows) = m BY <2>1
  <2>3. m # 0 BY <2>2, EmptySeq
  <2> QED BY <2>1, <2>3, BatchRunsAssumption
<1>2. \A i \in 1..m : rows[i] \in Seq(RowTokens) /\ Len(rows[i]) \in Nat /\ Len(rows[i]) > 0
  BY <1>1, PromptsAreRowTokens, BatchRunsAssumption
<1>3. lengths \subseteq Nat /\ lengths # {}
  <2>1. DOMAIN rows = 1..m /\ 1 \in 1..m BY <1>1
  <2> QED BY <2>1, <1>2
<1>4. shortest \in lengths /\ \A i \in DOMAIN rows : shortest <= Len(rows[i])
  <2>1. PICK least \in lengths : \A x \in lengths : least <= x BY <1>3, NaturalsHaveALeast
  <2>2. \A i \in DOMAIN rows : least <= Len(rows[i]) BY <2>1
  <2> QED BY <2>1, <2>2
<1>5. shortest \in Nat BY <1>3, <1>4
<1> HIDE DEF shortest, agrees
<1>6. run \in 0..shortest
  <2> DEFINE Ends == {k \in 0..shortest : k < shortest => ~agrees(k + 1)}
  <2>1. shortest \in Ends /\ Ends \subseteq Nat BY <1>5
  <2>2. PICK k \in Ends : \A x \in Ends : k <= x BY <2>1, NaturalsHaveALeast
  <2>3. agrees(k)
    <3>1. CASE k = 0 BY <3>1, <1>1, <1>2, SubSeqEmpty DEF agrees
    <3>2. CASE k # 0
      <4>1. k - 1 \in 0..shortest /\ k - 1 < shortest /\ k - 1 \notin Ends BY <3>2, <2>2, <1>5
      <4>2. agrees((k - 1) + 1) BY <4>1
      <4>3. (k - 1) + 1 = k BY <1>5
      <4> QED BY <4>2, <4>3
    <3> QED BY <3>1, <3>2
  <2>4. k \in 0..shortest /\ agrees(k) /\ (k < shortest => ~agrees(k + 1)) BY <2>2, <2>3
  <2> QED BY <2>4
<1> HIDE DEF run
<1>7. common_prefix(rows) = IF shortest <= MinShared \/ shared < MinShared THEN Nothing
                            ELSE SubSeq(rows[1], 1, shared)
  BY DEF common_prefix, shortest, agrees, run
<1>8. 1 <= shortest /\ shortest <= Len(rows[1])
  <2>1. PICK i \in DOMAIN rows : shortest = Len(rows[i]) BY <1>4
  <2> QED BY <2>1, <1>1, <1>2, <1>4
<1>9. shared \in 0..Len(rows[1]) BY <1>1, <1>2, <1>5, <1>6, <1>8
<1> HIDE DEF shared
<1>10. SubSeq(rows[1], 1, shared) \in Seq(RowTokens)
  BY <1>1, <1>2, <1>9, SubSeqProperties
<1> QED BY <1>7, <1>10
(***************************************************************************)
(* Turns.                                                                  *)
(***************************************************************************)

\* m is l with nodes added.
Extends(l, m) ==
  /\ Len(l.parent) <= Len(m.parent)
  /\ \A n \in 1..Len(l.parent) : m.parent[n] = l.parent[n] /\ m.text[n] = l.text[n]

\* An appended element is the last one, after all there were.
LEMMA Appended ==
  ASSUME NEW S, NEW s \in Seq(S), NEW x \in S, NEW t, t = Append(s, x)
  PROVE  /\ t \in Seq(S) /\ Len(t) = Len(s) + 1
         /\ \A n \in 1..Len(s) : t[n] = s[n]
         /\ t[Len(s) + 1] = x
BY AppendProperties

LEMMA AddNodeGrows ==
  ASSUME NEW l, IsTree(l), NEW p \in 1..Len(l.parent), NEW text \in TurnTexts,
         NEW t, t = AddNode(l, p, text)
  PROVE  /\ IsTree(t) /\ Extends(l, t)
         /\ Len(t.parent) = Len(l.parent) + 1 /\ t.active = Len(t.parent)
         /\ t.parent[t.active] = p /\ t.text[t.active] = text
<1>1. l.parent \in Seq(Nat) /\ l.text \in Seq(TurnTexts) /\ Len(l.parent) = Len(l.text)
      /\ Len(l.parent) \in Nat
  BY DEF IsTree, Looms
<1>2. t.parent = Append(l.parent, p) /\ t.text = Append(l.text, text)
      /\ t.active = Len(l.parent) + 1
      /\ t = [parent |-> t.parent, text |-> t.text, active |-> t.active]
  BY DEF AddNode
<1>3. p \in Nat BY <1>1
<1>4. /\ t.parent \in Seq(Nat) /\ Len(t.parent) = Len(l.parent) + 1
      /\ \A n \in 1..Len(l.parent) : t.parent[n] = l.parent[n]
      /\ t.parent[Len(l.parent) + 1] = p
  BY <1>1, <1>2, <1>3, Appended
<1>5. /\ t.text \in Seq(TurnTexts) /\ Len(t.text) = Len(l.text) + 1
      /\ \A n \in 1..Len(l.text) : t.text[n] = l.text[n]
      /\ t.text[Len(l.text) + 1] = text
  BY <1>1, <1>2, Appended
<1>6. IsTree(t)
  <2>1. \A x \in Seq(Nat), y \in Seq(TurnTexts), z \in Nat :
          [parent |-> x, text |-> y, active |-> z] \in Looms
    BY DEF Looms
  <2>2. t.active \in Nat BY <1>1, <1>2
  <2>3. t \in Looms BY <2>1, <2>2, <1>2, <1>4, <1>5
  <2> QED BY <2>3, <1>1, <1>2, <1>4, <1>5 DEF IsTree
<1>7. Extends(l, t)
  <2>1. Len(l.parent) <= Len(t.parent) BY <1>1, <1>4
  <2>2. \A n \in 1..Len(l.parent) : t.parent[n] = l.parent[n] /\ t.text[n] = l.text[n]
    BY <1>1, <1>4, <1>5
  <2> QED BY <2>1, <2>2 DEF Extends
<1> QED BY <1>1, <1>2, <1>4, <1>5, <1>6, <1>7

\* Selecting another node adds none.
LEMMA SelectKeeps ==
  ASSUME NEW l, IsTree(l), NEW n \in 1..Len(l.parent), NEW t, t = [l EXCEPT !.active = n]
  PROVE  IsTree(t) /\ Extends(l, t) /\ t.active = n /\ Len(t.parent) = Len(l.parent)
<1>1. l \in Looms /\ n \in Nat /\ Len(l.parent) \in Nat BY DEF IsTree, Looms
<1>2. t \in Looms /\ t.parent = l.parent /\ t.text = l.text /\ t.active = n BY <1>1 DEF Looms
<1> QED BY <1>1, <1>2 DEF IsTree, Extends

\* add_user_turn makes or takes the first child of its parent with the text.
LEMMA UserTurnIsFirst ==
  ASSUME NEW l, IsTree(l), NEW p \in 1..Len(l.parent), NEW text \in Prompts,
         NEW t, t = AddUserTurn(l, p, text)
  PROVE  IsTree(t) /\ Extends(l, t) /\ IsFirstTurn(t, t.active, p, text)
<1> DEFINE same == {n \in 1..Len(l.parent) : l.parent[n] = p /\ l.text[n] = text}
<1>0. Len(l.parent) \in Nat BY DEF IsTree, Looms
<1>1. CASE same = {}
  <2>1. t = AddNode(l, p, text) BY <1>1 DEF AddUserTurn
  <2>2. /\ IsTree(t) /\ Extends(l, t)
        /\ Len(t.parent) = Len(l.parent) + 1 /\ t.active = Len(t.parent)
        /\ t.parent[t.active] = p /\ t.text[t.active] = text
    BY <2>1, AddNodeGrows DEF TurnTexts
  <2>3. ASSUME NEW o \in 1..Len(t.parent), t.parent[o] = p, t.text[o] = text
        PROVE  t.active <= o
    <3>1. CASE o \in 1..Len(l.parent) BY <3>1, <2>2, <2>3, <1>1 DEF Extends
    <3>2. CASE o = Len(t.parent) BY <3>2, <2>2, <1>0
    <3> QED BY <3>1, <3>2, <2>2, <1>0
  <2> QED BY <2>2, <2>3, <1>0 DEF IsFirstTurn
<1>2. CASE same # {}
  <2> DEFINE first == CHOOSE n \in same : \A o \in same : n <= o
  <2>1. first \in same /\ \A o \in same : first <= o
    <3>1. same \subseteq Nat BY <1>0
    <3>2. PICK least \in same : \A x \in same : least <= x BY <1>2, <3>1, NaturalsHaveALeast
    <3> QED BY <3>2
  <2>2. t = [l EXCEPT !.active = first] BY <1>2 DEF AddUserTurn
  <2> HIDE DEF first
  <2>3. IsTree(t) /\ Extends(l, t) /\ t.active = first /\ Len(t.parent) = Len(l.parent)
    BY <2>1, <2>2, SelectKeeps
  <2> QED BY <2>1, <2>3 DEF IsFirstTurn, Extends
<1> QED BY <1>1, <1>2

\* A first turn stays first as nodes are added, and what hangs there stays.
LEMMA FirstTurnStays ==
  ASSUME NEW l, IsTree(l), NEW m, IsTree(m), Extends(l, m), NEW n, NEW anchor, NEW text,
         IsFirstTurn(l, n, anchor, text)
  PROVE  IsFirstTurn(m, n, anchor, text)
<1>1. Len(l.parent) \in Nat /\ Len(m.parent) \in Nat /\ Len(l.parent) <= Len(m.parent)
  BY DEF IsTree, Looms, Extends
<1>2. n \in 1..Len(l.parent) BY DEF IsFirstTurn
<1>3. ASSUME NEW o \in 1..Len(m.parent), m.parent[o] = anchor, m.text[o] = text
      PROVE  n <= o
  <2>1. CASE o \in 1..Len(l.parent) BY <2>1, <1>3 DEF Extends, IsFirstTurn
  <2>2. CASE o > Len(l.parent) BY <2>2, <1>1, <1>2
  <2> QED BY <2>1, <2>2, <1>1
<1> QED BY <1>1, <1>2, <1>3 DEF IsFirstTurn, Extends

LEMMA HangsStays ==
  ASSUME NEW l, IsTree(l), NEW m, IsTree(m), Extends(l, m), NEW n, NEW job, HangsUnder(l, n, job)
  PROVE  HangsUnder(m, n, job)
<1>1. Len(l.parent) \in Nat /\ Len(m.parent) \in Nat /\ Len(l.parent) <= Len(m.parent)
  BY DEF IsTree, Looms, Extends
<1>2. n \in 1..Len(l.parent) /\ m.parent[n] = l.parent[n] /\ m.text[n] = Reply
  BY DEF HangsUnder, Extends
<1>3. n \in 1..Len(m.parent) BY <1>1, <1>2
<1> QED BY <1>2, <1>3, FirstTurnStays DEF HangsUnder

\* Two turns of one anchor and text are one.
LEMMA FirstTurnIsOne ==
  ASSUME NEW l, IsTree(l), NEW n, NEW o, NEW anchor, NEW text,
         IsFirstTurn(l, n, anchor, text), IsFirstTurn(l, o, anchor, text)
  PROVE  n = o
<1>1. Len(l.parent) \in Nat BY DEF IsTree, Looms
<1>2. n \in 1..Len(l.parent) /\ o \in 1..Len(l.parent) /\ n <= o /\ o <= n BY DEF IsFirstTurn
<1> QED BY <1>1, <1>2

\* begin_generation_turn: a new reply, under the anchor or the anchor's turn.
LEMMA OpenTurnHangs ==
  ASSUME NEW l, IsTree(l), NEW input \in Prompts \cup {Nothing}, NEW parent \in Places,
         PlacedIn(l, parent), NEW t, t = OpenTurn(l, input, parent),
         NEW anchor, anchor = IF parent = Nothing THEN l.active ELSE parent,
         NEW job, job.input = input, AnchorOf(job) = anchor
  PROVE  IsTree(t) /\ Extends(l, t) /\ t.active > Len(l.parent) /\ HangsUnder(t, t.active, job)
<1> DEFINE turn == IF input = Nothing THEN [l EXCEPT !.active = anchor] ELSE AddUserTurn(l, anchor, input)
<1>1. anchor \in 1..Len(l.parent) /\ Len(l.parent) \in Nat BY DEF PlacedIn, IsTree, Looms
<1>2. t = AddNode(turn, turn.active, Reply) BY DEF OpenTurn
<1>3. /\ IsTree(turn) /\ Extends(l, turn)
      /\ IF input = Nothing THEN turn.active = anchor ELSE IsFirstTurn(turn, turn.active, anchor, input)
  <2>1. CASE input = Nothing BY <2>1, <1>1, SelectKeeps
  <2>2. CASE input # Nothing
    <3>1. input \in Prompts /\ turn = AddUserTurn(l, anchor, input) BY <2>2
    <3> HIDE DEF turn
    <3> QED BY <2>2, <3>1, <1>1, UserTurnIsFirst
  <2> QED BY <2>1, <2>2
<1> HIDE DEF turn
<1>4. turn.active \in 1..Len(turn.parent) /\ Reply \in TurnTexts BY <1>3 DEF IsTree, TurnTexts
<1>5. /\ IsTree(t) /\ Extends(turn, t)
      /\ Len(t.parent) = Len(turn.parent) + 1 /\ t.active = Len(t.parent)
      /\ t.parent[t.active] = turn.active /\ t.text[t.active] = Reply
  BY <1>2, <1>3, <1>4, AddNodeGrows
<1>6. Len(turn.parent) \in Nat /\ Len(l.parent) <= Len(turn.parent) BY <1>3 DEF IsTree, Looms, Extends
<1>7. Extends(l, t) BY <1>1, <1>3, <1>5, <1>6 DEF Extends
<1>8. input # Nothing => IsFirstTurn(t, turn.active, anchor, input)
  BY <1>3, <1>5, FirstTurnStays
<1>9. HangsUnder(t, t.active, job)
  <2>1. t.active \in 1..Len(t.parent) BY <1>5 DEF IsTree
  <2> QED BY <2>1, <1>3, <1>5, <1>8 DEF HangsUnder
<1> QED BY <1>1, <1>5, <1>6, <1>7, <1>9

(***************************************************************************)
(* The steps of a series.                                                  *)
(***************************************************************************)

\* A tree and a series that stay.
LEMMA TreesStay ==
  ASSUME TreesInv, loom' = loom, series' = series \/ series' = Nothing
  PROVE  TreesInv'
<1>1. CASE series' = series
  <2>1. \A job \in Jobs : FanInv(job) => FanInv(job)'
    BY <1>1 DEF FanInv, HangsUnder, IsFirstTurn, AnchorOf
  <2>2. StatefulFan' <=> StatefulFan BY <1>1 DEF StatefulFan
  <2> QED BY <1>1, <2>1, <2>2 DEF TreesInv, IsTree, Looms, JobsPlaced, PlacedIn
<1>2. CASE series' = Nothing BY <1>2 DEF TreesInv, IsTree, Looms, JobsPlaced, StatefulFan
<1> QED BY <1>1, <1>2

\* A series that only moves on keeps its jobs and its results.
LEMMA TreesFollow ==
  ASSUME TreesInv, loom' = loom, series # Nothing, series'.jobs = series.jobs,
         series'.kind = series.kind, series'.stateless = series.stateless,
         series'.done = series.done,
         series'.pc \in {"decoding", "collect"} => series.pc \in {"decoding", "collect"}
  PROVE  TreesInv'
<1>1. StatefulFan' => StatefulFan BY DEF StatefulFan
<1>2. \A job \in Jobs : FanInv(job) => FanInv(job)'
  BY DEF FanInv, HangsUnder, IsFirstTurn, AnchorOf
<1>3. IsTree(loom)' BY DEF TreesInv, IsTree, Looms
<1>4. JobsPlaced' BY DEF TreesInv, JobsPlaced, PlacedIn
<1> QED BY <1>1, <1>2, <1>3, <1>4 DEF TreesInv

\* What a row sees as its input, on a prefix that rows left tokens behind.
LEMMA InputIsTokens ==
  ASSUME RowShapes, RowInv, InLoop
  PROVE  /\ InputSeen \in Seq(RowTokens)
         /\ row.on = "prefix" =>
              /\ SubSeq(row.ids, Len(entry.prefix) + 1, Len(row.ids)) \in Seq(RowTokens)
              /\ InputSeen = entry.prefix \o entry.left
                               \o SubSeq(row.ids, Len(entry.prefix) + 1, Len(row.ids))
         /\ (row.on = "prefix" => entry.left = <<>>) => InputSeen = row.ids
<1>1. row \in Rows /\ row.ids \in Seq(RowTokens) /\ Len(row.ids) \in Nat
  BY DEF RowShapes, InLoop, Rows
<1>2. CASE row.on # "prefix" BY <1>1, <1>2 DEF InputSeen
<1>3. CASE row.on = "prefix"
  <2> DEFINE m == Len(entry.prefix)
             rest == SubSeq(row.ids, m + 1, Len(row.ids))
  <2>1. entry \in Entry /\ m < Len(row.ids) /\ SubSeq(row.ids, 1, m) = entry.prefix
    BY <1>3 DEF RowInv, HitInv
  <2>2. entry.prefix \in Seq(RowTokens) /\ entry.left \in Seq(RowTokens) /\ m \in Nat
    BY <2>1 DEF Entry
  <2>3. InputSeen = entry.prefix \o entry.left \o rest BY <1>3, <2>1 DEF InputSeen
  <2>4. rest \in Seq(RowTokens) BY <1>1, <2>1, <2>2, SubSeqProperties
  <2>5. SubSeq(row.ids, 1, m) \o rest = SubSeq(row.ids, 1, Len(row.ids))
    <3>1. 1 \in 1..(Len(row.ids) + 1) /\ m \in (1 - 1)..Len(row.ids) /\ Len(row.ids) \in m..Len(row.ids)
      BY <1>1, <2>1, <2>2
    <3> QED BY <3>1, <1>1, ConcatAdjacentSubSeq
  <2>6. SubSeq(row.ids, 1, Len(row.ids)) = row.ids BY <1>1, SubSeqFull
  <2> HIDE DEF rest
  <2>7. entry.prefix \o rest = row.ids BY <2>1, <2>5, <2>6
  <2>8. entry.left = <<>> => InputSeen = row.ids
    <3>1. entry.prefix \o <<>> = entry.prefix BY <2>2, ConcatEmptySeq
    <3> QED BY <3>1, <2>3, <2>7
  <2>9. InputSeen \in Seq(RowTokens) BY <2>2, <2>3, <2>4
  <2> QED BY <1>3, <2>3, <2>4, <2>8, <2>9 DEF rest
<1> QED BY <1>2, <1>3

\* A row fed so far; every forward keeps its cache and its tokens together.
LEMMA ForwardRowHolds ==
  ASSUME BatchInv, ForwardRow PROVE BatchInv'
<1>0. RowShapes /\ RowInv /\ TreesInv /\ StopInv /\ PrefixIsWhole BY DEF BatchInv
<1>1. /\ InLoop /\ row.generated < series.route.budget
      /\ entry' = (IF row.on = "prefix" THEN [entry EXCEPT !.cache = Fed] ELSE entry)
      /\ resident' = (IF row.on = "resident" THEN [resident EXCEPT !.cache = Fed] ELSE resident)
      /\ row' = [row EXCEPT !.fresh = IF row.on = "fresh" THEN Fed ELSE @, !.fed = <<Generated>>,
                            !.generated = @ + 1]
      /\ UNCHANGED <<runtime, loom, series, flagged, stopCount, lateRows>>
  BY DEF ForwardRow
<1>2. row \in Rows /\ series \in Series /\ series.route.budget \in Nat
  BY <1>0, <1>1 DEF RowShapes, InLoop, Series, Routes
<1> DEFINE n == row.generated
<1>3. n \in Nat /\ InputSeen \in Seq(RowTokens) /\ Fed = Cache(InputSeen \o GeneratedBy(n))
  BY <1>0, <1>1, <1>2, InputIsTokens DEF RowInv, Rows
<1>4. /\ InputSeen \o GeneratedBy(n) \in Seq(RowTokens)
      /\ (InputSeen \o GeneratedBy(n)) \o <<Generated>> = InputSeen \o GeneratedBy(n + 1)
  BY <1>3, GeneratedGrows
<1>5. Fed \in Caches BY <1>3, <1>4 DEF Cache, Caches
<1>6. /\ row' \in Rows /\ row'.on = row.on /\ row'.ids = row.ids /\ row'.fed = <<Generated>>
      /\ row'.generated = n + 1 /\ (row.on = "fresh" => row'.fresh = Fed)
  <2>1. <<Generated>> \in Seq(RowTokens) BY DEF RowTokens
  <2> DEFINE fresh == IF row.on = "fresh" THEN Fed ELSE row.fresh
  <2>2. fresh \in Caches BY <1>2, <1>5 DEF Rows
  <2>3. row' = [row EXCEPT !.fresh = fresh, !.fed = <<Generated>>, !.generated = n + 1] BY <1>1
  <2> HIDE DEF fresh
  <2>4. row' = [on |-> row.on, ids |-> row.ids, fed |-> <<Generated>>, fresh |-> fresh,
                generated |-> n + 1]
    BY <1>2, <2>3 DEF Rows
  <2>5. row' \in Rows BY <1>2, <1>3, <2>1, <2>2, <2>4 DEF Rows
  <2>6. row.on = "fresh" => fresh = Fed BY DEF fresh
  <2> QED BY <2>4, <2>5, <2>6
<1>7. row.on = "prefix" => HitInv BY <1>0, <1>1 DEF RowInv
<1>8. row.on = "resident" => ResidentInv BY <1>0, <1>1 DEF RowInv
<1>9. row.on = "prefix" => /\ entry' \in Entry /\ entry'.cache = Fed /\ entry'.prefix = entry.prefix
                           /\ entry'.static = entry.static /\ entry'.max = entry.max
                           /\ entry'.left = entry.left
  BY <1>1, <1>5, <1>7 DEF HitInv, Entry
<1>10. row.on = "resident" => resident' \in Resident /\ resident'.cache = Fed /\ resident'.max = resident.max
  BY <1>1, <1>5, <1>8 DEF ResidentInv, Resident
<1>11. CacheOf' = Fed
  <2>1. CASE row.on = "prefix" BY <2>1, <1>6, <1>9 DEF CacheOf
  <2>2. CASE row.on = "resident" BY <2>2, <1>6, <1>10 DEF CacheOf
  <2>3. CASE row.on = "fresh" BY <2>3, <1>6 DEF CacheOf
  <2> QED BY <2>1, <2>2, <2>3, <1>2 DEF Rows
<1>12. RowShapes'
  <2>1. entry' \in Entry \cup {Nothing} BY <1>0, <1>1, <1>9 DEF RowShapes
  <2>2. resident' \in Resident \cup {Nothing} BY <1>0, <1>1, <1>10 DEF RowShapes
  <2> QED BY <2>1, <2>2, <1>0, <1>1, <1>2, <1>6 DEF RowShapes
<1>a. InputSeen' = InputSeen
  <2>1. CASE row.on = "prefix" BY <2>1, <1>6, <1>9 DEF InputSeen
  <2>2. CASE row.on # "prefix" BY <2>2, <1>6 DEF InputSeen
  <2> QED BY <2>1, <2>2
<1>13. Fed' = Cache(InputSeen' \o GeneratedBy(row'.generated))
  <2>1. Fed' = [kv |-> Fed.kv \o <<Generated>>, seen |-> Fed.seen \o <<Generated>>]
    BY <1>6, <1>11 DEF Fed
  <2>2. Fed.kv = InputSeen \o GeneratedBy(n) /\ Fed.seen = InputSeen \o GeneratedBy(n)
    BY <1>3 DEF Cache
  <2> HIDE DEF Fed, InputSeen
  <2> QED BY <2>1, <2>2, <1>4, <1>6, <1>a DEF Cache
<1>14. CacheOf' = Cache(InputSeen' \o GeneratedBy(row'.generated - 1))
  <2>1. row'.generated - 1 = n BY <1>3, <1>6
  <2> QED BY <2>1, <1>3, <1>a, <1>11
<1>15. row.on = "prefix" => HitInv'
  <2> SUFFICES ASSUME row.on = "prefix" PROVE HitInv' OBVIOUS
  <2>1. entry \in Entry /\ Len(entry.prefix) <= Len(entry.cache.kv)
        /\ SubSeq(entry.cache.kv, 1, Len(entry.prefix)) = entry.prefix
    BY <1>7 DEF HitInv
  <2>2. entry.cache.kv \in Seq(RowTokens) /\ row.fed \in Seq(RowTokens) /\ Len(entry.prefix) \in Nat
        /\ entry.cache.kv = CacheOf.kv
    BY <2>1, <1>2 DEF Entry, Caches, Rows, CacheOf
  <2>3. entry'.cache.kv = entry.cache.kv \o row.fed
    <3>1. Fed.kv = CacheOf.kv \o row.fed BY DEF Fed
    <3> QED BY <3>1, <2>2, <1>9
  <2> DEFINE s == entry.cache.kv t == row.fed m == Len(entry.prefix)
  <2>4. s \in Seq(RowTokens) /\ t \in Seq(RowTokens) /\ m \in Nat /\ m <= Len(s) BY <2>1, <2>2
  <2>5. entry'.cache.kv = s \o t /\ SubSeq(s, 1, m) = entry.prefix BY <2>1, <2>3
  <2>6. entry' \in Entry /\ entry'.prefix = entry.prefix BY <1>9
  <2>7. row'.ids = row.ids /\ series' = series /\ entry'.static = entry.static /\ entry'.max = entry.max
    BY <1>1, <1>6, <1>9
  <2>8. /\ entry.static => Len(row.ids) + series.route.budget <= entry.max
        /\ Len(entry.prefix) < Len(row.ids) /\ SubSeq(row.ids, 1, Len(entry.prefix)) = entry.prefix
    BY <1>7 DEF HitInv
  <2> HIDE DEF s, t
  <2>9. SubSeq(s \o t, 1, m) = SubSeq(s, 1, m) BY <2>4, SubSeqOfConcat1
  <2>10. Len(s \o t) = Len(s) + Len(t) /\ Len(s) \in Nat /\ Len(t) \in Nat BY <2>4, ConcatProperties
  <2>11. Len(entry'.prefix) <= Len(entry'.cache.kv) BY <2>4, <2>5, <2>6, <2>10
  <2>12. SubSeq(entry'.cache.kv, 1, Len(entry'.prefix)) = entry'.prefix BY <2>5, <2>6, <2>9
  <2> QED BY <2>6, <2>7, <2>8, <2>11, <2>12 DEF HitInv
<1>16. row.on = "resident" => ResidentInv' BY <1>1, <1>6, <1>8, <1>10 DEF ResidentInv
<1>17. RowInv'
  <2>1. row'.generated <= series'.route.budget BY <1>1, <1>2, <1>3, <1>6
  <2> QED BY <2>1, <1>6, <1>13, <1>14, <1>15, <1>16 DEF RowInv
<1>18. PrefixIsWhole'
  <2>1. CASE row.on = "prefix"
    <3>1. InLoop' /\ row'.on = "prefix"
      <4>1. row' \in Rows /\ row'.on = "prefix" /\ series'.pc = "decoding" BY <2>1, <1>1, <1>6 DEF InLoop
      <4> QED BY <4>1, BatchRunsAssumption DEF InLoop
    <3> QED BY <3>1 DEF PrefixIsWhole
  <2>2. CASE row.on # "prefix" BY <2>2, <1>0, <1>1, <1>6 DEF PrefixIsWhole, InLoop
  <2> QED BY <2>1, <2>2
<1>19. TreesInv' BY <1>0, <1>1, TreesStay
<1>20. StopInv' BY <1>0, <1>1 DEF StopInv
<1> QED BY <1>12, <1>17, <1>18, <1>19, <1>20 DEF BatchInv

\* Outside a decode there is nothing to say of the row.
LEMMA IdleRow ==
  ASSUME ~InLoop' PROVE RowInv'
BY DEF RowInv

\* The row that leaves the loop rewinds the prefix it decoded on.
LEMMA EndRowHolds ==
  ASSUME BatchInv, EndRow PROVE BatchInv'
<1>0. RowShapes /\ RowInv /\ TreesInv /\ StopInv /\ PrefixIsWhole BY DEF BatchInv
<1>1. /\ InLoop /\ entry' = (IF row.on = "prefix" THEN Released(entry) ELSE entry)
      /\ row' = [row EXCEPT !.on = "fresh", !.fed = <<>>]
      /\ series' = [series EXCEPT !.pc = "collect"]
      /\ UNCHANGED <<runtime, resident, loom, flagged, stopCount, lateRows>>
  BY DEF EndRow
<1>2. row \in Rows /\ series \in Series /\ series # Nothing
  BY <1>0, <1>1, BatchRunsAssumption DEF RowShapes, InLoop
<1>3. row' \in Rows /\ row'.on = "fresh"
  <2>1. <<>> \in Seq(RowTokens) OBVIOUS
  <2> QED BY <1>1, <1>2, <2>1 DEF Rows
<1>4. /\ series' \in Series /\ series'.pc = "collect" /\ series'.jobs = series.jobs
      /\ series'.kind = series.kind /\ series'.stateless = series.stateless
      /\ series'.done = series.done /\ series'.stops = series.stops
  BY <1>1, <1>2 DEF Series
<1>5. ~InLoop' BY <1>4 DEF InLoop
<1>6. row.on = "prefix" =>
        entry' = Nothing \/ (entry' \in Entry /\ entry'.cache = Cache(entry'.prefix \o entry'.left))
  <2> SUFFICES ASSUME row.on = "prefix"
               PROVE  \/ entry' = Nothing
                      \/ entry' \in Entry /\ entry'.cache = Cache(entry'.prefix \o entry'.left)
    OBVIOUS
  <2>1. HitInv BY <1>0, <1>1 DEF RowInv
  <2>2. entry \in Entry /\ SubSeq(entry.cache.kv, 1, Len(entry.prefix)) = entry.prefix
    BY <2>1 DEF HitInv
  <2>3. Rewound(entry.cache, entry.prefix) = Cache(entry.prefix) BY <2>2 DEF Rewound, Cache
  <2>4. Cache(entry.prefix) \in Caches BY <2>2 DEF Cache, Caches, Entry
  <2>5. CASE CannotRewind(entry) BY <2>5, <1>1 DEF Released
  <2>6. CASE ~CannotRewind(entry)
    <3>1. entry' = [entry EXCEPT !.cache = Cache(entry.prefix), !.left = <<>>]
      BY <2>3, <2>6, <1>1 DEF Released
    <3>2. /\ entry' \in Entry /\ entry'.cache = Cache(entry.prefix)
          /\ entry'.prefix = entry.prefix /\ entry'.left = <<>>
      <4>1. <<>> \in Seq(RowTokens) OBVIOUS
      <4>2. Cache(entry.prefix) \in Caches BY <2>4
      <4> HIDE DEF Cache
      <4> QED BY <3>1, <2>2, <4>1, <4>2 DEF Entry
    <3>3. entry.prefix \o <<>> = entry.prefix BY <2>2, ConcatEmptySeq DEF Entry
    <3> QED BY <3>2, <3>3
  <2> QED BY <2>5, <2>6
<1>7. row.on # "prefix" => entry' = entry
                           /\ (entry = Nothing \/ entry.cache = Cache(entry.prefix \o entry.left))
  BY <1>0, <1>1 DEF PrefixIsWhole
<1>8. RowShapes'
  <2>1. entry' \in Entry \cup {Nothing} BY <1>0, <1>6, <1>7 DEF RowShapes
  <2> QED BY <2>1, <1>0, <1>1, <1>3, <1>4 DEF RowShapes
<1>9. PrefixIsWhole' BY <1>6, <1>7 DEF PrefixIsWhole
<1>10. TreesInv' BY <1>0, <1>1, <1>2, <1>4, TreesFollow DEF InLoop
<1>11. StopInv' BY <1>0, <1>1, <1>2, <1>4 DEF StopInv
<1> QED BY <1>5, <1>8, <1>9, <1>10, <1>11, IdleRow DEF BatchInv

\* The series is gone, and with it the prefix a batch cached.
LEMMA LeftSeriesHolds ==
  ASSUME BatchInv, LeaveSeries(series), InLoop => series.cleanup \/ row.on # "prefix",
         UNCHANGED <<runtime, resident, loom, flagged, stopCount, lateRows>>
  PROVE  BatchInv'
<1>1. /\ series' = Nothing /\ row' = Nothing
      /\ entry' = Nothing \/ (entry' = entry /\ ~series.cleanup)
      /\ UNCHANGED <<runtime, resident, loom, flagged, stopCount, lateRows>>
  BY DEF LeaveSeries
<1>2. RowShapes' BY <1>1 DEF BatchInv, RowShapes
<1>3. ~InLoop' BY <1>1 DEF InLoop
<1>4. PrefixIsWhole' BY <1>1 DEF BatchInv, PrefixIsWhole
<1>5. TreesInv' BY <1>1, TreesStay DEF BatchInv
<1>6. StopInv' BY <1>1 DEF BatchInv, StopInv
<1> QED BY <1>2, <1>3, <1>4, <1>5, <1>6, IdleRow DEF BatchInv

\* A row that raises on a cached prefix leaves behind it what it fed.
LEMMA RowRaisesHolds ==
  ASSUME BatchInv, RowRaises PROVE BatchInv'
<1>0. RowShapes /\ RowInv /\ TreesInv /\ StopInv /\ PrefixIsWhole BY DEF BatchInv
<1>1. /\ InLoop /\ row.generated > 0 /\ series' = Nothing /\ row' = Nothing
      /\ entry' = (IF series.cleanup THEN Nothing
                  ELSE IF row.on = "prefix" THEN [entry EXCEPT !.left = @ \o FedBehindPrefix]
                  ELSE entry)
      /\ UNCHANGED <<runtime, resident, loom, flagged, stopCount, lateRows>>
  BY DEF RowRaises
<1>2. CASE series.cleanup \/ row.on # "prefix"
  <2>1. LeaveSeries(series) BY <1>1, <1>2 DEF LeaveSeries
  <2> QED BY <2>1, <1>1, <1>2, LeftSeriesHolds
<1>3. CASE ~series.cleanup /\ row.on = "prefix"
  <2> DEFINE m == Len(entry.prefix)
             rest == SubSeq(row.ids, m + 1, Len(row.ids))
             sampled == GeneratedBy(row.generated - 1)
  <2>1. entry \in Entry /\ entry.prefix \in Seq(RowTokens) /\ entry.left \in Seq(RowTokens)
    BY <1>0, <1>1, <1>3 DEF RowInv, HitInv, Entry
  <2>2. rest \in Seq(RowTokens) /\ InputSeen = entry.prefix \o entry.left \o rest
    BY <1>0, <1>1, <1>3, InputIsTokens
  <2>3. row.generated - 1 \in Nat BY <1>0, <1>1 DEF RowShapes, InLoop, Rows
  <2>4. sampled \in Seq(RowTokens) BY <2>3 DEF GeneratedBy, RowTokens
  <2>5. FedBehindPrefix = rest \o sampled BY DEF FedBehindPrefix, GeneratedBy
  <2>6. entry.cache = Cache(InputSeen \o sampled) BY <1>0, <1>1, <1>3 DEF RowInv, CacheOf
  <2>7. entry' = [entry EXCEPT !.left = entry.left \o FedBehindPrefix] BY <1>1, <1>3
  <2> HIDE DEF rest, sampled
  <2>8. entry.left \o FedBehindPrefix \in Seq(RowTokens) BY <2>1, <2>2, <2>4, <2>5
  <2>9. /\ entry' \in Entry /\ entry'.cache = entry.cache /\ entry'.prefix = entry.prefix
        /\ entry'.left = entry.left \o FedBehindPrefix
    BY <2>1, <2>7, <2>8 DEF Entry
  <2>10. InputSeen \o sampled = entry.prefix \o (entry.left \o FedBehindPrefix)
    <3> DEFINE p == entry.prefix  l == entry.left
    <3>1. p \in Seq(RowTokens) /\ l \in Seq(RowTokens) BY <2>1
    <3> HIDE DEF p, l
    <3>2. (p \o l) \o rest = p \o (l \o rest) BY <3>1, <2>2, ConcatAssociative
    <3>3. (p \o (l \o rest)) \o sampled = p \o ((l \o rest) \o sampled)
      <4>1. l \o rest \in Seq(RowTokens) BY <3>1, <2>2
      <4> QED BY <4>1, <3>1, <2>4, ConcatAssociative
    <3>4. (l \o rest) \o sampled = l \o (rest \o sampled) BY <3>1, <2>2, <2>4, ConcatAssociative
    <3>5. InputSeen = (p \o l) \o rest BY <2>2 DEF p, l
    <3> QED BY <3>2, <3>3, <3>4, <3>5, <2>5 DEF p, l
  <2>11. entry'.cache = Cache(entry'.prefix \o entry'.left) BY <2>6, <2>9, <2>10
  <2>12. RowShapes' BY <1>0, <1>1, <2>9 DEF RowShapes
  <2>13. ~InLoop' BY <1>1 DEF InLoop
  <2>14. PrefixIsWhole' BY <2>11 DEF PrefixIsWhole
  <2>15. TreesInv' BY <1>0, <1>1, TreesStay
  <2>16. StopInv' BY <1>0, <1>1 DEF StopInv
  <2> QED BY <2>12, <2>13, <2>14, <2>15, <2>16, IdleRow DEF BatchInv
<1> QED BY <1>2, <1>3

LEMMA EndSeriesHolds ==
  ASSUME BatchInv, EndSeries PROVE BatchInv'
BY LeftSeriesHolds DEF EndSeries, InLoop

LEMMA RequestStopHolds ==
  ASSUME BatchInv, RequestStop PROVE BatchInv'
<1>1. /\ stopCount' = stopCount + 1 /\ flagged' = TRUE
      /\ UNCHANGED <<runtime, entry, resident, loom, series, row, seriesRun, lateRows>>
  BY DEF RequestStop
<1>2. RowShapes' BY <1>1 DEF BatchInv, RowShapes
<1>3. RowInv' BY <1>1 DEF BatchInv, RowInv, InLoop, Fed, CacheOf, InputSeen, HitInv, ResidentInv
<1>4. PrefixIsWhole' BY <1>1 DEF BatchInv, PrefixIsWhole, InLoop
<1>5. TreesInv' BY <1>1, TreesStay DEF BatchInv
<1>6. StopInv'
  <2>1. series # Nothing => series.stops \in Nat BY DEF BatchInv, RowShapes, Series
  <2> QED BY <1>1, <2>1 DEF BatchInv, RowShapes, StopInv
<1> QED BY <1>2, <1>3, <1>4, <1>5, <1>6 DEF BatchInv

LEMMA PrefillHolds ==
  ASSUME BatchInv, NEW p \in Cacheable, NEW static \in BOOLEAN, PrefillPrefix(p, static)
  PROVE  BatchInv'
<1>1. /\ series = Nothing
      /\ entry' = (IF p = <<>> THEN Nothing ELSE Prefilled(p, static /\ runtime.static, Default))
      /\ UNCHANGED <<runtime, resident, loom, series, row, flagged, stopCount, lateRows>>
  BY DEF PrefillPrefix
<1>2. row = Nothing
  BY <1>1, BatchRunsAssumption DEF BatchInv, RowShapes
<1>3. p \in Seq(RowTokens)
  <2>1. CASE p = <<>> BY <2>1
  <2>2. CASE p # <<>>
    <3>1. PICK q \in Prompts : p = SubSeq(q, 1, Len(q) - 1) BY <2>2 DEF Cacheable
    <3>2. q \in Seq(RowTokens) BY PromptsAreRowTokens
    <3> QED BY <3>1, <3>2, SubSeqProperties
  <2> QED BY <2>1, <2>2
<1>4. entry' = Nothing \/ (entry' \in Entry /\ entry'.cache = Cache(entry'.prefix \o entry'.left))
  <2>1. Len(p) + Default \in Nat BY <1>3, DefaultIsLargest
  <2>2. Cache(p) \in Caches BY <1>3 DEF Cache, Caches
  <2>3. (static /\ runtime.static) \in BOOLEAN OBVIOUS
  <2> HIDE DEF Cache
  <2>4. Prefilled(p, static /\ runtime.static, Default) \in Entry
        /\ Prefilled(p, static /\ runtime.static, Default).cache = Cache(p)
        /\ Prefilled(p, static /\ runtime.static, Default).prefix = p
        /\ Prefilled(p, static /\ runtime.static, Default).left = <<>>
    BY <1>3, <2>1, <2>2, <2>3 DEF Prefilled, Entry
  <2>5. p \o <<>> = p BY <1>3, ConcatEmptySeq
  <2> QED BY <1>1, <2>4, <2>5
<1>5. RowShapes' BY <1>1, <1>2, <1>4 DEF BatchInv, RowShapes
<1>6. ~InLoop' BY <1>1, <1>2 DEF InLoop
<1>7. PrefixIsWhole' BY <1>4 DEF PrefixIsWhole
<1>8. TreesInv' BY <1>1, TreesStay DEF BatchInv
<1>9. StopInv' BY <1>1 DEF BatchInv, StopInv
<1> QED BY <1>5, <1>6, <1>7, <1>8, <1>9, IdleRow DEF BatchInv

LEMMA NextRowHolds ==
  ASSUME BatchInv, NextRow PROVE BatchInv'
<1>1. /\ series # Nothing /\ series.pc = "check" /\ stopCount = series.stops
      /\ series' = [series EXCEPT !.pc = "next"]
      /\ UNCHANGED <<runtime, entry, resident, loom, row, flagged, stopCount, lateRows>>
  BY DEF NextRow, StopSeen
<1>2. series \in Series BY <1>1 DEF BatchInv, RowShapes
<1>3. /\ series' \in Series /\ series'.pc = "next" /\ series'.jobs = series.jobs
      /\ series'.kind = series.kind /\ series'.stateless = series.stateless
      /\ series'.done = series.done /\ series'.stops = series.stops
  BY <1>1, <1>2 DEF Series
<1>4. ~InLoop' /\ ~InLoop BY <1>1, <1>3 DEF InLoop
<1>5. RowShapes' BY <1>1, <1>3 DEF BatchInv, RowShapes
<1>6. PrefixIsWhole' BY <1>1, <1>4 DEF BatchInv, PrefixIsWhole
<1>7. TreesInv' BY <1>1, <1>3, TreesFollow DEF BatchInv
<1>8. StopInv' BY <1>1, <1>3 DEF BatchInv, StopInv
<1> QED BY <1>4, <1>5, <1>6, <1>7, <1>8, IdleRow DEF BatchInv

\* The result names the reply of its own row, though the callback moves on.
LEMMA CollectHolds ==
  ASSUME BatchInv, NEW target \in Nodes, Collect(target) PROVE BatchInv'
<1> DEFINE node == IF series.stateless THEN Nothing ELSE loom.active
<1>0. RowShapes /\ RowInv /\ TreesInv /\ StopInv /\ PrefixIsWhole BY DEF BatchInv
<1>1. /\ series # Nothing /\ series.pc = "collect"
      /\ series' = [series EXCEPT !.pc = "check", !.done = Append(@, node)]
      /\ row' = Nothing /\ loom' = [loom EXCEPT !.active = target]
      /\ UNCHANGED <<runtime, entry, resident, flagged, stopCount, lateRows>>
  BY DEF Collect
<1>2. series \in Series /\ IsTree(loom) BY <1>0, <1>1 DEF RowShapes, TreesInv
<1>3. node \in Places BY <1>2 DEF Places, IsTree, Looms
<1>4. series.done \in Seq(Places) BY <1>2 DEF Series
<1>5. /\ Append(series.done, node) \in Seq(Places)
      /\ Len(Append(series.done, node)) = Len(series.done) + 1 /\ Len(series.done) \in Nat
      /\ \A i \in 1..Len(series.done) : Append(series.done, node)[i] = series.done[i]
      /\ Append(series.done, node)[Len(series.done) + 1] = node
  BY <1>3, <1>4, AppendProperties
<1> HIDE DEF node
<1>6. /\ series' \in Series /\ series'.pc = "check" /\ series'.jobs = series.jobs
      /\ series'.kind = series.kind /\ series'.stateless = series.stateless
      /\ series'.done = Append(series.done, node) /\ series'.stops = series.stops
  BY <1>1, <1>2, <1>5 DEF Series
<1>7. ~InLoop' /\ ~InLoop BY <1>1, <1>6 DEF InLoop
<1>8. RowShapes' BY <1>0, <1>1, <1>6 DEF RowShapes
<1>9. PrefixIsWhole' BY <1>0, <1>1, <1>7 DEF PrefixIsWhole
<1>10. /\ IsTree(loom') /\ Extends(loom, loom') /\ loom'.active = target
       /\ Len(loom'.parent) = Len(loom.parent)
  BY <1>1, <1>2, SelectKeeps DEF Nodes
<1>11. JobsPlaced' BY <1>0, <1>1, <1>6, <1>10 DEF TreesInv, JobsPlaced, PlacedIn
<1>12. ASSUME StatefulFan' PROVE \E job \in Jobs : FanInv(job)'
  <2>1. StatefulFan /\ node = loom.active BY <1>1, <1>6, <1>12 DEF StatefulFan, node
  <2>2. PICK job \in Jobs : FanInv(job) BY <2>1, <1>0 DEF TreesInv
  <2>3. ASSUME NEW i \in 1..(Len(series.done) + 1)
        PROVE  HangsUnder(loom', series'.done[i], job)
    <3>1. CASE i \in 1..Len(series.done)
      <4>1. HangsUnder(loom, series.done[i], job) BY <2>2, <3>1 DEF FanInv
      <4> QED BY <3>1, <4>1, <1>2, <1>5, <1>6, <1>10, HangsStays
    <3>2. CASE i = Len(series.done) + 1
      <4>1. HangsUnder(loom, loom.active, job) BY <1>1, <2>2 DEF FanInv
      <4> QED BY <2>1, <3>2, <4>1, <1>2, <1>5, <1>6, <1>10, HangsStays
    <3> QED BY <3>1, <3>2, <1>5
  <2>4. ASSUME NEW i \in 1..(Len(series.done) + 1), NEW j \in 1..(Len(series.done) + 1), i # j
        PROVE  series'.done[i] # series'.done[j]
    <3>1. \A a, b \in 1..Len(series.done) : a # b => series.done[a] # series.done[b]
      BY <2>2 DEF FanInv
    <3>2. \A a \in 1..Len(series.done) : series.done[a] # node BY <1>1, <2>1, <2>2 DEF FanInv
    <3> QED BY <3>1, <3>2, <2>4, <1>5, <1>6
  <2>5. FanInv(job)' BY <1>5, <1>6, <2>2, <2>3, <2>4 DEF FanInv, AnchorOf
  <2> QED BY <2>5
<1>13. TreesInv' BY <1>10, <1>11, <1>12 DEF TreesInv
<1>14. StopInv' BY <1>0, <1>1, <1>6 DEF StopInv
<1> QED BY <1>7, <1>8, <1>9, <1>13, <1>14, IdleRow DEF BatchInv

\* A row opens its turns and takes the cache it decodes on.
\* Nodes are only added, so what is placed in the tree stays placed.
LEMMA PlacesStay ==
  ASSUME NEW l, NEW t, NEW place, PlacedIn(l, place),
         Len(l.parent) \in Nat, Len(t.parent) \in Nat, Len(l.parent) <= Len(t.parent)
  PROVE  PlacedIn(t, place)
<1> SUFFICES ASSUME place # Nothing PROVE place \in 1..Len(t.parent) BY DEF PlacedIn
<1>1. place \in 1..Len(l.parent) BY DEF PlacedIn
<1> QED BY <1>1

LEMMA BeginRowHolds ==
  ASSUME BatchInv, NEW allocates \in BOOLEAN, BeginRow(allocates) PROVE BatchInv'
<1> DEFINE k == Len(series.done) + 1
           job == series.jobs[k]
           route == series.route
           at == IF job.start # Nothing THEN [loom EXCEPT !.active = job.start] ELSE loom
           turns == IF series.stateless THEN at ELSE OpenTurn(at, job.input, job.parent)
           ids == Rendered(job.input)
           hit == Hits(ids, route)
           static == route.static /\ ~hit /\ allocates
           reserve == Larger(route.budget, Default)
           fed == IF hit THEN SubSeq(ids, Len(entry.prefix) + 1, Len(ids)) ELSE ids
           on == IF hit THEN "prefix" ELSE IF static THEN "resident" ELSE "fresh"
<1>0. RowShapes /\ RowInv /\ TreesInv /\ StopInv /\ PrefixIsWhole BY DEF BatchInv
<1>1. /\ series # Nothing /\ series.pc = "next" /\ Len(series.done) < Len(series.jobs)
      /\ loom' = turns
      /\ resident' = (IF static THEN acquire_static_cache(Len(ids) + reserve) ELSE resident)
      /\ row' = [on |-> on, ids |-> ids, fed |-> fed, fresh |-> Cache(<<>>), generated |-> 0]
      /\ series' = [series EXCEPT !.pc = "decoding"]
      /\ lateRows' = (IF stopCount # series.stops THEN lateRows + 1 ELSE 0)
      /\ flagged' = FALSE
      /\ UNCHANGED <<runtime, entry, stopCount>>
  BY DEF BeginRow
<1>2. series \in Series BY <1>0, <1>1 DEF RowShapes
<1>3. /\ series' \in Series /\ series'.pc = "decoding" /\ series'.jobs = series.jobs
      /\ series'.kind = series.kind /\ series'.stateless = series.stateless
      /\ series'.done = series.done /\ series'.stops = series.stops /\ series'.route = series.route
  BY <1>1, <1>2 DEF Series
<1>4. k \in 1..Len(series.jobs) /\ job \in Jobs /\ route.budget \in Nat /\ route.static \in BOOLEAN
  BY <1>1, <1>2 DEF Series, Routes
<1>5. ids \in Seq(RowTokens) /\ Len(ids) \in Nat BY <1>4, PromptsAreRowTokens
<1>6. reserve \in Nat /\ route.budget <= reserve BY <1>4, DefaultIsLargest DEF Larger
<1>7. hit => /\ entry \in Entry /\ entry.cache = Cache(entry.prefix \o entry.left)
             /\ Len(entry.prefix) < Len(ids) /\ SubSeq(ids, 1, Len(entry.prefix)) = entry.prefix
             /\ (entry.static => Len(ids) + route.budget <= entry.max)
  <2> SUFFICES ASSUME hit
               PROVE  /\ entry \in Entry /\ entry.cache = Cache(entry.prefix \o entry.left)
                      /\ Len(entry.prefix) < Len(ids) /\ SubSeq(ids, 1, Len(entry.prefix)) = entry.prefix
                      /\ (entry.static => Len(ids) + route.budget <= entry.max)
    OBVIOUS
  <2>1. entry # Nothing /\ suffix_for(ids, route.eligible, route.budget) BY DEF Hits
  <2>2. entry \in Entry BY <2>1, <1>0 DEF RowShapes
  <2>3. entry.prefix \in Seq(RowTokens) BY <2>2 DEF Entry
  <2>4. entry.cache = Cache(entry.prefix \o entry.left) BY <2>1, <1>0, <1>1 DEF PrefixIsWhole, InLoop
  <2>5. Len(entry.prefix) < Len(ids) /\ IsPrefix(entry.prefix, ids)
        /\ (entry.static => Len(ids) + route.budget <= entry.max)
    BY <2>1, <1>5, <2>3 DEF suffix_for
  <2>6. SubSeq(entry.prefix, 1, Len(entry.prefix)) = entry.prefix BY <2>3, SubSeqFull
  <2> QED BY <2>2, <2>4, <2>5, <2>6 DEF IsPrefix
<1> HIDE DEF ids, reserve, hit
<1>8. fed \in Seq(RowTokens) /\ (hit => fed = SubSeq(ids, Len(entry.prefix) + 1, Len(ids)))
  <2>1. CASE hit
    <3>1. entry.prefix \in Seq(RowTokens) /\ Len(entry.prefix) \in Nat BY <2>1, <1>7 DEF Entry
    <3>2. fed = SubSeq(ids, Len(entry.prefix) + 1, Len(ids)) BY <2>1
    <3>3. fed \in Seq(RowTokens) BY <3>1, <3>2, <1>5, <1>7, <2>1, SubSeqProperties
    <3> QED BY <3>2, <3>3
  <2>2. CASE ~hit BY <2>2, <1>5
  <2> QED BY <2>1, <2>2
<1> HIDE DEF fed
<1>9. on \in {"prefix", "resident", "fresh"} /\ (on = "prefix" <=> hit) /\ (on = "resident" <=> static)
  OBVIOUS
<1>10. Cache(<<>>) \in Caches
  <2>1. <<>> \in Seq(RowTokens) OBVIOUS
  <2> QED BY <2>1 DEF Cache, Caches
<1>11. static => /\ resident' \in Resident /\ resident'.cache = Cache(<<>>)
                 /\ Len(ids) + route.budget <= resident'.max
  <2> SUFFICES ASSUME static
               PROVE  /\ resident' \in Resident /\ resident'.cache = Cache(<<>>)
                      /\ Len(ids) + route.budget <= resident'.max
    OBVIOUS
  <2> DEFINE needed == Len(ids) + reserve
             max == IF resident # Nothing /\ resident.max >= needed THEN resident.max ELSE needed
  <2>1. needed \in Nat /\ Len(ids) + route.budget <= needed BY <1>4, <1>5, <1>6
  <2>2. resident' = [cache |-> Cache(<<>>), max |-> max] BY <1>1 DEF acquire_static_cache
  <2>3. max \in Nat /\ needed <= max BY <2>1, <1>0 DEF RowShapes, Resident
  <2> HIDE DEF needed, max
  <2>4. Len(ids) + route.budget <= max BY <2>1, <2>3, <1>4, <1>5
  <2> QED BY <2>2, <2>3, <2>4, <1>10 DEF Resident
<1>12. ~static => resident' = resident BY <1>1
<1> HIDE DEF static, on
<1>13. row' \in Rows /\ row'.on = on /\ row'.ids = ids /\ row'.fed = fed /\ row'.generated = 0
       /\ row'.fresh = Cache(<<>>)
  BY <1>1, <1>5, <1>8, <1>9, <1>10 DEF Rows
<1>14. RowShapes'
  <2>1. resident' \in Resident \cup {Nothing} BY <1>0, <1>11, <1>12 DEF RowShapes
  <2> QED BY <2>1, <1>0, <1>1, <1>3, <1>13 DEF RowShapes
<1>15. Fed' = Cache(InputSeen') /\ InputSeen' \in Seq(RowTokens)
  <2>1. <<>> \o ids = ids BY <1>5, ConcatEmptySeq
  <2>2. CASE on = "prefix"
    <3> DEFINE seen == entry.prefix \o entry.left
    <3>1. CacheOf' = Cache(seen) BY <2>2, <1>1, <1>7, <1>9, <1>13 DEF CacheOf
    <3>2. Fed' = [kv |-> seen \o fed, seen |-> seen \o fed]
      BY <3>1, <1>13 DEF Fed, Cache
    <3>3. entry.prefix \in Seq(RowTokens) /\ entry.left \in Seq(RowTokens)
      BY <2>2, <1>7, <1>9 DEF Entry
    <3>4. seen \in Seq(RowTokens) BY <3>3
    <3>5. InputSeen' = SubSeq(ids, 1, Len(entry.prefix)) \o entry.left \o fed
      BY <2>2, <1>1, <1>8, <1>9, <1>13 DEF InputSeen
    <3>6. InputSeen' = seen \o fed BY <3>5, <2>2, <1>7, <1>9
    <3> HIDE DEF seen
    <3> QED BY <3>2, <3>4, <3>6, <1>8 DEF Cache
  <2>3. CASE on # "prefix"
    <3>1. CacheOf' = Cache(<<>>)
      <4>1. CASE on = "resident" BY <4>1, <1>9, <1>11, <1>13 DEF CacheOf
      <4>2. CASE on = "fresh" BY <4>2, <1>13 DEF CacheOf
      <4> QED BY <4>1, <4>2, <2>3, <1>9
    <3>2. fed = ids BY <2>3, <1>9 DEF fed
    <3>3. InputSeen' = ids BY <2>3, <1>13 DEF InputSeen
    <3> QED BY <3>1, <3>2, <3>3, <2>1, <1>5, <1>13 DEF Fed, Cache
  <2> QED BY <2>2, <2>3
<1>16. InputSeen' \o GeneratedBy(0) = InputSeen' BY <1>15, GeneratedGrows
<1>17. on = "prefix" => HitInv'
  <2> SUFFICES ASSUME on = "prefix" PROVE HitInv' OBVIOUS
  <2>1. /\ entry' = entry /\ entry \in Entry /\ entry.cache.kv = entry.prefix \o entry.left
        /\ entry.prefix \in Seq(RowTokens) /\ entry.left \in Seq(RowTokens)
    BY <1>1, <1>7, <1>9 DEF Cache, Entry
  <2>2. SubSeq(entry.prefix, 1, Len(entry.prefix)) = entry.prefix BY <2>1, SubSeqFull
  <2> DEFINE s == entry.prefix t == entry.left
  <2>3. s \in Seq(RowTokens) /\ t \in Seq(RowTokens) BY <2>1
  <2> HIDE DEF s, t
  <2>4. SubSeq(s \o t, 1, Len(s)) = SubSeq(s, 1, Len(s)) BY <2>3, SubSeqOfConcat1
  <2>5. Len(s) <= Len(s \o t) BY <2>3, ConcatProperties
  <2>6. /\ Len(entry.prefix) <= Len(entry.cache.kv)
        /\ SubSeq(entry.cache.kv, 1, Len(entry.prefix)) = entry.prefix
    BY <2>1, <2>2, <2>4, <2>5 DEF s, t
  <2>7. /\ Len(entry.prefix) < Len(ids) /\ SubSeq(ids, 1, Len(entry.prefix)) = entry.prefix
        /\ entry.static => Len(ids) + route.budget <= entry.max
    BY <1>7, <1>9
  <2> QED BY <2>1, <2>6, <2>7, <1>3, <1>13 DEF HitInv
<1>18. on = "resident" => ResidentInv' BY <1>3, <1>9, <1>11, <1>13 DEF ResidentInv
<1>19. RowInv'
  <2>1. row'.generated <= series'.route.budget BY <1>3, <1>4, <1>13
  <2>2. Fed' = Cache(InputSeen' \o GeneratedBy(row'.generated)) BY <1>13, <1>15, <1>16
  <2>3. ~(row'.generated > 0) BY <1>13
  <2> QED BY <2>1, <2>2, <2>3, <1>13, <1>17, <1>18 DEF RowInv
<1>20. PrefixIsWhole' BY <1>0, <1>1 DEF PrefixIsWhole, InLoop
<1>21. StopInv' BY <1>0, <1>1, <1>3 DEF StopInv
<1>22. /\ IsTree(loom') /\ Extends(loom, loom')
       /\ ~series.stateless => HangsUnder(loom', loom'.active,
                                 [job EXCEPT !.parent = IF job.parent = Nothing THEN at.active ELSE job.parent,
                                             !.start = Nothing])
                               /\ loom'.active > Len(loom.parent)
       /\ job.start # Nothing => at.active = job.start
  <2>1. IsTree(loom) /\ PlacedIn(loom, job.start) /\ PlacedIn(loom, job.parent)
    BY <1>0, <1>1, <1>4 DEF TreesInv, JobsPlaced
  <2>2. IsTree(at) /\ Extends(loom, at) /\ Len(at.parent) = Len(loom.parent)
        /\ (job.start # Nothing => at.active = job.start)
    <3>1. CASE job.start # Nothing
      <4>1. job.start \in 1..Len(loom.parent) BY <2>1, <3>1 DEF PlacedIn
      <4> QED BY <2>1, <3>1, <4>1, SelectKeeps
    <3>2. CASE job.start = Nothing
      <4>1. Len(loom.parent) \in Nat BY <2>1 DEF IsTree, Looms
      <4> QED BY <2>1, <3>2, <4>1 DEF Extends
    <3> QED BY <3>1, <3>2
  <2>3. PlacedIn(at, job.parent) BY <2>1, <2>2 DEF PlacedIn
  <2>4. job.input \in Prompts \cup {Nothing} /\ job.parent \in Places BY <1>4 DEF Jobs
  <2>5. loom' = (IF series.stateless THEN at ELSE OpenTurn(at, job.input, job.parent)) BY <1>1
  <2> DEFINE anchor == IF job.parent = Nothing THEN at.active ELSE job.parent
             moved == [job EXCEPT !.parent = anchor, !.start = Nothing]
  <2>6. moved.input = job.input /\ AnchorOf(moved) = anchor BY <1>4 DEF Jobs, AnchorOf
  <2>a. anchor = IF job.parent = Nothing THEN at.active ELSE job.parent OBVIOUS
  <2> HIDE DEF at, job, moved, anchor
  <2>7. CASE series.stateless BY <2>2, <2>5, <2>7
  <2>8. CASE ~series.stateless
    <3>1. IsTree(loom') /\ Extends(at, loom') /\ loom'.active > Len(at.parent)
          /\ HangsUnder(loom', loom'.active, moved)
      <4>1. loom' = OpenTurn(at, job.input, job.parent) BY <2>5, <2>8
      <4> QED BY <4>1, <2>a, <2>2, <2>3, <2>4, <2>6, OpenTurnHangs
    <3>2. Extends(loom, loom')
      <4>1. Len(at.parent) \in Nat /\ Len(loom.parent) \in Nat BY <2>1, <2>2 DEF IsTree, Looms
      <4> QED BY <4>1, <2>2, <3>1 DEF Extends
    <3> QED BY <2>2, <3>1, <3>2 DEF moved, anchor
  <2> QED BY <2>7, <2>8
<1> HIDE DEF at
<1>23. ASSUME StatefulFan' PROVE \E j \in Jobs : FanInv(j)'
  <2>1. StatefulFan /\ ~series.stateless BY <1>1, <1>3, <1>23 DEF StatefulFan
  <2>2. PICK j \in Jobs : FanInv(j) BY <2>1, <1>0 DEF TreesInv
  <2>3. job = j BY <2>2, <1>4 DEF FanInv
  <2> DEFINE anchor == IF job.parent = Nothing THEN at.active ELSE job.parent
             moved == [job EXCEPT !.parent = anchor, !.start = Nothing]
  <2>4. moved.input = job.input /\ AnchorOf(moved) = anchor BY <1>4 DEF Jobs, AnchorOf
  <2>5. AnchorOf(j) # Nothing /\ (j.start # Nothing => j.parent = Nothing) BY <2>2 DEF FanInv
  <2>6. AnchorOf(j) = anchor BY <2>3, <2>5, <1>22 DEF AnchorOf
  <2>7. HangsUnder(loom', loom'.active, moved) BY <2>1, <1>22
  <2> HIDE DEF moved, job, anchor
  <2>8. HangsUnder(loom', loom'.active, j) BY <2>3, <2>4, <2>6, <2>7 DEF HangsUnder
  <2>9. \A i \in 1..Len(series.done) : HangsUnder(loom, series.done[i], j) BY <2>2 DEF FanInv
  <2>10. IsTree(loom) BY <1>0 DEF TreesInv
  <2>11. \A i \in 1..Len(series.done) : HangsUnder(loom', series.done[i], j)
    BY <2>9, <2>10, <1>22, HangsStays
  <2>12. \A i \in 1..Len(series.done) : series.done[i] # loom'.active
    <3>1. Len(loom.parent) \in Nat BY <2>10 DEF IsTree, Looms
    <3>2. loom'.active > Len(loom.parent) BY <2>1, <1>22
    <3>3. \A i \in 1..Len(series.done) : series.done[i] \in 1..Len(loom.parent) BY <2>9 DEF HangsUnder
    <3>4. loom'.active \in Nat BY <1>22 DEF IsTree, Looms
    <3> QED BY <3>1, <3>2, <3>3, <3>4
  <2>13. FanInv(j)' BY <2>2, <2>5, <2>8, <2>11, <2>12, <1>3 DEF FanInv, AnchorOf
  <2> QED BY <2>13
<1>24. JobsPlaced'
  <2>1. Len(loom.parent) \in Nat /\ Len(loom'.parent) \in Nat /\ Len(loom.parent) <= Len(loom'.parent)
    BY <1>0, <1>22 DEF TreesInv, IsTree, Looms, Extends
  <2>2. series.jobs = series'.jobs /\ series # Nothing BY <1>1, <1>3
  <2> SUFFICES ASSUME NEW i \in 1..Len(series.jobs)
               PROVE  PlacedIn(loom', series.jobs[i].start) /\ PlacedIn(loom', series.jobs[i].parent)
    BY <2>2 DEF JobsPlaced
  <2>3. PlacedIn(loom, series.jobs[i].start) /\ PlacedIn(loom, series.jobs[i].parent)
    BY <1>0, <2>2 DEF TreesInv, JobsPlaced
  <2> QED BY <2>1, <2>3, PlacesStay
<1>25. TreesInv' BY <1>22, <1>23, <1>24 DEF TreesInv
<1> QED BY <1>14, <1>19, <1>20, <1>21, <1>25 DEF BatchInv

LEMMA RoutesAreRoutes ==
  ASSUME BatchInv, NEW call \in RowCalls PROVE Route(call) \in Routes /\ call.budget \in Nat
<1>1. call.budget \in Nat BY BatchRunsAssumption DEF RowCalls
<1>2. runtime.static \in BOOLEAN /\ runtime.compiled \in BOOLEAN BY DEF BatchInv, RowShapes, Runtimes
<1>3. StaticEligible(call) \in BOOLEAN BY DEF StaticEligible
<1>4. (call.needs \notin {"hidden", "thinking"} /\ ~SteersThePrefill(call)) \in BOOLEAN OBVIOUS
<1>5. (IF runtime.compiled THEN CompiledClean(call) /\ runtime.static ELSE StaticEligible(call)) \in BOOLEAN
  BY <1>3
<1> QED BY <1>1, <1>3, <1>4, <1>5 DEF Route, Routes

\* One job for every row, placed in the tree.
IsFan(jobs) ==
  \E job \in Jobs : /\ \A i \in 1..Len(jobs) : jobs[i] = job
                    /\ AnchorOf(job) # Nothing /\ (job.start # Nothing => job.parent = Nothing)

\* A series begins at its first row, on a cache that is a prefix's.
LEMMA BegunHolds ==
  ASSUME BatchInv, MayBegin, NEW kind \in {"fan", "batch"}, NEW jobs \in Seq(Jobs),
         NEW call \in RowCalls, NEW stateless \in BOOLEAN, NEW cleanup \in BOOLEAN,
         Begin(kind, jobs, call, stateless, cleanup),
         UNCHANGED <<runtime, resident, row, flagged, stopCount>>,
         \/ entry' = entry
         \/ entry' \in Entry /\ entry'.cache = Cache(entry'.prefix \o entry'.left),
         IsTree(loom'),
         \A i \in 1..Len(jobs) : PlacedIn(loom', jobs[i].start) /\ PlacedIn(loom', jobs[i].parent),
         kind = "fan" /\ ~stateless => IsFan(jobs)
  PROVE  BatchInv'
<1>0. RowShapes /\ RowInv /\ TreesInv /\ StopInv /\ PrefixIsWhole BY DEF BatchInv
<1>1. series' = [kind |-> kind, jobs |-> jobs, route |-> Route(call), stateless |-> stateless,
                 stops |-> stopCount, done |-> <<>>, cleanup |-> cleanup, pc |-> "next"]
      /\ lateRows' = 0
  BY DEF Begin
<1>2. series' \in Series
  <2>1. Route(call) \in Routes BY RoutesAreRoutes
  <2>2. <<>> \in Seq(Places) /\ stopCount \in Nat BY <1>0 DEF RowShapes
  <2> QED BY <1>1, <2>1, <2>2 DEF Series
<1>3. series = Nothing /\ row = Nothing
  BY <1>0, BatchRunsAssumption DEF MayBegin, RowShapes
<1>4. ~InLoop /\ ~InLoop' BY <1>3 DEF InLoop
<1>5. RowShapes' BY <1>0, <1>2, <1>3 DEF RowShapes
<1>6. PrefixIsWhole' BY <1>0, <1>4 DEF PrefixIsWhole
<1>7. JobsPlaced' BY <1>1 DEF JobsPlaced, PlacedIn
<1>8. ASSUME StatefulFan' PROVE \E job \in Jobs : FanInv(job)'
  <2>1. kind = "fan" /\ ~stateless BY <1>1, <1>8 DEF StatefulFan
  <2>2. PICK job \in Jobs : /\ \A i \in 1..Len(jobs) : jobs[i] = job
                            /\ AnchorOf(job) # Nothing /\ (job.start # Nothing => job.parent = Nothing)
    BY <2>1 DEF IsFan
  <2>3. Len(series'.done) = 0 /\ series'.jobs = jobs /\ series'.pc = "next" BY <1>1
  <2>4. FanInv(job)' BY <2>2, <2>3 DEF FanInv, AnchorOf
  <2> QED BY <2>4
<1>9. TreesInv'
  <2>1. IsTree(loom)' BY DEF IsTree, Looms
  <2> QED BY <2>1, <1>7, <1>8 DEF TreesInv
<1>10. StopInv' BY <1>0, <1>1 DEF StopInv, RowShapes
<1> QED BY <1>4, <1>5, <1>6, <1>9, <1>10, IdleRow DEF BatchInv

\* n times one job.
LEMMA SameJobs ==
  ASSUME NEW n \in Nat, NEW job \in Jobs, NEW jobs, jobs = [i \in 1..n |-> job]
  PROVE  jobs \in Seq(Jobs) /\ \A i \in 1..Len(jobs) : jobs[i] = job
<1>1. jobs \in [1..n -> Jobs] OBVIOUS
<1>2. jobs \in Seq(Jobs) /\ Len(jobs) = n
  <2> HIDE DEF Jobs
  <2> QED BY <1>1
<1> QED BY <1>1, <1>2

LEMMA FanHolds ==
  ASSUME BatchInv, MayBegin, NEW n \in 1..MaxRows, NEW input \in Prompts \cup {Nothing},
         NEW parent \in {1, Nothing}, NEW call \in RowCalls, NEW stateless \in BOOLEAN,
         Fan(n, input, parent, call, stateless)
  PROVE  BatchInv'
<1> DEFINE job == Job(input, Start(stateless, parent), parent)
           jobs == [i \in 1..n |-> job]
<1>0. IsTree(loom) /\ n \in Nat BY BatchRunsAssumption DEF BatchInv, TreesInv
<1>1. loom.active \in 1..Len(loom.parent) /\ Len(loom.parent) \in Nat /\ Len(loom.parent) >= 1
  BY <1>0 DEF IsTree, Looms
<1>2. /\ Begin("fan", jobs, call, stateless, FALSE)
      /\ UNCHANGED <<runtime, entry, resident, loom, row, flagged, stopCount>>
  BY DEF Fan
<1>3. job \in Jobs /\ job.start = Start(stateless, parent) /\ job.parent = parent
  BY <1>1 DEF Jobs, Job, Start, Places
<1>4. PlacedIn(loom, job.start) /\ PlacedIn(loom, job.parent) BY <1>1, <1>3 DEF PlacedIn, Start
<1>5. ~stateless => AnchorOf(job) # Nothing /\ (job.start # Nothing => job.parent = Nothing)
  BY <1>1, <1>3, BatchRunsAssumption DEF AnchorOf, Start
<1> HIDE DEF job
<1>6. jobs \in Seq(Jobs) /\ \A i \in 1..Len(jobs) : jobs[i] = job BY <1>0, <1>3, SameJobs
<1> HIDE DEF jobs
<1>7. ~stateless => IsFan(jobs) BY <1>3, <1>5, <1>6 DEF IsFan
<1>8. IsTree(loom') BY <1>0, <1>2
<1>9. \A i \in 1..Len(jobs) : PlacedIn(loom', jobs[i].start) /\ PlacedIn(loom', jobs[i].parent)
  BY <1>2, <1>4, <1>6
<1> QED BY <1>2, <1>6, <1>7, <1>8, <1>9, BegunHolds

LEMMA SweepHolds ==
  ASSUME BatchInv, MayBegin, NEW n \in 1..MaxRows, NEW input \in Prompts \cup {Nothing},
         NEW parent \in {1, Nothing}, NEW call \in RowCalls, NEW stateless \in BOOLEAN,
         stateless => parent = Nothing, Sweep(n, input, parent, call, stateless)
  PROVE  BatchInv'
<1> DEFINE at == IF parent = Nothing THEN loom.active ELSE parent
           shared == AddUserTurn(loom, at, input)
           opens == ~stateless /\ input # Nothing
           anchor == IF stateless THEN parent ELSE IF opens THEN shared.parent[shared.active] ELSE at
           job == Job(input, Nothing, anchor)
           jobs == [i \in 1..n |-> job]
<1>0. IsTree(loom) /\ n \in Nat BY BatchRunsAssumption DEF BatchInv, TreesInv
<1>1. loom.active \in 1..Len(loom.parent) /\ Len(loom.parent) \in Nat /\ Len(loom.parent) >= 1
  BY <1>0 DEF IsTree, Looms
<1>2. /\ loom' = (IF opens THEN shared ELSE loom)
      /\ Begin("fan", jobs, call, stateless, FALSE)
      /\ UNCHANGED <<runtime, entry, resident, row, flagged, stopCount>>
  BY DEF Sweep
<1>3. at \in 1..Len(loom.parent) BY <1>1
<1> HIDE DEF at
<1>4. opens => IsTree(shared) /\ Extends(loom, shared) /\ shared.parent[shared.active] = at
  <2> SUFFICES ASSUME opens
               PROVE  IsTree(shared) /\ Extends(loom, shared) /\ shared.parent[shared.active] = at
    OBVIOUS
  <2>1. input \in Prompts OBVIOUS
  <2> HIDE DEF shared
  <2>2. shared = AddUserTurn(loom, at, input) BY DEF shared
  <2>3. IsTree(shared) /\ Extends(loom, shared) /\ IsFirstTurn(shared, shared.active, at, input)
    BY <2>1, <2>2, <1>0, <1>3, UserTurnIsFirst
  <2> QED BY <2>3 DEF IsFirstTurn
<1>5. anchor = IF stateless THEN Nothing ELSE at BY <1>4
<1>6. IsTree(loom') /\ Extends(loom, loom')
  <2>1. Extends(loom, loom) BY <1>1 DEF Extends
  <2> QED BY <2>1, <1>0, <1>2, <1>4
<1> HIDE DEF shared, opens, anchor
<1>7. PlacedIn(loom', anchor) /\ anchor \in Places /\ (~stateless => anchor # Nothing)
  <2>1. Len(loom'.parent) \in Nat BY <1>6 DEF IsTree, Looms
  <2> QED BY <2>1, <1>1, <1>3, <1>5, <1>6, BatchRunsAssumption DEF PlacedIn, Places, Extends
<1>8. job \in Jobs /\ job.start = Nothing /\ job.parent = anchor
  BY <1>7 DEF Jobs, Job, Places
<1> HIDE DEF job
<1>9. jobs \in Seq(Jobs) /\ \A i \in 1..Len(jobs) : jobs[i] = job BY <1>0, <1>8, SameJobs
<1> HIDE DEF jobs
<1>10. ~stateless => IsFan(jobs) BY <1>7, <1>8, <1>9 DEF IsFan, AnchorOf
<1>11. \A i \in 1..Len(jobs) : PlacedIn(loom', jobs[i].start) /\ PlacedIn(loom', jobs[i].parent)
  BY <1>7, <1>8, <1>9 DEF PlacedIn
<1> QED BY <1>2, <1>6, <1>9, <1>10, <1>11, BegunHolds

LEMMA BatchHolds ==
  ASSUME BatchInv, MayBegin, NEW prompts \in SeqOf(Prompts, MaxRows) \ {<<>>},
         NEW call \in RowCalls, NEW stateless \in BOOLEAN, Batch(prompts, call, stateless)
  PROVE  BatchInv'
<1> DEFINE shared == common_prefix(prompts)
           caches == /\ Len(prompts) >= 2 /\ stateless
                     /\ call.needs \notin {"thinking", "hidden"} /\ ~SteersThePrefill(call)
                     /\ shared # Nothing
           jobs == [i \in DOMAIN prompts |-> Job(prompts[i], Nothing, Nothing)]
           static == runtime.static /\ call.steering = "none"
<1>1. /\ entry' = (IF caches THEN Prefilled(shared, static, call.budget) ELSE entry)
      /\ Begin("batch", jobs, call, stateless, caches)
      /\ UNCHANGED <<runtime, resident, loom, row, flagged, stopCount>>
  BY DEF Batch
<1>2. jobs \in Seq(Jobs) /\ \A i \in 1..Len(jobs) : jobs[i].start = Nothing /\ jobs[i].parent = Nothing
  <2>1. PICK m \in 0..MaxRows : prompts \in [1..m -> Prompts] BY DEF SeqOf
  <2>2. \A p \in Prompts : /\ Job(p, Nothing, Nothing) \in Jobs
                           /\ Job(p, Nothing, Nothing).start = Nothing
                           /\ Job(p, Nothing, Nothing).parent = Nothing
    BY DEF Job, Jobs, Places
  <2> HIDE DEF Jobs, Job
  <2>3. jobs \in [1..m -> Jobs] BY <2>1, <2>2
  <2>4. m \in Nat BY BatchRunsAssumption
  <2>5. jobs \in Seq(Jobs) /\ Len(jobs) = m
    <3> HIDE DEF jobs
    <3> QED BY <2>3, <2>4
  <2>6. \A i \in 1..m : jobs[i] = Job(prompts[i], Nothing, Nothing) /\ prompts[i] \in Prompts BY <2>1
  <2> HIDE DEF jobs
  <2> QED BY <2>2, <2>5, <2>6
<1>3. caches \in BOOLEAN /\ static \in BOOLEAN OBVIOUS
<1>4. caches => shared \in Seq(RowTokens) BY SharedIsASequence
<1> HIDE DEF shared, caches, jobs, static
<1>5. caches => entry' \in Entry /\ entry'.cache = Cache(entry'.prefix \o entry'.left)
  <2> SUFFICES ASSUME caches
               PROVE  entry' \in Entry /\ entry'.cache = Cache(entry'.prefix \o entry'.left)
    OBVIOUS
  <2>1. shared \in Seq(RowTokens) /\ Len(shared) \in Nat BY <1>4
  <2>2. Cache(shared) \in Caches BY <2>1 DEF Cache, Caches
  <2>3. call.budget \in Nat BY RoutesAreRoutes
  <2>4. (IF static THEN Len(shared) + call.budget ELSE 0) \in Nat BY <2>1, <2>3
  <2>5. entry' = [prefix |-> shared, cache |-> Cache(shared), left |-> <<>>, static |-> static,
                  max |-> IF static THEN Len(shared) + call.budget ELSE 0]
    BY <1>1 DEF Prefilled
  <2>6. shared \o <<>> = shared BY <2>1, ConcatEmptySeq
  <2> HIDE DEF Cache
  <2> QED BY <2>1, <2>2, <2>4, <2>5, <2>6, <1>3 DEF Entry
<1>6. ~caches => entry' = entry BY <1>1
<1>7. IsTree(loom') BY <1>1 DEF BatchInv, TreesInv
<1>8. \A i \in 1..Len(jobs) : PlacedIn(loom', jobs[i].start) /\ PlacedIn(loom', jobs[i].parent)
  BY <1>2 DEF PlacedIn
<1> QED BY <1>1, <1>2, <1>3, <1>5, <1>6, <1>7, <1>8, BegunHolds

LEMMA FastBatchHolds ==
  ASSUME BatchInv, MayBegin, NEW prompts, NEW call, NEW stateless,
         FastBatch(prompts, call, stateless)
  PROVE  BatchInv'
<1>1. /\ flagged' = FALSE /\ lateRows' = 0 /\ series = Nothing
      /\ UNCHANGED <<runtime, entry, resident, loom, series, row, stopCount>>
  BY DEF FastBatch, MayBegin
<1>2. RowShapes' BY <1>1 DEF BatchInv, RowShapes
<1>3. RowInv' BY <1>1 DEF BatchInv, RowInv, InLoop, Fed, CacheOf, InputSeen, HitInv, ResidentInv
<1>4. PrefixIsWhole' BY <1>1 DEF BatchInv, PrefixIsWhole, InLoop
<1>5. TreesInv' BY <1>1, TreesStay DEF BatchInv
<1>6. StopInv' BY <1>1 DEF BatchInv, StopInv
<1> QED BY <1>2, <1>3, <1>4, <1>5, <1>6 DEF BatchInv

(***************************************************************************)
(* The theorem.                                                            *)
(***************************************************************************)

LEMMA BatchStart == ASSUME BatchInit PROVE BatchInv
<1>1. /\ runtime \in Runtimes /\ entry = Nothing /\ resident = Nothing
      /\ loom = [parent |-> <<0>>, text |-> <<Nothing>>, active |-> 1]
      /\ series = Nothing /\ row = Nothing /\ flagged = FALSE /\ stopCount = 0 /\ lateRows = 0
  BY DEF BatchInit
<1>2. RowShapes BY <1>1 DEF RowShapes
<1>3. ~InLoop BY <1>1 DEF InLoop
<1>4. IsTree(loom)
  <2>1. <<0>> \in Seq(Nat) /\ Len(<<0>>) = 1 OBVIOUS
  <2>2. Nothing \in TurnTexts BY DEF TurnTexts
  <2>3. <<Nothing>> \in Seq(TurnTexts) /\ Len(<<Nothing>>) = 1 BY <2>2
  <2> QED BY <1>1, <2>1, <2>3 DEF IsTree, Looms
<1>5. TreesInv BY <1>1, <1>4 DEF TreesInv, JobsPlaced, StatefulFan
<1> QED BY <1>1, <1>2, <1>3, <1>5 DEF BatchInv, PrefixIsWhole, RowInv, StopInv

LEMMA BatchStep ==
  ASSUME BatchInv, [BatchNext]_batchVars PROVE BatchInv'
<1>1. ASSUME CallsSeries PROVE BatchInv'
  <2>1. MayBegin BY <1>1 DEF CallsSeries
  <2>2. PICK call \in RowCalls, stateless \in BOOLEAN :
          \/ \E n \in 1..MaxRows, input \in Prompts \cup {Nothing}, parent \in {1, Nothing} :
               /\ stateless => parent = Nothing
               /\ Fan(n, input, parent, call, stateless) \/ Sweep(n, input, parent, call, stateless)
          \/ \E prompts \in SeqOf(Prompts, MaxRows) \ {<<>>} :
               Batch(prompts, call, stateless) \/ FastBatch(prompts, call, stateless)
    BY <1>1 DEF CallsSeries
  <2>3. ASSUME NEW n \in 1..MaxRows, NEW input \in Prompts \cup {Nothing}, NEW parent \in {1, Nothing},
               Fan(n, input, parent, call, stateless)
        PROVE  BatchInv'
    BY <2>1, <2>3, FanHolds
  <2>4. ASSUME NEW n \in 1..MaxRows, NEW input \in Prompts \cup {Nothing}, NEW parent \in {1, Nothing},
               stateless => parent = Nothing, Sweep(n, input, parent, call, stateless)
        PROVE  BatchInv'
    BY <2>1, <2>4, SweepHolds
  <2>5. ASSUME NEW prompts \in SeqOf(Prompts, MaxRows) \ {<<>>}, Batch(prompts, call, stateless)
        PROVE  BatchInv'
    BY <2>1, <2>5, BatchHolds
  <2>6. ASSUME NEW prompts, FastBatch(prompts, call, stateless) PROVE BatchInv'
    BY <2>1, <2>6, FastBatchHolds
  <2> QED BY <2>2, <2>3, <2>4, <2>5, <2>6
<1>2. ASSUME NEW allocates \in BOOLEAN, BeginRow(allocates) PROVE BatchInv' BY <1>2, BeginRowHolds
<1>3. ASSUME ForwardRow PROVE BatchInv' BY <1>3, ForwardRowHolds
<1>4. ASSUME EndRow PROVE BatchInv' BY <1>4, EndRowHolds
<1>5. ASSUME RowRaises PROVE BatchInv' BY <1>5, RowRaisesHolds
<1>6. ASSUME NEW target \in Nodes, Collect(target) PROVE BatchInv' BY <1>6, CollectHolds
<1>7. ASSUME NextRow PROVE BatchInv' BY <1>7, NextRowHolds
<1>8. ASSUME EndSeries PROVE BatchInv' BY <1>8, EndSeriesHolds
<1>9. ASSUME RequestStop PROVE BatchInv' BY <1>9, RequestStopHolds
<1>10. ASSUME NEW p \in Cacheable, NEW static \in BOOLEAN, PrefillPrefix(p, static) PROVE BatchInv'
  BY <1>10, PrefillHolds
<1>11. ASSUME UNCHANGED batchVars PROVE BatchInv'
  <2>1. UNCHANGED <<runtime, entry, resident, loom, series, row, flagged, stopCount, lateRows>>
    BY <1>11 DEF batchVars
  <2>2. RowShapes' BY <2>1 DEF BatchInv, RowShapes
  <2>3. RowInv' BY <2>1 DEF BatchInv, RowInv, InLoop, Fed, CacheOf, InputSeen, HitInv, ResidentInv
  <2>4. PrefixIsWhole' BY <2>1 DEF BatchInv, PrefixIsWhole, InLoop
  <2>5. TreesInv' BY <2>1, TreesStay DEF BatchInv
  <2>6. StopInv' BY <2>1 DEF BatchInv, StopInv
  <2> QED BY <2>2, <2>3, <2>4, <2>5, <2>6 DEF BatchInv
<1> QED
  BY <1>1, <1>2, <1>3, <1>4, <1>5, <1>6, <1>7, <1>8, <1>9, <1>10, <1>11 DEF BatchNext

\* A cache with room for the prompt and the budget has room for what was fed.
LEMMA WithinTheCache ==
  ASSUME NEW a \in Nat, NEW g \in Nat, NEW b \in Nat, NEW m \in Nat, g <= b, a + b <= m
  PROVE a + (g - 1) <= m
  OBVIOUS

LEMMA RowsAreApart == ASSUME BatchInv PROVE RowsKeepApart
<1>0. RowShapes /\ RowInv /\ TreesInv /\ StopInv /\ PrefixIsWhole BY DEF BatchInv
<1>1. ASSUME InLoop, row.generated > 0 PROVE ForwardsSeeTheirInput
  <2> DEFINE n == row.generated - 1
  <2>1. row \in Rows /\ series \in Series BY <1>0, <1>1 DEF RowShapes, InLoop
  <2>2. row.ids \in Seq(RowTokens) /\ Len(row.ids) \in Nat /\ n \in Nat /\ row.generated \in Nat
        /\ series.route.budget \in Nat
    BY <2>1, <1>1 DEF Rows, Series, Routes
  <2>3. CacheOf = Cache(InputSeen \o GeneratedBy(n)) BY <1>0, <1>1 DEF RowInv
  <2>4. CacheOf.kv = InputSeen \o GeneratedBy(n) BY <2>3 DEF Cache
  <2>5. (row.on = "prefix" => entry.left = <<>>) => Len(CacheOf.kv) = Len(row.ids) + n
    BY <1>0, <1>1, <2>2, <2>4, GeneratedGrows, InputIsTokens
  <2>6. row.generated <= series.route.budget BY <1>0, <1>1 DEF RowInv
  <2>9. Len(row.ids) \in Nat /\ row.generated \in Nat /\ series.route.budget \in Nat BY <2>2
  <2>7. row.on = "resident" => Len(resident.cache.kv) <= resident.max
    <3> SUFFICES ASSUME row.on = "resident" PROVE Len(resident.cache.kv) <= resident.max OBVIOUS
    <3>1. ResidentInv BY <1>0, <1>1 DEF RowInv
    <3>2. Len(row.ids) + series.route.budget <= resident.max /\ resident.max \in Nat
      BY <3>1 DEF ResidentInv, Resident
    <3>3. CacheOf = resident.cache BY DEF CacheOf
    <3>4. Len(resident.cache.kv) = Len(row.ids) + n BY <2>5, <3>3
    <3>5. Len(row.ids) + n <= resident.max BY <2>9, <2>6, <3>2, WithinTheCache
    <3> QED BY <3>4, <3>5
  <2>8. row.on = "prefix" /\ entry.static /\ entry.left = <<>> => Len(entry.cache.kv) <= entry.max
    <3> SUFFICES ASSUME row.on = "prefix", entry.static, entry.left = <<>>
                 PROVE  Len(entry.cache.kv) <= entry.max
      OBVIOUS
    <3>1. HitInv BY <1>0, <1>1 DEF RowInv
    <3>2. Len(row.ids) + series.route.budget <= entry.max /\ entry.max \in Nat
      BY <3>1 DEF HitInv, Entry
    <3>3. CacheOf = entry.cache BY DEF CacheOf
    <3>4. Len(entry.cache.kv) = Len(row.ids) + n BY <2>5, <3>3
    <3>5. Len(row.ids) + n <= entry.max BY <2>9, <2>6, <3>2, WithinTheCache
    <3> QED BY <3>4, <3>5
  <2> QED BY <2>3, <2>7, <2>8 DEF ForwardsSeeTheirInput, GeneratedBy
<1>2. ForwardsSeeTheirInput
  <2>1. CASE InLoop /\ row.generated > 0 BY <2>1, <1>1
  <2>2. CASE ~(InLoop /\ row.generated > 0) BY <2>2 DEF ForwardsSeeTheirInput
  <2> QED BY <2>1, <2>2
<1>3. StopEndsTheSeries BY <1>0 DEF StopInv, StopEndsTheSeries
<1>4. RowsAreSiblings
  <2> SUFFICES ASSUME StatefulFan, NEW i \in DOMAIN series.done, NEW j \in DOMAIN series.done
               PROVE  /\ loom.text[series.done[i]] = Reply
                      /\ loom.parent[series.done[i]] = loom.parent[series.done[j]]
                      /\ i # j => series.done[i] # series.done[j]
    BY DEF RowsAreSiblings, StatefulFan
  <2>1. PICK job \in Jobs : FanInv(job) BY <1>0 DEF TreesInv
  <2>2. series.done \in Seq(Places) BY <1>0 DEF RowShapes, StatefulFan, Series
  <2>3. i \in 1..Len(series.done) /\ j \in 1..Len(series.done) BY <2>2, LenProperties
  <2>4. HangsUnder(loom, series.done[i], job) /\ HangsUnder(loom, series.done[j], job)
    BY <2>1, <2>3 DEF FanInv
  <2>5. loom.parent[series.done[i]] = loom.parent[series.done[j]]
    <3>1. CASE job.input = Nothing BY <3>1, <2>4 DEF HangsUnder
    <3>2. CASE job.input # Nothing
      <4>1. /\ IsFirstTurn(loom, loom.parent[series.done[i]], AnchorOf(job), job.input)
            /\ IsFirstTurn(loom, loom.parent[series.done[j]], AnchorOf(job), job.input)
        BY <3>2, <2>4 DEF HangsUnder
      <4>2. IsTree(loom) BY <1>0 DEF TreesInv
      <4> QED BY <4>1, <4>2, FirstTurnIsOne
    <3> QED BY <3>1, <3>2
  <2>6. i # j => series.done[i] # series.done[j] BY <2>1, <2>3 DEF FanInv
  <2> QED BY <2>4, <2>5, <2>6 DEF HangsUnder
<1> QED BY <1>0, <1>2, <1>3, <1>4
    DEF RowsKeepApart, RowsDecodeOnTheirOwn, SeriesKeepsItsShape

\* The inductive invariant of series and their caches.
THEOREM BatchInvariant == BatchSpec => []BatchInv
<1>1. BatchInit => BatchInv BY BatchStart
<1>2. BatchInv /\ [BatchNext]_batchVars => BatchInv' BY BatchStep
<1> QED BY <1>1, <1>2, PTL DEF BatchSpec

\* The rows of a fan, batch or sweep decode as if alone and hang side by side, for
\* any prompts, budgets, windows and numbers of rows, under a stop, callbacks that
\* navigate and rows that raise; only the first row on a prefix after one that
\* raised on it sees more than its input, and what that row left ends with it.
THEOREM RowsStayApart == BatchSpec => []RowsKeepApart
<1>1. BatchInv => RowsKeepApart BY RowsAreApart
<1> QED BY <1>1, BatchInvariant, PTL
=============================================================================
