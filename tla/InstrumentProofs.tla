--------------------------- MODULE InstrumentProofs ---------------------------
(***************************************************************************)
(* What the SAE instrument promises, for any threads, names, releases and  *)
(* bounds, the lens instrument for any lenses, addresses and bounds, and   *)
(* the read plane for any consumers, bands and depths.                     *)
(*                                                                         *)
(*   SaeInvariant             the inductive invariant of the instrument    *)
(*   OneDictionary            all that is derived is of the resident one   *)
(*   DictionaryIsRestored     a restart brings back what was resident      *)
(*   LensInvariant            the inductive invariant of the lens          *)
(*   OneLens                  what is of a lens is used with that lens     *)
(*   ReadsInvariant           what a capture holds after each forward      *)
(*   ReadsFollowTheirForward  reads are of the forward they are named by   *)
(***************************************************************************)
EXTENDS SaeInstrument, LensInstrument, ReadPlane, FiniteSetTheorems, WellFoundedInduction, TLAPS

\* The constants, one by one.
LEMMA SaeConstants ==
  /\ Provider \cap Local = {} /\ None \notin SaeThreads /\ None \notin Names
  /\ None \notin Residencies
  /\ \A r \in Releases : LayersOf[r] # {} /\ WidthOf[r] \subseteq Features
  /\ \A r \in Local : \E l \in LayersOf[r] : LayersOf[r] = {l}
BY SaeAssumption DEF SaeAssumption

---------------------------------------------------------------------------
(* Feature metadata.                                                       *)

\* A metadata mapping, by its domain and its rows.
LEMMA MetaShape ==
  ASSUME NEW m
  PROVE  m \in Metas <=> /\ DOMAIN m \subseteq Features
                         /\ m = [f \in DOMAIN m |-> m[f]]
                         /\ \A f \in DOMAIN m : m[f] \in Rows
<1>1. ASSUME m \in Metas
      PROVE  /\ DOMAIN m \subseteq Features /\ m = [f \in DOMAIN m |-> m[f]]
             /\ \A f \in DOMAIN m : m[f] \in Rows
  <2>1. PICK got \in SUBSET Features : m \in [got -> Rows]
    BY <1>1 DEF Metas
  <2> QED
    BY <2>1
<1>2. ASSUME DOMAIN m \subseteq Features, m = [f \in DOMAIN m |-> m[f]],
             \A f \in DOMAIN m : m[f] \in Rows
      PROVE  m \in Metas
  <2>1. m \in [DOMAIN m -> Rows] /\ DOMAIN m \in SUBSET Features
    BY <1>2
  <2> HIDE DEF Rows
  <2> QED
    BY <2>1 DEF Metas
<1> QED
  BY <1>1, <1>2

\* A dictionary's row is a row.
LEMMA RowShape ==
  ASSUME NEW unit \in (Releases \X HookLayers) \cup {None}, NEW checked \in BOOLEAN
  PROVE  Row(unit, checked) \in Rows /\ Row(unit, checked).unit = unit
BY DEF Row, Rows

\* Rows laid over rows: the new units, and the old ones elsewhere.
LEMMA OverRows ==
  ASSUME NEW g \in Metas, NEW m \in Metas
  PROVE  /\ Over(g, m) \in Metas
         /\ UnitsIn(Over(g, m)) \subseteq UnitsIn(g) \cup UnitsIn(m)
         /\ \A f : f \notin DOMAIN g => UnitIn(Over(g, m), f) = UnitIn(m, f)
<1> DEFINE o == Over(g, m)
<1>1. /\ DOMAIN g \subseteq Features /\ \A f \in DOMAIN g : g[f] \in Rows
      /\ DOMAIN m \subseteq Features /\ \A f \in DOMAIN m : m[f] \in Rows
  BY MetaShape
<1>2. /\ DOMAIN o = DOMAIN g \cup DOMAIN m
      /\ \A f \in DOMAIN o : o[f] = IF f \in DOMAIN g THEN g[f] ELSE m[f]
      /\ o = [f \in DOMAIN o |-> o[f]]
  BY DEF Over
<1> HIDE DEF o
<1>3. o \in Metas
  <2>1. \A f \in DOMAIN o : o[f] \in Rows
    BY <1>1, <1>2
  <2> QED
    BY <1>1, <1>2, <2>1, MetaShape
<1>4. UnitsIn(o) \subseteq UnitsIn(g) \cup UnitsIn(m)
  BY <1>2 DEF UnitsIn
<1>5. \A f : f \notin DOMAIN g => UnitIn(o, f) = UnitIn(m, f)
  BY <1>2 DEF UnitIn
<1> QED
  BY <1>3, <1>4, <1>5 DEF o

\* What is saved of rows has their units.
LEMMA SavedRows ==
  ASSUME NEW m \in Metas
  PROVE  Saved(m) \in Metas /\ UnitsIn(Saved(m)) = UnitsIn(m)
<1> DEFINE s == Saved(m)
<1>1. DOMAIN m \subseteq Features /\ \A f \in DOMAIN m : m[f] \in Rows
  BY MetaShape
<1>2. DOMAIN s = DOMAIN m /\ s = [f \in DOMAIN s |-> s[f]]
  BY DEF Saved
<1>3. \A f \in DOMAIN m : s[f] \in Rows /\ s[f].unit = m[f].unit
  <2> SUFFICES ASSUME NEW f \in DOMAIN m
               PROVE  s[f] \in Rows /\ s[f].unit = m[f].unit
    OBVIOUS
  <2>1. m[f].unit \in (Releases \X HookLayers) \cup {None}
    BY <1>1 DEF Rows
  <2>2. s[f] = Row(m[f].unit, FALSE)
    BY DEF Saved
  <2> QED
    BY <2>1, <2>2, RowShape
<1> HIDE DEF s
<1>4. s \in Metas
  BY <1>1, <1>2, <1>3, MetaShape
<1>5. UnitsIn(s) = UnitsIn(m)
  BY <1>2, <1>3 DEF UnitsIn
<1> QED
  BY <1>4, <1>5 DEF s

\* The dictionary of a residency.
LEMMA ResidencyShape ==
  ASSUME NEW res \in Residencies
  PROVE  /\ res.n \in Nat /\ res.release \in Releases /\ res.layer \in HookLayers
         /\ res.meta \in Metas /\ DictionaryOf(res) \in Releases \X HookLayers
         /\ \A meta \in Metas :
              LET new == [res EXCEPT !.meta = meta]
              IN /\ new \in Residencies /\ new.n = res.n /\ new.release = res.release
                 /\ new.layer = res.layer /\ new.meta = meta
                 /\ DictionaryOf(new) = DictionaryOf(res)
<1> USE DEF Residencies
<1>1. /\ res.n \in Nat /\ res.release \in Releases /\ res.layer \in HookLayers
      /\ res.meta \in Metas
  OBVIOUS
<1>2. DictionaryOf(res) \in Releases \X HookLayers
  BY <1>1 DEF DictionaryOf, Dictionary
<1>3. ASSUME NEW meta \in Metas
      PROVE  LET new == [res EXCEPT !.meta = meta]
             IN /\ new \in Residencies /\ new.n = res.n /\ new.release = res.release
                /\ new.layer = res.layer /\ new.meta = meta
  OBVIOUS
<1> QED
  BY <1>1, <1>2, <1>3 DEF DictionaryOf

\* neuronpedia answers for features that were asked for, with units of that dictionary.
LEMMA AnswersAre ==
  ASSUME NEW res \in Residencies, NEW wanted \in SUBSET Features,
         NEW fetched \in Answers(res, wanted)
  PROVE  /\ fetched \in Metas /\ DOMAIN fetched \subseteq wanted
         /\ UnitsIn(fetched) \subseteq {None, DictionaryOf(res)}
<1> DEFINE R == {Row(None, TRUE), Row(DictionaryOf(res), TRUE)}
<1>1. DictionaryOf(res) \in Releases \X HookLayers
  BY ResidencyShape
<1>2. \A row \in R : row \in Rows /\ row.unit \in {None, DictionaryOf(res)}
  BY <1>1, RowShape
<1>3. PICK got \in SUBSET wanted : fetched \in [got -> R]
  BY DEF Answers
<1> HIDE DEF R
<1>4. \A f \in DOMAIN fetched : fetched[f] \in R
  BY <1>3
<1>5. fetched \in Metas
  BY <1>2, <1>3, <1>4, MetaShape
<1> QED
  BY <1>2, <1>3, <1>4, <1>5 DEF UnitsIn

---------------------------------------------------------------------------
(* The steps.                                                              *)

\* A thread's operation changes, and no other's.
LEMMA BecomeDoes ==
  ASSUME OpShape, NEW t \in SaeThreads, NEW o, Become(t, o)
  PROVE  /\ op'[t] = o /\ \A u \in SaeThreads \ {t} : op'[u] = op[u]
         /\ op' = [u \in SaeThreads |-> op'[u]]
BY DEF OpShape, Become

\* What a fetch brings home.
LEMMA FetchedDoes ==
  ASSUME OpShape, CarriedInv, NEW t \in SaeThreads, Fetched(t)
  PROVE  \E fetched \in Metas :
    /\ UnitsIn(fetched) \subseteq {None, DictionaryOf(op[t].res)}
    /\ IF Current(op[t].res) /\ fetched # <<>>
       THEN LET meta == Over(fetched, resident.meta)
            IN /\ resident' = [resident EXCEPT !.meta = meta]
               /\ source' = [source EXCEPT !.features =
                    Put(@, resident.release, [layer |-> resident.layer, rows |-> Saved(meta)])]
               /\ _on_fetched(fetched)
       ELSE UNCHANGED <<resident, source, probes, digests>>
    /\ IF op[t].name = None \/ ~Current(op[t].res) THEN op'[t] = Idle
       ELSE \E entry \in {op[t].entry, None, DictionaryOf(op[t].res)} :
              op'[t] = [op[t] EXCEPT !.at = "attach", !.entry = entry]
<1>1. op[t].at = "fetch"
  BY DEF Fetched, At
<1>2. op[t].res \in Residencies /\ op[t].wanted \in SUBSET Features
  BY <1>1 DEF CarriedInv, Carried
<1>3. PICK fetched \in Answers(op[t].res, op[t].wanted) :
       /\ IF Lands(op[t].res) /\ fetched # <<>>
          THEN LET meta == Over(fetched, resident.meta)
               IN /\ resident' = [resident EXCEPT !.meta = meta]
                  /\ source' = [source EXCEPT !.features =
                       Put(@, resident.release, [layer |-> resident.layer, rows |-> Saved(meta)])]
                  /\ _on_fetched(fetched)
          ELSE UNCHANGED <<resident, source, probes, digests>>
       /\ IF op[t].name = None \/ ~Current(op[t].res) THEN End(t)
          ELSE Become(t, [op[t] EXCEPT !.at = "attach", !.entry =
                 IF op[t].feature \in DOMAIN fetched THEN fetched[op[t].feature].unit ELSE @])
  BY DEF Fetched
<1>4. fetched \in Metas /\ UnitsIn(fetched) \subseteq {None, DictionaryOf(op[t].res)}
  BY <1>2, <1>3, AnswersAre
<1>5. CASE op[t].name = None \/ ~Current(op[t].res)
  <2>1. op'[t] = Idle
    BY <1>3, <1>5, BecomeDoes DEF End
  <2> QED
    BY <1>3, <1>4, <1>5, <2>1 DEF Lands
<1>6. CASE ~(op[t].name = None \/ ~Current(op[t].res))
  <2> DEFINE entry == IF op[t].feature \in DOMAIN fetched THEN fetched[op[t].feature].unit
                      ELSE op[t].entry
  <2>1. Become(t, [op[t] EXCEPT !.at = "attach", !.entry = entry])
    BY <1>3, <1>6
  <2>2. entry \in {op[t].entry, None, DictionaryOf(op[t].res)}
    BY <1>4 DEF UnitsIn
  <2> HIDE DEF entry
  <2>3. op'[t] = [op[t] EXCEPT !.at = "attach", !.entry = entry]
    BY <2>1, BecomeDoes
  <2> QED
    BY <1>3, <1>4, <1>6, <2>2, <2>3 DEF Lands
<1> QED
  BY <1>5, <1>6

\* Others keep their operation in a fetch too.
LEMMA FetchedOps ==
  ASSUME OpShape, NEW t \in SaeThreads, Fetched(t)
  PROVE  /\ \A u \in SaeThreads \ {t} : op'[u] = op[u]
         /\ op' = [u \in SaeThreads |-> op'[u]]
         /\ UNCHANGED <<loaded, live, directions, run, gpu, begun, elsewhere>>
BY BecomeDoes DEF Fetched, End

\* A fetch takes a thread to its attach, or ends.
LEMMA FetchedPlace ==
  ASSUME OpShape, CarriedInv, NEW t \in SaeThreads, Fetched(t)
  PROVE  op[t].at = "fetch" /\ op'[t].at \in {"idle", "attach"}
<1>1. op[t].at = "fetch"
  BY DEF Fetched, At
<1>2. PICK entry : op'[t] = Idle \/ op'[t] = [op[t] EXCEPT !.at = "attach", !.entry = entry]
  BY FetchedDoes
<1>3. CASE op'[t] = Idle
  BY <1>1, <1>3 DEF Idle
<1>4. CASE op'[t] = [op[t] EXCEPT !.at = "attach", !.entry = entry]
  <2>1. IsOp(op[t])
    BY DEF OpShape
  <2> QED
    BY <1>1, <1>4, <2>1 DEF IsOp
<1> QED
  BY <1>2, <1>3, <1>4

\* What attach and fetch_meta take with them.
LEMMA AskDoes ==
  ASSUME OpShape, ResidentShape, UnitsAreOfTheirDictionary, NEW t \in SaeThreads, Ask(t)
  PROVE  /\ \A u \in SaeThreads \ {t} : op'[u] = op[u]
         /\ op[t] = Idle /\ resident # None
         /\ op'[t].at \in {"fetch", "attach"} /\ op'[t].res = resident
         /\ op'[t].wanted \subseteq Features
         /\ op'[t].at = "attach" \/ op'[t].name # None =>
              /\ op'[t].layer = resident.layer /\ op'[t].feature \in WidthOf[resident.release]
              /\ op'[t].entry \in {None, DictionaryOf(resident)}
         /\ UNCHANGED <<Residency, probes, live, digests, run, gpu>>
<1>1. op[t] = Idle /\ resident # None /\ UNCHANGED <<Residency, probes, live, digests, run, gpu>>
  BY DEF Ask, Begin
<1>2. WidthOf[resident.release] \subseteq Features
  <2>1. resident.release \in Releases
    BY <1>1, ResidencyShape DEF ResidentShape
  <2> QED
    BY <2>1, SaeConstants
<1>3. CASE \E f \in WidthOf[resident.release], name \in Names :
          Become(t, [Idle EXCEPT !.res = resident, !.name = name, !.feature = f,
                       !.layer = resident.layer,
                       !.wanted = {g \in {f} : _needs_fetch(resident.meta, g)},
                       !.entry = UnitIn(resident.meta, f),
                       !.at = IF _needs_fetch(resident.meta, f) THEN "fetch" ELSE "attach"])
  <2>1. PICK f \in WidthOf[resident.release], name \in Names :
          Become(t, [Idle EXCEPT !.res = resident, !.name = name, !.feature = f,
                       !.layer = resident.layer,
                       !.wanted = {g \in {f} : _needs_fetch(resident.meta, g)},
                       !.entry = UnitIn(resident.meta, f),
                       !.at = IF _needs_fetch(resident.meta, f) THEN "fetch" ELSE "attach"])
    BY <1>3
  <2> DEFINE wanted == {g \in {f} : _needs_fetch(resident.meta, g)}
             unit == UnitIn(resident.meta, f)
             at == IF _needs_fetch(resident.meta, f) THEN "fetch" ELSE "attach"
             layer == resident.layer
  <2>2. wanted \subseteq Features /\ at \in {"fetch", "attach"}
    BY <1>2
  <2>3. unit \in {None, DictionaryOf(resident)}
    BY <1>1 DEF UnitIn, UnitsIn, UnitsAreOfTheirDictionary
  <2> HIDE DEF wanted, unit, at, layer
  <2>4. Become(t, [Idle EXCEPT !.res = resident, !.name = name, !.feature = f, !.layer = layer,
                     !.wanted = wanted, !.entry = unit, !.at = at])
    BY <2>1 DEF wanted, unit, at, layer
  <2>5. /\ op'[t] = [Idle EXCEPT !.res = resident, !.name = name, !.feature = f,
                       !.layer = layer, !.wanted = wanted, !.entry = unit, !.at = at]
        /\ \A u \in SaeThreads \ {t} : op'[u] = op[u]
    BY <2>4, BecomeDoes
  <2>6. /\ op'[t].at = at /\ op'[t].res = resident /\ op'[t].wanted = wanted
        /\ op'[t].layer = layer /\ op'[t].feature = f /\ op'[t].entry = unit
    BY <2>5 DEF Idle
  <2> QED
    BY <1>1, <2>2, <2>3, <2>5, <2>6 DEF layer
<1>4. CASE \E wanted \in SUBSET {f \in WidthOf[resident.release] : _needs_fetch(resident.meta, f)} :
          /\ wanted # {}
          /\ Become(t, [Idle EXCEPT !.res = resident, !.wanted = wanted, !.at = "fetch"])
  <2>1. PICK wanted \in SUBSET WidthOf[resident.release] :
          Become(t, [Idle EXCEPT !.res = resident, !.wanted = wanted, !.at = "fetch"])
    BY <1>4
  <2>2. /\ op'[t] = [Idle EXCEPT !.res = resident, !.wanted = wanted, !.at = "fetch"]
        /\ \A u \in SaeThreads \ {t} : op'[u] = op[u]
    BY <2>1, BecomeDoes
  <2>3. /\ op'[t].at = "fetch" /\ op'[t].res = resident /\ op'[t].wanted = wanted
        /\ op'[t].name = None
    BY <2>2 DEF Idle
  <2> QED
    BY <1>1, <1>2, <2>1, <2>2, <2>3
<1> QED
  BY <1>3, <1>4 DEF Ask

\* A session that closed, and the new one: everyone is idle but the thread that
\* restores the selection.
LEMMA RestartDoes ==
  ASSUME OpShape, NEW t \in SaeThreads, Restart(t)
  PROVE  /\ op[t] = Idle /\ gpu = None /\ run = None
         /\ \A u \in SaeThreads : u # t => op'[u] = Idle
         /\ resident' = None /\ probes' = <<>> /\ live' = None /\ directions' = <<>>
         /\ digests' = <<>> /\ UNCHANGED <<loaded, source, run, elsewhere>>
         /\ \/ op'[t] = Idle /\ gpu' = None
            \/ /\ source.active \in DOMAIN source.binding \cup source.trained
               /\ gpu' = t /\ op'[t].at = "load"
               /\ op'[t].release = source.active
               /\ op'[t].layer \in RestoreLayers(source.active)
               /\ op'[t].expect # None =>
                    /\ resident # None /\ ~elsewhere
                    /\ op'[t].expect = DictionaryOf(resident)
<1>1. /\ op[t] = Idle /\ gpu = None /\ run = None
      /\ resident' = None /\ probes' = <<>> /\ live' = None /\ directions' = <<>>
      /\ digests' = <<>> /\ UNCHANGED <<loaded, source, run, elsewhere>>
  BY DEF Restart
<1>2. CASE op' = [u \in SaeThreads |-> Idle] /\ gpu' = None
  BY <1>1, <1>2
<1>3. ASSUME source.active \in DOMAIN source.binding \cup source.trained, gpu' = t,
             NEW l \in RestoreLayers(source.active),
             op' = [u \in SaeThreads |-> IF u = t
                      THEN [Idle EXCEPT !.at = "load", !.release = source.active, !.layer = l,
                              !.expect = IF resident = None \/ elsewhere THEN None
                                         ELSE DictionaryOf(resident)]
                      ELSE Idle]
      PROVE  /\ \A u \in SaeThreads : u # t => op'[u] = Idle
             /\ op'[t].at = "load" /\ op'[t].release = source.active /\ op'[t].layer = l
             /\ op'[t].expect # None => /\ resident # None /\ ~elsewhere
                                        /\ op'[t].expect = DictionaryOf(resident)
  <2> DEFINE e == IF resident = None \/ elsewhere THEN None ELSE DictionaryOf(resident)
             r == source.active
  <2>1. \A u \in SaeThreads : u # t => op'[u] = Idle
    BY <1>3
  <2>2. op'[t] = [Idle EXCEPT !.at = "load", !.release = r, !.layer = l, !.expect = e]
    BY <1>3
  <2>3. e # None => resident # None /\ ~elsewhere /\ e = DictionaryOf(resident)
    OBVIOUS
  <2> HIDE DEF e, r
  <2>4. op'[t].at = "load" /\ op'[t].release = r /\ op'[t].layer = l /\ op'[t].expect = e
    BY <2>2 DEF Idle
  <2> QED
    BY <2>1, <2>3, <2>4 DEF r
<1>4. \/ op' = [u \in SaeThreads |-> Idle] /\ gpu' = None
      \/ /\ source.active \in DOMAIN source.binding \cup source.trained /\ gpu' = t
         /\ \E l \in RestoreLayers(source.active) :
               op' = [u \in SaeThreads |-> IF u = t
                        THEN [Idle EXCEPT !.at = "load", !.release = source.active, !.layer = l,
                                !.expect = IF resident = None \/ elsewhere THEN None
                                           ELSE DictionaryOf(resident)]
                        ELSE Idle]
  BY Zenon DEF Restart
<1> QED
  BY <1>1, <1>2, <1>3, <1>4

---------------------------------------------------------------------------
(* The parts of the invariant, one lemma each.                             *)

\* Every step keeps the shape of the operations.
LEMMA OpShapeStep ==
  ASSUME OpShape, CarriedInv, [SaeNext]_saeVars
  PROVE  OpShape'
<1> USE SaeConstants
<1>1. ASSUME OtherProcess
      PROVE  OpShape'
  BY <1>1 DEF OtherProcess, Instrument, OpShape, IsOp, Idle
<1>2. ASSUME NEW t \in SaeThreads, LoadBegin(t)
      PROVE  OpShape'
  BY <1>2, ZenonT(60) DEF LoadBegin, Begin, Enter, Become, Residency, OpShape, IsOp,
     Idle
<1>3. ASSUME NEW t \in SaeThreads, LoadFails(t)
      PROVE  OpShape'
  BY <1>3 DEF LoadFails, Leave, End, Become, At, Residency, OpShape, IsOp,
     Idle
<1>4. ASSUME NEW t \in SaeThreads, LoadPublish(t)
      PROVE  OpShape'
  BY <1>4 DEF LoadPublish, Become, At, Instrument, OpShape, IsOp, Idle
<1>5. ASSUME NEW t \in SaeThreads, LoadSwap(t)
      PROVE  OpShape'
  <2>1. op'[t] = Idle /\ \A u \in SaeThreads \ {t} : op'[u] = op[u]
    BY <1>5, BecomeDoes DEF LoadSwap, End
  <2>2. op' = [u \in SaeThreads |-> op'[u]] /\ gpu' = None /\ loaded' = loaded + 1
    BY <1>5 DEF LoadSwap, Leave, End, Become, OpShape
  <2>3. IsOp(Idle)
    BY DEF IsOp, Idle
  <2> QED
    BY <2>1, <2>2, <2>3 DEF OpShape
<1>6. ASSUME NEW t \in SaeThreads, Unload(t)
      PROVE  OpShape'
  BY <1>6 DEF Unload, Begin, _on_swap, OpShape, IsOp, Idle
<1>7. ASSUME NEW t \in SaeThreads, TrainBegin(t)
      PROVE  OpShape'
  BY <1>7, ZenonT(60) DEF TrainBegin, Begin, Enter, Become, Residency, OpShape,
     IsOp,
     Idle
<1>8. ASSUME NEW t \in SaeThreads, TrainSaves(t)
      PROVE  OpShape'
  BY <1>8 DEF TrainSaves, Leave, Become, At, Instrument, OpShape, IsOp, Idle
<1>9. ASSUME NEW t \in SaeThreads, TrainFails(t)
      PROVE  OpShape'
  BY <1>9 DEF TrainFails, Leave, End, Become, At, Residency, OpShape, IsOp,
     Idle
<1>10. ASSUME NEW t \in SaeThreads, TrainLoads(t)
      PROVE  OpShape'
  BY <1>10 DEF TrainLoads, Enter, Become, At, Residency, OpShape, IsOp, Idle
<1>11. ASSUME NEW t \in SaeThreads, TrainRefused(t)
      PROVE  OpShape'
  BY <1>11 DEF TrainRefused, End, Become, At, Residency, OpShape, IsOp, Idle
<1>12. ASSUME NEW t \in SaeThreads, Restart(t)
      PROVE  OpShape'
  <2>1. gpu' \in {t, None} /\ loaded' = loaded
    BY <1>12 DEF Restart
  <2>2. \/ op' = [u \in SaeThreads |-> Idle]
        \/ \E l : op' = [u \in SaeThreads |-> IF u = t
              THEN [Idle EXCEPT !.at = "load", !.release = source.active, !.layer = l,
                      !.expect = IF resident = None \/ elsewhere THEN None ELSE DictionaryOf(resident)]
              ELSE Idle]
    BY <1>12, Zenon DEF Restart
  <2>3. IsOp(Idle)
    BY DEF IsOp, Idle
  <2>4. op' = [u \in SaeThreads |-> op'[u]]
    BY <2>2
  <2>5. \A u \in SaeThreads : u # t => op'[u] = Idle
    BY <2>2
  <2>6. IsOp(op'[t])
    <3> DEFINE e == IF resident = None \/ elsewhere THEN None ELSE DictionaryOf(resident)
               r == source.active
    <3>1. \/ op'[t] = Idle
          \/ \E l : op'[t] = [Idle EXCEPT !.at = "load", !.release = r, !.layer = l, !.expect = e]
      BY <2>2
    <3> HIDE DEF e, r
    <3> QED
      BY <3>1 DEF IsOp, Idle
  <2> QED
    BY <2>1, <2>3, <2>4, <2>5, <2>6 DEF OpShape
<1>13. ASSUME NEW t \in SaeThreads, Ask(t)
      PROVE  OpShape'
  BY <1>13, ZenonT(60) DEF Ask, Begin, Become, Residency, OpShape, IsOp, Idle
<1>14. ASSUME NEW t \in SaeThreads, Fetched(t)
      PROVE  OpShape'
  <2>1. PICK entry : op'[t] \in {Idle, [op[t] EXCEPT !.at = "attach", !.entry = entry]}
    BY <1>14, FetchedDoes
  <2>2. IsOp(op'[t])
    BY <2>1 DEF OpShape, IsOp, Idle
  <2> QED
    BY <1>14, <2>2, FetchedOps DEF OpShape
<1>15. ASSUME NEW t \in SaeThreads, Attach(t)
      PROVE  OpShape'
  BY <1>15 DEF Attach, Become, At, Residency, OpShape, IsOp, Idle
<1>16. ASSUME NEW t \in SaeThreads, AttachRefused(t)
      PROVE  OpShape'
  BY <1>16 DEF AttachRefused, End, Become, At, Residency, OpShape, IsOp, Idle
<1>17. ASSUME NEW t \in SaeThreads, try_detach(t)
      PROVE  OpShape'
  BY <1>17, ZenonT(60) DEF try_detach, Begin, Become, Residency, OpShape, IsOp, Idle
<1>18. ASSUME NEW t \in SaeThreads, Changed(t)
      PROVE  OpShape'
  BY <1>18 DEF Changed, End, Become, At, Residency, OpShape, IsOp, Idle
<1>19. ASSUME NEW t \in SaeThreads, HashRead(t)
      PROVE  OpShape'
  BY <1>19, ZenonT(60) DEF HashRead, Begin, Become, Residency, OpShape, IsOp, Idle
<1>20. ASSUME NEW t \in SaeThreads, HashStore(t)
      PROVE  OpShape'
  BY <1>20 DEF HashStore, End, Become, At, Residency, OpShape, IsOp, Idle
<1>21. ASSUME NEW t \in SaeThreads, enable_live(t)
      PROVE  OpShape'
  BY <1>21 DEF enable_live, Begin, Become, Residency, OpShape, IsOp, Idle
<1>22. ASSUME NEW t \in SaeThreads, EnabledLive(t)
      PROVE  OpShape'
  BY <1>22 DEF EnabledLive, End, Become, At, Residency, OpShape, IsOp, Idle
<1>23. ASSUME NEW t \in SaeThreads, disable_live(t)
      PROVE  OpShape'
  BY <1>23 DEF disable_live, Residency, OpShape, IsOp, Idle
<1>24. ASSUME NEW t \in SaeThreads, Generate(t)
      PROVE  OpShape'
  BY <1>24 DEF Generate, Begin, Enter, Become, Residency, OpShape, IsOp, Idle
<1>25. ASSUME NEW t \in SaeThreads, register_direction(t)
      PROVE  OpShape'
  BY <1>25 DEF register_direction, At, OpShape, IsOp, Idle
<1>26. ASSUME NEW t \in SaeThreads, Plan(t)
      PROVE  OpShape'
  BY <1>26 DEF Plan, Become, At, Residency, OpShape, IsOp, Idle
<1>27. ASSUME NEW t \in SaeThreads, bind(t)
      PROVE  OpShape'
  BY <1>27 DEF bind, Become, At, Residency, OpShape, IsOp, Idle
<1>28. ASSUME NEW t \in SaeThreads, Measure(t)
      PROVE  OpShape'
  BY <1>28 DEF Measure, At, Residency, OpShape, IsOp, Idle
<1>29. ASSUME NEW t \in SaeThreads, close_run(t)
      PROVE  OpShape'
  BY <1>29 DEF close_run, Leave, End, Become, At, Residency, OpShape, IsOp,
     Idle
<1>30. CASE UNCHANGED saeVars
  BY <1>30 DEF saeVars, OpShape, IsOp, Idle
<1> QED
  BY <1>1, <1>2, <1>3, <1>4, <1>5, <1>6, <1>7, <1>8, <1>9, <1>10, <1>11,
     <1>12, <1>13, <1>14, <1>15, <1>16, <1>17, <1>18, <1>19, <1>20, <1>21,
     <1>22, <1>23, <1>24, <1>25, <1>26, <1>27, <1>28, <1>29, <1>30 DEF SaeNext

\* Every step keeps the shape of the residency.
LEMMA ResidentShapeStep ==
  ASSUME OpShape, ResidentShape, CarriedInv, [SaeNext]_saeVars
  PROVE  ResidentShape'
<1>1. ASSUME OtherProcess
      PROVE  ResidentShape'
  BY <1>1 DEF OtherProcess, Instrument, ResidentShape, Residency
<1>2. ASSUME NEW t \in SaeThreads, LoadBegin(t)
      PROVE  ResidentShape'
  BY <1>2 DEF LoadBegin, Begin, Enter, Become, Residency, ResidentShape,
     Residency
<1>3. ASSUME NEW t \in SaeThreads, LoadFails(t)
      PROVE  ResidentShape'
  BY <1>3 DEF LoadFails, Leave, End, Become, At, Residency, ResidentShape,
     Residency
<1>4. ASSUME NEW t \in SaeThreads, LoadPublish(t)
      PROVE  ResidentShape'
  BY <1>4 DEF LoadPublish, Become, At, Instrument, ResidentShape, Residency
<1>5. ASSUME NEW t \in SaeThreads, LoadSwap(t)
      PROVE  ResidentShape'
  <2>1. /\ op[t].release \in Releases /\ op[t].layer \in LayersOf[op[t].release]
        /\ op[t].entry \in Metas /\ loaded \in Nat
    BY <1>5 DEF LoadSwap, At, CarriedInv, Carried, OpShape
  <2>2. op[t].layer \in HookLayers
    BY <2>1 DEF HookLayers
  <2>3. /\ loaded' = loaded + 1
        /\ resident' = [n |-> loaded + 1, release |-> op[t].release, layer |-> op[t].layer,
                        meta |-> op[t].entry]
    BY <1>5 DEF LoadSwap
  <2> QED
    BY <2>1, <2>2, <2>3 DEF ResidentShape, Residencies
<1>6. ASSUME NEW t \in SaeThreads, Unload(t)
      PROVE  ResidentShape'
  BY <1>6 DEF Unload, Begin, _on_swap, ResidentShape, Residency
<1>7. ASSUME NEW t \in SaeThreads, TrainBegin(t)
      PROVE  ResidentShape'
  BY <1>7 DEF TrainBegin, Begin, Enter, Become, Residency, ResidentShape,
     Residency
<1>8. ASSUME NEW t \in SaeThreads, TrainSaves(t)
      PROVE  ResidentShape'
  BY <1>8 DEF TrainSaves, Leave, Become, At, Instrument, ResidentShape,
     Residency
<1>9. ASSUME NEW t \in SaeThreads, TrainFails(t)
      PROVE  ResidentShape'
  BY <1>9 DEF TrainFails, Leave, End, Become, At, Residency, ResidentShape,
     Residency
<1>10. ASSUME NEW t \in SaeThreads, TrainLoads(t)
      PROVE  ResidentShape'
  BY <1>10 DEF TrainLoads, Enter, Become, At, Residency, ResidentShape,
     Residency
<1>11. ASSUME NEW t \in SaeThreads, TrainRefused(t)
      PROVE  ResidentShape'
  BY <1>11 DEF TrainRefused, End, Become, At, Residency, ResidentShape,
     Residency
<1>12. ASSUME NEW t \in SaeThreads, Restart(t)
      PROVE  ResidentShape'
  BY <1>12 DEF Restart, ResidentShape, Residency
<1>13. ASSUME NEW t \in SaeThreads, Ask(t)
      PROVE  ResidentShape'
  BY <1>13 DEF Ask, Begin, Become, Residency, ResidentShape, Residency
<1>14. ASSUME NEW t \in SaeThreads, Fetched(t)
      PROVE  ResidentShape'
  <2>1. PICK fetched \in Metas :
          IF Current(op[t].res) /\ fetched # <<>>
          THEN resident' = [resident EXCEPT !.meta = Over(fetched, resident.meta)]
          ELSE UNCHANGED <<resident, source, probes, digests>>
    BY <1>14, FetchedDoes
  <2>2. CASE Current(op[t].res) /\ fetched # <<>>
    <3>1. resident \in Residencies
      BY <2>2 DEF Current, ResidentShape
    <3>2. Over(fetched, resident.meta) \in Metas
      BY <3>1, ResidencyShape, OverRows
    <3> DEFINE meta == Over(fetched, resident.meta)
    <3>3. resident' = [resident EXCEPT !.meta = meta] /\ loaded' = loaded
      BY <1>14, <2>1, <2>2, FetchedOps
    <3>4. /\ resident' \in Residencies /\ resident'.n = resident.n
          /\ resident'.layer = resident.layer /\ resident'.release = resident.release
      BY <3>1, <3>2, <3>3, ResidencyShape
    <3> QED
      BY <2>2, <3>3, <3>4 DEF ResidentShape, Current
  <2> QED
    BY <1>14, <2>1, <2>2, FetchedOps DEF ResidentShape
<1>15. ASSUME NEW t \in SaeThreads, Attach(t)
      PROVE  ResidentShape'
  BY <1>15 DEF Attach, Become, At, Residency, ResidentShape, Residency
<1>16. ASSUME NEW t \in SaeThreads, AttachRefused(t)
      PROVE  ResidentShape'
  BY <1>16 DEF AttachRefused, End, Become, At, Residency, ResidentShape,
     Residency
<1>17. ASSUME NEW t \in SaeThreads, try_detach(t)
      PROVE  ResidentShape'
  BY <1>17 DEF try_detach, Begin, Become, Residency, ResidentShape, Residency
<1>18. ASSUME NEW t \in SaeThreads, Changed(t)
      PROVE  ResidentShape'
  BY <1>18 DEF Changed, End, Become, At, Residency, ResidentShape, Residency
<1>19. ASSUME NEW t \in SaeThreads, HashRead(t)
      PROVE  ResidentShape'
  BY <1>19 DEF HashRead, Begin, Become, Residency, ResidentShape, Residency
<1>20. ASSUME NEW t \in SaeThreads, HashStore(t)
      PROVE  ResidentShape'
  BY <1>20 DEF HashStore, End, Become, At, Residency, ResidentShape, Residency
<1>21. ASSUME NEW t \in SaeThreads, enable_live(t)
      PROVE  ResidentShape'
  BY <1>21 DEF enable_live, Begin, Become, Residency, ResidentShape, Residency
<1>22. ASSUME NEW t \in SaeThreads, EnabledLive(t)
      PROVE  ResidentShape'
  BY <1>22 DEF EnabledLive, End, Become, At, Residency, ResidentShape,
     Residency
<1>23. ASSUME NEW t \in SaeThreads, disable_live(t)
      PROVE  ResidentShape'
  BY <1>23 DEF disable_live, Residency, ResidentShape, Residency
<1>24. ASSUME NEW t \in SaeThreads, Generate(t)
      PROVE  ResidentShape'
  BY <1>24 DEF Generate, Begin, Enter, Become, Residency, ResidentShape,
     Residency
<1>25. ASSUME NEW t \in SaeThreads, register_direction(t)
      PROVE  ResidentShape'
  BY <1>25 DEF register_direction, At, ResidentShape, Residency
<1>26. ASSUME NEW t \in SaeThreads, Plan(t)
      PROVE  ResidentShape'
  BY <1>26 DEF Plan, Become, At, Residency, ResidentShape, Residency
<1>27. ASSUME NEW t \in SaeThreads, bind(t)
      PROVE  ResidentShape'
  BY <1>27 DEF bind, Become, At, Residency, ResidentShape, Residency
<1>28. ASSUME NEW t \in SaeThreads, Measure(t)
      PROVE  ResidentShape'
  BY <1>28 DEF Measure, At, Residency, ResidentShape, Residency
<1>29. ASSUME NEW t \in SaeThreads, close_run(t)
      PROVE  ResidentShape'
  BY <1>29 DEF close_run, Leave, End, Become, At, Residency, ResidentShape,
     Residency
<1>30. CASE UNCHANGED saeVars
  BY <1>30 DEF saeVars, ResidentShape, Residency
<1> QED
  BY <1>1, <1>2, <1>3, <1>4, <1>5, <1>6, <1>7, <1>8, <1>9, <1>10, <1>11,
     <1>12, <1>13, <1>14, <1>15, <1>16, <1>17, <1>18, <1>19, <1>20, <1>21,
     <1>22, <1>23, <1>24, <1>25, <1>26, <1>27, <1>28, <1>29, <1>30 DEF SaeNext

\* Every step keeps the shape of what is on disk.
LEMMA SourceShapeStep ==
  ASSUME OpShape, ResidentShape, SourceShape, CarriedInv, [SaeNext]_saeVars
  PROVE  SourceShape'
<1> USE SaeConstants
<1>1. ASSUME OtherProcess
      PROVE  SourceShape'
  <2> DEFINE keep(f, r) == Without(f, {r})
  <2>1. \A f, r : DOMAIN keep(f, r) \subseteq DOMAIN f /\ \A x \in DOMAIN keep(f, r) : keep(f, r)[x] = f[x]
    BY DEF Without, Restrict
  <2>2. PICK r : \/ source' = [source EXCEPT !.active = r]
                \/ source' = [active |-> IF source.active = r THEN None ELSE source.active,
                               binding |-> keep(source.binding, r), features |-> keep(source.features, r),
                               trained |-> source.trained \ {r}]
    BY <1>1 DEF OtherProcess
  <2> HIDE DEF keep
  <2>3. CASE source' = [source EXCEPT !.active = r]
    BY <2>3 DEF SourceShape, IsSource
  <2>4. CASE source' = [active |-> IF source.active = r THEN None ELSE source.active,
                        binding |-> keep(source.binding, r), features |-> keep(source.features, r),
                        trained |-> source.trained \ {r}]
    BY <2>1, <2>4 DEF SourceShape, IsSource
  <2> QED
    BY <2>2, <2>3, <2>4
<1>2. ASSUME NEW t \in SaeThreads, LoadBegin(t)
      PROVE  SourceShape'
  BY <1>2 DEF LoadBegin, Begin, Enter, Become, Residency, SourceShape,
     IsSource, Residency
<1>3. ASSUME NEW t \in SaeThreads, LoadFails(t)
      PROVE  SourceShape'
  BY <1>3 DEF LoadFails, Leave, End, Become, At, Residency, SourceShape,
     IsSource, Residency
<1>4. ASSUME NEW t \in SaeThreads, LoadPublish(t)
      PROVE  SourceShape'
  <2> DEFINE r == op[t].release
             l == op[t].layer
             b == IF r \in Local THEN source.binding ELSE Put(source.binding, r, l)
  <2>1. r \in Releases /\ l \in LayersOf[r]
    BY <1>4 DEF LoadPublish, At, CarriedInv, Carried
  <2>2. \A x \in DOMAIN b : x \in Provider /\ b[x] \in LayersOf[x]
    BY <2>1 DEF SourceShape, Put, Releases
  <2>3. source' = [source EXCEPT !.active = r, !.binding = b]
    BY <1>4 DEF LoadPublish
  <2> HIDE DEF r, l, b
  <2> QED
    BY <2>2, <2>3 DEF SourceShape, IsSource
<1>5. ASSUME NEW t \in SaeThreads, LoadSwap(t)
      PROVE  SourceShape'
  BY <1>5 DEF LoadSwap, Leave, End, Become, At, _on_swap, SourceShape,
     IsSource, Residency
<1>6. ASSUME NEW t \in SaeThreads, Unload(t)
      PROVE  SourceShape'
  BY <1>6 DEF Unload, Begin, _on_swap, SourceShape, IsSource, Residency
<1>7. ASSUME NEW t \in SaeThreads, TrainBegin(t)
      PROVE  SourceShape'
  BY <1>7 DEF TrainBegin, Begin, Enter, Become, Residency, SourceShape,
     IsSource, Residency
<1>8. ASSUME NEW t \in SaeThreads, TrainSaves(t)
      PROVE  SourceShape'
  <2> DEFINE s == source.trained \cup {op[t].release}
  <2>1. source' = [source EXCEPT !.trained = s]
    BY <1>8 DEF TrainSaves
  <2>2. s \subseteq Local
    BY <1>8 DEF TrainSaves, At, CarriedInv, Carried, SourceShape
  <2> HIDE DEF s
  <2> QED
    BY <2>1, <2>2 DEF SourceShape, IsSource
<1>9. ASSUME NEW t \in SaeThreads, TrainFails(t)
      PROVE  SourceShape'
  BY <1>9 DEF TrainFails, Leave, End, Become, At, Residency, SourceShape,
     IsSource, Residency
<1>10. ASSUME NEW t \in SaeThreads, TrainLoads(t)
      PROVE  SourceShape'
  BY <1>10 DEF TrainLoads, Enter, Become, At, Residency, SourceShape,
     IsSource, Residency
<1>11. ASSUME NEW t \in SaeThreads, TrainRefused(t)
      PROVE  SourceShape'
  BY <1>11 DEF TrainRefused, End, Become, At, Residency, SourceShape,
     IsSource, Residency
<1>12. ASSUME NEW t \in SaeThreads, Restart(t)
      PROVE  SourceShape'
  BY <1>12 DEF Restart, SourceShape, IsSource, Residency
<1>13. ASSUME NEW t \in SaeThreads, Ask(t)
      PROVE  SourceShape'
  BY <1>13 DEF Ask, Begin, Become, Residency, SourceShape, IsSource, Residency
<1>14. ASSUME NEW t \in SaeThreads, Fetched(t)
      PROVE  SourceShape'
  <2>1. PICK fetched \in Metas :
          IF Current(op[t].res) /\ fetched # <<>>
          THEN source' = [source EXCEPT !.features = Put(@, resident.release,
                 [layer |-> resident.layer, rows |-> Saved(Over(fetched, resident.meta))])]
          ELSE UNCHANGED <<resident, source, probes, digests>>
    BY <1>14, FetchedDoes
  <2>2. CASE Current(op[t].res) /\ fetched # <<>>
    <3> DEFINE kept == Saved(Over(fetched, resident.meta))
               new == [layer |-> resident.layer, rows |-> kept]
               f == Put(source.features, resident.release, new)
    <3>1. resident \in Residencies
      BY <2>2 DEF Current, ResidentShape
    <3>2. kept \in Metas
      BY <3>1, ResidencyShape, OverRows, SavedRows
    <3>3. source' = [source EXCEPT !.features = f]
      BY <2>1, <2>2
    <3> HIDE DEF kept
    <3>4. \A r \in DOMAIN f : f[r].rows \in Metas
      BY <3>2 DEF SourceShape, Put
    <3> HIDE DEF f
    <3> QED
      BY <3>3, <3>4 DEF SourceShape, IsSource
  <2> QED
    BY <2>1, <2>2 DEF SourceShape, IsSource
<1>15. ASSUME NEW t \in SaeThreads, Attach(t)
      PROVE  SourceShape'
  BY <1>15 DEF Attach, Become, At, Residency, SourceShape, IsSource, Residency
<1>16. ASSUME NEW t \in SaeThreads, AttachRefused(t)
      PROVE  SourceShape'
  BY <1>16 DEF AttachRefused, End, Become, At, Residency, SourceShape,
     IsSource, Residency
<1>17. ASSUME NEW t \in SaeThreads, try_detach(t)
      PROVE  SourceShape'
  BY <1>17 DEF try_detach, Begin, Become, Residency, SourceShape, IsSource,
     Residency
<1>18. ASSUME NEW t \in SaeThreads, Changed(t)
      PROVE  SourceShape'
  BY <1>18 DEF Changed, End, Become, At, Residency, SourceShape, IsSource,
     Residency
<1>19. ASSUME NEW t \in SaeThreads, HashRead(t)
      PROVE  SourceShape'
  BY <1>19 DEF HashRead, Begin, Become, Residency, SourceShape, IsSource,
     Residency
<1>20. ASSUME NEW t \in SaeThreads, HashStore(t)
      PROVE  SourceShape'
  BY <1>20 DEF HashStore, End, Become, At, Residency, SourceShape, IsSource,
     Residency
<1>21. ASSUME NEW t \in SaeThreads, enable_live(t)
      PROVE  SourceShape'
  BY <1>21 DEF enable_live, Begin, Become, Residency, SourceShape, IsSource,
     Residency
<1>22. ASSUME NEW t \in SaeThreads, EnabledLive(t)
      PROVE  SourceShape'
  BY <1>22 DEF EnabledLive, End, Become, At, Residency, SourceShape, IsSource,
     Residency
<1>23. ASSUME NEW t \in SaeThreads, disable_live(t)
      PROVE  SourceShape'
  BY <1>23 DEF disable_live, Residency, SourceShape, IsSource, Residency
<1>24. ASSUME NEW t \in SaeThreads, Generate(t)
      PROVE  SourceShape'
  BY <1>24 DEF Generate, Begin, Enter, Become, Residency, SourceShape,
     IsSource, Residency
<1>25. ASSUME NEW t \in SaeThreads, register_direction(t)
      PROVE  SourceShape'
  BY <1>25 DEF register_direction, At, SourceShape, IsSource, Residency
<1>26. ASSUME NEW t \in SaeThreads, Plan(t)
      PROVE  SourceShape'
  BY <1>26 DEF Plan, Become, At, Residency, SourceShape, IsSource, Residency
<1>27. ASSUME NEW t \in SaeThreads, bind(t)
      PROVE  SourceShape'
  BY <1>27 DEF bind, Become, At, Residency, SourceShape, IsSource, Residency
<1>28. ASSUME NEW t \in SaeThreads, Measure(t)
      PROVE  SourceShape'
  BY <1>28 DEF Measure, At, Residency, SourceShape, IsSource, Residency
<1>29. ASSUME NEW t \in SaeThreads, close_run(t)
      PROVE  SourceShape'
  BY <1>29 DEF close_run, Leave, End, Become, At, Residency, SourceShape,
     IsSource, Residency
<1>30. CASE UNCHANGED saeVars
  BY <1>30 DEF saeVars, SourceShape, IsSource, Residency
<1> QED
  BY <1>1, <1>2, <1>3, <1>4, <1>5, <1>6, <1>7, <1>8, <1>9, <1>10, <1>11,
     <1>12, <1>13, <1>14, <1>15, <1>16, <1>17, <1>18, <1>19, <1>20, <1>21,
     <1>22, <1>23, <1>24, <1>25, <1>26, <1>27, <1>28, <1>29, <1>30 DEF SaeNext

\* Every step keeps the shape of the probes.
LEMMA SpecShapeStep ==
  ASSUME OpShape, SpecShape, CarriedInv, [SaeNext]_saeVars
  PROVE  SpecShape'
<1>1. ASSUME OtherProcess
      PROVE  SpecShape'
  BY <1>1 DEF OtherProcess, Instrument, SpecShape, IsSpec, Residency,
     Instrument, Without, Restrict, _on_swap
<1>2. ASSUME NEW t \in SaeThreads, LoadBegin(t)
      PROVE  SpecShape'
  BY <1>2 DEF LoadBegin, Begin, Enter, Become, Residency, SpecShape, IsSpec,
     Residency, Instrument, Without, Restrict, _on_swap
<1>3. ASSUME NEW t \in SaeThreads, LoadFails(t)
      PROVE  SpecShape'
  BY <1>3 DEF LoadFails, Leave, End, Become, At, Residency, SpecShape, IsSpec,
     Residency, Instrument, Without, Restrict, _on_swap
<1>4. ASSUME NEW t \in SaeThreads, LoadPublish(t)
      PROVE  SpecShape'
  BY <1>4 DEF LoadPublish, Become, At, Instrument, SpecShape, IsSpec,
     Residency, Instrument, Without, Restrict, _on_swap
<1>5. ASSUME NEW t \in SaeThreads, LoadSwap(t)
      PROVE  SpecShape'
  BY <1>5 DEF LoadSwap, Leave, End, Become, At, _on_swap, SpecShape, IsSpec,
     Residency, Instrument, Without, Restrict, _on_swap
<1>6. ASSUME NEW t \in SaeThreads, Unload(t)
      PROVE  SpecShape'
  BY <1>6 DEF Unload, Begin, _on_swap, SpecShape, IsSpec, Residency,
     Instrument, Without, Restrict, _on_swap
<1>7. ASSUME NEW t \in SaeThreads, TrainBegin(t)
      PROVE  SpecShape'
  BY <1>7 DEF TrainBegin, Begin, Enter, Become, Residency, SpecShape, IsSpec,
     Residency, Instrument, Without, Restrict, _on_swap
<1>8. ASSUME NEW t \in SaeThreads, TrainSaves(t)
      PROVE  SpecShape'
  BY <1>8 DEF TrainSaves, Leave, Become, At, Instrument, SpecShape, IsSpec,
     Residency, Instrument, Without, Restrict, _on_swap
<1>9. ASSUME NEW t \in SaeThreads, TrainFails(t)
      PROVE  SpecShape'
  BY <1>9 DEF TrainFails, Leave, End, Become, At, Residency, SpecShape,
     IsSpec, Residency, Instrument, Without, Restrict, _on_swap
<1>10. ASSUME NEW t \in SaeThreads, TrainLoads(t)
      PROVE  SpecShape'
  BY <1>10 DEF TrainLoads, Enter, Become, At, Residency, SpecShape, IsSpec,
     Residency, Instrument, Without, Restrict, _on_swap
<1>11. ASSUME NEW t \in SaeThreads, TrainRefused(t)
      PROVE  SpecShape'
  BY <1>11 DEF TrainRefused, End, Become, At, Residency, SpecShape, IsSpec,
     Residency, Instrument, Without, Restrict, _on_swap
<1>12. ASSUME NEW t \in SaeThreads, Restart(t)
      PROVE  SpecShape'
  <2>1. probes' = <<>>
    BY <1>12 DEF Restart
  <2> QED
    BY <2>1 DEF SpecShape
<1>13. ASSUME NEW t \in SaeThreads, Ask(t)
      PROVE  SpecShape'
  BY <1>13 DEF Ask, Begin, Become, Residency, SpecShape, IsSpec, Residency,
     Instrument, Without, Restrict, _on_swap
<1>14. ASSUME NEW t \in SaeThreads, Fetched(t)
      PROVE  SpecShape'
  <2>1. PICK fetched : _on_fetched(fetched) \/ UNCHANGED probes
    BY <1>14, FetchedDoes
  <2> QED
    BY <2>1 DEF SpecShape, IsSpec, _on_fetched
<1>15. ASSUME NEW t \in SaeThreads, Attach(t)
      PROVE  SpecShape'
  <2> DEFINE spec == [feature |-> op[t].feature, layer |-> op[t].layer, max_act |-> op[t].entry,
                      n |-> op[t].res.n, late |-> ~Current(op[t].res)]
  <2>1. IsSpec(spec)
    BY DEF IsSpec
  <2>2. probes' = Put(probes, op[t].name, spec)
    BY <1>15 DEF Attach
  <2> HIDE DEF spec
  <2> QED
    BY <2>1, <2>2 DEF SpecShape, Put
<1>16. ASSUME NEW t \in SaeThreads, AttachRefused(t)
      PROVE  SpecShape'
  BY <1>16 DEF AttachRefused, End, Become, At, Residency, SpecShape, IsSpec,
     Residency, Instrument, Without, Restrict, _on_swap
<1>17. ASSUME NEW t \in SaeThreads, try_detach(t)
      PROVE  SpecShape'
  BY <1>17 DEF try_detach, Begin, Become, Residency, SpecShape, IsSpec,
     Residency, Instrument, Without, Restrict, _on_swap
<1>18. ASSUME NEW t \in SaeThreads, Changed(t)
      PROVE  SpecShape'
  BY <1>18 DEF Changed, End, Become, At, Residency, SpecShape, IsSpec,
     Residency, Instrument, Without, Restrict, _on_swap
<1>19. ASSUME NEW t \in SaeThreads, HashRead(t)
      PROVE  SpecShape'
  BY <1>19 DEF HashRead, Begin, Become, Residency, SpecShape, IsSpec,
     Residency, Instrument, Without, Restrict, _on_swap
<1>20. ASSUME NEW t \in SaeThreads, HashStore(t)
      PROVE  SpecShape'
  BY <1>20 DEF HashStore, End, Become, At, Residency, SpecShape, IsSpec,
     Residency, Instrument, Without, Restrict, _on_swap
<1>21. ASSUME NEW t \in SaeThreads, enable_live(t)
      PROVE  SpecShape'
  BY <1>21 DEF enable_live, Begin, Become, Residency, SpecShape, IsSpec,
     Residency, Instrument, Without, Restrict, _on_swap
<1>22. ASSUME NEW t \in SaeThreads, EnabledLive(t)
      PROVE  SpecShape'
  BY <1>22 DEF EnabledLive, End, Become, At, Residency, SpecShape, IsSpec,
     Residency, Instrument, Without, Restrict, _on_swap
<1>23. ASSUME NEW t \in SaeThreads, disable_live(t)
      PROVE  SpecShape'
  BY <1>23 DEF disable_live, Residency, SpecShape, IsSpec, Residency,
     Instrument, Without, Restrict, _on_swap
<1>24. ASSUME NEW t \in SaeThreads, Generate(t)
      PROVE  SpecShape'
  BY <1>24 DEF Generate, Begin, Enter, Become, Residency, SpecShape, IsSpec,
     Residency, Instrument, Without, Restrict, _on_swap
<1>25. ASSUME NEW t \in SaeThreads, register_direction(t)
      PROVE  SpecShape'
  BY <1>25 DEF register_direction, At, SpecShape, IsSpec, Residency,
     Instrument, Without, Restrict, _on_swap
<1>26. ASSUME NEW t \in SaeThreads, Plan(t)
      PROVE  SpecShape'
  BY <1>26 DEF Plan, Become, At, Residency, SpecShape, IsSpec, Residency,
     Instrument, Without, Restrict, _on_swap
<1>27. ASSUME NEW t \in SaeThreads, bind(t)
      PROVE  SpecShape'
  BY <1>27 DEF bind, Become, At, Residency, SpecShape, IsSpec, Residency,
     Instrument, Without, Restrict, _on_swap
<1>28. ASSUME NEW t \in SaeThreads, Measure(t)
      PROVE  SpecShape'
  BY <1>28 DEF Measure, At, Residency, SpecShape, IsSpec, Residency,
     Instrument, Without, Restrict, _on_swap
<1>29. ASSUME NEW t \in SaeThreads, close_run(t)
      PROVE  SpecShape'
  BY <1>29 DEF close_run, Leave, End, Become, At, Residency, SpecShape,
     IsSpec, Residency, Instrument, Without, Restrict, _on_swap
<1>30. CASE UNCHANGED saeVars
  BY <1>30 DEF saeVars, SpecShape, IsSpec, Residency, Instrument, Without,
     Restrict, _on_swap
<1> QED
  BY <1>1, <1>2, <1>3, <1>4, <1>5, <1>6, <1>7, <1>8, <1>9, <1>10, <1>11,
     <1>12, <1>13, <1>14, <1>15, <1>16, <1>17, <1>18, <1>19, <1>20, <1>21,
     <1>22, <1>23, <1>24, <1>25, <1>26, <1>27, <1>28, <1>29, <1>30 DEF SaeNext

\* One thread is in the exclusive section, and a run is in flight only there.
LEMMA SectionStep ==
  ASSUME OpShape, ResidentShape, SectionInv, CarriedInv, UnitsAreOfTheirDictionary,
          [SaeNext]_saeVars
  PROVE  SectionInv'
<1> USE SaeConstants DEF InSection
<1>1. ASSUME OtherProcess
      PROVE  SectionInv'
  BY <1>1 DEF OtherProcess, Instrument, SectionInv, OpShape, IsOp, Idle, At
<1>2. ASSUME NEW t \in SaeThreads, LoadBegin(t)
      PROVE  SectionInv'
  BY <1>2 DEF LoadBegin, Begin, Enter, Become, Residency, SectionInv, OpShape,
     IsOp, Idle, At
<1>3. ASSUME NEW t \in SaeThreads, LoadFails(t)
      PROVE  SectionInv'
  BY <1>3 DEF LoadFails, Leave, End, Become, At, Residency, SectionInv,
     OpShape, IsOp, Idle, At
<1>4. ASSUME NEW t \in SaeThreads, LoadPublish(t)
      PROVE  SectionInv'
  BY <1>4 DEF LoadPublish, Become, At, Instrument, SectionInv, OpShape, IsOp,
     Idle, At
<1>5. ASSUME NEW t \in SaeThreads, LoadSwap(t)
      PROVE  SectionInv'
  BY <1>5 DEF LoadSwap, Leave, End, Become, At, _on_swap, SectionInv, OpShape,
     IsOp, Idle, At
<1>6. ASSUME NEW t \in SaeThreads, Unload(t)
      PROVE  SectionInv'
  BY <1>6 DEF Unload, Begin, _on_swap, SectionInv, OpShape, IsOp, Idle, At
<1>7. ASSUME NEW t \in SaeThreads, TrainBegin(t)
      PROVE  SectionInv'
  BY <1>7 DEF TrainBegin, Begin, Enter, Become, Residency, SectionInv,
     OpShape, IsOp, Idle, At
<1>8. ASSUME NEW t \in SaeThreads, TrainSaves(t)
      PROVE  SectionInv'
  BY <1>8 DEF TrainSaves, Leave, Become, At, Instrument, SectionInv, OpShape,
     IsOp, Idle, At
<1>9. ASSUME NEW t \in SaeThreads, TrainFails(t)
      PROVE  SectionInv'
  BY <1>9 DEF TrainFails, Leave, End, Become, At, Residency, SectionInv,
     OpShape, IsOp, Idle, At
<1>10. ASSUME NEW t \in SaeThreads, TrainLoads(t)
      PROVE  SectionInv'
  BY <1>10 DEF TrainLoads, Enter, Become, At, Residency, SectionInv, OpShape,
     IsOp, Idle, At
<1>11. ASSUME NEW t \in SaeThreads, TrainRefused(t)
      PROVE  SectionInv'
  BY <1>11 DEF TrainRefused, End, Become, At, Residency, SectionInv, OpShape,
     IsOp, Idle, At
<1>12. ASSUME NEW t \in SaeThreads, Restart(t)
      PROVE  SectionInv'
  BY <1>12, RestartDoes DEF SectionInv, At, Idle
<1>13. ASSUME NEW t \in SaeThreads, Ask(t)
      PROVE  SectionInv'
  BY <1>13, AskDoes DEF SectionInv, At, Idle
<1>14. ASSUME NEW t \in SaeThreads, Fetched(t)
      PROVE  SectionInv'
  BY <1>14, FetchedPlace, FetchedOps DEF SectionInv, At
<1>15. ASSUME NEW t \in SaeThreads, Attach(t)
      PROVE  SectionInv'
  BY <1>15 DEF Attach, Become, At, Residency, SectionInv, OpShape, IsOp, Idle,
     At
<1>16. ASSUME NEW t \in SaeThreads, AttachRefused(t)
      PROVE  SectionInv'
  BY <1>16 DEF AttachRefused, End, Become, At, Residency, SectionInv, OpShape,
     IsOp, Idle, At
<1>17. ASSUME NEW t \in SaeThreads, try_detach(t)
      PROVE  SectionInv'
  BY <1>17 DEF try_detach, Begin, Become, Residency, SectionInv, OpShape,
     IsOp, Idle, At
<1>18. ASSUME NEW t \in SaeThreads, Changed(t)
      PROVE  SectionInv'
  BY <1>18 DEF Changed, End, Become, At, Residency, SectionInv, OpShape, IsOp,
     Idle, At
<1>19. ASSUME NEW t \in SaeThreads, HashRead(t)
      PROVE  SectionInv'
  BY <1>19 DEF HashRead, Begin, Become, Residency, SectionInv, OpShape, IsOp,
     Idle, At
<1>20. ASSUME NEW t \in SaeThreads, HashStore(t)
      PROVE  SectionInv'
  BY <1>20 DEF HashStore, End, Become, At, Residency, SectionInv, OpShape,
     IsOp, Idle, At
<1>21. ASSUME NEW t \in SaeThreads, enable_live(t)
      PROVE  SectionInv'
  BY <1>21 DEF enable_live, Begin, Become, Residency, SectionInv, OpShape,
     IsOp, Idle, At
<1>22. ASSUME NEW t \in SaeThreads, EnabledLive(t)
      PROVE  SectionInv'
  BY <1>22 DEF EnabledLive, End, Become, At, Residency, SectionInv, OpShape,
     IsOp, Idle, At
<1>23. ASSUME NEW t \in SaeThreads, disable_live(t)
      PROVE  SectionInv'
  BY <1>23 DEF disable_live, Residency, SectionInv, OpShape, IsOp, Idle, At
<1>24. ASSUME NEW t \in SaeThreads, Generate(t)
      PROVE  SectionInv'
  BY <1>24 DEF Generate, Begin, Enter, Become, Residency, SectionInv, OpShape,
     IsOp, Idle, At
<1>25. ASSUME NEW t \in SaeThreads, register_direction(t)
      PROVE  SectionInv'
  BY <1>25 DEF register_direction, At, SectionInv, OpShape, IsOp, Idle, At
<1>26. ASSUME NEW t \in SaeThreads, Plan(t)
      PROVE  SectionInv'
  BY <1>26 DEF Plan, Become, At, Residency, SectionInv, OpShape, IsOp, Idle,
     At
<1>27. ASSUME NEW t \in SaeThreads, bind(t)
      PROVE  SectionInv'
  BY <1>27 DEF bind, Become, At, Residency, SectionInv, OpShape, IsOp, Idle,
     At
<1>28. ASSUME NEW t \in SaeThreads, Measure(t)
      PROVE  SectionInv'
  BY <1>28 DEF Measure, At, Residency, SectionInv, OpShape, IsOp, Idle, At
<1>29. ASSUME NEW t \in SaeThreads, close_run(t)
      PROVE  SectionInv'
  BY <1>29 DEF close_run, Leave, End, Become, At, Residency, SectionInv,
     OpShape, IsOp, Idle, At
<1>30. CASE UNCHANGED saeVars
  BY <1>30 DEF saeVars, SectionInv, OpShape, IsOp, Idle, At
<1> QED
  BY <1>1, <1>2, <1>3, <1>4, <1>5, <1>6, <1>7, <1>8, <1>9, <1>10, <1>11,
     <1>12, <1>13, <1>14, <1>15, <1>16, <1>17, <1>18, <1>19, <1>20, <1>21,
     <1>22, <1>23, <1>24, <1>25, <1>26, <1>27, <1>28, <1>29, <1>30 DEF SaeNext

\* The residency is kept, up to metadata, or it is gone, or a new one is there.
ResidencyMoves ==
  \/ UNCHANGED <<resident, loaded>>
  \/ resident' = None /\ loaded' = loaded
  \/ /\ resident # None /\ loaded' = loaded
     /\ resident'.n = resident.n /\ DictionaryOf(resident') = DictionaryOf(resident)
  \/ loaded' = loaded + 1 /\ resident'.n = loaded + 1

\* What the other threads carry is not disturbed.
LEMMA CarriedKeeps ==
  ASSUME OpShape, CarriedInv, ResidencyMoves,
         \A u \in SaeThreads : op'[u] = op[u] \/ Carried(op[u])'
  PROVE  CarriedInv'
<1> SUFFICES ASSUME NEW u \in SaeThreads, op'[u] = op[u]
             PROVE  Carried(op[u])'
  BY DEF CarriedInv
<1>1. op'[u] = op[u] /\ Carried(op[u]) /\ loaded \in Nat
  BY DEF CarriedInv, OpShape
<1>2. loaded' \in Nat /\ loaded <= loaded'
  BY <1>1 DEF ResidencyMoves, OpShape
<1>3. op[u].at \in {"fetch", "attach", "live"} => op[u].res.n \in 1..loaded /\ op[u].res.n \in 1..loaded'
  BY <1>1, <1>2 DEF Carried
<1>4. op[u].at \in {"fetch", "attach", "live"} /\ Current(op[u].res)' =>
        DictionaryOf(resident') = DictionaryOf(op[u].res)
  BY <1>1, <1>3 DEF Carried, Current, ResidencyMoves
<1> QED
  BY <1>1, <1>3, <1>4 DEF Carried

\* A thread that is idle, or on the way to the exclusive section, carries nothing.
LEMMA CarriesNothing ==
  ASSUME NEW t \in SaeThreads,
         op'[t].at \notin {"fetch", "attach", "live", "load", "swap", "train", "trained"}
  PROVE  Carried(op[t])'
BY DEF Carried

\* Every step keeps what the threads carry.
LEMMA CarriedStep ==
  ASSUME OpShape, ResidentShape, SourceShape, SectionInv, CarriedInv, UnitsAreOfTheirDictionary,
         [SaeNext]_saeVars
  PROVE  CarriedInv'
<1> USE SaeConstants
<1>1. ASSUME OtherProcess
      PROVE  CarriedInv'
  BY <1>1, CarriedKeeps DEF OtherProcess, Instrument, ResidencyMoves
<1>2. ASSUME NEW t \in SaeThreads, LoadBegin(t)
      PROVE  CarriedInv'
  <2>1. ResidencyMoves /\ \A u \in SaeThreads \ {t} : op'[u] = op[u]
    BY <1>2, BecomeDoes DEF LoadBegin, Begin, Enter, Become, Residency,
       ResidencyMoves
  <2>2. Carried(op[t])'
    <3>1. PICK r \in Provider \cup source.trained : \E l \in LayersOf[r] :
            Become(t, [Idle EXCEPT !.at = "load", !.release = r, !.layer = l])
      BY <1>2 DEF LoadBegin
    <3>4. PICK l \in LayersOf[r] :
            Become(t, [Idle EXCEPT !.at = "load", !.release = r, !.layer = l])
      BY <3>1
    <3>2. r \in Releases
      BY <3>1 DEF SourceShape, Releases
    <3>3. op'[t].at = "load" /\ op'[t].release = r /\ op'[t].layer = l
      <4>1. op'[t] = [Idle EXCEPT !.at = "load", !.release = r, !.layer = l]
        BY <3>4, BecomeDoes
      <4> QED
        BY <4>1 DEF Idle
    <3> QED
      BY <3>2, <3>3, <3>4 DEF Carried
  <2> QED
    BY <2>1, <2>2, CarriedKeeps
<1>3. ASSUME NEW t \in SaeThreads, LoadFails(t)
      PROVE  CarriedInv'
  <2>1. ResidencyMoves /\ \A u \in SaeThreads \ {t} : op'[u] = op[u]
    BY <1>3, BecomeDoes DEF LoadFails, Leave, End, Become, At, Residency,
       ResidencyMoves
  <2>2. Carried(op[t])'
    <3>1. op'[t].at \notin {"fetch", "attach", "live", "load", "swap", "train", "trained"}
      BY <1>3, BecomeDoes DEF LoadFails, Leave, End, Become, At, Residency, Idle,
         OpShape, IsOp
    <3> QED
      BY <3>1, CarriesNothing
  <2> QED
    BY <2>1, <2>2, CarriedKeeps
<1>4. ASSUME NEW t \in SaeThreads, LoadPublish(t)
      PROVE  CarriedInv'
  <2>1. ResidencyMoves /\ \A u \in SaeThreads \ {t} : op'[u] = op[u]
    BY <1>4, BecomeDoes DEF LoadPublish, Become, At, Instrument, ResidencyMoves
  <2>2. Carried(op[t])'
    <3> DEFINE r == op[t].release
               l == op[t].layer
               e == IF r \in Local THEN <<>> ELSE load_sae_feature_meta(r, l)
    <3>1. r \in Releases /\ l \in LayersOf[r]
      BY <1>4 DEF LoadPublish, At, CarriedInv, Carried
    <3>2. e \in Metas /\ UnitsIn(e) \subseteq {None, Dictionary(r, l)}
      <4>1. <<>> \in Metas /\ UnitsIn(<<>>) = {}
        <5>1. DOMAIN <<>> = {} /\ <<>> = [f \in {} |-> None]
          OBVIOUS
        <5> QED
          BY <5>1, MetaShape DEF UnitsIn
      <4>2. CASE r \in DOMAIN source.features /\ source.features[r].layer = l
        <5> DEFINE kept == source.features[r].rows
        <5>1. kept \in Metas
          BY <4>2 DEF SourceShape
        <5>3. UnitsIn(kept) \subseteq {None, Dictionary(r, l)}
          BY <4>2 DEF UnitsAreOfTheirDictionary
        <5>4. e = IF r \in Local THEN <<>> ELSE kept
          BY <4>2 DEF load_sae_feature_meta
        <5> HIDE DEF e, kept
        <5> QED
          BY <4>1, <5>1, <5>3, <5>4
      <4> QED
        BY <4>1, <4>2 DEF load_sae_feature_meta
    <3>3. op'[t] = [op[t] EXCEPT !.at = "swap", !.entry = e] /\ IsOp(op[t])
      BY <1>4, BecomeDoes DEF LoadPublish, OpShape
    <3> HIDE DEF e
    <3>4. op'[t].at = "swap" /\ op'[t].entry = e /\ op'[t].release = r /\ op'[t].layer = l
      BY <3>3 DEF IsOp
    <3> QED
      BY <3>1, <3>2, <3>4 DEF Carried
  <2> QED
    BY <2>1, <2>2, CarriedKeeps
<1>5. ASSUME NEW t \in SaeThreads, LoadSwap(t)
      PROVE  CarriedInv'
  <2>1. ResidencyMoves /\ \A u \in SaeThreads \ {t} : op'[u] = op[u]
    BY <1>5, BecomeDoes DEF LoadSwap, Leave, End, Become, At, _on_swap,
       ResidencyMoves
  <2>2. Carried(op[t])'
    <3>1. op'[t].at \notin {"fetch", "attach", "live", "load", "swap", "train", "trained"}
      BY <1>5, BecomeDoes DEF LoadSwap, Leave, End, Become, At, _on_swap, Idle,
         OpShape, IsOp
    <3> QED
      BY <3>1, CarriesNothing
  <2> QED
    BY <2>1, <2>2, CarriedKeeps
<1>6. ASSUME NEW t \in SaeThreads, Unload(t)
      PROVE  CarriedInv'
  BY <1>6, CarriedKeeps DEF Unload, Begin, _on_swap, ResidencyMoves
<1>7. ASSUME NEW t \in SaeThreads, TrainBegin(t)
      PROVE  CarriedInv'
  <2>1. ResidencyMoves /\ \A u \in SaeThreads \ {t} : op'[u] = op[u]
    BY <1>7, BecomeDoes DEF TrainBegin, Begin, Enter, Become, Residency,
       ResidencyMoves
  <2>2. Carried(op[t])'
    <3>1. PICK r \in Local : op'[t] = [Idle EXCEPT !.at = "train", !.release = r]
      BY <1>7, BecomeDoes DEF TrainBegin
    <3>2. op'[t].at = "train" /\ op'[t].release \in Local
      BY <3>1 DEF Idle
    <3> QED
      BY <3>2 DEF Carried
  <2> QED
    BY <2>1, <2>2, CarriedKeeps
<1>8. ASSUME NEW t \in SaeThreads, TrainSaves(t)
      PROVE  CarriedInv'
  <2>1. ResidencyMoves /\ \A u \in SaeThreads \ {t} : op'[u] = op[u]
    BY <1>8, BecomeDoes DEF TrainSaves, Become, Leave, At, Instrument,
       ResidencyMoves
  <2>2. Carried(op[t])'
    <3>1. op[t].at = "train" /\ op'[t] = [op[t] EXCEPT !.at = "trained"] /\ IsOp(op[t])
      BY <1>8, BecomeDoes DEF TrainSaves, At, OpShape
    <3>2. op'[t].at = "trained" /\ op'[t].release = op[t].release
      BY <3>1 DEF IsOp
    <3> QED
      BY <3>1, <3>2 DEF Carried, CarriedInv
  <2> QED
    BY <2>1, <2>2, CarriedKeeps
<1>9. ASSUME NEW t \in SaeThreads, TrainFails(t)
      PROVE  CarriedInv'
  <2>1. ResidencyMoves /\ \A u \in SaeThreads \ {t} : op'[u] = op[u]
    BY <1>9, BecomeDoes DEF TrainFails, Leave, End, Become, At, Residency,
       ResidencyMoves
  <2>2. Carried(op[t])'
    <3>1. op'[t].at \notin {"fetch", "attach", "live", "load", "swap", "train", "trained"}
      BY <1>9, BecomeDoes DEF TrainFails, Leave, End, Become, At, Residency, Idle,
         OpShape, IsOp
    <3> QED
      BY <3>1, CarriesNothing
  <2> QED
    BY <2>1, <2>2, CarriedKeeps
<1>10. ASSUME NEW t \in SaeThreads, TrainLoads(t)
      PROVE  CarriedInv'
  <2>1. ResidencyMoves /\ \A u \in SaeThreads \ {t} : op'[u] = op[u]
    BY <1>10, BecomeDoes DEF TrainLoads, Enter, Become, At, Residency,
       ResidencyMoves
  <2>2. Carried(op[t])'
    <3>1. PICK l \in LayersOf[op[t].release] :
            Become(t, [op[t] EXCEPT !.at = "load", !.layer = l])
      BY <1>10 DEF TrainLoads
    <3>2. op[t].at = "trained" /\ IsOp(op[t])
      BY <1>10 DEF TrainLoads, At, OpShape
    <3>3. op'[t].at = "load" /\ op'[t].release = op[t].release /\ op'[t].layer = l
      <4>1. op'[t] = [op[t] EXCEPT !.at = "load", !.layer = l]
        BY <3>1, BecomeDoes
      <4> QED
        BY <3>2, <4>1 DEF IsOp
    <3> QED
      BY <3>1, <3>2, <3>3 DEF Carried, CarriedInv, Releases
  <2> QED
    BY <2>1, <2>2, CarriedKeeps
<1>11. ASSUME NEW t \in SaeThreads, TrainRefused(t)
      PROVE  CarriedInv'
  <2>1. ResidencyMoves /\ \A u \in SaeThreads \ {t} : op'[u] = op[u]
    BY <1>11, BecomeDoes DEF TrainRefused, End, Become, At, Residency,
       ResidencyMoves
  <2>2. Carried(op[t])'
    <3>1. op'[t].at \notin {"fetch", "attach", "live", "load", "swap", "train", "trained"}
      BY <1>11, BecomeDoes DEF TrainRefused, End, Become, At, Residency, Idle,
         OpShape, IsOp
    <3> QED
      BY <3>1, CarriesNothing
  <2> QED
    BY <2>1, <2>2, CarriedKeeps
<1>12. ASSUME NEW t \in SaeThreads, Restart(t)
      PROVE  CarriedInv'
  <2>1. ResidencyMoves /\ \A u \in SaeThreads : u # t => op'[u] = Idle
    BY <1>12, RestartDoes DEF ResidencyMoves
  <2>2. \A u \in SaeThreads : op'[u] = Idle => Carried(op[u])'
    BY DEF Carried, Idle
  <2>3. Carried(op[t])'
    <3>1. CASE op'[t] = Idle
      BY <2>2, <3>1
    <3>2. CASE /\ op'[t].at = "load" /\ op'[t].release = source.active
               /\ source.active \in DOMAIN source.binding \cup source.trained
               /\ op'[t].layer \in RestoreLayers(source.active)
      <4>1. op'[t].release \in Releases /\ op'[t].layer \in LayersOf[op'[t].release]
        BY <3>2 DEF SourceShape, Releases, RestoreLayers
      <4> QED
        BY <3>2, <4>1 DEF Carried
    <3> QED
      BY <1>12, <3>1, <3>2, RestartDoes
  <2> QED
    BY <2>1, <2>2, <2>3, CarriedKeeps
<1>13. ASSUME NEW t \in SaeThreads, Ask(t)
      PROVE  CarriedInv'
  <2>1. ResidencyMoves /\ \A u \in SaeThreads \ {t} : op'[u] = op[u]
    BY <1>13, AskDoes DEF ResidencyMoves, Residency
  <2>2. Carried(op[t])'
    <3>1. UNCHANGED <<resident, loaded>>
      BY <1>13, AskDoes DEF Residency
    <3>2. op'[t].at \in {"fetch", "attach"} /\ op'[t].res = resident /\ resident # None
      BY <1>13, AskDoes
    <3>3. op'[t].wanted \subseteq Features
      BY <1>13, AskDoes
    <3>4. op'[t].at = "attach" \/ op'[t].name # None =>
              /\ op'[t].layer = resident.layer /\ op'[t].feature \in WidthOf[resident.release]
              /\ op'[t].entry \in {None, DictionaryOf(resident)}
      BY <1>13, AskDoes
    <3> QED
      BY <3>1, <3>2, <3>3, <3>4 DEF Carried, ResidentShape
  <2> QED
    BY <2>1, <2>2, CarriedKeeps
<1>14. ASSUME NEW t \in SaeThreads, Fetched(t)
      PROVE  CarriedInv'
  <2>1. op[t].at = "fetch" /\ Carried(op[t])
    BY <1>14, FetchedPlace DEF CarriedInv
  <2>2. /\ ResidencyMoves /\ loaded' = loaded
        /\ resident # None => /\ DictionaryOf(resident') = DictionaryOf(resident)
                              /\ resident'.n = resident.n
    <3>1. PICK fetched \in Metas :
            IF Current(op[t].res) /\ fetched # <<>>
            THEN resident' = [resident EXCEPT !.meta = Over(fetched, resident.meta)]
            ELSE UNCHANGED <<resident, source, probes, digests>>
      BY <1>14, FetchedDoes
    <3>2. CASE Current(op[t].res) /\ fetched # <<>>
      <4> DEFINE meta == Over(fetched, resident.meta)
      <4>1. resident \in Residencies /\ resident # None
        BY <3>2 DEF Current, ResidentShape
      <4>2. meta \in Metas
        BY <4>1, ResidencyShape, OverRows
      <4>3. resident' = [resident EXCEPT !.meta = meta]
        BY <3>1, <3>2
      <4> HIDE DEF meta
      <4> QED
        BY <1>14, <4>1, <4>2, <4>3, ResidencyShape, FetchedOps DEF ResidencyMoves
    <3> QED
      BY <1>14, <3>1, <3>2, FetchedOps DEF ResidencyMoves
  <2>3. Carried(op[t])'
    <3>1. PICK entry \in {op[t].entry, None, DictionaryOf(op[t].res)} :
             IF op[t].name = None \/ ~Current(op[t].res) THEN op'[t] = Idle
             ELSE op'[t] = [op[t] EXCEPT !.at = "attach", !.entry = entry]
      BY <1>14, FetchedDoes
    <3>2. CASE op'[t] = Idle
      BY <3>2 DEF Carried, Idle
    <3>3. CASE /\ op[t].name # None /\ Current(op[t].res)
               /\ op'[t] = [op[t] EXCEPT !.at = "attach", !.entry = entry]
      <4>1. IsOp(op[t])
        BY DEF OpShape
      <4>2. /\ op'[t].at = "attach" /\ op'[t].entry = entry /\ op'[t].res = op[t].res
            /\ op'[t].layer = op[t].layer /\ op'[t].feature = op[t].feature
        BY <3>3, <4>1 DEF IsOp
      <4>3. entry \in {None, DictionaryOf(op[t].res)}
        BY <2>1, <3>1, <3>3 DEF Carried
      <4>4. DictionaryOf(resident') = DictionaryOf(op[t].res)
        BY <2>1, <2>2, <3>3 DEF Carried, Current
      <4> QED
        BY <2>1, <2>2, <3>3, <4>2, <4>3, <4>4 DEF Carried, Current
    <3> QED
      BY <3>1, <3>2, <3>3
  <2> QED
    BY <1>14, <2>2, <2>3, FetchedOps, CarriedKeeps
<1>15. ASSUME NEW t \in SaeThreads, Attach(t)
      PROVE  CarriedInv'
  <2>1. ResidencyMoves /\ \A u \in SaeThreads \ {t} : op'[u] = op[u]
    BY <1>15, BecomeDoes DEF Attach, Become, At, Residency, ResidencyMoves
  <2>2. Carried(op[t])'
    <3>1. op'[t].at \notin {"fetch", "attach", "live", "load", "swap", "train", "trained"}
      BY <1>15, BecomeDoes DEF Attach, Become, At, Residency, Idle, OpShape, IsOp
    <3> QED
      BY <3>1, CarriesNothing
  <2> QED
    BY <2>1, <2>2, CarriedKeeps
<1>16. ASSUME NEW t \in SaeThreads, AttachRefused(t)
      PROVE  CarriedInv'
  <2>1. ResidencyMoves /\ \A u \in SaeThreads \ {t} : op'[u] = op[u]
    BY <1>16, BecomeDoes DEF AttachRefused, End, Become, At, Residency,
       ResidencyMoves
  <2>2. Carried(op[t])'
    <3>1. op'[t].at \notin {"fetch", "attach", "live", "load", "swap", "train", "trained"}
      BY <1>16, BecomeDoes DEF AttachRefused, End, Become, At, Residency, Idle,
         OpShape, IsOp
    <3> QED
      BY <3>1, CarriesNothing
  <2> QED
    BY <2>1, <2>2, CarriedKeeps
<1>17. ASSUME NEW t \in SaeThreads, try_detach(t)
      PROVE  CarriedInv'
  <2>1. ResidencyMoves /\ \A u \in SaeThreads \ {t} : op'[u] = op[u]
    BY <1>17, BecomeDoes DEF try_detach, Begin, Become, Residency, ResidencyMoves
  <2>2. Carried(op[t])'
    <3>1. \E name \in DOMAIN probes : op'[t] = [Idle EXCEPT !.at = "changed", !.name = name]
      BY <1>17, BecomeDoes DEF try_detach
    <3>2. op'[t].at \in {"changed", "hash", "bind"}
      BY <3>1 DEF Idle, OpShape, IsOp
    <3> QED
      BY <3>2, CarriesNothing
  <2> QED
    BY <2>1, <2>2, CarriedKeeps
<1>18. ASSUME NEW t \in SaeThreads, Changed(t)
      PROVE  CarriedInv'
  <2>1. ResidencyMoves /\ \A u \in SaeThreads \ {t} : op'[u] = op[u]
    BY <1>18, BecomeDoes DEF Changed, End, Become, At, Residency, ResidencyMoves
  <2>2. Carried(op[t])'
    <3>1. op'[t].at \notin {"fetch", "attach", "live", "load", "swap", "train", "trained"}
      BY <1>18, BecomeDoes DEF Changed, End, Become, At, Residency, Idle, OpShape,
         IsOp
    <3> QED
      BY <3>1, CarriesNothing
  <2> QED
    BY <2>1, <2>2, CarriedKeeps
<1>19. ASSUME NEW t \in SaeThreads, HashRead(t)
      PROVE  CarriedInv'
  <2>1. ResidencyMoves /\ \A u \in SaeThreads \ {t} : op'[u] = op[u]
    BY <1>19, BecomeDoes DEF HashRead, Begin, Become, Residency, ResidencyMoves
  <2>2. Carried(op[t])'
    <3>1. \E name \in DOMAIN probes : op'[t] = [Idle EXCEPT !.at = "hash", !.name = name, !.digest = Identity(name)]
      BY <1>19, BecomeDoes DEF HashRead
    <3>2. op'[t].at \in {"changed", "hash", "bind"}
      BY <3>1 DEF Idle, OpShape, IsOp
    <3> QED
      BY <3>2, CarriesNothing
  <2> QED
    BY <2>1, <2>2, CarriedKeeps
<1>20. ASSUME NEW t \in SaeThreads, HashStore(t)
      PROVE  CarriedInv'
  <2>1. ResidencyMoves /\ \A u \in SaeThreads \ {t} : op'[u] = op[u]
    BY <1>20, BecomeDoes DEF HashStore, End, Become, At, Residency, ResidencyMoves
  <2>2. Carried(op[t])'
    <3>1. op'[t].at \notin {"fetch", "attach", "live", "load", "swap", "train", "trained"}
      BY <1>20, BecomeDoes DEF HashStore, End, Become, At, Residency, Idle, OpShape,
         IsOp
    <3> QED
      BY <3>1, CarriesNothing
  <2> QED
    BY <2>1, <2>2, CarriedKeeps
<1>21. ASSUME NEW t \in SaeThreads, enable_live(t)
      PROVE  CarriedInv'
  <2>1. ResidencyMoves /\ \A u \in SaeThreads \ {t} : op'[u] = op[u]
    BY <1>21, BecomeDoes DEF enable_live, Begin, Become, Residency, ResidencyMoves
  <2>2. Carried(op[t])'
    <3>1. /\ op'[t].at = "live" /\ op'[t].res = resident /\ resident # None
          /\ UNCHANGED <<resident, loaded>>
      <4>1. op'[t] = [Idle EXCEPT !.at = "live", !.res = resident]
        BY <1>21, BecomeDoes DEF enable_live
      <4> QED
        BY <1>21, <4>1 DEF enable_live, Residency, Idle
    <3> QED
      BY <3>1 DEF Carried, ResidentShape
  <2> QED
    BY <2>1, <2>2, CarriedKeeps
<1>22. ASSUME NEW t \in SaeThreads, EnabledLive(t)
      PROVE  CarriedInv'
  <2>1. ResidencyMoves /\ \A u \in SaeThreads \ {t} : op'[u] = op[u]
    BY <1>22, BecomeDoes DEF EnabledLive, End, Become, At, Residency, ResidencyMoves
  <2>2. Carried(op[t])'
    <3>1. op'[t].at \notin {"fetch", "attach", "live", "load", "swap", "train", "trained"}
      BY <1>22, BecomeDoes DEF EnabledLive, End, Become, At, Residency, Idle,
         OpShape, IsOp
    <3> QED
      BY <3>1, CarriesNothing
  <2> QED
    BY <2>1, <2>2, CarriedKeeps
<1>23. ASSUME NEW t \in SaeThreads, disable_live(t)
      PROVE  CarriedInv'
  BY <1>23, CarriedKeeps DEF disable_live, Residency, ResidencyMoves
<1>24. ASSUME NEW t \in SaeThreads, Generate(t)
      PROVE  CarriedInv'
  <2>1. ResidencyMoves /\ \A u \in SaeThreads \ {t} : op'[u] = op[u]
    BY <1>24, BecomeDoes DEF Generate, Begin, Enter, Become, Residency,
       ResidencyMoves
  <2>2. Carried(op[t])'
    <3>1. op'[t].at \notin {"fetch", "attach", "live", "load", "swap", "train", "trained"}
      BY <1>24, BecomeDoes DEF Generate, Begin, Enter, Become, Residency, Idle,
         OpShape, IsOp
    <3> QED
      BY <3>1, CarriesNothing
  <2> QED
    BY <2>1, <2>2, CarriedKeeps
<1>25. ASSUME NEW t \in SaeThreads, register_direction(t)
      PROVE  CarriedInv'
  BY <1>25, CarriedKeeps DEF register_direction, At, ResidencyMoves
<1>26. ASSUME NEW t \in SaeThreads, Plan(t)
      PROVE  CarriedInv'
  <2>1. ResidencyMoves /\ \A u \in SaeThreads \ {t} : op'[u] = op[u]
    BY <1>26, BecomeDoes DEF Plan, Become, At, Residency, ResidencyMoves
  <2>2. Carried(op[t])'
    <3>1. \E w : op'[t] = [op[t] EXCEPT !.at = "bind", !.wanted = w]
      BY <1>26, BecomeDoes DEF Plan
    <3>2. op'[t].at \in {"changed", "hash", "bind"}
      BY <3>1 DEF Idle, OpShape, IsOp
    <3> QED
      BY <3>2, CarriesNothing
  <2> QED
    BY <2>1, <2>2, CarriedKeeps
<1>27. ASSUME NEW t \in SaeThreads, bind(t)
      PROVE  CarriedInv'
  <2>1. ResidencyMoves /\ \A u \in SaeThreads \ {t} : op'[u] = op[u]
    BY <1>27, BecomeDoes DEF bind, Become, At, Residency, ResidencyMoves
  <2>2. Carried(op[t])'
    <3>1. op'[t].at \notin {"fetch", "attach", "live", "load", "swap", "train", "trained"}
      BY <1>27, BecomeDoes DEF bind, Become, At, Residency, Idle, OpShape, IsOp
    <3> QED
      BY <3>1, CarriesNothing
  <2> QED
    BY <2>1, <2>2, CarriedKeeps
<1>28. ASSUME NEW t \in SaeThreads, Measure(t)
      PROVE  CarriedInv'
  BY <1>28, CarriedKeeps DEF Measure, At, Residency, ResidencyMoves
<1>29. ASSUME NEW t \in SaeThreads, close_run(t)
      PROVE  CarriedInv'
  <2>1. ResidencyMoves /\ \A u \in SaeThreads \ {t} : op'[u] = op[u]
    BY <1>29, BecomeDoes DEF close_run, Leave, End, Become, At, Residency,
       ResidencyMoves
  <2>2. Carried(op[t])'
    <3>1. op'[t].at \notin {"fetch", "attach", "live", "load", "swap", "train", "trained"}
      BY <1>29, BecomeDoes DEF close_run, Leave, End, Become, At, Residency, Idle,
         OpShape, IsOp
    <3> QED
      BY <3>1, CarriesNothing
  <2> QED
    BY <2>1, <2>2, CarriedKeeps
<1>30. CASE UNCHANGED saeVars
  BY <1>30 DEF saeVars, Residency, CarriedInv, Carried, Current
<1> QED
  BY <1>1, <1>2, <1>3, <1>4, <1>5, <1>6, <1>7, <1>8, <1>9, <1>10, <1>11,
     <1>12, <1>13, <1>14, <1>15, <1>16, <1>17, <1>18, <1>19, <1>20, <1>21,
     <1>22, <1>23, <1>24, <1>25, <1>26, <1>27, <1>28, <1>29, <1>30 DEF SaeNext

\* A fetch changes metadata and no more: in the residency and on disk.
LEMMA FetchedKeeps ==
  ASSUME OpShape, ResidentShape, SourceShape, CarriedInv, NEW t \in SaeThreads, Fetched(t)
  PROVE  /\ resident = None => resident' = None
         /\ resident # None =>
              /\ resident' # None /\ resident'.n = resident.n
              /\ resident'.release = resident.release /\ resident'.layer = resident.layer
              /\ DictionaryOf(resident') = DictionaryOf(resident)
         /\ source'.active = source.active /\ source'.binding = source.binding
<1>1. PICK fetched \in Metas :
        IF Current(op[t].res) /\ fetched # <<>>
        THEN LET meta == Over(fetched, resident.meta)
             IN /\ resident' = [resident EXCEPT !.meta = meta]
                /\ source' = [source EXCEPT !.features =
                     Put(@, resident.release, [layer |-> resident.layer, rows |-> Saved(meta)])]
        ELSE UNCHANGED <<resident, source>>
  BY FetchedDoes
<1>2. CASE Current(op[t].res) /\ fetched # <<>>
  <2> DEFINE meta == Over(fetched, resident.meta)
             f == Put(source.features, resident.release, [layer |-> resident.layer, rows |-> Saved(meta)])
  <2>1. resident \in Residencies /\ resident # None
    BY <1>2 DEF Current, ResidentShape
  <2>2. meta \in Metas
    BY <2>1, ResidencyShape, OverRows
  <2>3. resident' = [resident EXCEPT !.meta = meta] /\ source' = [source EXCEPT !.features = f]
    BY <1>1, <1>2
  <2> HIDE DEF meta, f
  <2>4. source'.active = source.active /\ source'.binding = source.binding
    BY <2>3 DEF SourceShape, IsSource
  <2>5. resident' \in Residencies /\ resident' # None
    BY <2>1, <2>2, <2>3, ResidencyShape, SaeConstants
  <2> QED
    BY <2>1, <2>2, <2>3, <2>4, <2>5, ResidencyShape
<1> QED
  BY <1>1, <1>2

\* Every step keeps the selection that of the resident dictionary.
LEMMA SelectionStep ==
  ASSUME OpShape, ResidentShape, SourceShape, SectionInv, CarriedInv, SelectionInv,
         UnitsAreOfTheirDictionary, [SaeNext]_saeVars
  PROVE  SelectionInv'
<1> USE SaeConstants
<1>1. ASSUME OtherProcess
      PROVE  SelectionInv'
  BY <1>1 DEF OtherProcess, Instrument, SelectionInv, Selects, SectionInv,
     InSection, OpShape, IsOp, Idle, At
<1>2. ASSUME NEW t \in SaeThreads, LoadBegin(t)
      PROVE  SelectionInv'
  BY <1>2 DEF LoadBegin, Begin, Enter, Become, Residency, SelectionInv,
     Selects, SectionInv, InSection, OpShape, IsOp, Idle, At
<1>3. ASSUME NEW t \in SaeThreads, LoadFails(t)
      PROVE  SelectionInv'
  BY <1>3 DEF LoadFails, Leave, End, Become, At, Residency, SelectionInv,
     Selects, SectionInv, InSection, OpShape, IsOp, Idle, At
<1>4. ASSUME NEW t \in SaeThreads, LoadPublish(t)
      PROVE  SelectionInv'
  <2> DEFINE r == op[t].release
             l == op[t].layer
             b == IF r \in Local THEN source.binding ELSE Put(source.binding, r, l)
             e == IF r \in Local THEN <<>> ELSE load_sae_feature_meta(r, l)
  <2>1. /\ op[t].at = "load" /\ op'[t] = [op[t] EXCEPT !.at = "swap", !.entry = e]
        /\ \A u \in SaeThreads \ {t} : op'[u] = op[u]
    BY <1>4, BecomeDoes DEF LoadPublish, At
  <2>2. source' = [source EXCEPT !.active = r, !.binding = b] /\ resident' = resident
    BY <1>4 DEF LoadPublish
  <2> HIDE DEF e
  <2>3. /\ op'[t].at = "swap" /\ op'[t].release = r /\ op'[t].layer = l
        /\ op'[t].expect = op[t].expect
    BY <2>1 DEF OpShape, IsOp
  <2>4. r \notin Local => r \in DOMAIN b /\ b[r] = l
    BY DEF Put
  <2> HIDE DEF b
  <2>5. source'.active = r /\ source'.binding = b
    BY <2>2 DEF SourceShape, IsSource
  <2>6. \A u \in SaeThreads : u # t => op'[u].at \notin {"load", "swap"}
    BY <1>4, <2>1 DEF SectionInv, InSection
  <2> HIDE DEF r, l
  <2>7. \A u \in SaeThreads : At(u, "swap")' => Selects(op[u].release, op[u].layer)'
    BY <2>3, <2>4, <2>5, <2>6 DEF At, Selects
  <2>8. ~(\A u \in SaeThreads : ~At(u, "swap")')
    BY <2>3 DEF At
  <2>9. op[t].expect # None => resident = None /\ op[t].expect = Dictionary(r, l)
    BY <2>1 DEF SelectionInv, r, l
  <2>10. \A u \in SaeThreads :
           /\ op'[u].at \in {"load", "swap"} /\ op'[u].expect # None =>
                resident' = None /\ op'[u].expect = Dictionary(op'[u].release, op'[u].layer)
           /\ op'[u].at \in {"train", "trained"} => op'[u].expect = None
    BY <2>1, <2>2, <2>3, <2>6, <2>9 DEF SelectionInv
  <2> QED
    BY <2>7, <2>8, <2>10 DEF SelectionInv
<1>5. ASSUME NEW t \in SaeThreads, LoadSwap(t)
      PROVE  SelectionInv'
  BY <1>5 DEF LoadSwap, Leave, End, Become, At, _on_swap, SelectionInv,
     Selects, SectionInv, InSection, OpShape, IsOp, Idle, At
<1>6. ASSUME NEW t \in SaeThreads, Unload(t)
      PROVE  SelectionInv'
  BY <1>6 DEF Unload, Begin, _on_swap, SelectionInv, Selects, SectionInv,
     InSection, OpShape, IsOp, Idle, At
<1>7. ASSUME NEW t \in SaeThreads, TrainBegin(t)
      PROVE  SelectionInv'
  BY <1>7 DEF TrainBegin, Begin, Enter, Become, Residency, SelectionInv,
     Selects, SectionInv, InSection, OpShape, IsOp, Idle, At
<1>8. ASSUME NEW t \in SaeThreads, TrainSaves(t)
      PROVE  SelectionInv'
  BY <1>8 DEF TrainSaves, Leave, Become, At, Instrument, SelectionInv,
     Selects, SectionInv, InSection, OpShape, IsOp, Idle, At
<1>9. ASSUME NEW t \in SaeThreads, TrainFails(t)
      PROVE  SelectionInv'
  BY <1>9 DEF TrainFails, Leave, End, Become, At, Residency, SelectionInv,
     Selects, SectionInv, InSection, OpShape, IsOp, Idle, At
<1>10. ASSUME NEW t \in SaeThreads, TrainLoads(t)
      PROVE  SelectionInv'
  BY <1>10 DEF TrainLoads, Enter, Become, At, Residency, SelectionInv,
     Selects, SectionInv, InSection, OpShape, IsOp, Idle, At
<1>11. ASSUME NEW t \in SaeThreads, TrainRefused(t)
      PROVE  SelectionInv'
  BY <1>11 DEF TrainRefused, End, Become, At, Residency, SelectionInv,
     Selects, SectionInv, InSection, OpShape, IsOp, Idle, At
<1>12. ASSUME NEW t \in SaeThreads, Restart(t)
      PROVE  SelectionInv'
  <2>1. /\ op'[t].at \in {"idle", "load"} /\ \A u \in SaeThreads : u # t => op'[u].at = "idle"
        /\ resident' = None
    BY <1>12, RestartDoes DEF Idle
  <2>2. ASSUME op'[t].at = "load", op'[t].expect # None
        PROVE  op'[t].expect = Dictionary(op'[t].release, op'[t].layer)
    <3>1. /\ resident # None /\ ~elsewhere /\ op'[t].expect = DictionaryOf(resident)
          /\ op'[t].release = source.active /\ op'[t].layer \in RestoreLayers(source.active)
      BY <1>12, <2>2, RestartDoes DEF Idle
    <3>2. Selects(resident.release, resident.layer)
      BY <1>12, <3>1, RestartDoes DEF SelectionInv, SectionInv, At, InSection
    <3>3. op'[t].layer = resident.layer /\ source.active = resident.release
      <4>1. CASE source.active \in Local
        <5>1. resident.layer \in LayersOf[source.active] /\ op'[t].layer \in LayersOf[source.active]
          BY <3>1, <3>2, <4>1 DEF ResidentShape, Selects, RestoreLayers
        <5> QED
          BY <3>2, <4>1, <5>1 DEF Selects
      <4>2. CASE source.active \notin Local
        BY <3>1, <3>2, <4>2 DEF Selects, RestoreLayers
      <4> QED
        BY <4>1, <4>2
    <3> QED
      BY <3>1, <3>3 DEF DictionaryOf
  <2> QED
    BY <2>1, <2>2 DEF SelectionInv, At
<1>13. ASSUME NEW t \in SaeThreads, Ask(t)
      PROVE  SelectionInv'
  <2>1. /\ op'[t].at \in {"fetch", "attach"} /\ op[t].at = "idle"
        /\ \A u \in SaeThreads \ {t} : op'[u] = op[u]
        /\ UNCHANGED <<resident, source, elsewhere>>
    BY <1>13, AskDoes DEF Idle, Residency
  <2> QED
    BY <2>1 DEF SelectionInv, Selects, At
<1>14. ASSUME NEW t \in SaeThreads, Fetched(t)
      PROVE  SelectionInv'
  <2>1. /\ op'[t].at \in {"idle", "attach"} /\ op[t].at = "fetch"
        /\ \A u \in SaeThreads \ {t} : op'[u] = op[u]
        /\ elsewhere' = elsewhere
    BY <1>14, FetchedPlace, FetchedOps
  <2> QED
    BY <1>14, <2>1, FetchedKeeps DEF SelectionInv, Selects, At
<1>15. ASSUME NEW t \in SaeThreads, Attach(t)
      PROVE  SelectionInv'
  BY <1>15 DEF Attach, Become, At, Residency, SelectionInv, Selects,
     SectionInv, InSection, OpShape, IsOp, Idle, At
<1>16. ASSUME NEW t \in SaeThreads, AttachRefused(t)
      PROVE  SelectionInv'
  BY <1>16 DEF AttachRefused, End, Become, At, Residency, SelectionInv,
     Selects, SectionInv, InSection, OpShape, IsOp, Idle, At
<1>17. ASSUME NEW t \in SaeThreads, try_detach(t)
      PROVE  SelectionInv'
  BY <1>17 DEF try_detach, Begin, Become, Residency, SelectionInv, Selects,
     SectionInv, InSection, OpShape, IsOp, Idle, At
<1>18. ASSUME NEW t \in SaeThreads, Changed(t)
      PROVE  SelectionInv'
  BY <1>18 DEF Changed, End, Become, At, Residency, SelectionInv, Selects,
     SectionInv, InSection, OpShape, IsOp, Idle, At
<1>19. ASSUME NEW t \in SaeThreads, HashRead(t)
      PROVE  SelectionInv'
  BY <1>19 DEF HashRead, Begin, Become, Residency, SelectionInv, Selects,
     SectionInv, InSection, OpShape, IsOp, Idle, At
<1>20. ASSUME NEW t \in SaeThreads, HashStore(t)
      PROVE  SelectionInv'
  BY <1>20 DEF HashStore, End, Become, At, Residency, SelectionInv, Selects,
     SectionInv, InSection, OpShape, IsOp, Idle, At
<1>21. ASSUME NEW t \in SaeThreads, enable_live(t)
      PROVE  SelectionInv'
  BY <1>21 DEF enable_live, Begin, Become, Residency, SelectionInv, Selects,
     SectionInv, InSection, OpShape, IsOp, Idle, At
<1>22. ASSUME NEW t \in SaeThreads, EnabledLive(t)
      PROVE  SelectionInv'
  BY <1>22 DEF EnabledLive, End, Become, At, Residency, SelectionInv, Selects,
     SectionInv, InSection, OpShape, IsOp, Idle, At
<1>23. ASSUME NEW t \in SaeThreads, disable_live(t)
      PROVE  SelectionInv'
  BY <1>23 DEF disable_live, Residency, SelectionInv, Selects, SectionInv,
     InSection, OpShape, IsOp, Idle, At
<1>24. ASSUME NEW t \in SaeThreads, Generate(t)
      PROVE  SelectionInv'
  BY <1>24 DEF Generate, Begin, Enter, Become, Residency, SelectionInv,
     Selects, SectionInv, InSection, OpShape, IsOp, Idle, At
<1>25. ASSUME NEW t \in SaeThreads, register_direction(t)
      PROVE  SelectionInv'
  BY <1>25 DEF register_direction, At, SelectionInv, Selects, SectionInv,
     InSection, OpShape, IsOp, Idle, At
<1>26. ASSUME NEW t \in SaeThreads, Plan(t)
      PROVE  SelectionInv'
  BY <1>26 DEF Plan, Become, At, Residency, SelectionInv, Selects, SectionInv,
     InSection, OpShape, IsOp, Idle, At
<1>27. ASSUME NEW t \in SaeThreads, bind(t)
      PROVE  SelectionInv'
  BY <1>27 DEF bind, Become, At, Residency, SelectionInv, Selects, SectionInv,
     InSection, OpShape, IsOp, Idle, At
<1>28. ASSUME NEW t \in SaeThreads, Measure(t)
      PROVE  SelectionInv'
  BY <1>28 DEF Measure, At, Residency, SelectionInv, Selects, SectionInv,
     InSection, OpShape, IsOp, Idle, At
<1>29. ASSUME NEW t \in SaeThreads, close_run(t)
      PROVE  SelectionInv'
  BY <1>29 DEF close_run, Leave, End, Become, At, Residency, SelectionInv,
     Selects, SectionInv, InSection, OpShape, IsOp, Idle, At
<1>30. CASE UNCHANGED saeVars
  BY <1>30 DEF saeVars, SelectionInv, Selects, SectionInv, InSection, OpShape,
     IsOp, Idle, At, Residency
<1> QED
  BY <1>1, <1>2, <1>3, <1>4, <1>5, <1>6, <1>7, <1>8, <1>9, <1>10, <1>11,
     <1>12, <1>13, <1>14, <1>15, <1>16, <1>17, <1>18, <1>19, <1>20, <1>21,
     <1>22, <1>23, <1>24, <1>25, <1>26, <1>27, <1>28, <1>29, <1>30 DEF SaeNext

\* Every step keeps the run in flight on one dictionary, and its notes.
LEMMA RunStep ==
  ASSUME OpShape, ResidentShape, SourceShape, SpecShape, SectionInv, CarriedInv, RunInv,
         NothingOutlivesItsDictionary, UnitsAreOfTheirDictionary, SectionInv', [SaeNext]_saeVars
  PROVE  RunInv'
<1> USE SaeConstants
<1>1. ASSUME OtherProcess
      PROVE  RunInv'
  BY <1>1 DEF OtherProcess, Instrument, RunInv, SectionInv, InSection,
     OpShape, IsOp, Idle, At
<1>2. ASSUME NEW t \in SaeThreads, LoadBegin(t)
      PROVE  RunInv'
  BY <1>2 DEF LoadBegin, Begin, Enter, Become, Residency, RunInv, SectionInv,
     InSection, OpShape, IsOp, Idle, At
<1>3. ASSUME NEW t \in SaeThreads, LoadFails(t)
      PROVE  RunInv'
  BY <1>3 DEF LoadFails, Leave, End, Become, At, Residency, RunInv,
     SectionInv, InSection, OpShape, IsOp, Idle, At
<1>4. ASSUME NEW t \in SaeThreads, LoadPublish(t)
      PROVE  RunInv'
  BY <1>4 DEF LoadPublish, Become, At, Instrument, RunInv, SectionInv,
     InSection, OpShape, IsOp, Idle, At
<1>5. ASSUME NEW t \in SaeThreads, LoadSwap(t)
      PROVE  RunInv'
  BY <1>5 DEF LoadSwap, Leave, End, Become, At, _on_swap, RunInv, SectionInv,
     InSection, OpShape, IsOp, Idle, At
<1>6. ASSUME NEW t \in SaeThreads, Unload(t)
      PROVE  RunInv'
  BY <1>6 DEF Unload, Begin, _on_swap, RunInv, SectionInv, InSection, OpShape,
     IsOp, Idle, At
<1>7. ASSUME NEW t \in SaeThreads, TrainBegin(t)
      PROVE  RunInv'
  BY <1>7 DEF TrainBegin, Begin, Enter, Become, Residency, RunInv, SectionInv,
     InSection, OpShape, IsOp, Idle, At
<1>8. ASSUME NEW t \in SaeThreads, TrainSaves(t)
      PROVE  RunInv'
  BY <1>8 DEF TrainSaves, Leave, Become, At, Instrument, RunInv, SectionInv,
     InSection, OpShape, IsOp, Idle, At
<1>9. ASSUME NEW t \in SaeThreads, TrainFails(t)
      PROVE  RunInv'
  BY <1>9 DEF TrainFails, Leave, End, Become, At, Residency, RunInv,
     SectionInv, InSection, OpShape, IsOp, Idle, At
<1>10. ASSUME NEW t \in SaeThreads, TrainLoads(t)
      PROVE  RunInv'
  BY <1>10 DEF TrainLoads, Enter, Become, At, Residency, RunInv, SectionInv,
     InSection, OpShape, IsOp, Idle, At
<1>11. ASSUME NEW t \in SaeThreads, TrainRefused(t)
      PROVE  RunInv'
  BY <1>11 DEF TrainRefused, End, Become, At, Residency, RunInv, SectionInv,
     InSection, OpShape, IsOp, Idle, At
<1>12. ASSUME NEW t \in SaeThreads, Restart(t)
      PROVE  RunInv'
  <2>1. \A u \in SaeThreads : ~At(u, "decode")'
    BY <1>12, RestartDoes DEF At, Idle
  <2> QED
    BY <2>1 DEF RunInv
<1>13. ASSUME NEW t \in SaeThreads, Ask(t)
      PROVE  RunInv'
  <2>1. \A u \in SaeThreads : At(u, "decode")' <=> At(u, "decode")
    BY <1>13, AskDoes DEF At, Idle
  <2> QED
    BY <1>13, <2>1, AskDoes DEF RunInv, Residency
<1>14. ASSUME NEW t \in SaeThreads, Fetched(t)
      PROVE  RunInv'
  <2>1. \A u \in SaeThreads : At(u, "decode")' <=> At(u, "decode")
    BY <1>14, FetchedPlace, FetchedOps DEF At
  <2>2. run' = run
    BY <1>14, FetchedOps
  <2> QED
    BY <1>14, <2>1, <2>2, FetchedKeeps DEF RunInv
<1>15. ASSUME NEW t \in SaeThreads, Attach(t)
      PROVE  RunInv'
  BY <1>15 DEF Attach, Become, At, Residency, RunInv, SectionInv, InSection,
     OpShape, IsOp, Idle, At
<1>16. ASSUME NEW t \in SaeThreads, AttachRefused(t)
      PROVE  RunInv'
  BY <1>16 DEF AttachRefused, End, Become, At, Residency, RunInv, SectionInv,
     InSection, OpShape, IsOp, Idle, At
<1>17. ASSUME NEW t \in SaeThreads, try_detach(t)
      PROVE  RunInv'
  BY <1>17 DEF try_detach, Begin, Become, Residency, RunInv, SectionInv,
     InSection, OpShape, IsOp, Idle, At
<1>18. ASSUME NEW t \in SaeThreads, Changed(t)
      PROVE  RunInv'
  BY <1>18 DEF Changed, End, Become, At, Residency, RunInv, SectionInv,
     InSection, OpShape, IsOp, Idle, At
<1>19. ASSUME NEW t \in SaeThreads, HashRead(t)
      PROVE  RunInv'
  BY <1>19 DEF HashRead, Begin, Become, Residency, RunInv, SectionInv,
     InSection, OpShape, IsOp, Idle, At
<1>20. ASSUME NEW t \in SaeThreads, HashStore(t)
      PROVE  RunInv'
  BY <1>20 DEF HashStore, End, Become, At, Residency, RunInv, SectionInv,
     InSection, OpShape, IsOp, Idle, At
<1>21. ASSUME NEW t \in SaeThreads, enable_live(t)
      PROVE  RunInv'
  BY <1>21 DEF enable_live, Begin, Become, Residency, RunInv, SectionInv,
     InSection, OpShape, IsOp, Idle, At
<1>22. ASSUME NEW t \in SaeThreads, EnabledLive(t)
      PROVE  RunInv'
  BY <1>22 DEF EnabledLive, End, Become, At, Residency, RunInv, SectionInv,
     InSection, OpShape, IsOp, Idle, At
<1>23. ASSUME NEW t \in SaeThreads, disable_live(t)
      PROVE  RunInv'
  BY <1>23 DEF disable_live, Residency, RunInv, SectionInv, InSection,
     OpShape, IsOp, Idle, At
<1>24. ASSUME NEW t \in SaeThreads, Generate(t)
      PROVE  RunInv'
  BY <1>24 DEF Generate, Begin, Enter, Become, Residency, RunInv, SectionInv,
     InSection, OpShape, IsOp, Idle, At
<1>25. ASSUME NEW t \in SaeThreads, register_direction(t)
      PROVE  RunInv'
  BY <1>25 DEF register_direction, At, RunInv, SectionInv, InSection, OpShape,
     IsOp, Idle, At
<1>26. ASSUME NEW t \in SaeThreads, Plan(t)
      PROVE  RunInv'
  BY <1>26 DEF Plan, Become, At, Residency, RunInv, SectionInv, InSection,
     OpShape, IsOp, Idle, At
<1>27. ASSUME NEW t \in SaeThreads, bind(t)
      PROVE  RunInv'
  <2> DEFINE specs == [name \in DOMAIN probes |->
               IF probes[name].max_act # None THEN probes[name]
               ELSE [probes[name] EXCEPT !.max_act = max_act(probes[name].feature)]]
             n == IF resident = None THEN 0 ELSE resident.n
             w == op[t].wanted
             units == [name \in DOMAIN probes |-> {}]
             r == [specs |-> specs, live |-> live, captured |-> w, n |-> n, units |-> units,
                   reads |-> {}]
  <2>1. run' = r /\ UNCHANGED <<resident, live>>
    BY <1>27 DEF bind, Residency
  <2>2. DOMAIN units = DOMAIN specs /\ \A name \in DOMAIN units : units[name] = {}
    OBVIOUS
  <2>3. resident # None =>
          n = resident.n /\ (live # None => live.late \/ live.layer = resident.layer)
    BY DEF NothingOutlivesItsDictionary
  <2>5. resident # None => UnitsOf(specs) \subseteq {None, DictionaryOf(resident)}
    <3> SUFFICES ASSUME resident # None, NEW name \in DOMAIN probes, ~specs[name].late
                 PROVE  specs[name].max_act \in {None, DictionaryOf(resident)}
      BY DEF UnitsOf
    <3>1. max_act(probes[name].feature) \in {None, DictionaryOf(resident)}
      <4>1. UnitsIn(resident.meta) \subseteq {None, DictionaryOf(resident)}
        BY DEF UnitsAreOfTheirDictionary
      <4> QED
        BY <4>1 DEF max_act, UnitIn, UnitsIn
    <3>2. IsSpec(probes[name])
      BY DEF SpecShape
    <3>3. ~probes[name].late => probes[name].max_act \in {None, DictionaryOf(resident)}
      BY DEF UnitsAreOfTheirDictionary, UnitsOf
    <3> QED
      BY <3>1, <3>2, <3>3 DEF IsSpec
  <2> HIDE DEF specs, n, w, units
  <2>4. /\ IsRun(r) /\ r.specs = specs /\ r.units = units /\ r.live = live /\ r.n = n
        /\ r.reads = {}
    BY DEF IsRun
  <2> HIDE DEF r
  <2> QED
    BY <2>1, <2>2, <2>3, <2>4, <2>5 DEF RunInv, IsRun, DictionaryOf
<1>28. ASSUME NEW t \in SaeThreads, Measure(t)
      PROVE  RunInv'
  <2> DEFINE pinned == IF run.specs # <<>> THEN {resident.layer} \cap run.captured ELSE {}
             found == IF run.live # None THEN {run.live.layer} \cap run.captured ELSE {}
             new == {[layer |-> l, by |-> resident.layer, n |-> resident.n] : l \in pinned \cup found}
             reads == run.reads \cup new
             units == [name \in DOMAIN run.specs |-> IF pinned = {} THEN run.units[name]
                         ELSE run.units[name] \cup {_resolve_max_act(run.specs[name])}]
  <2>1. /\ run' = [run EXCEPT !.reads = reads, !.units = units] /\ resident # None
        /\ UNCHANGED <<resident, op>> /\ At(t, "decode")
    BY <1>28 DEF Measure, Residency
  <2>2. /\ IsRun(run) /\ DOMAIN run.units = DOMAIN run.specs /\ run.n = resident.n
        /\ run.live # None => run.live.late \/ run.live.layer = resident.layer
        /\ \A name \in DOMAIN run.units : run.units[name] \subseteq {run.specs[name].max_act}
        /\ \A read \in run.reads :
             /\ read.n = run.n
             /\ read.layer = read.by \/ (run.live # None /\ run.live.late)
    BY <2>1 DEF RunInv
  <2>3. \A name \in DOMAIN units : units[name] \subseteq {run.specs[name].max_act}
    BY <2>2 DEF _resolve_max_act
  <2>4. \A l \in pinned \cup found : l = resident.layer \/ (run.live # None /\ run.live.late)
    BY <2>2
  <2> HIDE DEF pinned, found
  <2>5. \A read \in reads :
             /\ read.n = run.n
             /\ read.layer = read.by \/ (run.live # None /\ run.live.late)
    BY <2>2, <2>4
  <2>6. DOMAIN units = DOMAIN run.specs
    OBVIOUS
  <2> HIDE DEF reads, units
  <2>7. /\ run'.specs = run.specs /\ run'.live = run.live /\ run'.n = run.n /\ IsRun(run')
        /\ run'.reads = reads /\ run'.units = units
    BY <2>1, <2>2 DEF IsRun
  <2> QED
    BY <2>1, <2>2, <2>3, <2>5, <2>6, <2>7 DEF RunInv, IsRun
<1>29. ASSUME NEW t \in SaeThreads, close_run(t)
      PROVE  RunInv'
  BY <1>29 DEF close_run, Leave, End, Become, At, Residency, RunInv,
     SectionInv, InSection, OpShape, IsOp, Idle, At
<1>30. CASE UNCHANGED saeVars
  BY <1>30 DEF saeVars, RunInv, SectionInv, InSection, OpShape, IsOp, Idle,
     At, Residency
<1> QED
  BY <1>1, <1>2, <1>3, <1>4, <1>5, <1>6, <1>7, <1>8, <1>9, <1>10, <1>11,
     <1>12, <1>13, <1>14, <1>15, <1>16, <1>17, <1>18, <1>19, <1>20, <1>21,
     <1>22, <1>23, <1>24, <1>25, <1>26, <1>27, <1>28, <1>29, <1>30 DEF SaeNext

\* Every step leaves nothing that outlives its dictionary.
LEMMA NothingStep ==
  ASSUME OpShape, ResidentShape, SourceShape, SpecShape, SectionInv, CarriedInv,
         NothingOutlivesItsDictionary, UnitsAreOfTheirDictionary, [SaeNext]_saeVars
  PROVE  NothingOutlivesItsDictionary'
<1> USE SaeConstants
<1>1. ASSUME OtherProcess
      PROVE  NothingOutlivesItsDictionary'
  BY <1>1 DEF OtherProcess, Instrument, NothingOutlivesItsDictionary,
     OfTheResident, Put, Without, Restrict
<1>2. ASSUME NEW t \in SaeThreads, LoadBegin(t)
      PROVE  NothingOutlivesItsDictionary'
  BY <1>2 DEF LoadBegin, Begin, Enter, Become, Residency,
     NothingOutlivesItsDictionary, OfTheResident, Put, Without, Restrict
<1>3. ASSUME NEW t \in SaeThreads, LoadFails(t)
      PROVE  NothingOutlivesItsDictionary'
  BY <1>3 DEF LoadFails, Leave, End, Become, At, Residency,
     NothingOutlivesItsDictionary, OfTheResident, Put, Without, Restrict
<1>4. ASSUME NEW t \in SaeThreads, LoadPublish(t)
      PROVE  NothingOutlivesItsDictionary'
  BY <1>4 DEF LoadPublish, Become, At, Instrument,
     NothingOutlivesItsDictionary, OfTheResident, Put, Without, Restrict
<1>5. ASSUME NEW t \in SaeThreads, LoadSwap(t)
      PROVE  NothingOutlivesItsDictionary'
  <2>1. probes' = <<>> /\ live' = None /\ directions' = <<>>
    BY <1>5 DEF LoadSwap, _on_swap
  <2> QED
    BY <2>1 DEF NothingOutlivesItsDictionary
<1>6. ASSUME NEW t \in SaeThreads, Unload(t)
      PROVE  NothingOutlivesItsDictionary'
  <2>1. probes' = <<>> /\ live' = None /\ directions' = <<>>
    BY <1>6 DEF Unload, _on_swap
  <2> QED
    BY <2>1 DEF NothingOutlivesItsDictionary
<1>7. ASSUME NEW t \in SaeThreads, TrainBegin(t)
      PROVE  NothingOutlivesItsDictionary'
  BY <1>7 DEF TrainBegin, Begin, Enter, Become, Residency,
     NothingOutlivesItsDictionary, OfTheResident, Put, Without, Restrict
<1>8. ASSUME NEW t \in SaeThreads, TrainSaves(t)
      PROVE  NothingOutlivesItsDictionary'
  BY <1>8 DEF TrainSaves, Leave, Become, At, Instrument,
     NothingOutlivesItsDictionary, OfTheResident, Put, Without, Restrict
<1>9. ASSUME NEW t \in SaeThreads, TrainFails(t)
      PROVE  NothingOutlivesItsDictionary'
  BY <1>9 DEF TrainFails, Leave, End, Become, At, Residency,
     NothingOutlivesItsDictionary, OfTheResident, Put, Without, Restrict
<1>10. ASSUME NEW t \in SaeThreads, TrainLoads(t)
      PROVE  NothingOutlivesItsDictionary'
  BY <1>10 DEF TrainLoads, Enter, Become, At, Residency,
     NothingOutlivesItsDictionary, OfTheResident, Put, Without, Restrict
<1>11. ASSUME NEW t \in SaeThreads, TrainRefused(t)
      PROVE  NothingOutlivesItsDictionary'
  BY <1>11 DEF TrainRefused, End, Become, At, Residency,
     NothingOutlivesItsDictionary, OfTheResident, Put, Without, Restrict
<1>12. ASSUME NEW t \in SaeThreads, Restart(t)
      PROVE  NothingOutlivesItsDictionary'
  <2>1. probes' = <<>> /\ live' = None /\ directions' = <<>>
    BY <1>12 DEF Restart
  <2> QED
    BY <2>1 DEF NothingOutlivesItsDictionary
<1>13. ASSUME NEW t \in SaeThreads, Ask(t)
      PROVE  NothingOutlivesItsDictionary'
  BY <1>13, AskDoes DEF NothingOutlivesItsDictionary, OfTheResident, Residency
<1>14. ASSUME NEW t \in SaeThreads, Fetched(t)
      PROVE  NothingOutlivesItsDictionary'
  <2>1. /\ DOMAIN probes' = DOMAIN probes
        /\ \A name \in DOMAIN probes :
             /\ probes'[name].late = probes[name].late /\ probes'[name].n = probes[name].n
             /\ probes'[name].layer = probes[name].layer
             /\ probes'[name].feature = probes[name].feature
    <3>1. PICK fetched \in Metas : _on_fetched(fetched) \/ UNCHANGED probes
      BY <1>14, FetchedDoes
    <3> QED
      BY <3>1 DEF _on_fetched, SpecShape, IsSpec
  <2> QED
    BY <1>14, <2>1, FetchedKeeps, FetchedOps DEF NothingOutlivesItsDictionary,
       OfTheResident
<1>15. ASSUME NEW t \in SaeThreads, Attach(t)
      PROVE  NothingOutlivesItsDictionary'
  <2> DEFINE spec == [feature |-> op[t].feature, layer |-> op[t].layer, max_act |-> op[t].entry,
                      n |-> op[t].res.n, late |-> ~Current(op[t].res)]
  <2>1. probes' = Put(probes, op[t].name, spec) /\ UNCHANGED <<resident, live, directions>>
    BY <1>15 DEF Attach, Residency
  <2>2. /\ op[t].layer = op[t].res.layer /\ op[t].feature \in WidthOf[op[t].res.release]
        /\ Current(op[t].res) => DictionaryOf(resident) = DictionaryOf(op[t].res)
    BY <1>15 DEF Attach, At, CarriedInv, Carried
  <2>3. spec.late \/ (OfTheResident(spec.n, spec.layer) /\ spec.feature \in WidthOf[resident.release])
    BY <2>2 DEF OfTheResident, Current, DictionaryOf, Dictionary
  <2> HIDE DEF spec
  <2> QED
    BY <2>1, <2>3 DEF NothingOutlivesItsDictionary, OfTheResident, Put
<1>16. ASSUME NEW t \in SaeThreads, AttachRefused(t)
      PROVE  NothingOutlivesItsDictionary'
  BY <1>16 DEF AttachRefused, End, Become, At, Residency,
     NothingOutlivesItsDictionary, OfTheResident, Put, Without, Restrict
<1>17. ASSUME NEW t \in SaeThreads, try_detach(t)
      PROVE  NothingOutlivesItsDictionary'
  BY <1>17 DEF try_detach, Begin, Become, Residency,
     NothingOutlivesItsDictionary, OfTheResident, Put, Without, Restrict
<1>18. ASSUME NEW t \in SaeThreads, Changed(t)
      PROVE  NothingOutlivesItsDictionary'
  BY <1>18 DEF Changed, End, Become, At, Residency,
     NothingOutlivesItsDictionary, OfTheResident, Put, Without, Restrict
<1>19. ASSUME NEW t \in SaeThreads, HashRead(t)
      PROVE  NothingOutlivesItsDictionary'
  BY <1>19 DEF HashRead, Begin, Become, Residency,
     NothingOutlivesItsDictionary, OfTheResident, Put, Without, Restrict
<1>20. ASSUME NEW t \in SaeThreads, HashStore(t)
      PROVE  NothingOutlivesItsDictionary'
  BY <1>20 DEF HashStore, End, Become, At, Residency,
     NothingOutlivesItsDictionary, OfTheResident, Put, Without, Restrict
<1>21. ASSUME NEW t \in SaeThreads, enable_live(t)
      PROVE  NothingOutlivesItsDictionary'
  BY <1>21 DEF enable_live, Begin, Become, Residency,
     NothingOutlivesItsDictionary, OfTheResident, Put, Without, Restrict
<1>22. ASSUME NEW t \in SaeThreads, EnabledLive(t)
      PROVE  NothingOutlivesItsDictionary'
  <2> DEFINE new == [layer |-> op[t].res.layer, source |-> op[t].res.release,
                     late |-> ~Current(op[t].res)]
  <2>1. live' = new /\ UNCHANGED <<resident, probes, directions>>
    BY <1>22 DEF EnabledLive, Residency
  <2>2. Current(op[t].res) => DictionaryOf(resident) = DictionaryOf(op[t].res)
    BY <1>22 DEF EnabledLive, At, CarriedInv, Carried
  <2>3. new.late \/ (resident # None /\ new.layer = resident.layer /\ new.source = resident.release)
    BY <2>2 DEF Current, DictionaryOf, Dictionary
  <2> HIDE DEF new
  <2> QED
    BY <2>1, <2>3 DEF NothingOutlivesItsDictionary, OfTheResident
<1>23. ASSUME NEW t \in SaeThreads, disable_live(t)
      PROVE  NothingOutlivesItsDictionary'
  BY <1>23 DEF disable_live, Residency, NothingOutlivesItsDictionary,
     OfTheResident, Put, Without, Restrict
<1>24. ASSUME NEW t \in SaeThreads, Generate(t)
      PROVE  NothingOutlivesItsDictionary'
  BY <1>24 DEF Generate, Begin, Enter, Become, Residency,
     NothingOutlivesItsDictionary, OfTheResident, Put, Without, Restrict
<1>25. ASSUME NEW t \in SaeThreads, register_direction(t)
      PROVE  NothingOutlivesItsDictionary'
  BY <1>25 DEF register_direction, At, NothingOutlivesItsDictionary,
     OfTheResident, Put, Without, Restrict
<1>26. ASSUME NEW t \in SaeThreads, Plan(t)
      PROVE  NothingOutlivesItsDictionary'
  BY <1>26 DEF Plan, Become, At, Residency, NothingOutlivesItsDictionary,
     OfTheResident, Put, Without, Restrict
<1>27. ASSUME NEW t \in SaeThreads, bind(t)
      PROVE  NothingOutlivesItsDictionary'
  BY <1>27 DEF bind, Become, At, Residency, NothingOutlivesItsDictionary,
     OfTheResident, Put, Without, Restrict
<1>28. ASSUME NEW t \in SaeThreads, Measure(t)
      PROVE  NothingOutlivesItsDictionary'
  BY <1>28 DEF Measure, At, Residency, NothingOutlivesItsDictionary,
     OfTheResident, Put, Without, Restrict
<1>29. ASSUME NEW t \in SaeThreads, close_run(t)
      PROVE  NothingOutlivesItsDictionary'
  BY <1>29 DEF close_run, Leave, End, Become, At, Residency,
     NothingOutlivesItsDictionary, OfTheResident, Put, Without, Restrict
<1>30. CASE UNCHANGED saeVars
  BY <1>30 DEF saeVars, NothingOutlivesItsDictionary, OfTheResident, Put,
     Without, Restrict, Residency
<1> QED
  BY <1>1, <1>2, <1>3, <1>4, <1>5, <1>6, <1>7, <1>8, <1>9, <1>10, <1>11,
     <1>12, <1>13, <1>14, <1>15, <1>16, <1>17, <1>18, <1>19, <1>20, <1>21,
     <1>22, <1>23, <1>24, <1>25, <1>26, <1>27, <1>28, <1>29, <1>30 DEF SaeNext

\* UnitsAreOfTheirDictionary, one probe and one mapping at a time.
OfDictionary(specs, d) == \A name \in DOMAIN specs : specs[name].late \/ specs[name].max_act \in {None, d}
UnitsPointwise ==
  /\ resident # None => /\ UnitsIn(resident.meta) \subseteq {None, DictionaryOf(resident)}
                        /\ OfDictionary(probes, DictionaryOf(resident))
  /\ \A r \in DOMAIN source.features :
       UnitsIn(source.features[r].rows) \subseteq {None, Dictionary(r, source.features[r].layer)}

LEMMA UnitsAre ==
  /\ UnitsAreOfTheirDictionary => UnitsPointwise
  /\ UnitsPointwise /\ SectionInv /\ RunInv => UnitsAreOfTheirDictionary
<1>1. ASSUME NEW specs, NEW d
      PROVE  UnitsOf(specs) \subseteq {None, d} <=> OfDictionary(specs, d)
  BY DEF OfDictionary, UnitsOf
<1> QED
  BY <1>1 DEF UnitsAreOfTheirDictionary, UnitsPointwise, SectionInv, RunInv

\* Every step keeps units with their dictionary: the rows and the probes.
LEMMA UnitsStep ==
  ASSUME OpShape, ResidentShape, SourceShape, SpecShape, SectionInv, CarriedInv,
         RunInv, UnitsAreOfTheirDictionary, [SaeNext]_saeVars
  PROVE  UnitsPointwise'
<1> USE SaeConstants
<1> UnitsPointwise
  BY UnitsAre
<1>1. ASSUME OtherProcess
      PROVE  UnitsPointwise'
  <2>1. \/ source'.features = source.features
        \/ \E r : source'.features = Without(source.features, {r})
    <3> DEFINE keep(f, r) == Without(f, {r})
    <3>1. PICK r : \/ source' = [source EXCEPT !.active = r]
                  \/ source' = [active |-> IF source.active = r THEN None ELSE source.active,
                                 binding |-> keep(source.binding, r), features |-> keep(source.features, r),
                                 trained |-> source.trained \ {r}]
      BY <1>1 DEF OtherProcess
    <3> HIDE DEF keep
    <3>2. source'.features \in {source.features, keep(source.features, r)}
      BY <3>1 DEF SourceShape, IsSource
    <3> QED
      BY <3>2 DEF keep
  <2>2. DOMAIN source'.features \subseteq DOMAIN source.features
        /\ \A r \in DOMAIN source'.features : source'.features[r] = source.features[r]
    BY <2>1 DEF Without, Restrict
  <2>3. UNCHANGED <<resident, probes, run>>
    BY <1>1 DEF OtherProcess, Instrument
  <2> QED
    BY <2>2, <2>3 DEF UnitsPointwise
<1>2. ASSUME NEW t \in SaeThreads, LoadBegin(t)
      PROVE  UnitsPointwise'
  BY <1>2 DEF LoadBegin, Begin, Enter, Become, Residency, UnitsPointwise,
     OfDictionary, Without, Restrict, At
<1>3. ASSUME NEW t \in SaeThreads, LoadFails(t)
      PROVE  UnitsPointwise'
  BY <1>3 DEF LoadFails, Leave, End, Become, At, Residency, UnitsPointwise,
     OfDictionary, Without, Restrict, At
<1>4. ASSUME NEW t \in SaeThreads, LoadPublish(t)
      PROVE  UnitsPointwise'
  <2>1. source'.features = source.features /\ UNCHANGED <<resident, probes, run>>
    BY <1>4 DEF LoadPublish, SourceShape, IsSource, Instrument
  <2> QED
    BY <2>1 DEF UnitsPointwise
<1>5. ASSUME NEW t \in SaeThreads, LoadSwap(t)
      PROVE  UnitsPointwise'
  <2>1. UnitsIn(op[t].entry) \subseteq {None, Dictionary(op[t].release, op[t].layer)}
    BY <1>5 DEF LoadSwap, At, CarriedInv, Carried
  <2>2. /\ resident' = [n |-> loaded + 1, release |-> op[t].release, layer |-> op[t].layer,
                        meta |-> op[t].entry]
        /\ probes' = <<>> /\ UNCHANGED <<source, run>>
    BY <1>5 DEF LoadSwap, _on_swap
  <2>3. resident'.meta = op[t].entry /\ DictionaryOf(resident') = Dictionary(op[t].release, op[t].layer)
    BY <2>2 DEF DictionaryOf
  <2>4. run = None
    BY <1>5 DEF LoadSwap, SectionInv, At, InSection
  <2> QED
    <3>1. UnitsIn(resident'.meta) \subseteq {None, DictionaryOf(resident')}
      BY <2>1, <2>3
    <3>2. OfDictionary(probes', DictionaryOf(resident'))
      BY <2>2 DEF OfDictionary
    <3> QED
      BY <2>2, <2>4, <3>1, <3>2 DEF UnitsPointwise, OfDictionary
<1>6. ASSUME NEW t \in SaeThreads, Unload(t)
      PROVE  UnitsPointwise'
  BY <1>6 DEF Unload, Begin, _on_swap, UnitsPointwise, OfDictionary, Without,
     Restrict, At
<1>7. ASSUME NEW t \in SaeThreads, TrainBegin(t)
      PROVE  UnitsPointwise'
  BY <1>7 DEF TrainBegin, Begin, Enter, Become, Residency, UnitsPointwise,
     OfDictionary, Without, Restrict, At
<1>8. ASSUME NEW t \in SaeThreads, TrainSaves(t)
      PROVE  UnitsPointwise'
  BY <1>8 DEF TrainSaves, Leave, Become, At, Instrument, UnitsPointwise,
     OfDictionary, Without, Restrict, At
<1>9. ASSUME NEW t \in SaeThreads, TrainFails(t)
      PROVE  UnitsPointwise'
  BY <1>9 DEF TrainFails, Leave, End, Become, At, Residency, UnitsPointwise,
     OfDictionary, Without, Restrict, At
<1>10. ASSUME NEW t \in SaeThreads, TrainLoads(t)
      PROVE  UnitsPointwise'
  BY <1>10 DEF TrainLoads, Enter, Become, At, Residency, UnitsPointwise,
     OfDictionary, Without, Restrict, At
<1>11. ASSUME NEW t \in SaeThreads, TrainRefused(t)
      PROVE  UnitsPointwise'
  BY <1>11 DEF TrainRefused, End, Become, At, Residency, UnitsPointwise,
     OfDictionary, Without, Restrict, At
<1>12. ASSUME NEW t \in SaeThreads, Restart(t)
      PROVE  UnitsPointwise'
  BY <1>12, RestartDoes DEF UnitsPointwise
<1>13. ASSUME NEW t \in SaeThreads, Ask(t)
      PROVE  UnitsPointwise'
  BY <1>13, AskDoes DEF UnitsPointwise, Residency
<1>14. ASSUME NEW t \in SaeThreads, Fetched(t)
      PROVE  UnitsPointwise'
  <2>1. PICK fetched \in Metas :
          /\ UnitsIn(fetched) \subseteq {None, DictionaryOf(op[t].res)}
          /\ IF Current(op[t].res) /\ fetched # <<>>
             THEN LET meta == Over(fetched, resident.meta)
                  IN /\ resident' = [resident EXCEPT !.meta = meta]
                     /\ source' = [source EXCEPT !.features =
                          Put(@, resident.release, [layer |-> resident.layer, rows |-> Saved(meta)])]
                     /\ _on_fetched(fetched)
             ELSE UNCHANGED <<resident, source, probes, digests>>
    BY <1>14, FetchedDoes
  <2>2. run' = run
    BY <1>14, FetchedOps
  <2>3. CASE ~(Current(op[t].res) /\ fetched # <<>>)
    BY <2>1, <2>2, <2>3 DEF UnitsPointwise
  <2>4. CASE Current(op[t].res) /\ fetched # <<>>
    <3> DEFINE meta == Over(fetched, resident.meta)
               d == DictionaryOf(resident)
               new == [layer |-> resident.layer, rows |-> Saved(meta)]
               f == Put(source.features, resident.release, new)
    <3>1. resident # None /\ resident \in Residencies /\ resident' # None /\ DictionaryOf(resident') = d
      BY <1>14, <2>4, FetchedKeeps DEF Current, ResidentShape
    <3>2. DictionaryOf(op[t].res) = d
      BY <1>14, <2>4, FetchedPlace DEF CarriedInv, Carried
    <3>3. UnitsIn(fetched) \subseteq {None, d} /\ UnitsIn(resident.meta) \subseteq {None, d}
      BY <2>1, <3>1, <3>2 DEF UnitsPointwise
    <3>4. meta \in Metas /\ UnitsIn(meta) \subseteq {None, d}
      BY <3>1, <3>3, ResidencyShape, OverRows
    <3>5. UnitsIn(Saved(meta)) \subseteq {None, d}
      BY <3>4, SavedRows
    <3>6. resident' = [resident EXCEPT !.meta = meta] /\ source' = [source EXCEPT !.features = f]
      BY <2>1, <2>4
    <3>7. resident'.meta = meta
      BY <3>1, <3>4, <3>6, ResidencyShape
    <3>8. source'.features = f
      BY <3>6 DEF SourceShape, IsSource
    <3>9. \A r \in DOMAIN f : UnitsIn(f[r].rows) \subseteq {None, Dictionary(r, f[r].layer)}
      <4>1. new.rows = Saved(meta) /\ new.layer = resident.layer
        OBVIOUS
      <4> HIDE DEF meta, new
      <4> QED
        BY <3>5, <4>1 DEF UnitsPointwise, Put, DictionaryOf
    <3>10. OfDictionary(probes', d)
      <4>1. \A name \in DOMAIN probes' :
              /\ name \in DOMAIN probes /\ probes'[name].late = probes[name].late
              /\ \/ probes'[name].max_act = probes[name].max_act
                 \/ probes'[name].max_act \in UnitsIn(fetched)
        <5>1. _on_fetched(fetched)
          BY <2>1, <2>4
        <5>2. \A g \in DOMAIN fetched : fetched[g].unit \in UnitsIn(fetched)
          BY DEF UnitsIn
        <5> QED
          BY <5>1, <5>2 DEF _on_fetched, SpecShape, IsSpec
      <4>2. OfDictionary(probes, d)
        BY <3>1 DEF UnitsPointwise
      <4> HIDE DEF d
      <4> QED
        BY <3>3, <4>1, <4>2 DEF OfDictionary
    <3> HIDE DEF f, meta
    <3> QED
      BY <2>2, <3>1, <3>4, <3>7, <3>8, <3>9, <3>10 DEF UnitsPointwise
  <2> QED
    BY <2>3, <2>4
<1>15. ASSUME NEW t \in SaeThreads, Attach(t)
      PROVE  UnitsPointwise'
  <2> DEFINE spec == [feature |-> op[t].feature, layer |-> op[t].layer, max_act |-> op[t].entry,
                      n |-> op[t].res.n, late |-> ~Current(op[t].res)]
  <2>1. probes' = Put(probes, op[t].name, spec) /\ UNCHANGED <<resident, source, run>>
    BY <1>15 DEF Attach, Residency
  <2>2. /\ op[t].entry \in {None, DictionaryOf(op[t].res)}
        /\ Current(op[t].res) => DictionaryOf(resident) = DictionaryOf(op[t].res)
    BY <1>15 DEF Attach, At, CarriedInv, Carried
  <2>3. spec.late \/ spec.max_act \in {None, DictionaryOf(resident)}
    BY <2>2
  <2> HIDE DEF spec
  <2> QED
    BY <2>1, <2>3 DEF UnitsPointwise, OfDictionary, Put
<1>16. ASSUME NEW t \in SaeThreads, AttachRefused(t)
      PROVE  UnitsPointwise'
  BY <1>16 DEF AttachRefused, End, Become, At, Residency, UnitsPointwise,
     OfDictionary, Without, Restrict, At
<1>17. ASSUME NEW t \in SaeThreads, try_detach(t)
      PROVE  UnitsPointwise'
  BY <1>17 DEF try_detach, Begin, Become, Residency, UnitsPointwise,
     OfDictionary, Without, Restrict, At
<1>18. ASSUME NEW t \in SaeThreads, Changed(t)
      PROVE  UnitsPointwise'
  BY <1>18 DEF Changed, End, Become, At, Residency, UnitsPointwise,
     OfDictionary, Without, Restrict, At
<1>19. ASSUME NEW t \in SaeThreads, HashRead(t)
      PROVE  UnitsPointwise'
  BY <1>19 DEF HashRead, Begin, Become, Residency, UnitsPointwise,
     OfDictionary, Without, Restrict, At
<1>20. ASSUME NEW t \in SaeThreads, HashStore(t)
      PROVE  UnitsPointwise'
  BY <1>20 DEF HashStore, End, Become, At, Residency, UnitsPointwise,
     OfDictionary, Without, Restrict, At
<1>21. ASSUME NEW t \in SaeThreads, enable_live(t)
      PROVE  UnitsPointwise'
  BY <1>21 DEF enable_live, Begin, Become, Residency, UnitsPointwise,
     OfDictionary, Without, Restrict, At
<1>22. ASSUME NEW t \in SaeThreads, EnabledLive(t)
      PROVE  UnitsPointwise'
  BY <1>22 DEF EnabledLive, End, Become, At, Residency, UnitsPointwise,
     OfDictionary, Without, Restrict, At
<1>23. ASSUME NEW t \in SaeThreads, disable_live(t)
      PROVE  UnitsPointwise'
  BY <1>23 DEF disable_live, Residency, UnitsPointwise, OfDictionary, Without,
     Restrict, At
<1>24. ASSUME NEW t \in SaeThreads, Generate(t)
      PROVE  UnitsPointwise'
  BY <1>24 DEF Generate, Begin, Enter, Become, Residency, UnitsPointwise,
     OfDictionary, Without, Restrict, At
<1>25. ASSUME NEW t \in SaeThreads, register_direction(t)
      PROVE  UnitsPointwise'
  BY <1>25 DEF register_direction, At, UnitsPointwise, OfDictionary, Without,
     Restrict, At
<1>26. ASSUME NEW t \in SaeThreads, Plan(t)
      PROVE  UnitsPointwise'
  BY <1>26 DEF Plan, Become, At, Residency, UnitsPointwise, OfDictionary,
     Without, Restrict, At
<1>27. ASSUME NEW t \in SaeThreads, bind(t)
      PROVE  UnitsPointwise'
  BY <1>27 DEF bind, Become, At, Residency, UnitsPointwise, OfDictionary,
     Without, Restrict, At
<1>28. ASSUME NEW t \in SaeThreads, Measure(t)
      PROVE  UnitsPointwise'
  BY <1>28 DEF Measure, At, Residency, UnitsPointwise, OfDictionary, Without,
     Restrict, At
<1>29. ASSUME NEW t \in SaeThreads, close_run(t)
      PROVE  UnitsPointwise'
  BY <1>29 DEF close_run, Leave, End, Become, At, Residency, UnitsPointwise,
     OfDictionary, Without, Restrict, At
<1>30. CASE UNCHANGED saeVars
  BY <1>30 DEF saeVars, UnitsPointwise, OfDictionary, Without, Restrict, At,
     Residency
<1> QED
  BY <1>1, <1>2, <1>3, <1>4, <1>5, <1>6, <1>7, <1>8, <1>9, <1>10, <1>11,
     <1>12, <1>13, <1>14, <1>15, <1>16, <1>17, <1>18, <1>19, <1>20, <1>21,
     <1>22, <1>23, <1>24, <1>25, <1>26, <1>27, <1>28, <1>29, <1>30 DEF SaeNext

\* A cached digest of an attached probe is current, was stored late, or is about
\* to be dropped.
DigestOf(name) ==
  \/ digests[name].late
  \/ \E t \in SaeThreads : At(t, "changed") /\ op[t].name = name
  \/ digests[name].is = Identity(name)

LEMMA DigestAre == DigestIsCurrent <=> \A name \in DOMAIN digests \cap DOMAIN probes : DigestOf(name)
BY DEF DigestIsCurrent, DigestOf

\* Every step keeps the digests that of what the probes mean.
LEMMA DigestStep ==
  ASSUME OpShape, ResidentShape, SourceShape, SpecShape, SectionInv, CarriedInv,
         UnitsAreOfTheirDictionary, DigestIsCurrent, [SaeNext]_saeVars
  PROVE  DigestIsCurrent'
<1> USE SaeConstants
<1>1. ASSUME OtherProcess
      PROVE  DigestIsCurrent'
  BY <1>1 DEF OtherProcess, Instrument, DigestIsCurrent, Identity, max_act,
     OpShape, IsOp, Idle, At
<1>2. ASSUME NEW t \in SaeThreads, LoadBegin(t)
      PROVE  DigestIsCurrent'
  BY <1>2 DEF LoadBegin, Begin, Enter, Become, Residency, DigestIsCurrent,
     Identity, max_act, OpShape, IsOp, Idle, At
<1>3. ASSUME NEW t \in SaeThreads, LoadFails(t)
      PROVE  DigestIsCurrent'
  BY <1>3 DEF LoadFails, Leave, End, Become, At, Residency, DigestIsCurrent,
     Identity, max_act, OpShape, IsOp, Idle, At
<1>4. ASSUME NEW t \in SaeThreads, LoadPublish(t)
      PROVE  DigestIsCurrent'
  BY <1>4 DEF LoadPublish, Become, At, Instrument, DigestIsCurrent, Identity,
     max_act, OpShape, IsOp, Idle, At
<1>5. ASSUME NEW t \in SaeThreads, LoadSwap(t)
      PROVE  DigestIsCurrent'
  <2>1. probes' = <<>>
    BY <1>5 DEF LoadSwap, _on_swap
  <2> QED
    BY <2>1 DEF DigestIsCurrent
<1>6. ASSUME NEW t \in SaeThreads, Unload(t)
      PROVE  DigestIsCurrent'
  <2>1. probes' = <<>>
    BY <1>6 DEF Unload, _on_swap
  <2> QED
    BY <2>1 DEF DigestIsCurrent
<1>7. ASSUME NEW t \in SaeThreads, TrainBegin(t)
      PROVE  DigestIsCurrent'
  BY <1>7 DEF TrainBegin, Begin, Enter, Become, Residency, DigestIsCurrent,
     Identity, max_act, OpShape, IsOp, Idle, At
<1>8. ASSUME NEW t \in SaeThreads, TrainSaves(t)
      PROVE  DigestIsCurrent'
  BY <1>8 DEF TrainSaves, Leave, Become, At, Instrument, DigestIsCurrent,
     Identity, max_act, OpShape, IsOp, Idle, At
<1>9. ASSUME NEW t \in SaeThreads, TrainFails(t)
      PROVE  DigestIsCurrent'
  BY <1>9 DEF TrainFails, Leave, End, Become, At, Residency, DigestIsCurrent,
     Identity, max_act, OpShape, IsOp, Idle, At
<1>10. ASSUME NEW t \in SaeThreads, TrainLoads(t)
      PROVE  DigestIsCurrent'
  BY <1>10 DEF TrainLoads, Enter, Become, At, Residency, DigestIsCurrent,
     Identity, max_act, OpShape, IsOp, Idle, At
<1>11. ASSUME NEW t \in SaeThreads, TrainRefused(t)
      PROVE  DigestIsCurrent'
  BY <1>11 DEF TrainRefused, End, Become, At, Residency, DigestIsCurrent,
     Identity, max_act, OpShape, IsOp, Idle, At
<1>12. ASSUME NEW t \in SaeThreads, Restart(t)
      PROVE  DigestIsCurrent'
  <2>1. probes' = <<>>
    BY <1>12 DEF Restart
  <2> QED
    BY <2>1 DEF DigestIsCurrent
<1>13. ASSUME NEW t \in SaeThreads, Ask(t)
      PROVE  DigestIsCurrent'
  <2>1. /\ \A u \in SaeThreads : u # t => op'[u] = op[u]
        /\ ~At(t, "changed") /\ UNCHANGED <<resident, probes, digests>>
    BY <1>13, AskDoes DEF At, Residency, Idle
  <2> QED
    BY <2>1 DEF DigestIsCurrent, Identity, max_act, At
<1>14. ASSUME NEW t \in SaeThreads, Fetched(t)
      PROVE  DigestIsCurrent'
  <2>1. PICK fetched \in Metas :
          IF Current(op[t].res) /\ fetched # <<>>
          THEN LET meta == Over(fetched, resident.meta)
               IN resident' = [resident EXCEPT !.meta = meta] /\ _on_fetched(fetched)
          ELSE UNCHANGED <<resident, source, probes, digests>>
    BY <1>14, FetchedDoes
  <2>2. /\ \A u \in SaeThreads : u # t => op'[u] = op[u]
        /\ ~At(t, "changed")
    BY <1>14, FetchedOps, FetchedPlace DEF At
  <2>3. CASE ~(Current(op[t].res) /\ fetched # <<>>)
    BY <2>1, <2>2, <2>3 DEF DigestIsCurrent, Identity, max_act, At
  <2>4. CASE Current(op[t].res) /\ fetched # <<>>
    <3> DEFINE meta == Over(fetched, resident.meta)
    <3>1. /\ resident # None /\ resident \in Residencies /\ resident' # None
          /\ resident'.release = resident.release
      BY <1>14, <2>4, FetchedKeeps DEF Current, ResidentShape
    <3>2. meta \in Metas /\ \A f : f \notin DOMAIN fetched => UnitIn(meta, f) = UnitIn(resident.meta, f)
      BY <3>1, ResidencyShape, OverRows
    <3>3. resident'.meta = meta
      <4>1. resident' = [resident EXCEPT !.meta = meta]
        BY <2>1, <2>4
      <4> QED
        BY <3>1, <3>2, <4>1, ResidencyShape
    <3> HIDE DEF meta
    <3>4. SUFFICES ASSUME NEW name \in DOMAIN digests' \cap DOMAIN probes'
                   PROVE  DigestOf(name)'
      BY DEF DigestIsCurrent, DigestOf
    <3>5. /\ name \in DOMAIN probes /\ name \in DOMAIN digests
          /\ digests'[name] = digests[name] /\ probes'[name] = probes[name]
          /\ probes[name].feature \notin DOMAIN fetched
      BY <2>1, <2>4 DEF _on_fetched, Without, Restrict
    <3>6. Identity(name)' = Identity(name)
      BY <3>1, <3>2, <3>3, <3>5 DEF Identity, max_act
    <3> QED
      BY <2>2, <3>5, <3>6 DEF DigestIsCurrent, DigestOf, At
  <2> QED
    BY <2>3, <2>4
<1>15. ASSUME NEW t \in SaeThreads, Attach(t)
      PROVE  DigestIsCurrent'
  <2>1. /\ op'[t] = [Idle EXCEPT !.at = "changed", !.name = op[t].name] /\ op[t].at = "attach"
        /\ \A u \in SaeThreads : u # t => op'[u] = op[u]
    BY <1>15, BecomeDoes DEF Attach, At
  <2>2. op'[t].at = "changed" /\ op'[t].name = op[t].name
    BY <2>1 DEF Idle
  <2>3. /\ \A name \in DOMAIN probes' : name # op[t].name =>
             name \in DOMAIN probes /\ probes'[name] = probes[name]
        /\ UNCHANGED <<resident, digests>>
    BY <1>15 DEF Attach, Put, Residency
  <2>7. SUFFICES ASSUME NEW name \in DOMAIN digests' \cap DOMAIN probes'
                 PROVE  DigestOf(name)'
    BY DEF DigestIsCurrent, DigestOf
  <2>8. CASE name = op[t].name
    BY <2>2, <2>8 DEF DigestOf, At
  <2>9. CASE name # op[t].name
    <3>1. /\ name \in DOMAIN probes /\ probes'[name] = probes[name]
          /\ name \in DOMAIN digests /\ digests'[name] = digests[name]
      BY <2>3, <2>9
    <3>2. Identity(name)' = Identity(name)
      BY <2>3, <3>1 DEF Identity, max_act
    <3> QED
      BY <2>1, <3>1, <3>2 DEF DigestIsCurrent, DigestOf, At
  <2> QED
    BY <2>8, <2>9
<1>16. ASSUME NEW t \in SaeThreads, AttachRefused(t)
      PROVE  DigestIsCurrent'
  BY <1>16 DEF AttachRefused, End, Become, At, Residency, DigestIsCurrent,
     Identity, max_act, OpShape, IsOp, Idle, At
<1>17. ASSUME NEW t \in SaeThreads, try_detach(t)
      PROVE  DigestIsCurrent'
  <2>1. PICK name \in DOMAIN probes :
          /\ op'[t] = [Idle EXCEPT !.at = "changed", !.name = name] /\ op[t] = Idle
          /\ probes' = Without(probes, {name}) /\ UNCHANGED <<resident, digests>>
          /\ \A u \in SaeThreads : u # t => op'[u] = op[u]
    BY <1>17, BecomeDoes DEF try_detach, Begin, Residency
  <2> QED
    BY <2>1 DEF DigestIsCurrent, Identity, max_act, At, Idle, Without, Restrict
<1>18. ASSUME NEW t \in SaeThreads, Changed(t)
      PROVE  DigestIsCurrent'
  <2>1. /\ op[t].at = "changed" /\ op'[t].at = "idle"
        /\ digests' = Without(digests, {op[t].name}) /\ UNCHANGED <<resident, probes>>
        /\ \A u \in SaeThreads : u # t => op'[u] = op[u]
    BY <1>18, BecomeDoes DEF Changed, End, At, Residency, Idle
  <2>2. \A name \in DOMAIN digests' :
          name \in DOMAIN digests /\ name # op[t].name /\ digests'[name] = digests[name]
    BY <2>1 DEF Without, Restrict
  <2>7. SUFFICES ASSUME NEW name \in DOMAIN digests' \cap DOMAIN probes'
                 PROVE  DigestOf(name)'
    BY DEF DigestIsCurrent, DigestOf
  <2>8. /\ name \in DOMAIN digests /\ name # op[t].name /\ digests'[name] = digests[name]
        /\ Identity(name)' = Identity(name)
    BY <2>1, <2>2 DEF Identity, max_act
  <2> QED
    BY <2>1, <2>8 DEF DigestIsCurrent, DigestOf, At
<1>19. ASSUME NEW t \in SaeThreads, HashRead(t)
      PROVE  DigestIsCurrent'
  <2>1. /\ op[t].at = "idle" /\ UNCHANGED <<resident, probes, digests>>
        /\ \A u \in SaeThreads : u # t => op'[u] = op[u]
    BY <1>19, BecomeDoes DEF HashRead, Begin, Idle, Residency
  <2> QED
    BY <2>1 DEF DigestIsCurrent, Identity, max_act, At
<1>20. ASSUME NEW t \in SaeThreads, HashStore(t)
      PROVE  DigestIsCurrent'
  <2> DEFINE new == [is |-> op[t].digest,
          late |-> op[t].name \notin DOMAIN probes \/ Identity(op[t].name) # op[t].digest]
  <2>1. /\ op[t].at = "hash" /\ UNCHANGED <<resident, probes>>
        /\ digests' = Put(digests, op[t].name, new)
        /\ \A u \in SaeThreads : u # t => op'[u] = op[u]
    BY <1>20, BecomeDoes DEF HashStore, End, At, Residency
  <2>2. new.late \/ new.is = Identity(op[t].name)
    OBVIOUS
  <2> HIDE DEF new
  <2>3. \A name \in DOMAIN digests' :
          \/ name \in DOMAIN digests /\ digests'[name] = digests[name]
          \/ name = op[t].name /\ digests'[name] = new
    BY <2>1 DEF Put
  <2> QED
    BY <2>1, <2>2, <2>3 DEF DigestIsCurrent, Identity, max_act, At
<1>21. ASSUME NEW t \in SaeThreads, enable_live(t)
      PROVE  DigestIsCurrent'
  BY <1>21 DEF enable_live, Begin, Become, Residency, DigestIsCurrent,
     Identity, max_act, OpShape, IsOp, Idle, At
<1>22. ASSUME NEW t \in SaeThreads, EnabledLive(t)
      PROVE  DigestIsCurrent'
  BY <1>22 DEF EnabledLive, End, Become, At, Residency, DigestIsCurrent,
     Identity, max_act, OpShape, IsOp, Idle, At
<1>23. ASSUME NEW t \in SaeThreads, disable_live(t)
      PROVE  DigestIsCurrent'
  BY <1>23 DEF disable_live, Residency, DigestIsCurrent, Identity, max_act,
     OpShape, IsOp, Idle, At
<1>24. ASSUME NEW t \in SaeThreads, Generate(t)
      PROVE  DigestIsCurrent'
  BY <1>24 DEF Generate, Begin, Enter, Become, Residency, DigestIsCurrent,
     Identity, max_act, OpShape, IsOp, Idle, At
<1>25. ASSUME NEW t \in SaeThreads, register_direction(t)
      PROVE  DigestIsCurrent'
  BY <1>25 DEF register_direction, At, DigestIsCurrent, Identity, max_act,
     OpShape, IsOp, Idle, At
<1>26. ASSUME NEW t \in SaeThreads, Plan(t)
      PROVE  DigestIsCurrent'
  BY <1>26 DEF Plan, Become, At, Residency, DigestIsCurrent, Identity,
     max_act, OpShape, IsOp, Idle, At
<1>27. ASSUME NEW t \in SaeThreads, bind(t)
      PROVE  DigestIsCurrent'
  BY <1>27 DEF bind, Become, At, Residency, DigestIsCurrent, Identity,
     max_act, OpShape, IsOp, Idle, At
<1>28. ASSUME NEW t \in SaeThreads, Measure(t)
      PROVE  DigestIsCurrent'
  BY <1>28 DEF Measure, At, Residency, DigestIsCurrent, Identity, max_act,
     OpShape, IsOp, Idle, At
<1>29. ASSUME NEW t \in SaeThreads, close_run(t)
      PROVE  DigestIsCurrent'
  BY <1>29 DEF close_run, Leave, End, Become, At, Residency, DigestIsCurrent,
     Identity, max_act, OpShape, IsOp, Idle, At
<1>30. CASE UNCHANGED saeVars
  BY <1>30 DEF saeVars, DigestIsCurrent, Identity, max_act, OpShape, IsOp,
     Idle, At, Residency
<1> QED
  BY <1>1, <1>2, <1>3, <1>4, <1>5, <1>6, <1>7, <1>8, <1>9, <1>10, <1>11,
     <1>12, <1>13, <1>14, <1>15, <1>16, <1>17, <1>18, <1>19, <1>20, <1>21,
     <1>22, <1>23, <1>24, <1>25, <1>26, <1>27, <1>28, <1>29, <1>30 DEF SaeNext

---------------------------------------------------------------------------
(* The theorems.                                                           *)

LEMMA SaeInitHolds == SaeInit => SaeInv
<1> SUFFICES ASSUME SaeInit
             PROVE  SaeInv
  OBVIOUS
<1>1. /\ op = [t \in SaeThreads |-> Idle] /\ resident = None /\ loaded = 0 /\ gpu = None
      /\ source = [active |-> None, binding |-> <<>>, features |-> <<>>, trained |-> {}]
      /\ probes = <<>> /\ live = None /\ directions = <<>> /\ digests = <<>> /\ run = None
  BY DEF SaeInit
<1>2. \A t \in SaeThreads : op[t].at = "idle" /\ IsOp(op[t])
  BY <1>1 DEF Idle, IsOp
<1>3. OpShape /\ ResidentShape /\ SpecShape
  BY <1>1, <1>2 DEF OpShape, ResidentShape, SpecShape
<1>4. SourceShape
  BY <1>1 DEF SourceShape, IsSource
<1>5. SectionInv /\ CarriedInv /\ RunInv
  BY <1>1, <1>2 DEF SectionInv, InSection, CarriedInv, Carried, RunInv, At
<1>6. SelectionInv
  BY <1>1, <1>2 DEF SelectionInv, At
<1>7. NothingOutlivesItsDictionary /\ DigestIsCurrent
  BY <1>1 DEF NothingOutlivesItsDictionary, DigestIsCurrent
<1>8. UnitsAreOfTheirDictionary
  BY <1>1 DEF UnitsAreOfTheirDictionary
<1> QED
  BY <1>3, <1>4, <1>5, <1>6, <1>7, <1>8 DEF SaeInv

LEMMA SaeStep == SaeInv /\ [SaeNext]_saeVars => SaeInv'
<1> SUFFICES ASSUME SaeInv, [SaeNext]_saeVars
             PROVE  SaeInv'
  OBVIOUS
<1> /\ OpShape /\ ResidentShape /\ SourceShape /\ SpecShape
    /\ SectionInv /\ CarriedInv /\ SelectionInv /\ RunInv
    /\ NothingOutlivesItsDictionary /\ UnitsAreOfTheirDictionary /\ DigestIsCurrent
  BY DEF SaeInv
<1>1. OpShape'
  BY OpShapeStep
<1>2. ResidentShape'
  BY ResidentShapeStep
<1>3. SourceShape'
  BY SourceShapeStep
<1>4. SpecShape'
  BY SpecShapeStep
<1>5. SectionInv'
  BY SectionStep
<1>6. CarriedInv'
  BY CarriedStep
<1>7. SelectionInv'
  BY SelectionStep
<1>8. RunInv'
  BY <1>5, RunStep
<1>9. NothingOutlivesItsDictionary'
  BY NothingStep
<1>10. UnitsAreOfTheirDictionary'
  <2>1. UnitsPointwise'
    BY UnitsStep
  <2>2. (UnitsPointwise /\ SectionInv /\ RunInv => UnitsAreOfTheirDictionary)'
    BY UnitsAre, PTL
  <2> QED
    BY <1>5, <1>8, <2>1, <2>2
<1>11. DigestIsCurrent'
  BY DigestStep
<1> QED
  BY <1>1, <1>2, <1>3, <1>4, <1>5, <1>6, <1>7, <1>8, <1>9, <1>10, <1>11 DEF SaeInv

\* The inductive invariant: what threads carry out of the state lock keeps its
\* meaning, and the section, the run, the selection on disk and all that is derived
\* from the resident dictionary agree.
THEOREM SaeInvariant == SaeSpec => []SaeInv
BY SaeInitHolds, SaeStep, PTL DEF SaeSpec

\* Whatever is derived from the resident dictionary is derived from that one, and a
\* generation reads with one dictionary and one unit per probe: DictionaryIsOne for
\* any threads, names, features, releases and layers.
THEOREM OneDictionary == SaeSpec => []DictionaryIsOne
<1>1. SaeInv => OneMeasurePerGeneration
  <2> SUFFICES ASSUME SaeInv, run # None
               PROVE  /\ \A name \in DOMAIN run.units : Cardinality(run.units[name]) <= 1
                      /\ \A read \in run.reads :
                           /\ read.n = run.n
                           /\ read.layer = read.by \/ (run.live # None /\ run.live.late)
    BY DEF OneMeasurePerGeneration
  <2>1. /\ \A name \in DOMAIN run.units : run.units[name] \subseteq {run.specs[name].max_act}
        /\ \A read \in run.reads :
             /\ read.n = run.n
             /\ read.layer = read.by \/ (run.live # None /\ run.live.late)
    BY DEF SaeInv, RunInv, SectionInv
  <2>2. ASSUME NEW S, NEW x, S \subseteq {x}
        PROVE  Cardinality(S) <= 1
    <3>1. S = {} \/ S = {x}
      BY <2>2
    <3>2. Cardinality({}) = 0 /\ Cardinality({x}) = 1
      BY FS_EmptySet, FS_Singleton
    <3> QED
      BY <3>1, <3>2
  <2> QED
    BY <2>1, <2>2
<1>2. SaeInv => DictionaryIsOne
  BY <1>1 DEF SaeInv, DictionaryIsOne
<1> QED
  BY <1>2, SaeInvariant, PTL

\* A restart brings back the dictionary that was resident, at its layer:
\* RestartRestoresTheDictionary for any threads, releases and layers.
THEOREM DictionaryIsRestored == SaeSpec => RestartRestoresTheDictionary
<1> DEFINE Restores ==
      \A t \in SaeThreads :
        At(t, "swap") /\ op[t].expect # None /\ resident # resident' =>
          DictionaryOf(resident') = op[t].expect
<1>1. SaeInv /\ [SaeNext]_saeVars => [Restores]_saeVars
  <2> SUFFICES ASSUME SaeInv, SaeNext, NEW u \in SaeThreads, At(u, "swap"), op[u].expect # None,
                      resident # resident'
               PROVE  DictionaryOf(resident') = op[u].expect
    BY DEF saeVars
  <2>1. /\ OpShape /\ ResidentShape /\ SourceShape /\ SectionInv /\ CarriedInv /\ SelectionInv
    BY DEF SaeInv
  <2>2. /\ resident = None /\ op[u].expect = Dictionary(op[u].release, op[u].layer)
        /\ gpu = u /\ gpu # None
    BY <2>1, SaeConstants DEF SelectionInv, SectionInv, At, InSection
  <2>3. ASSUME NEW t \in SaeThreads, Fetched(t)
        PROVE  FALSE
    BY <2>1, <2>2, <2>3, FetchedKeeps
  <2>4. ASSUME NEW t \in SaeThreads, Restart(t) \/ Unload(t)
        PROVE  FALSE
    BY <2>2, <2>4 DEF Restart, Unload
  <2>5. ASSUME NEW t \in SaeThreads, LoadSwap(t)
        PROVE  DictionaryOf(resident') = op[u].expect
    <3>1. t = u
      BY <2>1, <2>2, <2>5 DEF LoadSwap, SectionInv, At, InSection
    <3>2. resident' = [n |-> loaded + 1, release |-> op[t].release, layer |-> op[t].layer,
                       meta |-> op[t].entry]
      BY <2>5 DEF LoadSwap
    <3> QED
      BY <2>2, <3>1, <3>2 DEF DictionaryOf
  <2> QED
    BY <2>3, <2>4, <2>5, ZenonT(60) DEF SaeNext, OtherProcess, LoadBegin, LoadFails,
       LoadPublish, TrainBegin,
       TrainSaves, TrainFails, TrainLoads, TrainRefused, Ask, Attach, AttachRefused, try_detach,
       Changed, HashRead, HashStore, enable_live, EnabledLive, disable_live, Generate,
       register_direction, Plan, bind, Measure, close_run, Residency
<1> QED
  BY <1>1, SaeInvariant, PTL DEF SaeSpec, RestartRestoresTheDictionary

---------------------------------------------------------------------------
(***************************************************************************)
(* The read plane.                                                         *)
(*                                                                         *)
(* The invariant says in closed form what the capture holds: of n forwards *)
(* a bucket has the last m, in order, and a row sink has one row of each.  *)
(***************************************************************************)

\* The last m of the forwards before the n-th, oldest first.
Window(n, m) == [i \in 1..m |-> n - m + i - 1]

AtMost(a, b) == IF a =< b THEN a ELSE b

\* How many slices of n forwards a plan keeps of a layer.
KeptOf(c, l, n) ==
  IF c.depth = 0 THEN n
  ELSE IF c.depth > 1 /\ l \in c.tail THEN AtMost(n, c.depth)
  ELSE AtMost(n, 1)

Band(f) == CASE f = "geometry" -> GeometryBand [] f = "lens" -> LensBand [] f = "sae" -> SaeBand
GateBand(f) == CASE f = "geometry" -> GatedBand [] f = "lens" -> LensBand [] f = "sae" -> SaeBand

ReadsPcs == {"begin", "decode", "step", "gate", "token", "finalize", "done"}

\* The forwards the capture, and the row sink, have seen.
Captured == IF readsPc = "step" /\ capturing.persistent THEN forwards - 1 ELSE forwards
Sunk == IF readsPc = "step" THEN forwards - 1 ELSE forwards

Shapes ==
  /\ want \in Wants /\ readsPc \in ReadsPcs
  /\ forwards \in Nat
  /\ generated \in Seq({"content", "special"})
  /\ emitted \in Seq(Nat) /\ endpoint \in {"unset", "hidden", "shown"}

\* One token a forward, but for the one that gave EOS.
CountInv ==
  /\ readsPc = "begin" => forwards = 0 /\ generated = <<>> /\ emitted = <<>>
  /\ readsPc = "decode" => Len(generated) = forwards
  /\ readsPc \in {"step", "gate", "token"} => forwards = Len(generated) + 1
  /\ readsPc \in {"finalize", "done"} => forwards \in {Len(generated), Len(generated) + 1}
  /\ \A i \in 1..Len(emitted) : emitted[i] < Len(generated)
  /\ endpoint = "shown" => emitted # <<>>

CaptureInv ==
  IF readsPc = "begin" THEN DOMAIN buckets = ModelLayers
  ELSE /\ capturing = plan_capture(want)
       /\ IF capturing.attach
          THEN /\ buckets = [l \in capturing.layers |->
                               Window(Captured, KeptOf(capturing, l, Captured))]
               /\ capturing.depth > 0 => counted = Captured
          ELSE DOMAIN buckets = ModelLayers
       /\ capturing.persistent /\ readsPc = "step" =>
            buffers = [l \in ModelLayers |-> forwards - 1]
       /\ capturing.sink # "none" => rows = [i \in 1..Sunk |-> SlicesAt(i - 1, SinkBand)]

\* The inductive invariant of a generation's reads.
ReadsInv == Shapes /\ CountInv /\ CaptureInv /\ ReadsAreOfTheirForward

-----------------------------------------------------------------------------
(* The plan.                                                                *)

LEMMA PlanShape ==
  ASSUME NEW w \in Wants
  PROVE  LET c == plan_capture(w) IN
         /\ c.layers \subseteq ModelLayers /\ c.attach = (c.layers # {})
         /\ c.depth \in Nat
         /\ c.persistent => c.attach /\ c.depth > 0
         /\ c.attach \in BOOLEAN /\ c.persistent \in BOOLEAN
<1> USE ReadPlaneAssumption DEF plan_capture, Capturing, FullRetention, Retention
<1>1. CASE w.hidden
  BY <1>1 DEF PlannedRetention
<1>2. CASE ~w.hidden
  <2>1. GeometryLatest(w) \cup LensLatest(w) \cup SaeLatest(w) \subseteq ModelLayers
    BY DEF GeometryLatest, LensLatest, SaeLatest, If
  <2>2. PlannedRetention(w).depth \in Nat /\ PlannedRetention(w).depth > 0
    BY <1>2 DEF PlannedRetention, need_per_token, gating_only, lean_per_token, Wants
  <2> QED
    BY <1>2, <2>1, <2>2 DEF Wants
<1> QED
  BY <1>1, <1>2 DEF Wants

\* Whoever reads a band has its layers hooked.
LEMMA PlanCovers ==
  ASSUME NEW w \in Wants
  PROVE  LET c == plan_capture(w) IN
         /\ "geometry" \in w.gates => GatedBand \subseteq c.layers
         /\ "lens" \in w.gates => LensBand \subseteq c.layers
         /\ "sae" \in w.gates => SaeBand \subseteq c.layers
         /\ w.lensLive => LiveBand \subseteq c.layers
         /\ w.saeLive => SaeBand \subseteq c.layers
         /\ "geometry" \in w.attached /\ per_token_full_consumer(w) => GeometryBand \subseteq c.layers
         /\ w.readings => \A f \in w.attached : Band(f) \subseteq c.layers
         /\ w.hidden => c.layers = ModelLayers /\ c.mode = "FULL" /\ c.sink = "none"
<1> USE ReadPlaneAssumption DEF plan_capture, Capturing
<1>1. w.gates \subseteq w.attached /\ w.attached \subseteq {"geometry", "lens", "sae"}
  BY DEF Wants, Families
<1>2. CASE w.hidden
  BY <1>1, <1>2 DEF PlannedRetention, FullRetention, Retention, Band
<1>3. CASE ~w.hidden
  <2> DEFINE L == GeometryLatest(w) \cup LensLatest(w) \cup SaeLatest(w)
  <2>1. plan_capture(w).layers = L
    BY <1>3
  <2>2. /\ "geometry" \in w.gates => GatedBand \subseteq GeometryLatest(w)
        /\ "geometry" \in w.attached /\ (per_token_full_consumer(w) \/ w.readings) =>
             GeometryBand \subseteq GeometryLatest(w)
    BY <1>1 DEF GeometryLatest, If, gating_only
  <2>3. /\ "lens" \in w.gates \/ ("lens" \in w.attached /\ w.readings) => LensBand \subseteq LensLatest(w)
        /\ w.lensLive => LiveBand \subseteq LensLatest(w)
    BY DEF LensLatest, ReadPinned, If
  <2>4. "sae" \in w.gates \/ ("sae" \in w.attached /\ w.readings) \/ w.saeLive =>
          SaeBand \subseteq SaeLatest(w)
    BY DEF SaeLatest, ReadPinned, If
  <2>5. w.readings => \A f \in w.attached : Band(f) \subseteq L
    BY <1>1, <2>2, <2>3, <2>4 DEF Band
  <2> QED
    BY <1>3, <2>1, <2>2, <2>3, <2>4, <2>5
<1> QED
  BY <1>2, <1>3

\* Which mode keeps what.
LEMMA PlanKeeps ==
  ASSUME NEW w \in Wants
  PROVE  LET c == plan_capture(w)
             sunk == IF c.sink = "subset" THEN GatedBand ELSE GeometryBand IN
         /\ c.mode \in {"FULL", "GATING_SUBSET", "LEAN_INCREMENTAL", "INCREMENTAL", "AGGREGATE_ONLY"}
         /\ c.mode = "FULL" <=> c.depth = 0
         /\ c.sink # "none" <=> c.mode \in {"GATING_SUBSET", "LEAN_INCREMENTAL", "INCREMENTAL"}
         /\ c.sink = "subset" <=> c.mode = "GATING_SUBSET"
         /\ c.sink # "none" => sunk \subseteq c.layers
         /\ c.mode = "LEAN_INCREMENTAL" => "geometry" \notin w.gates
         /\ c.mode = "GATING_SUBSET" => ~per_token_full_consumer(w)
         /\ w.readings /\ c.mode # "FULL" =>
              \A f \in w.attached :
                \/ f = "geometry" /\ c.mode = "INCREMENTAL"
                \/ Band(f) = {}
                \/ c.depth = AggTailDepth /\ Band(f) \subseteq c.tail
<1> USE ReadPlaneAssumption DEF plan_capture, Capturing
<1>1. w.gates \subseteq w.attached /\ w.attached \subseteq {"geometry", "lens", "sae"}
  BY DEF Wants, Families
<1> DEFINE c == plan_capture(w)
<1>2. CASE c.layers = {} \/ w.hidden
  BY <1>2 DEF FullRetention, PlannedRetention, Retention
<1>3. CASE c.layers # {} /\ ~w.hidden
  <2> DEFINE k == PlannedRetention(w)
  <2>1. c.mode = k.mode /\ c.depth = k.depth /\ c.tail = k.tail /\ c.sink = k.sink
    BY <1>3
  <2>2. "geometry" \in w.gates => need_per_token(w)
    BY DEF need_per_token
  <2>3. CASE "geometry" \in w.attached /\ need_per_token(w) /\ gating_only(w)
    <3>1. /\ k.mode = "GATING_SUBSET" /\ k.sink = "subset" /\ k.tail = ModelLayers
          /\ k.depth = IF w.readings THEN AggTailDepth ELSE 1
      BY <1>3, <2>3 DEF PlannedRetention, Retention, gating_only, lean_per_token
    <3>2. GatedBand \subseteq c.layers /\ ~per_token_full_consumer(w)
      BY <2>3, PlanCovers DEF gating_only
    <3> QED
      BY <1>1, <2>1, <3>1, <3>2 DEF Band
  <2>4. CASE "geometry" \in w.attached /\ need_per_token(w) /\ ~gating_only(w) /\ lean_per_token(w)
    <3>1. k = Retention("LEAN_INCREMENTAL", AggTailDepth, ModelLayers, "lean")
      BY <1>3, <2>4 DEF PlannedRetention
    <3>2. GeometryBand \subseteq c.layers
      BY <2>4, PlanCovers DEF gating_only, need_per_token
    <3> QED
      BY <1>1, <2>1, <2>4, <3>1, <3>2 DEF Retention, Band, lean_per_token
  <2>5. CASE "geometry" \in w.attached /\ need_per_token(w) /\ ~gating_only(w) /\ ~lean_per_token(w)
    <3> DEFINE final == IF w.readings THEN AggTailDepth ELSE 1
               readout == {"lens", "sae"} \cap w.gates # {} \/ ReadoutTail(w) # {}
               tail == IF ReadoutTail(w) = {} THEN ModelLayers ELSE ReadoutTail(w)
    <3>1. k = IF readout THEN Retention("INCREMENTAL", final, tail, "full")
                         ELSE Retention("INCREMENTAL", 1, ModelLayers, "full")
      BY <1>3, <2>5 DEF PlannedRetention
    <3>2. GeometryBand \subseteq c.layers
      BY <2>5, PlanCovers DEF gating_only, need_per_token
    <3>3. w.readings => \A f \in w.attached \ {"geometry"} : Band(f) \subseteq ReadoutTail(w)
      BY <1>1 DEF ReadoutTail, ReadPinned, If, Band
    <3>4. /\ k.mode = "INCREMENTAL" /\ k.sink = "full" /\ k.depth # 0
          /\ w.readings /\ ReadoutTail(w) # {} => k.depth = AggTailDepth /\ k.tail = ReadoutTail(w)
      BY <3>1 DEF Retention
    <3> QED
      BY <1>1, <2>1, <2>5, <3>2, <3>3, <3>4
  <2>6. CASE "geometry" \notin w.attached \/ ~need_per_token(w)
    <3>1. /\ k.mode = "AGGREGATE_ONLY" /\ k.sink = "none" /\ k.tail = ModelLayers
          /\ k.depth # 0 /\ (w.readings => k.depth = AggTailDepth)
      BY <1>3, <2>6 DEF PlannedRetention, Retention
    <3> QED
      BY <1>1, <2>1, <3>1 DEF Band
  <2> QED
    BY <2>3, <2>4, <2>5, <2>6
<1> QED
  BY <1>2, <1>3

-----------------------------------------------------------------------------
(* What the capture holds.                                                  *)

LEMMA KeptBounds ==
  ASSUME NEW c, NEW l, NEW n \in Nat, c.depth \in Nat
  PROVE  KeptOf(c, l, n) \in 0..n /\ (n > 0 => KeptOf(c, l, n) > 0)
  BY DEF KeptOf, AtMost

LEMMA WindowIsSeq ==
  ASSUME NEW n \in Nat, NEW m \in 0..n
  PROVE  /\ Window(n, m) \in Seq(Nat) /\ Len(Window(n, m)) = m
         /\ \A i \in 1..m : Window(n, m)[i] = n - m + i - 1
         /\ m > 0 => Window(n, m) # <<>> /\ Last(Window(n, m)) = n - 1
<1>1. Window(n, m) \in [1..m -> Nat]
  BY DEF Window
<1>2. Window(n, m) \in Seq(Nat) /\ Len(Window(n, m)) = m
  BY <1>1
<1>3. \A i \in 1..m : Window(n, m)[i] = n - m + i - 1
  BY DEF Window
<1> QED
  BY <1>2, <1>3 DEF Last

LEMMA EmptyWindow ==
  ASSUME NEW c, NEW l, c.depth \in Nat
  PROVE  Window(0, KeptOf(c, l, 0)) = <<>>
  BY DEF Window, KeptOf, AtMost

LEMMA SeqIsWindow ==
  ASSUME NEW s \in Seq(Nat), NEW n \in Nat, NEW m \in 0..n, Len(s) = m,
         \A i \in 1..m : s[i] = n - m + i - 1
  PROVE  s = Window(n, m)
<1>1. s \in [1..m -> Nat] /\ Window(n, m) \in [1..m -> Nat]
  BY DEF Window
<1>2. \A i \in 1..m : s[i] = Window(n, m)[i]
  BY DEF Window
<1> QED
  BY <1>1, <1>2

LEMMA SeqSteps ==
  ASSUME NEW s \in Seq(Nat), NEW x \in Nat
  PROVE  /\ Append(s, x) \in Seq(Nat) /\ Len(Append(s, x)) = Len(s) + 1
         /\ \A i \in 1..Len(s) : Append(s, x)[i] = s[i]
         /\ Append(s, x)[Len(s) + 1] = x
         /\ s # <<>> => /\ Tail(s) \in Seq(Nat) /\ Len(Tail(s)) = Len(s) - 1
                        /\ \A i \in 1..(Len(s) - 1) : Tail(s)[i] = s[i + 1]
  OBVIOUS

LEMMA WindowAppends ==
  ASSUME NEW n \in Nat, NEW m \in 0..n
  PROVE  Append(Window(n, m), n) = Window(n + 1, m + 1)
<1> DEFINE s == Window(n, m)
           t == Append(s, n)
<1>1. s \in Seq(Nat) /\ Len(s) = m /\ \A i \in 1..m : s[i] = n - m + i - 1
  BY WindowIsSeq
<1>2. t \in Seq(Nat) /\ Len(t) = m + 1 /\ t[m + 1] = n /\ \A i \in 1..m : t[i] = s[i]
  BY <1>1, SeqSteps
<1> HIDE DEF s, t
<1>3. \A i \in 1..(m + 1) : t[i] = (n + 1) - (m + 1) + i - 1
  BY <1>1, <1>2
<1>4. t = Window(n + 1, m + 1)
  BY <1>2, <1>3, SeqIsWindow
<1> QED
  BY <1>4 DEF s, t

LEMMA WindowTail ==
  ASSUME NEW n \in Nat, NEW m \in 1..n
  PROVE  Tail(Window(n, m)) = Window(n, m - 1)
<1> DEFINE s == Window(n, m)
           t == Tail(s)
<1>1. s \in Seq(Nat) /\ Len(s) = m /\ s # <<>> /\ \A i \in 1..m : s[i] = n - m + i - 1
  BY WindowIsSeq
<1>2. t \in Seq(Nat) /\ Len(t) = m - 1 /\ \A i \in 1..(m - 1) : t[i] = s[i + 1]
  BY <1>1, SeqSteps
<1> HIDE DEF s, t
<1>3. \A i \in 1..(m - 1) : t[i] = n - (m - 1) + i - 1
  BY <1>1, <1>2
<1>4. t = Window(n, m - 1)
  BY <1>2, <1>3, SeqIsWindow
<1> QED
  BY <1>4 DEF s, t

\* A forward's slice moves the window on by one.
LEMMA RetainedIsWindow ==
  ASSUME NEW n \in Nat, NEW l, capturing.depth \in Nat
  PROVE  Retained(Window(n, KeptOf(capturing, l, n)), n, l)
           = Window(n + 1, KeptOf(capturing, l, n + 1))
<1> DEFINE m == KeptOf(capturing, l, n)
<1>1. m \in 0..n
  BY KeptBounds
<1>2. Append(Window(n, m), n) = Window(n + 1, m + 1) /\ Len(Window(n + 1, m + 1)) = m + 1
  <2> HIDE DEF m
  <2>1. n + 1 \in Nat /\ m + 1 \in 0..(n + 1)
    BY <1>1
  <2> QED
    BY <1>1, <2>1, WindowAppends, WindowIsSeq
<1>3. Tail(Window(n + 1, m + 1)) = Window(n + 1, m)
  <2> HIDE DEF m
  <2>1. n + 1 \in Nat /\ m + 1 \in 1..(n + 1) /\ m + 1 - 1 = m
    BY <1>1
  <2> QED
    BY <1>1, <2>1, WindowTail
<1>4. CASE capturing.depth = 0
  BY <1>2, <1>4 DEF Retained, KeptOf
<1>5. CASE capturing.depth > 1 /\ l \in capturing.tail
  <2>1. m = AtMost(n, capturing.depth) /\ KeptOf(capturing, l, n + 1) = AtMost(n + 1, capturing.depth)
    BY <1>5 DEF KeptOf
  <2>2. CASE m + 1 > capturing.depth
    <3>1. Retained(Window(n, m), n, l) = Window(n + 1, m)
      <4> DEFINE s == Append(Window(n, m), n)
      <4>1. Retained(Window(n, m), n, l) = IF Len(s) > capturing.depth THEN Tail(s) ELSE s
        BY <1>5 DEF Retained
      <4>2. s = Window(n + 1, m + 1) /\ Len(Window(n + 1, m + 1)) = m + 1
        BY <1>2
      <4> HIDE DEF m, s
      <4>3. Len(s) > capturing.depth
        BY <2>2, <4>2
      <4> QED
        BY <1>3, <4>1, <4>2, <4>3
    <3> QED
      BY <1>1, <2>1, <2>2, <3>1 DEF AtMost
  <2>3. CASE ~(m + 1 > capturing.depth)
    <3>1. Retained(Window(n, m), n, l) = Window(n + 1, m + 1)
      BY <1>2, <1>5, <2>3 DEF Retained
    <3> QED
      BY <1>1, <2>1, <2>3, <3>1 DEF AtMost
  <2> QED
    BY <2>2, <2>3
<1>6. CASE capturing.depth # 0 /\ ~(capturing.depth > 1 /\ l \in capturing.tail)
  <2>1. KeptOf(capturing, l, n + 1) = 1
    BY <1>6 DEF KeptOf, AtMost
  <2>2. Window(n + 1, 1) = <<n>>
    BY DEF Window
  <2> QED
    BY <1>6, <2>1, <2>2 DEF Retained
<1> QED
  BY <1>4, <1>5, <1>6

LEMMA LatestIsLast ==
  ASSUME NEW c, c.depth \in Nat, NEW n \in Nat \ {0}, NEW band, band \subseteq c.layers,
         NEW kept, kept = [l \in c.layers |-> Window(n, KeptOf(c, l, n))]
  PROVE  LatestOf(kept, band) = SlicesAt(n - 1, band)
<1>1. \A l \in c.layers : kept[l] # <<>> /\ Last(kept[l]) = n - 1
  <2> SUFFICES ASSUME NEW l \in c.layers PROVE kept[l] # <<>> /\ Last(kept[l]) = n - 1
    OBVIOUS
  <2>1. KeptOf(c, l, n) \in 0..n /\ KeptOf(c, l, n) > 0
    BY KeptBounds
  <2> QED
    BY <2>1, WindowIsSeq
<1> QED
  BY <1>1 DEF LatestOf, SlicesAt

LEMMA Minimum ==
  ASSUME NEW a \in Int, NEW b \in Int
  PROVE  Min({a, b}) = IF a =< b THEN a ELSE b
  BY DEF Min

LEMMA Maximum ==
  ASSUME NEW a \in Int, NEW b \in Int
  PROVE  Max({a, b}) = IF a >= b THEN a ELSE b
  BY DEF Max

-----------------------------------------------------------------------------
(* The steps.                                                               *)

LEMMA PlanInForce ==
  ASSUME ReadsInv, readsPc # "begin"
  PROVE  /\ capturing = plan_capture(want) /\ want \in Wants
         /\ capturing.layers \subseteq ModelLayers /\ capturing.attach = (capturing.layers # {})
         /\ capturing.depth \in Nat
         /\ capturing.persistent => capturing.attach /\ capturing.depth > 0
         /\ capturing.attach \in BOOLEAN /\ capturing.persistent \in BOOLEAN
  BY PlanShape DEF ReadsInv, CaptureInv, Shapes

LEMMA LatestIsOfTheForward ==
  ASSUME ReadsInv, readsPc # "begin", Captured > 0,
         NEW band, band \subseteq capturing.layers
  PROVE  Latest(band) = SlicesAt(Captured - 1, band)
<1>1. Captured \in Nat \ {0}
  BY DEF Captured, ReadsInv, CountInv, Shapes
<1>2. CASE capturing.attach
  <2>1. buckets = [l \in capturing.layers |-> Window(Captured, KeptOf(capturing, l, Captured))]
    BY <1>2 DEF ReadsInv, CaptureInv
  <2>2. capturing.depth \in Nat
    BY PlanInForce
  <2> QED
    BY <1>1, <2>1, <2>2, LatestIsLast DEF Latest
<1>3. CASE ~capturing.attach
  <2>1. band = {}
    BY <1>3, PlanInForce
  <2>2. Latest(band) = {}
    BY <2>1 DEF Latest, LatestOf
  <2> QED
    BY <2>1, <2>2 DEF SlicesAt
<1> QED
  BY <1>2, <1>3, PlanInForce

LEMMA ReadsStart == ReadsInit => ReadsInv
<1> SUFFICES ASSUME ReadsInit PROVE ReadsInv
  OBVIOUS
<1> USE DEF ReadsInit
<1>1. Shapes /\ CountInv /\ CaptureInv
  BY DEF Shapes, CountInv, CaptureInv, ReadsPcs
<1>2. ReadsAreOfTheirForward
  BY DEF ReadsAreOfTheirForward, GateReadsThisForward, TapReadsThisForward, FinalReadsTheToken,
         RowsFollowTokens, NoReads, Families
<1> QED
  BY <1>1, <1>2 DEF ReadsInv

LEMMA BeginKeeps == ReadsInv /\ BeginReads => ReadsInv'
<1> SUFFICES ASSUME ReadsInv, BeginReads PROVE ReadsInv'
  OBVIOUS
<1> USE DEF BeginReads
<1>1. Shapes'
  BY DEF ReadsInv, Shapes, ReadsPcs
<1>2. CountInv'
  BY DEF ReadsInv, CountInv
<1>3. CaptureInv'
  <2>1. capturing' = plan_capture(want) /\ capturing'.depth \in Nat /\ want' = want
    BY PlanShape DEF ReadsInv, Shapes
  <2>2. Captured' = 0 /\ Sunk' = 0 /\ readsPc' = "decode"
    BY DEF Captured, Sunk, ReadsInv, CountInv
  <2>3. capturing'.attach => buckets' = [l \in capturing'.layers |-> Window(0, KeptOf(capturing', l, 0))]
    BY <2>1, EmptyWindow
  <2>4. ~capturing'.attach => DOMAIN buckets' = ModelLayers
    BY DEF ReadsInv, CaptureInv
  <2>5. rows' = [i \in 1..Sunk' |-> SlicesAt(i - 1, SinkBand')]
    BY <2>2
  <2> QED
    BY <2>1, <2>2, <2>3, <2>4, <2>5 DEF CaptureInv
<1>4. ReadsAreOfTheirForward'
  BY DEF ReadsInv, CountInv, ReadsAreOfTheirForward, GateReadsThisForward, TapReadsThisForward,
         FinalReadsTheToken, RowsFollowTokens, SlicesAt
<1> QED
  BY <1>1, <1>2, <1>3, <1>4 DEF ReadsInv

LEMMA ForwardKeeps == ReadsInv /\ Forward => ReadsInv'
<1> SUFFICES ASSUME ReadsInv, Forward PROVE ReadsInv'
  OBVIOUS
<1> USE DEF Forward
<1>0. readsPc # "begin" /\ forwards \in Nat
  BY DEF ReadsInv, Shapes
<1>1. Shapes'
  BY DEF ReadsInv, Shapes, ReadsPcs
<1>2. CountInv'
  BY DEF ReadsInv, CountInv, Shapes
<1>3. CaptureInv'
  <2>1. capturing' = capturing /\ want' = want /\ readsPc' = "step" /\ forwards' = forwards + 1
    OBVIOUS
  <2>2. Captured = forwards /\ Sunk = forwards /\ Sunk' = forwards
    BY <1>0, <2>1 DEF Captured, Sunk
  <2>3. Captured' = IF capturing.persistent THEN forwards ELSE forwards + 1
    BY <1>0, <2>1 DEF Captured
  <2>4. capturing.attach =>
          /\ buckets' = [l \in capturing.layers |-> Window(Captured', KeptOf(capturing, l, Captured'))]
          /\ capturing.depth > 0 => counted' = Captured'
    <3>1. CASE capturing.attach /\ ~capturing.persistent
      <4>1. buckets = [l \in capturing.layers |-> Window(forwards, KeptOf(capturing, l, forwards))]
        BY <1>0, <2>2, <3>1 DEF ReadsInv, CaptureInv
      <4>2. buckets' = [l \in capturing.layers |-> Retained(buckets[l], forwards, l)]
        BY <3>1, <4>1
      <4>3. \A l \in capturing.layers :
              Retained(buckets[l], forwards, l) = Window(forwards + 1, KeptOf(capturing, l, forwards + 1))
        BY <1>0, <4>1, PlanInForce, RetainedIsWindow
      <4>4. capturing.depth > 0 => counted' = forwards + 1
        BY <1>0, <2>2, <3>1 DEF ReadsInv, CaptureInv
      <4> QED
        BY <2>3, <3>1, <4>2, <4>3, <4>4
    <3>2. CASE capturing.attach /\ capturing.persistent
      BY <1>0, <2>2, <2>3, <3>2 DEF ReadsInv, CaptureInv
    <3> QED
      BY <1>0, <3>1, <3>2, PlanInForce
  <2>5. ~capturing.attach => DOMAIN buckets' = ModelLayers
    BY <1>0 DEF ReadsInv, CaptureInv
  <2>6. capturing.sink # "none" => rows' = [i \in 1..forwards |-> SlicesAt(i - 1, SinkBand)]
    BY <1>0, <2>2 DEF ReadsInv, CaptureInv
  <2>7. SinkBand' = SinkBand
    BY DEF SinkBand
  <2>8. buffers' = [l \in ModelLayers |-> forwards' - 1] /\ capturing' = plan_capture(want)
    BY <1>0, PlanInForce
  <2>9. capturing.sink # "none" => rows' = [i \in 1..Sunk' |-> SlicesAt(i - 1, SinkBand')]
    BY <2>2, <2>6, <2>7
  <2> QED
    BY <2>1, <2>4, <2>5, <2>8, <2>9 DEF CaptureInv
<1>4. ReadsAreOfTheirForward'
  BY DEF ReadsAreOfTheirForward, GateReadsThisForward, TapReadsThisForward,
         FinalReadsTheToken, RowsFollowTokens, NoReads, Families
<1> QED
  BY <1>1, <1>2, <1>3, <1>4 DEF ReadsInv

LEMMA StepCallbackKeeps == ReadsInv /\ StepCallback => ReadsInv'
<1> SUFFICES ASSUME ReadsInv, StepCallback PROVE ReadsInv'
  OBVIOUS
<1> USE DEF StepCallback
<1>0. readsPc = "step" /\ readsPc # "begin" /\ forwards \in Nat \ {0}
  BY DEF ReadsInv, Shapes, CountInv
<1>1. Shapes'
  BY DEF ReadsInv, Shapes, ReadsPcs
<1>2. CountInv'
  BY DEF ReadsInv, CountInv, Shapes
<1>3. CaptureInv'
  <2>1. capturing' = capturing /\ want' = want /\ readsPc' = "gate" /\ forwards' = forwards
    OBVIOUS
  <2>2. Captured' = forwards /\ Sunk' = forwards /\ Sunk = forwards - 1
    BY <1>0, <2>1 DEF Captured, Sunk
  <2>3. Captured = IF capturing.persistent THEN forwards - 1 ELSE forwards
    BY <1>0 DEF Captured
  <2>4. capturing.attach =>
          /\ buckets' = [l \in capturing.layers |-> Window(forwards, KeptOf(capturing, l, forwards))]
          /\ capturing.depth > 0 => counted' = forwards
    <3>1. CASE capturing.attach /\ capturing.persistent
      <4> DEFINE n == forwards - 1
      <4>1. /\ buckets = [l \in capturing.layers |-> Window(n, KeptOf(capturing, l, n))]
            /\ buffers = [l \in ModelLayers |-> n] /\ counted = n
        BY <1>0, <2>3, <3>1, PlanInForce DEF ReadsInv, CaptureInv
      <4>2. buckets' = [l \in capturing.layers |-> Retained(buckets[l], n, l)]
        BY <1>0, <3>1, <4>1, PlanInForce
      <4>3. \A l \in capturing.layers :
              Retained(buckets[l], n, l) = Window(n + 1, KeptOf(capturing, l, n + 1))
        <5>1. n \in Nat /\ capturing.depth \in Nat
          BY <1>0, PlanInForce
        <5> QED
          BY <4>1, <5>1, RetainedIsWindow
      <4>4. n + 1 = forwards
        BY <1>0
      <4> QED
        BY <3>1, <4>1, <4>2, <4>3, <4>4
    <3>2. CASE capturing.attach /\ ~capturing.persistent
      BY <1>0, <2>3, <3>2 DEF ReadsInv, CaptureInv
    <3> QED
      BY <1>0, <3>1, <3>2, PlanInForce
  <2>5. ~capturing.attach => DOMAIN buckets' = ModelLayers
    BY <1>0, PlanInForce DEF ReadsInv, CaptureInv
  <2>6. ASSUME capturing.sink # "none"
        PROVE  rows' = [i \in 1..forwards |-> SlicesAt(i - 1, SinkBand)]
    <3>1. rows = [i \in 1..(forwards - 1) |-> SlicesAt(i - 1, SinkBand)]
      BY <1>0, <2>2, <2>6 DEF ReadsInv, CaptureInv
    <3>2. SinkBand \subseteq capturing.layers
      BY <1>0, <2>6, PlanInForce, PlanKeeps DEF SinkBand
    <3>3. LatestOf(buckets', SinkBand) = SlicesAt(forwards - 1, SinkBand)
      <4>1. CASE capturing.attach
        BY <1>0, <2>4, <3>2, <4>1, PlanInForce, LatestIsLast
      <4>2. CASE ~capturing.attach
        <5>1. SinkBand = {}
          BY <1>0, <3>2, <4>2, PlanInForce
        <5>2. LatestOf(buckets', SinkBand) = {}
          BY <5>1 DEF LatestOf
        <5> QED
          BY <5>1, <5>2 DEF SlicesAt
      <4> QED
        BY <1>0, <4>1, <4>2, PlanInForce
    <3>4. rows' = Append(rows, SlicesAt(forwards - 1, SinkBand))
      BY <2>6, <3>3
    <3> DEFINE S(i) == SlicesAt(i - 1, SinkBand)
               Sets == {S(i) : i \in 1..forwards}
    <3>5. rows \in [1..(forwards - 1) -> Sets] /\ \A i \in 1..(forwards - 1) : rows[i] = S(i)
      BY <1>0, <3>1
    <3>6. S(forwards) \in Sets /\ rows' = Append(rows, S(forwards))
      BY <1>0, <3>4
    <3>8. rows' = [i \in 1..forwards |-> S(i)]
      <4> HIDE DEF S, Sets
      <4>1. rows \in Seq(Sets) /\ Len(rows) = forwards - 1
        BY <1>0, <3>5
      <4>2. rows' \in Seq(Sets) /\ Len(rows') = forwards
        BY <1>0, <3>6, <4>1
      <4>3. \A i \in 1..forwards : rows'[i] = S(i)
        BY <1>0, <3>5, <3>6, <4>1
      <4> QED
        BY <4>2, <4>3
    <3> QED
      BY <3>8
  <2>7. SinkBand' = SinkBand
    BY DEF SinkBand
  <2>8. capturing.sink # "none" => rows' = [i \in 1..Sunk' |-> SlicesAt(i - 1, SinkBand')]
    BY <2>2, <2>6, <2>7
  <2> QED
    BY <1>0, <2>1, <2>2, <2>4, <2>5, <2>8, PlanInForce DEF CaptureInv
<1>4. ReadsAreOfTheirForward'
  <2>1. TapReadsThisForward'
    BY <1>0 DEF ReadsInv, ReadsAreOfTheirForward, TapReadsThisForward
  <2> QED
    BY <2>1 DEF ReadsAreOfTheirForward, GateReadsThisForward, FinalReadsTheToken, RowsFollowTokens
<1> QED
  BY <1>1, <1>2, <1>3, <1>4 DEF ReadsInv

\* What a sink's last row has, and what the buckets' last slices are.
LEMMA LastRow ==
  ASSUME ReadsInv, readsPc \in {"gate", "token"}, capturing.sink # "none"
  PROVE  rows # <<>> /\ Last(rows) = SlicesAt(forwards - 1, SinkBand)
<1>1. rows = [i \in 1..forwards |-> SlicesAt(i - 1, SinkBand)] /\ forwards \in Nat \ {0}
  BY DEF ReadsInv, CaptureInv, Sunk, CountInv, Shapes
<1> DEFINE Sets == {SlicesAt(i - 1, SinkBand) : i \in 1..forwards}
<1>2. rows \in [1..forwards -> Sets] /\ rows[forwards] = SlicesAt(forwards - 1, SinkBand)
  BY <1>1
<1>3. rows \in Seq(Sets) /\ Len(rows) = forwards
  <2> HIDE DEF Sets
  <2> QED
    BY <1>1, <1>2
<1> QED
  BY <1>1, <1>2, <1>3 DEF Last

LEMMA LatestInStep ==
  ASSUME ReadsInv, readsPc \in {"gate", "token"}, NEW band, band \subseteq capturing.layers
  PROVE  Latest(band) = SlicesAt(forwards - 1, band)
  BY LatestIsOfTheForward DEF Captured, ReadsInv, CountInv, Shapes

LEMMA GateKeeps == ReadsInv /\ GateCallback => ReadsInv'
<1> SUFFICES ASSUME ReadsInv, GateCallback PROVE ReadsInv'
  OBVIOUS
<1> USE DEF GateCallback
<1>0. /\ readsPc = "gate" /\ readsPc # "begin" /\ forwards \in Nat \ {0}
      /\ capturing = plan_capture(want) /\ want \in Wants
      /\ want.gates \subseteq want.attached /\ want.attached \subseteq Families
  BY PlanInForce DEF ReadsInv, Shapes, CountInv, Wants
<1>1. Shapes'
  BY DEF ReadsInv, Shapes, ReadsPcs
<1>2. CountInv'
  BY DEF ReadsInv, CountInv, Shapes
<1>3. CaptureInv'
  BY <1>0 DEF ReadsInv, CaptureInv, Captured, Sunk, SinkBand
<1>4. GateReadsThisForward'
  <2> SUFFICES ASSUME NEW f \in want.gates
               PROVE  gateRead'[f] = SlicesAt(forwards - 1, GateBand(f))
    BY DEF GateReadsThisForward, GateBand
  <2>1. f \in {"geometry", "lens", "sae"}
    BY <1>0 DEF Families
  <2>2. CASE f = "lens"
    BY <1>0, <2>2, PlanCovers, LatestInStep DEF GateBand, Families
  <2>3. CASE f = "sae"
    BY <1>0, <2>3, PlanCovers, LatestInStep DEF GateBand, Families
  <2>4. CASE f = "geometry"
    <3>1. CASE capturing.mode \in {"GATING_SUBSET", "INCREMENTAL"}
      <4>1. capturing.sink # "none" /\ GatedBand \subseteq SinkBand
        BY <1>0, <3>1, PlanKeeps, ReadPlaneAssumption DEF SinkBand
      <4>2. rows # <<>> /\ Last(rows) = SlicesAt(forwards - 1, SinkBand)
        BY <1>0, <4>1, LastRow
      <4>3. gateRead'[f] = {s \in Last(rows) : s[1] \in GatedBand}
        BY <1>0, <2>4, <3>1, <4>2 DEF Families
      <4>4. {s \in SlicesAt(forwards - 1, SinkBand) : s[1] \in GatedBand}
              = SlicesAt(forwards - 1, GatedBand)
        BY <4>1 DEF SlicesAt
      <4> QED
        BY <2>4, <4>2, <4>3, <4>4 DEF GateBand
    <3>2. CASE capturing.mode \notin {"GATING_SUBSET", "INCREMENTAL"}
      BY <1>0, <2>4, <3>2, PlanCovers, LatestInStep DEF GateBand, Families
    <3> QED
      BY <3>1, <3>2
  <2> QED
    BY <2>1, <2>2, <2>3, <2>4
<1>5. TapReadsThisForward'
  BY <1>0 DEF ReadsInv, ReadsAreOfTheirForward, TapReadsThisForward
<1> QED
  BY <1>1, <1>2, <1>3, <1>4, <1>5
  DEF ReadsInv, ReadsAreOfTheirForward, FinalReadsTheToken, RowsFollowTokens

LEMMA TapInStep ==
  ASSUME ReadsInv, readsPc = "token"
  PROVE  /\ Tapped["geometry"] = IF NeedsScores THEN SlicesAt(forwards - 1, GeometryBand) ELSE {}
         /\ Tapped["lens"] = IF want.lensLive THEN SlicesAt(forwards - 1, LiveBand) ELSE {}
         /\ Tapped["sae"] = IF want.saeLive THEN SlicesAt(forwards - 1, SaeBand) ELSE {}
<1>0. capturing = plan_capture(want) /\ want \in Wants /\ readsPc # "begin"
  BY PlanInForce
<1>1. ASSUME NeedsScores PROVE Tapped["geometry"] = SlicesAt(forwards - 1, GeometryBand)
  <2>1. "geometry" \in want.attached /\ per_token_full_consumer(want)
    BY <1>1 DEF NeedsScores, per_token_full_consumer
  <2>2. CASE capturing.mode \in {"INCREMENTAL", "LEAN_INCREMENTAL"}
    <3>1. capturing.sink # "none" /\ SinkBand = GeometryBand
      BY <1>0, <2>2, PlanKeeps DEF SinkBand
    <3> QED
      BY <1>1, <2>2, <3>1, LastRow DEF Tapped, Families
  <2>3. CASE capturing.mode \notin {"INCREMENTAL", "LEAN_INCREMENTAL"}
    <3>1. GeometryBand \subseteq capturing.layers
      BY <1>0, <2>1, PlanCovers
    <3>2. Tapped["geometry"] = Latest(GeometryBand)
      BY <1>1, <2>3 DEF Tapped, Families
    <3> QED
      BY <3>1, <3>2, LatestInStep
  <2> QED
    BY <2>2, <2>3
<1>2. ~NeedsScores => Tapped["geometry"] = {}
  BY DEF Tapped, Families
<1>3. Tapped["lens"] = IF want.lensLive THEN SlicesAt(forwards - 1, LiveBand) ELSE {}
  BY <1>0, PlanCovers, LatestInStep DEF Tapped, Families
<1>4. Tapped["sae"] = IF want.saeLive THEN SlicesAt(forwards - 1, SaeBand) ELSE {}
  BY <1>0, PlanCovers, LatestInStep DEF Tapped, Families
<1> QED
  BY <1>1, <1>2, <1>3, <1>4

LEMMA SameCapture ==
  ASSUME ReadsInv, readsPc \in {"decode", "token", "finalize"},
         readsPc' \in {"decode", "finalize", "done"},
         UNCHANGED <<want, capturing, buckets, counted, buffers, rows, forwards>>
  PROVE  CaptureInv'
  BY DEF ReadsInv, CaptureInv, Captured, Sunk, SinkBand

LEMMA TokenKeeps == ReadsInv /\ Token => ReadsInv'
<1> SUFFICES ASSUME ReadsInv, readsPc = "token",
                    NEW kind \in {"content", "special"}, NEW shown \in BOOLEAN, NEW stop \in BOOLEAN,
                    generated' = Append(generated, kind),
                    emitted' = IF shown THEN Append(emitted, forwards - 1) ELSE emitted,
                    tapRead' = IF shown THEN Tapped ELSE NoReads,
                    endpoint' = IF ~stop THEN endpoint
                                ELSE IF emitted' = <<>> THEN "hidden" ELSE "shown",
                    readsPc' = IF stop THEN "finalize" ELSE "decode",
                    UNCHANGED <<want, capturing, buckets, counted, buffers, rows, forwards,
                                gateRead, finalReads>>
             PROVE  ReadsInv'
  BY DEF Token
<1>0. /\ generated \in Seq({"content", "special"}) /\ emitted \in Seq(Nat)
      /\ forwards = Len(generated) + 1 /\ forwards \in Nat \ {0}
      /\ \A i \in 1..Len(emitted) : emitted[i] < Len(generated)
  BY DEF ReadsInv, Shapes, CountInv
<1>1. Shapes'
  BY <1>0 DEF ReadsInv, Shapes, ReadsPcs
<1>2. CountInv'
  <2>1. Len(generated') = forwards
    BY <1>0
  <2>2. \A i \in 1..Len(emitted') : emitted'[i] < Len(generated')
    <3>1. emitted' = emitted \/ emitted' = Append(emitted, forwards - 1)
      OBVIOUS
    <3>2. \A i \in 1..Len(emitted) : emitted[i] < forwards
      BY <1>0
    <3>3. /\ Len(Append(emitted, forwards - 1)) = Len(emitted) + 1
          /\ \A i \in 1..Len(emitted) : Append(emitted, forwards - 1)[i] = emitted[i]
          /\ Append(emitted, forwards - 1)[Len(emitted) + 1] = forwards - 1
      BY <1>0, SeqSteps
    <3>4. \A i \in 1..(Len(emitted) + 1) : Append(emitted, forwards - 1)[i] < forwards
      BY <1>0, <3>2, <3>3
    <3>5. CASE emitted' = emitted
      BY <2>1, <3>2, <3>5
    <3>6. CASE emitted' = Append(emitted, forwards - 1)
      BY <2>1, <3>3, <3>4, <3>6
    <3> QED
      BY <3>1, <3>5, <3>6
  <2>3. endpoint' = "shown" => emitted' # <<>>
    <3>1. endpoint = "shown" => emitted # <<>>
      BY DEF ReadsInv, CountInv
    <3>2. emitted # <<>> => emitted' # <<>>
      BY <1>0
    <3> QED
      BY <3>1, <3>2
  <2> QED
    BY <1>0, <2>1, <2>2, <2>3 DEF CountInv
<1>3. CaptureInv'
  BY SameCapture
<1>4. TapReadsThisForward'
  <2>1. /\ tapRead'["geometry"] \in {{}, SlicesAt(forwards - 1, GeometryBand)}
        /\ tapRead'["lens"] \in {{}, SlicesAt(forwards - 1, LiveBand)}
        /\ tapRead'["sae"] \in {{}, SlicesAt(forwards - 1, SaeBand)}
    BY TapInStep DEF NoReads, Families
  <2>2. ASSUME emitted' # <<>>, Last(emitted') = forwards - 1 PROVE shown
    <3>1. ASSUME ~shown PROVE FALSE
      BY <1>0, <2>2, <3>1 DEF Last
    <3> QED
      BY <3>1
  <2>3. shown => /\ NeedsScores => tapRead'["geometry"] = SlicesAt(forwards - 1, GeometryBand)
                 /\ want.lensLive => tapRead'["lens"] = SlicesAt(forwards - 1, LiveBand)
                 /\ want.saeLive => tapRead'["sae"] = SlicesAt(forwards - 1, SaeBand)
    BY TapInStep
  <2>4. NeedsScores' = NeedsScores
    BY DEF NeedsScores
  <2> QED
    BY <2>1, <2>2, <2>3, <2>4 DEF TapReadsThisForward
<1> QED
  BY <1>1, <1>2, <1>3, <1>4
  DEF ReadsInv, ReadsAreOfTheirForward, GateReadsThisForward, FinalReadsTheToken, RowsFollowTokens

LEMMA EndKeeps == ReadsInv /\ (Eos \/ Stopped) => ReadsInv'
<1> SUFFICES ASSUME ReadsInv, readsPc \in {"token", "decode"}, readsPc' = "finalize",
                    UNCHANGED <<want, capturing, buckets, counted, buffers, rows, forwards, generated,
                                emitted, endpoint, gateRead, tapRead, finalReads>>
             PROVE  ReadsInv'
  BY DEF Eos, Stopped
<1>1. Shapes' /\ CountInv'
  BY DEF ReadsInv, Shapes, ReadsPcs, CountInv
<1>2. CaptureInv'
  BY SameCapture
<1>3. TapReadsThisForward'
  BY DEF ReadsInv, ReadsAreOfTheirForward, TapReadsThisForward
<1> QED
  BY <1>1, <1>2, <1>3
  DEF ReadsInv, ReadsAreOfTheirForward, GateReadsThisForward, FinalReadsTheToken, RowsFollowTokens

-----------------------------------------------------------------------------
(* What finalize returns.                                                   *)

Below == {pair \in Nat \X Nat : pair[1] < pair[2]}

LEMMA NaturalsHaveALeast ==
  ASSUME NEW S, S \subseteq Nat, S # {}
  PROVE  \E least \in S : \A x \in S : least =< x
<1>0. IsWellFoundedOn(Below, Nat)
  BY NatLessThanWellFounded DEF OpToRel, Below
<1>1. PICK least \in S : \A x \in S : ~(<<x, least>> \in Below)
  BY <1>0, WFMin
<1>2. \A a \in Nat, b \in Nat : b < a => <<b, a>> \in Below
  BY DEF Below
<1>3. ASSUME NEW x \in S PROVE least =< x
  <2>1. least \in Nat /\ x \in Nat /\ ~(<<x, least>> \in Below)
    BY <1>1, <1>3
  <2>2. ~(x < least)
    BY <1>2, <2>1
  <2> QED
    BY <2>1, <2>2
<1> QED
  BY <1>3

LEMMA BoundedHasAMax ==
  ASSUME NEW n \in Nat, NEW S, S \subseteq 0..n, S # {}
  PROVE  Max(S) \in S
<1> DEFINE T == {n - x : x \in S}
<1>1. T \subseteq Nat /\ T # {}
  <2>1. \A x \in S : n - x \in Nat
    OBVIOUS
  <2> QED
    BY <2>1
<1>2. PICK least \in T : \A y \in T : least =< y
  <2> HIDE DEF T
  <2> QED
    BY <1>1, NaturalsHaveALeast
<1>3. PICK x \in S : least = n - x
  BY <1>2
<1>4. \A y \in S : x >= y
  BY <1>2, <1>3
<1> QED
  BY <1>4 DEF Max

LEMMA AggregateIndexInRange ==
  ASSUME ReadsInv, generated # <<>>
  PROVE  aggregate_index = NoEndpoint \/ aggregate_index \in 0..(Len(generated) - 1)
<1>0. generated \in Seq({"content", "special"}) /\ Len(generated) \in Nat \ {0}
      /\ DOMAIN generated = 1..Len(generated) /\ endpoint \in {"unset", "hidden", "shown"}
  BY DEF ReadsInv, Shapes
<1>1. last_content_index \in 0..(Len(generated) - 1)
  <2> DEFINE S == {0} \cup {i - 1 : i \in {j \in DOMAIN generated : generated[j] = "content"}}
  <2>1. S \subseteq 0..(Len(generated) - 1) /\ S # {} /\ Len(generated) - 1 \in Nat
    BY <1>0
  <2> HIDE DEF S
  <2>2. Max(S) \in S
    BY <2>1, BoundedHasAMax
  <2> QED
    BY <2>1, <2>2 DEF last_content_index, S
<1>2. endpoint = "shown" => Last(emitted) \in 0..(Len(generated) - 1)
  <2>1. /\ emitted \in Seq(Nat) /\ \A i \in 1..Len(emitted) : emitted[i] < Len(generated)
        /\ endpoint = "shown" => emitted # <<>>
    BY DEF ReadsInv, CountInv, Shapes
  <2>2. ASSUME emitted # <<>> PROVE Last(emitted) \in 0..(Len(generated) - 1)
    <3>1. Len(emitted) \in 1..Len(emitted) /\ emitted[Len(emitted)] \in Nat
      BY <2>1, <2>2
    <3> QED
      BY <1>0, <2>1, <3>1 DEF Last
  <2> QED
    BY <2>1, <2>2
<1> QED
  BY <1>0, <1>1, <1>2 DEF aggregate_index

\* What the buckets of a band hold once the decode is over.
LEMMA HeldAtTheEnd ==
  ASSUME ReadsInv, readsPc = "finalize", capturing.attach
  PROVE  /\ buckets = [l \in capturing.layers |-> Window(forwards, KeptOf(capturing, l, forwards))]
         /\ capturing.depth > 0 => counted = forwards
  BY DEF ReadsInv, CaptureInv, Captured

LEMMA StackedIsTheSlice ==
  ASSUME ReadsInv, readsPc = "finalize", capturing.depth = 0,
         NEW k \in 0..(forwards - 1), NEW band, band \subseteq capturing.layers
  PROVE  Stacked(k, band) = SlicesAt(k, band)
<1>0. forwards \in Nat
  BY DEF ReadsInv, Shapes
<1>1. \A l \in band : l \in DOMAIN buckets /\ Len(buckets[l]) > k /\ buckets[l][k + 1] = k
  <2> SUFFICES ASSUME NEW l \in band
               PROVE  l \in DOMAIN buckets /\ Len(buckets[l]) > k /\ buckets[l][k + 1] = k
    OBVIOUS
  <2>1. capturing.attach
    BY PlanInForce
  <2>2. l \in DOMAIN buckets /\ buckets[l] = Window(forwards, forwards)
    BY <2>1, HeldAtTheEnd DEF KeptOf
  <2>3. /\ Len(Window(forwards, forwards)) = forwards
        /\ \A i \in 1..forwards : Window(forwards, forwards)[i] = forwards - forwards + i - 1
    <3>1. forwards \in 0..forwards
      BY <1>0
    <3> QED
      BY <1>0, <3>1, WindowIsSeq
  <2> QED
    BY <1>0, <2>2, <2>3
<1> QED
  BY <1>1 DEF Stacked, SlicesAt

\* The slice a ring of the tail's depth gives for a forward.
TailSlice(k) == IF k < forwards - AggTailDepth THEN forwards - AggTailDepth ELSE k

LEMMA PooledIsTheSlice ==
  ASSUME ReadsInv, readsPc = "finalize", NEW k \in 0..(forwards - 1), NEW band,
         band \subseteq capturing.layers, capturing.depth = AggTailDepth, band \subseteq capturing.tail
  PROVE  Pooled(k, band) = SlicesAt(TailSlice(k), band)
<1>0. forwards \in Nat \ {0} /\ AggTailDepth \in Nat /\ AggTailDepth > 1
  BY ReadPlaneAssumption DEF ReadsInv, Shapes
<1> DEFINE m == AtMost(forwards, AggTailDepth)
           at == k - (forwards - m)
<1>1. m \in 1..forwards /\ m = AtMost(forwards, AggTailDepth)
  BY <1>0 DEF AtMost
<1>2. Max({0, Min({at, m - 1})}) \in 0..(m - 1)
      /\ forwards - m + Max({0, Min({at, m - 1})}) = TailSlice(k)
  <2>1. Min({at, m - 1}) = IF at =< m - 1 THEN at ELSE m - 1
    BY <1>0, <1>1, Minimum
  <2>2. Min({at, m - 1}) = at
    BY <1>0, <1>1, <2>1
  <2>3. Max({0, at}) = IF 0 >= at THEN 0 ELSE at
    BY <1>0, <1>1, Maximum
  <2>4. Max({0, Min({at, m - 1})}) = IF at =< 0 THEN 0 ELSE at
    BY <1>0, <1>1, <2>2, <2>3
  <2> QED
    BY <1>0, <1>1, <2>4 DEF AtMost, TailSlice
<1>3. \A l \in band : /\ l \in DOMAIN buckets /\ buckets[l] = Window(forwards, m) /\ l \in capturing.tail
                      /\ counted = forwards
  <2> SUFFICES ASSUME NEW l \in band
               PROVE  /\ l \in DOMAIN buckets /\ buckets[l] = Window(forwards, m)
                      /\ l \in capturing.tail /\ counted = forwards
    OBVIOUS
  <2>1. capturing.attach
    BY PlanInForce
  <2> QED
    BY <1>0, <2>1, HeldAtTheEnd DEF KeptOf
<1>4. /\ Len(Window(forwards, m)) = m /\ Window(forwards, m) # <<>>
      /\ \A i \in 1..m : Window(forwards, m)[i] = forwards - m + i - 1
  <2>1. m \in 0..forwards /\ m > 0
    BY <1>0, <1>1
  <2> HIDE DEF m
  <2> QED
    BY <1>0, <2>1, WindowIsSeq
<1>5. Window(forwards, m)[Max({0, Min({at, m - 1})}) + 1] = TailSlice(k)
  <2> DEFINE x == Max({0, Min({at, m - 1})})
  <2>1. x \in 0..(m - 1) /\ forwards - m + x = TailSlice(k)
    BY <1>2
  <2> HIDE DEF m, at, x
  <2>2. Window(forwards, m)[x + 1] = forwards - m + (x + 1) - 1
    BY <1>1, <1>4, <2>1
  <2>3. Window(forwards, m)[x + 1] = TailSlice(k)
    BY <1>0, <1>1, <2>1, <2>2
  <2> QED
    BY <2>3 DEF x
<1> QED
  <2>1. { l \in band \cap DOMAIN buckets : buckets[l] # <<>> /\ l \in capturing.tail } = band
    BY <1>3, <1>4
  <2>2. \A l \in band : LET bucket == buckets[l]
                            pos == k - (counted - Len(bucket))
                        IN <<l, bucket[Max({0, Min({pos, Len(bucket) - 1})}) + 1]>> = <<l, TailSlice(k)>>
    BY <1>3, <1>4, <1>5
  <2> QED
    BY <2>1, <2>2 DEF Pooled, SlicesAt

LEMMA PooledAtIsReadable ==
  ASSUME ReadsInv, readsPc = "finalize", NEW k \in 0..(forwards - 1), want.readings,
         NEW f \in want.attached, f # "geometry" \/ capturing.mode # "INCREMENTAL"
  PROVE  \E at \in Readable(k) : PooledAt(k, Band(f)) = SlicesAt(at, Band(f))
<1>0. /\ capturing = plan_capture(want) /\ want \in Wants /\ Band(f) \subseteq capturing.layers
      /\ k # NoEndpoint /\ k \in Readable(k) /\ TailSlice(k) \in Readable(k)
  <2>1. forwards \in Nat /\ AggTailDepth \in Nat
    BY ReadPlaneAssumption DEF ReadsInv, Shapes
  <2> QED
    BY <2>1, PlanInForce, PlanCovers DEF NoEndpoint, Readable, If, TailSlice
<1>1. CASE capturing.mode = "FULL"
  <2>1. capturing.depth = 0
    BY <1>0, <1>1, PlanKeeps
  <2> QED
    BY <1>0, <1>1, <2>1, StackedIsTheSlice DEF PooledAt
<1>2. CASE capturing.mode # "FULL" /\ Band(f) = {}
  BY <1>0, <1>2 DEF PooledAt, Pooled, SlicesAt
<1>3. CASE capturing.mode # "FULL" /\ Band(f) # {}
  <2>1. capturing.depth = AggTailDepth /\ Band(f) \subseteq capturing.tail
    BY <1>0, <1>3, PlanKeeps
  <2> QED
    BY <1>0, <1>3, <2>1, PooledIsTheSlice DEF PooledAt
<1> QED
  BY <1>1, <1>2, <1>3

\* A row sink has a row of each forward.
LEMMA RowsAtTheEnd ==
  ASSUME ReadsInv, readsPc = "finalize", capturing.sink # "none"
  PROVE  /\ Len(rows) = forwards
         /\ \A i \in 1..forwards : rows[i] = SlicesAt(i - 1, SinkBand)
         /\ rows \in Seq({SlicesAt(i - 1, SinkBand) : i \in 1..forwards})
<1>1. rows = [i \in 1..forwards |-> SlicesAt(i - 1, SinkBand)] /\ forwards \in Nat
  BY DEF ReadsInv, CaptureInv, Sunk, Shapes
<1> DEFINE Sets == {SlicesAt(i - 1, SinkBand) : i \in 1..forwards}
<1>2. rows \in [1..forwards -> Sets] /\ \A i \in 1..forwards : rows[i] = SlicesAt(i - 1, SinkBand)
  BY <1>1
<1> HIDE DEF Sets
<1>3. rows \in Seq(Sets) /\ Len(rows) = forwards
  BY <1>1, <1>2
<1> QED
  BY <1>2, <1>3 DEF Sets

LEMMA AggregatesReadTheToken ==
  ASSUME ReadsInv, readsPc = "finalize", want.readings, generated # <<>>, NEW f \in want.attached
  PROVE  IF aggregate_index = NoEndpoint THEN Aggregates[f] = {}
         ELSE \E k \in Readable(aggregate_index) : Aggregates[f] = SlicesAt(k, Band(f))
<1>0. /\ capturing = plan_capture(want) /\ want \in Wants /\ f \in {"geometry", "lens", "sae"}
      /\ forwards \in {Len(generated), Len(generated) + 1} /\ Len(generated) \in Nat
  BY PlanInForce DEF ReadsInv, Shapes, CountInv, Wants, Families
<1>1. CASE f # "geometry" \/ capturing.mode # "INCREMENTAL"
  <2>1. Aggregates[f] = PooledAt(aggregate_index, Band(f))
    BY <1>0, <1>1 DEF Aggregates, Band, Families
  <2>2. CASE aggregate_index = NoEndpoint
    BY <2>1, <2>2 DEF PooledAt
  <2>3. CASE aggregate_index # NoEndpoint
    <3>1. aggregate_index \in 0..(forwards - 1)
      BY <1>0, <2>3, AggregateIndexInRange
    <3> QED
      BY <1>1, <2>1, <2>3, <3>1, PooledAtIsReadable
  <2> QED
    BY <2>2, <2>3
<1>2. CASE f = "geometry" /\ capturing.mode = "INCREMENTAL"
  <2>1. capturing.sink # "none" /\ SinkBand = GeometryBand
    BY <1>0, <1>2, PlanKeeps DEF SinkBand
  <2>2. Aggregates[f] = IF aggregate_index = NoEndpoint \/ aggregate_index >= Len(rows) THEN {}
                        ELSE rows[aggregate_index + 1]
    BY <1>0, <1>2 DEF Aggregates, Families
  <2>3. ASSUME aggregate_index # NoEndpoint
        PROVE  Aggregates[f] = SlicesAt(aggregate_index, GeometryBand)
    <3>1. aggregate_index \in 0..(Len(generated) - 1)
      BY <2>3, AggregateIndexInRange
    <3>2. /\ Len(rows) = forwards
          /\ \A i \in 1..forwards : rows[i] = SlicesAt(i - 1, GeometryBand)
      BY <2>1, RowsAtTheEnd
    <3>3. aggregate_index + 1 \in 1..forwards /\ aggregate_index + 1 - 1 = aggregate_index
      BY <1>0, <3>1
    <3> QED
      BY <1>0, <2>2, <2>3, <3>1, <3>2, <3>3
  <2> QED
    BY <1>2, <2>2, <2>3 DEF Readable, Band
<1> QED
  BY <1>1, <1>2

LEMMA StreamFollowsTokens ==
  ASSUME ReadsInv, readsPc = "finalize", generated # <<>>, Stream # <<>>
  PROVE  /\ Len(Stream) = Len(generated) /\ DOMAIN Stream = 1..Len(generated)
         /\ \A k \in 1..Len(generated) : Stream[k] = SlicesAt(k - 1, GeometryBand)
<1>0. /\ capturing = plan_capture(want) /\ want \in Wants
      /\ want.readings /\ "geometry" \in want.attached
      /\ capturing.mode \in {"FULL", "INCREMENTAL", "LEAN_INCREMENTAL"}
      /\ forwards \in {Len(generated), Len(generated) + 1} /\ Len(generated) \in Nat \ {0}
      /\ forwards \in Nat
  BY PlanInForce DEF Stream, ReadsInv, Shapes, CountInv
<1>1. CASE capturing.mode \in {"INCREMENTAL", "LEAN_INCREMENTAL"}
  <2>1. capturing.sink # "none" /\ SinkBand = GeometryBand
    BY <1>0, <1>1, PlanKeeps DEF SinkBand
  <2> DEFINE Sets == {SlicesAt(i - 1, SinkBand) : i \in 1..forwards}
  <2>2. /\ Len(rows) = forwards /\ rows \in Seq(Sets)
        /\ \A i \in 1..forwards : rows[i] = SlicesAt(i - 1, GeometryBand)
    BY <2>1, RowsAtTheEnd
  <2>3. Min({Len(rows), Len(generated)}) = Len(generated)
    <3>1. Len(rows) \in Int /\ Len(generated) \in Int /\ Len(generated) =< Len(rows)
      BY <1>0, <2>2
    <3>2. Min({Len(rows), Len(generated)}) = IF Len(rows) =< Len(generated) THEN Len(rows) ELSE Len(generated)
      BY <3>1, Minimum
    <3> QED
      BY <3>1, <3>2
  <2>4. Stream = SubSeq(rows, 1, Len(generated))
    BY <1>0, <1>1, <2>3 DEF Stream
  <2> HIDE DEF Sets
  <2> QED
    BY <1>0, <2>2, <2>4
<1>2. CASE capturing.mode = "FULL"
  <2>1. capturing.depth = 0 /\ GeometryBand \subseteq capturing.layers
    BY <1>0, <1>2, PlanKeeps, PlanCovers DEF Band
  <2> DEFINE RowAt(k) == Stacked(k - 1, GeometryBand)
             Sets == {RowAt(k) : k \in 1..Len(generated)}
  <2>2. Stream = [k \in 1..Len(generated) |-> RowAt(k)]
    BY <1>0, <1>2 DEF Stream
  <2>3. \A k \in 1..Len(generated) : RowAt(k) = SlicesAt(k - 1, GeometryBand)
    <3> SUFFICES ASSUME NEW k \in 1..Len(generated)
                 PROVE  Stacked(k - 1, GeometryBand) = SlicesAt(k - 1, GeometryBand)
      OBVIOUS
    <3>1. k - 1 \in 0..(forwards - 1)
      BY <1>0
    <3> QED
      BY <2>1, <3>1, StackedIsTheSlice
  <2>4. Stream \in [1..Len(generated) -> Sets]
    BY <2>2
  <2> HIDE DEF RowAt, Sets
  <2>5. Len(Stream) = Len(generated)
    BY <1>0, <2>4
  <2> QED
    BY <2>2, <2>3, <2>5
<1> QED
  BY <1>0, <1>1, <1>2

LEMMA HiddenFollowsTokens ==
  ASSUME ReadsInv, readsPc = "finalize", generated # <<>>, want.hidden
  PROVE  HiddenStates = [l \in ModelLayers |-> [k \in 1..Len(generated) |-> k - 1]]
<1> DEFINE n == Len(generated)
<1>0. /\ capturing = plan_capture(want) /\ want \in Wants
      /\ capturing.layers = ModelLayers /\ capturing.depth = 0
      /\ capturing.attach = (ModelLayers # {})
      /\ forwards \in {n, n + 1} /\ n \in Nat \ {0} /\ forwards \in Nat
  BY PlanInForce, PlanCovers, PlanKeeps DEF ReadsInv, Shapes, CountInv
<1>1. DOMAIN buckets = ModelLayers /\ \A l \in ModelLayers : buckets[l] = Window(forwards, forwards)
  <2>1. CASE capturing.attach
    BY <1>0, <2>1, HeldAtTheEnd DEF KeptOf
  <2>2. CASE ~capturing.attach
    BY <1>0, <2>2 DEF ReadsInv, CaptureInv
  <2> QED
    BY <2>1, <2>2
<1> DEFINE s == Window(forwards, forwards)
<1>2. /\ s \in Seq(Nat) /\ Len(s) = forwards
      /\ \A i \in 1..forwards : s[i] = forwards - forwards + i - 1
  <2>1. forwards \in 0..forwards /\ forwards \in Nat
    BY <1>0
  <2> HIDE DEF n
  <2> QED
    BY <2>1, WindowIsSeq
<1> HIDE DEF s
<1>3. SubSeq(s, 1, n) = [k \in 1..n |-> k - 1]
  <2>1. /\ SubSeq(s, 1, n) \in Seq(Nat) /\ Len(SubSeq(s, 1, n)) = n
        /\ \A i \in 1..n : SubSeq(s, 1, n)[i] = s[i]
    <3> HIDE DEF n
    <3> QED
      BY <1>0, <1>2
  <2>2. \A i \in 1..n : SubSeq(s, 1, n)[i] = i - 1
    BY <1>0, <1>2, <2>1
  <2>3. SubSeq(s, 1, n) \in [1..n -> Nat]
    <3> DEFINE t == SubSeq(s, 1, n)
    <3> HIDE DEF n, t
    <3>1. t \in Seq(Nat) /\ Len(t) = n
      BY <2>1 DEF t
    <3>2. t \in [1..n -> Nat]
      BY <3>1
    <3> QED
      BY <3>2 DEF t
  <2> HIDE DEF n
  <2> QED
    BY <2>2, <2>3
<1>4. { l \in DOMAIN buckets : Len(buckets[l]) >= n } = ModelLayers
  BY <1>0, <1>1, <1>2 DEF s
<1>5. \A l \in ModelLayers : SubSeq(buckets[l], 1, n) = [k \in 1..n |-> k - 1]
  BY <1>1, <1>3 DEF s
<1>6. HiddenStates = [l \in ModelLayers |-> SubSeq(buckets[l], 1, n)]
  BY <1>4 DEF HiddenStates
<1> QED
  BY <1>5, <1>6

LEMMA FinalizeKeeps == ReadsInv /\ FinalizeReads => ReadsInv'
<1> SUFFICES ASSUME ReadsInv, readsPc = "finalize", readsPc' = "done",
                    finalReads' = [aggregate |-> Aggregates, stream |-> Stream, hidden |-> HiddenStates],
                    UNCHANGED <<want, capturing, buckets, counted, buffers, rows, forwards, generated,
                                emitted, endpoint, gateRead, tapRead>>
             PROVE  ReadsInv'
  BY DEF FinalizeReads
<1>1. Shapes' /\ CountInv'
  BY DEF ReadsInv, Shapes, ReadsPcs, CountInv
<1>2. CaptureInv'
  BY SameCapture
<1>3. GateReadsThisForward' /\ TapReadsThisForward'
  BY DEF ReadsInv, ReadsAreOfTheirForward, GateReadsThisForward, TapReadsThisForward
<1>4. FinalReadsTheToken'
  <2>1. aggregate_index' = aggregate_index
    BY DEF aggregate_index, last_content_index
  <2>2. \A f \in want.attached : want.readings /\ generated # <<>> =>
          IF aggregate_index = NoEndpoint THEN Aggregates[f] = {}
          ELSE \E k \in Readable(aggregate_index) : Aggregates[f] = SlicesAt(k, Band(f))
    BY AggregatesReadTheToken
  <2>3. \A k : Readable(k)' = Readable(k)
    BY DEF Readable, If
  <2> QED
    BY <2>1, <2>2, <2>3 DEF FinalReadsTheToken, Band
<1>5. RowsFollowTokens'
  <2>1. ASSUME generated # <<>>, Stream = <<>>
        PROVE  \A k \in DOMAIN Stream : Stream[k] = SlicesAt(k - 1, GeometryBand)
    BY <2>1
  <2> QED
    BY <2>1, StreamFollowsTokens, HiddenFollowsTokens DEF RowsFollowTokens
<1> QED
  BY <1>1, <1>2, <1>3, <1>4, <1>5 DEF ReadsInv, ReadsAreOfTheirForward

LEMMA ReadsStutter == ReadsInv /\ UNCHANGED readsVars => ReadsInv'
<1> SUFFICES ASSUME ReadsInv, UNCHANGED readsVars PROVE ReadsInv'
  OBVIOUS
<1> USE DEF readsVars
<1>1. Shapes' /\ CountInv'
  BY DEF ReadsInv, Shapes, CountInv
<1>2. CaptureInv'
  BY DEF ReadsInv, CaptureInv, Captured, Sunk, SinkBand
<1>3. GateReadsThisForward' /\ TapReadsThisForward'
  BY DEF ReadsInv, ReadsAreOfTheirForward, GateReadsThisForward, TapReadsThisForward, NeedsScores
<1>4. FinalReadsTheToken'
  <2>1. aggregate_index' = aggregate_index
    BY DEF aggregate_index, last_content_index
  <2>2. \A k : Readable(k)' = Readable(k)
    BY DEF Readable, If
  <2> QED
    BY <2>1, <2>2 DEF ReadsInv, ReadsAreOfTheirForward, FinalReadsTheToken
<1>5. RowsFollowTokens'
  BY DEF ReadsInv, ReadsAreOfTheirForward, RowsFollowTokens
<1> QED
  BY <1>1, <1>2, <1>3, <1>4, <1>5 DEF ReadsInv, ReadsAreOfTheirForward

\* What the capture holds at any point of a generation.
THEOREM ReadsInvariant == ReadsSpec => []ReadsInv
<1>1. ReadsInit => ReadsInv
  BY ReadsStart
<1>2. ReadsInv /\ [ReadsNext]_readsVars => ReadsInv'
  BY BeginKeeps, ForwardKeeps, StepCallbackKeeps, GateKeeps, TokenKeeps, EndKeeps,
     FinalizeKeeps, ReadsStutter DEF ReadsNext
<1> QED
  BY <1>1, <1>2, PTL DEF ReadsSpec

\* Gates, token readings, aggregates and rows are of the forward they are reported
\* for, under every retention and whatever reads together.
THEOREM ReadsFollowTheirForward == ReadsSpec => []ReadsAreOfTheirForward
<1>1. ReadsInv => ReadsAreOfTheirForward
  BY DEF ReadsInv
<1> QED
  BY <1>1, ReadsInvariant, PTL

(***************************************************************************)
(* The lens instrument: the inductive invariant.                           *)
(***************************************************************************)

LensPcs == {"idle", "compose", "waits", "failed", "bind", "decode", "put", "read", "evict"}
SomeLens == LensObjects \cup {Null}

\* A live readout that was not resolved late is of this lens.
LiveIsOf(readout, lens) ==
  readout # Null =>
    (readout.late \/ (lens # Null /\ readout.stack = lens.artifact /\ readout.layers \subseteq LayersOfLens(lens)))

\* The probes and the directions of a view are of its lens.
DerivedIsOne(w) ==
  /\ \A name \in DOMAIN w.probes : w.probes[name] = LayersOfLens(w.lens)
  /\ \A word \in DOMAIN w.directions : w.directions[word].late \/
       (w.lens # Null /\ w.directions[word].of = w.lens.artifact)
ViewIsOne(w) == DerivedIsOne(w) /\ LiveIsOf(w.live, w.lens)

\* No two lenses in use share an address, and no stack is of another lens than its address says.
Distinct(objects) == \A lens, other \in objects : lens.address = other.address => lens = other
StacksAnswer(stacks, objects) ==
  \A lens \in objects : \A i \in DOMAIN stacks :
    stacks[i].key[1] = lens.address => stacks[i].of = lens.artifact
SmallCache(stacks) == DOMAIN stacks \subseteq 1..2

ViewTyped(w) ==
  /\ w = [lens |-> w.lens, stacks |-> w.stacks, probes |-> w.probes, live |-> w.live, directions |-> w.directions]
  /\ w.lens \in SomeLens /\ SmallCache(w.stacks)

LensTypes ==
  /\ onDisk \in Lenses \cup {Null} /\ ViewTyped(view)
  /\ held \in [LensActors -> SomeLens] /\ prep.lens \in SomeLens /\ lensRun.lens \in SomeLens
  /\ lensPc \in [LensActors -> LensPcs]
  /\ lensRun = [lens |-> lensRun.lens, pinned |-> lensRun.pinned, specs |-> lensRun.specs, live |-> lensRun.live,
                final |-> lensRun.final, captured |-> lensRun.captured, used |-> lensRun.used]

\* The calls that may be inside a refresh.
CallOK(c) ==
  \/ c.actor = "info" /\ c.kind = "check"
  \/ c.actor = "generation" /\ c.kind = "prepare"
  \/ c.actor = "generation" /\ c.kind = "hold" /\ c.arg = "put"
  \/ c.actor = "caller" /\ c.kind = "hold" /\ c.arg = "read"
  \/ c.actor = "caller" /\ c.kind \in {"live", "attach"}

\* A generation is in the section from its start to its end, and has a run while it decodes.
PlaceInv ==
  /\ lensPc["generation"] # "idle" => inside = "generation"
  /\ lensPc["generation"] # "decode" => lensRun = NoRun
  /\ lensPc["generation"] = "put" => held["generation"] # Null
  /\ lensPc["caller"] = "read" => held["caller"] # Null

\* Between two reads of the disk a refresh leaves a view of one lens, but for the live
\* readout it has still to restore; that one fits the lens it is restored on.
RefreshInv ==
  /\ refresh.stage \in {"none", "sidecar", "load", "live", "restore"}
  /\ refresh.stage # "none" =>
       /\ CallOK(refresh.call) /\ lensPc[refresh.call.actor] = "waits"
       /\ refresh.call.kind = "attach" => inside = "caller"
  /\ refresh.stage # "live" => ViewIsOne(view)
  /\ refresh.stage = "live" => (DerivedIsOne(view) /\ Fits(view.lens, Head(refresh.pending)))
  /\ refresh.stage \in {"live", "restore"} => (view.lens # Null /\ refresh.pending \in Seq({Null} \cup SUBSET Nat))
  /\ refresh.stage \in {"live", "restore"} => refresh.pending # <<>>

StackInv == Distinct(Referenced) /\ StacksAnswer(view.stacks, Referenced)

\* What was prepared is of the prepared lens, and so is what the run measures.
PrepInv ==
  prep.lens # Null =>
    /\ \A name \in DOMAIN prep.specs : prep.specs[name] = LayersOfLens(prep.lens)
    /\ LiveIsOf(prep.live, prep.lens)
MeasureInv ==
  /\ GenerationReadsOneLens
  /\ lensRun.lens # Null => LiveIsOf(lensRun.live, lensRun.lens)

LensInv == LensTypes /\ PlaceInv /\ RefreshInv /\ StackInv /\ PrepInv /\ MeasureInv

LEMMA NullIsNoLens ==
  /\ Null \notin Lenses /\ Null \notin LensObjects /\ Compatible \subseteq Lenses
  /\ \A v \in Lenses : FittedLayers[v] \subseteq Nat
BY LensInstrumentAssumption

(***************************************************************************)
(* The cache of stacks.                                                    *)
(***************************************************************************)

\* Whoever asks for the stacks of a lens in use gets those of that lens, and the cache
\* goes on answering for every lens in use.
LEMMA Touches ==
  ASSUME NEW stacks, SmallCache(stacks), NEW objects, Distinct(objects), StacksAnswer(stacks, objects),
         NEW lens \in objects, NEW layers
  PROVE  /\ SmallCache(Touched(stacks, lens, layers)) /\ StacksAnswer(Touched(stacks, lens, layers), objects)
         /\ StackReturned(stacks, lens, layers) = lens.artifact
<1> DEFINE key == StackKey(lens, layers)
           hits == Cached(stacks, key)
           entry == StackEntry(stacks, lens, layers)
           others == DOMAIN stacks \ hits
           all == Touched(stacks, lens, layers)
<1>1. key[1] = lens.address BY DEF StackKey
<1>2. entry.key = key /\ entry.of = lens.artifact
  <2>1. CASE hits # {}
    <3>1. PICK i \in hits : entry = stacks[i] BY <2>1 DEF StackEntry
    <3>2. i \in DOMAIN stacks /\ stacks[i].key = key BY DEF Cached
    <3> QED BY <1>1, <3>1, <3>2 DEF StacksAnswer
  <2>2. CASE hits = {} BY <2>2 DEF StackEntry
  <2> QED BY <2>1, <2>2
<1>3. \/ others = {} /\ all = <<entry>>
      \/ \E i \in DOMAIN stacks : all = <<stacks[i], entry>>
  <2>1. CASE others = {} BY <2>1 DEF Touched
  <2>2. CASE others # {}
    <3>1. others \subseteq 1..2 BY DEF SmallCache
    <3>2. \E i \in others : \A j \in others : j <= i BY <2>2, <3>1
    <3>3. PICK i \in others : all = <<stacks[i], entry>> BY <2>2, <3>2 DEF Touched
    <3> QED BY <3>3
  <2> QED BY <2>1, <2>2
<1>4. StackReturned(stacks, lens, layers) = lens.artifact BY <1>2 DEF StackReturned
<1> HIDE DEF entry, all, others, hits
<1>5. \A other \in objects : entry.key[1] = other.address => entry.of = other.artifact
  BY <1>1, <1>2 DEF Distinct
<1>6. CASE all = <<entry>>
  <2>1. DOMAIN all = 1..1 /\ all[1] = entry BY <1>6
  <2> QED BY <1>4, <1>5, <2>1 DEF SmallCache, StacksAnswer, all
<1>7. ASSUME NEW i \in DOMAIN stacks, all = <<stacks[i], entry>>
      PROVE  SmallCache(all) /\ StacksAnswer(all, objects)
  <2>1. DOMAIN all = 1..2 /\ all[1] = stacks[i] /\ all[2] = entry BY <1>7
  <2> QED BY <1>5, <2>1 DEF SmallCache, StacksAnswer
<1> QED BY <1>3, <1>4, <1>6, <1>7 DEF all

\* An empty cache answers for whoever asks.
LEMMA EmptyAnswers == ASSUME NEW objects PROVE SmallCache(<<>>) /\ StacksAnswer(<<>>, objects)
BY DEF SmallCache, StacksAnswer

LEMMA FewerAnswer ==
  ASSUME NEW stacks, NEW objects, NEW fewer, fewer \subseteq objects, Distinct(objects), StacksAnswer(stacks, objects)
  PROVE  Distinct(fewer) /\ StacksAnswer(stacks, fewer)
BY DEF Distinct, StacksAnswer

(***************************************************************************)
(* Views.                                                                  *)
(***************************************************************************)

LEMMA EvictedIs ==
  ASSUME NEW w
  PROVE  /\ ViewTyped(Evicted(w)) /\ ViewIsOne(Evicted(w)) /\ Evicted(w).lens = Null /\ Evicted(w).stacks = <<>>
BY DEF Evicted, ViewTyped, ViewIsOne, DerivedIsOne, LiveIsOf, LayersOfLens, SomeLens, SmallCache

LEMMA InstalledIs ==
  ASSUME NEW w, ViewTyped(w), NEW lens \in LensObjects, NEW objects, Distinct(objects), lens \in objects
  PROVE  /\ ViewTyped(Installed(w, lens)) /\ DerivedIsOne(Installed(w, lens)) /\ Installed(w, lens).lens = lens
         /\ Installed(w, lens).live = w.live /\ StacksAnswer(Installed(w, lens).stacks, objects)
<1> DEFINE stacks == IF DOMAIN w.probes = {} THEN <<>> ELSE Touched(<<>>, lens, LayersOfLens(lens))
           watched == [name \in DOMAIN w.probes |-> LayersOfLens(lens)]
<1>1. SmallCache(stacks) /\ StacksAnswer(stacks, objects) BY EmptyAnswers, Touches
<1>2. Installed(w, lens) = [w EXCEPT !.lens = lens, !.directions = <<>>, !.probes = watched, !.stacks = stacks]
  BY DEF Installed
<1>3. DOMAIN watched = DOMAIN w.probes /\ \A name \in DOMAIN watched : watched[name] = LayersOfLens(lens) OBVIOUS
<1> HIDE DEF stacks, watched
<1>4. Installed(w, lens) = [lens |-> lens, stacks |-> stacks, probes |-> watched, live |-> w.live, directions |-> <<>>]
  BY <1>2 DEF ViewTyped
<1> QED BY <1>1, <1>3, <1>4 DEF ViewTyped, DerivedIsOne, SomeLens

\* A live readout on a lens in use, the resident one or not.
LEMMA LiveOnIs ==
  ASSUME NEW w, ViewTyped(w), DerivedIsOne(w), NEW lens \in LensObjects, NEW layers, Fits(lens, layers),
         NEW objects, Distinct(objects), lens \in objects, StacksAnswer(w.stacks, objects)
  PROVE  /\ ViewTyped(LiveOn(w, lens, layers)) /\ ViewIsOne(LiveOn(w, lens, layers))
         /\ LiveOn(w, lens, layers).lens = w.lens /\ StacksAnswer(LiveOn(w, lens, layers).stacks, objects)
<1> DEFINE set == IF layers = Null THEN LayersOfLens(lens) ELSE layers
           stacks == IF set = {} THEN w.stacks ELSE Touched(w.stacks, lens, set)
           readout == [layers |-> set, all |-> layers = Null,
                    stack |-> IF set = {} THEN lens.artifact ELSE StackReturned(w.stacks, lens, set),
                    late |-> lens # w.lens]
<1>1. SmallCache(stacks) /\ StacksAnswer(stacks, objects) /\ readout.stack = lens.artifact
  BY Touches DEF ViewTyped
<1>2. set \subseteq LayersOfLens(lens) BY DEF Fits
<1>3. LiveOn(w, lens, layers) = [w EXCEPT !.stacks = stacks, !.live = readout] BY DEF LiveOn
<1>4. readout.layers = set /\ readout.late = (lens # w.lens) OBVIOUS
<1> HIDE DEF stacks, readout, set
<1>5. LiveOn(w, lens, layers) = [lens |-> w.lens, stacks |-> stacks, probes |-> w.probes, live |-> readout,
                                 directions |-> w.directions]
  BY <1>3 DEF ViewTyped
<1>6. LiveIsOf(readout, w.lens) BY <1>1, <1>2, <1>4, NullIsNoLens DEF LiveIsOf
<1> QED BY <1>1, <1>5, <1>6 DEF ViewTyped, ViewIsOne, DerivedIsOne

(***************************************************************************)
(* How a call ends, and how it goes on.                                    *)
(***************************************************************************)

\* The lenses in use, were w the view.
Users(w) ==
  { lens \in {w.lens, held["generation"], held["caller"], prep.lens, lensRun.lens} : lens # Null }

\* Whose call it is, as long as it is not over.
Calling(c) ==
  /\ CallOK(c)
  /\ c.actor = "generation" => lensPc["generation"] \in {"compose", "waits"}
  /\ c.kind = "attach" => inside = "caller"

\* A view for lenses in use: one that may replace the present one.
ViewFor(w, objects) ==
  ViewTyped(w) /\ Distinct(objects) /\ StacksAnswer(w.stacks, objects) /\ Users(w) \subseteq objects

LEMMA AttachedIs ==
  ASSUME NEW w, NEW objects, ViewFor(w, objects), ViewIsOne(w), w.lens # Null, NEW name
  PROVE  /\ ViewTyped(Attached(w, w.lens, name)) /\ ViewIsOne(Attached(w, w.lens, name))
         /\ Attached(w, w.lens, name).lens = w.lens /\ StacksAnswer(Attached(w, w.lens, name).stacks, objects)
<1> DEFINE stacks == Touched(w.stacks, w.lens, LayersOfLens(w.lens))
           watched == [n \in DOMAIN w.probes \cup {name} |-> IF n = name THEN LayersOfLens(w.lens) ELSE w.probes[n]]
<1>0. w.lens \in objects BY DEF ViewFor, Users
<1>1. SmallCache(stacks) /\ StacksAnswer(stacks, objects) BY <1>0, Touches DEF ViewFor, ViewTyped
<1>2. Attached(w, w.lens, name) = [w EXCEPT !.stacks = stacks, !.probes = watched] BY DEF Attached
<1>3. \A n \in DOMAIN watched : watched[n] = LayersOfLens(w.lens) BY DEF ViewIsOne, DerivedIsOne
<1> HIDE DEF stacks, watched
<1>4. Attached(w, w.lens, name) =
        [lens |-> w.lens, stacks |-> stacks, probes |-> watched, live |-> w.live, directions |-> w.directions]
  BY <1>2 DEF ViewFor, ViewTyped
<1> QED BY <1>1, <1>3, <1>4 DEF ViewFor, ViewTyped, ViewIsOne, DerivedIsOne

LEMMA ReturnHolds ==
  ASSUME LensInv, NEW c, Calling(c), NEW w, NEW lens \in SomeLens, Return(c, w, lens), UNCHANGED <<onDisk, lensRun>>,
         NEW objects, ViewFor(w, objects), ViewIsOne(w), lens # Null => lens \in objects,
         (c.kind \in {"prepare", "attach"} /\ lens # Null) => w.lens = lens
  PROVE  LensInv'
<1>0. LensTypes /\ PlaceInv /\ RefreshInv /\ StackInv /\ PrepInv /\ MeasureInv /\ ViewTyped(w)
  BY DEF LensInv, ViewFor
<1>1. /\ c.kind \in {"check", "prepare", "hold", "live", "attach"} /\ c.actor \in LensActors
      /\ c.kind = "attach" => (c.actor = "caller" /\ inside = "caller")
      /\ c.kind = "prepare" => c.actor = "generation"
      /\ c.kind = "hold" => (c.actor = "generation" /\ c.arg = "put") \/ (c.actor = "caller" /\ c.arg = "read")
      /\ c.kind \in {"check", "live"} => c.actor # "generation"
      /\ c.actor = "generation" => lensPc["generation"] \in {"compose", "waits"}
  BY DEF Calling, CallOK, LensActors
<1>2. ViewTyped(view') /\ ViewIsOne(view') /\ view'.lens = w.lens /\ StacksAnswer(view'.stacks, objects)
  <2>1. CASE c.kind \in {"check", "prepare", "hold"}
    <3>1. view' = w BY <2>1 DEF Return
    <3> QED BY <3>1 DEF ViewFor
  <2>2. CASE c.kind = "live"
    <3>1. CASE lens # Null /\ Fits(lens, c.arg)
      <4>1. lens \in LensObjects /\ lens \in objects BY <3>1 DEF SomeLens
      <4>2. view' = LiveOn(w, lens, c.arg) BY <2>2, <3>1 DEF Return
      <4> QED BY <3>1, <4>1, <4>2, LiveOnIs DEF ViewFor, ViewIsOne
    <3>2. CASE ~(lens # Null /\ Fits(lens, c.arg))
      <4>1. view' = w BY <2>2, <3>2 DEF Return
      <4> QED BY <4>1 DEF ViewFor
    <3> QED BY <3>1, <3>2
  <2>3. CASE c.kind = "attach"
    <3>1. CASE lens = Null
      <4>1. view' = w BY <2>3, <3>1 DEF Return
      <4> QED BY <4>1 DEF ViewFor
    <3>2. CASE lens # Null
      <4>1. w.lens = lens /\ w.lens # Null BY <2>3, <3>2
      <4>2. view' = Attached(w, w.lens, c.arg) BY <2>3, <4>1 DEF Return
      <4> QED BY <4>1, <4>2, AttachedIs
    <3> QED BY <3>1, <3>2
  <2> QED BY <1>1, <2>1, <2>2, <2>3
<1>3. /\ held' \in [LensActors -> SomeLens] /\ prep'.lens \in SomeLens
      /\ \A x \in LensActors : held'[x] = held[x] \/ held'[x] = lens
      /\ prep'.lens = prep.lens \/ prep'.lens = lens
  <2>0. held \in [LensActors -> SomeLens] /\ prep.lens \in SomeLens BY <1>0 DEF LensTypes
  <2>1. CASE c.kind = "prepare"
    <3>1. held' = held /\ prep' = Snapshot(w, c.arg, TRUE, lens) BY <2>1 DEF Return
    <3> QED BY <2>0, <3>1 DEF Snapshot
  <2>2. CASE c.kind = "hold"
    <3>1. held' = [held EXCEPT ![c.actor] = lens] /\ prep' = prep BY <2>2 DEF Return
    <3> QED BY <1>1, <2>0, <3>1
  <2>3. CASE c.kind \in {"check", "live", "attach"}
    <3>1. held' = held /\ prep' = prep BY <2>3 DEF Return
    <3> QED BY <2>0, <3>1
  <2> QED BY <1>1, <2>1, <2>2, <2>3
<1>4. Referenced' \subseteq objects
  <2>1. {"generation", "caller"} \subseteq LensActors BY DEF LensActors
  <2> QED BY <1>2, <1>3, <2>1 DEF Referenced, ViewFor, Users
<1>5. StackInv' BY <1>2, <1>4, FewerAnswer DEF StackInv, ViewFor
<1>6. PrepInv'
  <2>1. CASE c.kind = "prepare" /\ lens # Null
    <3>1. prep' = Snapshot(w, c.arg, TRUE, lens) /\ w.lens = lens BY <2>1 DEF Return
    <3>2. prep'.lens = lens /\ prep'.live = w.live /\ \A name \in DOMAIN prep'.specs : prep'.specs[name] = LayersOfLens(lens)
      BY <2>1, <3>1 DEF Snapshot
    <3> QED BY <3>1, <3>2 DEF PrepInv, ViewIsOne
  <2>2. CASE c.kind = "prepare" /\ lens = Null
    <3>1. prep'.lens = Null BY <2>2 DEF Return, Snapshot
    <3> QED BY <3>1 DEF PrepInv
  <2>3. CASE c.kind # "prepare"
    <3>1. prep' = prep BY <1>1, <2>3 DEF Return
    <3> QED BY <1>0, <3>1 DEF PrepInv
  <2> QED BY <2>1, <2>2, <2>3
<1>7. /\ lensPc' \in [LensActors -> LensPcs]
      /\ \A x \in LensActors : x # c.actor => lensPc'[x] = lensPc[x]
  BY <1>0, <1>1 DEF Return, LensTypes, LensPcs
<1>8. PlaceInv'
  <2>1. lensPc'["generation"] # "idle" => inside' = "generation"
    <3>1. CASE c.kind = "attach" BY <1>0, <1>1, <1>7, <3>1 DEF PlaceInv, LensActors
    <3>2. CASE c.kind # "attach"
      <4>1. inside' = inside BY <1>1, <3>2 DEF Return
      <4>2. lensPc'["generation"] # "idle" => lensPc["generation"] # "idle" BY <1>1, <1>7 DEF LensActors
      <4> QED BY <1>0, <4>1, <4>2 DEF PlaceInv
    <3> QED BY <3>1, <3>2
  <2>2. lensPc'["generation"] # "decode" => lensRun' = NoRun BY <1>0, <1>1, <1>7 DEF PlaceInv, LensActors
  <2>3. /\ lensPc'["generation"] = "put" => held'["generation"] # Null
        /\ lensPc'["caller"] = "read" => held'["caller"] # Null
    BY <1>0, <1>1 DEF PlaceInv, Return, LensActors, LensTypes
  <2> QED BY <2>1, <2>2, <2>3 DEF PlaceInv
<1>9. RefreshInv'
  <2>1. refresh' = NoRefresh BY DEF Return
  <2> QED BY <1>2, <2>1 DEF RefreshInv, NoRefresh
<1>10. LensTypes' BY <1>0, <1>2, <1>3, <1>7 DEF LensTypes
<1>11. MeasureInv' BY <1>0 DEF MeasureInv, GenerationReadsOneLens
<1> QED BY <1>5, <1>6, <1>8, <1>9, <1>10, <1>11 DEF LensInv

LEMMA WaitHolds ==
  ASSUME LensInv, NEW c, CallOK(c), c.actor = "generation" => lensPc["generation"] \in {"compose", "waits"},
         NEW stage \in {"sidecar", "load", "live", "restore"}, NEW pending, NEW w, NEW objects,
         Wait(c, stage, pending), view' = w, UNCHANGED <<onDisk, lensRun>>, ViewFor(w, objects),
         inside' = inside \/ (lensPc["generation"] = "idle" /\ c.actor # "generation"),
         c.kind = "attach" => inside' = "caller",
         stage # "live" => ViewIsOne(w),
         stage = "live" => (DerivedIsOne(w) /\ Fits(w.lens, Head(pending))),
         stage \in {"live", "restore"} => (w.lens # Null /\ pending \in Seq({Null} \cup SUBSET Nat) /\ pending # <<>>)
  PROVE  LensInv'
<1>0. LensTypes /\ PlaceInv /\ RefreshInv /\ StackInv /\ PrepInv /\ MeasureInv /\ ViewTyped(w)
  BY DEF LensInv, ViewFor
<1>1. /\ refresh' = [call |-> c, stage |-> stage, pending |-> pending]
      /\ lensPc' = [lensPc EXCEPT ![c.actor] = "waits"] /\ UNCHANGED <<prep, held>>
  BY DEF Wait
<1>2. c.actor \in LensActors BY DEF CallOK, LensActors
<1>3. /\ lensPc' \in [LensActors -> LensPcs] /\ lensPc'[c.actor] = "waits"
      /\ \A x \in LensActors : x # c.actor => lensPc'[x] = lensPc[x]
  BY <1>0, <1>1, <1>2 DEF LensTypes, LensPcs
<1>4. LensTypes' BY <1>0, <1>1, <1>3 DEF LensTypes
<1>5. PlaceInv' BY <1>0, <1>1, <1>3 DEF PlaceInv, LensActors
<1>6. RefreshInv' BY <1>1, <1>3 DEF RefreshInv
<1>7. StackInv'
  <2>1. Referenced' \subseteq objects BY <1>1 DEF Referenced, ViewFor, Users
  <2> QED BY <2>1, FewerAnswer DEF StackInv, ViewFor
<1>8. PrepInv' /\ MeasureInv' BY <1>0, <1>1 DEF PrepInv, MeasureInv, GenerationReadsOneLens
<1> QED BY <1>4, <1>5, <1>6, <1>7, <1>8 DEF LensInv

LEMMA RaiseHolds ==
  ASSUME LensInv, NEW c, Calling(c), NEW w, Raise(c, w), UNCHANGED <<onDisk, lensRun>>,
         NEW objects, ViewFor(w, objects), ViewIsOne(w)
  PROVE  LensInv'
<1>0. LensTypes /\ PlaceInv /\ RefreshInv /\ StackInv /\ PrepInv /\ MeasureInv /\ ViewTyped(w)
  BY DEF LensInv, ViewFor
<1>1. /\ refresh' = NoRefresh /\ view' = w /\ UNCHANGED <<prep, held>>
      /\ lensPc' = [lensPc EXCEPT ![c.actor] = IF c.actor = "generation" THEN "failed" ELSE "idle"]
      /\ inside' = IF c.kind = "attach" THEN Null ELSE inside
  BY DEF Raise
<1>2. /\ c.actor \in LensActors
      /\ c.kind = "attach" => (c.actor = "caller" /\ inside = "caller")
      /\ c.actor = "generation" => lensPc["generation"] \in {"compose", "waits"}
  BY DEF Calling, CallOK, LensActors
<1>3. /\ lensPc' \in [LensActors -> LensPcs]
      /\ \A x \in LensActors : x # c.actor => lensPc'[x] = lensPc[x]
      /\ lensPc'[c.actor] = IF c.actor = "generation" THEN "failed" ELSE "idle"
  BY <1>0, <1>1, <1>2 DEF LensTypes, LensPcs
<1>4. LensTypes' BY <1>0, <1>1, <1>3 DEF LensTypes
<1>5. PlaceInv' BY <1>0, <1>1, <1>2, <1>3 DEF PlaceInv, LensActors
<1>6. RefreshInv' BY <1>1 DEF RefreshInv, NoRefresh
<1>7. StackInv'
  <2>1. Referenced' \subseteq objects BY <1>1 DEF Referenced, ViewFor, Users
  <2> QED BY <1>1, <2>1, FewerAnswer DEF StackInv, ViewFor
<1>8. PrepInv' /\ MeasureInv' BY <1>0, <1>1 DEF PrepInv, MeasureInv, GenerationReadsOneLens
<1> QED BY <1>4, <1>5, <1>6, <1>7, <1>8 DEF LensInv

(***************************************************************************)
(* The refresh.                                                            *)
(***************************************************************************)

LEMMA ViewNow ==
  ASSUME LensInv
  PROVE  /\ ViewFor(view, Referenced) /\ ViewTyped(view)
         /\ ViewFor(Evicted(view), Referenced) /\ ViewIsOne(Evicted(view))
         /\ view.lens \in SomeLens /\ lensRun.lens \in SomeLens
         /\ view.lens # Null => view.lens \in Referenced
         /\ lensRun.lens # Null => lensRun.lens \in Referenced
<1>1. /\ ViewTyped(view) /\ lensRun.lens \in SomeLens
      /\ Distinct(Referenced) /\ StacksAnswer(view.stacks, Referenced)
  BY DEF LensInv, LensTypes, StackInv
<1>2. Users(view) = Referenced BY DEF Users, Referenced
<1>3. /\ ViewTyped(Evicted(view)) /\ ViewIsOne(Evicted(view))
      /\ Evicted(view).lens = Null /\ Evicted(view).stacks = <<>>
  BY EvictedIs
<1>4. Users(Evicted(view)) \subseteq Referenced BY <1>3 DEF Users, Referenced
<1>5. StacksAnswer(Evicted(view).stacks, Referenced) BY <1>3, EmptyAnswers
<1>6. view.lens \in SomeLens BY <1>1 DEF ViewTyped
<1>7. /\ view.lens # Null => view.lens \in Referenced
      /\ lensRun.lens # Null => lensRun.lens \in Referenced
  BY DEF Referenced
<1> QED BY <1>1, <1>2, <1>3, <1>4, <1>5, <1>6, <1>7 DEF ViewFor

\* Whose refresh it is.
LEMMA Refreshing ==
  ASSUME LensInv, refresh.stage # "none" PROVE CallOK(refresh.call) /\ Calling(refresh.call)
<1>1. /\ CallOK(refresh.call) /\ lensPc[refresh.call.actor] = "waits"
      /\ refresh.call.kind = "attach" => inside = "caller"
  BY DEF LensInv, RefreshInv
<1> QED BY <1>1 DEF Calling

\* A refresh that goes on.
LEMMA GoesOn ==
  ASSUME LensInv, NEW c, Calling(c), NEW stage \in {"load", "live", "restore"}, NEW pending, NEW w, NEW objects,
         Wait(c, stage, pending), view' = w, UNCHANGED <<onDisk, lensRun>>, inside' = inside, ViewFor(w, objects),
         stage # "live" => ViewIsOne(w),
         stage = "live" => (DerivedIsOne(w) /\ Fits(w.lens, Head(pending))),
         stage # "load" => (w.lens # Null /\ pending \in Seq({Null} \cup SUBSET Nat) /\ pending # <<>>)
  PROVE  LensInv'
<1>1. /\ CallOK(c)
      /\ c.actor = "generation" => lensPc["generation"] \in {"compose", "waits"}
      /\ c.kind = "attach" => inside' = "caller"
  BY DEF Calling
<1>2. stage \in {"sidecar", "load", "live", "restore"} OBVIOUS
<1>3. stage \in {"live", "restore"} => (w.lens # Null /\ pending \in Seq({Null} \cup SUBSET Nat) /\ pending # <<>>)
  OBVIOUS
<1>4. inside' = inside \/ (lensPc["generation"] = "idle" /\ c.actor # "generation") OBVIOUS
<1> QED BY <1>1, <1>2, <1>3, <1>4, WaitHolds

LEMMA BeginCallHolds ==
  ASSUME LensInv, NEW c, CallOK(c), BeginCall(c), UNCHANGED <<onDisk, lensRun>>,
         c.actor = "generation" => lensPc["generation"] = "compose",
         c.kind = "attach" => inside = Null
  PROVE  LensInv'
<1>1. LensTypes /\ PlaceInv /\ RefreshInv BY DEF LensInv
<1>2. refresh.stage = "none" /\ ViewIsOne(view) BY <1>1 DEF BeginCall, LockFree, RefreshInv
<1>3. Null # "generation" BY LensInstrumentAssumption DEF LensActors
<1>4. CASE Pinned
  <2>1. lensRun # NoRun BY <1>4 DEF Pinned, NoRun
  <2>2. lensPc["generation"] = "decode" /\ inside = "generation" BY <1>1, <2>1 DEF PlaceInv
  <2>3. c.actor # "generation" /\ c.kind # "attach" /\ c.kind # "prepare" BY <1>3, <2>2 DEF CallOK
  <2>4. Calling(c) BY <2>3 DEF Calling
  <2>5. Return(c, view, lensRun.lens) BY <1>4 DEF BeginCall
  <2>6. (c.kind \in {"prepare", "attach"} /\ lensRun.lens # Null) => view.lens = lensRun.lens BY <2>3
  <2> QED BY <1>2, <2>4, <2>5, <2>6, ViewNow, ReturnHolds
<1>5. CASE ~Pinned
  <2>1. /\ Wait(c, "sidecar", <<>>) /\ view' = view
        /\ inside' = IF c.kind = "attach" THEN c.actor ELSE inside
    BY <1>5 DEF BeginCall
  <2>2. c.kind = "attach" => (c.actor = "caller" /\ lensPc["generation"] = "idle")
    BY <1>1, <1>3 DEF CallOK, PlaceInv
  <2>3. inside' = inside \/ (lensPc["generation"] = "idle" /\ c.actor # "generation") BY <2>1, <2>2
  <2>4. c.kind = "attach" => inside' = "caller" BY <2>1, <2>2
  <2>5. c.actor = "generation" => lensPc["generation"] \in {"compose", "waits"} OBVIOUS
  <2>6. ViewFor(view, Referenced) BY ViewNow
  <2> QED BY <1>2, <2>1, <2>3, <2>4, <2>5, <2>6, WaitHolds
<1> QED BY <1>4, <1>5

LEMMA SidecarHolds == ASSUME LensInv, SidecarRead PROVE LensInv'
<1>1. refresh.stage = "sidecar" /\ UNCHANGED <<onDisk, lensRun>> BY DEF SidecarRead
<1>2. Calling(refresh.call) BY <1>1, Refreshing
<1>3. ViewIsOne(view) BY <1>1 DEF LensInv, RefreshInv
<1>4. \/ Return(refresh.call, Evicted(view), Null) \/ Return(refresh.call, view, Null)
      \/ Return(refresh.call, view, view.lens)
      \/ Wait(refresh.call, "load", <<>>) /\ UNCHANGED <<view, inside>>
  BY DEF SidecarRead
<1>5. Null \in SomeLens BY DEF SomeLens
<1>6. CASE Return(refresh.call, Evicted(view), Null) BY <1>1, <1>2, <1>5, <1>6, ViewNow, ReturnHolds
<1>7. CASE Return(refresh.call, view, Null) BY <1>1, <1>2, <1>3, <1>5, <1>7, ViewNow, ReturnHolds
<1>8. CASE Return(refresh.call, view, view.lens) BY <1>1, <1>2, <1>3, <1>8, ViewNow, ReturnHolds
<1>9. CASE Wait(refresh.call, "load", <<>>) /\ UNCHANGED <<view, inside>>
  BY <1>1, <1>2, <1>3, <1>9, ViewNow, GoesOn
<1> QED BY <1>4, <1>6, <1>7, <1>8, <1>9

\* A lens just read is a lens like no other in use.
LEMMA AdoptHolds ==
  ASSUME LensInv, NEW c, Calling(c), NEW pending \in Seq({Null} \cup SUBSET Nat), Matches(onDisk),
         Adopt(c, pending), UNCHANGED <<onDisk, lensRun>>
  PROVE  LensInv'
<1>1. PICK a \in FreeAddresses :
        LET lens == LensObject(onDisk, a)
        IN IF view.live = Null
           THEN Return(c, Installed(view, lens), lens)
           ELSE /\ Wait(c, "live", <<Restored(view.live, lens)>> \o pending)
                /\ view' = Installed(view, lens) /\ UNCHANGED inside
  BY DEF Adopt
<1> DEFINE lens == LensObject(onDisk, a)
           w == Installed(view, lens)
           objects == Referenced \cup {lens}
           set == Restored(view.live, lens)
<1>2. onDisk \in Lenses /\ a \in Addresses /\ lens \in LensObjects /\ lens # Null
  BY NullIsNoLens DEF Matches, FreeAddresses, LensObject, LensObjects
<1>3. \A other \in Referenced : other.address # lens.address BY DEF FreeAddresses, LensObject
<1>4. Distinct(Referenced) /\ ViewTyped(view) BY ViewNow DEF ViewFor
<1>5. Distinct(objects) BY <1>3, <1>4 DEF Distinct
<1>6. set = Null \/ (set \subseteq LayersOfLens(lens) /\ set \subseteq Nat)
  BY <1>2, NullIsNoLens DEF Restored, LayersOfLens, LensObject
<1>7. (view.live = Null /\ Return(c, w, lens))
      \/ (view.live # Null /\ Wait(c, "live", <<set>> \o pending) /\ view' = w /\ UNCHANGED inside)
  BY <1>1
<1> HIDE DEF lens, w, set, objects
<1>8. /\ ViewTyped(w) /\ DerivedIsOne(w) /\ w.lens = lens /\ w.live = view.live /\ StacksAnswer(w.stacks, objects)
  BY <1>2, <1>4, <1>5, InstalledIs DEF w, objects
<1>9. ViewFor(w, objects)
  <2>1. Users(w) \subseteq objects BY <1>8 DEF Users, Referenced, objects
  <2> QED BY <1>5, <1>8, <2>1 DEF ViewFor
<1>10. CASE view.live = Null /\ Return(c, w, lens)
  <2>1. ViewIsOne(w) BY <1>8, <1>10 DEF ViewIsOne, LiveIsOf
  <2>2. lens \in SomeLens /\ lens \in objects BY <1>2 DEF SomeLens, objects
  <2> QED BY <1>8, <1>9, <1>10, <2>1, <2>2, ReturnHolds
<1>11. CASE view.live # Null /\ Wait(c, "live", <<set>> \o pending) /\ view' = w /\ UNCHANGED inside
  <2>1. set \in {Null} \cup SUBSET Nat BY <1>6
  <2>2. <<set>> \o pending \in Seq({Null} \cup SUBSET Nat) /\ <<set>> \o pending # <<>>
        /\ Head(<<set>> \o pending) = set
    BY <2>1
  <2>3. Fits(w.lens, set) BY <1>6, <1>8 DEF Fits
  <2> QED BY <1>2, <1>8, <1>9, <1>11, <2>2, <2>3, GoesOn
<1> QED BY <1>7, <1>10, <1>11

LEMMA LoadHolds == ASSUME LensInv, LensLoad PROVE LensInv'
<1>1. refresh.stage = "load" /\ UNCHANGED <<onDisk, lensRun>> BY DEF LensLoad
<1>2. Calling(refresh.call) BY <1>1, Refreshing
<1>3. CASE ~Matches(onDisk)
  <2>1. Return(refresh.call, Evicted(view), Null) BY <1>3 DEF LensLoad
  <2>2. Null \in SomeLens BY DEF SomeLens
  <2> QED BY <1>1, <1>2, <2>1, <2>2, ViewNow, ReturnHolds
<1>4. CASE Matches(onDisk)
  <2>1. Adopt(refresh.call, <<>>) BY <1>4 DEF LensLoad
  <2>2. <<>> \in Seq({Null} \cup SUBSET Nat) OBVIOUS
  <2> QED BY <1>1, <1>2, <1>4, <2>1, <2>2, AdoptHolds
<1> QED BY <1>3, <1>4

LEMMA RestoreNextHolds ==
  ASSUME LensInv, refresh.stage \in {"live", "restore"}, RestoreNext(refresh.call, Tail(refresh.pending)),
         UNCHANGED <<onDisk, lensRun>>
  PROVE  LensInv'
<1> DEFINE set == Head(refresh.pending)
           rest == Tail(refresh.pending)
           w == LiveOn(view, view.lens, set)
<1>1. Calling(refresh.call) BY Refreshing
<1>2. /\ DerivedIsOne(view) /\ view.lens # Null /\ refresh.pending # <<>>
      /\ refresh.pending \in Seq({Null} \cup SUBSET Nat)
      /\ Fits(view.lens, set) \/ ViewIsOne(view)
  BY DEF LensInv, RefreshInv, ViewIsOne
<1>3. rest \in Seq({Null} \cup SUBSET Nat) BY <1>2
<1>4. CASE ~Fits(view.lens, set)
  <2>1. Raise(refresh.call, view) BY <1>4 DEF RestoreNext
  <2> QED BY <1>1, <1>2, <1>4, <2>1, ViewNow, RaiseHolds
<1>5. CASE Fits(view.lens, set)
  <2>1. \/ rest = <<>> /\ Return(refresh.call, w, w.lens)
        \/ rest # <<>> /\ Wait(refresh.call, "restore", rest) /\ view' = w /\ UNCHANGED inside
    BY <1>5 DEF RestoreNext
  <2>2. view.lens \in LensObjects BY <1>2, ViewNow DEF SomeLens
  <2>3. /\ ViewTyped(view) /\ Distinct(Referenced) /\ StacksAnswer(view.stacks, Referenced) /\ view.lens \in Referenced
    BY <1>2, ViewNow DEF ViewFor
  <2> HIDE DEF w, rest, set
  <2>4. /\ ViewTyped(w) /\ ViewIsOne(w) /\ w.lens = view.lens /\ StacksAnswer(w.stacks, Referenced)
    BY <1>2, <1>5, <2>2, <2>3, LiveOnIs DEF w
  <2>5. ViewFor(w, Referenced)
    <3>1. Users(w) = Referenced BY <2>4 DEF Users, Referenced
    <3> QED BY <2>3, <2>4, <3>1 DEF ViewFor
  <2>6. w.lens \in SomeLens /\ w.lens \in Referenced BY <2>2, <2>3, <2>4 DEF SomeLens
  <2>7. CASE rest = <<>> /\ Return(refresh.call, w, w.lens)
    BY <1>1, <2>4, <2>5, <2>6, <2>7, ReturnHolds
  <2>8. CASE rest # <<>> /\ Wait(refresh.call, "restore", rest) /\ view' = w /\ UNCHANGED inside
    BY <1>1, <1>2, <1>3, <2>4, <2>5, <2>8, GoesOn
  <2> QED BY <2>1, <2>7, <2>8
<1> QED BY <1>4, <1>5

LEMMA LiveRestoredHolds == ASSUME LensInv, LiveRestored PROVE LensInv'
<1>1. refresh.stage = "live" /\ UNCHANGED <<onDisk, lensRun>> BY DEF LiveRestored
<1>2. Calling(refresh.call) BY <1>1, Refreshing
<1>3. refresh.pending \in Seq({Null} \cup SUBSET Nat) BY <1>1 DEF LensInv, RefreshInv
<1>4. \/ Raise(refresh.call, Evicted(view))
      \/ RestoreNext(refresh.call, Tail(refresh.pending))
      \/ Matches(onDisk) /\ Adopt(refresh.call, refresh.pending)
  BY DEF LiveRestored
<1>5. CASE Raise(refresh.call, Evicted(view)) BY <1>1, <1>2, <1>5, ViewNow, RaiseHolds
<1>6. CASE RestoreNext(refresh.call, Tail(refresh.pending)) BY <1>1, <1>6, RestoreNextHolds
<1>7. CASE Matches(onDisk) /\ Adopt(refresh.call, refresh.pending) BY <1>1, <1>2, <1>3, <1>7, AdoptHolds
<1> QED BY <1>4, <1>5, <1>6, <1>7

LEMMA RestoreLiveHolds == ASSUME LensInv, RestoreLive PROVE LensInv'
BY RestoreNextHolds DEF RestoreLive

(***************************************************************************)
(* The other actions.                                                      *)
(***************************************************************************)

\* What changes the view beside a refresh leaves it whole.
LEMMA RefreshStays ==
  ASSUME LensInv, refresh' = refresh, refresh.stage # "none" => lensPc'[refresh.call.actor] = "waits",
         inside = "caller" => inside' = "caller", DerivedIsOne(view'),
         LockFree \/ (view'.lens = view.lens /\ view'.live = view.live),
         LockFree => ViewIsOne(view')
  PROVE  RefreshInv'
<1>1. RefreshInv BY DEF LensInv
<1>2. CASE refresh.stage = "none" BY <1>1, <1>2 DEF RefreshInv, LockFree
<1>3. CASE refresh.stage # "none"
  <2>1. view'.lens = view.lens /\ view'.live = view.live BY <1>3 DEF LockFree
  <2>2. refresh.stage # "live" => ViewIsOne(view')
    BY <1>1, <2>1 DEF RefreshInv, ViewIsOne
  <2> QED BY <1>1, <1>3, <2>1, <2>2 DEF RefreshInv
<1> QED BY <1>2, <1>3

\* A step of a caller who holds the lock: a new view, of the same lens or of none.
LEMMA ViewStep ==
  ASSUME LensInv, LockFree, NEW w, view' = w, ViewTyped(w), ViewIsOne(w), StacksAnswer(w.stacks, Referenced),
         w.lens = view.lens \/ w.lens = Null,
         UNCHANGED <<onDisk, refresh, prep, lensRun, held, inside>>,
         lensPc' = lensPc \/ (lensPc' = [lensPc EXCEPT !["caller"] = "idle"])
  PROVE  LensInv'
<1>0. LensTypes /\ PlaceInv /\ RefreshInv /\ StackInv /\ PrepInv /\ MeasureInv BY DEF LensInv
<1>1. /\ lensPc' \in [LensActors -> LensPcs] /\ lensPc'["generation"] = lensPc["generation"]
      /\ lensPc'["caller"] \in {lensPc["caller"], "idle"}
  BY <1>0 DEF LensTypes, LensActors, LensPcs
<1>2. LensTypes' BY <1>0, <1>1 DEF LensTypes
<1>3. PlaceInv' BY <1>0, <1>1 DEF PlaceInv
<1>4. RefreshInv'
  <2>1. DerivedIsOne(w) BY DEF ViewIsOne
  <2> QED BY <2>1, RefreshStays DEF LockFree
<1>5. StackInv'
  <2>1. Referenced' \subseteq Referenced BY DEF Referenced
  <2> QED BY <1>0, <2>1, FewerAnswer DEF StackInv
<1>6. PrepInv' /\ MeasureInv' BY <1>0 DEF PrepInv, MeasureInv, GenerationReadsOneLens
<1> QED BY <1>2, <1>3, <1>4, <1>5, <1>6 DEF LensInv

LEMMA ViewFree == ASSUME LensInv, LockFree PROVE ViewTyped(view) /\ ViewIsOne(view) /\ StacksAnswer(view.stacks, Referenced)
BY ViewNow DEF LensInv, RefreshInv, LockFree, ViewFor

LEMMA DetachHolds == ASSUME LensInv, LensDetach PROVE LensInv'
<1>1. LockFree /\ UNCHANGED <<onDisk, refresh, prep, lensRun, held, lensPc, inside>> BY DEF LensDetach
<1>2. PICK name \in DOMAIN view.probes :
        view' = [view EXCEPT !.probes = [n \in DOMAIN @ \ {name} |-> @[n]]]
  BY DEF LensDetach
<1>3. ViewTyped(view) /\ ViewIsOne(view) /\ StacksAnswer(view.stacks, Referenced) BY <1>1, ViewFree
<1> DEFINE watched == [n \in DOMAIN view.probes \ {name} |-> view.probes[n]]
<1>4. \A n \in DOMAIN watched : watched[n] = LayersOfLens(view.lens) BY <1>3 DEF ViewIsOne, DerivedIsOne
<1>5. view' = [view EXCEPT !.probes = watched] BY <1>2
<1> HIDE DEF watched
<1>6. view' = [lens |-> view.lens, stacks |-> view.stacks, probes |-> watched, live |-> view.live,
               directions |-> view.directions]
  BY <1>3, <1>5 DEF ViewTyped
<1>7. ViewTyped(view') /\ ViewIsOne(view') /\ view'.lens = view.lens /\ view'.stacks = view.stacks
  BY <1>3, <1>4, <1>6 DEF ViewTyped, ViewIsOne, DerivedIsOne
<1> QED BY <1>1, <1>3, <1>7, ViewStep

LEMMA DisableHolds == ASSUME LensInv, LensDisableLive PROVE LensInv'
<1>1. LockFree /\ UNCHANGED <<onDisk, refresh, prep, lensRun, held, lensPc, inside>>
      /\ view' = [view EXCEPT !.live = Null]
  BY DEF LensDisableLive
<1>2. ViewTyped(view) /\ ViewIsOne(view) /\ StacksAnswer(view.stacks, Referenced) BY <1>1, ViewFree
<1>3. view' = [lens |-> view.lens, stacks |-> view.stacks, probes |-> view.probes, live |-> Null,
               directions |-> view.directions]
  BY <1>1, <1>2 DEF ViewTyped
<1>4. ViewTyped(view') /\ ViewIsOne(view') /\ view'.lens = view.lens /\ view'.stacks = view.stacks
  BY <1>2, <1>3 DEF ViewTyped, ViewIsOne, DerivedIsOne, LiveIsOf
<1> QED BY <1>1, <1>2, <1>4, ViewStep

LEMMA EvictHolds == ASSUME LensInv, EvictSelected PROVE LensInv'
<1>1. /\ LockFree /\ UNCHANGED <<onDisk, refresh, prep, lensRun, held, inside>>
      /\ view' = Evicted(view) /\ lensPc' = [lensPc EXCEPT !["caller"] = "idle"]
  BY DEF EvictSelected
<1>2. /\ ViewTyped(Evicted(view)) /\ ViewIsOne(Evicted(view)) /\ Evicted(view).lens = Null
      /\ StacksAnswer(Evicted(view).stacks, Referenced)
  BY EvictedIs, EmptyAnswers
<1> QED BY <1>1, <1>2, ViewStep

\* Steps that leave the view, the refresh, the run and the prepared lens alone.
LEMMA PlaceStep ==
  ASSUME LensInv, UNCHANGED <<view, refresh, prep, lensRun>>, onDisk' \in Lenses \cup {Null},
         held' \in [LensActors -> SomeLens], lensPc' \in [LensActors -> LensPcs], PlaceInv',
         held'["generation"] \in {held["generation"], Null}, held'["caller"] \in {held["caller"], Null},
         refresh.stage # "none" => lensPc'[refresh.call.actor] = "waits",
         inside = "caller" => inside' = "caller"
  PROVE  LensInv'
<1>0. LensTypes /\ RefreshInv /\ StackInv /\ PrepInv /\ MeasureInv BY DEF LensInv
<1>1. LensTypes' BY <1>0 DEF LensTypes
<1>2. RefreshInv' BY <1>0 DEF RefreshInv
<1>3. Referenced' \subseteq Referenced BY DEF Referenced
<1>4. StackInv' BY <1>0, <1>3, FewerAnswer DEF StackInv
<1>5. PrepInv' /\ MeasureInv' BY <1>0 DEF PrepInv, MeasureInv, GenerationReadsOneLens
<1> QED BY <1>1, <1>2, <1>4, <1>5 DEF LensInv

\* Where an actor is that waits for its refresh.
LEMMA WhoWaits ==
  ASSUME LensInv, refresh.stage # "none"
  PROVE  refresh.call.actor \in LensActors /\ lensPc[refresh.call.actor] = "waits"
BY DEF LensInv, RefreshInv, CallOK, LensActors

LEMMA ChangeDiskHolds == ASSUME LensInv, ChangeDisk PROVE LensInv'
<1>1. /\ UNCHANGED <<view, refresh, prep, lensRun, held, lensPc, inside>> /\ onDisk' \in Lenses \cup {Null}
  BY DEF ChangeDisk
<1>2. held' \in [LensActors -> SomeLens] /\ lensPc' \in [LensActors -> LensPcs] /\ PlaceInv'
  BY <1>1 DEF LensInv, LensTypes, PlaceInv
<1> QED BY <1>1, <1>2, PlaceStep, WhoWaits

LEMMA SelectHolds == ASSUME LensInv, SelectSource PROVE LensInv'
<1>1. /\ UNCHANGED <<view, refresh, prep, lensRun, held, inside>> /\ onDisk' \in Lenses \cup {Null}
      /\ lensPc' = [lensPc EXCEPT !["caller"] = "evict"] /\ lensPc["caller"] = "idle"
  BY DEF SelectSource, Called
<1>2. /\ LensTypes /\ PlaceInv BY DEF LensInv
<1>3. /\ held' \in [LensActors -> SomeLens] /\ lensPc' \in [LensActors -> LensPcs] /\ PlaceInv'
      /\ \A x \in LensActors : lensPc[x] = "waits" => lensPc'[x] = "waits"
  BY <1>1, <1>2 DEF LensTypes, PlaceInv, LensActors, LensPcs
<1> QED BY <1>1, <1>3, PlaceStep, WhoWaits

LEMMA GenerateHolds == ASSUME LensInv, LensGenerate PROVE LensInv'
<1>1. /\ UNCHANGED <<onDisk, view, refresh, prep, lensRun, held>> /\ inside = Null /\ inside' = "generation"
      /\ lensPc' = [lensPc EXCEPT !["generation"] = "compose"] /\ lensPc["generation"] = "idle"
  BY DEF LensGenerate, Called
<1>2. /\ LensTypes /\ PlaceInv BY DEF LensInv
<1>3. Null # "caller" BY LensInstrumentAssumption DEF LensActors
<1>4. /\ held' \in [LensActors -> SomeLens] /\ lensPc' \in [LensActors -> LensPcs] /\ PlaceInv'
      /\ \A x \in LensActors : lensPc[x] = "waits" => lensPc'[x] = "waits"
      /\ onDisk' \in Lenses \cup {Null}
  BY <1>1, <1>2 DEF LensTypes, PlaceInv, LensActors, LensPcs
<1> QED BY <1>1, <1>3, <1>4, PlaceStep, WhoWaits

LEMMA RefusedHolds == ASSUME LensInv, LensReadRefused PROVE LensInv'
<1>1. /\ UNCHANGED <<onDisk, view, refresh, prep, lensRun, inside>> /\ lensPc["caller"] = "read"
      /\ held' = [held EXCEPT !["caller"] = Null] /\ lensPc' = [lensPc EXCEPT !["caller"] = "idle"]
  BY DEF LensReadRefused
<1>2. /\ LensTypes /\ PlaceInv BY DEF LensInv
<1>3. Null \in SomeLens BY DEF SomeLens
<1>4. /\ held' \in [LensActors -> SomeLens] /\ lensPc' \in [LensActors -> LensPcs] /\ PlaceInv'
      /\ \A x \in LensActors : lensPc[x] = "waits" => lensPc'[x] = "waits"
      /\ held'["generation"] = held["generation"] /\ held'["caller"] = Null
      /\ onDisk' \in Lenses \cup {Null}
  BY <1>1, <1>2, <1>3 DEF LensTypes, PlaceInv, LensActors, LensPcs
<1> QED BY <1>1, <1>4, PlaceStep, WhoWaits

\* A reading of a library caller beside whatever else goes on: only the cache is touched.
LEMMA ReadHolds == ASSUME LensInv, LensRead PROVE LensInv'
<1> DEFINE stacks == Touched(view.stacks, held["caller"], LayersOfLens(held["caller"]))
<1>1. /\ UNCHANGED <<onDisk, refresh, prep, lensRun, inside>> /\ lensPc["caller"] = "read"
      /\ held' = [held EXCEPT !["caller"] = Null] /\ lensPc' = [lensPc EXCEPT !["caller"] = "idle"]
      /\ view' = [view EXCEPT !.stacks = stacks]
  BY DEF LensRead
<1>2. /\ LensTypes /\ PlaceInv /\ RefreshInv /\ StackInv /\ PrepInv /\ MeasureInv BY DEF LensInv
<1>3. Null \in SomeLens BY DEF SomeLens
<1>4. /\ held' \in [LensActors -> SomeLens] /\ lensPc' \in [LensActors -> LensPcs] /\ PlaceInv'
      /\ \A x \in LensActors : lensPc[x] = "waits" => lensPc'[x] = "waits"
      /\ held'["generation"] = held["generation"] /\ held'["caller"] = Null
  BY <1>1, <1>2, <1>3 DEF LensTypes, PlaceInv, LensActors, LensPcs
<1>5. held["caller"] \in Referenced BY <1>1, <1>2 DEF PlaceInv, Referenced
<1>6. ViewTyped(view) /\ Distinct(Referenced) /\ StacksAnswer(view.stacks, Referenced) BY ViewNow DEF ViewFor
<1>7. SmallCache(stacks) /\ StacksAnswer(stacks, Referenced) BY <1>5, <1>6, Touches DEF ViewTyped
<1> HIDE DEF stacks
<1>8. view' = [lens |-> view.lens, stacks |-> stacks, probes |-> view.probes, live |-> view.live,
               directions |-> view.directions]
  BY <1>1, <1>6 DEF ViewTyped
<1>9. /\ ViewTyped(view') /\ view'.lens = view.lens /\ view'.live = view.live /\ view'.stacks = stacks
      /\ view'.probes = view.probes /\ view'.directions = view.directions
  BY <1>6, <1>7, <1>8 DEF ViewTyped
<1>10. DerivedIsOne(view) BY <1>2 DEF RefreshInv, ViewIsOne
<1>11. DerivedIsOne(view') BY <1>9, <1>10 DEF DerivedIsOne
<1>12. LockFree => ViewIsOne(view') BY <1>2, <1>9, <1>11 DEF RefreshInv, LockFree, ViewIsOne
<1>13. RefreshInv' BY <1>1, <1>4, <1>9, <1>11, <1>12, RefreshStays, WhoWaits
<1>14. LensTypes' BY <1>1, <1>2, <1>4, <1>9 DEF LensTypes
<1>15. StackInv'
  <2>1. Referenced' \subseteq Referenced BY <1>1, <1>4, <1>9 DEF Referenced
  <2> QED BY <1>6, <1>7, <1>9, <2>1, FewerAnswer DEF StackInv
<1>16. PrepInv' /\ MeasureInv' BY <1>1, <1>2 DEF PrepInv, MeasureInv, GenerationReadsOneLens
<1> QED BY <1>4, <1>13, <1>14, <1>15, <1>16 DEF LensInv

LEMMA PutHolds == ASSUME LensInv, PutProfile PROVE LensInv'
<1>1. PICK word \in Words \ DOMAIN view.directions :
       view' = [view EXCEPT !.directions =
         [other \in DOMAIN @ \cup {word} |->
            IF other = word THEN [of |-> held["generation"].artifact,
                                  late |-> held["generation"] # view.lens]
                            ELSE @[other]]]
  BY DEF PutProfile
<1> DEFINE rays == [other \in DOMAIN view.directions \cup {word} |->
            IF other = word THEN [of |-> held["generation"].artifact,
                                  late |-> held["generation"] # view.lens]
                            ELSE view.directions[other]]
<1>2. /\ UNCHANGED <<onDisk, refresh, prep, lensRun, inside>> /\ lensPc["generation"] = "put"
      /\ held' = [held EXCEPT !["generation"] = Null] /\ lensPc' = [lensPc EXCEPT !["generation"] = "compose"]
      /\ view' = [view EXCEPT !.directions = rays]
  BY <1>1 DEF PutProfile
<1>3. /\ LensTypes /\ PlaceInv /\ RefreshInv /\ StackInv /\ PrepInv /\ MeasureInv BY DEF LensInv
<1>4. Null \in SomeLens BY DEF SomeLens
<1>5. /\ held' \in [LensActors -> SomeLens] /\ lensPc' \in [LensActors -> LensPcs] /\ PlaceInv'
      /\ \A x \in LensActors : lensPc[x] = "waits" => lensPc'[x] = "waits"
      /\ held'["caller"] = held["caller"] /\ held'["generation"] = Null
  BY <1>2, <1>3, <1>4 DEF LensTypes, PlaceInv, LensActors, LensPcs
<1>6. held["generation"] # Null BY <1>2, <1>3 DEF PlaceInv
<1>7. DerivedIsOne(view) BY <1>3 DEF RefreshInv, ViewIsOne
<1>8. \A other \in DOMAIN rays : rays[other].late \/
        (view.lens # Null /\ rays[other].of = view.lens.artifact)
  BY <1>6, <1>7 DEF DerivedIsOne
<1>9. ViewTyped(view) /\ Distinct(Referenced) /\ StacksAnswer(view.stacks, Referenced) BY ViewNow DEF ViewFor
<1> HIDE DEF rays
<1>10. view' = [lens |-> view.lens, stacks |-> view.stacks, probes |-> view.probes, live |-> view.live,
                directions |-> rays]
  BY <1>2, <1>9 DEF ViewTyped
<1>11. /\ ViewTyped(view') /\ view'.lens = view.lens /\ view'.live = view.live /\ view'.stacks = view.stacks
       /\ view'.probes = view.probes /\ view'.directions = rays
  BY <1>9, <1>10 DEF ViewTyped
<1>12. DerivedIsOne(view') BY <1>7, <1>8, <1>11 DEF DerivedIsOne
<1>13. LockFree => ViewIsOne(view') BY <1>3, <1>11, <1>12 DEF RefreshInv, LockFree, ViewIsOne
<1>14. RefreshInv' BY <1>2, <1>5, <1>11, <1>12, <1>13, RefreshStays, WhoWaits
<1>15. LensTypes' BY <1>2, <1>3, <1>5, <1>11 DEF LensTypes
<1>16. StackInv'
  <2>1. Referenced' \subseteq Referenced BY <1>2, <1>5, <1>11 DEF Referenced
  <2> QED BY <1>9, <1>11, <2>1, FewerAnswer DEF StackInv
<1>17. PrepInv' /\ MeasureInv' BY <1>2, <1>3 DEF PrepInv, MeasureInv, GenerationReadsOneLens
<1> QED BY <1>5, <1>14, <1>15, <1>16, <1>17 DEF LensInv

\* Every operation that asks for the resident lens.
LEMMA CallsHold ==
  ASSUME LensInv, has_compatible \/ LensAttach \/ LensEnableLive \/ LensReadout \/ RegisterDirection
  PROVE  LensInv'
<1>1. CASE has_compatible
  <2>1. BeginCall(Call("info", "check", FALSE, Null)) /\ UNCHANGED <<onDisk, lensRun>> BY <1>1 DEF has_compatible
  <2>2. CallOK(Call("info", "check", FALSE, Null)) BY DEF CallOK, Call
  <2> QED BY <2>1, <2>2, BeginCallHolds DEF Call
<1>2. CASE LensAttach
  <2>1. PICK name \in LensNames : BeginCall(Call("caller", "attach", TRUE, name)) BY <1>2 DEF LensAttach
  <2>2. UNCHANGED <<onDisk, lensRun>> /\ inside = Null BY <1>2 DEF LensAttach
  <2>3. CallOK(Call("caller", "attach", TRUE, name)) BY DEF CallOK, Call
  <2> QED BY <2>1, <2>2, <2>3, BeginCallHolds DEF Call
<1>3. CASE LensEnableLive
  <2>1. PICK layers : BeginCall(Call("caller", "live", TRUE, layers)) BY <1>3 DEF LensEnableLive
  <2>2. UNCHANGED <<onDisk, lensRun>> BY <1>3 DEF LensEnableLive
  <2>3. CallOK(Call("caller", "live", TRUE, layers)) BY DEF CallOK, Call
  <2> QED BY <2>1, <2>2, <2>3, BeginCallHolds DEF Call
<1>4. CASE LensReadout
  <2>1. BeginCall(Call("caller", "hold", TRUE, "read")) /\ UNCHANGED <<onDisk, lensRun>> BY <1>4 DEF LensReadout
  <2>2. CallOK(Call("caller", "hold", TRUE, "read")) BY DEF CallOK, Call
  <2> QED BY <2>1, <2>2, BeginCallHolds DEF Call
<1>5. CASE RegisterDirection
  <2>1. BeginCall(Call("generation", "hold", TRUE, "put")) /\ UNCHANGED <<onDisk, lensRun>>
        /\ lensPc["generation"] = "compose"
    BY <1>5 DEF RegisterDirection
  <2>2. CallOK(Call("generation", "hold", TRUE, "put")) BY DEF CallOK, Call
  <2> QED BY <2>1, <2>2, BeginCallHolds DEF Call
<1> QED BY <1>1, <1>2, <1>3, <1>4, <1>5

LEMMA PrepareHolds == ASSUME LensInv, Prepare PROVE LensInv'
<1>1. PICK request \in Requests :
       IF PinDemand(request)
       THEN BeginCall(Call("generation", "prepare", TRUE, request))
       ELSE /\ prep' = Snapshot(view, request, FALSE, Null)
            /\ lensPc' = [lensPc EXCEPT !["generation"] = "bind"]
            /\ UNCHANGED <<view, refresh, held, inside>>
  BY DEF Prepare
<1>2. lensPc["generation"] = "compose" /\ LockFree /\ UNCHANGED <<onDisk, lensRun>> BY DEF Prepare
<1>3. CASE PinDemand(request)
  <2>1. CallOK(Call("generation", "prepare", TRUE, request)) BY DEF CallOK, Call
  <2> QED BY <1>1, <1>2, <1>3, <2>1, BeginCallHolds DEF Call
<1>4. CASE ~PinDemand(request)
  <2>1. /\ prep'.lens = Null /\ lensPc' = [lensPc EXCEPT !["generation"] = "bind"]
        /\ UNCHANGED <<view, refresh, held, inside>>
    BY <1>1, <1>4 DEF Snapshot
  <2>2. LensTypes /\ PlaceInv /\ RefreshInv /\ StackInv /\ PrepInv /\ MeasureInv BY DEF LensInv
  <2>3. LensTypes' BY <1>2, <2>1, <2>2 DEF LensTypes, LensPcs, SomeLens
  <2>4. PlaceInv' BY <1>2, <2>1, <2>2 DEF PlaceInv, LensTypes, LensActors
  <2>5. RefreshInv' BY <1>2, <2>1, <2>2 DEF RefreshInv, LockFree
  <2>6. StackInv'
    <3>1. Referenced' \subseteq Referenced BY <1>2, <2>1 DEF Referenced
    <3> QED BY <2>1, <2>2, <3>1, FewerAnswer DEF StackInv
  <2>7. PrepInv' /\ MeasureInv' BY <1>2, <2>1, <2>2 DEF PrepInv, MeasureInv, GenerationReadsOneLens
  <2> QED BY <2>3, <2>4, <2>5, <2>6, <2>7 DEF LensInv
<1> QED BY <1>3, <1>4

\* The run is what was prepared.
LEMMA BindHolds == ASSUME LensInv, LensBind PROVE LensInv'
<1>1. /\ lensPc["generation"] = "bind" /\ LockFree /\ UNCHANGED <<onDisk, view, refresh, held, inside>>
      /\ lensRun' = [lens |-> prep.lens, pinned |-> prep.pinned, specs |-> prep.specs,
                     live |-> IF prep.request.live THEN prep.live ELSE Null,
                     final |-> prep.request.final, captured |-> Planned(prep), used |-> {}]
      /\ prep' = NoPrep /\ lensPc' = [lensPc EXCEPT !["generation"] = "decode"]
  BY DEF LensBind
<1>2. LensTypes /\ PlaceInv /\ RefreshInv /\ StackInv /\ PrepInv /\ MeasureInv BY DEF LensInv
<1>3. /\ lensRun'.lens = prep.lens /\ lensRun'.specs = prep.specs
      /\ lensRun'.live = IF prep.request.live THEN prep.live ELSE Null
      /\ lensRun'.final = prep.request.final /\ lensRun'.captured = Planned(prep) /\ lensRun'.used = {}
      /\ prep'.lens = Null
  BY <1>1 DEF NoPrep
<1>4. lensRun' = [lens |-> lensRun'.lens, pinned |-> lensRun'.pinned, specs |-> lensRun'.specs,
                  live |-> lensRun'.live, final |-> lensRun'.final, captured |-> lensRun'.captured,
                  used |-> lensRun'.used]
  BY <1>1
<1>5. LensTypes' BY <1>1, <1>2, <1>3, <1>4 DEF LensTypes, LensPcs, SomeLens
<1>6. PlaceInv' BY <1>1, <1>2 DEF PlaceInv, LensTypes, LensActors
<1>7. RefreshInv' BY <1>1, <1>2 DEF RefreshInv, LockFree
<1>8. StackInv'
  <2>1. Referenced' \subseteq Referenced BY <1>1, <1>3 DEF Referenced
  <2> QED BY <1>1, <1>2, <2>1, FewerAnswer DEF StackInv
<1>9. PrepInv' BY <1>3 DEF PrepInv
<1>10. ASSUME lensRun'.lens # Null PROVE MeasureInv'
  <2>1. /\ \A name \in DOMAIN prep.specs : prep.specs[name] = LayersOfLens(prep.lens)
        /\ LiveIsOf(prep.live, prep.lens) /\ prep.lens # Null
    BY <1>2, <1>3, <1>10 DEF PrepInv
  <2>2. LiveIsOf(lensRun'.live, lensRun'.lens) BY <1>3, <2>1 DEF LiveIsOf
  <2>3. lensRun'.final => \A name \in DOMAIN prep.specs : prep.specs[name] \subseteq Planned(prep)
    BY <1>3 DEF Planned
  <2>4. lensRun'.live # Null => (prep.request.live /\ prep.live # Null /\ lensRun'.live = prep.live)
    BY <1>3
  <2>5. (lensRun'.live # Null /\ ~lensRun'.live.late) =>
          (lensRun'.live.layers \subseteq LayersOfLens(lensRun'.lens) /\ lensRun'.live.layers \subseteq lensRun'.captured)
    BY <1>3, <2>2, <2>4 DEF LiveIsOf, Planned
  <2>6. \A name \in DOMAIN lensRun'.specs :
          lensRun'.final => (lensRun'.specs[name] = LayersOfLens(lensRun'.lens)
                             /\ lensRun'.specs[name] \subseteq lensRun'.captured)
    BY <1>3, <2>1, <2>3
  <2>7. (lensRun'.live # Null /\ ~lensRun'.live.late) =>
          lensRun'.live.layers \subseteq LayersOfLens(lensRun'.lens) \cap lensRun'.captured
    BY <2>5
  <2>8. lensRun'.used \subseteq {lensRun'.lens.artifact} BY <1>3
  <2> QED BY <2>2, <2>6, <2>7, <2>8 DEF MeasureInv, GenerationReadsOneLens
<1>11. ASSUME lensRun'.lens = Null PROVE MeasureInv' BY <1>11 DEF MeasureInv, GenerationReadsOneLens
<1>12. MeasureInv' BY <1>10, <1>11
<1> QED BY <1>5, <1>6, <1>7, <1>8, <1>9, <1>12 DEF LensInv

\* What a step of the decode measures is of the run's lens, whoever is resident.
LEMMA MeasureHolds == ASSUME LensInv, LensMeasure PROVE LensInv'
<1> DEFINE layers == UNION {lensRun.specs[name] : name \in DOMAIN lensRun.specs} \cap lensRun.captured
           probed == lensRun.final /\ layers # {}
           readout == lensRun.live # Null /\ lensRun.live.layers \cap lensRun.captured # {}
           stacks == Touched(view.stacks, lensRun.lens, layers)
           more == (IF probed THEN {StackReturned(view.stacks, lensRun.lens, layers)} ELSE {})
                   \cup (IF readout /\ ~lensRun.live.late THEN {lensRun.live.stack} ELSE {})
<1>1. /\ lensPc["generation"] = "decode" /\ lensRun.lens # Null
      /\ UNCHANGED <<onDisk, refresh, prep, held, lensPc, inside>>
      /\ view' = IF probed THEN [view EXCEPT !.stacks = stacks] ELSE view
      /\ lensRun' = [lensRun EXCEPT !.used = (lensRun.used \cup (IF probed THEN {StackReturned(view.stacks, lensRun.lens, layers)} ELSE {}))
                                \cup (IF readout /\ ~lensRun.live.late THEN {lensRun.live.stack} ELSE {})]
  BY DEF LensMeasure
<1>2. lensRun' = [lensRun EXCEPT !.used = lensRun.used \cup more]
  <2>1. (lensRun.used \cup (IF probed THEN {StackReturned(view.stacks, lensRun.lens, layers)} ELSE {}))
           \cup (IF readout /\ ~lensRun.live.late THEN {lensRun.live.stack} ELSE {}) = lensRun.used \cup more
    OBVIOUS
  <2> HIDE DEF layers, probed, readout, more
  <2> QED BY <1>1, <2>1
<1>3. LensTypes /\ PlaceInv /\ RefreshInv /\ StackInv /\ PrepInv /\ MeasureInv BY DEF LensInv
<1>4. ViewTyped(view) /\ Distinct(Referenced) /\ StacksAnswer(view.stacks, Referenced)
      /\ lensRun.lens \in Referenced
  BY <1>1, ViewNow DEF ViewFor
<1> HIDE DEF layers
<1>5. SmallCache(stacks) /\ StacksAnswer(stacks, Referenced)
      /\ StackReturned(view.stacks, lensRun.lens, layers) = lensRun.lens.artifact
  BY <1>4, Touches DEF ViewTyped
<1>6. LiveIsOf(lensRun.live, lensRun.lens) BY <1>1, <1>3 DEF MeasureInv
<1>7. more \subseteq {lensRun.lens.artifact} BY <1>5, <1>6 DEF LiveIsOf
<1> HIDE DEF probed, readout, stacks, more
<1>8. lensRun' = [lens |-> lensRun.lens, pinned |-> lensRun.pinned, specs |-> lensRun.specs, live |-> lensRun.live,
                  final |-> lensRun.final, captured |-> lensRun.captured, used |-> lensRun.used \cup more]
  BY <1>2, <1>3 DEF LensTypes
<1>9. probed => view' = [lens |-> view.lens, stacks |-> stacks, probes |-> view.probes, live |-> view.live,
                         directions |-> view.directions]
  BY <1>1, <1>4 DEF ViewTyped
<1>10. /\ ViewTyped(view') /\ view'.lens = view.lens /\ view'.live = view.live
       /\ view'.probes = view.probes /\ view'.directions = view.directions
       /\ StacksAnswer(view'.stacks, Referenced)
  <2>1. CASE probed BY <1>4, <1>5, <1>9, <2>1 DEF ViewTyped
  <2>2. CASE ~probed BY <1>1, <1>4, <2>2
  <2> QED BY <2>1, <2>2
<1>11. /\ lensRun'.lens = lensRun.lens /\ lensRun'.specs = lensRun.specs /\ lensRun'.live = lensRun.live
       /\ lensRun'.final = lensRun.final /\ lensRun'.captured = lensRun.captured
       /\ lensRun'.used = lensRun.used \cup more
       /\ lensRun' = [lens |-> lensRun'.lens, pinned |-> lensRun'.pinned, specs |-> lensRun'.specs,
                      live |-> lensRun'.live, final |-> lensRun'.final, captured |-> lensRun'.captured,
                      used |-> lensRun'.used]
  BY <1>8
<1>12. LensTypes' BY <1>1, <1>3, <1>10, <1>11 DEF LensTypes
<1>13. PlaceInv' BY <1>1, <1>3 DEF PlaceInv
<1>14. RefreshInv'
  <2>1. DerivedIsOne(view) BY <1>3 DEF RefreshInv, ViewIsOne
  <2>2. DerivedIsOne(view') BY <1>10, <2>1 DEF DerivedIsOne
  <2>3. LockFree => ViewIsOne(view') BY <1>3, <1>10, <2>2 DEF RefreshInv, LockFree, ViewIsOne
  <2> QED BY <1>1, <1>10, <2>2, <2>3, RefreshStays, WhoWaits
<1>15. StackInv'
  <2>1. Referenced' \subseteq Referenced BY <1>1, <1>10, <1>11 DEF Referenced
  <2> QED BY <1>4, <1>10, <2>1, FewerAnswer DEF StackInv
<1>16. PrepInv' BY <1>1, <1>3 DEF PrepInv
<1>17. MeasureInv'
  <2>1. lensRun.used \subseteq {lensRun.lens.artifact} BY <1>1, <1>3 DEF MeasureInv, GenerationReadsOneLens
  <2>2. lensRun'.used \subseteq {lensRun'.lens.artifact} BY <1>7, <1>11, <2>1
  <2> QED BY <1>1, <1>3, <1>6, <1>11, <2>2 DEF MeasureInv, GenerationReadsOneLens
<1> QED BY <1>12, <1>13, <1>14, <1>15, <1>16, <1>17 DEF LensInv

LEMMA CloseHolds == ASSUME LensInv, LensClose PROVE LensInv'
<1>1. /\ lensPc["generation"] \in {"decode", "failed"} /\ lensRun' = NoRun /\ inside' = Null
      /\ lensPc' = [lensPc EXCEPT !["generation"] = "idle"]
      /\ UNCHANGED <<onDisk, view, refresh, prep, held>>
  BY DEF LensClose
<1>2. LensTypes /\ PlaceInv /\ RefreshInv /\ StackInv /\ PrepInv /\ MeasureInv BY DEF LensInv
<1>3. inside # "caller" BY <1>1, <1>2 DEF PlaceInv
<1>4. /\ lensRun'.lens = Null
      /\ lensRun' = [lens |-> lensRun'.lens, pinned |-> lensRun'.pinned, specs |-> lensRun'.specs,
                     live |-> lensRun'.live, final |-> lensRun'.final, captured |-> lensRun'.captured,
                     used |-> lensRun'.used]
  BY <1>1 DEF NoRun
<1>5. LensTypes' BY <1>1, <1>2, <1>4 DEF LensTypes, LensPcs, SomeLens
<1>6. PlaceInv' BY <1>1, <1>2 DEF PlaceInv, LensTypes, LensActors
<1>7. RefreshInv'
  <2>1. refresh.stage # "none" => lensPc'[refresh.call.actor] = "waits"
    BY <1>1, <1>2, WhoWaits DEF LensTypes
  <2> QED BY <1>1, <1>2, <1>3, <2>1 DEF RefreshInv
<1>8. StackInv'
  <2>1. Referenced' \subseteq Referenced BY <1>1, <1>4 DEF Referenced
  <2> QED BY <1>1, <1>2, <2>1, FewerAnswer DEF StackInv
<1>9. PrepInv' /\ MeasureInv' BY <1>1, <1>2, <1>4 DEF PrepInv, MeasureInv, GenerationReadsOneLens
<1> QED BY <1>5, <1>6, <1>7, <1>8, <1>9 DEF LensInv

LEMMA LensInitHolds == ASSUME LensInstrumentInit PROVE LensInv
<1>1. /\ onDisk \in {Null} \cup Compatible /\ view = NoView /\ refresh = NoRefresh /\ prep = NoPrep /\ lensRun = NoRun
      /\ held = [x \in LensActors |-> Null] /\ lensPc = [x \in LensActors |-> "idle"] /\ inside = Null
  BY DEF LensInstrumentInit
<1>2. ViewTyped(view) /\ ViewIsOne(view)
  BY <1>1 DEF NoView, ViewTyped, ViewIsOne, DerivedIsOne, LiveIsOf, SmallCache, SomeLens
<1>3. LensTypes BY <1>1, <1>2, NullIsNoLens DEF LensTypes, NoPrep, NoRun, SomeLens, LensPcs
<1>4. PlaceInv BY <1>1 DEF PlaceInv, LensActors
<1>5. RefreshInv BY <1>1, <1>2 DEF RefreshInv, NoRefresh
<1>6. StackInv
  <2>1. Referenced = {} BY <1>1 DEF Referenced, NoView, NoPrep, NoRun, LensActors
  <2> QED BY <2>1 DEF StackInv, Distinct, StacksAnswer
<1>7. PrepInv /\ MeasureInv BY <1>1 DEF PrepInv, MeasureInv, GenerationReadsOneLens, NoPrep, NoRun
<1> QED BY <1>3, <1>4, <1>5, <1>6, <1>7 DEF LensInv

LEMMA LensStutters == ASSUME LensInv, UNCHANGED lensInstrumentVars PROVE LensInv'
<1>1. UNCHANGED <<onDisk, view, refresh, prep, lensRun, held, lensPc, inside>> BY DEF lensInstrumentVars
<1>2. LensTypes' BY <1>1 DEF LensInv, LensTypes
<1>3. PlaceInv' BY <1>1 DEF LensInv, PlaceInv
<1>4. RefreshInv' BY <1>1 DEF LensInv, RefreshInv
<1>5. StackInv' BY <1>1 DEF LensInv, StackInv, Referenced
<1>6. PrepInv' /\ MeasureInv' BY <1>1 DEF LensInv, PrepInv, MeasureInv, GenerationReadsOneLens
<1> QED BY <1>2, <1>3, <1>4, <1>5, <1>6 DEF LensInv

\* The lens instrument keeps its inductive invariant (instrument.py, runtime.py): between two reads of
\* the disk everything derived from the resident lens is of it, but for the live readout a refresh has
\* still to restore; no two lenses in use share an address and no cached stack is of another lens than
\* its address says; what was prepared is of the prepared lens; a waiting call is the one in the refresh.
THEOREM LensInvariant == LensInstrumentSpec => []LensInv
<1>1. LensInstrumentInit => LensInv BY LensInitHolds
<1>2. LensInv /\ [LensInstrumentNext]_lensInstrumentVars => LensInv'
  <2> SUFFICES ASSUME LensInv, [LensInstrumentNext]_lensInstrumentVars PROVE LensInv' OBVIOUS
  <2>1. CASE SidecarRead \/ LensLoad \/ LiveRestored \/ RestoreLive
    BY <2>1, SidecarHolds, LoadHolds, LiveRestoredHolds, RestoreLiveHolds
  <2>2. CASE has_compatible \/ LensAttach \/ LensEnableLive \/ LensReadout \/ RegisterDirection BY <2>2, CallsHold
  <2>3. CASE ChangeDisk \/ SelectSource \/ EvictSelected \/ LensDetach \/ LensDisableLive
    BY <2>3, ChangeDiskHolds, SelectHolds, EvictHolds, DetachHolds, DisableHolds
  <2>4. CASE LensRead \/ LensReadRefused \/ LensGenerate \/ PutProfile
    BY <2>4, ReadHolds, RefusedHolds, GenerateHolds, PutHolds
  <2>5. CASE Prepare \/ LensBind \/ LensMeasure \/ LensClose
    BY <2>5, PrepareHolds, BindHolds, MeasureHolds, CloseHolds
  <2>6. CASE UNCHANGED lensInstrumentVars BY <2>6, LensStutters
  <2> QED BY <2>1, <2>2, <2>3, <2>4, <2>5, <2>6 DEF LensInstrumentNext
<1> QED BY <1>1, <1>2, PTL DEF LensInstrumentSpec

\* Whatever is derived from a lens is used with that lens only, though another process replaces the lens
\* on disk, a route refreshes the resident one and a caller attaches probes beside the generation
\* (LensInstrument.resident, prepare, bind, transport_stack).
THEOREM OneLens == LensInstrumentSpec => []LensIsOne
<1>1. LensInv => LensIsOne
  <2> SUFFICES ASSUME LensInv PROVE LensIsOne OBVIOUS
  <2>1. GenerationReadsOneLens BY DEF LensInv, MeasureInv
  <2>2. StacksAreOfTheirLens BY DEF LensInv, StackInv, StacksAnswer, StacksAreOfTheirLens
  <2>3. ViewsFollowTheLens
    BY DEF LensInv, RefreshInv, ViewIsOne, DerivedIsOne, LiveIsOf, LockFree, ViewsFollowTheLens
  <2> QED BY <2>1, <2>2, <2>3 DEF LensIsOne
<1> QED BY <1>1, LensInvariant, PTL
=============================================================================
