---------------------------- MODULE LensInstrument ----------------------------
(***************************************************************************)
(* The resident lens of a session, and what is built from it.              *)
(*                                                                         *)
(*   drowse/lens/instrument.py  resident, adopt, evict, probes, live, runs *)
(*   drowse/lens/runtime.py     install, clear, transport_stack            *)
(*   drowse/base/lru.py         BoundedLRU                                 *)
(*                                                                         *)
(* The lens on disk is replaced and removed by other processes.  Whoever   *)
(* needs the lens reconciles the resident one with the disk, in two reads  *)
(* under state_lock; a generation, the session-info route and a library    *)
(* caller do so beside each other.  What a generation reads is the         *)
(* snapshot it took at prepare.                                            *)
(***************************************************************************)
EXTENDS Integers, Sequences

CONSTANTS
  Lenses, Compatible,  \* the artifacts, and those for the loaded weights
  FittedLayers,        \* source_layers of each
  Addresses,           \* id() of a lens object, free again once it is unreferenced
  LensNames, Words,
  Null,
  MaxChanges,          \* bound: changes of the lens on disk
  MaxCalls             \* bound: calls of each actor

\* A generation; the session-info route; a library caller on another thread.
LensActors == {"generation", "info", "caller"}

LensObjects == [artifact : Lenses, address : Addresses]

ASSUME LensInstrumentAssumption ==
  /\ Compatible \subseteq Lenses /\ Null \notin Lenses \cup LensObjects \cup LensActors
  /\ \A v \in Lenses : FittedLayers[v] # {} /\ FittedLayers[v] \subseteq Nat
  /\ MaxChanges \in Nat /\ MaxCalls \in Nat

VARIABLES
  onDisk,    \* the active source's artifact, or Null
  view,      \* the resident lens and all that is derived from it
  refresh,   \* the refresh under way, and so who holds state_lock
  prep,      \* LensPrep, from prepare to bind
  lensRun,   \* the current run, empty when none is bound
  held,      \* the lens object an actor holds in a local, or Null
  lensPc,    \* where an actor is
  inside,    \* who is in the exclusive section, or Null
  changes, calls

lensInstrumentVars == <<onDisk, view, refresh, prep, lensRun, held, lensPc, inside, changes, calls>>

LensObject(v, a) == [artifact |-> v, address |-> a]
LayersOfLens(lens) == IF lens = Null THEN {} ELSE FittedLayers[lens.artifact]

NoView == [lens |-> Null, stacks |-> <<>>, probes |-> <<>>, live |-> Null, directions |-> <<>>]
NoRefresh == [call |-> Null, stage |-> "none", pending |-> <<>>]
NoPrep == [lens |-> Null, pinned |-> FALSE, request |-> [live |-> FALSE, final |-> FALSE],
           live |-> Null, specs |-> <<>>]
NoRun == [lens |-> Null, pinned |-> FALSE, specs |-> <<>>, live |-> Null, final |-> FALSE,
          captured |-> {}, used |-> {}]

LensInstrumentInit ==
  /\ onDisk \in {Null} \cup Compatible
  /\ view = NoView /\ refresh = NoRefresh /\ prep = NoPrep /\ lensRun = NoRun
  /\ held = [x \in LensActors |-> Null] /\ lensPc = [x \in LensActors |-> "idle"]
  /\ inside = Null /\ changes = 0 /\ calls = [x \in LensActors |-> 0]

Referenced ==
  { lens \in {view.lens, held["generation"], held["caller"], prep.lens, lensRun.lens} : lens # Null }
FreeAddresses == Addresses \ {lens.address : lens \in Referenced}

Pinned == lensRun.pinned

---------------------------------------------------------------------------
(* The device stacks: a least-recently-used cache of two, keyed by id(lens). *)

StackKey(lens, layers) == <<lens.address, layers>>

\* transport_stack: the entry of a key, cached or made.
Cached(stacks, key) == {i \in DOMAIN stacks : stacks[i].key = key}
StackEntry(stacks, lens, layers) ==
  LET key == StackKey(lens, layers)  hits == Cached(stacks, key)
  IN IF hits # {} THEN stacks[CHOOSE i \in hits : TRUE]
     ELSE [key |-> key, of |-> lens.artifact]

\* The cache afterwards: this entry, most recent, and the most recent of the others.
Touched(stacks, lens, layers) ==
  LET entry == StackEntry(stacks, lens, layers)
      others == DOMAIN stacks \ Cached(stacks, StackKey(lens, layers))
  IN IF others = {} THEN <<entry>>
     ELSE <<stacks[CHOOSE i \in others : \A j \in others : j <= i], entry>>
StackReturned(stacks, lens, layers) == StackEntry(stacks, lens, layers).of

\* install, and what adopt derives before it restores the live readout.
\* Mutant: the stacks of the previous lens stay.
Installed_KeepsStacks(w, lens) ==
  [w EXCEPT !.lens = lens, !.directions = <<>>,
            !.probes = [name \in DOMAIN @ |-> LayersOfLens(lens)]]
\* Mutant: the probes keep their layer lists.
Installed_KeepsLayers(w, lens) == [w EXCEPT !.lens = lens, !.stacks = <<>>, !.directions = <<>>]
Installed(w, lens) ==
  LET layers == LayersOfLens(lens)
  IN [w EXCEPT !.lens = lens, !.directions = <<>>,
        !.probes = [name \in DOMAIN @ |-> layers],
        !.stacks = IF DOMAIN w.probes = {} THEN <<>> ELSE Touched(<<>>, lens, layers)]

\* evict
Evicted(w) == [lens |-> Null, stacks |-> <<>>, live |-> Null, directions |-> <<>>,
               probes |-> [name \in DOMAIN w.probes |-> {}]]

\* enable_live on `lens`: layers of Null is every fitted layer.  `late` notes a
\* lens that is not the resident one: a pinned run answers for it.
Fits(lens, layers) == layers = Null \/ layers \subseteq LayersOfLens(lens)
LiveOn(w, lens, layers) ==
  LET set == IF layers = Null THEN LayersOfLens(lens) ELSE layers
  IN [w EXCEPT
        !.stacks = IF set = {} THEN @ ELSE Touched(@, lens, set),
        !.live = [layers |-> set, all |-> layers = Null,
                  stack |-> IF set = {} THEN lens.artifact ELSE StackReturned(w.stacks, lens, set),
                  late |-> lens # w.lens]]

\* attach: the probe reads every layer of the lens.
Attached(w, lens, name) ==
  LET layers == LayersOfLens(lens)
  IN [w EXCEPT !.stacks = Touched(@, lens, layers),
               !.probes = [n \in DOMAIN @ \cup {name} |-> IF n = name THEN layers ELSE @[n]]]

\* adopt: the layers the live readout is restored with, from the old config.
Restored(live, lens) ==
  IF live.all THEN Null
  ELSE LET valid == live.layers \cap LayersOfLens(lens)
       IN IF valid = {} THEN Null ELSE valid

---------------------------------------------------------------------------
(* _refresh.                                                               *)

\* What a call does with the lens inside the same hold of state_lock.
Call(actor, kind, load, arg) == [actor |-> actor, kind |-> kind, load |-> load, arg |-> arg]

Matches(v) == v \in Compatible
LockFree == refresh.stage = "none"

\* prepare's snapshot: the layers come from the lens itself when it pins one.
Snapshot(w, request, pinned, lens) ==
  [lens |-> lens, pinned |-> pinned, request |-> request, live |-> w.live,
   specs |-> [name \in DOMAIN w.probes |->
                IF lens # Null THEN LayersOfLens(lens) ELSE w.probes[name]]]

\* The end of a call: the view, the locals and where the actor is next.
Return(c, w, lens) ==
  /\ refresh' = NoRefresh
  /\ CASE c.kind = "check" ->
            /\ view' = w /\ lensPc' = [lensPc EXCEPT ![c.actor] = "idle"]
            /\ UNCHANGED <<prep, held, inside>>
       [] c.kind = "prepare" ->
            /\ view' = w /\ prep' = Snapshot(w, c.arg, TRUE, lens)
            /\ lensPc' = [lensPc EXCEPT ![c.actor] = "bind"]
            /\ UNCHANGED <<held, inside>>
       [] c.kind = "hold" ->
            /\ view' = w /\ held' = [held EXCEPT ![c.actor] = lens]
            /\ lensPc' = [lensPc EXCEPT ![c.actor] = IF lens # Null THEN c.arg
                            ELSE IF c.actor = "generation" THEN "compose" ELSE "idle"]
            /\ UNCHANGED <<prep, inside>>
       [] c.kind = "live" ->
            /\ view' = IF lens # Null /\ Fits(lens, c.arg) THEN LiveOn(w, lens, c.arg) ELSE w
            /\ lensPc' = [lensPc EXCEPT ![c.actor] = "idle"]
            /\ UNCHANGED <<prep, held, inside>>
       [] c.kind = "attach" ->
            /\ view' = IF lens = Null THEN w ELSE Attached(w, lens, c.arg)
            /\ inside' = Null
            /\ lensPc' = [lensPc EXCEPT ![c.actor] = "idle"]
            /\ UNCHANGED <<prep, held>>

\* A call that raises inside the refresh: its state_lock and section are left.
Raise(c, w) ==
  /\ refresh' = NoRefresh /\ view' = w
  /\ lensPc' = [lensPc EXCEPT ![c.actor] = IF c.actor = "generation" THEN "failed" ELSE "idle"]
  /\ inside' = IF c.kind = "attach" THEN Null ELSE inside
  /\ UNCHANGED <<prep, held>>

Wait(c, stage, pending) ==
  /\ refresh' = [call |-> c, stage |-> stage, pending |-> pending]
  /\ lensPc' = [lensPc EXCEPT ![c.actor] = "waits"]
  /\ UNCHANGED <<prep, held>>

\* resident, has_compatible: a pinned run answers; else the sidecar is read.
BeginCall(c) ==
  /\ LockFree
  /\ IF Pinned THEN Return(c, view, lensRun.lens)
     ELSE /\ Wait(c, "sidecar", <<>>) /\ view' = view
          /\ inside' = IF c.kind = "attach" THEN c.actor ELSE inside

SidecarRead ==
  /\ refresh.stage = "sidecar"
  /\ LET c == refresh.call IN
       CASE ~Matches(onDisk) ->
              Return(c, IF view.lens # Null THEN Evicted(view) ELSE view, Null)
         [] Matches(onDisk) /\ view.lens # Null /\ view.lens.artifact = onDisk ->
              Return(c, view, view.lens)
         [] Matches(onDisk) /\ view.lens = Null /\ ~c.load -> Return(c, view, Null)
         [] OTHER -> Wait(c, "load", <<>>) /\ UNCHANGED <<view, inside>>
  /\ UNCHANGED <<onDisk, lensRun, changes, calls>>

\* load_lens, then adopt; with a live config, adopt reads the disk once more
\* through enable_live.
Adopt(c, pending) ==
  \E a \in FreeAddresses :
    LET lens == LensObject(onDisk, a)
    IN IF view.live = Null
       THEN Return(c, Installed(view, lens), lens)
       ELSE /\ Wait(c, "live", <<Restored(view.live, lens)>> \o pending)
            /\ view' = Installed(view, lens) /\ UNCHANGED inside

LensLoad ==
  /\ refresh.stage = "load"
  /\ IF ~Matches(onDisk) THEN Return(refresh.call, Evicted(view), Null)
     ELSE Adopt(refresh.call, <<>>)
  /\ UNCHANGED <<onDisk, lensRun, changes, calls>>

\* The live readouts the adoptions under way still have to restore, innermost
\* first; one that asks for layers the lens has not raises.
RestoreNext(c, rest) ==
  IF ~Fits(view.lens, Head(refresh.pending)) THEN Raise(c, view)
  ELSE LET w == LiveOn(view, view.lens, Head(refresh.pending))
       IN IF rest = <<>> THEN Return(c, w, w.lens)
          ELSE Wait(c, "restore", rest) /\ view' = w /\ UNCHANGED inside

LiveRestored ==
  /\ refresh.stage = "live"
  /\ LET c == refresh.call IN
       CASE ~Matches(onDisk) -> Raise(c, Evicted(view))
         [] Matches(onDisk) /\ view.lens.artifact = onDisk -> RestoreNext(c, Tail(refresh.pending))
         [] OTHER -> Adopt(c, refresh.pending)
  /\ UNCHANGED <<onDisk, lensRun, changes, calls>>

RestoreLive ==
  /\ refresh.stage = "restore"
  /\ RestoreNext(refresh.call, Tail(refresh.pending))
  /\ UNCHANGED <<onDisk, lensRun, changes, calls>>

---------------------------------------------------------------------------
(* The disk, the session-info route and a library caller.                  *)

\* Another process fits, fetches, selects or removes a lens.
ChangeDisk ==
  /\ changes < MaxChanges /\ changes' = changes + 1
  /\ \E v \in Lenses \cup {Null} : v # onDisk /\ onDisk' = v
  /\ UNCHANGED <<view, refresh, prep, lensRun, held, lensPc, inside, calls>>

Called(x) == /\ lensPc[x] = "idle" /\ calls[x] < MaxCalls
             /\ calls' = [calls EXCEPT ![x] = @ + 1]

has_compatible ==
  /\ Called("info") /\ BeginCall(Call("info", "check", FALSE, Null))
  /\ UNCHANGED <<onDisk, lensRun, changes>>

\* attach enters the exclusive section, then the state lock.
LensAttach ==
  /\ Called("caller") /\ inside = Null
  /\ \E name \in LensNames : BeginCall(Call("caller", "attach", TRUE, name))
  /\ UNCHANGED <<onDisk, lensRun, changes>>

LensDetach ==
  /\ Called("caller") /\ LockFree /\ DOMAIN view.probes # {}
  /\ \E name \in DOMAIN view.probes :
       view' = [view EXCEPT !.probes = [n \in DOMAIN @ \ {name} |-> @[n]]]
  /\ UNCHANGED <<onDisk, refresh, prep, lensRun, held, lensPc, inside, changes>>

\* enable_live: every fitted layer, or some.
LensEnableLive ==
  /\ Called("caller")
  /\ \E layers \in {Null} \cup {{l} : l \in UNION {FittedLayers[v] : v \in Lenses}} :
       BeginCall(Call("caller", "live", TRUE, layers))
  /\ UNCHANGED <<onDisk, lensRun, changes>>

LensDisableLive ==
  /\ Called("caller") /\ LockFree /\ view.live # Null
  /\ view' = [view EXCEPT !.live = Null]
  /\ UNCHANGED <<onDisk, refresh, prep, lensRun, held, lensPc, inside, changes>>

\* select_source: the selection, then the eviction.
SelectSource ==
  /\ Called("caller") /\ changes < MaxChanges /\ changes' = changes + 1
  /\ \E v \in Lenses : v # onDisk /\ onDisk' = v
  /\ lensPc' = [lensPc EXCEPT !["caller"] = "evict"]
  /\ UNCHANGED <<view, refresh, prep, lensRun, held, inside>>

EvictSelected ==
  /\ lensPc["caller"] = "evict" /\ LockFree
  /\ view' = Evicted(view) /\ lensPc' = [lensPc EXCEPT !["caller"] = "idle"]
  /\ UNCHANGED <<onDisk, refresh, prep, lensRun, held, inside, changes, calls>>

\* readout, token_readout: the lens is resolved, then read in the section.
LensReadout ==
  /\ Called("caller") /\ BeginCall(Call("caller", "hold", TRUE, "read"))
  /\ UNCHANGED <<onDisk, lensRun, changes>>

LensRead ==
  /\ lensPc["caller"] = "read" /\ inside = Null
  /\ view' = [view EXCEPT !.stacks = Touched(@, held["caller"], LayersOfLens(held["caller"]))]
  /\ held' = [held EXCEPT !["caller"] = Null]
  /\ lensPc' = [lensPc EXCEPT !["caller"] = "idle"]
  /\ UNCHANGED <<onDisk, refresh, prep, lensRun, inside, changes, calls>>

LensReadRefused ==
  /\ lensPc["caller"] = "read" /\ inside # Null
  /\ held' = [held EXCEPT !["caller"] = Null]
  /\ lensPc' = [lensPc EXCEPT !["caller"] = "idle"]
  /\ UNCHANGED <<onDisk, view, refresh, prep, lensRun, inside, changes, calls>>

---------------------------------------------------------------------------
(* A generation.                                                           *)

LensGenerate ==
  /\ Called("generation") /\ inside = Null /\ inside' = "generation"
  /\ lensPc' = [lensPc EXCEPT !["generation"] = "compose"]
  /\ UNCHANGED <<onDisk, view, refresh, prep, lensRun, held, changes>>

\* register_direction: the lens, then the profile from it.
RegisterDirection ==
  /\ lensPc["generation"] = "compose" /\ DOMAIN view.directions # Words
  /\ calls["generation"] < MaxCalls + 1 /\ calls' = [calls EXCEPT !["generation"] = @ + 1]
  /\ BeginCall(Call("generation", "hold", TRUE, "put"))
  /\ UNCHANGED <<onDisk, lensRun, changes>>

PutProfile ==
  /\ lensPc["generation"] = "put"
  /\ \E word \in Words \ DOMAIN view.directions :
       view' = [view EXCEPT !.directions =
         [other \in DOMAIN @ \cup {word} |->
            IF other = word THEN [of |-> held["generation"].artifact,
                                  late |-> held["generation"] # view.lens]
                            ELSE @[other]]]
  /\ held' = [held EXCEPT !["generation"] = Null]
  /\ lensPc' = [lensPc EXCEPT !["generation"] = "compose"]
  /\ UNCHANGED <<onDisk, refresh, prep, lensRun, inside, changes, calls>>

Requests == [live : BOOLEAN, final : BOOLEAN]
PinDemand(request) == (request.live /\ view.live # Null) \/ (request.final /\ DOMAIN view.probes # {})

Prepare ==
  /\ lensPc["generation"] = "compose" /\ LockFree
  /\ \E request \in Requests :
       IF PinDemand(request)
       THEN BeginCall(Call("generation", "prepare", TRUE, request))
       ELSE /\ prep' = Snapshot(view, request, FALSE, Null)
            /\ lensPc' = [lensPc EXCEPT !["generation"] = "bind"]
            /\ UNCHANGED <<view, refresh, held, inside>>
  /\ UNCHANGED <<onDisk, lensRun, changes, calls>>

\* plan: the layers to capture, from the prep alone.
\* Mutant: the probes' layers are read from the registry.
Planned_Registry(p) ==
  (IF p.request.live /\ p.live # Null THEN p.live.layers ELSE {})
  \cup (IF p.request.final THEN UNION {view.probes[name] : name \in DOMAIN view.probes} ELSE {})
Planned(p) ==
  (IF p.request.live /\ p.live # Null THEN p.live.layers ELSE {})
  \cup (IF p.request.final THEN UNION {p.specs[name] : name \in DOMAIN p.specs} ELSE {})

\* plan and bind: the run is the prep's snapshot.  `used` is a note: the lens
\* each stack a reading used was made of.
LensBind ==
  /\ lensPc["generation"] = "bind" /\ LockFree
  /\ lensRun' = [lens |-> prep.lens, pinned |-> prep.pinned, specs |-> prep.specs,
                 live |-> IF prep.request.live THEN prep.live ELSE Null,
                 final |-> prep.request.final, captured |-> Planned(prep), used |-> {}]
  /\ prep' = NoPrep /\ lensPc' = [lensPc EXCEPT !["generation"] = "decode"]
  /\ UNCHANGED <<onDisk, view, refresh, held, inside, changes, calls>>

\* A step's readings: pinned probes through the cached stacks of the run's lens,
\* live discovery through the stack of its own config.
LensMeasure ==
  /\ lensPc["generation"] = "decode" /\ lensRun.lens # Null
  /\ LET layers == UNION {lensRun.specs[name] : name \in DOMAIN lensRun.specs} \cap lensRun.captured
         probed == lensRun.final /\ layers # {}
         live == lensRun.live # Null /\ lensRun.live.layers \cap lensRun.captured # {}
     IN /\ probed \/ live
        /\ view' = IF probed THEN [view EXCEPT !.stacks = Touched(@, lensRun.lens, layers)] ELSE view
        /\ lensRun' = [lensRun EXCEPT !.used = @
             \cup (IF probed THEN {StackReturned(view.stacks, lensRun.lens, layers)} ELSE {})
             \cup (IF live /\ ~lensRun.live.late THEN {lensRun.live.stack} ELSE {})]
  /\ UNCHANGED <<onDisk, refresh, prep, held, lensPc, inside, changes, calls>>

LensClose ==
  /\ lensPc["generation"] \in {"decode", "failed"}
  /\ lensRun' = NoRun /\ inside' = Null
  /\ lensPc' = [lensPc EXCEPT !["generation"] = "idle"]
  /\ UNCHANGED <<onDisk, view, refresh, prep, held, changes, calls>>

LensInstrumentNext ==
  \/ SidecarRead \/ LensLoad \/ LiveRestored \/ RestoreLive
  \/ ChangeDisk \/ has_compatible \/ LensAttach \/ LensDetach \/ LensEnableLive \/ LensDisableLive
  \/ SelectSource \/ EvictSelected \/ LensReadout \/ LensRead \/ LensReadRefused
  \/ LensGenerate \/ RegisterDirection \/ PutProfile \/ Prepare \/ LensBind \/ LensMeasure \/ LensClose

LensInstrumentSpec == LensInstrumentInit /\ [][LensInstrumentNext]_lensInstrumentVars

---------------------------------------------------------------------------
(* Properties.                                                             *)

\* A generation measures with the lens it prepared: its probes read that lens's
\* layers, all of them captured, its live stack and every cached stack it used
\* are of that lens, though the resident lens is replaced beside it.
GenerationReadsOneLens ==
  lensRun.lens # Null =>
    /\ \A name \in DOMAIN lensRun.specs :
         lensRun.final => lensRun.specs[name] = LayersOfLens(lensRun.lens)
                          /\ lensRun.specs[name] \subseteq lensRun.captured
    /\ lensRun.live # Null /\ ~lensRun.live.late =>
         lensRun.live.layers \subseteq LayersOfLens(lensRun.lens) \cap lensRun.captured
    /\ lensRun.used \subseteq {lensRun.lens.artifact}

\* No cached stack answers for a lens it was not made of, though an object may
\* be given the address of one that is gone.
StacksAreOfTheirLens ==
  \A lens \in Referenced : \A i \in DOMAIN view.stacks :
    view.stacks[i].key[1] = lens.address => view.stacks[i].of = lens.artifact

\* Between refreshes everything derived is of the resident lens, and without one
\* there is nothing: probe layers, the live stack, registered directions.  What
\* was resolved from a lens that has been replaced since (`late`) is the
\* exception the README describes.
ViewsFollowTheLens ==
  LockFree =>
    /\ \A name \in DOMAIN view.probes : view.probes[name] = LayersOfLens(view.lens)
    /\ view.live # Null => view.live.late \/
         (view.lens # Null /\ view.live.stack = view.lens.artifact
                           /\ view.live.layers \subseteq LayersOfLens(view.lens))
    /\ \A word \in DOMAIN view.directions : view.directions[word].late \/
         (view.lens # Null /\ view.directions[word].of = view.lens.artifact)

\* Whatever is derived from a lens is used with that lens only.
LensIsOne == GenerationReadsOneLens /\ StacksAreOfTheirLens /\ ViewsFollowTheLens
=============================================================================
