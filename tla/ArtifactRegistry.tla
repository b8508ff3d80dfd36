--------------------------- MODULE ArtifactRegistry ---------------------------
(***************************************************************************)
(* What a session holds in memory of the artifacts on disk.                *)
(*                                                                         *)
(*   drowse/session/registry.py    ArtifactRegistry                        *)
(*   drowse/session/extraction.py  Extraction                              *)
(*   drowse/readout/geometry.py, drowse/readout/roster.py                  *)
(*   drowse/server/manifold_routes.py, profile_routes.py, probe_routes.py  *)
(*                                                                         *)
(* A fit on disk is read as loaded manifolds, as profiles folded from      *)
(* them, as rays probes read, and as CPU copies for analytics.  The server *)
(* lets one request at a time change folders, under its session lock, but  *)
(* writes and removes them outside the exclusive section in which what is  *)
(* held is moved or dropped; probes come and go, profiles are registered   *)
(* and analytics are polled without the session lock.                      *)
(***************************************************************************)
EXTENDS Integers, FiniteSets

CONSTANTS
  Namespaces, Names,
  Bare,         \* no namespace
  Keys,         \* registry keys: [ns, name, variant]
  Loaders,      \* what a scope steers by: keys, and bare variants that stand for one
  Releases,     \* SAE releases fits are made for
  MaxWrites,    \* bound: fits, folders written anew or removed
  MaxRegisters, \* bound: profiles registered in memory
  MaxChanging,  \* bound: changes of what is held whose copies are not dropped yet
  MaxHeld,      \* bound: manifolds, profiles and probes held at once
  Nothing

ArtifactFolders == Namespaces \X Names
Features == {"raw"} \cup Releases
ArtifactKeys == [ns : Namespaces \cup {Bare}, name : Names, variant : Features \cup {"role"}]

\* A folder's authoring; a fit, of a folder or a direction of none; a poll.
Corpora == [revision : Int, role : BOOLEAN]
Directions ==
  [folder : ArtifactFolders \cup {Nothing}, feature : Features, revision : Int \cup {Nothing},
   role : BOOLEAN, flat : BOOLEAN, baked : BOOLEAN, by : Nat]
Polls ==
  [name : Keys, same : BOOLEAN, stage : {"asked", "copied"}, copy : Directions \cup {Nothing}]

ASSUME RegistryAssumption ==
  /\ Keys \subseteq ArtifactKeys /\ Keys \subseteq Loaders
  /\ Loaders \subseteq ArtifactKeys \cup [ns : Namespaces \cup {Bare}, name : Names, variant : {"sae"}]
  /\ "local" \in Namespaces
  /\ MaxWrites \in Nat /\ MaxRegisters \in Nat /\ MaxChanging \in Nat /\ MaxHeld \in Nat
  /\ Nothing \notin ArtifactFolders \cup ArtifactKeys \cup Features \cup Corpora \cup Directions \cup Polls

VARIABLES
  corpora,      \* each folder's authoring, or Nothing: [revision, role]
  pairs,        \* each folder's fit in each feature space, or Nothing
  manifolds,    \* registry: loaded manifold objects by key
  profiles,     \* registry: directions by key
  folds,        \* registry: rays handed to probes, by key; weak, so only attached ones
  probes,       \* the monitor's probes: the object each reads
  analytics,    \* CPU copies by name
  changing,     \* calls that changed what is held and have not dropped the copies yet
  poll,         \* a poll of analytics in progress, or Nothing; the epoch it read is told
                \* by whether the copies were dropped since
  route,        \* the request under the session lock that is between two of its steps, or
                \* Nothing
  attaching,    \* the probe whose direction was extracted and is not folded yet, or Nothing
  unswept,      \* history: folders and feature spaces that changed on disk and whose
                \* consumers were not moved or dropped since
  overtaken,    \* history: keys registered while a probe of the key was being extracted
  writes, registers

diskVars == <<corpora, pairs, unswept, writes>>
heldVars == <<manifolds, profiles, folds, probes, overtaken, registers>>
copyVars == <<analytics, changing, poll>>
registryVars == <<diskVars, heldVars, copyVars, route, attaching>>

-----------------------------------------------------------------------------
\* Keys and artifacts.

\* True iff a key reads this folder; bare keys resolve across namespaces.
artifact_key_matches_QualifiedOnly(key, folder, feature) ==
  /\ key.name = folder[2] /\ key.ns = folder[1]
  /\ feature # Nothing => feature = (IF key.variant = "role" THEN "raw" ELSE key.variant)
artifact_key_matches(key, folder, feature) ==
  /\ key.name = folder[2] /\ key.ns \in {Bare, folder[1]}
  /\ feature # Nothing => feature = (IF key.variant = "role" THEN "raw" ELSE key.variant)

FeatureOf(key) == IF key.variant = "role" THEN "raw" ELSE key.variant
Reading(held, folder, feature) == { k \in DOMAIN held : artifact_key_matches(k, folder, feature) }

\* The one fitted variant a bare :sae key stands for.
concretize_key(key) ==
  LET fitted == { r \in Releases : \E f \in ArtifactFolders :
                    key.ns \in {Bare, f[1]} /\ key.name = f[2] /\ pairs[f][r] # Nothing } IN
  IF key.variant # "sae" THEN key
  ELSE IF Cardinality(fitted) # 1 THEN Nothing
  ELSE [key EXCEPT !.variant = CHOOSE r \in fitted : TRUE]

Put(held, k, x) == [j \in DOMAIN held \cup {k} |-> IF j = k THEN x ELSE held[j]]
Drop(held, gone) == [k \in DOMAIN held \ gone |-> held[k]]
PutAll(held, new, x) == [k \in DOMAIN held \cup new |-> IF k \in new THEN x ELSE held[k]]

\* A fit folds to one direction when it is flat with two nodes.
folded_directions(fitted) == fitted
is_foldable_vector_manifold(fitted) == fitted.flat

\* Objects are told apart by identity: the first that nothing holds.
InUse == { manifolds[k].id : k \in DOMAIN manifolds } \cup { probes[n].id : n \in DOMAIN probes }
FreshId == CHOOSE i \in 1..(Cardinality(InUse) + 1) : i \notin InUse
Object(content) == [id |-> FreshId, of |-> content, key |-> Nothing]
\* A direction folded for the probe of a key.
Ray(key, content) == [id |-> FreshId, of |-> content, key |-> key]
Attached(ps) == { ps[n] : n \in DOMAIN ps }
\* Weak references: a ray no probe reads is gone.
Alive(fs, ps) ==
  [k \in { j \in DOMAIN fs : fs[j] \cap Attached(ps) # {} } |-> fs[k] \cap Attached(ps)]

-----------------------------------------------------------------------------
\* Loading: what is on disk is kept, and nothing else is told.

Matches(key) ==
  { f \in ArtifactFolders : /\ key.ns \in {Bare, f[1]} /\ key.name = f[2]
                            /\ pairs[f][FeatureOf(key)] # Nothing }

\* The fit of these weights and of the folder as it is authored; a role is asked for by name.
Admits(key, fitted) ==
  LET corpus == corpora[fitted.folder] IN
  /\ key.variant = "role" => fitted.role
  /\ key.variant = "raw" => ~fitted.role
  /\ fitted.baked \/ (corpus # Nothing /\ fitted.revision = corpus.revision)

Loadable(key) ==
  \E f \in ArtifactFolders : Matches(key) = {f} /\ Admits(key, pairs[f][FeatureOf(key)])

Content(key) ==
  IF key \in DOMAIN manifolds THEN manifolds[key].of
  ELSE pairs[CHOOSE f \in ArtifactFolders : Matches(key) = {f}][FeatureOf(key)]

ensure_manifold_loaded(key) ==
  IF key \in DOMAIN manifolds THEN UNCHANGED manifolds
  ELSE manifolds' = Put(manifolds, key, Object(Content(key)))

Held == Cardinality(DOMAIN manifolds) + Cardinality(DOMAIN profiles) + Cardinality(DOMAIN probes)
Room == Held < MaxHeld

\* The exclusive section; a poll that copies holds the same lock, and so does a probe
\* whose direction is extracted.
Exclusive == (poll # Nothing => poll.stage = "asked") /\ attaching = Nothing

\* The session lock, which every request that generates, fits or changes a folder holds.
Free == route = Nothing

\* A removal is told what was loaded of its folder.
Noted(content) ==
  route' = IF route # Nothing /\ route.kind = "removal" /\ route.folder = content.folder
           THEN [kind |-> "removal", folder |-> route.folder, reloaded |-> route.reloaded \cup {content.feature}]
           ELSE route

ensure_profile_registered(k) ==
  LET key == concretize_key(k) IN
  /\ Free /\ Exclusive /\ Room /\ key # Nothing /\ key \notin DOMAIN profiles
  /\ key \in DOMAIN manifolds \/ Loadable(key)
  /\ ensure_manifold_loaded(key)
  /\ profiles' = IF is_foldable_vector_manifold(Content(key))
                 THEN Put(profiles, key, folded_directions(Content(key))) ELSE profiles
  /\ UNCHANGED <<diskVars, copyVars, folds, probes, overtaken, registers, route, attaching>>

-----------------------------------------------------------------------------
\* Probes, attached and detached without the session lock.

\* A registered direction is folded to a ray; a fit is read as it is.
resolve_probe_manifold(key) ==
  IF key \in DOMAIN profiles THEN Ray(key, profiles[key])
  ELSE IF key \in DOMAIN manifolds THEN manifolds[key] ELSE Object(Content(key))

\* The roster drops the copies after the section ends.
Unannounced == changing < MaxChanging /\ changing' = changing + 1

Attach(key) ==
  LET probe == resolve_probe_manifold(key) IN
  /\ Exclusive /\ Room /\ Unannounced
  /\ key \in DOMAIN profiles \/ key \in DOMAIN manifolds \/ Loadable(key)
  /\ key \notin DOMAIN probes
  /\ IF key \in DOMAIN profiles
     THEN /\ UNCHANGED manifolds
          /\ folds' = Put(folds, key, {probe} \cup IF key \in DOMAIN folds THEN folds[key] ELSE {})
     ELSE ensure_manifold_loaded(key) /\ UNCHANGED folds
  /\ probes' = Put(probes, key, probe)
  /\ Noted(probe.of)
  /\ UNCHANGED <<diskVars, profiles, overtaken, registers, analytics, poll, attaching>>

Detach(name) ==
  /\ Exclusive /\ Unannounced /\ name \in DOMAIN probes
  /\ probes' = Drop(probes, {name}) /\ folds' = Alive(folds, Drop(probes, {name}))
  /\ UNCHANGED <<diskVars, manifolds, profiles, overtaken, registers, analytics, poll, route, attaching>>

\* Probes move to the replacement of what they read, or go.
refresh_swapped(swaps) ==
  LET moved == { n \in DOMAIN probes : probes[n] \in DOMAIN swaps } IN
  [n \in { m \in DOMAIN probes : m \in moved => swaps[probes[m]] # Nothing } |->
     IF n \in moved THEN swaps[probes[n]] ELSE probes[n]]

invalidate_analytics ==
  /\ analytics' = [n \in {} |-> Nothing]
  /\ poll' = IF poll = Nothing THEN poll ELSE [poll EXCEPT !.same = FALSE]

-----------------------------------------------------------------------------
\* A new fit: everything that read the old one is moved to it.

Loaded(keys) == { manifolds[k] : k \in keys }
Rays(keys) == UNION { folds[k] : k \in keys }

\* One object replaces what was loaded under the keys; each ray is folded again for its own.
Swaps(keys, promoted, foldKeys, direction) ==
  [o \in Loaded(keys) \cup Rays(foldKeys) |->
     IF o \in Loaded(keys) THEN promoted
     ELSE IF direction = Nothing THEN Nothing ELSE Ray(o.key, direction)]
Refolded(keys, direction) ==
  [k \in DOMAIN folds |-> IF k \in keys THEN {Ray(k, direction)} ELSE folds[k]]

adopt_fitted_ManifoldsOnly(fitted) ==
  LET keys == Reading(manifolds, fitted.folder, fitted.feature) IN
  /\ manifolds' = PutAll(manifolds, keys, Object(fitted))
  /\ profiles' = profiles
  /\ probes' = refresh_swapped(Swaps(keys, Object(fitted), {}, Nothing))
  /\ folds' = Alive(folds, probes')

adopt_fitted(fitted) ==
  LET keys == Reading(manifolds, fitted.folder, fitted.feature)
      profileKeys == Reading(profiles, fitted.folder, fitted.feature)
      foldKeys == Reading(folds, fitted.folder, fitted.feature)
      folded == is_foldable_vector_manifold(fitted)
  IN /\ manifolds' = PutAll(manifolds, keys, Object(fitted))
     /\ profiles' = IF folded THEN PutAll(profiles, profileKeys, folded_directions(fitted))
                    ELSE Drop(profiles, profileKeys)
     /\ probes' = refresh_swapped(Swaps(keys, Object(fitted), foldKeys, IF folded THEN fitted ELSE Nothing))
     /\ folds' = Alive(IF folded THEN Refolded(foldKeys, fitted) ELSE Drop(folds, foldKeys), probes')

evict_artifact_KeepsFolds(folder, feature) ==
  LET keys == Reading(manifolds, folder, feature) IN
  /\ manifolds' = Drop(manifolds, keys)
  /\ profiles' = Drop(profiles, Reading(profiles, folder, feature))
  /\ probes' = refresh_swapped(Swaps(keys, Nothing, {}, Nothing))
  /\ folds' = Alive(folds, probes')

\* Objects and rays of a folder go, and the probes on them.
Forgotten(folder, feature) ==
  LET keys == Reading(manifolds, folder, feature)
      foldKeys == Reading(folds, folder, feature)
  IN /\ manifolds' = Drop(manifolds, keys)
     /\ probes' = refresh_swapped(Swaps(keys, Nothing, foldKeys, Nothing))
     /\ folds' = Alive(Drop(folds, foldKeys), probes')

evict_artifact(folder, feature) ==
  Forgotten(folder, feature) /\ profiles' = Drop(profiles, Reading(profiles, folder, feature))

-----------------------------------------------------------------------------
\* Fits: the pair on disk, then everything that reads it.

Writing == writes < MaxWrites /\ writes' = writes + 1
OfFolder(folder) == {folder} \X Features
NoPairs == [feature \in Features |-> Nothing]

\* A new fit of a folder as it is authored, or the published one when it is of just that.
FitsOf(folder, feature, corpus, published, shapes) ==
  { [folder |-> folder, feature |-> feature, revision |-> corpus.revision, role |-> corpus.role,
     flat |-> flat, baked |-> FALSE, by |-> writes] : flat \in shapes } \cup
  { d \in {published[feature]} :
      d # Nothing /\ ~d.baked /\ d.revision = corpus.revision /\ d.role = corpus.role }

Publish(folder, corpus, left, fitted) ==
  /\ corpora' = [corpora EXCEPT ![folder] = corpus]
  /\ pairs' = [pairs EXCEPT ![folder] = [left EXCEPT ![fitted.feature] = fitted]]
  /\ adopt_fitted(fitted) /\ invalidate_analytics

\* session.fit; one that fails after it rewrote the manifest drops what read its pair.
FitFolder(folder, feature) ==
  /\ Free /\ Exclusive /\ Writing /\ corpora[folder] # Nothing
  /\ \E fitted \in FitsOf(folder, feature, corpora[folder], pairs[folder], BOOLEAN) :
       Publish(folder, corpora[folder], pairs[folder], fitted)
  /\ unswept' = unswept \ {<<folder, feature>>}
  /\ UNCHANGED <<overtaken, registers, changing, route, attaching>>

FitFails(folder, feature) ==
  /\ Free /\ Exclusive /\ corpora[folder] # Nothing
  /\ evict_artifact(folder, feature) /\ invalidate_analytics
  /\ unswept' = unswept \ {<<folder, feature>>}
  /\ UNCHANGED <<corpora, pairs, writes, overtaken, registers, changing, route, attaching>>

\* The folder a bare concept is extracted into.
resolve_extraction_target(name, folder) ==
  LET installed == { f \in ArtifactFolders : f[2] = name /\ corpora[f] # Nothing } IN
  IF installed = {} THEN folder = <<"local", name>> ELSE installed = {folder}

\* A vector is authored when its folder is not there or the caller insists, and fitted.
\* Authoring it anew drops every pair of the folder, and the fit then moves only the
\* consumers of its own feature space.
Authored(folder, role, force) ==
  IF force \/ corpora[folder] = Nothing THEN [revision |-> writes, role |-> role] ELSE corpora[folder]
Left(folder, force) == IF force \/ corpora[folder] = Nothing THEN NoPairs ELSE pairs[folder]
Unmoved(folder, force) ==
  IF force /\ corpora[folder] # Nothing THEN unswept \cup OfFolder(folder) ELSE unswept

author_and_fit_vector(folder, feature, role, force, fitted) ==
  LET corpus == Authored(folder, role, force)
      shapes == IF force \/ corpora[folder] = Nothing THEN {TRUE} ELSE BOOLEAN
  IN /\ Writing /\ corpus.role = role
     /\ fitted \in FitsOf(folder, feature, corpus, Left(folder, force), shapes)
     /\ Publish(folder, corpus, Left(folder, force), fitted)
     /\ unswept' = Unmoved(folder, force) \ {<<folder, feature>>}

\* POST /extract, of a key's folder, role and feature space.
Extracts(key, folder) ==
  /\ Free /\ Exclusive /\ Room
  /\ key.name = folder[2]
  /\ IF key.ns = Bare THEN resolve_extraction_target(key.name, folder) ELSE key.ns = folder[1]

extract_profile(key, folder) ==
  /\ Extracts(key, folder)
  /\ \E force \in BOOLEAN :
     \E fitted \in FitsOf(folder, FeatureOf(key), Authored(folder, key.variant = "role", force),
                          Left(folder, force), BOOLEAN) :
       /\ author_and_fit_vector(folder, FeatureOf(key), key.variant = "role", force, fitted)
       /\ route' = IF is_foldable_vector_manifold(fitted)
                   THEN [kind |-> "extract", name |-> key, of |-> fitted] ELSE Nothing
  /\ UNCHANGED <<overtaken, registers, changing, attaching>>

\* The fit fails after the folder was authored anew: nothing that read it is told.
ExtractFails(key, folder) ==
  /\ Extracts(key, folder) /\ Writing
  /\ \E force \in BOOLEAN :
       /\ corpora' = [corpora EXCEPT ![folder] = Authored(folder, key.variant = "role", force)]
       /\ pairs' = [pairs EXCEPT ![folder] = Left(folder, force)]
       /\ unswept' = Unmoved(folder, force)
  /\ UNCHANGED <<heldVars, copyVars, route, attaching>>

\* A probe of a concept that is not registered and has no fit of the folder as it is: the
\* concept is authored if need be and fitted in the section that attaches the probe.
AttachExtracts(key) ==
  /\ Exclusive /\ Room
  /\ key.ns = Bare /\ key.variant = "raw"
  /\ key \notin DOMAIN probes \cup DOMAIN profiles \cup DOMAIN manifolds
  /\ ~Loadable(key) /\ \A f, g \in Matches(key) : f = g
  /\ \E folder \in ArtifactFolders :
     \E fitted \in FitsOf(folder, "raw", Authored(folder, FALSE, FALSE), Left(folder, FALSE), BOOLEAN) :
       /\ resolve_extraction_target(key.name, folder)
       /\ author_and_fit_vector(folder, "raw", FALSE, FALSE, fitted)
       /\ attaching' = IF is_foldable_vector_manifold(fitted) THEN [key |-> key, of |-> fitted] ELSE Nothing
       /\ Noted(fitted)
  /\ UNCHANGED <<overtaken, registers, changing>>

AttachEnds ==
  /\ attaching # Nothing /\ Unannounced
  /\ LET key == attaching.key
         probe == Ray(key, attaching.of)
     IN /\ folds' = Put(folds, key, {probe} \cup IF key \in DOMAIN folds THEN folds[key] ELSE {})
        /\ probes' = Put(probes, key, probe)
  /\ attaching' = Nothing
  /\ UNCHANGED <<diskVars, manifolds, profiles, overtaken, registers, analytics, poll, route>>

\* A bake, in one section: its folder has a pair and no corpus, and its direction is
\* registered by name.
bake(folder) ==
  LET fitted == [folder |-> folder, feature |-> "raw", revision |-> Nothing, role |-> FALSE,
                 flat |-> TRUE, baked |-> TRUE, by |-> writes]
      name == [ns |-> Bare, name |-> folder[2], variant |-> "raw"]
  IN /\ Free /\ Exclusive /\ Writing
     /\ corpora' = [corpora EXCEPT ![folder] = [revision |-> writes, role |-> FALSE]]
     /\ pairs' = [pairs EXCEPT ![folder] = [NoPairs EXCEPT !["raw"] = fitted]]
     /\ Forgotten(folder, Nothing)
     /\ profiles' = Put(Drop(profiles, Reading(profiles, folder, Nothing)), name, fitted)
     /\ invalidate_analytics
     /\ unswept' = unswept \ OfFolder(folder)
     /\ UNCHANGED <<overtaken, registers, changing, route, attaching>>

-----------------------------------------------------------------------------
\* Folders replaced and removed, by requests under the session lock, each in two steps.

\* from-template, merge and install with force, and the plan of a generation: the folder
\* first, outside the exclusive section.
RewriteFolder(folder) ==
  /\ Free /\ Writing
  /\ \E role \in BOOLEAN : corpora' = [corpora EXCEPT ![folder] = [revision |-> writes, role |-> role]]
  /\ pairs' \in { [pairs EXCEPT ![folder] = NoPairs], pairs }
  /\ unswept' = unswept \cup OfFolder(folder)
  /\ route' = [kind |-> "rewrite", folder |-> folder]
  /\ UNCHANGED <<heldVars, copyVars, attaching>>

\* Then what read it; a generation has filled the corpora by then.
Sweep ==
  /\ route # Nothing /\ route.kind = "rewrite" /\ Exclusive
  /\ \/ UNCHANGED <<corpora, writes>>
     \/ Writing /\ corpora' = [corpora EXCEPT ![route.folder] = [revision |-> writes, role |-> @.role]]
  /\ evict_artifact(route.folder, Nothing) /\ invalidate_analytics
  /\ unswept' = unswept \ OfFolder(route.folder) /\ route' = Nothing
  /\ UNCHANGED <<pairs, overtaken, registers, changing, attaching>>

\* Or the section is taken, and the request ends with an error and nothing dropped; so
\* does a removal that fails.
GivesUp ==
  /\ route # Nothing /\ route.kind \in {"rewrite", "removal"}
  /\ route' = Nothing
  /\ UNCHANGED <<diskVars, heldVars, copyVars, attaching>>

\* delete_manifold: what reads the folder first, then the folder.
EvictFolder(folder) ==
  /\ Free /\ Exclusive /\ corpora[folder] # Nothing
  /\ evict_artifact(folder, Nothing) /\ invalidate_analytics
  /\ unswept' = unswept \ OfFolder(folder)
  /\ route' = [kind |-> "removal", folder |-> folder, reloaded |-> {}]
  /\ UNCHANGED <<corpora, pairs, writes, overtaken, registers, changing, attaching>>

RemoveFolder ==
  /\ route # Nothing /\ route.kind = "removal" /\ Writing
  /\ corpora' = [corpora EXCEPT ![route.folder] = Nothing]
  /\ pairs' = [pairs EXCEPT ![route.folder] = NoPairs]
  /\ unswept' = unswept \cup ({route.folder} \X route.reloaded)
  /\ route' = Nothing
  /\ UNCHANGED <<heldVars, copyVars, attaching>>

-----------------------------------------------------------------------------
\* Directions registered in memory, from any thread.

Registered ==
  [folder |-> Nothing, feature |-> "raw", revision |-> Nothing, role |-> FALSE, flat |-> TRUE,
   baked |-> FALSE, by |-> registers]

Overtakes(name) == attaching # Nothing /\ attaching.key = name

put_profile_NoRefold(name, direction) ==
  /\ profiles' = Put(profiles, name, direction) /\ UNCHANGED <<folds, probes>>
  /\ overtaken' = IF Overtakes(name) THEN overtaken \cup {name} ELSE overtaken \ {name}
put_profile(name, direction) ==
  /\ profiles' = Put(profiles, name, direction)
  /\ IF name \in DOMAIN folds
     THEN /\ probes' = refresh_swapped(Swaps({}, Nothing, {name}, direction))
          /\ folds' = Alive(Refolded({name}, direction), probes')
     ELSE UNCHANGED <<folds, probes>>
  /\ overtaken' = IF Overtakes(name) THEN overtaken \cup {name} ELSE overtaken \ {name}

Register(name) ==
  /\ Room /\ registers < MaxRegisters /\ registers' = registers + 1
  /\ put_profile(name, Registered) /\ Unannounced
  /\ UNCHANGED <<diskVars, manifolds, analytics, poll, route, attaching>>

\* POST /extract registers what it extracted, after the section has ended.
RegisterExtracted ==
  /\ route # Nothing /\ route.kind = "extract"
  /\ put_profile(route.name, route.of) /\ Unannounced
  /\ route' = Nothing
  /\ UNCHANGED <<diskVars, manifolds, registers, analytics, poll, attaching>>

\* pop_profile, and evict_prefix for one name.
pop_profile(name) ==
  /\ name \in DOMAIN profiles /\ Unannounced
  /\ profiles' = Drop(profiles, {name})
  /\ UNCHANGED <<diskVars, manifolds, folds, probes, overtaken, registers, analytics, poll, route, attaching>>

Changed ==
  /\ changing > 0 /\ changing' = changing - 1
  /\ invalidate_analytics
  /\ UNCHANGED <<diskVars, heldVars, route, attaching>>

-----------------------------------------------------------------------------
\* Analytics: a copy is made under the exclusive lock, and kept if nothing changed since
\* it was asked for.

Live(name) ==
  IF name \in DOMAIN profiles THEN profiles[name]
  ELSE IF name \in DOMAIN probes /\ is_foldable_vector_manifold(probes[name].of)
       THEN folded_directions(probes[name].of) ELSE Nothing

analytics_snapshot(name) ==
  /\ poll = Nothing /\ name \notin DOMAIN analytics
  /\ poll' = [name |-> name, same |-> TRUE, stage |-> "asked", copy |-> Nothing]
  /\ UNCHANGED <<diskVars, heldVars, analytics, changing, route, attaching>>

\* The lock is free, or the poll defers.
Copies ==
  /\ poll # Nothing /\ poll.stage = "asked"
  /\ \/ poll' = Nothing
     \/ attaching = Nothing /\ Live(poll.name) # Nothing /\ poll' = [poll EXCEPT !.stage = "copied", !.copy = Live(poll.name)]
  /\ UNCHANGED <<diskVars, heldVars, analytics, changing, route, attaching>>

Kept_Always == TRUE
Kept == poll.same
Stores ==
  /\ poll # Nothing /\ poll.stage = "copied"
  /\ analytics' = IF Kept THEN Put(analytics, poll.name, poll.copy) ELSE analytics
  /\ poll' = Nothing
  /\ UNCHANGED <<diskVars, heldVars, changing, route, attaching>>

-----------------------------------------------------------------------------
Empty == [k \in {} |-> Nothing]

RegistryInit ==
  /\ \E role \in [ArtifactFolders -> BOOLEAN] :
       corpora = [f \in ArtifactFolders |-> [revision |-> -1, role |-> role[f]]]
  /\ pairs = [f \in ArtifactFolders |-> NoPairs]
  /\ manifolds = Empty /\ profiles = Empty /\ folds = Empty /\ probes = Empty
  /\ analytics = Empty /\ changing = 0 /\ poll = Nothing
  /\ route = Nothing /\ attaching = Nothing /\ unswept = {} /\ overtaken = {}
  /\ writes = 0 /\ registers = 0

RegistryNext ==
  \/ \E k \in Loaders : ensure_profile_registered(k)
  \/ \E k \in Keys :
       \/ Attach(k) \/ AttachExtracts(k) \/ Detach(k)
       \/ Register(k) \/ pop_profile(k) \/ analytics_snapshot(k)
       \/ \E f \in ArtifactFolders : extract_profile(k, f) \/ ExtractFails(k, f)
  \/ \E f \in ArtifactFolders :
       \/ \E feature \in Features : FitFolder(f, feature) \/ FitFails(f, feature)
       \/ bake(f) \/ RewriteFolder(f) \/ EvictFolder(f)
  \/ Sweep \/ GivesUp \/ RemoveFolder
  \/ AttachEnds \/ RegisterExtracted \/ Changed \/ Copies \/ Stores

RegistrySpec == RegistryInit /\ [][RegistryNext]_registryVars

-----------------------------------------------------------------------------
\* Properties.

\* The fit that is on disk, of the folder as it is authored; but for a pair whose
\* consumers were not told when its folder changed: one that a request has rewritten and
\* not swept, or could not sweep; one of another feature space when a forced extraction
\* authored the folder anew, or of any when that extraction failed; and one loaded
\* between the two steps of a removal.
IsPresent(content) ==
  content.folder # Nothing =>
    \/ <<content.folder, content.feature>> \in unswept
    \/ /\ pairs[content.folder][content.feature] = content
       /\ content.baked \/ content.revision = corpora[content.folder].revision

\* Whatever is held of an artifact, under any of its names, is its present fit; every
\* probe reads an object a later fit or eviction will find, and the direction registered
\* in memory under its key, unless that overtook the probe's extraction; and a copy kept
\* for analytics is of a direction still held under that name.
HeldIsCurrent ==
  /\ \A k \in DOMAIN manifolds : IsPresent(manifolds[k].of)
  /\ \A k \in DOMAIN profiles : IsPresent(profiles[k])
  /\ \A n \in DOMAIN probes :
       /\ IsPresent(probes[n].of)
       /\ probes[n] \in { manifolds[k] : k \in DOMAIN manifolds } \cup UNION { folds[k] : k \in DOMAIN folds }
  /\ \A k \in DOMAIN folds : k \in DOMAIN profiles /\ profiles[k].folder = Nothing =>
       k \in overtaken \/ \A ray \in folds[k] : ray.of = profiles[k]
  /\ changing = 0 => \A n \in DOMAIN analytics :
       \/ n \in DOMAIN profiles /\ analytics[n] = profiles[n]
       \/ n \in DOMAIN probes /\ analytics[n] = probes[n].of
=============================================================================
