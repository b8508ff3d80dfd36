---------------------------- MODULE ArtifactProofs ----------------------------
(***************************************************************************)
(* What a session holds of a fit is the present one, and what is exported  *)
(* and installed is whole.                                                 *)
(***************************************************************************)
EXTENDS ArtifactRegistry, Distribution, FiniteSetTheorems, TLAPS

(***************************************************************************)
(* The inductive invariant.                                                *)
(***************************************************************************)

\* A direction held under a key is of a folder the key reads, and the fit that is there,
\* but for folders whose change its consumers were not told.
ReadsAs(k, d, ps, cs, us) ==
  /\ d \in Directions
  /\ d.folder # Nothing =>
       /\ artifact_key_matches(k, d.folder, d.feature)
       /\ \/ <<d.folder, d.feature>> \in us
          \/ ps[d.folder][d.feature] = d /\ (d.baked \/ d.revision = cs[d.folder].revision)

FolderPairs == [Features -> Directions \cup {Nothing}]
Authoring == Corpora \cup {Nothing}

\* A pair says whose it is, and a folder without authoring has none.
DiskInv ==
  /\ corpora \in [ArtifactFolders -> Authoring]
  /\ pairs \in [ArtifactFolders -> FolderPairs]
  /\ \A f \in ArtifactFolders : \A ft \in Features :
       pairs[f][ft] # Nothing =>
         corpora[f] # Nothing /\ pairs[f][ft].folder = f /\ pairs[f][ft].feature = ft
  /\ writes \in Nat /\ registers \in Nat /\ changing \in Nat

ManifoldsInv ==
  \A k \in DOMAIN manifolds :
    /\ manifolds[k].key = Nothing /\ manifolds[k].of.folder # Nothing
    /\ ReadsAs(k, manifolds[k].of, pairs, corpora, unswept)

ProfilesInv == \A k \in DOMAIN profiles : ReadsAs(k, profiles[k], pairs, corpora, unswept)

\* A ray is folded for its key, from the direction registered under it if that is of no
\* folder and came when no probe of the key was being extracted.
FoldsInv ==
  \A k \in DOMAIN folds : k \in ArtifactKeys /\ \A ray \in folds[k] :
    /\ ray.key = k /\ ReadsAs(k, ray.of, pairs, corpora, unswept)
    /\ k \in DOMAIN profiles /\ profiles[k].folder = Nothing => k \in overtaken \/ ray.of = profiles[k]

ProbesInv ==
  \A n \in DOMAIN probes :
    \/ \E k \in DOMAIN manifolds : probes[n] = manifolds[k]
    \/ n \in DOMAIN folds /\ probes[n] \in folds[n]

StillHeld(name, copy) ==
  \/ name \in DOMAIN profiles /\ copy = profiles[name]
  \/ name \in DOMAIN probes /\ copy = probes[name].of

\* Copies may only be outdated while somebody has changed what is held and not said so.
CopiesInv ==
  /\ poll \in Polls \cup {Nothing}
  /\ changing = 0 =>
       /\ \A n \in DOMAIN analytics : StillHeld(n, analytics[n])
       /\ poll # Nothing /\ poll.stage = "copied" /\ poll.same => StillHeld(poll.name, poll.copy)

\* What was extracted for a probe is as good as what is held, and whoever registers its
\* key in memory meanwhile is noted.
AttachInv ==
  attaching # Nothing =>
    /\ attaching.key \in ArtifactKeys /\ ReadsAs(attaching.key, attaching.of, pairs, corpora, unswept)
    /\ attaching.key \in DOMAIN profiles /\ profiles[attaching.key].folder = Nothing =>
         attaching.key \in overtaken

\* All that is held of a folder, by the feature spaces it is in.
HeldIn(f, features) ==
  /\ \A k \in DOMAIN manifolds : manifolds[k].of.folder = f => manifolds[k].of.feature \in features
  /\ \A k \in DOMAIN profiles : profiles[k].folder = f => profiles[k].feature \in features
  /\ \A k \in DOMAIN folds : \A ray \in folds[k] : ray.of.folder = f => ray.of.feature \in features
  /\ attaching # Nothing /\ attaching.of.folder = f => attaching.of.feature \in features

\* A folder being rewritten is there; of one being removed only what was loaded since is
\* held; and an extraction ends with the fit that is there, of the folder as it is.
RouteInv ==
  /\ route # Nothing /\ route.kind = "rewrite" =>
       route.folder \in ArtifactFolders /\ corpora[route.folder] # Nothing
  /\ route # Nothing /\ route.kind = "removal" =>
       route.folder \in ArtifactFolders /\ HeldIn(route.folder, route.reloaded)
  /\ route # Nothing /\ route.kind = "extract" =>
       /\ route.of \in Directions /\ route.of.folder # Nothing
       /\ artifact_key_matches(route.name, route.of.folder, route.of.feature)
       /\ pairs[route.of.folder][route.of.feature] = route.of
       /\ route.of.revision = corpora[route.of.folder].revision
       /\ route.of.role = corpora[route.of.folder].role

HeldInv == ManifoldsInv /\ ProfilesInv /\ FoldsInv /\ ProbesInv
RegistryInv == DiskInv /\ HeldInv /\ CopiesInv /\ AttachInv /\ RouteInv

LEMMA CurrentIsHeld == ASSUME RegistryInv PROVE HeldIsCurrent
<1>0. DiskInv /\ HeldInv /\ CopiesInv BY DEF RegistryInv
<1>1. \A k, d : ReadsAs(k, d, pairs, corpora, unswept) => IsPresent(d) BY DEF ReadsAs, IsPresent
<1>2. \A k \in DOMAIN manifolds : IsPresent(manifolds[k].of) BY <1>0, <1>1 DEF HeldInv, ManifoldsInv
<1>3. \A k \in DOMAIN profiles : IsPresent(profiles[k]) BY <1>0, <1>1 DEF HeldInv, ProfilesInv
<1>4. ASSUME NEW n \in DOMAIN probes
      PROVE  /\ IsPresent(probes[n].of)
             /\ probes[n] \in { manifolds[k] : k \in DOMAIN manifolds } \cup UNION { folds[k] : k \in DOMAIN folds }
  <2>1. CASE \E k \in DOMAIN manifolds : probes[n] = manifolds[k] BY <2>1, <1>2
  <2>2. CASE n \in DOMAIN folds /\ probes[n] \in folds[n]
    BY <2>2, <1>0, <1>1 DEF HeldInv, FoldsInv
  <2> QED BY <2>1, <2>2, <1>0 DEF HeldInv, ProbesInv
<1>5. \A k \in DOMAIN folds : k \in DOMAIN profiles /\ profiles[k].folder = Nothing =>
        k \in overtaken \/ \A ray \in folds[k] : ray.of = profiles[k]
  BY <1>0 DEF HeldInv, FoldsInv
<1>6. changing = 0 => \A n \in DOMAIN analytics :
        \/ n \in DOMAIN profiles /\ analytics[n] = profiles[n]
        \/ n \in DOMAIN probes /\ analytics[n] = probes[n].of
  BY <1>0 DEF CopiesInv, StillHeld
<1> QED BY <1>2, <1>3, <1>4, <1>5, <1>6 DEF HeldIsCurrent

(***************************************************************************)
(* What a change of the disk leaves alone, and how probes follow.          *)
(***************************************************************************)

\* What was read of a feature space is still as it was, or known not to be.
AsItWas(g, gt) ==
  \/ <<g, gt>> \in unswept'
  \/ /\ <<g, gt>> \notin unswept
     /\ \/ pairs[g][gt] = Nothing
        \/ pairs'[g][gt] = pairs[g][gt] /\ corpora'[g].revision = corpora[g].revision

\* Outside of one folder, or of one feature space of it.
Elsewhere(f, feature, g, gt) == g # f \/ (feature # Nothing /\ gt # feature)

LEMMA StaysRead ==
  ASSUME NEW k, NEW d, ReadsAs(k, d, pairs, corpora, unswept), d.folder # Nothing => AsItWas(d.folder, d.feature)
  PROVE  ReadsAs(k, d, pairs', corpora', unswept')
<1>1. d # Nothing BY RegistryAssumption DEF ReadsAs
<1> QED BY <1>1 DEF ReadsAs, AsItWas

LEMMA InReading ==
  ASSUME NEW held, NEW folder, NEW feature
  PROVE  /\ Reading(held, folder, feature) \subseteq DOMAIN held
         /\ \A k \in DOMAIN held : k \in Reading(held, folder, feature) <=> artifact_key_matches(k, folder, feature)
BY DEF Reading

\* Without a feature every key of the folder's name matches.
LEMMA UnreadStays ==
  ASSUME NEW k, NEW d, ReadsAs(k, d, pairs, corpora, unswept), NEW f, NEW feature,
         ~artifact_key_matches(k, f, feature),
         \A g \in ArtifactFolders, gt \in Features : Elsewhere(f, feature, g, gt) => AsItWas(g, gt)
  PROVE  ReadsAs(k, d, pairs', corpora', unswept')
<1>1. d.folder # Nothing => /\ d.folder \in ArtifactFolders /\ d.feature \in Features
                            /\ artifact_key_matches(k, d.folder, d.feature)
  BY DEF ReadsAs, Directions
<1>2. d.folder # Nothing => Elsewhere(f, feature, d.folder, d.feature)
  BY <1>1 DEF Elsewhere, artifact_key_matches
<1> QED BY <1>1, <1>2, StaysRead

\* What is held stays when its consumers are not told of a change of the disk.
LEMMA HeldStays ==
  ASSUME HeldInv, UNCHANGED <<manifolds, profiles, folds, probes, overtaken>>,
         \A k \in DOMAIN manifolds : AsItWas(manifolds[k].of.folder, manifolds[k].of.feature),
         \A k \in DOMAIN profiles : profiles[k].folder # Nothing => AsItWas(profiles[k].folder, profiles[k].feature),
         \A k \in DOMAIN folds : \A ray \in folds[k] :
           ray.of.folder # Nothing => AsItWas(ray.of.folder, ray.of.feature)
  PROVE  HeldInv'
<1>0. ManifoldsInv /\ ProfilesInv /\ FoldsInv /\ ProbesInv BY DEF HeldInv
<1>1. ManifoldsInv'
  <2> SUFFICES ASSUME NEW k \in DOMAIN manifolds
               PROVE  /\ manifolds[k].key = Nothing /\ manifolds[k].of.folder # Nothing
                      /\ ReadsAs(k, manifolds[k].of, pairs', corpora', unswept')
    BY DEF ManifoldsInv
  <2> QED BY <1>0, StaysRead DEF ManifoldsInv
<1>2. ProfilesInv'
  <2> SUFFICES ASSUME NEW k \in DOMAIN profiles PROVE ReadsAs(k, profiles[k], pairs', corpora', unswept')
    BY DEF ProfilesInv
  <2> QED BY <1>0, StaysRead DEF ProfilesInv
<1>3. FoldsInv'
  <2> SUFFICES ASSUME NEW k \in DOMAIN folds
               PROVE  k \in ArtifactKeys /\ \A ray \in folds[k] :
                        /\ ray.key = k /\ ReadsAs(k, ray.of, pairs', corpora', unswept')
                        /\ k \in DOMAIN profiles /\ profiles[k].folder = Nothing =>
                             k \in overtaken \/ ray.of = profiles[k]
    BY DEF FoldsInv
  <2> QED BY <1>0, StaysRead DEF FoldsInv
<1>4. ProbesInv' BY <1>0 DEF ProbesInv
<1> QED BY <1>1, <1>2, <1>3, <1>4 DEF HeldInv

\* Probes move with what they read, or go.
LEMMA ProbesFollow ==
  ASSUME ManifoldsInv, FoldsInv, ProbesInv,
         NEW keys, keys \subseteq DOMAIN manifolds, NEW foldKeys, foldKeys \subseteq DOMAIN folds,
         NEW promoted, NEW direction, NEW F,
         probes' = refresh_swapped(Swaps(keys, promoted, foldKeys, direction)),
         folds' = Alive(F, probes'),
         \A k \in DOMAIN manifolds \ keys : k \in DOMAIN manifolds' /\ manifolds'[k] = manifolds[k],
         promoted # Nothing => \A k \in keys : k \in DOMAIN manifolds' /\ manifolds'[k] = promoted,
         \A k \in DOMAIN folds \ foldKeys : k \in DOMAIN F /\ F[k] = folds[k],
         direction # Nothing => \A k \in foldKeys : k \in DOMAIN F /\ F[k] = {Ray(k, direction)}
  PROVE  ProbesInv'
<1> DEFINE swaps == Swaps(keys, promoted, foldKeys, direction)
<1>1. /\ DOMAIN swaps = Loaded(keys) \cup Rays(foldKeys)
      /\ \A o \in DOMAIN swaps : swaps[o] = IF o \in Loaded(keys) THEN promoted
                                            ELSE IF direction = Nothing THEN Nothing ELSE Ray(o.key, direction)
  BY DEF Swaps
<1>2. \A n \in DOMAIN probes' :
        /\ n \in DOMAIN probes
        /\ probes[n] \in DOMAIN swaps => swaps[probes[n]] # Nothing /\ probes'[n] = swaps[probes[n]]
        /\ probes[n] \notin DOMAIN swaps => probes'[n] = probes[n]
  BY DEF refresh_swapped
<1> HIDE DEF swaps
<1> SUFFICES ASSUME NEW n \in DOMAIN probes'
             PROVE  \/ \E k \in DOMAIN manifolds' : probes'[n] = manifolds'[k]
                    \/ n \in DOMAIN folds' /\ probes'[n] \in folds'[n]
  BY DEF ProbesInv
<1>3. n \in DOMAIN probes /\ probes'[n] \in Attached(probes') BY <1>2 DEF Attached
<1>4. \A k \in DOMAIN F : probes'[n] \in F[k] => k \in DOMAIN folds' /\ probes'[n] \in folds'[k]
  BY <1>3 DEF Alive
<1>5. CASE \E k \in DOMAIN manifolds : probes[n] = manifolds[k]
  <2>1. PICK k \in DOMAIN manifolds : probes[n] = manifolds[k] BY <1>5
  <2>2. \A j \in DOMAIN folds : probes[n] \notin folds[j]
    <3>1. probes[n].key = Nothing BY <2>1 DEF ManifoldsInv
    <3>2. Nothing \notin ArtifactKeys BY RegistryAssumption
    <3> QED BY <3>1, <3>2 DEF FoldsInv
  <2>3. probes[n] \notin Rays(foldKeys) BY <2>2 DEF Rays
  <2>4. CASE probes[n] \in Loaded(keys)
    <3>1. probes'[n] = promoted /\ promoted # Nothing BY <2>4, <1>1, <1>2
    <3>2. PICK j \in keys : probes[n] = manifolds[j] BY <2>4 DEF Loaded
    <3> QED BY <3>1, <3>2
  <2>5. CASE probes[n] \notin Loaded(keys)
    <3>1. probes'[n] = probes[n] BY <2>3, <2>5, <1>1, <1>2
    <3>2. k \notin keys BY <2>1, <2>5 DEF Loaded
    <3> QED BY <3>1, <3>2, <2>1
  <2> QED BY <2>4, <2>5
<1>6. CASE n \in DOMAIN folds /\ probes[n] \in folds[n]
  <2>1. probes[n].key = n /\ n # Nothing BY <1>6, RegistryAssumption DEF FoldsInv
  <2>2. probes[n] \notin Loaded(keys) BY <2>1 DEF Loaded, ManifoldsInv
  <2>3. CASE n \in foldKeys
    <3>1. probes[n] \in DOMAIN swaps BY <2>3, <1>6, <1>1 DEF Rays
    <3>2. direction # Nothing /\ probes'[n] = Ray(n, direction) BY <3>1, <2>1, <2>2, <1>1, <1>2
    <3> QED BY <3>2, <2>3, <1>4
  <2>4. CASE n \notin foldKeys
    <3>1. probes[n] \notin Rays(foldKeys)
      <4> SUFFICES ASSUME NEW k \in foldKeys, probes[n] \in folds[k] PROVE FALSE BY DEF Rays
      <4>1. probes[n].key = k BY DEF FoldsInv
      <4> QED BY <4>1, <2>1, <2>4
    <3>2. probes'[n] = probes[n] BY <3>1, <2>2, <1>1, <1>2
    <3> QED BY <3>2, <1>6, <2>4, <1>4
  <2> QED BY <2>3, <2>4
<1> QED BY <1>3, <1>5, <1>6 DEF ProbesInv

\* Rays are folded again or stay.
LEMMA FoldsFollow ==
  ASSUME NEW F, folds' = Alive(F, probes'),
         \A k \in DOMAIN F : k \in ArtifactKeys /\ \A ray \in F[k] :
           /\ ray.key = k /\ ReadsAs(k, ray.of, pairs', corpora', unswept')
           /\ k \in DOMAIN profiles' /\ profiles'[k].folder = Nothing => k \in overtaken' \/ ray.of = profiles'[k]
  PROVE  FoldsInv'
<1>1. \A k \in DOMAIN folds' : k \in DOMAIN F /\ folds'[k] \subseteq F[k] BY DEF Alive
<1> QED BY <1>1 DEF FoldsInv

(***************************************************************************)
(* A new fit.                                                              *)
(***************************************************************************)

LEMMA AdoptHolds ==
  ASSUME HeldInv, DiskInv, NEW fitted, fitted \in Directions, fitted.folder # Nothing,
         adopt_fitted(fitted), UNCHANGED overtaken,
         pairs'[fitted.folder][fitted.feature] = fitted,
         fitted.revision = corpora'[fitted.folder].revision,
         \A g \in ArtifactFolders, gt \in Features :
           Elsewhere(fitted.folder, fitted.feature, g, gt) => AsItWas(g, gt)
  PROVE  HeldInv'
<1> DEFINE f == fitted.folder
           ft == fitted.feature
           keys == Reading(manifolds, f, ft)
           profileKeys == Reading(profiles, f, ft)
           foldKeys == Reading(folds, f, ft)
           direction == IF fitted.flat THEN fitted ELSE Nothing
           F == IF fitted.flat THEN Refolded(foldKeys, fitted) ELSE Drop(folds, foldKeys)
<1>0. ManifoldsInv /\ ProfilesInv /\ FoldsInv /\ ProbesInv BY DEF HeldInv
<1>1. /\ manifolds' = PutAll(manifolds, keys, Object(fitted))
      /\ profiles' = IF fitted.flat THEN PutAll(profiles, profileKeys, fitted) ELSE Drop(profiles, profileKeys)
      /\ probes' = refresh_swapped(Swaps(keys, Object(fitted), foldKeys, direction))
      /\ folds' = Alive(F, probes')
  BY DEF adopt_fitted, is_foldable_vector_manifold, folded_directions
<1>2. f \in ArtifactFolders /\ ft \in Features BY DEF Directions
<1>4. ASSUME NEW k, artifact_key_matches(k, f, ft) PROVE ReadsAs(k, fitted, pairs', corpora', unswept')
  BY <1>4 DEF ReadsAs
<1>5. ASSUME NEW k, NEW d, ReadsAs(k, d, pairs, corpora, unswept), ~artifact_key_matches(k, f, ft)
      PROVE  ReadsAs(k, d, pairs', corpora', unswept')
  BY <1>5, UnreadStays
<1>6. /\ keys \subseteq DOMAIN manifolds /\ \A k \in DOMAIN manifolds : k \in keys <=> artifact_key_matches(k, f, ft)
      /\ profileKeys \subseteq DOMAIN profiles
      /\ \A k \in DOMAIN profiles : k \in profileKeys <=> artifact_key_matches(k, f, ft)
      /\ foldKeys \subseteq DOMAIN folds /\ \A k \in DOMAIN folds : k \in foldKeys <=> artifact_key_matches(k, f, ft)
  BY InReading
<1>7. Object(fitted).key = Nothing /\ Object(fitted).of = fitted BY DEF Object
<1>8. fitted # Nothing BY RegistryAssumption
<1> HIDE DEF keys, profileKeys, foldKeys
<1>9. /\ DOMAIN manifolds' = DOMAIN manifolds
      /\ \A k \in DOMAIN manifolds : manifolds'[k] = IF k \in keys THEN Object(fitted) ELSE manifolds[k]
  BY <1>1, <1>6 DEF PutAll
<1>10. ManifoldsInv'
  <2> SUFFICES ASSUME NEW k \in DOMAIN manifolds'
               PROVE  manifolds'[k].key = Nothing /\ manifolds'[k].of.folder # Nothing
                      /\ ReadsAs(k, manifolds'[k].of, pairs', corpora', unswept')
    BY DEF ManifoldsInv
  <2>1. CASE k \in keys
    <3>1. manifolds'[k] = Object(fitted) BY <2>1, <1>9
    <3> QED BY <3>1, <2>1, <1>4, <1>6, <1>7, <1>9
  <2>2. CASE k \notin keys
    <3>1. manifolds'[k] = manifolds[k] BY <2>2, <1>9
    <3> QED BY <3>1, <2>2, <1>0, <1>5, <1>6, <1>9 DEF ManifoldsInv
  <2> QED BY <2>1, <2>2
<1>11. \A k \in DOMAIN profiles' :
         /\ k \in DOMAIN profiles
         /\ k \in profileKeys => profiles'[k] = fitted
         /\ k \notin profileKeys => profiles'[k] = profiles[k]
  BY <1>1, <1>6 DEF PutAll, Drop
<1>12. ProfilesInv'
  <2> SUFFICES ASSUME NEW k \in DOMAIN profiles' PROVE ReadsAs(k, profiles'[k], pairs', corpora', unswept')
    BY DEF ProfilesInv
  <2>1. CASE k \in profileKeys
    <3>1. profiles'[k] = fitted BY <2>1, <1>11
    <3> QED BY <3>1, <2>1, <1>4, <1>6, <1>11
  <2>2. CASE k \notin profileKeys
    <3>1. profiles'[k] = profiles[k] BY <2>2, <1>11
    <3> QED BY <3>1, <2>2, <1>0, <1>5, <1>6, <1>11 DEF ProfilesInv
  <2> QED BY <2>1, <2>2
<1>13. /\ \A k \in DOMAIN folds \ foldKeys : k \in DOMAIN F /\ F[k] = folds[k]
       /\ direction # Nothing => \A k \in foldKeys : k \in DOMAIN F /\ F[k] = {Ray(k, direction)}
       /\ \A k \in DOMAIN F : /\ k \in DOMAIN folds
                              /\ F[k] = IF k \in foldKeys THEN {Ray(k, fitted)} ELSE folds[k]
  BY <1>6 DEF Refolded, Drop
<1>14. FoldsInv'
  <2>1. ASSUME NEW k \in DOMAIN F, NEW ray \in F[k]
        PROVE  /\ ray.key = k /\ ReadsAs(k, ray.of, pairs', corpora', unswept')
               /\ k \in DOMAIN profiles' /\ profiles'[k].folder = Nothing => k \in overtaken' \/ ray.of = profiles'[k]
    <3>1. CASE k \in foldKeys
      <4>0. F[k] = {Ray(k, fitted)} BY <3>1, <2>1, <1>13
      <4>1. ray = Ray(k, fitted)
        <5> HIDE DEF F
        <5> QED BY <4>0, <2>1
      <4>2. ray.key = k /\ ray.of = fitted BY <4>1 DEF Ray
      <4>3. artifact_key_matches(k, f, ft) BY <3>1, <1>6
      <4>5. k \in DOMAIN profiles' => profiles'[k] = fitted BY <4>3, <1>6, <1>11
      <4> QED BY <4>2, <4>3, <4>5, <1>4
    <3>2. CASE k \notin foldKeys
      <4>1. ray \in folds[k] /\ k \in DOMAIN folds BY <3>2, <2>1, <1>13
      <4>2. ray.key = k /\ ReadsAs(k, ray.of, pairs, corpora, unswept)
            /\ (k \in DOMAIN profiles /\ profiles[k].folder = Nothing => k \in overtaken \/ ray.of = profiles[k])
        BY <4>1, <1>0 DEF FoldsInv
      <4>3. ReadsAs(k, ray.of, pairs', corpora', unswept') BY <4>1, <4>2, <3>2, <1>5, <1>6
      <4>4. k \in DOMAIN profiles' => k \in DOMAIN profiles /\ (profiles'[k] = fitted \/ profiles'[k] = profiles[k])
        BY <1>11
      <4> QED BY <4>2, <4>3, <4>4
    <3> QED BY <3>1, <3>2
  <2>2. \A k \in DOMAIN F : k \in ArtifactKeys BY <1>0, <1>13 DEF FoldsInv
  <2>3. folds' = Alive(F, probes') BY <1>1
  <2> HIDE DEF F, f, ft
  <2>4. \A k \in DOMAIN F : k \in ArtifactKeys /\ \A ray \in F[k] :
          /\ ray.key = k /\ ReadsAs(k, ray.of, pairs', corpora', unswept')
          /\ k \in DOMAIN profiles' /\ profiles'[k].folder = Nothing => k \in overtaken' \/ ray.of = profiles'[k]
    BY <2>1, <2>2
  <2> QED BY <2>3, <2>4, FoldsFollow
<1>15. ProbesInv'
  <2>1. \A k \in DOMAIN manifolds \ keys : k \in DOMAIN manifolds' /\ manifolds'[k] = manifolds[k] BY <1>9
  <2>2. \A k \in keys : k \in DOMAIN manifolds' /\ manifolds'[k] = Object(fitted) BY <1>6, <1>9
  <2> HIDE DEF F, direction
  <2> QED BY <2>1, <2>2, <1>0, <1>1, <1>6, <1>13, ProbesFollow
<1> QED BY <1>10, <1>12, <1>14, <1>15 DEF HeldInv

(***************************************************************************)
(* A folder written anew or removed.                                       *)
(***************************************************************************)

LEMMA ForgetHolds ==
  ASSUME HeldInv, NEW f \in ArtifactFolders, NEW feature, Forgotten(f, feature), UNCHANGED overtaken,
         \A k \in DOMAIN profiles' :
           \/ k \in DOMAIN profiles /\ ~artifact_key_matches(k, f, feature) /\ profiles'[k] = profiles[k]
           \/ profiles'[k].folder # Nothing /\ ReadsAs(k, profiles'[k], pairs', corpora', unswept'),
         \A g \in ArtifactFolders, gt \in Features : Elsewhere(f, feature, g, gt) => AsItWas(g, gt)
  PROVE  HeldInv'
<1> DEFINE keys == Reading(manifolds, f, feature)
           foldKeys == Reading(folds, f, feature)
           F == Drop(folds, foldKeys)
<1>0. ManifoldsInv /\ ProfilesInv /\ FoldsInv /\ ProbesInv BY DEF HeldInv
<1>1. /\ manifolds' = Drop(manifolds, keys)
      /\ probes' = refresh_swapped(Swaps(keys, Nothing, foldKeys, Nothing))
      /\ folds' = Alive(F, probes')
  BY DEF Forgotten
<1>2. /\ keys \subseteq DOMAIN manifolds
      /\ \A k \in DOMAIN manifolds : k \in keys <=> artifact_key_matches(k, f, feature)
      /\ foldKeys \subseteq DOMAIN folds
      /\ \A k \in DOMAIN folds : k \in foldKeys <=> artifact_key_matches(k, f, feature)
  BY InReading
<1>3. ASSUME NEW k, NEW d, ReadsAs(k, d, pairs, corpora, unswept), ~artifact_key_matches(k, f, feature)
      PROVE  ReadsAs(k, d, pairs', corpora', unswept')
  BY <1>3, UnreadStays
<1> HIDE DEF keys, foldKeys
<1>4. \A k \in DOMAIN manifolds' : k \in DOMAIN manifolds /\ k \notin keys /\ manifolds'[k] = manifolds[k]
  BY <1>1 DEF Drop
<1>5. ManifoldsInv'
  <2> SUFFICES ASSUME NEW k \in DOMAIN manifolds'
               PROVE  manifolds'[k].key = Nothing /\ manifolds'[k].of.folder # Nothing
                      /\ ReadsAs(k, manifolds'[k].of, pairs', corpora', unswept')
    BY DEF ManifoldsInv
  <2> QED BY <1>0, <1>2, <1>3, <1>4 DEF ManifoldsInv
<1>6. ProfilesInv'
  <2> SUFFICES ASSUME NEW k \in DOMAIN profiles' PROVE ReadsAs(k, profiles'[k], pairs', corpora', unswept')
    BY DEF ProfilesInv
  <2> QED BY <1>0, <1>3 DEF ProfilesInv
<1>7. \A k \in DOMAIN F : k \in DOMAIN folds /\ k \notin foldKeys /\ F[k] = folds[k] BY DEF Drop
<1>8. \A k \in DOMAIN folds \ foldKeys : k \in DOMAIN F /\ F[k] = folds[k] BY DEF Drop
<1> HIDE DEF F
<1>9. FoldsInv'
  <2>1. ASSUME NEW k \in DOMAIN F, NEW ray \in F[k]
        PROVE  /\ ray.key = k /\ ReadsAs(k, ray.of, pairs', corpora', unswept')
               /\ k \in DOMAIN profiles' /\ profiles'[k].folder = Nothing => k \in overtaken' \/ ray.of = profiles'[k]
    <3>1. ray \in folds[k] /\ k \in DOMAIN folds /\ ~artifact_key_matches(k, f, feature)
      BY <2>1, <1>2, <1>7
    <3>2. /\ ray.key = k /\ ReadsAs(k, ray.of, pairs, corpora, unswept)
          /\ k \in DOMAIN profiles /\ profiles[k].folder = Nothing => k \in overtaken \/ ray.of = profiles[k]
      BY <3>1, <1>0 DEF FoldsInv
    <3>3. ReadsAs(k, ray.of, pairs', corpora', unswept') BY <3>1, <3>2, <1>3
    <3>4. k \in DOMAIN profiles' /\ profiles'[k].folder = Nothing =>
            k \in DOMAIN profiles /\ profiles'[k] = profiles[k]
      OBVIOUS
    <3> QED BY <3>2, <3>3, <3>4
  <2>2. \A k \in DOMAIN F : k \in ArtifactKeys BY <1>0, <1>7 DEF FoldsInv
  <2>3. folds' = Alive(F, probes') BY <1>1
  <2>4. \A k \in DOMAIN F : k \in ArtifactKeys /\ \A ray \in F[k] :
          /\ ray.key = k /\ ReadsAs(k, ray.of, pairs', corpora', unswept')
          /\ k \in DOMAIN profiles' /\ profiles'[k].folder = Nothing => k \in overtaken' \/ ray.of = profiles'[k]
    BY <2>1, <2>2
  <2> QED BY <2>3, <2>4, FoldsFollow
<1>10. ProbesInv'
  <2>1. \A k \in DOMAIN manifolds \ keys : k \in DOMAIN manifolds' /\ manifolds'[k] = manifolds[k]
    BY <1>1 DEF Drop
  <2> QED BY <2>1, <1>0, <1>1, <1>2, <1>8, ProbesFollow
<1> QED BY <1>5, <1>6, <1>9, <1>10 DEF HeldInv

LEMMA EvictHolds ==
  ASSUME HeldInv, NEW f \in ArtifactFolders, NEW feature, evict_artifact(f, feature), UNCHANGED overtaken,
         \A g \in ArtifactFolders, gt \in Features : Elsewhere(f, feature, g, gt) => AsItWas(g, gt)
  PROVE  HeldInv'
<1>1. Forgotten(f, feature) /\ profiles' = Drop(profiles, Reading(profiles, f, feature)) BY DEF evict_artifact
<1>2. \A k \in DOMAIN profiles' :
        k \in DOMAIN profiles /\ ~artifact_key_matches(k, f, feature) /\ profiles'[k] = profiles[k]
  BY <1>1, InReading DEF Drop
<1> QED BY <1>1, <1>2, ForgetHolds

(***************************************************************************)
(* Loading.                                                                *)
(***************************************************************************)

LEMMA ContentReads ==
  ASSUME HeldInv, DiskInv, NEW key \in ArtifactKeys, key \in DOMAIN manifolds \/ Loadable(key)
  PROVE  Content(key).folder # Nothing /\ ReadsAs(key, Content(key), pairs, corpora, unswept)
<1>1. CASE key \in DOMAIN manifolds
  <2>1. Content(key) = manifolds[key].of BY <1>1 DEF Content
  <2> QED BY <1>1, <2>1 DEF HeldInv, ManifoldsInv
<1>2. CASE key \notin DOMAIN manifolds
  <2>1. PICK f \in ArtifactFolders : Matches(key) = {f} /\ Admits(key, pairs[f][FeatureOf(key)])
    BY <1>2 DEF Loadable
  <2>2. f = CHOOSE g \in ArtifactFolders : Matches(key) = {g} BY <2>1
  <2>3. Content(key) = pairs[f][FeatureOf(key)] BY <1>2, <2>2 DEF Content
  <2>4. key.ns \in {Bare, f[1]} /\ key.name = f[2] /\ pairs[f][FeatureOf(key)] # Nothing
    BY <2>1 DEF Matches
  <2>5. FeatureOf(key) \in Features BY DEF FeatureOf, ArtifactKeys, Features
  <2> DEFINE d == pairs[f][FeatureOf(key)]
  <2>6. d \in Directions /\ d.folder = f /\ d.feature = FeatureOf(key) BY <2>4, <2>5 DEF DiskInv, FolderPairs
  <2>7. d.baked \/ d.revision = corpora[d.folder].revision BY <2>1 DEF Admits
  <2>8. artifact_key_matches(key, d.folder, d.feature)
    BY <2>4, <2>6 DEF artifact_key_matches, FeatureOf
  <2>9. f # Nothing BY RegistryAssumption
  <2> QED BY <2>3, <2>6, <2>7, <2>8, <2>9 DEF ReadsAs
<1> QED BY <1>1, <1>2

\* Loading adds at most one object.
LEMMA LoadHolds ==
  ASSUME HeldInv, DiskInv, NEW key \in ArtifactKeys, key \in DOMAIN manifolds \/ Loadable(key),
         ensure_manifold_loaded(key), UNCHANGED <<pairs, corpora, unswept>>
  PROVE  /\ ManifoldsInv'
         /\ \A k \in DOMAIN manifolds : k \in DOMAIN manifolds' /\ manifolds'[k] = manifolds[k]
         /\ key \in DOMAIN manifolds'
         /\ manifolds'[key] = IF key \in DOMAIN manifolds THEN manifolds[key] ELSE Object(Content(key))
<1>1. Content(key).folder # Nothing /\ ReadsAs(key, Content(key), pairs, corpora, unswept) BY ContentReads
<1>2. ManifoldsInv BY DEF HeldInv
<1>3. CASE key \in DOMAIN manifolds
  <2>1. manifolds' = manifolds BY <1>3 DEF ensure_manifold_loaded
  <2>2. ManifoldsInv' BY <2>1, <1>2 DEF ManifoldsInv
  <2> QED BY <2>1, <2>2, <1>3
<1>4. CASE key \notin DOMAIN manifolds
  <2>1. /\ DOMAIN manifolds' = DOMAIN manifolds \cup {key}
        /\ \A k \in DOMAIN manifolds' : manifolds'[k] = IF k = key THEN Object(Content(key)) ELSE manifolds[k]
    BY <1>4 DEF ensure_manifold_loaded, Put
  <2>2. Object(Content(key)).key = Nothing /\ Object(Content(key)).of = Content(key) BY DEF Object
  <2>3. ManifoldsInv' BY <2>1, <2>2, <1>1, <1>2 DEF ManifoldsInv
  <2> QED BY <2>1, <2>3, <1>4
<1> QED BY <1>3, <1>4

(***************************************************************************)
(* Copies.                                                                 *)
(***************************************************************************)

LEMMA Invalidated ==
  ASSUME CopiesInv, invalidate_analytics PROVE CopiesInv'
<1>1. poll \in Polls \cup {Nothing} BY DEF CopiesInv
<1>2. poll' \in Polls \cup {Nothing} /\ (poll' # Nothing /\ poll'.stage = "copied" => ~poll'.same)
  BY <1>1, RegistryAssumption DEF invalidate_analytics, Polls
<1>3. DOMAIN analytics' = {} BY DEF invalidate_analytics
<1> QED BY <1>2, <1>3 DEF CopiesInv

\* Whoever changes what is held without a word is counted.
LEMMA Announced ==
  ASSUME CopiesInv, UNCHANGED poll, changing' # 0 PROVE CopiesInv'
BY DEF CopiesInv

LEMMA LiveIsHeld ==
  ASSUME HeldInv, NEW name, Live(name) # Nothing
  PROVE  Live(name) \in Directions /\ StillHeld(name, Live(name))
<1>1. CASE name \in DOMAIN profiles
  BY <1>1 DEF Live, HeldInv, ProfilesInv, ReadsAs, StillHeld
<1>2. CASE name \notin DOMAIN profiles
  <2>1. name \in DOMAIN probes /\ Live(name) = probes[name].of
    BY <1>2 DEF Live, folded_directions
  <2>2. probes[name].of \in Directions
    <3>1. CASE \E k \in DOMAIN manifolds : probes[name] = manifolds[k]
      BY <3>1 DEF HeldInv, ManifoldsInv, ReadsAs
    <3>2. CASE name \in DOMAIN folds /\ probes[name] \in folds[name]
      BY <3>2 DEF HeldInv, FoldsInv, ReadsAs
    <3> QED BY <2>1, <3>1, <3>2 DEF HeldInv, ProbesInv
  <2> QED BY <2>1, <2>2 DEF StillHeld
<1> QED BY <1>1, <1>2

\* Polls and drops of copies change nothing of what is held.
LEMMA QuietHolds ==
  ASSUME DiskInv, HeldInv, AttachInv, RouteInv, changing' \in Nat,
         UNCHANGED <<diskVars, heldVars, route, attaching>>
  PROVE  DiskInv' /\ HeldInv' /\ AttachInv' /\ RouteInv'
<1>0. /\ corpora' = corpora /\ pairs' = pairs /\ unswept' = unswept /\ writes' = writes
      /\ manifolds' = manifolds /\ profiles' = profiles /\ folds' = folds /\ probes' = probes
      /\ overtaken' = overtaken /\ registers' = registers /\ route' = route /\ attaching' = attaching
  BY DEF diskVars, heldVars
<1>1. DiskInv' BY <1>0 DEF DiskInv
<1>2. HeldInv' BY <1>0 DEF HeldInv, ManifoldsInv, ProfilesInv, FoldsInv, ProbesInv
<1>3. AttachInv' BY <1>0 DEF AttachInv
<1>4. RouteInv' BY <1>0 DEF RouteInv, HeldIn
<1> QED BY <1>1, <1>2, <1>3, <1>4

LEMMA SnapshotHolds ==
  ASSUME RegistryInv, NEW name \in Keys, analytics_snapshot(name) PROVE RegistryInv'
<1>0. DiskInv /\ HeldInv /\ CopiesInv /\ AttachInv /\ RouteInv BY DEF RegistryInv
<1>1. poll' = [name |-> name, same |-> TRUE, stage |-> "asked", copy |-> Nothing]
      /\ UNCHANGED <<diskVars, heldVars, analytics, changing, route, attaching>>
  BY DEF analytics_snapshot
<1>2. poll' \in Polls /\ poll'.stage = "asked" BY <1>1 DEF Polls
<1>3. DiskInv' /\ HeldInv' /\ AttachInv' /\ RouteInv' BY <1>0, <1>1, QuietHolds DEF DiskInv
<1>4. CopiesInv' BY <1>0, <1>1, <1>2 DEF CopiesInv, StillHeld, heldVars
<1> QED BY <1>3, <1>4 DEF RegistryInv

LEMMA CopiesHolds ==
  ASSUME RegistryInv, Copies PROVE RegistryInv'
<1>0. DiskInv /\ HeldInv /\ CopiesInv /\ AttachInv /\ RouteInv BY DEF RegistryInv
<1>1. /\ poll # Nothing /\ poll.stage = "asked"
      /\ UNCHANGED <<diskVars, heldVars, analytics, changing, route, attaching>>
  BY DEF Copies
<1>2. DiskInv' /\ HeldInv' /\ AttachInv' /\ RouteInv' BY <1>0, <1>1, QuietHolds DEF DiskInv
<1>3. UNCHANGED <<profiles, probes, analytics, changing>> BY <1>1 DEF heldVars
<1>5. ASSUME poll' = Nothing PROVE CopiesInv' BY <1>0, <1>3, <1>5 DEF CopiesInv, StillHeld
<1>6. ASSUME Live(poll.name) # Nothing, poll' = [poll EXCEPT !.stage = "copied", !.copy = Live(poll.name)]
      PROVE  CopiesInv'
  <2>1. Live(poll.name) \in Directions /\ StillHeld(poll.name, Live(poll.name))
    BY <1>6, LiveIsHeld DEF RegistryInv
  <2>2. poll \in Polls BY <1>1 DEF RegistryInv, CopiesInv
  <2>3. poll' \in Polls /\ poll'.name = poll.name /\ poll'.copy = Live(poll.name)
    BY <2>1, <2>2, <1>6 DEF Polls
  <2>4. \/ poll'.name \in DOMAIN profiles' /\ poll'.copy = profiles'[poll'.name]
        \/ poll'.name \in DOMAIN probes' /\ poll'.copy = probes'[poll'.name].of
    BY <2>1, <2>3, <1>3 DEF StillHeld
  <2>5. changing = 0 => \A n \in DOMAIN analytics : StillHeld(n, analytics[n])
    BY DEF RegistryInv, CopiesInv
  <2>6. changing' = 0 => \A n \in DOMAIN analytics' :
          \/ n \in DOMAIN profiles' /\ analytics'[n] = profiles'[n]
          \/ n \in DOMAIN probes' /\ analytics'[n] = probes'[n].of
    BY <2>5, <1>3 DEF StillHeld
  <2> QED BY <2>3, <2>4, <2>6 DEF CopiesInv, StillHeld
<1>7. CopiesInv' BY <1>5, <1>6 DEF Copies
<1> QED BY <1>2, <1>7 DEF RegistryInv

LEMMA StoresHolds ==
  ASSUME RegistryInv, Stores PROVE RegistryInv'
<1>0. DiskInv /\ HeldInv /\ CopiesInv /\ AttachInv /\ RouteInv BY DEF RegistryInv
<1>1. /\ poll # Nothing /\ poll.stage = "copied" /\ poll' = Nothing
      /\ analytics' = (IF Kept THEN Put(analytics, poll.name, poll.copy) ELSE analytics)
      /\ UNCHANGED <<diskVars, heldVars, changing, route, attaching>>
  BY DEF Stores
<1>2. DiskInv' /\ HeldInv' /\ AttachInv' /\ RouteInv' BY <1>0, <1>1, QuietHolds DEF DiskInv
<1>3. UNCHANGED <<profiles, probes, changing>> BY <1>1 DEF heldVars
<1>4. \A n \in DOMAIN analytics' :
        \/ n \in DOMAIN analytics /\ analytics'[n] = analytics[n]
        \/ poll.same /\ n = poll.name /\ analytics'[n] = poll.copy
  BY <1>1 DEF Kept, Put
<1>5. CopiesInv' BY <1>0, <1>1, <1>3, <1>4 DEF CopiesInv, StillHeld
<1> QED BY <1>2, <1>5 DEF RegistryInv

LEMMA ChangedHolds ==
  ASSUME RegistryInv, Changed PROVE RegistryInv'
<1>0. DiskInv /\ HeldInv /\ CopiesInv /\ AttachInv /\ RouteInv BY DEF RegistryInv
<1>1. /\ changing > 0 /\ changing' = changing - 1 /\ invalidate_analytics
      /\ UNCHANGED <<diskVars, heldVars, route, attaching>>
  BY DEF Changed
<1>2. changing' \in Nat BY <1>0, <1>1 DEF DiskInv
<1>3. DiskInv' /\ HeldInv' /\ AttachInv' /\ RouteInv' BY <1>0, <1>1, <1>2, QuietHolds
<1>4. CopiesInv' BY <1>0, <1>1, Invalidated
<1> QED BY <1>3, <1>4 DEF RegistryInv

(***************************************************************************)
(* Loading, attaching and detaching.                                       *)
(***************************************************************************)

LEMMA KeysAreConcrete ==
  ASSUME DiskInv, NEW k \in Loaders, concretize_key(k) # Nothing
  PROVE  concretize_key(k) \in ArtifactKeys
<1> DEFINE fitted == { r \in Releases : \E f \in ArtifactFolders :
                         k.ns \in {Bare, f[1]} /\ k.name = f[2] /\ pairs[f][r] # Nothing }
<1>1. k \in ArtifactKeys \cup [ns : Namespaces \cup {Bare}, name : Names, variant : {"sae"}]
  BY RegistryAssumption
<1>2. CASE k.variant # "sae"
  <2>1. concretize_key(k) = k BY <1>2 DEF concretize_key
  <2>2. k \notin [ns : Namespaces \cup {Bare}, name : Names, variant : {"sae"}] BY <1>2
  <2> QED BY <2>1, <2>2, <1>1
<1>3. CASE k.variant = "sae"
  <2>1. Cardinality(fitted) = 1 /\ concretize_key(k) = [k EXCEPT !.variant = CHOOSE r \in fitted : TRUE]
    BY <1>3 DEF concretize_key
  <2>2. fitted # {}
    <3>1. Cardinality({}) = 0 BY FS_EmptySet
    <3> HIDE DEF fitted
    <3> QED BY <3>1, <2>1
  <2>3. (CHOOSE r \in fitted : TRUE) \in Releases BY <2>2
  <2> HIDE DEF fitted
  <2>4. k.ns \in Namespaces \cup {Bare} /\ k.name \in Names BY <1>1 DEF ArtifactKeys
  <2>5. concretize_key(k) = [ns |-> k.ns, name |-> k.name, variant |-> CHOOSE r \in fitted : TRUE]
    BY <2>1, <1>1 DEF ArtifactKeys
  <2> QED BY <2>3, <2>4, <2>5 DEF ArtifactKeys, Features
<1> QED BY <1>2, <1>3

LEMMA RegisteringHolds ==
  ASSUME RegistryInv, NEW k \in Loaders, ensure_profile_registered(k) PROVE RegistryInv'
<1> DEFINE key == concretize_key(k)
<1>0. DiskInv /\ HeldInv /\ CopiesInv /\ AttachInv /\ RouteInv BY DEF RegistryInv
<1>1. /\ key # Nothing /\ key \notin DOMAIN profiles /\ (key \in DOMAIN manifolds \/ Loadable(key))
      /\ ensure_manifold_loaded(key)
      /\ profiles' = (IF is_foldable_vector_manifold(Content(key))
                      THEN Put(profiles, key, Content(key)) ELSE profiles)
      /\ UNCHANGED <<corpora, pairs, unswept, writes, folds, probes, overtaken, registers>>
      /\ UNCHANGED <<analytics, changing, poll, route, attaching>>
      /\ route = Nothing /\ attaching = Nothing
  BY DEF ensure_profile_registered, folded_directions, Free, Exclusive, diskVars, copyVars
<1>2. key \in ArtifactKeys BY <1>0, <1>1, KeysAreConcrete
<1> HIDE DEF key
<1>3. Content(key).folder # Nothing /\ ReadsAs(key, Content(key), pairs, corpora, unswept)
  BY <1>0, <1>1, <1>2, ContentReads
<1>4. /\ ManifoldsInv'
      /\ \A j \in DOMAIN manifolds : j \in DOMAIN manifolds' /\ manifolds'[j] = manifolds[j]
  BY <1>0, <1>1, <1>2, LoadHolds
<1>5. /\ \A j \in DOMAIN profiles : j \in DOMAIN profiles' /\ profiles'[j] = profiles[j]
      /\ \A j \in DOMAIN profiles' : j \in DOMAIN profiles \/ (j = key /\ profiles'[j] = Content(key))
  BY <1>1 DEF Put
<1>6. DiskInv' BY <1>0, <1>1 DEF DiskInv
<1>7. ProfilesInv' BY <1>0, <1>1, <1>3, <1>5 DEF HeldInv, ProfilesInv
<1>8. FoldsInv' BY <1>0, <1>1, <1>3, <1>5 DEF HeldInv, FoldsInv
<1>9. ProbesInv'
  <2> SUFFICES ASSUME NEW n \in DOMAIN probes
               PROVE  \/ \E j \in DOMAIN manifolds' : probes[n] = manifolds'[j]
                      \/ n \in DOMAIN folds /\ probes[n] \in folds[n]
    BY <1>1 DEF ProbesInv
  <2> QED BY <1>0, <1>4 DEF HeldInv, ProbesInv
<1>10. CopiesInv'
  <2>1. poll' \in Polls \cup {Nothing} BY <1>0, <1>1 DEF CopiesInv
  <2>2. ASSUME NEW n, NEW c, StillHeld(n, c)
        PROVE  \/ n \in DOMAIN profiles' /\ c = profiles'[n]
               \/ n \in DOMAIN probes' /\ c = probes'[n].of
    BY <2>2, <1>1, <1>5 DEF StillHeld
  <2> QED BY <2>1, <2>2, <1>0, <1>1 DEF CopiesInv, StillHeld
<1>11. AttachInv' /\ RouteInv' BY <1>1 DEF AttachInv, RouteInv
<1> QED BY <1>4, <1>6, <1>7, <1>8, <1>9, <1>10, <1>11 DEF RegistryInv, HeldInv

LEMMA AttachHolds ==
  ASSUME RegistryInv, NEW key \in Keys, Attach(key) PROVE RegistryInv'
<1> DEFINE probe == resolve_probe_manifold(key)
<1>0. DiskInv /\ HeldInv /\ CopiesInv /\ AttachInv /\ RouteInv BY DEF RegistryInv
<1>00. ManifoldsInv /\ ProfilesInv /\ FoldsInv /\ ProbesInv BY <1>0 DEF HeldInv
<1>1. /\ (key \in DOMAIN profiles \/ key \in DOMAIN manifolds \/ Loadable(key))
      /\ key \notin DOMAIN probes
      /\ (IF key \in DOMAIN profiles
          THEN /\ UNCHANGED manifolds
               /\ folds' = Put(folds, key, {probe} \cup IF key \in DOMAIN folds THEN folds[key] ELSE {})
          ELSE ensure_manifold_loaded(key) /\ UNCHANGED folds)
      /\ probes' = Put(probes, key, probe) /\ changing' = changing + 1 /\ Noted(probe.of)
      /\ UNCHANGED <<corpora, pairs, unswept, writes, profiles, overtaken, registers>>
      /\ UNCHANGED <<analytics, poll, attaching>> /\ attaching = Nothing
  BY DEF Attach, Exclusive, Unannounced, diskVars
<1>2. key \in ArtifactKeys BY RegistryAssumption
<1> HIDE DEF probe
<1>3. /\ DOMAIN probes' = DOMAIN probes \cup {key} /\ probes'[key] = probe
      /\ \A n \in DOMAIN probes : probes'[n] = probes[n]
  BY <1>1 DEF Put
<1>4. DiskInv' BY <1>0, <1>1 DEF DiskInv
<1>5. ProfilesInv' BY <1>00, <1>1 DEF ProfilesInv
<1>6. AttachInv' /\ CopiesInv'
  <2>1. changing' # 0 BY <1>0, <1>1 DEF DiskInv
  <2> QED BY <2>1, <1>0, <1>1, Announced DEF AttachInv
<1>9. RouteInv'
  <2>1. CASE ~(route # Nothing /\ route.kind = "removal")
    <3>1. route' = route BY <2>1, <1>1 DEF Noted
    <3> QED BY <3>1, <2>1, <1>0, <1>1 DEF RouteInv
  <2>2. CASE route # Nothing /\ route.kind = "removal"
    <3>1. route.folder \in ArtifactFolders /\ HeldIn(route.folder, route.reloaded) BY <2>2, <1>0 DEF RouteInv
    <3>2. /\ route'.kind = "removal" /\ route'.folder = route.folder
          /\ route.reloaded \subseteq route'.reloaded
          /\ probe.of.folder = route.folder => probe.of.feature \in route'.reloaded
      BY <2>2, <1>1 DEF Noted
    <3>3. \A k \in DOMAIN manifolds' : (k \in DOMAIN manifolds /\ manifolds'[k] = manifolds[k]) \/ manifolds'[k].of = probe.of
      <4>1. CASE key \in DOMAIN profiles \/ key \in DOMAIN manifolds
        BY <4>1, <1>1 DEF ensure_manifold_loaded
      <4>2. CASE key \notin DOMAIN profiles /\ key \notin DOMAIN manifolds
        <5>1. probe = Object(Content(key)) BY <4>2 DEF probe, resolve_probe_manifold
        <5> QED BY <4>2, <5>1, <1>1 DEF ensure_manifold_loaded, Put
      <4> QED BY <4>1, <4>2
    <3>4. \A k \in DOMAIN folds' : \A ray \in folds'[k] : (k \in DOMAIN folds /\ ray \in folds[k]) \/ ray = probe
      BY <1>1 DEF Put
    <3>5. HeldIn(route.folder, route.reloaded)' BY <3>1, <3>2, <3>3, <3>4, <1>1 DEF HeldIn
    <3> QED BY <3>1, <3>2, <3>5 DEF RouteInv
  <2> QED BY <2>1, <2>2
<1>7. CASE key \in DOMAIN profiles
  <2>1. probe = Ray(key, profiles[key]) BY <1>7 DEF probe, resolve_probe_manifold
  <2>2. probe.key = key /\ probe.of = profiles[key] BY <2>1 DEF Ray
  <2>3. /\ DOMAIN folds' = DOMAIN folds \cup {key} /\ probe \in folds'[key]
        /\ \A k \in DOMAIN folds : k # key => folds'[k] = folds[k]
        /\ \A ray \in folds'[key] : ray = probe \/ (key \in DOMAIN folds /\ ray \in folds[key])
        /\ \A k \in DOMAIN folds : folds[k] \subseteq folds'[k]
    BY <1>1, <1>7 DEF Put
  <2>4. manifolds' = manifolds BY <1>1, <1>7
  <2>5. ManifoldsInv' BY <2>4, <1>00, <1>1 DEF ManifoldsInv
  <2>6. FoldsInv'
    <3> SUFFICES ASSUME NEW k \in DOMAIN folds'
                 PROVE  k \in ArtifactKeys /\ \A ray \in folds'[k] :
                          /\ ray.key = k /\ ReadsAs(k, ray.of, pairs, corpora, unswept)
                          /\ k \in DOMAIN profiles /\ profiles[k].folder = Nothing => k \in overtaken \/ ray.of = profiles[k]
      BY <1>1 DEF FoldsInv
    <3>1. CASE k # key BY <3>1, <2>3, <1>00 DEF FoldsInv
    <3>2. CASE k = key BY <3>2, <2>2, <2>3, <1>2, <1>7, <1>00 DEF FoldsInv, ProfilesInv
    <3> QED BY <3>1, <3>2
  <2>7. ProbesInv'
    <3> SUFFICES ASSUME NEW n \in DOMAIN probes'
                 PROVE  \/ \E k \in DOMAIN manifolds : probes'[n] = manifolds[k]
                        \/ n \in DOMAIN folds' /\ probes'[n] \in folds'[n]
      BY <2>4 DEF ProbesInv
    <3>1. CASE n = key BY <3>1, <1>3, <2>3
    <3>2. CASE n # key BY <3>2, <1>3, <2>3, <1>00 DEF ProbesInv
    <3> QED BY <3>1, <3>2
  <2> QED BY <2>5, <2>6, <2>7, <1>4, <1>5, <1>6, <1>9 DEF RegistryInv, HeldInv
<1>8. CASE key \notin DOMAIN profiles
  <2>1. ensure_manifold_loaded(key) /\ folds' = folds BY <1>1, <1>8
  <2>2. /\ ManifoldsInv'
        /\ \A k \in DOMAIN manifolds : k \in DOMAIN manifolds' /\ manifolds'[k] = manifolds[k]
        /\ key \in DOMAIN manifolds'
        /\ manifolds'[key] = IF key \in DOMAIN manifolds THEN manifolds[key] ELSE Object(Content(key))
    BY <2>1, <1>0, <1>1, <1>2, <1>8, LoadHolds
  <2>3. probe = manifolds'[key] BY <2>2, <1>8 DEF probe, resolve_probe_manifold
  <2>4. FoldsInv' BY <2>1, <1>00, <1>1 DEF FoldsInv
  <2>5. ProbesInv'
    <3> SUFFICES ASSUME NEW n \in DOMAIN probes'
                 PROVE  \/ \E k \in DOMAIN manifolds' : probes'[n] = manifolds'[k]
                        \/ n \in DOMAIN folds /\ probes'[n] \in folds[n]
      BY <2>1 DEF ProbesInv
    <3>1. CASE n = key BY <3>1, <1>3, <2>2, <2>3
    <3>2. CASE n # key BY <3>2, <1>3, <2>2, <1>00 DEF ProbesInv
    <3> QED BY <3>1, <3>2
  <2> QED BY <2>2, <2>4, <2>5, <1>4, <1>5, <1>6, <1>9 DEF RegistryInv, HeldInv
<1> QED BY <1>7, <1>8

LEMMA DetachHolds ==
  ASSUME RegistryInv, NEW name \in Keys, Detach(name) PROVE RegistryInv'
<1>0. DiskInv /\ HeldInv /\ CopiesInv /\ AttachInv /\ RouteInv BY DEF RegistryInv
<1>00. ManifoldsInv /\ ProfilesInv /\ FoldsInv /\ ProbesInv BY <1>0 DEF HeldInv
<1>1. /\ probes' = Drop(probes, {name}) /\ folds' = Alive(folds, probes') /\ changing' = changing + 1
      /\ UNCHANGED <<corpora, pairs, unswept, writes, manifolds, profiles, overtaken, registers>>
      /\ UNCHANGED <<analytics, poll, route, attaching>> /\ attaching = Nothing
  BY DEF Detach, Exclusive, Unannounced, diskVars
<1>2. \A n \in DOMAIN probes' : n \in DOMAIN probes /\ probes'[n] = probes[n] BY <1>1 DEF Drop
<1>3. DiskInv' BY <1>0, <1>1 DEF DiskInv
<1>4. ManifoldsInv' /\ ProfilesInv' BY <1>00, <1>1 DEF ManifoldsInv, ProfilesInv
<1>5. FoldsInv'
  <2>1. \A k \in DOMAIN folds' : k \in DOMAIN folds /\ folds'[k] \subseteq folds[k] BY <1>1 DEF Alive
  <2> QED BY <2>1, <1>00, <1>1 DEF FoldsInv
<1>6. ProbesInv'
  <2> SUFFICES ASSUME NEW n \in DOMAIN probes'
               PROVE  \/ \E k \in DOMAIN manifolds : probes'[n] = manifolds[k]
                      \/ n \in DOMAIN folds' /\ probes'[n] \in folds'[n]
    BY <1>1 DEF ProbesInv
  <2>1. probes'[n] \in Attached(probes') BY DEF Attached
  <2>2. n \in DOMAIN folds /\ probes'[n] \in folds[n] => n \in DOMAIN folds' /\ probes'[n] \in folds'[n]
    BY <2>1, <1>1 DEF Alive
  <2> QED BY <2>2, <1>2, <1>00 DEF ProbesInv
<1>7. CopiesInv'
  <2>1. changing' # 0 BY <1>0, <1>1 DEF DiskInv
  <2> QED BY <2>1, <1>0, <1>1, Announced
<1>8. AttachInv' BY <1>1 DEF AttachInv
<1>9. RouteInv'
  <2>1. \A k \in DOMAIN folds' : k \in DOMAIN folds /\ folds'[k] \subseteq folds[k] BY <1>1 DEF Alive
  <2>2. ASSUME NEW f, NEW features, HeldIn(f, features) PROVE HeldIn(f, features)'
    BY <2>1, <2>2, <1>1 DEF HeldIn
  <2> QED BY <2>2, <1>0, <1>1 DEF RouteInv
<1> QED BY <1>3, <1>4, <1>5, <1>6, <1>7, <1>8, <1>9 DEF RegistryInv, HeldInv

(***************************************************************************)
(* Directions registered in memory.                                        *)
(***************************************************************************)

LEMMA PutHolds ==
  ASSUME HeldInv, AttachInv, NEW name, NEW d, ReadsAs(name, d, pairs, corpora, unswept), put_profile(name, d),
         UNCHANGED <<corpora, pairs, unswept, manifolds, attaching>>
  PROVE  /\ HeldInv' /\ AttachInv'
         /\ \A k \in DOMAIN profiles' : profiles'[k] = d \/ (k \in DOMAIN profiles /\ profiles'[k] = profiles[k])
         /\ \A k \in DOMAIN folds' : \A ray \in folds'[k] :
              ray.of = d \/ (k \in DOMAIN folds /\ ray \in folds[k])
<1> DEFINE F == Refolded({name}, d)
<1>0. corpora' = corpora /\ pairs' = pairs /\ unswept' = unswept /\ manifolds' = manifolds /\ attaching' = attaching
  OBVIOUS
<1>00. ManifoldsInv /\ ProfilesInv /\ FoldsInv /\ ProbesInv BY DEF HeldInv
<1>1. /\ profiles' = Put(profiles, name, d)
      /\ (IF name \in DOMAIN folds
          THEN /\ probes' = refresh_swapped(Swaps({}, Nothing, {name}, d))
               /\ folds' = Alive(F, probes')
          ELSE UNCHANGED <<folds, probes>>)
      /\ overtaken' = (IF Overtakes(name) THEN overtaken \cup {name} ELSE overtaken \ {name})
  BY DEF put_profile
<1>2. /\ DOMAIN profiles' = DOMAIN profiles \cup {name} /\ profiles'[name] = d
      /\ \A k \in DOMAIN profiles : k # name => profiles'[k] = profiles[k]
  BY <1>1 DEF Put
<1>3. d # Nothing BY RegistryAssumption DEF ReadsAs
<1>4. ManifoldsInv' BY <1>00, <1>0 DEF ManifoldsInv
<1>5. ProfilesInv' BY <1>00, <1>0, <1>2 DEF ProfilesInv
<1>7. AttachInv' BY <1>0, <1>1, <1>2 DEF AttachInv, Overtakes
<1>8. \A k \in DOMAIN folds' : \A ray \in folds'[k] :
        ray.of = d \/ (k \in DOMAIN folds /\ ray \in folds[k])
  <2>1. CASE name \notin DOMAIN folds BY <2>1, <1>1
  <2>2. CASE name \in DOMAIN folds
    <3>1. \A k \in DOMAIN folds' : k \in DOMAIN F /\ folds'[k] \subseteq F[k] BY <2>2, <1>1 DEF Alive
    <3>2. \A k \in DOMAIN F : k \in DOMAIN folds /\ (F[k] = {Ray(k, d)} \/ F[k] = folds[k]) BY DEF Refolded
    <3>3. \A k : Ray(k, d).of = d BY DEF Ray
    <3> HIDE DEF F
    <3> QED BY <3>1, <3>2, <3>3
  <2> QED BY <2>1, <2>2
<1>6. FoldsInv' /\ ProbesInv'
  <2>1. CASE name \notin DOMAIN folds
    <3>1. folds' = folds /\ probes' = probes BY <2>1, <1>1
    <3>2. ProbesInv' BY <3>1, <1>00, <1>0 DEF ProbesInv
    <3>3. FoldsInv' BY <3>1, <2>1, <1>00, <1>0, <1>1, <1>2 DEF FoldsInv
    <3> QED BY <3>2, <3>3
  <2>2. CASE name \in DOMAIN folds
    <3>1. probes' = refresh_swapped(Swaps({}, Nothing, {name}, d)) /\ folds' = Alive(F, probes')
      BY <2>2, <1>1
    <3>2. /\ DOMAIN F = DOMAIN folds /\ F[name] = {Ray(name, d)}
          /\ \A k \in DOMAIN folds : k # name => F[k] = folds[k]
      BY <2>2 DEF Refolded
    <3> HIDE DEF F
    <3>3. \A k \in DOMAIN folds \ {name} : k \in DOMAIN F /\ F[k] = folds[k] BY <3>2
    <3>4. \A k \in {name} : k \in DOMAIN F /\ F[k] = {Ray(k, d)} BY <2>2, <3>2
    <3>5. ProbesInv' BY <3>1, <3>3, <3>4, <2>2, <1>00, <1>0, <1>3, ProbesFollow
    <3>6. \A k \in DOMAIN F : k \in ArtifactKeys /\ \A ray \in F[k] :
            /\ ray.key = k /\ ReadsAs(k, ray.of, pairs', corpora', unswept')
            /\ k \in DOMAIN profiles' /\ profiles'[k].folder = Nothing => k \in overtaken' \/ ray.of = profiles'[k]
      <4> SUFFICES ASSUME NEW k \in DOMAIN F
                   PROVE  k \in ArtifactKeys /\ \A ray \in F[k] :
                            /\ ray.key = k /\ ReadsAs(k, ray.of, pairs, corpora, unswept)
                            /\ k \in DOMAIN profiles' /\ profiles'[k].folder = Nothing => k \in overtaken' \/ ray.of = profiles'[k]
        BY <1>0
      <4>1. k \in ArtifactKeys BY <3>2, <1>00 DEF FoldsInv
      <4>2. CASE k = name
        <5>1. Ray(name, d).key = name /\ Ray(name, d).of = d BY DEF Ray
        <5> QED BY <4>1, <4>2, <5>1, <3>2, <1>2
      <4>3. CASE k # name BY <4>1, <4>3, <3>2, <1>1, <1>2, <1>00 DEF FoldsInv
      <4> QED BY <4>2, <4>3
    <3>7. FoldsInv'
      <4>1. folds' = Alive(F, probes') BY <3>1
      <4> QED BY <4>1, <3>6, FoldsFollow
    <3> QED BY <3>5, <3>7
  <2> QED BY <2>1, <2>2
<1> QED BY <1>2, <1>4, <1>5, <1>6, <1>7, <1>8 DEF HeldInv

LEMMA RegisterHolds ==
  ASSUME RegistryInv, NEW name \in Keys, Register(name) PROVE RegistryInv'
<1>0. DiskInv /\ HeldInv /\ CopiesInv /\ AttachInv /\ RouteInv BY DEF RegistryInv
<1>1. /\ registers' = registers + 1 /\ put_profile(name, Registered) /\ changing' = changing + 1
      /\ UNCHANGED <<corpora, pairs, unswept, writes, manifolds, analytics, poll, route, attaching>>
  BY DEF Register, Unannounced, diskVars
<1> DEFINE d == Registered
<1>2. d \in Directions /\ d.folder = Nothing BY <1>0 DEF Registered, Directions, Features, DiskInv
<1>3. put_profile(name, d) BY <1>1
<1> HIDE DEF d
<1>4. ReadsAs(name, d, pairs, corpora, unswept) BY <1>2 DEF ReadsAs
<1>5. /\ HeldInv' /\ AttachInv'
      /\ \A k \in DOMAIN profiles' : profiles'[k] = d \/ (k \in DOMAIN profiles /\ profiles'[k] = profiles[k])
      /\ \A k \in DOMAIN folds' : \A ray \in folds'[k] :
           ray.of = d \/ (k \in DOMAIN folds /\ ray \in folds[k])
  BY <1>0, <1>1, <1>3, <1>4, PutHolds
<1>6. DiskInv' BY <1>0, <1>1 DEF DiskInv
<1>7. CopiesInv'
  <2>1. changing' # 0 BY <1>0, <1>1 DEF DiskInv
  <2> QED BY <2>1, <1>0, <1>1, Announced
<1>8. RouteInv'
  <2>1. ASSUME NEW f \in ArtifactFolders, NEW features, HeldIn(f, features) PROVE HeldIn(f, features)'
    <3>1. d.folder # f BY <1>2, RegistryAssumption
    <3> QED BY <3>1, <2>1, <1>1, <1>5 DEF HeldIn
  <2> QED BY <2>1, <1>0, <1>1 DEF RouteInv
<1> QED BY <1>5, <1>6, <1>7, <1>8 DEF RegistryInv

LEMMA RegisterExtractedHolds ==
  ASSUME RegistryInv, RegisterExtracted PROVE RegistryInv'
<1>0. DiskInv /\ HeldInv /\ CopiesInv /\ AttachInv /\ RouteInv BY DEF RegistryInv
<1>1. /\ route # Nothing /\ route.kind = "extract" /\ put_profile(route.name, route.of)
      /\ changing' = changing + 1 /\ route' = Nothing
      /\ UNCHANGED <<corpora, pairs, unswept, writes, manifolds, registers, analytics, poll, attaching>>
  BY DEF RegisterExtracted, Unannounced, diskVars
<1>2. ReadsAs(route.name, route.of, pairs, corpora, unswept) BY <1>0, <1>1 DEF RouteInv, ReadsAs
<1>3. HeldInv' /\ AttachInv' BY <1>0, <1>1, <1>2, PutHolds
<1>4. DiskInv' BY <1>0, <1>1 DEF DiskInv
<1>5. CopiesInv'
  <2>1. changing' # 0 BY <1>0, <1>1 DEF DiskInv
  <2> QED BY <2>1, <1>0, <1>1, Announced
<1>6. RouteInv' BY <1>1 DEF RouteInv
<1> QED BY <1>3, <1>4, <1>5, <1>6 DEF RegistryInv

LEMMA PopHolds ==
  ASSUME RegistryInv, NEW name \in Keys, pop_profile(name) PROVE RegistryInv'
<1>0. DiskInv /\ HeldInv /\ CopiesInv /\ AttachInv /\ RouteInv BY DEF RegistryInv
<1>1. /\ profiles' = Drop(profiles, {name}) /\ changing' = changing + 1
      /\ UNCHANGED <<corpora, pairs, unswept, writes, manifolds, folds, probes, overtaken, registers>>
      /\ UNCHANGED <<analytics, poll, route, attaching>>
  BY DEF pop_profile, Unannounced, diskVars
<1>2. \A k \in DOMAIN profiles' : k \in DOMAIN profiles /\ profiles'[k] = profiles[k] BY <1>1 DEF Drop
<1>3. DiskInv' BY <1>0, <1>1 DEF DiskInv
<1>4. ManifoldsInv' /\ ProbesInv' BY <1>0, <1>1 DEF HeldInv, ManifoldsInv, ProbesInv
<1>5. ProfilesInv' BY <1>0, <1>1, <1>2 DEF HeldInv, ProfilesInv
<1>6. FoldsInv'
  <2>1. \A k \in DOMAIN profiles' : profiles'[k].folder = Nothing => k \in DOMAIN profiles /\ profiles[k].folder = Nothing
    BY <1>2
  <2>2. FoldsInv BY <1>0 DEF HeldInv
  <2> SUFFICES ASSUME NEW k \in DOMAIN folds, NEW ray \in folds[k]
               PROVE  /\ k \in ArtifactKeys /\ ray.key = k /\ ReadsAs(k, ray.of, pairs, corpora, unswept)
                      /\ k \in DOMAIN profiles' /\ profiles'[k].folder = Nothing => k \in overtaken \/ ray.of = profiles'[k]
    BY <2>2, <1>1 DEF FoldsInv
  <2> QED BY <2>1, <2>2, <1>2 DEF FoldsInv
<1>7. CopiesInv'
  <2>1. changing' # 0 BY <1>0, <1>1 DEF DiskInv
  <2> QED BY <2>1, <1>0, <1>1, Announced
<1>8. AttachInv' BY <1>0, <1>1, <1>2 DEF AttachInv
<1>9. RouteInv'
  <2>1. ASSUME NEW f, NEW features, HeldIn(f, features) PROVE HeldIn(f, features)'
    BY <2>1, <1>1, <1>2 DEF HeldIn
  <2> QED BY <2>1, <1>0, <1>1 DEF RouteInv
<1> QED BY <1>3, <1>4, <1>5, <1>6, <1>7, <1>8, <1>9 DEF RegistryInv, HeldInv

(***************************************************************************)
(* A fit is published, of a folder that may be authored anew.              *)
(***************************************************************************)

\* A change of one folder and nothing else of the disk.
LEMMA FolderHolds ==
  ASSUME DiskInv, NEW f \in ArtifactFolders,
         corpora' \in [ArtifactFolders -> Authoring], pairs' \in [ArtifactFolders -> FolderPairs],
         \A g \in ArtifactFolders : g # f => pairs'[g] = pairs[g] /\ corpora'[g] = corpora[g],
         \A ft \in Features : pairs'[f][ft] # Nothing =>
           corpora'[f] # Nothing /\ pairs'[f][ft].folder = f /\ pairs'[f][ft].feature = ft,
         writes' \in Nat, registers' \in Nat, changing' \in Nat
  PROVE  DiskInv'
<1>1. ASSUME NEW g \in ArtifactFolders, NEW ft \in Features, pairs'[g][ft] # Nothing
      PROVE  corpora'[g] # Nothing /\ pairs'[g][ft].folder = g /\ pairs'[g][ft].feature = ft
  <2>1. CASE g = f BY <2>1, <1>1
  <2>2. CASE g # f BY <2>2, <1>1 DEF DiskInv
  <2> QED BY <2>1, <2>2
<1> QED BY <1>1 DEF DiskInv

LEMMA NoPairsIsEmpty ==
  /\ NoPairs \in FolderPairs
  /\ \A ft \in Features : NoPairs[ft] = Nothing
BY DEF NoPairs, FolderPairs

\* The pairs of a folder, each saying whose it is.
PairsOf(f) ==
  { ps \in FolderPairs : \A ft \in Features : ps[ft] # Nothing => ps[ft].folder = f /\ ps[ft].feature = ft }

LEMMA FitsFacts ==
  ASSUME DiskInv, NEW f \in ArtifactFolders, NEW feature \in Features, NEW corpus \in Corpora,
         NEW left \in PairsOf(f), NEW shapes, shapes \subseteq BOOLEAN,
         NEW fitted \in FitsOf(f, feature, corpus, left, shapes)
  PROVE  /\ fitted \in Directions /\ fitted.folder = f /\ fitted.feature = feature
         /\ fitted.revision = corpus.revision /\ fitted.role = corpus.role
<1>1. CASE \E flat \in shapes :
             fitted = [folder |-> f, feature |-> feature, revision |-> corpus.revision, role |-> corpus.role,
                       flat |-> flat, baked |-> FALSE, by |-> writes]
  BY <1>1 DEF Directions, Corpora, DiskInv
<1>2. CASE fitted = left[feature] /\ fitted # Nothing /\ fitted.revision = corpus.revision /\ fitted.role = corpus.role
  BY <1>2 DEF PairsOf, FolderPairs
<1> QED BY <1>1, <1>2 DEF FitsOf

LEMMA PublishHolds ==
  ASSUME DiskInv, HeldInv, CopiesInv, NEW f \in ArtifactFolders, NEW corpus \in Corpora, NEW left \in PairsOf(f),
         NEW fitted \in Directions, fitted.folder = f, fitted.revision = corpus.revision,
         Publish(f, corpus, left, fitted), writes' \in Nat, UNCHANGED <<overtaken, registers, changing>>,
         \A gt \in Features : gt # fitted.feature =>
           \/ <<f, gt>> \in unswept'
           \/ /\ <<f, gt>> \notin unswept
              /\ pairs[f][gt] = Nothing \/ (left[gt] = pairs[f][gt] /\ corpus.revision = corpora[f].revision),
         \A g \in ArtifactFolders, gt \in Features : g # f => (<<g, gt>> \in unswept' <=> <<g, gt>> \in unswept)
  PROVE  /\ DiskInv' /\ HeldInv' /\ CopiesInv'
         /\ corpora'[f] = corpus /\ pairs'[f][fitted.feature] = fitted
         /\ \A gt \in Features : gt # fitted.feature => pairs'[f][gt] = left[gt]
         /\ \A g \in ArtifactFolders : g # f => pairs'[g] = pairs[g] /\ corpora'[g] = corpora[g]
<1> DEFINE ps == [left EXCEPT ![fitted.feature] = fitted]
<1>1. /\ corpora' = [corpora EXCEPT ![f] = corpus] /\ pairs' = [pairs EXCEPT ![f] = ps]
      /\ adopt_fitted(fitted) /\ invalidate_analytics
  BY DEF Publish
<1>2. fitted.feature \in Features /\ left \in FolderPairs BY DEF Directions, PairsOf
<1>3. /\ ps \in FolderPairs /\ ps[fitted.feature] = fitted
      /\ \A gt \in Features : gt # fitted.feature => ps[gt] = left[gt]
  BY <1>2 DEF FolderPairs
<1> HIDE DEF ps
<1>4. /\ corpora' \in [ArtifactFolders -> Authoring] /\ corpora'[f] = corpus
      /\ pairs' \in [ArtifactFolders -> FolderPairs] /\ pairs'[f] = ps
      /\ \A g \in ArtifactFolders : g # f => pairs'[g] = pairs[g] /\ corpora'[g] = corpora[g]
  BY <1>1, <1>3 DEF DiskInv, Authoring
<1>5. corpus # Nothing BY RegistryAssumption
<1>6. DiskInv'
  <2>1. \A ft \in Features : pairs'[f][ft] # Nothing =>
          corpora'[f] # Nothing /\ pairs'[f][ft].folder = f /\ pairs'[f][ft].feature = ft
    BY <1>2, <1>3, <1>4, <1>5 DEF PairsOf
  <2>2. registers' \in Nat /\ changing' \in Nat BY DEF DiskInv
  <2> QED BY <2>1, <2>2, <1>4, FolderHolds
<1>7. \A g \in ArtifactFolders, gt \in Features : Elsewhere(f, fitted.feature, g, gt) => AsItWas(g, gt)
  <2> SUFFICES ASSUME NEW g \in ArtifactFolders, NEW gt \in Features, Elsewhere(f, fitted.feature, g, gt)
               PROVE  AsItWas(g, gt)
    OBVIOUS
  <2>1. CASE g # f BY <2>1, <1>4 DEF AsItWas
  <2>2. CASE g = f /\ gt # fitted.feature BY <2>2, <1>3, <1>4 DEF AsItWas
  <2> QED BY <2>1, <2>2 DEF Elsewhere
<1>8. HeldInv'
  <2>1. f # Nothing BY RegistryAssumption
  <2> QED BY <2>1, <1>1, <1>3, <1>4, <1>7, AdoptHolds
<1>9. CopiesInv' BY <1>1, Invalidated
<1> QED BY <1>3, <1>4, <1>6, <1>8, <1>9

\* What is adopted replaces what was held; nothing else is.
LEMMA AdoptAdds ==
  ASSUME NEW fitted, adopt_fitted(fitted)
  PROVE  /\ \A k \in DOMAIN manifolds' :
              k \in DOMAIN manifolds /\ (manifolds'[k] = manifolds[k] \/ manifolds'[k].of = fitted)
         /\ \A k \in DOMAIN profiles' :
              k \in DOMAIN profiles /\ (profiles'[k] = profiles[k] \/ profiles'[k] = fitted)
         /\ \A k \in DOMAIN folds' : \A ray \in folds'[k] :
              (k \in DOMAIN folds /\ ray \in folds[k]) \/ ray.of = fitted
<1> DEFINE f == fitted.folder
           ft == fitted.feature
           foldKeys == Reading(folds, f, ft)
           F == IF fitted.flat THEN Refolded(foldKeys, fitted) ELSE Drop(folds, foldKeys)
<1>1. /\ manifolds' = PutAll(manifolds, Reading(manifolds, f, ft), Object(fitted))
      /\ profiles' = (IF fitted.flat THEN PutAll(profiles, Reading(profiles, f, ft), fitted)
                      ELSE Drop(profiles, Reading(profiles, f, ft)))
      /\ folds' = Alive(F, probes')
  BY DEF adopt_fitted, is_foldable_vector_manifold, folded_directions
<1>2. Object(fitted).of = fitted /\ \A k : Ray(k, fitted).of = fitted BY DEF Object, Ray
<1>3. Reading(manifolds, f, ft) \subseteq DOMAIN manifolds /\ Reading(profiles, f, ft) \subseteq DOMAIN profiles
  BY DEF Reading
<1>4. \A k \in DOMAIN manifolds' : k \in DOMAIN manifolds /\ (manifolds'[k] = manifolds[k] \/ manifolds'[k].of = fitted)
  BY <1>1, <1>2, <1>3 DEF PutAll
<1>5. \A k \in DOMAIN profiles' : k \in DOMAIN profiles /\ (profiles'[k] = profiles[k] \/ profiles'[k] = fitted)
  BY <1>1, <1>3 DEF PutAll, Drop
<1>6. \A k \in DOMAIN folds' : k \in DOMAIN F /\ folds'[k] \subseteq F[k] BY <1>1 DEF Alive
<1>7. \A k \in DOMAIN F : k \in DOMAIN folds /\ (F[k] = {Ray(k, fitted)} \/ F[k] = folds[k])
  BY DEF Refolded, Drop
<1> HIDE DEF F
<1> QED BY <1>2, <1>4, <1>5, <1>6, <1>7

LEMMA FitHolds ==
  ASSUME RegistryInv, NEW f \in ArtifactFolders, NEW feature \in Features, FitFolder(f, feature)
  PROVE  RegistryInv'
<1>0. DiskInv /\ HeldInv /\ CopiesInv /\ AttachInv /\ RouteInv BY DEF RegistryInv
<1>1. /\ writes' = writes + 1 /\ corpora[f] # Nothing /\ unswept' = unswept \ {<<f, feature>>}
      /\ UNCHANGED <<overtaken, registers, changing, route, attaching>> /\ route = Nothing /\ attaching = Nothing
      /\ \E fitted \in FitsOf(f, feature, corpora[f], pairs[f], BOOLEAN) : Publish(f, corpora[f], pairs[f], fitted)
  BY DEF FitFolder, Free, Exclusive, Writing
<1>2. PICK fitted \in FitsOf(f, feature, corpora[f], pairs[f], BOOLEAN) : Publish(f, corpora[f], pairs[f], fitted)
  BY <1>1
<1>3. corpora[f] \in Corpora /\ pairs[f] \in PairsOf(f) BY <1>0, <1>1 DEF DiskInv, Authoring, PairsOf
<1>4. /\ fitted \in Directions /\ fitted.folder = f /\ fitted.feature = feature
      /\ fitted.revision = corpora[f].revision
  BY <1>0, <1>3, FitsFacts
<1>5. writes' \in Nat BY <1>0, <1>1 DEF DiskInv
<1>6. DiskInv' /\ HeldInv' /\ CopiesInv' BY <1>0, <1>1, <1>2, <1>3, <1>4, <1>5, PublishHolds
<1>7. AttachInv' /\ RouteInv' BY <1>1 DEF AttachInv, RouteInv
<1> QED BY <1>6, <1>7 DEF RegistryInv

LEMMA VectorHolds ==
  ASSUME DiskInv, HeldInv, CopiesInv, NEW f \in ArtifactFolders, NEW feature \in Features,
         NEW role \in BOOLEAN, NEW force \in BOOLEAN, NEW fitted,
         author_and_fit_vector(f, feature, role, force, fitted), UNCHANGED <<overtaken, registers, changing>>
  PROVE  /\ DiskInv' /\ HeldInv' /\ CopiesInv'
         /\ fitted \in Directions /\ fitted.folder = f /\ fitted.feature = feature
         /\ pairs'[f][feature] = fitted /\ corpora'[f] # Nothing
         /\ fitted.revision = corpora'[f].revision /\ fitted.role = corpora'[f].role /\ fitted.role = role
         /\ \A g \in ArtifactFolders : g # f => pairs'[g] = pairs[g] /\ corpora'[g] = corpora[g]
         /\ ~force /\ corpora[f] # Nothing =>
              corpora'[f] = corpora[f] /\ \A gt \in Features : gt # feature => pairs'[f][gt] = pairs[f][gt]
<1> DEFINE corpus == Authored(f, role, force)
           left == Left(f, force)
           shapes == IF force \/ corpora[f] = Nothing THEN {TRUE} ELSE BOOLEAN
<1>1. /\ writes' = writes + 1 /\ corpus.role = role /\ fitted \in FitsOf(f, feature, corpus, left, shapes)
      /\ Publish(f, corpus, left, fitted) /\ unswept' = Unmoved(f, force) \ {<<f, feature>>}
  BY DEF author_and_fit_vector, Writing
<1>2. corpus \in Corpora /\ left \in PairsOf(f)
  BY NoPairsIsEmpty DEF Authored, Left, DiskInv, Authoring, Corpora, PairsOf
<1>3. shapes \subseteq BOOLEAN OBVIOUS
<1>4. /\ ~force /\ corpora[f] # Nothing => corpus = corpora[f] /\ left = pairs[f] /\ unswept' = unswept \ {<<f, feature>>}
      /\ force /\ corpora[f] # Nothing => \A gt \in Features : gt # feature => <<f, gt>> \in unswept'
      /\ corpora[f] = Nothing => unswept' = unswept \ {<<f, feature>>} /\ \A gt \in Features : pairs[f][gt] = Nothing
      /\ \A g \in ArtifactFolders, gt \in Features : g # f => (<<g, gt>> \in unswept' <=> <<g, gt>> \in unswept)
  BY <1>1 DEF Authored, Left, Unmoved, OfFolder, DiskInv
<1> HIDE DEF corpus, left, shapes
<1>5. /\ fitted \in Directions /\ fitted.folder = f /\ fitted.feature = feature
      /\ fitted.revision = corpus.revision /\ fitted.role = corpus.role
  BY <1>1, <1>2, <1>3, FitsFacts
<1>6. \A gt \in Features : gt # fitted.feature =>
        \/ <<f, gt>> \in unswept'
        \/ /\ <<f, gt>> \notin unswept
           /\ pairs[f][gt] = Nothing \/ (left[gt] = pairs[f][gt] /\ corpus.revision = corpora[f].revision)
  BY <1>4, <1>5
<1>7. writes' \in Nat BY <1>1 DEF DiskInv
<1>8. /\ DiskInv' /\ HeldInv' /\ CopiesInv'
      /\ corpora'[f] = corpus /\ pairs'[f][fitted.feature] = fitted
      /\ \A gt \in Features : gt # fitted.feature => pairs'[f][gt] = left[gt]
      /\ \A g \in ArtifactFolders : g # f => pairs'[g] = pairs[g] /\ corpora'[g] = corpora[g]
  BY <1>1, <1>2, <1>4, <1>5, <1>6, <1>7, PublishHolds
<1>9. corpus # Nothing BY <1>2, RegistryAssumption
<1> QED BY <1>1, <1>4, <1>5, <1>8, <1>9

LEMMA KeysFeature ==
  ASSUME NEW key \in ArtifactKeys
  PROVE  FeatureOf(key) \in Features /\ (key.variant = "role") \in BOOLEAN
BY DEF FeatureOf, ArtifactKeys, Features

\* A request to extract holds the session lock and the exclusive section.
LEMMA ExtractHolds ==
  ASSUME RegistryInv, NEW key \in Keys, NEW f \in ArtifactFolders, extract_profile(key, f) PROVE RegistryInv'
<1>0. DiskInv /\ HeldInv /\ CopiesInv /\ AttachInv /\ RouteInv BY DEF RegistryInv
<1> DEFINE role == key.variant = "role"
           feature == FeatureOf(key)
<1>1. key \in ArtifactKeys /\ feature \in Features /\ role \in BOOLEAN BY RegistryAssumption, KeysFeature
<1>2. /\ UNCHANGED <<overtaken, registers, changing, attaching>> /\ attaching = Nothing
      /\ key.name = f[2] /\ (key.ns = Bare \/ key.ns = f[1])
      /\ \E force \in BOOLEAN :
         \E fitted \in FitsOf(f, feature, Authored(f, role, force), Left(f, force), BOOLEAN) :
           /\ author_and_fit_vector(f, feature, role, force, fitted)
           /\ route' = IF is_foldable_vector_manifold(fitted)
                       THEN [kind |-> "extract", name |-> key, of |-> fitted] ELSE Nothing
  BY DEF extract_profile, Extracts, Exclusive
<1>8. PICK force \in BOOLEAN :
        \E fitted \in FitsOf(f, feature, Authored(f, role, force), Left(f, force), BOOLEAN) :
          /\ author_and_fit_vector(f, feature, role, force, fitted)
          /\ route' = Nothing \/ route' = [kind |-> "extract", name |-> key, of |-> fitted]
  BY <1>2
<1>3. PICK fitted :
        /\ author_and_fit_vector(f, feature, role, force, fitted)
        /\ route' = Nothing \/ route' = [kind |-> "extract", name |-> key, of |-> fitted]
  BY <1>8
<1>4. artifact_key_matches(key, f, feature) BY <1>2 DEF artifact_key_matches, FeatureOf
<1> HIDE DEF role, feature
<1>5. /\ DiskInv' /\ HeldInv' /\ CopiesInv'
      /\ fitted \in Directions /\ fitted.folder = f /\ fitted.feature = feature
      /\ pairs'[f][feature] = fitted
      /\ fitted.revision = corpora'[f].revision /\ fitted.role = corpora'[f].role
  BY <1>0, <1>1, <1>2, <1>3, VectorHolds
<1>6. AttachInv' BY <1>2 DEF AttachInv
<1>7. RouteInv'
  <2>1. CASE route' = Nothing BY <2>1 DEF RouteInv
  <2>2. CASE route' = [kind |-> "extract", name |-> key, of |-> fitted]
    <3>1. route'.kind = "extract" /\ route'.name = key /\ route'.of = fitted BY <2>2
    <3>2. f # Nothing BY RegistryAssumption
    <3> QED BY <3>1, <3>2, <1>4, <1>5 DEF RouteInv
  <2> QED BY <2>1, <2>2, <1>3
<1> QED BY <1>5, <1>6, <1>7 DEF RegistryInv

\* What is held stays when every feature space is as it was or known not to be.
LEMMA AllStays ==
  ASSUME HeldInv, AttachInv, UNCHANGED <<manifolds, profiles, folds, probes, overtaken, attaching>>,
         \A g \in ArtifactFolders, gt \in Features : AsItWas(g, gt)
  PROVE  HeldInv' /\ AttachInv'
<1>1. \A d \in Directions : d.folder # Nothing => AsItWas(d.folder, d.feature) BY DEF Directions
<1>2. HeldInv'
  <2>1. \A k \in DOMAIN manifolds : manifolds[k].of \in Directions /\ manifolds[k].of.folder # Nothing
    BY DEF HeldInv, ManifoldsInv, ReadsAs
  <2>2. \A k \in DOMAIN profiles : profiles[k] \in Directions BY DEF HeldInv, ProfilesInv, ReadsAs
  <2>3. \A k \in DOMAIN folds : \A ray \in folds[k] : ray.of \in Directions BY DEF HeldInv, FoldsInv, ReadsAs
  <2> QED BY <2>1, <2>2, <2>3, <1>1, HeldStays
<1>3. AttachInv'
  <2> SUFFICES ASSUME attaching # Nothing
               PROVE  /\ attaching.key \in ArtifactKeys
                      /\ ReadsAs(attaching.key, attaching.of, pairs', corpora', unswept')
                      /\ attaching.key \in DOMAIN profiles /\ profiles[attaching.key].folder = Nothing =>
                           attaching.key \in overtaken
    BY DEF AttachInv
  <2>1. ReadsAs(attaching.key, attaching.of, pairs, corpora, unswept) BY DEF AttachInv
  <2>2. attaching.of \in Directions BY <2>1 DEF ReadsAs
  <2> QED BY <2>1, <2>2, <1>1, StaysRead DEF AttachInv
<1> QED BY <1>2, <1>3

LEMMA ExtractFailsHolds ==
  ASSUME RegistryInv, NEW key \in Keys, NEW f \in ArtifactFolders, ExtractFails(key, f) PROVE RegistryInv'
<1>0. DiskInv /\ HeldInv /\ CopiesInv /\ AttachInv /\ RouteInv BY DEF RegistryInv
<1>1. /\ writes' = writes + 1 /\ route = Nothing
      /\ UNCHANGED <<manifolds, profiles, folds, probes, overtaken, registers>>
      /\ UNCHANGED <<analytics, changing, poll, route, attaching>>
      /\ \E force \in BOOLEAN :
           /\ corpora' = [corpora EXCEPT ![f] = Authored(f, key.variant = "role", force)]
           /\ pairs' = [pairs EXCEPT ![f] = Left(f, force)]
           /\ unswept' = Unmoved(f, force)
  BY DEF ExtractFails, Extracts, Free, Writing, heldVars, copyVars
<1>2. PICK force \in BOOLEAN :
        /\ corpora' = [corpora EXCEPT ![f] = Authored(f, key.variant = "role", force)]
        /\ pairs' = [pairs EXCEPT ![f] = Left(f, force)]
        /\ unswept' = Unmoved(f, force)
  BY <1>1
<1> DEFINE corpus == Authored(f, key.variant = "role", force)
           left == Left(f, force)
<1>3. corpus \in Corpora /\ left \in PairsOf(f)
  BY <1>0, NoPairsIsEmpty DEF Authored, Left, DiskInv, Authoring, Corpora, PairsOf
<1>4. /\ ~force /\ corpora[f] # Nothing => corpus = corpora[f] /\ left = pairs[f]
      /\ force /\ corpora[f] # Nothing => \A gt \in Features : <<f, gt>> \in unswept'
      /\ ~(force /\ corpora[f] # Nothing) => unswept' = unswept
      /\ corpora[f] = Nothing => \A gt \in Features : pairs[f][gt] = Nothing
      /\ \A g \in ArtifactFolders, gt \in Features : <<g, gt>> \in unswept => <<g, gt>> \in unswept'
      /\ \A g \in ArtifactFolders, gt \in Features : g # f => (<<g, gt>> \in unswept' <=> <<g, gt>> \in unswept)
  BY <1>0, <1>2 DEF Authored, Left, Unmoved, OfFolder, DiskInv
<1>5. corpora' = [corpora EXCEPT ![f] = corpus] /\ pairs' = [pairs EXCEPT ![f] = left] BY <1>2
<1> HIDE DEF corpus, left
<1>6. corpus # Nothing /\ left \in FolderPairs BY <1>3, RegistryAssumption DEF PairsOf
<1>7. /\ corpora' \in [ArtifactFolders -> Authoring] /\ corpora'[f] = corpus
      /\ pairs' \in [ArtifactFolders -> FolderPairs] /\ pairs'[f] = left
      /\ \A g \in ArtifactFolders : g # f => pairs'[g] = pairs[g] /\ corpora'[g] = corpora[g]
  BY <1>0, <1>3, <1>5, <1>6 DEF DiskInv, Authoring
<1>8. DiskInv'
  <2>1. \A ft \in Features : pairs'[f][ft] # Nothing =>
          corpora'[f] # Nothing /\ pairs'[f][ft].folder = f /\ pairs'[f][ft].feature = ft
    BY <1>3, <1>6, <1>7 DEF PairsOf
  <2>2. writes' \in Nat /\ registers' \in Nat /\ changing' \in Nat BY <1>0, <1>1 DEF DiskInv
  <2> QED BY <2>1, <2>2, <1>0, <1>7, FolderHolds
<1>9. \A g \in ArtifactFolders, gt \in Features : AsItWas(g, gt) BY <1>4, <1>7 DEF AsItWas
<1>10. HeldInv' /\ AttachInv' BY <1>0, <1>1, <1>9, AllStays
<1>11. CopiesInv' BY <1>0, <1>1 DEF CopiesInv, StillHeld
<1>12. RouteInv' BY <1>1 DEF RouteInv
<1> QED BY <1>8, <1>10, <1>11, <1>12 DEF RegistryInv

(***************************************************************************)
(* A probe whose direction is extracted.                                   *)
(***************************************************************************)

\* The fit an extraction ends with is not replaced by a probe of its concept: it would
\* have been loaded.
LEMMA ExtractedStays ==
  ASSUME RegistryInv, NEW key \in Keys, AttachExtracts(key), route # Nothing, route.kind = "extract"
  PROVE  /\ pairs'[route.of.folder][route.of.feature] = route.of
         /\ corpora'[route.of.folder] = corpora[route.of.folder]
<1> DEFINE d == route.of
<1>0. DiskInv /\ HeldInv /\ CopiesInv /\ RouteInv BY DEF RegistryInv
<1>1. /\ d \in Directions /\ d.folder # Nothing /\ pairs[d.folder][d.feature] = d
      /\ d.revision = corpora[d.folder].revision /\ d.role = corpora[d.folder].role
  BY <1>0 DEF RouteInv
<1> HIDE DEF d
<1>2. d.folder \in ArtifactFolders /\ d.feature \in Features /\ d # Nothing
  BY <1>1, RegistryAssumption DEF Directions
<1>3. corpora[d.folder] # Nothing BY <1>0, <1>1, <1>2 DEF DiskInv
<1>4. /\ key.ns = Bare /\ key.variant = "raw" /\ ~Loadable(key) /\ \A f, g \in Matches(key) : f = g
      /\ UNCHANGED <<overtaken, registers, changing>>
  BY DEF AttachExtracts
<1>13. PICK f \in ArtifactFolders : \E fitted \in FitsOf(f, "raw", Authored(f, FALSE, FALSE), Left(f, FALSE), BOOLEAN) :
         resolve_extraction_target(key.name, f) /\ author_and_fit_vector(f, "raw", FALSE, FALSE, fitted)
  BY DEF AttachExtracts
<1>5. PICK fitted : resolve_extraction_target(key.name, f) /\ author_and_fit_vector(f, "raw", FALSE, FALSE, fitted)
  BY <1>13
<1> DEFINE no == FALSE
<1>6. "raw" \in Features /\ no \in BOOLEAN /\ no = FALSE BY DEF Features
<1>11. author_and_fit_vector(f, "raw", no, no, fitted) BY <1>5
<1> HIDE DEF no
<1>12. /\ fitted.role = corpora'[f].role /\ fitted.role = no
       /\ \A g \in ArtifactFolders : g # f => pairs'[g] = pairs[g] /\ corpora'[g] = corpora[g]
       /\ ~no /\ corpora[f] # Nothing =>
            corpora'[f] = corpora[f] /\ \A gt \in Features : gt # "raw" => pairs'[f][gt] = pairs[f][gt]
  BY <1>0, <1>4, <1>6, <1>11, VectorHolds
<1>7. /\ fitted.role = corpora'[f].role /\ fitted.role = FALSE
      /\ \A g \in ArtifactFolders : g # f => pairs'[g] = pairs[g] /\ corpora'[g] = corpora[g]
      /\ corpora[f] # Nothing =>
           corpora'[f] = corpora[f] /\ \A gt \in Features : gt # "raw" => pairs'[f][gt] = pairs[f][gt]
  BY <1>6, <1>12
<1>8. CASE d.folder # f BY <1>1, <1>2, <1>7, <1>8 DEF d
<1>9. CASE d.folder = f /\ d.feature # "raw" BY <1>1, <1>2, <1>3, <1>7, <1>9 DEF d
<1>10. ASSUME d.folder = f, d.feature = "raw" PROVE FALSE
  <2>1. d.role = FALSE BY <1>1, <1>3, <1>7, <1>10
  <2>2. f[2] = key.name
    <3>1. f \in { g \in ArtifactFolders : g[2] = key.name /\ corpora[g] # Nothing } \/ f = <<"local", key.name>>
      BY <1>5 DEF resolve_extraction_target
    <3> QED BY <3>1
  <2>3. FeatureOf(key) = "raw" BY <1>4 DEF FeatureOf
  <2>4. f \in Matches(key) BY <2>2, <2>3, <1>1, <1>2, <1>4, <1>10 DEF Matches
  <2>5. Matches(key) = {f} BY <2>4, <1>4
  <2>6. Admits(key, pairs[f]["raw"]) BY <2>1, <1>1, <1>3, <1>4, <1>10 DEF Admits
  <2> QED BY <2>3, <2>5, <2>6, <1>4 DEF Loadable
<1> QED BY <1>8, <1>9, <1>10

LEMMA AttachExtractsHolds ==
  ASSUME RegistryInv, NEW key \in Keys, AttachExtracts(key) PROVE RegistryInv'
<1>0. DiskInv /\ HeldInv /\ CopiesInv /\ AttachInv /\ RouteInv BY DEF RegistryInv
<1>1. /\ key.ns = Bare /\ key.variant = "raw" /\ key \notin DOMAIN profiles /\ attaching = Nothing
      /\ UNCHANGED <<overtaken, registers, changing>>
  BY DEF AttachExtracts, Exclusive
<1>10. PICK f \in ArtifactFolders : \E fitted \in FitsOf(f, "raw", Authored(f, FALSE, FALSE), Left(f, FALSE), BOOLEAN) :
         /\ resolve_extraction_target(key.name, f) /\ author_and_fit_vector(f, "raw", FALSE, FALSE, fitted)
         /\ attaching' = Nothing \/ attaching' = [key |-> key, of |-> fitted]
         /\ Noted(fitted)
  BY DEF AttachExtracts
<1>2. PICK fitted :
        /\ resolve_extraction_target(key.name, f) /\ author_and_fit_vector(f, "raw", FALSE, FALSE, fitted)
        /\ attaching' = Nothing \/ attaching' = [key |-> key, of |-> fitted]
        /\ Noted(fitted)
  BY <1>10
<1> DEFINE no == FALSE
<1>3. key \in ArtifactKeys /\ "raw" \in Features /\ no \in BOOLEAN BY RegistryAssumption DEF Features
<1>9. author_and_fit_vector(f, "raw", no, no, fitted) BY <1>2
<1> HIDE DEF no
<1>4. /\ DiskInv' /\ HeldInv' /\ CopiesInv'
      /\ fitted \in Directions /\ fitted.folder = f /\ fitted.feature = "raw"
      /\ pairs'[f]["raw"] = fitted /\ corpora'[f] # Nothing /\ fitted.revision = corpora'[f].revision
      /\ \A g \in ArtifactFolders : g # f => pairs'[g] = pairs[g] /\ corpora'[g] = corpora[g]
  BY <1>0, <1>1, <1>3, <1>9, VectorHolds
<1>5. adopt_fitted(fitted) BY <1>2 DEF author_and_fit_vector, Publish
<1>6. f[2] = key.name
  <2>1. f \in { g \in ArtifactFolders : g[2] = key.name /\ corpora[g] # Nothing } \/ f = <<"local", key.name>>
    BY <1>2 DEF resolve_extraction_target
  <2> QED BY <2>1
<1>7. AttachInv'
  <2>1. CASE attaching' = Nothing BY <2>1 DEF AttachInv
  <2>2. CASE attaching' = [key |-> key, of |-> fitted]
    <3>1. attaching'.key = key /\ attaching'.of = fitted BY <2>2
    <3>2. artifact_key_matches(key, f, "raw") BY <1>1, <1>6 DEF artifact_key_matches
    <3>3. ReadsAs(key, fitted, pairs', corpora', unswept') BY <3>2, <1>4 DEF ReadsAs
    <3>4. key \notin DOMAIN profiles' BY <1>1, <1>5, AdoptAdds
    <3> QED BY <3>1, <3>3, <3>4, <1>3 DEF AttachInv
  <2> QED BY <2>1, <2>2, <1>2
<1>8. RouteInv'
  <2>1. CASE route = Nothing
    <3>1. route' = Nothing BY <2>1, <1>2 DEF Noted
    <3> QED BY <3>1 DEF RouteInv
  <2>2. CASE route # Nothing /\ route.kind = "rewrite"
    <3>1. route' = route BY <2>2, <1>2 DEF Noted
    <3> QED BY <3>1, <2>2, <1>0, <1>4 DEF RouteInv
  <2>3. CASE route # Nothing /\ route.kind = "extract"
    <3>1. route' = route BY <2>3, <1>2 DEF Noted
    <3> QED BY <3>1, <2>3, <1>0, ExtractedStays DEF RouteInv
  <2>4. CASE route # Nothing /\ route.kind = "removal"
    <3>1. route.folder \in ArtifactFolders /\ HeldIn(route.folder, route.reloaded) BY <2>4, <1>0 DEF RouteInv
    <3>2. /\ route'.kind = "removal" /\ route'.folder = route.folder
          /\ route.reloaded \subseteq route'.reloaded
          /\ fitted.folder = route.folder => fitted.feature \in route'.reloaded
      BY <2>4, <1>2 DEF Noted
    <3>3. attaching' # Nothing => attaching'.of = fitted BY <1>2
    <3>4. HeldIn(route.folder, route.reloaded)' BY <3>1, <3>2, <3>3, <1>5, AdoptAdds DEF HeldIn
    <3> QED BY <3>1, <3>2, <3>4 DEF RouteInv
  <2>5. CASE route # Nothing /\ route.kind \notin {"rewrite", "extract", "removal"}
    <3>1. route' = route BY <2>5, <1>2 DEF Noted
    <3> QED BY <3>1, <2>5 DEF RouteInv
  <2> QED BY <2>1, <2>2, <2>3, <2>4, <2>5
<1> QED BY <1>4, <1>7, <1>8 DEF RegistryInv

LEMMA AttachEndsHolds ==
  ASSUME RegistryInv, AttachEnds PROVE RegistryInv'
<1>0. DiskInv /\ HeldInv /\ CopiesInv /\ AttachInv /\ RouteInv BY DEF RegistryInv
<1>00. ManifoldsInv /\ ProfilesInv /\ FoldsInv /\ ProbesInv BY <1>0 DEF HeldInv
<1> DEFINE key == attaching.key
           probe == Ray(key, attaching.of)
<1>1. /\ attaching # Nothing /\ attaching' = Nothing /\ changing' = changing + 1
      /\ folds' = Put(folds, key, {probe} \cup IF key \in DOMAIN folds THEN folds[key] ELSE {})
      /\ probes' = Put(probes, key, probe)
      /\ UNCHANGED <<corpora, pairs, unswept, writes, manifolds, profiles, overtaken, registers>>
      /\ UNCHANGED <<analytics, poll, route>>
  BY DEF AttachEnds, Unannounced, diskVars
<1>2. probe.key = key /\ probe.of = attaching.of BY DEF Ray
<1>3. /\ key \in ArtifactKeys /\ ReadsAs(key, attaching.of, pairs, corpora, unswept)
      /\ key \in DOMAIN profiles /\ profiles[key].folder = Nothing => key \in overtaken
  BY <1>0, <1>1 DEF AttachInv
<1> HIDE DEF key, probe
<1>4. /\ DOMAIN folds' = DOMAIN folds \cup {key} /\ probe \in folds'[key]
      /\ \A k \in DOMAIN folds : k # key => folds'[k] = folds[k]
      /\ \A ray \in folds'[key] : ray = probe \/ (key \in DOMAIN folds /\ ray \in folds[key])
      /\ \A k \in DOMAIN folds : folds[k] \subseteq folds'[k]
      /\ DOMAIN probes' = DOMAIN probes \cup {key} /\ probes'[key] = probe
      /\ \A n \in DOMAIN probes : n # key => probes'[n] = probes[n]
  BY <1>1 DEF Put
<1>5. DiskInv' BY <1>0, <1>1 DEF DiskInv
<1>6. ManifoldsInv' /\ ProfilesInv' BY <1>00, <1>1 DEF ManifoldsInv, ProfilesInv
<1>7. FoldsInv'
  <2> SUFFICES ASSUME NEW k \in DOMAIN folds'
               PROVE  k \in ArtifactKeys /\ \A ray \in folds'[k] :
                        /\ ray.key = k /\ ReadsAs(k, ray.of, pairs, corpora, unswept)
                        /\ k \in DOMAIN profiles /\ profiles[k].folder = Nothing =>
                             k \in overtaken \/ ray.of = profiles[k]
    BY <1>1 DEF FoldsInv
  <2>1. CASE k # key BY <2>1, <1>4, <1>00 DEF FoldsInv
  <2>2. CASE k = key BY <2>2, <1>2, <1>3, <1>4, <1>00 DEF FoldsInv
  <2> QED BY <2>1, <2>2
<1>8. ProbesInv'
  <2> SUFFICES ASSUME NEW n \in DOMAIN probes'
               PROVE  \/ \E k \in DOMAIN manifolds : probes'[n] = manifolds[k]
                      \/ n \in DOMAIN folds' /\ probes'[n] \in folds'[n]
    BY <1>1 DEF ProbesInv
  <2>1. CASE n = key BY <2>1, <1>4
  <2>2. CASE n # key BY <2>2, <1>4, <1>00 DEF ProbesInv
  <2> QED BY <2>1, <2>2
<1>9. CopiesInv'
  <2>1. changing' # 0 BY <1>0, <1>1 DEF DiskInv
  <2> QED BY <2>1, <1>0, <1>1, Announced
<1>10. AttachInv' BY <1>1 DEF AttachInv
<1>11. RouteInv'
  <2>1. ASSUME NEW f, NEW features, HeldIn(f, features) PROVE HeldIn(f, features)'
    <3>1. \A k \in DOMAIN folds' : \A ray \in folds'[k] :
            (k \in DOMAIN folds /\ ray \in folds[k]) \/ ray.of = attaching.of
      BY <1>2, <1>4
    <3> QED BY <3>1, <2>1, <1>1 DEF HeldIn
  <2> QED BY <2>1, <1>0, <1>1 DEF RouteInv
<1> QED BY <1>5, <1>6, <1>7, <1>8, <1>9, <1>10, <1>11 DEF RegistryInv, HeldInv

(***************************************************************************)
(* Folders replaced and removed.                                           *)
(***************************************************************************)

LEMMA FitFailsHolds ==
  ASSUME RegistryInv, NEW f \in ArtifactFolders, NEW feature \in Features, FitFails(f, feature)
  PROVE  RegistryInv'
<1>0. DiskInv /\ HeldInv /\ CopiesInv /\ AttachInv /\ RouteInv BY DEF RegistryInv
<1>1. /\ evict_artifact(f, feature) /\ invalidate_analytics /\ unswept' = unswept \ {<<f, feature>>}
      /\ UNCHANGED <<corpora, pairs, writes, overtaken, registers, changing, route, attaching>>
      /\ route = Nothing /\ attaching = Nothing
  BY DEF FitFails, Free, Exclusive
<1>2. DiskInv' BY <1>0, <1>1 DEF DiskInv
<1>3. feature # Nothing BY RegistryAssumption
<1>4. \A g \in ArtifactFolders, gt \in Features : Elsewhere(f, feature, g, gt) => AsItWas(g, gt)
  BY <1>1, <1>3 DEF Elsewhere, AsItWas
<1>5. HeldInv' BY <1>0, <1>1, <1>4, EvictHolds
<1>6. CopiesInv' BY <1>0, <1>1, Invalidated
<1>7. AttachInv' /\ RouteInv' BY <1>1 DEF AttachInv, RouteInv
<1> QED BY <1>2, <1>5, <1>6, <1>7 DEF RegistryInv

LEMMA RewriteHolds ==
  ASSUME RegistryInv, NEW f \in ArtifactFolders, RewriteFolder(f) PROVE RegistryInv'
<1>0. DiskInv /\ HeldInv /\ CopiesInv /\ AttachInv /\ RouteInv BY DEF RegistryInv
<1>1. PICK role \in BOOLEAN : corpora' = [corpora EXCEPT ![f] = [revision |-> writes, role |-> role]]
  BY DEF RewriteFolder
<1>2. /\ writes' = writes + 1 /\ pairs' \in { [pairs EXCEPT ![f] = NoPairs], pairs }
      /\ unswept' = unswept \cup OfFolder(f) /\ route' = [kind |-> "rewrite", folder |-> f]
      /\ UNCHANGED <<manifolds, profiles, folds, probes, overtaken, registers>>
      /\ UNCHANGED <<analytics, changing, poll, attaching>>
  BY DEF RewriteFolder, Writing, heldVars, copyVars
<1> DEFINE c == [revision |-> writes, role |-> role]
<1>3. c \in Corpora /\ c # Nothing BY <1>0, RegistryAssumption DEF Corpora, DiskInv
<1>4. PICK ps \in {NoPairs, pairs[f]} : pairs' = [pairs EXCEPT ![f] = ps]
  <2>1. pairs = [pairs EXCEPT ![f] = pairs[f]] BY <1>0 DEF DiskInv
  <2> QED BY <2>1, <1>2
<1>5. /\ ps \in FolderPairs
      /\ \A ft \in Features : ps[ft] # Nothing => ps[ft].folder = f /\ ps[ft].feature = ft
  BY <1>0, <1>4, NoPairsIsEmpty DEF DiskInv
<1>6. writes' \in Nat /\ registers' \in Nat /\ changing' \in Nat BY <1>0, <1>2 DEF DiskInv
<1>7. corpora' = [corpora EXCEPT ![f] = c] BY <1>1
<1> HIDE DEF c
<1>8. /\ corpora' \in [ArtifactFolders -> Authoring] /\ corpora'[f] = c
      /\ pairs' \in [ArtifactFolders -> FolderPairs] /\ pairs'[f] = ps
      /\ \A g \in ArtifactFolders : g # f => pairs'[g] = pairs[g] /\ corpora'[g] = corpora[g]
  BY <1>0, <1>3, <1>4, <1>5, <1>7 DEF DiskInv, Authoring
<1>9. DiskInv'
  <2>1. \A ft \in Features : pairs'[f][ft] # Nothing =>
          corpora'[f] # Nothing /\ pairs'[f][ft].folder = f /\ pairs'[f][ft].feature = ft
    BY <1>3, <1>5, <1>8
  <2> QED BY <2>1, <1>0, <1>6, <1>8, FolderHolds
<1>10. \A g \in ArtifactFolders, gt \in Features : AsItWas(g, gt) BY <1>2, <1>8 DEF AsItWas, OfFolder
<1>11. HeldInv' /\ AttachInv' BY <1>0, <1>2, <1>10, AllStays
<1>12. CopiesInv' BY <1>0, <1>2 DEF CopiesInv, StillHeld
<1>13. RouteInv' BY <1>2, <1>3, <1>8 DEF RouteInv
<1> QED BY <1>9, <1>11, <1>12, <1>13 DEF RegistryInv

LEMMA SweepHolds ==
  ASSUME RegistryInv, Sweep PROVE RegistryInv'
<1>0. DiskInv /\ HeldInv /\ CopiesInv /\ AttachInv /\ RouteInv BY DEF RegistryInv
<1> DEFINE f == route.folder
<1>1. /\ route # Nothing /\ route.kind = "rewrite" /\ attaching = Nothing
      /\ \/ UNCHANGED <<corpora, writes>>
         \/ writes' = writes + 1 /\ corpora' = [corpora EXCEPT ![f] = [revision |-> writes, role |-> @.role]]
      /\ evict_artifact(f, Nothing) /\ invalidate_analytics
      /\ unswept' = unswept \ OfFolder(f) /\ route' = Nothing
      /\ UNCHANGED <<pairs, overtaken, registers, changing, attaching>>
  BY DEF Sweep, Exclusive, Writing
<1>2. f \in ArtifactFolders /\ corpora[f] # Nothing BY <1>0, <1>1 DEF RouteInv
<1> HIDE DEF f
<1>3. /\ corpora' \in [ArtifactFolders -> Authoring] /\ corpora'[f] # Nothing
      /\ \A g \in ArtifactFolders : g # f => corpora'[g] = corpora[g]
      /\ writes' \in Nat
  <2>1. CASE UNCHANGED <<corpora, writes>> BY <2>1, <1>0, <1>2 DEF DiskInv
  <2>2. CASE writes' = writes + 1 /\ corpora' = [corpora EXCEPT ![f] = [revision |-> writes, role |-> @.role]]
    <3> DEFINE c == [revision |-> writes, role |-> corpora[f].role]
    <3>1. corpora[f] \in Corpora BY <1>0, <1>2 DEF DiskInv, Authoring
    <3>2. c \in Corpora BY <3>1, <1>0 DEF Corpora, DiskInv
    <3>3. corpora' = [corpora EXCEPT ![f] = c] BY <2>2
    <3> HIDE DEF c
    <3>4. c # Nothing BY <3>2, RegistryAssumption
    <3> QED BY <3>2, <3>3, <3>4, <2>2, <1>0, <1>2 DEF DiskInv, Authoring
  <2> QED BY <2>1, <2>2, <1>1
<1>4. DiskInv'
  <2>1. \A ft \in Features : pairs'[f][ft] # Nothing =>
          corpora'[f] # Nothing /\ pairs'[f][ft].folder = f /\ pairs'[f][ft].feature = ft
    BY <1>0, <1>1, <1>2, <1>3 DEF DiskInv
  <2>2. pairs' \in [ArtifactFolders -> FolderPairs] /\ registers' \in Nat /\ changing' \in Nat
    BY <1>0, <1>1 DEF DiskInv
  <2> QED BY <2>1, <2>2, <1>0, <1>1, <1>2, <1>3, FolderHolds
<1>5. \A g \in ArtifactFolders, gt \in Features : Elsewhere(f, Nothing, g, gt) => AsItWas(g, gt)
  BY <1>1, <1>3 DEF Elsewhere, AsItWas, OfFolder
<1>6. HeldInv' BY <1>0, <1>1, <1>2, <1>5, EvictHolds
<1>7. CopiesInv' BY <1>0, <1>1, Invalidated
<1>8. AttachInv' /\ RouteInv' BY <1>1 DEF AttachInv, RouteInv
<1> QED BY <1>4, <1>6, <1>7, <1>8 DEF RegistryInv

LEMMA GivesUpHolds ==
  ASSUME RegistryInv, GivesUp PROVE RegistryInv'
<1>0. DiskInv /\ HeldInv /\ CopiesInv /\ AttachInv /\ RouteInv BY DEF RegistryInv
<1>1. /\ route' = Nothing
      /\ UNCHANGED <<corpora, pairs, unswept, writes, manifolds, profiles, folds, probes, overtaken, registers>>
      /\ UNCHANGED <<analytics, changing, poll, attaching>>
  BY DEF GivesUp, diskVars, heldVars, copyVars
<1>2. DiskInv' BY <1>0, <1>1 DEF DiskInv
<1>3. HeldInv' BY <1>0, <1>1 DEF HeldInv, ManifoldsInv, ProfilesInv, FoldsInv, ProbesInv
<1>4. CopiesInv' BY <1>0, <1>1 DEF CopiesInv, StillHeld
<1>5. AttachInv' /\ RouteInv' BY <1>0, <1>1 DEF AttachInv, RouteInv
<1> QED BY <1>2, <1>3, <1>4, <1>5 DEF RegistryInv

\* Nothing of a folder is held once it is evicted: whatever is left is read by no key of it.
LEMMA EvictHoldsNone ==
  ASSUME NEW f \in ArtifactFolders, evict_artifact(f, Nothing), HeldInv', attaching' = Nothing
  PROVE  HeldIn(f, {})'
<1>1. /\ manifolds' = Drop(manifolds, Reading(manifolds, f, Nothing))
      /\ profiles' = Drop(profiles, Reading(profiles, f, Nothing))
      /\ folds' = Alive(Drop(folds, Reading(folds, f, Nothing)), probes')
  BY DEF evict_artifact, Forgotten
<1>2. /\ \A k \in DOMAIN manifolds' : ~artifact_key_matches(k, f, Nothing)
      /\ \A k \in DOMAIN profiles' : ~artifact_key_matches(k, f, Nothing)
      /\ \A k \in DOMAIN folds' : ~artifact_key_matches(k, f, Nothing)
  BY <1>1, InReading DEF Drop, Alive
<1>3. ASSUME NEW k, NEW d, ReadsAs(k, d, pairs', corpora', unswept'), d.folder = f
      PROVE  artifact_key_matches(k, f, Nothing)
  <2>1. f # Nothing BY RegistryAssumption
  <2> QED BY <2>1, <1>3 DEF ReadsAs, artifact_key_matches
<1>4. \A k \in DOMAIN manifolds' : manifolds'[k].of.folder # f BY <1>2, <1>3 DEF HeldInv, ManifoldsInv
<1>5. \A k \in DOMAIN profiles' : profiles'[k].folder # f BY <1>2, <1>3 DEF HeldInv, ProfilesInv
<1>6. \A k \in DOMAIN folds' : \A ray \in folds'[k] : ray.of.folder # f BY <1>2, <1>3 DEF HeldInv, FoldsInv
<1> QED BY <1>4, <1>5, <1>6 DEF HeldIn

LEMMA EvictFolderHolds ==
  ASSUME RegistryInv, NEW f \in ArtifactFolders, EvictFolder(f) PROVE RegistryInv'
<1>0. DiskInv /\ HeldInv /\ CopiesInv /\ AttachInv /\ RouteInv BY DEF RegistryInv
<1>1. /\ evict_artifact(f, Nothing) /\ invalidate_analytics /\ unswept' = unswept \ OfFolder(f)
      /\ route' = [kind |-> "removal", folder |-> f, reloaded |-> {}]
      /\ UNCHANGED <<corpora, pairs, writes, overtaken, registers, changing, attaching>> /\ attaching = Nothing
  BY DEF EvictFolder, Exclusive
<1>2. DiskInv' BY <1>0, <1>1 DEF DiskInv
<1>3. \A g \in ArtifactFolders, gt \in Features : Elsewhere(f, Nothing, g, gt) => AsItWas(g, gt)
  BY <1>1 DEF Elsewhere, AsItWas, OfFolder
<1>4. HeldInv' BY <1>0, <1>1, <1>3, EvictHolds
<1>5. CopiesInv' BY <1>0, <1>1, Invalidated
<1>6. AttachInv' BY <1>1 DEF AttachInv
<1>7. RouteInv'
  <2>1. route'.kind = "removal" /\ route'.folder = f /\ route'.reloaded = {} BY <1>1
  <2>2. HeldIn(f, {})' BY <1>1, <1>4, EvictHoldsNone
  <2>3. HeldIn(route.folder, route.reloaded)' BY <2>1, <2>2 DEF HeldIn
  <2> QED BY <2>1, <2>3 DEF RouteInv
<1> QED BY <1>2, <1>4, <1>5, <1>6, <1>7 DEF RegistryInv

LEMMA RemoveHolds ==
  ASSUME RegistryInv, RemoveFolder PROVE RegistryInv'
<1>0. DiskInv /\ HeldInv /\ CopiesInv /\ AttachInv /\ RouteInv BY DEF RegistryInv
<1> DEFINE f == route.folder
           features == route.reloaded
<1>1. /\ route # Nothing /\ route.kind = "removal" /\ writes' = writes + 1 /\ route' = Nothing
      /\ corpora' = [corpora EXCEPT ![f] = Nothing] /\ pairs' = [pairs EXCEPT ![f] = NoPairs]
      /\ unswept' = unswept \cup ({f} \X features)
      /\ UNCHANGED <<manifolds, profiles, folds, probes, overtaken, registers>>
      /\ UNCHANGED <<analytics, changing, poll, attaching>>
  BY DEF RemoveFolder, Writing, heldVars, copyVars
<1>2. f \in ArtifactFolders /\ HeldIn(f, features) BY <1>0, <1>1 DEF RouteInv
<1> HIDE DEF f, features
<1>3. writes' \in Nat /\ registers' \in Nat /\ changing' \in Nat BY <1>0, <1>1 DEF DiskInv
<1>4. /\ corpora' \in [ArtifactFolders -> Authoring]
      /\ pairs' \in [ArtifactFolders -> FolderPairs] /\ pairs'[f] = NoPairs
      /\ \A g \in ArtifactFolders : g # f => pairs'[g] = pairs[g] /\ corpora'[g] = corpora[g]
  BY <1>0, <1>1, <1>2, NoPairsIsEmpty DEF DiskInv, Authoring
<1>5. DiskInv'
  <2>1. \A ft \in Features : pairs'[f][ft] # Nothing =>
          corpora'[f] # Nothing /\ pairs'[f][ft].folder = f /\ pairs'[f][ft].feature = ft
    BY <1>4, NoPairsIsEmpty
  <2> QED BY <2>1, <1>0, <1>2, <1>3, <1>4, FolderHolds
<1>6. ASSUME NEW d \in Directions, d.folder # Nothing, d.folder = f => d.feature \in features
      PROVE  AsItWas(d.folder, d.feature)
  BY <1>1, <1>4, <1>6 DEF AsItWas, Directions
<1>7. HeldInv'
  <2>1. \A k \in DOMAIN manifolds : manifolds[k].of \in Directions /\ manifolds[k].of.folder # Nothing
    BY <1>0 DEF HeldInv, ManifoldsInv, ReadsAs
  <2>2. \A k \in DOMAIN profiles : profiles[k] \in Directions BY <1>0 DEF HeldInv, ProfilesInv, ReadsAs
  <2>3. \A k \in DOMAIN folds : \A ray \in folds[k] : ray.of \in Directions
    BY <1>0 DEF HeldInv, FoldsInv, ReadsAs
  <2>4. \A k \in DOMAIN manifolds : AsItWas(manifolds[k].of.folder, manifolds[k].of.feature)
    BY <2>1, <1>2, <1>6 DEF HeldIn
  <2>5. \A k \in DOMAIN profiles : profiles[k].folder # Nothing => AsItWas(profiles[k].folder, profiles[k].feature)
    BY <2>2, <1>2, <1>6 DEF HeldIn
  <2>6. \A k \in DOMAIN folds : \A ray \in folds[k] :
          ray.of.folder # Nothing => AsItWas(ray.of.folder, ray.of.feature)
    BY <2>3, <1>2, <1>6 DEF HeldIn
  <2> QED BY <2>4, <2>5, <2>6, <1>0, <1>1, HeldStays
<1>8. AttachInv'
  <2> SUFFICES ASSUME attaching # Nothing
               PROVE  /\ attaching.key \in ArtifactKeys
                      /\ ReadsAs(attaching.key, attaching.of, pairs', corpora', unswept')
                      /\ attaching.key \in DOMAIN profiles /\ profiles[attaching.key].folder = Nothing =>
                           attaching.key \in overtaken
    BY <1>1 DEF AttachInv
  <2>1. ReadsAs(attaching.key, attaching.of, pairs, corpora, unswept) BY <1>0 DEF AttachInv
  <2>2. attaching.of \in Directions BY <2>1 DEF ReadsAs
  <2>3. attaching.of.folder # Nothing => AsItWas(attaching.of.folder, attaching.of.feature)
    BY <2>2, <1>2, <1>6 DEF HeldIn
  <2> QED BY <2>1, <2>3, <1>0, StaysRead DEF AttachInv
<1>9. CopiesInv' BY <1>0, <1>1 DEF CopiesInv, StillHeld
<1>10. RouteInv' BY <1>1 DEF RouteInv
<1> QED BY <1>5, <1>7, <1>8, <1>9, <1>10 DEF RegistryInv

LEMMA BakeHolds ==
  ASSUME RegistryInv, NEW f \in ArtifactFolders, bake(f) PROVE RegistryInv'
<1> DEFINE fitted == [folder |-> f, feature |-> "raw", revision |-> Nothing, role |-> FALSE,
                      flat |-> TRUE, baked |-> TRUE, by |-> writes]
           name == [ns |-> Bare, name |-> f[2], variant |-> "raw"]
           c == [revision |-> writes, role |-> FALSE]
           ps == [NoPairs EXCEPT !["raw"] = fitted]
<1>0. DiskInv /\ HeldInv /\ CopiesInv /\ AttachInv /\ RouteInv BY DEF RegistryInv
<1>1. /\ writes' = writes + 1 /\ corpora' = [corpora EXCEPT ![f] = c] /\ pairs' = [pairs EXCEPT ![f] = ps]
      /\ Forgotten(f, Nothing) /\ profiles' = Put(Drop(profiles, Reading(profiles, f, Nothing)), name, fitted)
      /\ invalidate_analytics /\ changing' = changing /\ registers' = registers
      /\ unswept' = unswept \ OfFolder(f) /\ UNCHANGED <<overtaken, route, attaching>>
      /\ route = Nothing /\ attaching = Nothing
  BY DEF bake, Writing, Free, Exclusive
<1>2. writes' \in Nat /\ registers' \in Nat /\ changing' \in Nat /\ writes \in Nat BY <1>0, <1>1 DEF DiskInv
<1>3. /\ fitted \in Directions /\ fitted.folder = f /\ fitted.feature = "raw" /\ fitted.baked
      /\ "raw" \in Features
  BY <1>2 DEF Directions, Features
<1>4. name.ns = Bare /\ name.name = f[2] /\ name.variant = "raw" OBVIOUS
<1>5. c \in Authoring /\ c # Nothing
  <2>1. c \in Corpora BY <1>2 DEF Corpora
  <2> QED BY <2>1, RegistryAssumption DEF Authoring
<1> HIDE DEF fitted, name, c
<1>6. ps \in FolderPairs /\ ps["raw"] = fitted /\ \A ft \in Features : ft # "raw" => ps[ft] = Nothing
  BY <1>3 DEF FolderPairs, NoPairs
<1> HIDE DEF ps
<1>7. /\ corpora' \in [ArtifactFolders -> Authoring] /\ corpora'[f] = c
      /\ pairs' \in [ArtifactFolders -> FolderPairs] /\ pairs'[f] = ps
      /\ \A g \in ArtifactFolders : g # f => pairs'[g] = pairs[g] /\ corpora'[g] = corpora[g]
  BY <1>0, <1>1, <1>5, <1>6 DEF DiskInv
<1>8. DiskInv'
  <2>1. \A ft \in Features : pairs'[f][ft] # Nothing =>
          corpora'[f] # Nothing /\ pairs'[f][ft].folder = f /\ pairs'[f][ft].feature = ft
    BY <1>3, <1>5, <1>6, <1>7
  <2> QED BY <2>1, <1>0, <1>2, <1>7, FolderHolds
<1>9. f # Nothing /\ ReadsAs(name, fitted, pairs', corpora', unswept')
  <2>1. artifact_key_matches(name, f, "raw") BY <1>4 DEF artifact_key_matches
  <2>2. f # Nothing BY RegistryAssumption
  <2> QED BY <2>1, <2>2, <1>3, <1>6, <1>7 DEF ReadsAs
<1>10. \A k \in DOMAIN profiles' :
         \/ k \in DOMAIN profiles /\ ~artifact_key_matches(k, f, Nothing) /\ profiles'[k] = profiles[k]
         \/ profiles'[k].folder # Nothing /\ ReadsAs(k, profiles'[k], pairs', corpora', unswept')
  <2> DEFINE kept == Drop(profiles, Reading(profiles, f, Nothing))
  <2>1. \A k \in DOMAIN kept :
          k \in DOMAIN profiles /\ ~artifact_key_matches(k, f, Nothing) /\ kept[k] = profiles[k]
    BY InReading DEF Drop
  <2>2. profiles' = Put(kept, name, fitted) BY <1>1
  <2> HIDE DEF kept
  <2>3. \A k \in DOMAIN profiles' :
          (k = name /\ profiles'[k] = fitted) \/ (k \in DOMAIN kept /\ profiles'[k] = kept[k])
    BY <2>2 DEF Put
  <2> QED BY <2>1, <2>3, <1>3, <1>9
<1>11. \A g \in ArtifactFolders, gt \in Features : Elsewhere(f, Nothing, g, gt) => AsItWas(g, gt)
  BY <1>1, <1>7 DEF Elsewhere, AsItWas, OfFolder
<1>12. HeldInv' BY <1>0, <1>1, <1>10, <1>11, ForgetHolds
<1>13. CopiesInv' BY <1>0, <1>1, Invalidated
<1>14. AttachInv' /\ RouteInv' BY <1>1 DEF AttachInv, RouteInv
<1> QED BY <1>8, <1>12, <1>13, <1>14 DEF RegistryInv

(***************************************************************************)
(* The invariant.                                                          *)
(***************************************************************************)

LEMMA InitHolds == ASSUME RegistryInit PROVE RegistryInv
<1>1. PICK role \in [ArtifactFolders -> BOOLEAN] :
        corpora = [f \in ArtifactFolders |-> [revision |-> -1, role |-> role[f]]]
  BY DEF RegistryInit
<1>2. corpora \in [ArtifactFolders -> Authoring] BY <1>1 DEF Authoring, Corpora
<1>3. pairs \in [ArtifactFolders -> FolderPairs] /\ \A f \in ArtifactFolders, ft \in Features : pairs[f][ft] = Nothing
  BY NoPairsIsEmpty DEF RegistryInit
<1>4. DiskInv BY <1>2, <1>3 DEF DiskInv, RegistryInit
<1>5. /\ DOMAIN manifolds = {} /\ DOMAIN profiles = {} /\ DOMAIN folds = {} /\ DOMAIN probes = {}
      /\ DOMAIN analytics = {} /\ poll = Nothing
  BY DEF RegistryInit, Empty
<1>6. HeldInv BY <1>5 DEF HeldInv, ManifoldsInv, ProfilesInv, FoldsInv, ProbesInv
<1>7. CopiesInv BY <1>5 DEF CopiesInv
<1>8. AttachInv /\ RouteInv BY DEF RegistryInit, AttachInv, RouteInv
<1> QED BY <1>4, <1>6, <1>7, <1>8 DEF RegistryInv

LEMMA NextHolds == ASSUME RegistryInv, RegistryNext PROVE RegistryInv'
<1>1. ASSUME NEW k \in Loaders, ensure_profile_registered(k) PROVE RegistryInv' BY <1>1, RegisteringHolds
<1>2. ASSUME NEW k \in Keys, Attach(k) \/ AttachExtracts(k) \/ Detach(k) PROVE RegistryInv'
  BY <1>2, AttachHolds, AttachExtractsHolds, DetachHolds
<1>3. ASSUME NEW k \in Keys, Register(k) \/ pop_profile(k) \/ analytics_snapshot(k) PROVE RegistryInv'
  BY <1>3, RegisterHolds, PopHolds, SnapshotHolds
<1>4. ASSUME NEW k \in Keys, NEW f \in ArtifactFolders, extract_profile(k, f) \/ ExtractFails(k, f)
      PROVE  RegistryInv'
  BY <1>4, ExtractHolds, ExtractFailsHolds
<1>5. ASSUME NEW f \in ArtifactFolders, NEW feature \in Features, FitFolder(f, feature) \/ FitFails(f, feature)
      PROVE  RegistryInv'
  BY <1>5, FitHolds, FitFailsHolds
<1>6. ASSUME NEW f \in ArtifactFolders, bake(f) \/ RewriteFolder(f) \/ EvictFolder(f) PROVE RegistryInv'
  BY <1>6, BakeHolds, RewriteHolds, EvictFolderHolds
<1>7. ASSUME Sweep \/ GivesUp \/ RemoveFolder PROVE RegistryInv'
  BY <1>7, SweepHolds, GivesUpHolds, RemoveHolds
<1>8. ASSUME AttachEnds \/ RegisterExtracted PROVE RegistryInv'
  BY <1>8, AttachEndsHolds, RegisterExtractedHolds
<1>9. ASSUME Changed \/ Copies \/ Stores PROVE RegistryInv' BY <1>9, ChangedHolds, CopiesHolds, StoresHolds
<1> QED BY <1>1, <1>2, <1>3, <1>4, <1>5, <1>6, <1>7, <1>8, <1>9 DEF RegistryNext

\* Nothing happens to what is held between two steps of the registry.
LEMMA StutterHolds == ASSUME RegistryInv, UNCHANGED registryVars PROVE RegistryInv'
<1>0. DiskInv /\ HeldInv /\ CopiesInv /\ AttachInv /\ RouteInv BY DEF RegistryInv
<1>1. UNCHANGED <<diskVars, heldVars, analytics, changing, poll, route, attaching>> BY DEF registryVars, copyVars
<1>2. DiskInv' /\ HeldInv' /\ AttachInv' /\ RouteInv' BY <1>0, <1>1, QuietHolds DEF DiskInv
<1>3. CopiesInv' BY <1>0, <1>1 DEF CopiesInv, StillHeld, heldVars
<1> QED BY <1>2, <1>3 DEF RegistryInv

\* However fits, extractions, rewritten and removed folders, bakes, registrations,
\* attachments and polls of analytics interleave, what is loaded, registered, folded or
\* being attached under a key is of a folder that key reads, and of the pair that is
\* there unless the folder changed and its consumers were not told; each probe reads a
\* loaded object or a ray folded for its own name; and a copy that outlived a change has
\* somebody still to drop it.
THEOREM RegistryInvariant == RegistrySpec => []RegistryInv
<1>1. RegistryInit => RegistryInv BY InitHolds
<1>2. RegistryInv /\ [RegistryNext]_registryVars => RegistryInv' BY NextHolds, StutterHolds
<1> QED BY <1>1, <1>2, PTL DEF RegistrySpec

\* Whatever the session holds of an artifact is its present fit under every name it is
\* held by, unless its consumers were not told of the change: of a folder rewritten and
\* not swept, authored anew by a forced or failed extraction, or loaded again between the
\* two steps of its removal.  Every probe reads an object the next fit or eviction will
\* find, and a copy kept for analytics is of a direction still held, for any folders,
\* keys and releases.
THEOREM HeldStaysCurrent == RegistrySpec => []HeldIsCurrent
<1>1. RegistryInv => HeldIsCurrent BY CurrentIsHeld
<1> QED BY <1>1, RegistryInvariant, PTL

(***************************************************************************)
(* How manifolds travel: the inductive invariant.  A process is exporting, *)
(* fetching a closure, placing it under the locks of its target, or making *)
(* a manifold or a fit; what it carries is said for each of these.         *)
(***************************************************************************)

Archives == [body : Closures, digests : Closures]
Commits == [archive : Archives, summary : Folders]
Trips ==
  [op : TripOps \cup {Unset}, name : Places \cup {Unset}, to : Places \cup {Unset}, force : BOOLEAN,
   keep : SUBSET Models, closure : Closures \cup {Unset}, commit : Nat \cup {Unset},
   declared : Folders \cup {Unset}, snap : (Nat \X Shas) \cup {Unset}, began : Nat \cup {Unset}]

Exporting == {"xstart", "xlock", "xcheck", "xwrite", "upload"}
Fetching == {"open", "resolve", "download", "load", "copy", "copytemplate"}
Placing == {"mlock", "tlock", "decide", "ptemplate", "pmanifold"}
Making == {"resolving", "authored", "fitting"}
Stages == {"idle"} \cup Exporting \cup Fetching \cup Placing \cup Making

TravelTypes ==
  /\ home \in [Places -> Folders \cup {Gone}] /\ shared \in Texts \cup {Gone}
  /\ archive \in Archives \cup {Gone} /\ hub \in Seq(Commits)
  /\ at \in [Hosts -> Stages] /\ trip \in [Hosts -> Trips]
  /\ trips \in Nat /\ era \in [Places -> Nat]

\* Whose folder a process is about, and whether it carries a closure.
Bound(a, c) ==
  /\ a # "idle" => c.name \in Places
  /\ a \in Exporting \cup Making => c.to = Unset
  /\ a \in Fetching \cup Placing => c.to \in Places
  /\ a \in {"xlock", "xcheck", "xwrite", "upload", "copy", "copytemplate", "authored"} \cup Placing =>
       c.closure \in Closures

\* An export under its locks carries what is there, and what it takes out is whole.
Taken(a, c) ==
  /\ a \in {"xlock", "xcheck"} => home[c.name] # Gone /\ c.closure.folder = home[c.name]
  /\ a = "xwrite" => /\ home[c.name] # Gone
                     /\ c.closure = Closure(Transported(home[c.name], c.keep), shared)
  /\ a \in {"xwrite", "upload"} => IsWhole(c.closure)

\* An install carries what its source says, and knows which source that was.
Brought(a, c) ==
  /\ a \in Fetching => c.declared = Unset
  /\ a \in Fetching \ {"download"} => c.commit = Unset
  /\ a \in Placing \cup {"download"} /\ c.commit # Unset => c.commit \in 1..Len(hub)
  /\ a = "download" => c.commit # Unset
  /\ a \in Placing =>
       /\ ClosureAgrees(c.closure)
       /\ c.declared # Unset => SameContent(c.closure.folder, c.declared)
       /\ c.commit # Unset => SameContent(c.closure.folder, hub[c.commit].archive.digests.folder)
  /\ a \in {"ptemplate", "pmanifold"} =>
       PairsAreProven(c.closure) /\ c.closure.folder.source = c.commit /\ c.closure.folder.id = Unset
  /\ a = "ptemplate" => c.closure.folder.ref
  /\ a = "pmanifold" /\ c.closure.folder.ref => shared = c.closure.template

\* The id a fit saw is of the folder it began in, while it is there.
Begun(a, c) ==
  /\ a = "authored" => c.closure.folder.id = Unset
  /\ a = "fitting" =>
       /\ c.snap \in Nat \X Shas /\ c.snap[1] < trips
       /\ home[c.name] # Gone /\ home[c.name].id = c.snap[1] => era[c.name] = c.began

Carries(a, c) == Bound(a, c) /\ Taken(a, c) /\ Brought(a, c) /\ Begun(a, c)
CarriedInv == \A p \in Hosts : Carries(at[p], trip[p])

\* An id was given by an operation that has begun, a commit named is one there is.
IdsInv ==
  /\ \A n \in Places : home[n] # Gone /\ home[n].id # Unset => home[n].id < trips
  /\ parcel # Gone /\ parcel.commit # Unset => parcel.commit \in 1..Len(hub)

\* A manifest's lock and the template's have one holder.
LocksInv ==
  \A p, q \in Hosts : p # q =>
    /\ ~(at[p] \in ManifestHeld /\ at[q] \in ManifestHeld /\ Destination(p) = Destination(q))
    /\ ~(HoldsTemplate(p) /\ HoldsTemplate(q))

TravelInv == TravelTypes /\ CarriedInv /\ IdsInv /\ LocksInv /\ TravelsWhole

(***************************************************************************)
(* What a step of one process leaves to the others.                        *)
(***************************************************************************)

LEMMA UnsetIsNothing ==
  /\ Unset \notin Places /\ Unset \notin Texts /\ Unset \notin Nat /\ Unset # Gone
  /\ Unset \notin Pairs /\ Unset \notin Folders /\ Unset \notin Closures /\ Gone \notin Texts
BY DistributionAssumption

\* Commits stay, ids are given in order, and what a process relies on is as it was.
Undisturbed(q) ==
  /\ Len(hub) =< Len(hub') /\ \A k \in 1..Len(hub) : hub'[k] = hub[k]
  /\ trips =< trips'
  /\ at[q] \in {"xlock", "xcheck", "xwrite"} => home'[trip[q].name] = home[trip[q].name]
  /\ HoldsTemplate(q) => shared' = shared
  /\ at[q] = "fitting" =>
       (home'[trip[q].name] # Gone /\ home'[trip[q].name].id = trip[q].snap[1] =>
          /\ home[trip[q].name] # Gone /\ home[trip[q].name].id = trip[q].snap[1]
          /\ era'[trip[q].name] = era[trip[q].name])

LEMMA OthersCarry ==
  ASSUME TravelTypes, NEW q \in Hosts, Carries(at[q], trip[q]), Undisturbed(q),
         trips' \in Nat, hub' \in Seq(Commits), at'[q] = at[q], trip'[q] = trip[q]
  PROVE  Carries(at[q], trip[q])'
<1> DEFINE a == at[q]
           c == trip[q]
<1>0. Bound(a, c) /\ Taken(a, c) /\ Brought(a, c) /\ Begun(a, c) BY DEF Carries
<1>1. trips \in Nat /\ Len(hub) \in Nat /\ Len(hub') \in Nat /\ c \in Trips BY DEF TravelTypes
<1>2. Bound(a, c)' BY <1>0 DEF Bound
<1>3. a \in TemplateHeld /\ c.closure.folder.ref => shared' = shared
  BY <1>0, UnsetIsNothing DEF Bound, HoldsTemplate, Undisturbed, TemplateHeld, Placing
<1>4. Taken(a, c)'
  <2>1. CASE a = "xwrite"
    <3>1. home'[c.name] = home[c.name] BY <2>1 DEF Undisturbed
    <3>2. c.closure = Closure(Transported(home[c.name], c.keep), shared) BY <1>0, <2>1 DEF Taken
    <3>3. c.closure.folder = Transported(home[c.name], c.keep) BY <3>2 DEF Closure
    <3>4. Closure(Transported(home[c.name], c.keep), shared') = Closure(Transported(home[c.name], c.keep), shared)
      BY <1>3, <2>1, <3>3 DEF Closure, TemplateHeld
    <3> QED BY <1>0, <2>1, <3>1, <3>2, <3>4 DEF Taken
  <2>2. CASE a # "xwrite" BY <1>0, <2>2 DEF Taken, Undisturbed
  <2> QED BY <2>1, <2>2
<1>5. Brought(a, c)'
  <2>1. c.commit # Unset /\ a \in Placing \cup {"download"} =>
          c.commit \in 1..Len(hub') /\ hub'[c.commit] = hub[c.commit]
    BY <1>0, <1>1 DEF Brought, Undisturbed
  <2>2. a = "pmanifold" /\ c.closure.folder.ref => shared' = shared BY <1>3 DEF TemplateHeld
  <2> QED BY <1>0, <2>1, <2>2 DEF Brought
<1>6. Begun(a, c)'
  <2>1. a = "fitting" => c.snap \in Nat \X Shas /\ c.snap[1] < trips' BY <1>0, <1>1 DEF Begun, Undisturbed
  <2> QED BY <1>0, <2>1 DEF Begun, Undisturbed
<1> QED BY <1>2, <1>4, <1>5, <1>6 DEF Carries

(***************************************************************************)
(* A step that only moves a process.                                       *)
(***************************************************************************)

TargetOf(c) == IF c.to # Unset THEN c.to ELSE c.name
Holding(a, c) == a \in TemplateHeld /\ c.closure # Unset /\ c.closure.folder.ref

\* The locks of the place and closure a process takes up are held by no other.
Admitted(p, a, c) ==
  \A q \in Hosts \ {p} :
    /\ a \in ManifestHeld /\ at[q] \in ManifestHeld => Destination(q) # TargetOf(c)
    /\ Holding(a, c) => ~HoldsTemplate(q)

\* Whatever process it is, the rest keep what they hold.
LEMMA LocksStay ==
  ASSUME TravelTypes, LocksInv, NEW p \in Hosts, NEW l, NEW c, Admitted(p, l, c),
         at' = [at EXCEPT ![p] = l], trip' = [trip EXCEPT ![p] = c]
  PROVE  LocksInv'
<1>1. /\ at'[p] = l /\ trip'[p] = c
      /\ \A q \in Hosts : q # p => at'[q] = at[q] /\ trip'[q] = trip[q]
  BY DEF TravelTypes
<1>2. Destination(p)' = TargetOf(c) /\ (HoldsTemplate(p)' <=> Holding(l, c))
  BY <1>1 DEF Destination, TargetOf, HoldsTemplate, Holding
<1>3. \A q \in Hosts : q # p => Destination(q)' = Destination(q) /\ (HoldsTemplate(q)' <=> HoldsTemplate(q))
  BY <1>1 DEF Destination, HoldsTemplate
<1> SUFFICES ASSUME NEW q \in Hosts, NEW r \in Hosts, q # r
             PROVE  /\ ~(at'[q] \in ManifestHeld /\ at'[r] \in ManifestHeld /\ Destination(q)' = Destination(r)')
                    /\ ~(HoldsTemplate(q)' /\ HoldsTemplate(r)')
  BY DEF LocksInv
<1>4. CASE q = p BY <1>1, <1>2, <1>3, <1>4 DEF Admitted
<1>5. CASE r = p BY <1>1, <1>2, <1>3, <1>5 DEF Admitted
<1>6. CASE q # p /\ r # p BY <1>1, <1>3, <1>6 DEF LocksInv
<1> QED BY <1>4, <1>5, <1>6

LEMMA CarriedStays ==
  ASSUME TravelTypes, CarriedInv, NEW p \in Hosts, NEW l, NEW c,
         at' = [at EXCEPT ![p] = l], trip' = [trip EXCEPT ![p] = c],
         Carries(at[p], trip[p])', \A q \in Hosts \ {p} : Undisturbed(q),
         trips' \in Nat, hub' \in Seq(Commits)
  PROVE  CarriedInv'
<1>1. \A q \in Hosts : q # p => at'[q] = at[q] /\ trip'[q] = trip[q] BY DEF TravelTypes
<1> SUFFICES ASSUME NEW q \in Hosts PROVE Carries(at[q], trip[q])' BY DEF CarriedInv
<1>2. CASE q = p BY <1>2
<1>3. CASE q # p
  <2>1. Carries(at[q], trip[q]) /\ Undisturbed(q) BY <1>3 DEF CarriedInv
  <2> QED BY <2>1, <1>1, <1>3, OthersCarry
<1> QED BY <1>2, <1>3

LEMMA Quiet ==
  ASSUME TravelInv, NEW p \in Hosts, NEW l, l \in Stages, NEW c, c \in Trips,
         at' = [at EXCEPT ![p] = l], trip' = [trip EXCEPT ![p] = c],
         UNCHANGED <<home, shared, archive, hub, era, strays, parcel>>,
         trips' \in Nat, trips =< trips', Carries(l, c), Admitted(p, l, c)
  PROVE  TravelInv'
<1>0. TravelTypes /\ CarriedInv /\ IdsInv /\ LocksInv /\ TravelsWhole BY DEF TravelInv
<1>1. TravelTypes' BY <1>0 DEF TravelTypes
<1>2. at'[p] = l /\ trip'[p] = c BY <1>0 DEF TravelTypes
<1>3. \A q \in Hosts \ {p} : Undisturbed(q) BY <1>0 DEF Undisturbed, TravelTypes
<1>4. Carries(at[p], trip[p])'
  <2>1. Bound(at[p], trip[p])' BY <1>2 DEF Carries, Bound
  <2>2. Taken(at[p], trip[p])' BY <1>2 DEF Carries, Taken
  <2>3. Brought(at[p], trip[p])' BY <1>2 DEF Carries, Brought
  <2>4. Begun(at[p], trip[p])'
    <3>1. trips \in Nat BY <1>0 DEF TravelTypes
    <3>2. l = "fitting" => c.snap[1] \in Nat BY DEF Carries, Begun
    <3> QED BY <1>2, <3>1, <3>2 DEF Carries, Begun
  <2> QED BY <2>1, <2>2, <2>3, <2>4 DEF Carries
<1>5. CarriedInv'
  <2>1. hub' \in Seq(Commits) BY <1>1 DEF TravelTypes
  <2> QED BY <2>1, <1>0, <1>3, <1>4, CarriedStays
<1>6. IdsInv'
  <2>1. trips \in Nat /\ \A n \in Places : home[n] # Gone /\ home[n].id # Unset => home[n].id \in Nat
    BY <1>0 DEF TravelTypes, Folders
  <2> QED BY <2>1, <1>0 DEF IdsInv
<1>7. LocksInv' BY <1>0, LocksStay
<1>8. TravelsWhole' BY <1>0 DEF TravelsWhole
<1> QED BY <1>1, <1>5, <1>6, <1>7, <1>8 DEF TravelInv

\* A process at rest carries nothing and holds nothing.
LEMMA Resting ==
  ASSUME NEW p \in Hosts
  PROVE  NoTrip \in Trips /\ "idle" \in Stages /\ Carries("idle", NoTrip) /\ Admitted(p, "idle", NoTrip)
<1>1. NoTrip \in Trips BY DEF NoTrip, Trips
<1>2. "idle" \in Stages BY DEF Stages
<1>3. Carries("idle", NoTrip)
  BY DEF Carries, Bound, Taken, Brought, Begun, Exporting, Fetching, Placing, Making
<1>4. Admitted(p, "idle", NoTrip) BY DEF Admitted, Holding, ManifestHeld, TemplateHeld
<1> QED BY <1>1, <1>2, <1>3, <1>4

LEMMA RestHolds ==
  ASSUME TravelInv, NEW p \in Hosts, Rest(p), UNCHANGED <<home, shared, archive, hub, era, strays, parcel>>, trips' = trips
  PROVE  TravelInv'
<1>1. at' = [at EXCEPT ![p] = "idle"] /\ trip' = [trip EXCEPT ![p] = NoTrip] BY DEF Rest, Move
<1>2. trips' \in Nat /\ trips =< trips' BY DEF TravelInv, TravelTypes
<1> QED BY <1>1, <1>2, Resting, Quiet

LEMMA FailHolds == ASSUME TravelInv, NEW p \in Hosts, Fail(p) PROVE TravelInv'
BY RestHolds DEF Fail, Ground, Fixed

LEMMA DiesHolds == ASSUME TravelInv, NEW p \in Hosts, HostDies(p) PROVE TravelInv'
BY RestHolds DEF HostDies, Ground

(***************************************************************************)
(* Operations begin.                                                       *)
(***************************************************************************)

Waiting == {"xstart", "open", "resolve", "load", "resolving"}

LEMMA WaitingIsFree ==
  ASSUME NEW p \in Hosts, NEW a \in Waiting, NEW c PROVE Admitted(p, a, c) /\ a \in Stages
BY DEF Waiting, Admitted, Holding, ManifestHeld, TemplateHeld, Stages, Exporting, Fetching, Placing, Making

LEMMA DepartHolds ==
  ASSUME TravelInv, NEW p \in Hosts, NEW c \in Trips, NEW l \in Waiting, Depart(p, c, l),
         c.name \in Places, l \in {"xstart", "resolving"} => c.to = Unset,
         l \in {"open", "resolve", "load"} => c.to \in Places, c.commit = Unset, c.declared = Unset
  PROVE  TravelInv'
<1>1. /\ trips' = trips + 1 /\ at' = [at EXCEPT ![p] = l] /\ trip' = [trip EXCEPT ![p] = c]
      /\ UNCHANGED <<home, shared, archive, hub, era, strays, parcel>>
  BY DEF Depart, Move, Ground
<1>2. trips' \in Nat /\ trips =< trips' BY <1>1 DEF TravelInv, TravelTypes
<1>3. Admitted(p, l, c) /\ l \in Stages BY WaitingIsFree
<1>4. Bound(l, c) /\ Taken(l, c) /\ Brought(l, c) /\ Begun(l, c)
  BY DEF Waiting, Bound, Taken, Brought, Begun, Exporting, Fetching, Placing, Making
<1>5. Carries(l, c) BY <1>4 DEF Carries
<1> QED BY <1>1, <1>2, <1>3, <1>5, Quiet

LEMMA ExportBegins ==
  ASSUME TravelInv, NEW p \in Hosts, NEW n \in Places, NEW keep \in {Models, {}},
         Export(p, n, keep) \/ Push(p, n, keep)
  PROVE  TravelInv'
<1>1. PICK op \in {"export", "push"} : Depart(p, [NoTrip EXCEPT !.op = op, !.name = n, !.keep = keep], "xstart")
  BY DEF Export, Push
<1> DEFINE c == [NoTrip EXCEPT !.op = op, !.name = n, !.keep = keep]
<1>2. c \in Trips /\ c.name = n /\ c.to = Unset /\ c.commit = Unset /\ c.declared = Unset
  BY DEF NoTrip, Trips, TripOps
<1>3. Depart(p, c, "xstart") BY <1>1
<1> HIDE DEF c
<1> QED BY <1>2, <1>3, DepartHolds DEF Waiting

LEMMA InstallBegins ==
  ASSUME TravelInv, NEW p \in Hosts, NEW from \in {"file", "hub", "folder"}, NEW n \in Places, NEW to \in Places,
         NEW force \in BOOLEAN, Install(p, from, n, to, force)
  PROVE  TravelInv'
<1> DEFINE c == [NoTrip EXCEPT !.op = from, !.name = n, !.to = to, !.force = force]
<1>1. PICK l \in {"open", "resolve", "load"} : Depart(p, c, l) BY DEF Install
<1>2. c \in Trips /\ c.name = n /\ c.to = to /\ c.commit = Unset /\ c.declared = Unset
  BY DEF NoTrip, Trips, TripOps
<1> HIDE DEF c
<1> QED BY <1>1, <1>2, DepartHolds DEF Waiting

LEMMA AuthorBegins ==
  ASSUME TravelInv, NEW p \in Hosts, NEW n \in Places, NEW force \in BOOLEAN, Author(p, n, force)
  PROVE  TravelInv'
<1> DEFINE c == [NoTrip EXCEPT !.op = "author", !.name = n, !.force = force]
<1>1. Depart(p, c, "resolving") BY DEF Author
<1>2. c \in Trips /\ c.name = n /\ c.to = Unset /\ c.commit = Unset /\ c.declared = Unset
  BY DEF NoTrip, Trips, TripOps
<1> HIDE DEF c
<1> QED BY <1>1, <1>2, DepartHolds DEF Waiting

(***************************************************************************)
(* Closures and their types.                                               *)
(***************************************************************************)

LEMMA ClosureTyped ==
  ASSUME NEW f \in Folders, NEW text \in Texts \cup {Gone, Unset}
  PROVE  /\ Closure(f, text) \in Closures /\ Closure(f, text).folder = f
         /\ Closure(f, text).template = IF f.ref THEN text ELSE Unset
         /\ Closure(f, text) # Unset
BY UnsetIsNothing DEF Closure, Closures

LEMMA ShaTyped ==
  ASSUME NEW f \in Folders, NEW text \in Texts \cup {Gone, Unset} PROVE NodesSha(f, text) \in Shas
BY DEF NodesSha, Folders, Shas

LEMMA TransportedTyped ==
  ASSUME NEW f \in Folders, NEW keep
  PROVE  /\ Transported(f, keep) \in Folders /\ Transported(f, keep).ref = f.ref
BY DEF Transported, Folders

\* A closure that agrees, with its pairs proven, is whole.
LEMMA ProvenIsWhole ==
  ASSUME NEW c \in Closures, ClosureAgrees(c), PairsAreProven(c) PROVE IsWhole(c)
<1> DEFINE f == c.folder
<1>1. f \in Folders /\ (~f.ref => c.template = Unset) BY DEF Closures, ClosureAgrees
<1>2. f.ref => c.template = f.labels /\ c.template = f.corpus BY DEF ClosureAgrees
<1>3. ASSUME NEW m \in Models, f.fits[m] # Unset
      PROVE  f.fits[m] = [name |-> f.name, of |-> <<f.labels, f.corpus, c.template>>]
  <2>1. f.fits[m] \in Pairs BY <1>1, <1>3 DEF Folders
  <2>2. f.fits[m].name = f.name /\ f.fits[m].of = NodesSha(f, c.template)
    BY <1>3 DEF PairsAreProven, PairIsProven
  <2>3. NodesSha(f, c.template) = <<f.labels, f.corpus, c.template>> BY <1>1 DEF NodesSha
  <2>4. f.fits[m] = [name |-> f.fits[m].name, of |-> f.fits[m].of] BY <2>1 DEF Pairs
  <2> QED BY <2>2, <2>3, <2>4
<1> QED BY <1>2, <1>3 DEF IsWhole

LEMMA SameIsSame == ASSUME NEW f PROVE SameContent(f, f)
BY DEF SameContent

LEMMA SameFollows ==
  ASSUME NEW f, NEW g, NEW h, SameContent(f, g), SameContent(g, h) PROVE SameContent(f, h)
BY DEF SameContent

\* A trip with another closure.
With(c, x) == [c EXCEPT !.closure = x]

LEMMA WithIs ==
  ASSUME NEW c \in Trips, NEW x \in Closures
  PROVE  /\ With(c, x) \in Trips /\ With(c, x).closure = x /\ TargetOf(With(c, x)) = TargetOf(c)
         /\ With(c, x).name = c.name /\ With(c, x).to = c.to /\ With(c, x).keep = c.keep
         /\ With(c, x).commit = c.commit /\ With(c, x).declared = c.declared
         /\ With(c, x).force = c.force /\ With(c, x).op = c.op
BY DEF With, Trips, TargetOf

LEMMA CarryHolds ==
  ASSUME TravelInv, NEW p \in Hosts, NEW x \in Closures, NEW l \in Stages, Carry(p, x, l),
         Carries(l, With(trip[p], x)), Admitted(p, l, With(trip[p], x))
  PROVE  TravelInv'
<1>1. trip[p] \in Trips /\ trip \in [Hosts -> Trips] /\ trips \in Nat BY DEF TravelInv, TravelTypes
<1>2. /\ at' = [at EXCEPT ![p] = l] /\ trip' = [trip EXCEPT ![p].closure = x]
      /\ UNCHANGED <<home, shared, archive, hub, era, strays, parcel>> /\ trips' = trips
  BY DEF Carry, Move, Ground, Fixed
<1>3. trip' = [trip EXCEPT ![p] = With(trip[p], x)] BY <1>1, <1>2 DEF With
<1>4. With(trip[p], x) \in Trips BY <1>1, WithIs
<1>5. trips' \in Nat /\ trips =< trips' BY <1>1, <1>2
<1> QED BY <1>2, <1>3, <1>4, <1>5, Quiet

\* Who holds a folder's lock is not in the way of itself.
LEMMA StillAdmitted ==
  ASSUME TravelInv, NEW p \in Hosts, NEW l, NEW c, at[p] \in ManifestHeld,
         TargetOf(c) = Destination(p), Holding(l, c) => HoldsTemplate(p) \/ TemplateIsFree(p)
  PROVE  Admitted(p, l, c)
BY DEF TravelInv, LocksInv, Admitted, TemplateIsFree

LEMMA Carrying ==
  ASSUME TravelInv, NEW p \in Hosts
  PROVE  /\ Carries(at[p], trip[p]) /\ trip[p] \in Trips /\ at[p] \in Stages
         /\ Bound(at[p], trip[p]) /\ Taken(at[p], trip[p]) /\ Brought(at[p], trip[p]) /\ Begun(at[p], trip[p])
         /\ Destination(p) = TargetOf(trip[p])
         /\ HoldsTemplate(p) <=> Holding(at[p], trip[p])
         /\ home \in [Places -> Folders \cup {Gone}] /\ shared \in Texts \cup {Gone} /\ trips \in Nat
BY DEF TravelInv, CarriedInv, Carries, TravelTypes, Destination, TargetOf, HoldsTemplate, Holding

(***************************************************************************)
(* Export.                                                                 *)
(***************************************************************************)

LEMMA LockSourceHolds == ASSUME TravelInv, NEW p \in Hosts, LockSource(p) PROVE TravelInv'
<1> DEFINE n == trip[p].name
           x == Closure(home[n], Unset)
<1>0. at[p] = "xstart" /\ trip[p] \in Trips /\ n \in Places /\ trip[p].to = Unset
      /\ home \in [Places -> Folders \cup {Gone}]
  BY Carrying DEF LockSource, Bound, Exporting
<1>1. CASE home[n] = Gone BY <1>1, FailHolds DEF LockSource
<1>2. CASE home[n] # Gone
  <2>1. ManifestIsFree(n, p) /\ Carry(p, x, "xlock") BY <1>2 DEF LockSource
  <2>2. home[n] \in Folders BY <1>0, <1>2
  <2>3. x \in Closures /\ x.folder = home[n] BY <2>2, ClosureTyped
  <2> HIDE DEF x
  <2> DEFINE c == With(trip[p], x)
  <2>4. /\ c \in Trips /\ c.closure = x /\ c.name = n /\ c.to = Unset /\ TargetOf(c) = n
    BY <1>0, <2>3, WithIs DEF TargetOf
  <2> HIDE DEF c
  <2>5. Bound("xlock", c) /\ Taken("xlock", c) /\ Brought("xlock", c) /\ Begun("xlock", c)
    BY <1>0, <1>2, <2>3, <2>4 DEF Bound, Taken, Brought, Begun, Exporting, Fetching, Placing, Making
  <2>6. Carries("xlock", c) BY <2>5 DEF Carries
  <2>7. Admitted(p, "xlock", c) BY <2>1, <2>4 DEF Admitted, ManifestIsFree, Holding, TemplateHeld
  <2>8. "xlock" \in Stages BY DEF Stages, Exporting
  <2> QED BY <2>1, <2>3, <2>6, <2>7, <2>8, CarryHolds DEF c
<1> QED BY <1>1, <1>2

LEMMA LockSourceTemplateHolds == ASSUME TravelInv, NEW p \in Hosts, LockSourceTemplate(p) PROVE TravelInv'
<1> DEFINE c == trip[p]
<1>0. at[p] = "xlock" /\ c \in Trips /\ c.to = Unset /\ c.name \in Places /\ c.closure \in Closures
      /\ home[c.name] # Gone /\ c.closure.folder = home[c.name] /\ trips \in Nat
  BY Carrying DEF LockSourceTemplate, Bound, Taken, Exporting
<1>1. /\ at' = [at EXCEPT ![p] = "xcheck"] /\ trip' = trip /\ trips' = trips
      /\ UNCHANGED <<home, shared, archive, hub, era, strays, parcel>>
      /\ c.closure.folder.ref => TemplateIsFree(p)
  BY DEF LockSourceTemplate, Move, Ground, Fixed
<1>2. trip' = [trip EXCEPT ![p] = c] BY <1>1 DEF TravelInv, TravelTypes
<1>3. Bound("xcheck", c) /\ Taken("xcheck", c) /\ Brought("xcheck", c) /\ Begun("xcheck", c)
  BY <1>0 DEF Bound, Taken, Brought, Begun, Exporting, Fetching, Placing, Making
<1>4. Carries("xcheck", c) BY <1>3 DEF Carries
<1>5. Admitted(p, "xcheck", c)
  <2>1. at[p] \in ManifestHeld BY <1>0 DEF ManifestHeld
  <2>2. TargetOf(c) = Destination(p) BY Carrying
  <2>3. Holding("xcheck", c) => TemplateIsFree(p) BY <1>1 DEF Holding
  <2> QED BY <2>1, <2>2, <2>3, StillAdmitted
<1>6. "xcheck" \in Stages /\ trips' \in Nat /\ trips =< trips' BY <1>0, <1>1 DEF Stages, Exporting
<1> QED BY <1>0, <1>1, <1>2, <1>4, <1>5, <1>6, Quiet

LEMMA CheckSourceHolds == ASSUME TravelInv, NEW p \in Hosts, CheckSource(p) PROVE TravelInv'
<1> DEFINE n == trip[p].name
           keep == trip[p].keep
           f == Transported(home[n], keep)
           x == Closure(f, shared)
<1>0. at[p] = "xcheck" /\ trip[p] \in Trips /\ trip[p].to = Unset /\ n \in Places /\ trip[p].closure \in Closures
      /\ home[n] # Gone /\ trip[p].closure.folder = home[n] /\ home \in [Places -> Folders \cup {Gone}]
      /\ shared \in Texts \cup {Gone}
  BY Carrying DEF CheckSource, Bound, Taken, Exporting
<1>1. CASE ~ClosureAgrees(x) \/ ~PairsAreProven(x) BY <1>1, FailHolds DEF CheckSource
<1>2. CASE ClosureAgrees(x) /\ PairsAreProven(x)
  <2>1. Carry(p, x, "xwrite") BY <1>2 DEF CheckSource
  <2>2. home[n] \in Folders BY <1>0
  <2>3. f \in Folders /\ f.ref = home[n].ref BY <2>2, TransportedTyped
  <2> HIDE DEF f
  <2>4. x \in Closures /\ x.folder = f BY <1>0, <2>3, ClosureTyped
  <2>5. IsWhole(x)
    <3> HIDE DEF x
    <3> QED BY <1>2, <2>4, ProvenIsWhole
  <2> DEFINE c == With(trip[p], x)
  <2>6. /\ c \in Trips /\ c.closure = x /\ c.name = n /\ c.to = Unset /\ c.keep = keep
        /\ TargetOf(c) = TargetOf(trip[p])
    BY <1>0, <2>4, WithIs
  <2> HIDE DEF c
  <2>7. Bound("xwrite", c) /\ Brought("xwrite", c) /\ Begun("xwrite", c)
    BY <1>0, <2>4, <2>6 DEF Bound, Brought, Begun, Exporting, Fetching, Placing, Making
  <2>8. Taken("xwrite", c) BY <1>0, <2>5, <2>6 DEF Taken, f
  <2>9. Carries("xwrite", c) BY <2>7, <2>8 DEF Carries
  <2>10. Admitted(p, "xwrite", c)
    <3>1. at[p] \in ManifestHeld BY <1>0 DEF ManifestHeld
    <3>2. TargetOf(c) = Destination(p) BY <2>6, Carrying
    <3>3. Holding("xwrite", c) => HoldsTemplate(p)
      BY <1>0, <2>3, <2>4, <2>6, UnsetIsNothing DEF Holding, HoldsTemplate, TemplateHeld
    <3> QED BY <3>1, <3>2, <3>3, StillAdmitted
  <2>11. "xwrite" \in Stages BY DEF Stages, Exporting
  <2> HIDE DEF x
  <2> QED BY <2>1, <2>4, <2>9, <2>10, <2>11, CarryHolds DEF c
<1> QED BY <1>1, <1>2

\* A step that changes more than the process: what is left to show.
LEMMA MovedHolds ==
  ASSUME TravelInv, NEW p \in Hosts, NEW l, NEW c, at' = [at EXCEPT ![p] = l], trip' = [trip EXCEPT ![p] = c],
         Admitted(p, l, c), Carries(at[p], trip[p])', \A q \in Hosts \ {p} : Undisturbed(q),
         TravelTypes', IdsInv', TravelsWhole'
  PROVE  TravelInv'
<1>1. TravelTypes /\ CarriedInv /\ LocksInv BY DEF TravelInv
<1>2. trips' \in Nat /\ hub' \in Seq(Commits) BY DEF TravelTypes
<1>3. LocksInv' BY <1>1, LocksStay
<1>4. CarriedInv' BY <1>1, <1>2, CarriedStays
<1> QED BY <1>3, <1>4 DEF TravelInv

\* A process that comes to rest carries nothing, whatever it has changed.
LEMMA RestedHolds ==
  ASSUME TravelInv, NEW p \in Hosts, Rest(p), \A q \in Hosts \ {p} : Undisturbed(q),
         home' \in [Places -> Folders \cup {Gone}], shared' \in Texts \cup {Gone},
         archive' \in Archives \cup {Gone}, hub' \in Seq(Commits), trips' \in Nat, era' \in [Places -> Nat],
         IdsInv', TravelsWhole'
  PROVE  TravelInv'
<1>1. /\ at' = [at EXCEPT ![p] = "idle"] /\ trip' = [trip EXCEPT ![p] = NoTrip]
      /\ at \in [Hosts -> Stages] /\ trip \in [Hosts -> Trips]
  BY DEF Rest, Move, TravelInv, TravelTypes
<1>2. at'[p] = "idle" /\ trip'[p] = NoTrip /\ at' \in [Hosts -> Stages] /\ trip' \in [Hosts -> Trips]
  BY <1>1, Resting
<1>3. TravelTypes' BY <1>2 DEF TravelTypes
<1>4. Carries(at[p], trip[p])'
  BY <1>2 DEF Carries, Bound, Taken, Brought, Begun, Exporting, Fetching, Placing, Making
<1>5. Admitted(p, "idle", NoTrip) BY Resting
<1> QED BY <1>1, <1>3, <1>4, <1>5, MovedHolds

LEMMA WriteArchiveHolds == ASSUME TravelInv, NEW p \in Hosts, WriteArchive(p) PROVE TravelInv'
<1> DEFINE n == trip[p].name
           x == trip[p].closure
           a == Archive(Closure(Transported(home[trip[p].name], trip[p].keep), shared))
<1>0. at[p] = "xwrite" /\ trip[p] \in Trips /\ trip[p].to = Unset /\ n \in Places /\ x \in Closures
      /\ x = Closure(Transported(home[n], trip[p].keep), shared) /\ IsWhole(x)
  BY Carrying DEF WriteArchive, Bound, Taken, Exporting
<1>1. a = Archive(x) /\ Archive(x).body = x /\ Archive(x).digests = x /\ Archive(x) \in Archives
  BY <1>0 DEF Archive, Archives
<1>2. /\ UNCHANGED <<home, shared, hub, era, strays, parcel>> /\ trips' = trips
      /\ \/ archive' = a /\ Rest(p)
         \/ /\ trip' = [trip EXCEPT ![p].closure = a.body]
            /\ Move(p, "upload") /\ UNCHANGED archive
  BY DEF WriteArchive, Fixed
<1> HIDE DEF a, x
<1>3. TravelTypes /\ IdsInv /\ TravelsWhole BY DEF TravelInv
<1>4. CASE archive' = a /\ Rest(p)
  <2>1. \A q \in Hosts \ {p} : Undisturbed(q) BY <1>2, <1>3 DEF Undisturbed, TravelTypes
  <2>2. IdsInv' BY <1>2, <1>3 DEF IdsInv
  <2>3. TravelsWhole' BY <1>0, <1>1, <1>2, <1>3, <1>4 DEF TravelsWhole
  <2>4. /\ home' \in [Places -> Folders \cup {Gone}] /\ shared' \in Texts \cup {Gone}
        /\ archive' \in Archives \cup {Gone} /\ hub' \in Seq(Commits) /\ trips' \in Nat /\ era' \in [Places -> Nat]
    BY <1>1, <1>2, <1>3, <1>4 DEF TravelTypes
  <2> QED BY <1>4, <2>1, <2>2, <2>3, <2>4, RestedHolds
<1>5. CASE trip' = [trip EXCEPT ![p].closure = a.body] /\ Move(p, "upload") /\ UNCHANGED archive
  <2> DEFINE c == With(trip[p], x)
  <2>1. /\ c \in Trips /\ c.closure = x /\ c.name = n /\ c.to = Unset
    BY <1>0, WithIs
  <2>2. at' = [at EXCEPT ![p] = "upload"] /\ trip' = [trip EXCEPT ![p] = c]
    BY <1>0, <1>1, <1>3, <1>5 DEF Move, With, TravelTypes
  <2> HIDE DEF c
  <2>3. Bound("upload", c) /\ Taken("upload", c) /\ Brought("upload", c) /\ Begun("upload", c)
    BY <1>0, <2>1 DEF Bound, Taken, Brought, Begun, Exporting, Fetching, Placing, Making
  <2>4. Carries("upload", c) BY <2>3 DEF Carries
  <2>5. Admitted(p, "upload", c) /\ "upload" \in Stages
    BY DEF Admitted, Holding, ManifestHeld, TemplateHeld, Stages, Exporting
  <2>6. trips' \in Nat /\ trips =< trips' BY <1>2, <1>3 DEF TravelTypes
  <2> QED BY <1>2, <1>5, <2>1, <2>2, <2>4, <2>5, <2>6, Quiet
<1> QED BY <1>2, <1>4, <1>5

LEMMA UploadHolds == ASSUME TravelInv, NEW p \in Hosts, Upload(p) PROVE TravelInv'
<1> DEFINE x == trip[p].closure
           commit == [archive |-> Archive(x), summary |-> x.folder]
<1>0. at[p] = "upload" /\ x \in Closures /\ IsWhole(x)
  BY Carrying DEF Upload, Bound, Taken, Exporting
<1>1. /\ commit \in Commits /\ commit.archive.digests = x /\ commit.summary = x.folder
  BY <1>0 DEF Archive, Archives, Commits, Closures
<1>2. /\ hub' = Append(hub, commit) \/ hub' = hub
      /\ Rest(p) /\ UNCHANGED <<home, shared, archive, era, strays, parcel>> /\ trips' = trips
  BY DEF Upload, Fixed
<1> HIDE DEF x, commit
<1>3. TravelTypes /\ IdsInv /\ TravelsWhole BY DEF TravelInv
<1>4. CASE hub' = hub
  <2>1. UNCHANGED <<home, shared, archive, hub, era, strays, parcel>> BY <1>2, <1>4
  <2> QED BY <1>2, <2>1, RestHolds
<1>5. CASE hub' = Append(hub, commit)
  <2>1. /\ hub' \in Seq(Commits) /\ Len(hub') = Len(hub) + 1 /\ Len(hub) \in Nat /\ hub'[Len(hub) + 1] = commit
        /\ \A k \in 1..Len(hub) : hub'[k] = hub[k]
    BY <1>1, <1>3, <1>5 DEF TravelTypes
  <2>2. \A q \in Hosts \ {p} : Undisturbed(q) BY <1>2, <1>3, <2>1 DEF Undisturbed, TravelTypes
  <2>3. IdsInv' BY <1>2, <1>3, <2>1 DEF IdsInv
  <2>4. TravelsWhole'
    <3>1. \A k \in 1..Len(hub') : IsWhole(hub'[k].archive.digests) /\ hub'[k].summary = hub'[k].archive.digests.folder
      <4> SUFFICES ASSUME NEW k \in 1..Len(hub')
                   PROVE  IsWhole(hub'[k].archive.digests) /\ hub'[k].summary = hub'[k].archive.digests.folder
        OBVIOUS
      <4>1. CASE k = Len(hub) + 1 BY <4>1, <1>0, <1>1, <2>1
      <4>2. CASE k \in 1..Len(hub) BY <4>2, <1>3, <2>1 DEF TravelsWhole
      <4> QED BY <4>1, <4>2, <2>1
    <3>2. (parcel # Gone /\ parcel.commit # Unset) =>
            SameContent(parcel.closure.folder, hub'[parcel.commit].archive.digests.folder)
      <4>1. parcel # Gone /\ parcel.commit # Unset => parcel.commit \in 1..Len(hub) BY <1>3 DEF IdsInv
      <4> QED BY <4>1, <1>3, <2>1 DEF TravelsWhole
    <3> QED BY <3>1, <3>2, <1>2, <1>3 DEF TravelsWhole
  <2> QED BY <1>2, <1>3, <2>1, <2>2, <2>3, <2>4, RestedHolds DEF TravelTypes
<1> QED BY <1>2, <1>4, <1>5

(***************************************************************************)
(* Sources of an install.                                                  *)
(***************************************************************************)

\* A closure that is validated, and whose source is still known, is on its way.
LEMMA PlacingCarries ==
  ASSUME TravelInv, NEW c \in Trips, NEW l \in {"mlock", "tlock", "decide"},
         c.name \in Places, c.to \in Places, c.closure \in Closures, ClosureAgrees(c.closure),
         c.declared # Unset => SameContent(c.closure.folder, c.declared),
         c.commit # Unset => /\ c.commit \in 1..Len(hub)
                             /\ SameContent(c.closure.folder, hub[c.commit].archive.digests.folder)
  PROVE  Carries(l, c)
<1>1. Bound(l, c) /\ Taken(l, c) /\ Brought(l, c) /\ Begun(l, c)
  BY DEF Bound, Taken, Brought, Begun, Exporting, Fetching, Placing, Making
<1> QED BY <1>1 DEF Carries

LEMMA UnlockedIsFree ==
  ASSUME NEW p \in Hosts, NEW c, NEW l \in {"download", "copy", "copytemplate", "mlock"}
  PROVE  Admitted(p, l, c) /\ l \in Stages
BY DEF Admitted, Holding, ManifestHeld, TemplateHeld, Stages, Fetching, Placing

LEMMA OpenArchiveHolds == ASSUME TravelInv, NEW p \in Hosts, OpenArchive(p) PROVE TravelInv'
<1> DEFINE x == archive.body
           c == [trip[p] EXCEPT !.closure = archive.body, !.declared = archive.digests.folder]
<1>0. at[p] = "open" /\ trip[p] \in Trips /\ trip[p].name \in Places /\ trip[p].to \in Places /\ trip[p].commit = Unset
  BY Carrying DEF OpenArchive, Bound, Brought, Fetching
<1>1. CASE archive = Gone \/ ~Extracted(archive) BY <1>1, FailHolds DEF OpenArchive
<1>2. CASE archive # Gone /\ Extracted(archive)
  <2>1. /\ trip' = [trip EXCEPT ![p].closure = archive.body, ![p].declared = archive.digests.folder]
        /\ at' = [at EXCEPT ![p] = "mlock"] /\ UNCHANGED <<home, shared, archive, hub, era, strays, parcel>>
        /\ trips' = trips
    BY <1>2 DEF OpenArchive, Move, Ground, Fixed
  <2>2. TravelTypes /\ archive \in Archives BY <1>2 DEF TravelInv, TravelTypes
  <2>3. /\ x \in Closures /\ archive.digests = x /\ x.folder \in Folders /\ ClosureAgrees(x)
    BY <1>2, <2>2 DEF Archives, Extracted, Closures
  <2>4. trip' = [trip EXCEPT ![p] = c] BY <2>1, <2>2 DEF TravelTypes
  <2>5. /\ c \in Trips /\ c.closure = x /\ c.declared = x.folder /\ c.name = trip[p].name /\ c.to = trip[p].to
        /\ c.commit = trip[p].commit
    BY <1>0, <2>3 DEF Trips
  <2> HIDE DEF c, x
  <2>6. Carries("mlock", c) BY <1>0, <2>3, <2>5, SameIsSame, PlacingCarries
  <2>7. trips' \in Nat /\ trips =< trips' BY <2>1, <2>2 DEF TravelTypes
  <2> QED BY <2>1, <2>4, <2>5, <2>6, <2>7, UnlockedIsFree, Quiet
<1> QED BY <1>1, <1>2

LEMMA ResolveHolds == ASSUME TravelInv, NEW p \in Hosts, Resolve(p) PROVE TravelInv'
<1> DEFINE c == [trip[p] EXCEPT !.commit = Len(hub)]
<1>0. at[p] = "resolve" /\ trip[p] \in Trips /\ trip[p].name \in Places /\ trip[p].to \in Places
      /\ trip[p].declared = Unset
  BY Carrying DEF Resolve, Bound, Brought, Fetching
<1>1. CASE hub = <<>> BY <1>1, FailHolds DEF Resolve
<1>2. CASE hub # <<>>
  <2>1. /\ trip' = [trip EXCEPT ![p].commit = Len(hub)] /\ at' = [at EXCEPT ![p] = "download"]
        /\ UNCHANGED <<home, shared, archive, hub, era, strays, parcel>> /\ trips' = trips
    BY <1>2 DEF Resolve, Move, Ground, Fixed
  <2>2. TravelTypes /\ hub \in Seq(Commits) BY DEF TravelInv, TravelTypes
  <2>3. Len(hub) \in 1..Len(hub) /\ Len(hub) \in Nat BY <1>2, <2>2
  <2>4. trip' = [trip EXCEPT ![p] = c] BY <2>1, <2>2 DEF TravelTypes
  <2>5. c \in Trips /\ c.commit = Len(hub) /\ c.name = trip[p].name /\ c.to = trip[p].to /\ c.declared = Unset
    BY <1>0, <2>3 DEF Trips
  <2> HIDE DEF c
  <2>6. Len(hub) # Unset BY <2>3, UnsetIsNothing
  <2>7. Bound("download", c) /\ Taken("download", c) /\ Brought("download", c) /\ Begun("download", c)
    BY <1>0, <2>3, <2>5, <2>6 DEF Bound, Taken, Brought, Begun, Exporting, Fetching, Placing, Making
  <2>8. Carries("download", c) BY <2>7 DEF Carries
  <2>9. trips' \in Nat /\ trips =< trips' BY <2>1, <2>2 DEF TravelTypes
  <2> QED BY <2>1, <2>4, <2>5, <2>8, <2>9, UnlockedIsFree, Quiet
<1> QED BY <1>1, <1>2

LEMMA DownloadHolds == ASSUME TravelInv, NEW p \in Hosts, Download(p) PROVE TravelInv'
<1> DEFINE a == hub[trip[p].commit].archive
           c == With(trip[p], a.body)
<1>0. at[p] = "download" /\ trip[p] \in Trips /\ trip[p].name \in Places /\ trip[p].to \in Places
      /\ trip[p].declared = Unset /\ trip[p].commit \in 1..Len(hub)
  BY Carrying DEF Download, Bound, Brought, Fetching
<1>1. CASE ~Extracted(a) BY <1>1, FailHolds DEF Download, CommitOf
<1>2. CASE Extracted(a)
  <2>1. Carry(p, a.body, "mlock") BY <1>2 DEF Download, CommitOf
  <2>2. a \in Archives
    <3>1. hub \in Seq(Commits) BY DEF TravelInv, TravelTypes
    <3>2. hub[trip[p].commit] \in Commits BY <1>0, <3>1
    <3> QED BY <3>2 DEF Commits
  <2>3. a.body \in Closures /\ a.digests = a.body /\ ClosureAgrees(a.body)
    BY <1>2, <2>2 DEF Archives, Extracted
  <2>4. /\ c \in Trips /\ c.closure = a.body /\ c.name = trip[p].name /\ c.to = trip[p].to
        /\ c.commit = trip[p].commit /\ c.declared = Unset
    BY <1>0, <2>3, WithIs
  <2>5. c.commit # Unset => /\ c.commit \in 1..Len(hub)
                            /\ SameContent(c.closure.folder, hub[c.commit].archive.digests.folder)
    BY <1>0, <2>3, <2>4, SameIsSame
  <2> HIDE DEF c, a
  <2>6. Carries("mlock", c) BY <1>0, <2>3, <2>4, <2>5, PlacingCarries
  <2> QED BY <2>1, <2>3, <2>6, UnlockedIsFree, CarryHolds DEF c
<1> QED BY <1>1, <1>2

LEMMA LoadLocalHolds == ASSUME TravelInv, NEW p \in Hosts, LoadLocal(p) PROVE TravelInv'
<1> DEFINE x == Closure(home[trip[p].name], Unset)
           c == With(trip[p], x)
<1>0. at[p] = "load" /\ trip[p] \in Trips /\ trip[p].name \in Places /\ trip[p].to \in Places
      /\ trip[p].declared = Unset /\ trip[p].commit = Unset /\ home \in [Places -> Folders \cup {Gone}]
  BY Carrying DEF LoadLocal, Bound, Brought, Fetching
<1>1. CASE home[trip[p].name] = Gone BY <1>1, FailHolds DEF LoadLocal
<1>2. CASE home[trip[p].name] # Gone
  <2>1. Carry(p, x, "copy") BY <1>2 DEF LoadLocal
  <2>2. home[trip[p].name] \in Folders BY <1>0, <1>2
  <2>3. x \in Closures BY <2>2, ClosureTyped
  <2> HIDE DEF x
  <2>4. /\ c.closure = x /\ c.name = trip[p].name /\ c.to = trip[p].to /\ c.commit = Unset /\ c.declared = Unset
    BY <1>0, <2>3, WithIs
  <2> HIDE DEF c
  <2>5. Bound("copy", c) /\ Taken("copy", c) /\ Brought("copy", c) /\ Begun("copy", c)
    BY <1>0, <2>3, <2>4 DEF Bound, Taken, Brought, Begun, Exporting, Fetching, Placing, Making
  <2>6. Carries("copy", c) BY <2>5 DEF Carries
  <2> QED BY <2>1, <2>3, <2>6, UnlockedIsFree, CarryHolds DEF c
<1> QED BY <1>1, <1>2

LEMMA CopyLocalHolds == ASSUME TravelInv, NEW p \in Hosts, CopyLocal(p) PROVE TravelInv'
<1> DEFINE now == home[trip[p].name]
           f == trip[p].closure.folder
           g == [f EXCEPT !.corpus = now.corpus]
           x == Closure(g, Unset)
           c == With(trip[p], x)
<1>0. at[p] = "copy" /\ trip[p] \in Trips /\ trip[p].name \in Places /\ trip[p].to \in Places
      /\ trip[p].declared = Unset /\ trip[p].commit = Unset /\ home \in [Places -> Folders \cup {Gone}]
      /\ trip[p].closure \in Closures
  BY Carrying DEF CopyLocal, Bound, Brought, Fetching
<1>1. CASE now = Gone \/ now.fits # f.fits BY <1>1, FailHolds DEF CopyLocal
<1>2. CASE ~(now = Gone \/ now.fits # f.fits)
  <2>1. Carry(p, x, "copytemplate") BY <1>2 DEF CopyLocal
  <2>2. now \in Folders /\ f \in Folders BY <1>0, <1>2 DEF Closures
  <2>3. g \in Folders BY <2>2 DEF Folders
  <2> HIDE DEF g
  <2>4. x \in Closures BY <2>3, ClosureTyped
  <2> HIDE DEF x
  <2>5. /\ c.closure = x /\ c.name = trip[p].name /\ c.to = trip[p].to /\ c.commit = Unset /\ c.declared = Unset
    BY <1>0, <2>4, WithIs
  <2> HIDE DEF c
  <2>6. Bound("copytemplate", c) /\ Taken("copytemplate", c) /\ Brought("copytemplate", c) /\ Begun("copytemplate", c)
    BY <1>0, <2>4, <2>5 DEF Bound, Taken, Brought, Begun, Exporting, Fetching, Placing, Making
  <2>7. Carries("copytemplate", c) BY <2>6 DEF Carries
  <2> QED BY <2>1, <2>4, <2>7, UnlockedIsFree, CarryHolds DEF c
<1> QED BY <1>1, <1>2

LEMMA CopyLocalTemplateHolds == ASSUME TravelInv, NEW p \in Hosts, CopyLocalTemplate(p) PROVE TravelInv'
<1> DEFINE x == Closure(trip[p].closure.folder, shared)
           c == With(trip[p], x)
<1>0. at[p] = "copytemplate" /\ trip[p] \in Trips /\ trip[p].name \in Places /\ trip[p].to \in Places
      /\ trip[p].declared = Unset /\ trip[p].commit = Unset /\ trip[p].closure \in Closures
      /\ shared \in Texts \cup {Gone}
  BY Carrying DEF CopyLocalTemplate, Bound, Brought, Fetching
<1>1. CASE ~ClosureAgrees(x) BY <1>1, FailHolds DEF CopyLocalTemplate
<1>2. CASE ClosureAgrees(x)
  <2>1. Carry(p, x, "mlock") BY <1>2 DEF CopyLocalTemplate
  <2>2. trip[p].closure.folder \in Folders BY <1>0 DEF Closures
  <2>3. x \in Closures BY <1>0, <2>2, ClosureTyped
  <2> HIDE DEF x
  <2>4. /\ c \in Trips /\ c.closure = x /\ c.name = trip[p].name /\ c.to = trip[p].to
        /\ c.commit = Unset /\ c.declared = Unset
    BY <1>0, <2>3, WithIs
  <2> HIDE DEF c
  <2>5. Carries("mlock", c) BY <1>0, <1>2, <2>3, <2>4, PlacingCarries
  <2> QED BY <2>1, <2>3, <2>5, UnlockedIsFree, CarryHolds DEF c
<1> QED BY <1>1, <1>2

(***************************************************************************)
(* An install under its locks.                                             *)
(***************************************************************************)

LEMMA Placed ==
  ASSUME TravelInv, NEW p \in Hosts, at[p] \in Placing
  PROVE  /\ trip[p].name \in Places /\ trip[p].to \in Places /\ trip[p].closure \in Closures
         /\ Destination(p) = trip[p].to /\ ClosureAgrees(trip[p].closure)
         /\ trip[p].declared # Unset => SameContent(trip[p].closure.folder, trip[p].declared)
         /\ trip[p].commit # Unset =>
              /\ trip[p].commit \in 1..Len(hub)
              /\ SameContent(trip[p].closure.folder, hub[trip[p].commit].archive.digests.folder)
<1>1. Bound(at[p], trip[p]) /\ Brought(at[p], trip[p]) BY Carrying
<1>2. trip[p].name \in Places /\ trip[p].to \in Places /\ trip[p].closure \in Closures
  BY <1>1 DEF Bound, Placing
<1>3. Destination(p) = trip[p].to BY <1>2, UnsetIsNothing DEF Destination
<1> QED BY <1>1, <1>2, <1>3 DEF Brought

LEMMA LockTargetHolds == ASSUME TravelInv, NEW p \in Hosts, LockTarget(p) PROVE TravelInv'
<1>0. at[p] = "mlock" /\ at[p] \in Placing BY DEF LockTarget, Placing
<1>1. /\ ManifestIsFree(trip[p].to, p) /\ at' = [at EXCEPT ![p] = "tlock"] /\ trip' = trip /\ trips' = trips
      /\ UNCHANGED <<home, shared, archive, hub, era, strays, parcel>>
  BY DEF LockTarget, Move, Ground, Fixed
<1>2. trip' = [trip EXCEPT ![p] = trip[p]] /\ trip[p] \in Trips /\ trips' \in Nat /\ trips =< trips'
  BY <1>1 DEF TravelInv, TravelTypes
<1>3. Carries("tlock", trip[p]) BY <1>0, <1>2, Placed, PlacingCarries
<1>4. Admitted(p, "tlock", trip[p])
  <2>1. TargetOf(trip[p]) = trip[p].to BY <1>0, Placed, Carrying
  <2> QED BY <2>1, <1>1 DEF Admitted, ManifestIsFree, Holding, TemplateHeld
<1>5. "tlock" \in Stages BY DEF Stages, Placing
<1> QED BY <1>1, <1>2, <1>3, <1>4, <1>5, Quiet

LEMMA LockTemplateHolds == ASSUME TravelInv, NEW p \in Hosts, LockTemplate(p) PROVE TravelInv'
<1>0. at[p] = "tlock" /\ at[p] \in Placing /\ at[p] \in ManifestHeld BY DEF LockTemplate, Placing, ManifestHeld
<1>1. /\ trip[p].closure.folder.ref => TemplateIsFree(p)
      /\ at' = [at EXCEPT ![p] = "decide"] /\ trip' = trip /\ trips' = trips
      /\ UNCHANGED <<home, shared, archive, hub, era, strays, parcel>>
  BY DEF LockTemplate, Move, Ground, Fixed
<1>2. trip' = [trip EXCEPT ![p] = trip[p]] /\ trip[p] \in Trips /\ trips' \in Nat /\ trips =< trips'
  BY <1>1 DEF TravelInv, TravelTypes
<1>3. Carries("decide", trip[p]) BY <1>0, <1>2, Placed, PlacingCarries
<1>4. Admitted(p, "decide", trip[p])
  <2>1. Holding("decide", trip[p]) => TemplateIsFree(p) BY <1>1 DEF Holding
  <2>2. TargetOf(trip[p]) = Destination(p) BY Carrying
  <2> QED BY <2>1, <2>2, <1>0, StillAdmitted
<1>5. "decide" \in Stages BY DEF Stages, Placing
<1> QED BY <1>1, <1>2, <1>3, <1>4, <1>5, Quiet

\* A rewritten folder says what it said, under its new name.
LEMMA RewrittenIs ==
  ASSUME NEW p, trip[p].closure.folder \in Folders, trip[p].to \in Places, trip[p].commit \in Nat \cup {Unset}
  PROVE  /\ Rewritten(p) \in Folders
         /\ Rewritten(p).source = trip[p].commit /\ Rewritten(p).id = Unset
         /\ Rewritten(p).labels = trip[p].closure.folder.labels
         /\ Rewritten(p).corpus = trip[p].closure.folder.corpus
         /\ Rewritten(p).ref = trip[p].closure.folder.ref
         /\ SameContent(Rewritten(p), trip[p].closure.folder)
<1> DEFINE f == trip[p].closure.folder
           fits == [m \in Models |-> IF f.fits[m] = Unset THEN Unset ELSE [f.fits[m] EXCEPT !.name = trip[p].to]]
<1>1. f \in Folders /\ f.fits \in [Models -> Pairs \cup {Unset}] BY DEF Folders
<1>2. Rewritten(p) = [f EXCEPT !.name = trip[p].to, !.source = trip[p].commit, !.id = Unset, !.fits = fits]
  BY <1>1 DEF Rewritten
<1> HIDE DEF f
<1>3. \A m \in Models : f.fits[m] # Unset => [f.fits[m] EXCEPT !.name = trip[p].to] \in Pairs
  BY <1>1 DEF Pairs
<1>4. fits \in [Models -> Pairs \cup {Unset}] /\ \A m \in Models : (fits[m] = Unset) = (f.fits[m] = Unset)
  BY <1>3, UnsetIsNothing
<1> HIDE DEF fits
<1>5. Rewritten(p) = [name |-> trip[p].to, labels |-> f.labels, ref |-> f.ref, corpus |-> f.corpus,
                      fits |-> fits, source |-> trip[p].commit, id |-> Unset]
  BY <1>1, <1>2 DEF Folders
<1>6. Rewritten(p) \in Folders BY <1>1, <1>4, <1>5 DEF Folders
<1>7. SameContent(Rewritten(p), f) BY <1>4, <1>5 DEF SameContent
<1> QED BY <1>5, <1>6, <1>7 DEF f

LEMMA DecideHolds == ASSUME TravelInv, NEW p \in Hosts, Decide(p) PROVE TravelInv'
<1> DEFINE x == [trip[p].closure EXCEPT !.folder = Rewritten(p)]
           verdict == TemplateVerdict(p)
           l == IF verdict = "install" THEN "ptemplate" ELSE "pmanifold"
           c == With(trip[p], x)
           fails == (home[trip[p].to] # Gone /\ ~trip[p].force) \/ verdict = "conflict" \/ ~PairsAreProven(x)
<1>0. at[p] = "decide" /\ at[p] \in Placing /\ at[p] \in ManifestHeld /\ at[p] \in TemplateHeld
  BY DEF Decide, Placing, ManifestHeld, TemplateHeld
<1>1. CASE fails BY <1>1, FailHolds DEF Decide
<1>2. CASE ~fails
  <2>1. Carry(p, x, l) /\ verdict # "conflict" /\ PairsAreProven(x) BY <1>2 DEF Decide
  <2>2. trip[p] \in Trips /\ trip[p].closure \in Closures /\ trip[p].closure.folder \in Folders
        /\ trip[p].to \in Places /\ trip[p].commit \in Nat \cup {Unset}
    BY <1>0, Placed, Carrying DEF Closures, Trips
  <2>3. /\ Rewritten(p) \in Folders /\ Rewritten(p).source = trip[p].commit /\ Rewritten(p).id = Unset
        /\ Rewritten(p).labels = trip[p].closure.folder.labels
        /\ Rewritten(p).corpus = trip[p].closure.folder.corpus
        /\ Rewritten(p).ref = trip[p].closure.folder.ref
        /\ SameContent(Rewritten(p), trip[p].closure.folder)
    BY <2>2, RewrittenIs
  <2>4. x \in Closures /\ x.folder = Rewritten(p) /\ x.template = trip[p].closure.template
    BY <2>2, <2>3 DEF Closures
  <2>5. ClosureAgrees(x)
    <3>1. ClosureAgrees(trip[p].closure) BY <1>0, Placed
    <3> QED BY <3>1, <2>3, <2>4 DEF ClosureAgrees
  <2>6. /\ verdict = "install" => x.folder.ref
        /\ verdict # "install" /\ x.folder.ref => shared = x.template
    BY <2>1, <2>3, <2>4 DEF TemplateVerdict
  <2> HIDE DEF x, verdict
  <2>7. /\ c \in Trips /\ c.closure = x /\ c.name = trip[p].name /\ c.to = trip[p].to
        /\ c.commit = trip[p].commit /\ c.declared = trip[p].declared /\ TargetOf(c) = TargetOf(trip[p])
    BY <2>2, <2>4, WithIs
  <2> HIDE DEF c
  <2>8. /\ c.declared # Unset => SameContent(x.folder, c.declared)
        /\ c.commit # Unset => /\ c.commit \in 1..Len(hub)
                               /\ SameContent(x.folder, hub[c.commit].archive.digests.folder)
    BY <1>0, <2>3, <2>4, <2>7, Placed, SameFollows
  <2>9. l \in {"ptemplate", "pmanifold"} OBVIOUS
  <2>10. l = "ptemplate" <=> verdict = "install" OBVIOUS
  <2> HIDE DEF l
  <2>11. Bound(l, c) /\ Taken(l, c) /\ Begun(l, c)
    BY <1>0, <2>4, <2>7, <2>9, Placed DEF Bound, Taken, Begun, Exporting, Fetching, Placing, Making
  <2>12. Brought(l, c)
    BY <2>1, <2>3, <2>4, <2>5, <2>6, <2>7, <2>8, <2>9, <2>10 DEF Brought, Fetching, Placing
  <2>13. Carries(l, c) BY <2>11, <2>12 DEF Carries
  <2>14. Admitted(p, l, c)
    <3>1. Holding(l, c) => HoldsTemplate(p)
      BY <1>0, <2>2, <2>3, <2>4, <2>7, UnsetIsNothing DEF Holding, HoldsTemplate
    <3>2. TargetOf(c) = Destination(p) BY <2>7, Carrying
    <3> QED BY <3>1, <3>2, <1>0, StillAdmitted
  <2>15. l \in Stages BY <2>9 DEF Stages, Placing
  <2> QED BY <2>1, <2>4, <2>13, <2>14, <2>15, CarryHolds DEF c
<1> QED BY <1>1, <1>2

LEMMA PromoteTemplateHolds == ASSUME TravelInv, NEW p \in Hosts, PromoteTemplate(p) PROVE TravelInv'
<1> DEFINE c == trip[p]
<1>0. at[p] = "ptemplate" /\ at[p] \in Placing /\ at[p] \in ManifestHeld /\ at[p] \in TemplateHeld
  BY DEF PromoteTemplate, Placing, ManifestHeld, TemplateHeld
<1>1. /\ shared' = c.closure.template /\ at' = [at EXCEPT ![p] = "pmanifold"] /\ trip' = trip
      /\ UNCHANGED <<home, archive, hub, era, strays, parcel>> /\ trips' = trips
  BY DEF PromoteTemplate, Move, Fixed
<1>2. TravelTypes /\ IdsInv /\ LocksInv /\ TravelsWhole BY DEF TravelInv
<1>3. /\ c.closure \in Closures /\ c.closure.folder.ref /\ ClosureAgrees(c.closure) /\ c.closure.folder \in Folders
      /\ Bound("ptemplate", c) /\ Brought("ptemplate", c)
  BY <1>0, Placed, Carrying DEF Brought, Closures
<1>4. shared' \in Texts BY <1>1, <1>3 DEF ClosureAgrees, Folders
<1>5. at'[p] = "pmanifold" /\ trip'[p] = c /\ at' \in [Hosts -> Stages] /\ trip' = [trip EXCEPT ![p] = c]
  BY <1>1, <1>2 DEF TravelTypes, Stages, Placing
<1>6. TravelTypes' BY <1>1, <1>2, <1>4, <1>5 DEF TravelTypes
<1>7. HoldsTemplate(p) BY <1>0, <1>3, UnsetIsNothing DEF HoldsTemplate
<1>8. \A q \in Hosts \ {p} : Undisturbed(q)
  BY <1>1, <1>2, <1>7 DEF Undisturbed, TravelTypes, LocksInv
<1>9. Carries(at[p], trip[p])'
  <2>1. Bound(at[p], trip[p])' BY <1>3, <1>5 DEF Bound, Exporting, Fetching, Placing, Making
  <2>2. Brought(at[p], trip[p])' BY <1>1, <1>3, <1>5 DEF Brought, Fetching, Placing
  <2>3. Taken(at[p], trip[p])' /\ Begun(at[p], trip[p])' BY <1>5 DEF Taken, Begun
  <2> QED BY <2>1, <2>2, <2>3 DEF Carries
<1>10. Admitted(p, "pmanifold", c)
  <2>1. TargetOf(c) = Destination(p) BY Carrying
  <2> QED BY <2>1, <1>0, <1>7, StillAdmitted
<1>11. IdsInv' BY <1>1, <1>2 DEF IdsInv
<1>12. TravelsWhole' BY <1>1, <1>2 DEF TravelsWhole
<1> QED BY <1>1, <1>5, <1>6, <1>8, <1>9, <1>10, <1>11, <1>12, MovedHolds

\* A folder changes whose lock a process does not hold: it keeps what it relies on.
LEMMA HomeWritten ==
  ASSUME TravelInv, NEW q \in Hosts, NEW n \in Places, at[q] \in ManifestHeld => Destination(q) # n,
         \A o \in Places : o # n => home'[o] = home[o] /\ era'[o] = era[o],
         shared' = shared, hub' = hub, trips =< trips',
         \A i \in Nat : i < trips /\ home'[n] # Gone /\ home'[n].id = i =>
           home[n] # Gone /\ home[n].id = i /\ era'[n] = era[n]
  PROVE  Undisturbed(q)
<1>1. Bound(at[q], trip[q]) /\ Begun(at[q], trip[q]) BY Carrying
<1>2. Len(hub) \in Nat BY DEF TravelInv, TravelTypes
<1>3. at[q] \in {"xlock", "xcheck", "xwrite"} => home'[trip[q].name] = home[trip[q].name]
  BY <1>1 DEF Bound, Exporting, ManifestHeld, Destination
<1>4. ASSUME at[q] = "fitting", home'[trip[q].name] # Gone, home'[trip[q].name].id = trip[q].snap[1]
      PROVE  /\ home[trip[q].name] # Gone /\ home[trip[q].name].id = trip[q].snap[1]
             /\ era'[trip[q].name] = era[trip[q].name]
  <2>1. trip[q].name \in Places /\ trip[q].snap[1] \in Nat /\ trip[q].snap[1] < trips
    BY <1>1, <1>4 DEF Bound, Begun
  <2>2. CASE trip[q].name = n BY <1>4, <2>1, <2>2
  <2>3. CASE trip[q].name # n BY <1>4, <2>1, <2>3
  <2> QED BY <2>2, <2>3
<1> QED BY <1>2, <1>3, <1>4 DEF Undisturbed

LEMMA PromoteManifoldHolds == ASSUME TravelInv, NEW p \in Hosts, PromoteManifold(p) PROVE TravelInv'
<1> DEFINE c == trip[p]
           n == trip[p].to
           f == trip[p].closure.folder
<1>0. at[p] = "pmanifold" /\ at[p] \in Placing /\ at[p] \in ManifestHeld BY DEF PromoteManifold, Placing, ManifestHeld
<1>1. /\ home' = [home EXCEPT ![n] = f] /\ era' = [era EXCEPT ![n] = @ + 1]
      /\ parcel' = [closure |-> Closure(f, shared), commit |-> c.commit, declared |-> c.declared]
      /\ Rest(p) /\ UNCHANGED <<shared, archive, hub, strays>> /\ trips' = trips
  BY DEF PromoteManifold, Fixed
<1>2. TravelTypes /\ IdsInv /\ LocksInv /\ TravelsWhole BY DEF TravelInv
<1>3. /\ n \in Places /\ c.closure \in Closures /\ f \in Folders /\ Destination(p) = n /\ ClosureAgrees(c.closure)
      /\ c.declared # Unset => SameContent(f, c.declared)
      /\ c.commit # Unset => c.commit \in 1..Len(hub) /\ SameContent(f, hub[c.commit].archive.digests.folder)
  BY <1>0, Placed DEF Closures
<1>4. /\ PairsAreProven(c.closure) /\ f.source = c.commit /\ f.id = Unset
      /\ f.ref => shared = c.closure.template
  BY <1>0, Carrying DEF Brought
<1>5. Closure(f, shared) = c.closure
  <2>1. c.closure = [folder |-> f, template |-> c.closure.template] BY <1>3 DEF Closures
  <2>2. c.closure.template = IF f.ref THEN shared ELSE Unset BY <1>3, <1>4 DEF ClosureAgrees
  <2> QED BY <2>1, <2>2 DEF Closure
<1>6. IsWhole(c.closure) BY <1>3, <1>4, ProvenIsWhole
<1>7. parcel'.closure = c.closure /\ parcel'.commit = c.commit /\ parcel'.declared = c.declared BY <1>1, <1>5
<1> HIDE DEF c, n, f
<1>8. /\ home' \in [Places -> Folders \cup {Gone}] /\ home'[n] = f
      /\ era' \in [Places -> Nat] /\ \A o \in Places : o # n => home'[o] = home[o] /\ era'[o] = era[o]
  BY <1>1, <1>2, <1>3 DEF TravelTypes
<1>9. \A q \in Hosts \ {p} : Undisturbed(q)
  <2> SUFFICES ASSUME NEW q \in Hosts, q # p PROVE Undisturbed(q) OBVIOUS
  <2>1. at[q] \in ManifestHeld => Destination(q) # n BY <1>0, <1>2, <1>3 DEF LocksInv
  <2>2. \A i \in Nat : ~(home'[n].id = i) BY <1>4, <1>8, UnsetIsNothing DEF f
  <2>3. trips =< trips' BY <1>1, <1>2 DEF TravelTypes
  <2> QED BY <1>1, <1>3, <1>8, <2>1, <2>2, <2>3, HomeWritten
<1>10. IdsInv'
  <2>1. home'[n].id = Unset BY <1>4, <1>8 DEF f
  <2>2. parcel'.commit # Unset => parcel'.commit \in 1..Len(hub') BY <1>1, <1>3, <1>7 DEF f, c
  <2> QED BY <1>1, <1>2, <1>8, <2>1, <2>2 DEF IdsInv
<1>11. TravelsWhole'
  <2>1. /\ IsWhole(parcel'.closure) /\ parcel'.closure.folder.source = parcel'.commit
        /\ parcel'.declared # Unset => SameContent(parcel'.closure.folder, parcel'.declared)
        /\ parcel'.commit # Unset => SameContent(parcel'.closure.folder, hub[parcel'.commit].archive.digests.folder)
    BY <1>3, <1>4, <1>6, <1>7 DEF f, c
  <2> QED BY <2>1, <1>1, <1>2 DEF TravelsWhole
<1>12. /\ shared' \in Texts \cup {Gone} /\ archive' \in Archives \cup {Gone} /\ hub' \in Seq(Commits) /\ trips' \in Nat
  BY <1>1, <1>2 DEF TravelTypes
<1> QED BY <1>1, <1>8, <1>9, <1>10, <1>11, <1>12, RestedHolds

(***************************************************************************)
(* Authoring and fitting.                                                  *)
(***************************************************************************)

LEMMA ManifoldTyped ==
  ASSUME NEW n \in Places, NEW ref \in BOOLEAN, NEW text \in Texts
  PROVE  Manifold(n, ref, text) \in Folders /\ Manifold(n, ref, text).id = Unset
BY DEF Manifold, Folders, NoFits

LEMMA ResolveTemplateHolds == ASSUME TravelInv, NEW p \in Hosts, ResolveTemplate(p) PROVE TravelInv'
<1> DEFINE n == trip[p].name
           f == Manifold(n, TRUE, shared)
           x == Closure(f, shared)
<1>0. at[p] = "resolving" /\ trip[p] \in Trips /\ n \in Places /\ trip[p].to = Unset
      /\ shared \in Texts \cup {Gone}
  BY Carrying DEF ResolveTemplate, Bound, Making
<1>1. CASE shared = Gone BY <1>1, FailHolds DEF ResolveTemplate
<1>2. CASE shared # Gone
  <2>1. ManifestIsFree(n, p) /\ Carry(p, x, "authored") BY <1>2 DEF ResolveTemplate
  <2>2. shared \in Texts BY <1>0, <1>2
  <2>3. f \in Folders /\ f.id = Unset BY <1>0, <2>2, ManifoldTyped
  <2> HIDE DEF f
  <2>4. x \in Closures /\ x.folder = f BY <2>2, <2>3, ClosureTyped
  <2> HIDE DEF x
  <2> DEFINE c == With(trip[p], x)
  <2>5. /\ c \in Trips /\ c.closure = x /\ c.name = n /\ c.to = Unset /\ TargetOf(c) = n
    BY <1>0, <2>4, WithIs DEF TargetOf
  <2> HIDE DEF c
  <2>6. Bound("authored", c) /\ Taken("authored", c) /\ Brought("authored", c) /\ Begun("authored", c)
    BY <1>0, <2>3, <2>4, <2>5 DEF Bound, Taken, Brought, Begun, Exporting, Fetching, Placing, Making
  <2>7. Carries("authored", c) BY <2>6 DEF Carries
  <2>8. Admitted(p, "authored", c) BY <2>1, <2>5 DEF Admitted, ManifestIsFree, Holding, TemplateHeld
  <2>9. "authored" \in Stages BY DEF Stages, Making
  <2> QED BY <2>1, <2>4, <2>7, <2>8, <2>9, CarryHolds DEF c
<1> QED BY <1>1, <1>2

LEMMA PublishAuthoredHolds == ASSUME TravelInv, NEW p \in Hosts, PublishAuthored(p) PROVE TravelInv'
<1> DEFINE n == trip[p].name
           f == trip[p].closure.folder
<1>0. at[p] = "authored" /\ at[p] \in ManifestHeld /\ n \in Places /\ trip[p].to = Unset
      /\ trip[p].closure \in Closures /\ f \in Folders /\ f.id = Unset /\ Destination(p) = n
  BY Carrying DEF PublishAuthored, ManifestHeld, Bound, Begun, Making, Closures, Destination
<1>1. CASE home[n] # Gone /\ ~trip[p].force BY <1>1, FailHolds DEF PublishAuthored
<1>2. CASE ~(home[n] # Gone /\ ~trip[p].force)
  <2>1. /\ home' = [home EXCEPT ![n] = f] /\ era' = [era EXCEPT ![n] = @ + 1] /\ Rest(p)
        /\ UNCHANGED <<shared, archive, hub, strays, parcel>> /\ trips' = trips
    BY <1>2 DEF PublishAuthored, Fixed
  <2> HIDE DEF n, f
  <2>2. TravelTypes /\ IdsInv /\ LocksInv /\ TravelsWhole BY DEF TravelInv
  <2>3. /\ home' \in [Places -> Folders \cup {Gone}] /\ home'[n] = f
        /\ era' \in [Places -> Nat] /\ \A o \in Places : o # n => home'[o] = home[o] /\ era'[o] = era[o]
    BY <1>0, <2>1, <2>2 DEF TravelTypes
  <2>4. \A q \in Hosts \ {p} : Undisturbed(q)
    <3> SUFFICES ASSUME NEW q \in Hosts, q # p PROVE Undisturbed(q) OBVIOUS
    <3>1. at[q] \in ManifestHeld => Destination(q) # n BY <1>0, <2>2 DEF LocksInv
    <3>2. \A i \in Nat : ~(home'[n].id = i) BY <1>0, <2>3, UnsetIsNothing
    <3>3. trips =< trips' BY <2>1, <2>2 DEF TravelTypes
    <3> QED BY <1>0, <2>1, <2>3, <3>1, <3>2, <3>3, HomeWritten
  <2>5. IdsInv' BY <1>0, <2>1, <2>2, <2>3 DEF IdsInv
  <2>6. TravelsWhole' BY <2>1, <2>2 DEF TravelsWhole
  <2>7. /\ shared' \in Texts \cup {Gone} /\ archive' \in Archives \cup {Gone} /\ hub' \in Seq(Commits) /\ trips' \in Nat
    BY <2>1, <2>2 DEF TravelTypes
  <2> QED BY <2>1, <2>3, <2>4, <2>5, <2>6, <2>7, RestedHolds
<1> QED BY <1>1, <1>2

LEMMA BeginFitHolds ==
  ASSUME TravelInv, NEW p \in Hosts, NEW n \in Places, NEW m \in Models, BeginFit(p, n, m) PROVE TravelInv'
<1> DEFINE id == IF home[n].id = Unset THEN trips ELSE home[n].id
           sha == NodesSha(home[n], shared)
           c == [NoTrip EXCEPT !.op = "fit", !.name = n, !.keep = {m}, !.began = era[n], !.snap = <<id, sha>>]
           g == [home[n] EXCEPT !.id = id]
<1>1. /\ home[n] # Gone /\ ManifestIsFree(n, p) /\ at[p] = "idle"
      /\ trips' = trips + 1 /\ at' = [at EXCEPT ![p] = "fitting"]
      /\ home' = [home EXCEPT ![n].id = id] /\ trip' = [trip EXCEPT ![p] = c]
      /\ UNCHANGED <<shared, archive, hub, era, strays, parcel>>
  BY DEF BeginFit, Move
<1>2. TravelTypes /\ IdsInv /\ LocksInv /\ TravelsWhole BY DEF TravelInv
<1>3. home[n] \in Folders /\ era[n] \in Nat /\ trips \in Nat BY <1>1, <1>2 DEF TravelTypes
<1>4. id \in Nat /\ id < trips + 1 /\ sha \in Shas
  <2>1. home[n].id \in Nat \cup {Unset} BY <1>3 DEF Folders
  <2>2. home[n].id # Unset => home[n].id < trips BY <1>1, <1>2 DEF IdsInv
  <2>3. shared \in Texts \cup {Gone, Unset} BY <1>2 DEF TravelTypes
  <2> QED BY <1>3, <2>1, <2>2, <2>3, ShaTyped
<1>5. id = home[n].id \/ id = trips OBVIOUS
<1> HIDE DEF id, sha
<1>6. /\ c \in Trips /\ c.name = n /\ c.to = Unset /\ c.closure = Unset /\ c.began = era[n] /\ c.snap = <<id, sha>>
      /\ c.snap \in Nat \X Shas /\ c.snap[1] = id
  BY <1>3, <1>4 DEF NoTrip, Trips, TripOps
<1> HIDE DEF c
<1>7. g \in Folders /\ g.id = id BY <1>3, <1>4 DEF Folders
<1>8. /\ home' = [home EXCEPT ![n] = g] /\ home' \in [Places -> Folders \cup {Gone}] /\ home'[n] = g
      /\ \A o \in Places : o # n => home'[o] = home[o]
  BY <1>1, <1>2, <1>7 DEF TravelTypes
<1> HIDE DEF g
<1>9. at'[p] = "fitting" /\ trip'[p] = c /\ at' \in [Hosts -> Stages] /\ trip' \in [Hosts -> Trips] /\ trips' \in Nat
  BY <1>1, <1>2, <1>3, <1>6 DEF TravelTypes, Stages, Making
<1>10. TravelTypes' BY <1>1, <1>2, <1>8, <1>9 DEF TravelTypes
<1>11. \A q \in Hosts \ {p} : Undisturbed(q)
  <2> SUFFICES ASSUME NEW q \in Hosts, q # p PROVE Undisturbed(q) OBVIOUS
  <2>1. at[q] \in ManifestHeld => Destination(q) # n BY <1>1 DEF ManifestIsFree
  <2>2. \A i \in Nat : i < trips /\ home'[n] # Gone /\ home'[n].id = i =>
          home[n] # Gone /\ home[n].id = i /\ era'[n] = era[n]
    BY <1>1, <1>3, <1>5, <1>7, <1>8
  <2>3. trips =< trips' BY <1>1, <1>3
  <2>4. \A o \in Places : o # n => home'[o] = home[o] /\ era'[o] = era[o] BY <1>1, <1>8
  <2> QED BY <1>1, <2>1, <2>2, <2>3, <2>4, HomeWritten
<1>12. Carries(at[p], trip[p])'
  <2>1. Bound(at[p], trip[p])' BY <1>6, <1>9 DEF Bound, Exporting, Fetching, Placing, Making
  <2>2. Taken(at[p], trip[p])' /\ Brought(at[p], trip[p])' BY <1>9 DEF Taken, Brought, Fetching, Placing
  <2>3. Begun(at[p], trip[p])' BY <1>1, <1>4, <1>6, <1>9 DEF Begun
  <2> QED BY <2>1, <2>2, <2>3 DEF Carries
<1>13. Admitted(p, "fitting", c) BY DEF Admitted, Holding, ManifestHeld, TemplateHeld
<1>14. IdsInv'
  <2>1. \A o \in Places : home[o] # Gone /\ home[o].id # Unset => home[o].id < trips /\ home[o].id \in Nat
    BY <1>2 DEF IdsInv, TravelTypes, Folders
  <2>2. \A o \in Places : home'[o] # Gone /\ home'[o].id # Unset => home'[o].id < trips'
    BY <1>1, <1>3, <1>4, <1>7, <1>8, <2>1
  <2> QED BY <1>1, <1>2, <2>2 DEF IdsInv
<1>15. TravelsWhole' BY <1>1, <1>2 DEF TravelsWhole
<1> QED BY <1>1, <1>10, <1>11, <1>12, <1>13, <1>14, <1>15, MovedHolds

LEMMA PublishFitHolds == ASSUME TravelInv, NEW p \in Hosts, PublishFit(p) PROVE TravelInv'
<1> DEFINE n == trip[p].name
           sha == NodesSha(home[n], shared)
           pair == [name |-> n, of |-> sha]
           fits == [m \in Models |-> IF m \in trip[p].keep THEN pair ELSE home[n].fits[m]]
           g == [home[n] EXCEPT !.fits = fits]
<1>0. at[p] = "fitting" /\ n \in Places /\ ManifestIsFree(n, p) BY Carrying DEF PublishFit, Bound
<1>1. CASE home[n] = Gone \/ Generation(n) # trip[p].snap BY <1>1, FailHolds DEF PublishFit
<1>2. CASE home[n] # Gone /\ Generation(n) = trip[p].snap
  <2>1. TravelTypes /\ IdsInv /\ LocksInv /\ TravelsWhole BY DEF TravelInv
  <2>2. home[n] \in Folders /\ home[n].fits \in [Models -> Pairs \cup {Unset}] /\ shared \in Texts \cup {Gone, Unset}
    BY <1>0, <1>2, <2>1 DEF TravelTypes, Folders
  <2>3. /\ home' = [home EXCEPT ![n].fits = [m \in Models |-> IF m \in trip[p].keep THEN pair ELSE @[m]]]
        /\ strays' = (strays \/ era[n] # trip[p].began) /\ Rest(p)
        /\ UNCHANGED <<shared, archive, hub, era, parcel>> /\ trips' = trips
    BY <1>2 DEF PublishFit, Fixed
  <2>4. home[n].id = trip[p].snap[1] /\ era[n] = trip[p].began
    BY <1>0, <1>2, Carrying DEF Begun, Generation
  <2>5. home' = [home EXCEPT ![n] = g] BY <2>1, <2>2, <2>3 DEF TravelTypes
  <2>6. sha \in Shas BY <2>2, ShaTyped
  <2> HIDE DEF sha
  <2>7. pair \in Pairs BY <1>0, <2>6 DEF Pairs
  <2> HIDE DEF pair
  <2>8. fits \in [Models -> Pairs \cup {Unset}] BY <2>2, <2>7
  <2> HIDE DEF fits
  <2>9. g \in Folders /\ g.id = home[n].id BY <2>2, <2>8 DEF Folders
  <2> HIDE DEF g
  <2>10. /\ home' \in [Places -> Folders \cup {Gone}] /\ home'[n] = g
         /\ \A o \in Places : o # n => home'[o] = home[o] /\ era'[o] = era[o]
    BY <1>0, <2>1, <2>3, <2>5, <2>9 DEF TravelTypes
  <2>11. \A q \in Hosts \ {p} : Undisturbed(q)
    <3> SUFFICES ASSUME NEW q \in Hosts, q # p PROVE Undisturbed(q) OBVIOUS
    <3>1. at[q] \in ManifestHeld => Destination(q) # n BY <1>0 DEF ManifestIsFree
    <3>2. trips =< trips' BY <2>1, <2>3 DEF TravelTypes
    <3> HIDE DEF n
    <3> QED BY <1>0, <1>2, <2>3, <2>9, <2>10, <3>1, <3>2, HomeWritten
  <2>12. IdsInv' BY <1>0, <1>2, <2>1, <2>3, <2>9, <2>10 DEF IdsInv
  <2>13. TravelsWhole' BY <2>1, <2>3, <2>4 DEF TravelsWhole
  <2>14. /\ shared' \in Texts \cup {Gone} /\ archive' \in Archives \cup {Gone} /\ hub' \in Seq(Commits) /\ trips' \in Nat
         /\ era' \in [Places -> Nat]
    BY <2>1, <2>3 DEF TravelTypes
  <2> QED BY <2>3, <2>10, <2>11, <2>12, <2>13, <2>14, RestedHolds
<1> QED BY <1>1, <1>2

(***************************************************************************)
(* Edits, templates and damage: no process moves.                          *)
(***************************************************************************)

LEMMA OutsideHolds ==
  ASSUME TravelInv, at' = at, trip' = trip, \A q \in Hosts : Undisturbed(q), TravelTypes', IdsInv', TravelsWhole'
  PROVE  TravelInv'
<1>0. TravelTypes /\ CarriedInv /\ LocksInv /\ trips' \in Nat /\ hub' \in Seq(Commits) BY DEF TravelInv, TravelTypes
<1>1. CarriedInv'
  <2> SUFFICES ASSUME NEW q \in Hosts PROVE Carries(at[q], trip[q])' BY DEF CarriedInv
  <2>1. Carries(at[q], trip[q]) /\ Undisturbed(q) /\ at'[q] = at[q] /\ trip'[q] = trip[q] BY <1>0 DEF CarriedInv
  <2> QED BY <2>1, <1>0, OthersCarry
<1>2. LocksInv' BY <1>0 DEF LocksInv, Destination, HoldsTemplate
<1> QED BY <1>1, <1>2 DEF TravelInv

LEMMA EditHolds ==
  ASSUME TravelInv, NEW n \in Places, NEW text \in Texts, Edit(n, text) PROVE TravelInv'
<1>0. /\ trips' = trips + 1 /\ UNCHANGED <<shared, archive, hub, at, trip, era, strays, parcel>>
      /\ \A q \in Hosts : at[q] \in ManifestHeld => Destination(q) # n
  BY DEF Edit
<1>1. TravelTypes /\ IdsInv /\ TravelsWhole /\ home \in [Places -> Folders \cup {Gone}] /\ trips \in Nat
  BY DEF TravelInv, TravelTypes
<1>2. PICK g \in Folders : /\ home' = [home EXCEPT ![n] = g]
                           /\ g.id # Unset => home[n] # Gone /\ home[n].id = g.id
  <2>1. CASE home[n] = Gone
    <3>1. Manifold(n, FALSE, text) \in Folders /\ Manifold(n, FALSE, text).id = Unset BY ManifoldTyped
    <3> QED BY <2>1, <3>1 DEF Edit
  <2>2. CASE home[n] # Gone
    <3> DEFINE g == [home[n] EXCEPT !.labels = text, !.corpus = text]
    <3>1. home[n] \in Folders BY <1>1, <2>2
    <3>2. g \in Folders /\ g.id = home[n].id BY <3>1 DEF Folders
    <3>3. home' = [home EXCEPT ![n].labels = text, ![n].corpus = text] BY <2>2 DEF Edit
    <3>4. home' = [home EXCEPT ![n] = g] BY <1>1, <3>1, <3>3
    <3> QED BY <2>2, <3>2, <3>4
  <2> QED BY <2>1, <2>2
<1>3. /\ home' \in [Places -> Folders \cup {Gone}] /\ home'[n] = g
      /\ \A o \in Places : o # n => home'[o] = home[o] /\ era'[o] = era[o]
  BY <1>0, <1>1, <1>2
<1>4. \A q \in Hosts : Undisturbed(q)
  <2> SUFFICES ASSUME NEW q \in Hosts PROVE Undisturbed(q) OBVIOUS
  <2>1. \A i \in Nat : i < trips /\ home'[n] # Gone /\ home'[n].id = i =>
          home[n] # Gone /\ home[n].id = i /\ era'[n] = era[n]
    BY <1>0, <1>2, <1>3, UnsetIsNothing
  <2>2. trips =< trips' BY <1>0, <1>1
  <2> QED BY <1>0, <1>3, <2>1, <2>2, HomeWritten
<1>5. TravelTypes' BY <1>0, <1>1, <1>3 DEF TravelTypes
<1>6. IdsInv'
  <2>1. \A o \in Places : home[o] # Gone /\ home[o].id # Unset => home[o].id < trips /\ home[o].id \in Nat
    BY <1>1 DEF IdsInv, Folders
  <2>2. \A o \in Places : home'[o] # Gone /\ home'[o].id # Unset => home'[o].id < trips'
    BY <1>0, <1>1, <1>2, <1>3, <2>1
  <2> QED BY <1>0, <1>1, <2>2 DEF IdsInv
<1>7. TravelsWhole' BY <1>0, <1>1 DEF TravelsWhole
<1> QED BY <1>0, <1>4, <1>5, <1>6, <1>7, OutsideHolds

LEMMA WriteTemplateHolds ==
  ASSUME TravelInv, NEW text \in Texts \cup {Gone}, WriteTemplate(text) PROVE TravelInv'
<1>0. /\ trips' = trips + 1 /\ shared' = text /\ \A q \in Hosts : ~HoldsTemplate(q)
      /\ UNCHANGED <<home, archive, hub, at, trip, era, strays, parcel>>
  BY DEF WriteTemplate
<1>1. TravelTypes /\ IdsInv /\ TravelsWhole /\ trips \in Nat /\ Len(hub) \in Nat BY DEF TravelInv, TravelTypes
<1>2. \A q \in Hosts : Undisturbed(q) BY <1>0, <1>1 DEF Undisturbed
<1>3. TravelTypes' BY <1>0, <1>1 DEF TravelTypes
<1>4. IdsInv'
  <2>1. \A o \in Places : home[o] # Gone /\ home[o].id # Unset => home[o].id \in Nat
    BY <1>1 DEF TravelTypes, Folders
  <2> QED BY <2>1, <1>0, <1>1 DEF IdsInv
<1>5. TravelsWhole' BY <1>0, <1>1 DEF TravelsWhole
<1> QED BY <1>0, <1>2, <1>3, <1>4, <1>5, OutsideHolds

LEMMA DamageHolds == ASSUME TravelInv, DamageArchive PROVE TravelInv'
<1>0. /\ archive # Gone /\ UNCHANGED <<home, shared, hub, at, trip, trips, era, strays, parcel>>
  BY DEF DamageArchive
<1>1. TravelTypes /\ IdsInv /\ TravelsWhole /\ archive \in Archives /\ archive.body \in Closures
      /\ archive.body.folder \in Folders /\ trips \in Nat /\ Len(hub) \in Nat
  BY <1>0 DEF TravelInv, TravelTypes, Archives, Closures
<1> DEFINE f == archive.body.folder
<1>2. PICK g \in Folders : archive' = [archive EXCEPT !.body = [archive.body EXCEPT !.folder = g]]
  <2>1. ASSUME NEW text \in Texts, archive' = [archive EXCEPT !.body.folder.corpus = text]
        PROVE  \E g \in Folders : archive' = [archive EXCEPT !.body = [archive.body EXCEPT !.folder = g]]
    <3>1. [f EXCEPT !.corpus = text] \in Folders BY <1>1 DEF Folders
    <3> QED BY <2>1, <3>1
  <2>2. ASSUME NEW m \in Models, archive' = [archive EXCEPT !.body.folder.fits[m] = Unset]
        PROVE  \E g \in Folders : archive' = [archive EXCEPT !.body = [archive.body EXCEPT !.folder = g]]
    <3>1. [f EXCEPT !.fits = [f.fits EXCEPT ![m] = Unset]] \in Folders BY <1>1 DEF Folders
    <3>2. archive' = [archive EXCEPT !.body = [archive.body EXCEPT !.folder =
                        [f EXCEPT !.fits = [f.fits EXCEPT ![m] = Unset]]]]
      BY <2>2
    <3> QED BY <3>1, <3>2
  <2> QED BY <2>1, <2>2 DEF DamageArchive
<1>3. archive' \in Archives /\ archive'.digests = archive.digests
  <2>1. [archive.body EXCEPT !.folder = g] \in Closures BY <1>1 DEF Closures
  <2> QED BY <1>1, <1>2, <2>1 DEF Archives
<1>4. \A q \in Hosts : Undisturbed(q) BY <1>0, <1>1 DEF Undisturbed
<1>5. TravelTypes' BY <1>0, <1>1, <1>3 DEF TravelTypes
<1>6. IdsInv' BY <1>0, <1>1 DEF IdsInv
<1>7. TravelsWhole' BY <1>0, <1>1, <1>3 DEF TravelsWhole
<1> QED BY <1>0, <1>4, <1>5, <1>6, <1>7, OutsideHolds

LEMMA TravelStutters == ASSUME TravelInv, UNCHANGED tripVars PROVE TravelInv'
<1>0. UNCHANGED <<home, shared, archive, hub, at, trip, trips, era, strays, parcel>> BY DEF tripVars
<1>1. TravelTypes /\ IdsInv /\ TravelsWhole /\ trips \in Nat /\ Len(hub) \in Nat BY DEF TravelInv, TravelTypes
<1>2. \A q \in Hosts : Undisturbed(q) BY <1>0, <1>1 DEF Undisturbed
<1>3. TravelTypes' BY <1>0, <1>1 DEF TravelTypes
<1>4. IdsInv' BY <1>0, <1>1 DEF IdsInv
<1>5. TravelsWhole' BY <1>0, <1>1 DEF TravelsWhole
<1> QED BY <1>0, <1>2, <1>3, <1>4, <1>5, OutsideHolds

(***************************************************************************)
(* The beginning, and every step.                                          *)
(***************************************************************************)

LEMMA MadeTyped ==
  ASSUME NEW n \in Places, NEW ref \in BOOLEAN, NEW text \in Texts
  PROVE  /\ MadeEarlier(n, ref, text) \in Folders /\ MadeEarlier(n, ref, text).id = Unset
         /\ IsWhole(Closure(MadeEarlier(n, ref, text), text))
<1> DEFINE f == Manifold(n, ref, text)
           pair == [name |-> n, of |-> NodesSha(f, text)]
           g == MadeEarlier(n, ref, text)
<1>1. f \in Folders /\ f.id = Unset /\ f.fits = NoFits /\ f.ref = ref /\ f.labels = text /\ f.corpus = text /\ f.name = n
  BY ManifoldTyped DEF Manifold
<1>2. CASE ref
  <2>1. NodesSha(f, text) = <<text, text, text>> BY <1>1, <1>2 DEF NodesSha
  <2>2. pair \in Pairs BY <2>1 DEF Pairs, Shas
  <2>3. g = [f EXCEPT !.fits = [m \in Models |-> pair]] BY <1>2 DEF MadeEarlier
  <2> HIDE DEF f
  <2>4. /\ g \in Folders /\ g.id = Unset /\ g.ref /\ g.labels = text /\ g.corpus = text /\ g.name = n
        /\ \A m \in Models : g.fits[m] = [name |-> n, of |-> <<text, text, text>>]
    <3>1. \A m \in Models : [k \in Models |-> pair][m] = pair OBVIOUS
    <3>2. pair = [name |-> n, of |-> <<text, text, text>>] BY <2>1
    <3> HIDE DEF pair, g
    <3>3. [m \in Models |-> pair] \in [Models -> Pairs \cup {Unset}] BY <2>2
    <3> QED BY <1>1, <1>2, <2>3, <3>1, <3>2, <3>3 DEF Folders
  <2> HIDE DEF g
  <2>5. Closure(g, text).folder = g /\ Closure(g, text).template = text BY <2>4 DEF Closure
  <2>6. IsWhole(Closure(g, text)) BY <2>4, <2>5 DEF IsWhole
  <2> QED BY <2>4, <2>6 DEF g
<1>3. CASE ~ref
  <2>1. g = f BY <1>3 DEF MadeEarlier
  <2>2. Closure(f, text).folder = f BY DEF Closure
  <2>3. \A m \in Models : f.fits[m] = Unset BY <1>1 DEF NoFits
  <2> HIDE DEF f, g
  <2>4. IsWhole(Closure(f, text)) BY <1>1, <1>3, <2>2, <2>3 DEF IsWhole
  <2> QED BY <1>1, <2>1, <2>4 DEF g
<1> QED BY <1>2, <1>3

LEMMA PackedTyped == ASSUME NEW a \in Packed PROVE a \in Archives /\ IsWhole(a.digests)
<1>1. PICK n \in Places, ref \in BOOLEAN, text \in Texts : a = Archive(Closure(MadeEarlier(n, ref, text), text))
  BY DEF Packed
<1> DEFINE f == MadeEarlier(n, ref, text)
           x == Closure(f, text)
<1>2. f \in Folders /\ IsWhole(x) BY MadeTyped
<1> HIDE DEF f
<1>3. x \in Closures BY <1>2, ClosureTyped
<1> HIDE DEF x
<1>4. a = [body |-> x, digests |-> x] BY <1>1 DEF Archive, x, f
<1> QED BY <1>2, <1>3, <1>4 DEF Archives

LEMMA TravelInit == TripInit => TravelInv
<1> SUFFICES ASSUME TripInit PROVE TravelInv OBVIOUS
<1>1. at = [p \in Hosts |-> "idle"] /\ trip = [p \in Hosts |-> NoTrip] /\ trips = 0
      /\ era = [n \in Places |-> 0] /\ strays = FALSE /\ parcel = Gone /\ shared \in Texts \cup {Gone}
  BY DEF TripInit
<1>2. home \in [Places -> Folders \cup {Gone}] /\ \A n \in Places : home[n] # Gone => home[n].id = Unset
  <2> DEFINE Made == {MadeEarlier(n, ref, text) : n \in Places, ref \in BOOLEAN, text \in Texts}
  <2>1. home \in [Places -> {Gone} \cup Made] BY DEF TripInit
  <2>2. \A f \in Made : f \in Folders /\ f.id = Unset BY MadeTyped
  <2> HIDE DEF Made
  <2> QED BY <2>1, <2>2
<1>3. archive \in Archives \cup {Gone} /\ (archive # Gone => IsWhole(archive.digests))
  <2>1. archive \in Packed \cup {Gone} BY DEF TripInit
  <2> QED BY <2>1, PackedTyped
<1>4. /\ hub \in Seq(Commits)
      /\ \A k \in 1..Len(hub) : IsWhole(hub[k].archive.digests) /\ hub[k].summary = hub[k].archive.digests.folder
  <2>1. CASE hub = <<>> BY <2>1
  <2>2. CASE hub # <<>>
    <3>1. PICK a \in Packed : hub = <<[archive |-> a, summary |-> a.body.folder]>> BY <2>2 DEF TripInit
    <3>2. a \in Archives /\ IsWhole(a.digests) BY PackedTyped
    <3>3. a.digests = a.body
      <4>1. PICK x : a = Archive(x) BY DEF Packed
      <4> QED BY <4>1 DEF Archive
    <3>4. [archive |-> a, summary |-> a.body.folder] \in Commits BY <3>2 DEF Commits, Archives, Closures
    <3>5. Len(hub) = 1 /\ hub[1] = [archive |-> a, summary |-> a.body.folder] BY <3>1
    <3> QED BY <3>1, <3>2, <3>3, <3>4, <3>5
  <2> QED BY <2>1, <2>2
<1>5. \A p \in Hosts : at[p] = "idle" /\ trip[p] = NoTrip BY <1>1
<1>6. at \in [Hosts -> Stages] /\ trip \in [Hosts -> Trips] BY <1>1, Resting
<1>7. TravelTypes BY <1>1, <1>2, <1>3, <1>4, <1>6 DEF TravelTypes
<1>8. CarriedInv BY <1>5, Resting DEF CarriedInv
<1>9. IdsInv BY <1>1, <1>2 DEF IdsInv
<1>10. LocksInv BY <1>5 DEF LocksInv, HoldsTemplate, ManifestHeld, TemplateHeld
<1>11. TravelsWhole BY <1>1, <1>3, <1>4 DEF TravelsWhole
<1> QED BY <1>7, <1>8, <1>9, <1>10, <1>11 DEF TravelInv

LEMMA TravelStep == TravelInv /\ [TripNext]_tripVars => TravelInv'
<1> SUFFICES ASSUME TravelInv, [TripNext]_tripVars PROVE TravelInv' OBVIOUS
<1>1. ASSUME NEW p \in Hosts, TripStart(p) PROVE TravelInv'
  BY <1>1, ExportBegins, InstallBegins, AuthorBegins, BeginFitHolds DEF TripStart
<1>2. ASSUME NEW p \in Hosts, TripStep(p) PROVE TravelInv'
  <2>1. CASE LockSource(p) \/ LockSourceTemplate(p) \/ CheckSource(p) \/ WriteArchive(p) \/ Upload(p)
    BY <2>1, LockSourceHolds, LockSourceTemplateHolds, CheckSourceHolds, WriteArchiveHolds, UploadHolds
  <2>2. CASE OpenArchive(p) \/ Resolve(p) \/ Download(p) \/ LoadLocal(p) \/ CopyLocal(p) \/ CopyLocalTemplate(p)
    BY <2>2, OpenArchiveHolds, ResolveHolds, DownloadHolds, LoadLocalHolds, CopyLocalHolds, CopyLocalTemplateHolds
  <2>3. CASE LockTarget(p) \/ LockTemplate(p) \/ Decide(p) \/ PromoteTemplate(p) \/ PromoteManifold(p)
    BY <2>3, LockTargetHolds, LockTemplateHolds, DecideHolds, PromoteTemplateHolds, PromoteManifoldHolds
  <2>4. CASE ResolveTemplate(p) \/ PublishAuthored(p) \/ PublishFit(p) \/ HostDies(p)
    BY <2>4, ResolveTemplateHolds, PublishAuthoredHolds, PublishFitHolds, DiesHolds
  <2> QED BY <1>2, <2>1, <2>2, <2>3, <2>4 DEF TripStep
<1>3. CASE \E n \in Places, text \in Texts : Edit(n, text) BY <1>3, EditHolds
<1>4. CASE \E text \in Texts \cup {Gone} : WriteTemplate(text) BY <1>4, WriteTemplateHolds
<1>5. CASE DamageArchive BY <1>5, DamageHolds
<1>6. CASE UNCHANGED tripVars BY <1>6, TravelStutters
<1> QED BY <1>1, <1>2, <1>3, <1>4, <1>5, <1>6 DEF TripNext

\* However exports, uploads, installs, authoring, edits, fits, damage and deaths follow one
\* another, what a process carries under its locks is what its source says and still agrees
\* with the template, no lock has two holders, and an id a fit saw is of the folder it saw.
THEOREM TravelInvariant == TripSpec => []TravelInv
<1>1. TripInit => TravelInv BY TravelInit
<1>2. TravelInv /\ [TripNext]_tripVars => TravelInv' BY TravelStep
<1> QED BY <1>1, <1>2, PTL DEF TripSpec

\* Every archive and every commit is of one moment, what an install put in place is whole
\* and is what its archive declared or its commit holds, and no fit is published in a folder
\* that replaced the one it began in, for any processes, manifolds, models and texts.
THEOREM ClosuresTravelWhole == TripSpec => []TravelsWhole
<1>1. TravelInv => TravelsWhole BY DEF TravelInv
<1> QED BY <1>1, TravelInvariant, PTL

(***************************************************************************)
(* The template others refer to.                                           *)
(***************************************************************************)

\* Between the decision to replace a template and its replacement, no other
\* manifold comes to refer to it.
DependentsInv ==
  \A p \in Hosts : at[p] = "ptemplate" => shared = Gone \/ Dependents(trip[p].to) = {}

KeepInv == TravelInv /\ DependentsInv

\* The steps that change neither a folder nor the template.
Onlooking(q) ==
  \/ LockSource(q) \/ LockSourceTemplate(q) \/ CheckSource(q) \/ WriteArchive(q) \/ Upload(q)
  \/ OpenArchive(q) \/ Resolve(q) \/ Download(q) \/ LoadLocal(q) \/ CopyLocal(q) \/ CopyLocalTemplate(q)
  \/ LockTarget(q) \/ LockTemplate(q) \/ Decide(q) \/ ResolveTemplate(q) \/ HostDies(q)

\* Another process moved, and what it changed gave the template no new dependent.
LEMMA StillKept ==
  ASSUME TravelInv, DependentsInv, NEW p \in Hosts, at'[p] = "ptemplate", at[p] = "ptemplate", trip'[p] = trip[p],
         shared' = shared,
         \A n \in Places : home'[n] # Gone /\ home'[n].ref => home[n] # Gone /\ home[n].ref
  PROVE  shared' = Gone \/ Dependents(trip[p].to)' = {}
BY DEF DependentsInv, Dependents

LEMMA OnlookersStay ==
  ASSUME TravelInv, NEW q \in Hosts, Onlooking(q)
  PROVE  /\ home' = home /\ shared' = shared
         /\ \A p \in Hosts : p # q => at'[p] = at[p] /\ trip'[p] = trip[p]
         /\ at'[q] = "ptemplate" => Decide(q)
<1>0. at \in [Hosts -> Stages] /\ trip \in [Hosts -> Trips] BY DEF TravelInv, TravelTypes
<1>1. CASE LockSource(q) \/ LockSourceTemplate(q)
  BY <1>0, <1>1 DEF LockSource, LockSourceTemplate, Fail, Rest, Carry, Move, Ground
<1>2. CASE CheckSource(q) BY <1>0, <1>2 DEF CheckSource, Fail, Rest, Carry, Move, Ground
<1>3. CASE WriteArchive(q) BY <1>0, <1>3 DEF WriteArchive, Rest, Move
<1>4. CASE Upload(q) BY <1>0, <1>4 DEF Upload, Rest, Move
<1>5. CASE OpenArchive(q) \/ Resolve(q) BY <1>0, <1>5 DEF OpenArchive, Resolve, Fail, Rest, Move, Ground
<1>6. CASE Download(q) \/ LoadLocal(q) BY <1>0, <1>6 DEF Download, LoadLocal, Fail, Rest, Carry, Move, Ground
<1>7. CASE CopyLocal(q) \/ CopyLocalTemplate(q)
  BY <1>0, <1>7 DEF CopyLocal, CopyLocalTemplate, Fail, Rest, Carry, Move, Ground
<1>8. CASE LockTarget(q) \/ LockTemplate(q) BY <1>0, <1>8 DEF LockTarget, LockTemplate, Move, Ground
<1>9. CASE Decide(q) BY <1>0, <1>9 DEF Decide, Fail, Rest, Carry, Move, Ground
<1>10. CASE ResolveTemplate(q) BY <1>0, <1>10 DEF ResolveTemplate, Fail, Rest, Carry, Move, Ground
<1>11. CASE HostDies(q) BY <1>0, <1>11 DEF HostDies, Rest, Move, Ground
<1> QED BY <1>1, <1>2, <1>3, <1>4, <1>5, <1>6, <1>7, <1>8, <1>9, <1>10, <1>11 DEF Onlooking

LEMMA StartersStay ==
  ASSUME TravelInv, NEW q \in Hosts, TripStart(q)
  PROVE  /\ shared' = shared /\ at'[q] # "ptemplate"
         /\ \A p \in Hosts : p # q => at'[p] = at[p] /\ trip'[p] = trip[p]
         /\ \A n \in Places : home'[n] # Gone /\ home'[n].ref => home[n] # Gone /\ home[n].ref
<1>0. at \in [Hosts -> Stages] /\ trip \in [Hosts -> Trips] /\ home \in [Places -> Folders \cup {Gone}]
  BY DEF TravelInv, TravelTypes
<1>1. ASSUME NEW c, NEW l, l # "ptemplate", Depart(q, c, l)
      PROVE  /\ shared' = shared /\ home' = home /\ at'[q] # "ptemplate"
             /\ \A p \in Hosts : p # q => at'[p] = at[p] /\ trip'[p] = trip[p]
  BY <1>0, <1>1 DEF Depart, Move, Ground
<1>2. ASSUME NEW n \in Places, NEW keep \in {Models, {}}, Export(q, n, keep) \/ Push(q, n, keep)
      PROVE  /\ shared' = shared /\ home' = home /\ at'[q] # "ptemplate"
             /\ \A p \in Hosts : p # q => at'[p] = at[p] /\ trip'[p] = trip[p]
  BY <1>1, <1>2 DEF Export, Push
<1>3. ASSUME NEW from \in {"file", "hub", "folder"}, NEW n \in Places, NEW to \in Places, NEW force \in BOOLEAN,
             Install(q, from, n, to, force)
      PROVE  /\ shared' = shared /\ home' = home /\ at'[q] # "ptemplate"
             /\ \A p \in Hosts : p # q => at'[p] = at[p] /\ trip'[p] = trip[p]
  BY <1>1, <1>3 DEF Install
<1>4. ASSUME NEW n \in Places, NEW force \in BOOLEAN, Author(q, n, force)
      PROVE  /\ shared' = shared /\ home' = home /\ at'[q] # "ptemplate"
             /\ \A p \in Hosts : p # q => at'[p] = at[p] /\ trip'[p] = trip[p]
  BY <1>1, <1>4 DEF Author
<1>5. ASSUME NEW n \in Places, NEW m \in Models, BeginFit(q, n, m)
      PROVE  /\ shared' = shared /\ at'[q] # "ptemplate"
             /\ \A p \in Hosts : p # q => at'[p] = at[p] /\ trip'[p] = trip[p]
             /\ \A o \in Places : home'[o] # Gone /\ home'[o].ref => home[o] # Gone /\ home[o].ref
  <2>1. PICK id : home' = [home EXCEPT ![n].id = id] BY <1>5 DEF BeginFit
  <2>2. home[n] # Gone /\ home[n] \in Folders BY <1>0, <1>5 DEF BeginFit
  <2>3. \A o \in Places : home'[o] # Gone /\ home'[o].ref => home[o] # Gone /\ home[o].ref
    BY <1>0, <2>1, <2>2 DEF Folders
  <2> QED BY <1>0, <1>5, <2>3 DEF BeginFit, Move
<1> QED BY <1>2, <1>3, <1>4, <1>5 DEF TripStart

\* Who replaces a template, or a manifold that refers to it, excludes who is about to.
LEMMA OneTemplateHolder ==
  ASSUME TravelInv, NEW p \in Hosts, at[p] = "ptemplate", NEW q \in Hosts, q # p, at[q] \in {"ptemplate", "pmanifold"}
  PROVE  ~trip[q].closure.folder.ref
<1>1. at[p] \in Placing /\ at[q] \in Placing /\ at[p] \in TemplateHeld /\ at[q] \in TemplateHeld BY DEF Placing, TemplateHeld
<1>2. trip[p].closure \in Closures /\ trip[q].closure \in Closures /\ trip[p].closure.folder.ref
  BY <1>1, Placed, Carrying DEF Brought
<1>3. HoldsTemplate(p) /\ (HoldsTemplate(q) <=> trip[q].closure.folder.ref)
  BY <1>1, <1>2, UnsetIsNothing DEF HoldsTemplate
<1> QED BY <1>3 DEF TravelInv, LocksInv

LEMMA WritersStay ==
  ASSUME TravelInv, ~AuthorsMeetInstalls, NEW p \in Hosts, at[p] = "ptemplate", NEW q \in Hosts, q # p,
         PromoteTemplate(q) \/ PromoteManifold(q) \/ PublishAuthored(q) \/ PublishFit(q)
  PROVE  /\ shared' = shared /\ at'[p] = at[p] /\ trip'[p] = trip[p]
         /\ \A n \in Places : home'[n] # Gone /\ home'[n].ref => home[n] # Gone /\ home[n].ref
<1>0. at \in [Hosts -> Stages] /\ trip \in [Hosts -> Trips] /\ home \in [Places -> Folders \cup {Gone}]
  BY DEF TravelInv, TravelTypes
<1>1. CASE PromoteTemplate(q)
  <2>1. at[q] = "ptemplate" /\ at[q] \in Placing BY <1>1 DEF PromoteTemplate, Placing
  <2>2. trip[q].closure.folder.ref BY <2>1, Carrying DEF Brought
  <2> QED BY <2>1, <2>2, OneTemplateHolder
<1>2. CASE PromoteManifold(q)
  <2>1. at[q] = "pmanifold" /\ at[q] \in Placing BY <1>2 DEF PromoteManifold, Placing
  <2>2. ~trip[q].closure.folder.ref /\ trip[q].to \in Places BY <2>1, Placed, OneTemplateHolder
  <2>3. home' = [home EXCEPT ![trip[q].to] = trip[q].closure.folder] /\ shared' = shared /\ Rest(q)
    BY <1>2 DEF PromoteManifold
  <2> QED BY <1>0, <2>2, <2>3 DEF Rest, Move
<1>3. CASE PublishAuthored(q)
  <2>1. Installing(p) BY DEF Installing
  <2> QED BY <1>3, <2>1 DEF PublishAuthored
<1>4. CASE PublishFit(q)
  <2> DEFINE n == trip[q].name
  <2>1. CASE Fail(q) BY <1>0, <2>1 DEF Fail, Rest, Move, Ground
  <2>2. CASE home[n] # Gone /\ \E fits : home' = [home EXCEPT ![n].fits = fits]
    <3>1. PICK fits : home' = [home EXCEPT ![n].fits = fits] BY <2>2
    <3>2. home[n] # Gone /\ n \in Places
      BY <1>4, <2>2, Carrying DEF PublishFit, Bound
    <3>3. home[n] \in Folders BY <1>0, <3>2
    <3> HIDE DEF n
    <3>4. home'[n].ref = home[n].ref /\ \A o \in Places : o # n => home'[o] = home[o]
      BY <1>0, <3>1, <3>2, <3>3 DEF Folders
    <3>5. shared' = shared /\ Rest(q) BY <1>4, <2>2 DEF PublishFit, Fail, Ground, Fixed
    <3> QED BY <1>0, <3>2, <3>4, <3>5 DEF Rest, Move
  <2> QED BY <1>4, <2>1, <2>2 DEF PublishFit
<1> QED BY <1>1, <1>2, <1>3, <1>4

LEMMA KeepStep == ~AuthorsMeetInstalls /\ KeepInv /\ [TripNext]_tripVars => KeepInv'
<1> SUFFICES ASSUME ~AuthorsMeetInstalls, TravelInv, DependentsInv, [TripNext]_tripVars PROVE DependentsInv'
  BY TravelStep DEF KeepInv
<1>0. at \in [Hosts -> Stages] /\ trip \in [Hosts -> Trips] /\ home \in [Places -> Folders \cup {Gone}]
  BY DEF TravelInv, TravelTypes
<1> SUFFICES ASSUME NEW p \in Hosts, at'[p] = "ptemplate"
             PROVE  shared' = Gone \/ Dependents(trip[p].to)' = {}
  BY DEF DependentsInv
<1>1. ASSUME NEW q \in Hosts, TripStart(q) PROVE shared' = Gone \/ Dependents(trip[p].to)' = {}
  BY <1>1, StartersStay, StillKept
<1>2. ASSUME NEW q \in Hosts, Onlooking(q) PROVE shared' = Gone \/ Dependents(trip[p].to)' = {}
  <2>1. CASE q # p BY <1>2, <2>1, OnlookersStay, StillKept
  <2>2. CASE q = p
    <3>1. Decide(p) /\ home' = home /\ shared' = shared BY <1>2, <2>2, OnlookersStay
    <3>2. at[p] = "decide" /\ trip[p] \in Trips BY <1>0, <3>1 DEF Decide
    <3>3. TemplateVerdict(p) = "install" /\ trip'[p].to = trip[p].to
      BY <1>0, <3>1, <3>2 DEF Decide, Fail, Rest, Carry, Move, Trips
    <3>4. shared = Gone \/ Dependents(trip[p].to) = {} BY <3>3 DEF TemplateVerdict
    <3> QED BY <3>1, <3>3, <3>4 DEF Dependents
  <2> QED BY <2>1, <2>2
<1>3. ASSUME NEW q \in Hosts, PromoteTemplate(q) \/ PromoteManifold(q) \/ PublishAuthored(q) \/ PublishFit(q)
      PROVE  shared' = Gone \/ Dependents(trip[p].to)' = {}
  <2>1. at'[q] # "ptemplate"
    BY <1>0, <1>3 DEF PromoteTemplate, PromoteManifold, PublishAuthored, PublishFit, Fail, Rest, Move
  <2>2. q # p BY <2>1
  <2>3. at'[p] = at[p]
    BY <1>0, <1>3, <2>2 DEF PromoteTemplate, PromoteManifold, PublishAuthored, PublishFit, Fail, Rest, Move
  <2> QED BY <1>3, <2>2, <2>3, WritersStay, StillKept
<1>4. ASSUME NEW n \in Places, NEW text \in Texts, Edit(n, text) PROVE shared' = Gone \/ Dependents(trip[p].to)' = {}
  <2>1. shared' = shared /\ at' = at /\ trip' = trip BY <1>4 DEF Edit
  <2>2. \A o \in Places : home'[o] # Gone /\ home'[o].ref => home[o] # Gone /\ home[o].ref
    <3>1. CASE home[n] = Gone
      <4>1. home' = [home EXCEPT ![n] = Manifold(n, FALSE, text)] BY <1>4, <3>1 DEF Edit
      <4>2. ~Manifold(n, FALSE, text).ref BY DEF Manifold
      <4> QED BY <1>0, <4>1, <4>2
    <3>2. CASE home[n] # Gone
      <4>1. home[n] \in Folders BY <1>0, <3>2
      <4>2. ~home[n].ref /\ home' = [home EXCEPT ![n].labels = text, ![n].corpus = text] BY <1>4, <3>2 DEF Edit
      <4>3. ~home'[n].ref /\ \A o \in Places : o # n => home'[o] = home[o] BY <1>0, <4>1, <4>2 DEF Folders
      <4> QED BY <4>3
    <3> QED BY <3>1, <3>2
  <2> QED BY <2>1, <2>2, StillKept
<1>5. ASSUME NEW text \in Texts \cup {Gone}, WriteTemplate(text) PROVE shared' = Gone \/ Dependents(trip[p].to)' = {}
  <2>1. at' = at /\ \A q \in Hosts : ~HoldsTemplate(q) BY <1>5 DEF WriteTemplate
  <2>2. at[p] = "ptemplate" /\ at[p] \in Placing /\ at[p] \in TemplateHeld BY <2>1 DEF Placing, TemplateHeld
  <2>3. trip[p].closure \in Closures /\ trip[p].closure.folder.ref BY <2>2, Placed, Carrying DEF Brought
  <2> QED BY <2>1, <2>2, <2>3, UnsetIsNothing DEF HoldsTemplate
<1>6. CASE DamageArchive \/ UNCHANGED tripVars
  <2>1. home' = home /\ shared' = shared /\ at' = at /\ trip' = trip BY <1>6 DEF DamageArchive, tripVars
  <2> QED BY <2>1, StillKept
<1>7. ASSUME NEW q \in Hosts, TripStep(q)
      PROVE  Onlooking(q) \/ PromoteTemplate(q) \/ PromoteManifold(q) \/ PublishAuthored(q) \/ PublishFit(q)
  BY <1>7 DEF TripStep, Onlooking
<1> QED BY <1>1, <1>2, <1>3, <1>4, <1>5, <1>6, <1>7 DEF TripNext

\* An install never replaces a template that another manifold refers to, as long as no
\* from-template is published while an install holds its locks.
THEOREM TemplatesAreKept == ~AuthorsMeetInstalls => (TripSpec => SharedTemplateIsKept)
<1> SUFFICES ASSUME ~AuthorsMeetInstalls PROVE TripSpec => SharedTemplateIsKept OBVIOUS
<1>1. TripInit => KeepInv
  <2>1. TripInit => TravelInv BY TravelInit
  <2>2. TripInit => DependentsInv BY DEF TripInit, DependentsInv
  <2> QED BY <2>1, <2>2 DEF KeepInv
<1>2. KeepInv /\ [TripNext]_tripVars => KeepInv' BY KeepStep
<1>3. KeepInv /\ [TripNext]_tripVars =>
        [(shared # Gone /\ shared' # shared) =>
           \A p \in Hosts : at[p] = "ptemplate" /\ at'[p] = "pmanifold" =>
             \A n \in Places \ {trip[p].to} : home[n] # Gone => ~home[n].ref]_tripVars
  BY DEF KeepInv, DependentsInv, Dependents
<1> QED BY <1>1, <1>2, <1>3, PTL DEF TripSpec, SharedTemplateIsKept
=============================================================================
