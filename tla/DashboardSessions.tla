-------------------------- MODULE DashboardSessions --------------------------
(***************************************************************************)
(* The dashboard's store of one model's session                            *)
(* (src/webui/src/lib/sessionPersistence.ts): tabs of one browser claim    *)
(* the record when they load the model and save their tree into it.  Every *)
(* operation runs under one exclusive lock and is one action; what a save  *)
(* writes is put together before it waits for the lock.                    *)
(***************************************************************************)
EXTENDS Integers, FiniteSets, SequencesExt

CONSTANTS
  Tabs,        \* tabs that load the model
  Identities,  \* fingerprints of the runtimes they load it with
  Contexts,    \* context sizes they load it with
  Ids,         \* the nodes of a stored tree that are not its root
  TopId,       \* its root
  Rows,        \* rows of children a stored tree may have
  MaxClaims,   \* bound on claims
  MaxEdits,    \* bound on a tab's edits
  Missing      \* no record, no parent

ASSUME SessionsAssumption == MaxClaims \in Nat /\ MaxEdits \in Nat /\ TopId \notin Ids /\ Missing \notin Ids

VARIABLES
  vault,    \* the stored record
  tabs,     \* what each tab holds
  claims,   \* how many claims there were: the next owner epoch
  dropped   \* whether each record deleted as corrupt held a tree

sessionVars == <<vault, tabs, claims, dropped>>

-----------------------------------------------------------------------------
\* A stored tree: each node's parent, and the row of children each node has.

TreeIds == Ids \cup {TopId}
Links == [parent : [Ids -> TreeIds \cup {Missing}], rows : [TreeIds -> Rows]]
Sound == [parent |-> [n \in Ids |-> TopId],
          rows |-> [n \in TreeIds |-> IF n = TopId THEN SetToSeq(Ids) ELSE <<>>]]

Listed(links) == UNION {Range(links.rows[n]) : n \in TreeIds}
RowIsConsistent(links, n) ==
  \A i \in 1..Len(links.rows[n]) :
    LET child == links.rows[n][i] IN
    /\ child \in Ids /\ links.parent[child] = n
    /\ \A j \in 1..(i - 1) : links.rows[n][j] # child

\* What is found by following the rows from the root.
Visited[links \in Links, k \in 0..Cardinality(Ids)] ==
  IF k = 0 THEN {TopId}
  ELSE LET seen == Visited[links, k - 1] IN
       seen \cup UNION {Range(links.rows[n]) : n \in seen}

validateTree_RowsOnly(links) == \A n \in TreeIds : RowIsConsistent(links, n)
validateTree(links) ==
  /\ \A n \in TreeIds : RowIsConsistent(links, n)
  /\ \A n \in Ids : links.parent[n] # Missing /\ n \in Listed(links)
  /\ Visited[links, Cardinality(Ids)] = TreeIds

\* The reference: every node reaches the root by its parents, and is in its parent's
\* row alone.
Ancestors[links \in Links, n \in TreeIds, k \in Nat] ==
  IF n = TopId \/ k = 0 THEN {n}
  ELSE {n} \cup (IF links.parent[n] = Missing THEN {} ELSE Ancestors[links, links.parent[n], k - 1])
IsRooted(links) ==
  /\ \A n \in Ids : TopId \in Ancestors[links, n, Cardinality(Ids)]
  /\ \A n \in TreeIds :
       /\ Range(links.rows[n]) = {c \in Ids : links.parent[c] = n}
       /\ Len(links.rows[n]) = Cardinality(Range(links.rows[n]))

-----------------------------------------------------------------------------
Record(epoch, identity, context, rev, work) ==
  [supported |-> TRUE, epoch |-> epoch, identity |-> identity, context |-> context,
   rev |-> rev, work |-> work, links |-> Sound]

NewTab == [epoch |-> 0, identity |-> Missing, context |-> Missing, rev |-> 0, work |-> {}, saving |-> Missing]

\* What an earlier version, or a damaged disk, may have left.
SessionsInit ==
  /\ vault \in {Missing}
       \cup [supported : BOOLEAN, epoch : {0}, identity : Identities, context : Contexts,
             rev : {1}, work : {{<<0, 1>>}}, links : {Sound}]
       \cup [supported : {TRUE}, epoch : {0}, identity : {CHOOSE i \in Identities : TRUE},
             context : {CHOOSE c \in Contexts : TRUE}, rev : {1}, work : {{<<0, 1>>}}, links : Links]
  /\ tabs = [t \in Tabs |-> NewTab]
  /\ claims = 0 /\ dropped = {}

Valid(record) == validateTree(record.links)

-----------------------------------------------------------------------------
\* Claims.

\* A tab that loads the model is a new owner of its session, with the tree it was
\* given; a save of its former runtime may still wait for the lock.
Loads(t, identity, context, rev, work) ==
  /\ claims' = claims + 1
  /\ tabs' = [tabs EXCEPT ![t] = [epoch |-> claims + 1, identity |-> identity, context |-> context,
                                  rev |-> rev, work |-> work, saving |-> @.saving]]
StartsEmpty(t, identity, context) == Loads(t, identity, context, 0, {})

ClaimMissing(t, identity, context) ==
  /\ vault = Missing
  /\ StartsEmpty(t, identity, context)
  /\ UNCHANGED <<vault, dropped>>

ClaimReset(t, identity, context) ==
  /\ vault # Missing /\ vault' = Missing
  /\ StartsEmpty(t, identity, context)
  /\ UNCHANGED dropped

ClaimUnsupported(t, identity, context) ==
  /\ vault # Missing /\ ~vault.supported
  /\ StartsEmpty(t, identity, context)
  /\ UNCHANGED <<vault, dropped>>

ClaimCorrupt(t, identity, context) ==
  /\ vault # Missing /\ vault.supported /\ ~Valid(vault)
  /\ vault' = Missing /\ dropped' = dropped \cup {IsRooted(vault.links)}
  /\ StartsEmpty(t, identity, context)

\* Another runtime may be declared compatible, another context size never is.
Compatible(identity, context, accepted) ==
  vault.identity \in accepted \cup {identity} /\ vault.context = context

ClaimCompatible(t, identity, context, accepted) ==
  /\ vault # Missing /\ vault.supported /\ Valid(vault)
  /\ Compatible(identity, context, accepted)
  /\ Loads(t, identity, context, vault.rev, vault.work)
  /\ vault' = [vault EXCEPT !.epoch = claims + 1, !.identity = identity]
  /\ UNCHANGED dropped

ClaimIncompatible(t, identity, context, accepted) ==
  /\ vault # Missing /\ vault.supported /\ Valid(vault)
  /\ ~Compatible(identity, context, accepted)
  /\ StartsEmpty(t, identity, context)
  /\ UNCHANGED <<vault, dropped>>

claim ==
  /\ claims < MaxClaims
  /\ \E t \in Tabs, identity \in Identities, context \in Contexts :
       \/ ClaimMissing(t, identity, context) \/ ClaimReset(t, identity, context)
       \/ ClaimUnsupported(t, identity, context) \/ ClaimCorrupt(t, identity, context)
       \/ \E accepted \in SUBSET Identities :
            \/ ClaimCompatible(t, identity, context, accepted)
            \/ ClaimIncompatible(t, identity, context, accepted)

-----------------------------------------------------------------------------
\* Saves.

\* An edit is named by its owner and its number among the owner's.
TabEdits ==
  \E t \in Tabs :
    /\ tabs[t].epoch # 0 /\ Cardinality({e \in tabs[t].work : e[1] = tabs[t].epoch}) < MaxEdits
    /\ tabs' = [tabs EXCEPT ![t].rev = @ + 1,
                            ![t].work = @ \cup {<<tabs[t].epoch, tabs[t].rev + 1>>}]
    /\ UNCHANGED <<vault, claims, dropped>>

TabSaves ==
  \E t \in Tabs :
    LET tab == tabs[t] IN
    /\ tab.epoch # 0 /\ tab.saving = Missing
    /\ tabs' = [tabs EXCEPT ![t].saving = Record(tab.epoch, tab.identity, tab.context, tab.rev, tab.work)]
    /\ UNCHANGED <<vault, claims, dropped>>

Stale_RevisionOnly(record) == vault.rev > record.rev
Stale(record) == vault.epoch # record.epoch \/ vault.rev > record.rev

save ==
  \E t \in Tabs :
    LET record == tabs[t].saving IN
    /\ record # Missing
    /\ tabs' = [tabs EXCEPT ![t].saving = Missing]
    /\ IF vault = Missing THEN vault' = record /\ UNCHANGED dropped
       ELSE IF ~vault.supported THEN UNCHANGED <<vault, dropped>>
       ELSE IF ~Valid(vault) THEN vault' = record /\ dropped' = dropped \cup {IsRooted(vault.links)}
       ELSE vault' = (IF Stale(record) THEN vault ELSE record) /\ UNCHANGED dropped
    /\ UNCHANGED claims

delete ==
  /\ vault # Missing /\ vault' = Missing
  /\ UNCHANGED <<tabs, claims, dropped>>

SessionsNext == claim \/ TabEdits \/ TabSaves \/ save \/ delete

-----------------------------------------------------------------------------
\* Properties.

\* Only a record whose nodes are not a tree is given up as corrupt, and no tab is
\* given one that is not.
OnlyTheBrokenIsDropped ==
  /\ TRUE \notin dropped
  /\ vault # Missing /\ vault.epoch # 0 => IsRooted(vault.links)

\* Whatever tabs come, go and overtake each other, work that was saved stays saved
\* until somebody deletes it, resets the session, or the record is broken; and only a
\* record whose nodes are not a tree is given up as broken.
WorkNeverShrinks ==
  /\ []OnlyTheBrokenIsDropped
  /\ [][vault # Missing /\ vault' # Missing /\ vault.supported /\ IsRooted(vault.links)
        => vault.work \subseteq vault'.work]_sessionVars
=============================================================================
