--------------------------- MODULE DashboardMirror ---------------------------
(***************************************************************************)
(* The dashboard's mirror of the conversation tree (ws.svelte.ts and       *)
(* loom.svelte.ts under src/webui/src/lib/stores).  Mutations arrive as    *)
(* deltas on a socket, whole trees as answers of a REST call; the two      *)
(* overtake each other.  A connection starts behind a rehydration barrier, *)
(* a gap in the revisions or a restored tree behind a recovery barrier.    *)
(* A tree is the revision of each node's last change.                      *)
(***************************************************************************)
EXTENDS Integers, SequencesExt

CONSTANTS
  Nodes,       \* the nodes whose content a mutation changes
  Refreshers,  \* REST calls that end in refreshLoomTree
  MaxTreeRev,  \* bound on the server's revisions
  MaxBreaks,   \* bound on restarts, lost connections and failed fetches
  Unread       \* the server has not read the tree for a fetch yet

ASSUME MirrorAssumption == MaxTreeRev \in Nat /\ MaxBreaks \in Nat /\ {"ready", "recovery"} \cap Refreshers = {}

VARIABLES
  server,   \* the authoritative tree
  past,     \* what each of its revisions changed
  wireup,   \* tree_mutated frames on their way to the page
  fetches,  \* apiTree.get calls in flight, each with what was read for it
  mirror,   \* loomTree, and its connection's state
  breaks    \* how many faults happened

mirrorVars == <<server, past, wireup, fetches, mirror, breaks>>

Fetchers == {"ready", "recovery"} \cup Refreshers
Empty == [n \in Nodes |-> 0]
Tree(epoch, rev, nodes) == [epoch |-> epoch, rev |-> rev, nodes |-> nodes]

MirrorInit ==
  /\ server = Tree(1, 0, Empty) /\ past = <<>> /\ wireup = <<>> /\ breaks = 0
  /\ fetches = [f \in {} |-> Unread]
  /\ mirror = [tree |-> Tree(0, 0, Empty),     \* epoch 0: not loaded
               link |-> "closed",              \* closed, opening, rehydrating or open
               buffered |-> <<>>,              \* bufferedMessages
               recovering |-> FALSE,           \* treeRecovering
               recoveryBuffer |-> <<>>,
               required |-> 0,                 \* requiredTreeRevision
               attempt |-> 0]

-----------------------------------------------------------------------------
\* The page.

Loaded(m) == m.tree.epoch # 0

\* A snapshot older than the local tree is refused, except after a reconnection.
Refuses(m, snap, regression) ==
  Loaded(m) /\ ~regression /\ snap.epoch = m.tree.epoch /\ snap.rev < m.tree.rev
applyTreeSnapshot(m, snap, regression) ==
  IF Refuses(m, snap, regression) THEN m ELSE [m EXCEPT !.tree = snap]

IsGap(m, f) == Loaded(m) /\ f.rev > m.tree.rev + 1
applyTreeDelta(m, f) ==
  [m EXCEPT !.tree.rev = f.rev, !.tree.nodes[f.node] = f.rev]

\* Everything that arrives waits until a tree at least this new has been read.
beginTreeRecovery(m, rev) ==
  [m EXCEPT !.recovering = TRUE, !.required = rev, !.attempt = 1]

dispatch_RestoreIsADelta(m, f) ==
  IF m.recovering
  THEN [m EXCEPT !.recoveryBuffer = Append(@, f), !.required = IF f.rev > @ THEN f.rev ELSE @]
  ELSE IF IsGap(m, f) THEN beginTreeRecovery(m, f.rev) ELSE applyTreeDelta(m, f)
dispatch(m, f) ==
  IF m.recovering
  THEN [m EXCEPT !.recoveryBuffer = Append(@, f), !.required = IF f.rev > @ THEN f.rev ELSE @]
  ELSE IF f.op = "restore" \/ IsGap(m, f) THEN beginTreeRecovery(m, f.rev)
  ELSE applyTreeDelta(m, f)

\* What a snapshot already holds is skipped.
Replay_Forgets(m, fs, held) == m
Replay(m, fs, held) ==
  FoldLeft(LAMBDA n, f : IF f.rev =< held THEN n ELSE dispatch(n, f), m, fs)
Drain(m) ==
  FoldLeft(LAMBDA n, f : IF f.rev =< n.tree.rev THEN n ELSE dispatch(n, f), m, mirror.recoveryBuffer)

clearConnection(m) ==
  [m EXCEPT !.link = "closed", !.buffered = <<>>, !.recovering = FALSE,
            !.recoveryBuffer = <<>>, !.required = 0, !.attempt = 0]

\* The page's fetches follow its state: a recovery that begins asks for the tree.
Fetch(m, others) ==
  fetches' = [f \in (DOMAIN others) \cup (IF m.recovering THEN {"recovery"} ELSE {}) |->
                IF f \in DOMAIN others THEN others[f] ELSE Unread]
Without(f) == [g \in DOMAIN fetches \ {f} |-> fetches[g]]

-----------------------------------------------------------------------------
\* The server: one more mutation, to one node or (restore) to all of them.

Connected == mirror.link \in {"rehydrating", "open"}
Mutates(op, node) ==
  /\ server.rev < MaxTreeRev
  /\ LET rev == server.rev + 1 IN
     /\ server' = Tree(server.epoch, rev,
                       [n \in Nodes |-> IF op = "restore" \/ n = node THEN rev ELSE server.nodes[n]])
     /\ past' = Append(past, IF op = "restore" THEN Nodes ELSE {node})
     /\ wireup' = IF Connected THEN Append(wireup, [op |-> op, node |-> node, rev |-> rev]) ELSE wireup
  /\ UNCHANGED <<fetches, mirror, breaks>>
ServerMutates == \E op \in {"edit", "restore"}, node \in Nodes : Mutates(op, node)

ServerReads ==
  \E f \in DOMAIN fetches :
    /\ fetches[f] = Unread
    /\ fetches' = [fetches EXCEPT ![f] = server]
    /\ UNCHANGED <<server, past, wireup, mirror, breaks>>

-----------------------------------------------------------------------------
\* The connection.

ensureRuntimeChannel ==
  /\ mirror.link = "closed"
  /\ mirror' = [mirror EXCEPT !.link = "opening"]
  /\ UNCHANGED <<server, past, wireup, fetches, breaks>>

ChannelOpens ==
  /\ mirror.link = "opening"
  /\ mirror' = [mirror EXCEPT !.link = "rehydrating"]
  /\ fetches' = [f \in DOMAIN fetches \cup {"ready"} |-> IF f = "ready" THEN Unread ELSE fetches[f]]
  /\ UNCHANGED <<server, past, wireup, breaks>>

Rehydrated ==
  /\ "ready" \in DOMAIN fetches /\ fetches["ready"] # Unread
  /\ LET snap == fetches["ready"]
         m == applyTreeSnapshot([mirror EXCEPT !.link = "open", !.buffered = <<>>], snap, TRUE)
     IN mirror' = Replay(m, mirror.buffered, snap.rev)
  /\ Fetch(mirror', Without("ready"))
  /\ UNCHANGED <<server, past, wireup, breaks>>

Receives ==
  /\ wireup # <<>> /\ wireup' = Tail(wireup)
  /\ mirror' = IF mirror.link = "rehydrating"
               THEN [mirror EXCEPT !.buffered = Append(@, Head(wireup))]
               ELSE dispatch(mirror, Head(wireup))
  /\ Fetch(mirror', fetches)
  /\ UNCHANGED <<server, past, breaks>>

\* Three reads at most; a tree too old, or older than the local one, closes the channel.
TreeRecovers ==
  /\ "recovery" \in DOMAIN fetches /\ fetches["recovery"] # Unread
  /\ LET snap == fetches["recovery"]
         m == [mirror EXCEPT !.recovering = FALSE, !.required = 0, !.attempt = 0,
                             !.recoveryBuffer = <<>>]
         Again == snap.rev < mirror.required /\ mirror.attempt < 3
         Fails == snap.rev < mirror.required \/ Refuses(mirror, snap, FALSE)
     IN /\ mirror' = IF Again THEN [mirror EXCEPT !.attempt = @ + 1]
                     ELSE IF Fails THEN clearConnection(mirror)
                     ELSE Drain(applyTreeSnapshot(m, snap, FALSE))
        /\ wireup' = IF mirror'.link = "closed" THEN <<>> ELSE wireup
  /\ Fetch(mirror', Without("recovery"))
  /\ UNCHANGED <<server, past, breaks>>

-----------------------------------------------------------------------------
\* Every other tree call of the page ends with a refresh of its own.

refreshLoomTree ==
  \E r \in Refreshers \ DOMAIN fetches :
    /\ fetches' = [f \in DOMAIN fetches \cup {r} |-> IF f = r THEN Unread ELSE fetches[f]]
    /\ UNCHANGED <<server, past, wireup, mirror, breaks>>

Refreshed ==
  \E r \in Refreshers \cap DOMAIN fetches :
    /\ fetches[r] # Unread
    /\ mirror' = applyTreeSnapshot(mirror, fetches[r], FALSE)
    /\ fetches' = Without(r)
    /\ UNCHANGED <<server, past, wireup, breaks>>

-----------------------------------------------------------------------------
\* Faults.

Break == breaks < MaxBreaks /\ breaks' = breaks + 1

\* The channel's own fetches are given up with it; a refresh answers on its own.
ConnectionLost ==
  /\ Break /\ mirror.link # "closed"
  /\ mirror' = clearConnection(mirror) /\ wireup' = <<>>
  /\ fetches' = [f \in DOMAIN fetches \cap Refreshers |-> fetches[f]]
  /\ UNCHANGED <<server, past>>

\* A restarted server has a new root and its revisions start over.
ServerRestarts ==
  /\ Break
  /\ server' = Tree(server.epoch + 1, 0, Empty) /\ past' = <<>>
  /\ mirror' = clearConnection(mirror) /\ wireup' = <<>>
  /\ fetches' = [f \in {} |-> Unread]

FetchFails ==
  /\ Break
  /\ \E f \in DOMAIN fetches :
       IF f \in Refreshers THEN fetches' = Without(f) /\ UNCHANGED <<mirror, wireup>>
       ELSE /\ mirror' = clearConnection(mirror) /\ wireup' = <<>>
            /\ fetches' = [g \in DOMAIN fetches \cap Refreshers |-> fetches[g]]
  /\ UNCHANGED <<server, past>>

MirrorNext ==
  \/ ServerMutates \/ ServerReads
  \/ ensureRuntimeChannel \/ ChannelOpens \/ Rehydrated \/ Receives \/ TreeRecovers
  \/ refreshLoomTree \/ Refreshed
  \/ ConnectionLost \/ ServerRestarts \/ FetchFails

-----------------------------------------------------------------------------
\* Properties.

\* What the server's tree was at a revision.
At(rev, n) ==
  LET writes == {i \in 1..rev : n \in past[i]} IN
  CHOOSE i \in writes \cup {0} : \A j \in writes : j =< i

\* The page never claims a revision some change of which it lacks.
RevisionIsHeld ==
  mirror.tree.epoch = server.epoch =>
    /\ mirror.tree.rev =< server.rev
    /\ \A n \in Nodes : mirror.tree.nodes[n] >= At(mirror.tree.rev, n)

\* With nothing on its way, an open page shows the server's tree.
Settled == mirror.link = "open" /\ wireup = <<>> /\ DOMAIN fetches = {}
MirrorIsTheTree == Settled => mirror.tree = server /\ ~mirror.recovering

\* However deltas, snapshots, refreshes, restores and lost connections overtake each
\* other, no change is skipped on the way and none is missing at the end.
MirrorIsWhole == RevisionIsHeld /\ MirrorIsTheTree
=============================================================================
