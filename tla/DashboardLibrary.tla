-------------------------- MODULE DashboardLibrary --------------------------
(***************************************************************************)
(* The dashboard's saved chats (src/webui/src/lib/conversationLibrary.ts   *)
(* and its callers).  Pages of one origin show one server's tree and share *)
(* one library.  A page saves its copy of the tree 600 ms after it         *)
(* changed, or when the user presses save; a library operation runs under  *)
(* one lock and is one action, but what it saves was captured before it    *)
(* waited for the lock, and other pages act between the steps of opening   *)
(* or clearing a chat.  A tree is the set of its edits.                    *)
(***************************************************************************)
EXTENDS Integers, FiniteSets, SequencesExt

CONSTANTS
  Pages,        \* the pages open on the server
  MaxMutations, \* bound on edits and replacements of the server's tree
  MaxRecords,   \* bound on records ever saved
  MaxTasks,     \* bound on a page's autosaves in line
  MaxDeeds,     \* bound on what the users do with the chats
  MaxFailures,  \* bound on restores that fail
  Unsaved       \* no record

ASSUME LibraryAssumption ==
  /\ MaxMutations \in Nat /\ MaxRecords \in Nat /\ MaxTasks \in Nat
  /\ MaxDeeds \in Nat /\ MaxFailures \in Nat /\ Unsaved \notin Nat

VARIABLES
  live,     \* the server's tree
  pages,    \* what each page holds
  library,  \* the saved records by id
  made,     \* how many records, roots and edits were ever made, and deeds done
  byHand,   \* history: roots the user saved under one more name, or over another tree
  droppedEdits,  \* history: edits that opening or clearing a chat took from the server's tree
  failures  \* restores that failed half-way

libraryVars == <<live, pages, library, made, byHand, droppedEdits, failures>>

Chat(root, rev, work) == [root |-> root, rev |-> rev, work |-> work]

NoneOpen == [at |-> "none"]

NewPage(tree) ==
  [tree |-> tree,         \* loomTree
   timer |-> FALSE,       \* an autosave is due
   tail |-> <<>>,         \* saves in line: what they save, and into what
   active |-> Unsaved,    \* savedConversationState.activeId
   status |-> "idle",
   doing |-> NoneOpen]        \* the chat a drawer opens, or clearing one

LibraryInit ==
  /\ live = Chat(0, 0, {}) /\ library = [id \in {} |-> live]
  /\ pages = [p \in Pages |-> NewPage(live)]
  /\ made = [records |-> 0, roots |-> 0, edits |-> 0, deeds |-> 0]
  /\ byHand = {} /\ droppedEdits = {} /\ failures = 0

-----------------------------------------------------------------------------
\* The tree.  Whoever changes it, the pages hear of it one by one.

CanMutate == live.rev < MaxMutations

TreeEdited ==
  /\ CanMutate
  /\ made' = [made EXCEPT !.edits = @ + 1]
  /\ live' = Chat(live.root, live.rev + 1, live.work \cup {made'.edits})
  /\ UNCHANGED <<pages, library, byHand, droppedEdits, failures>>

\* Another tree takes the place of the server's.
Replaced(tree) ==
  /\ live' = tree
  /\ droppedEdits' = droppedEdits \cup (live.work \ tree.work)

\* A changed tree re-arms the timer, unless the list of chats is open.
ListOpen(page) == page.doing.at \in {"read", "applied"}
Shows(page, tree) ==
  [page EXCEPT !.tree = tree, !.timer = ~ListOpen(page),
               !.status = IF ListOpen(page) THEN @ ELSE "pending"]
PageHears ==
  \E p \in Pages :
    /\ pages[p].tree # live
    /\ pages' = [pages EXCEPT ![p] = Shows(@, live)]
    /\ UNCHANGED <<live, library, made, byHand, droppedEdits, failures>>

\* A successor continues both revisions.
replacing(tree) == Chat(tree.root, (IF tree.rev > live.rev THEN tree.rev ELSE live.rev) + 1, tree.work)

-----------------------------------------------------------------------------
\* Autosave.

Task(page) == [tree |-> page.tree, into |-> page.active, hand |-> FALSE]

flush ==
  \E p \in Pages :
    /\ (pages[p].timer \/ pages[p].status = "error") /\ Len(pages[p].tail) < MaxTasks
    /\ pages' = [pages EXCEPT ![p].timer = FALSE, ![p].tail = Append(@, Task(pages[p])),
                              ![p].status = "saving"]
    /\ UNCHANGED <<live, library, made, byHand, droppedEdits, failures>>

\* The page's chat if it is of the same tree, or else the newest of that tree.
Matching(root) == {id \in DOMAIN library : library[id].chat.root = root}
Newest(ids) == CHOOSE id \in ids : \A other \in ids : library[other].saved =< library[id].saved
Target_ActiveOnly(task) == IF task.into \in DOMAIN library THEN task.into ELSE Unsaved
Target(task) ==
  IF task.into \in DOMAIN library /\ library[task.into].chat.root = task.tree.root THEN task.into
  ELSE IF Matching(task.tree.root) # {} THEN Newest(Matching(task.tree.root)) ELSE Unsaved

\* The record just written is the newest; the others keep their order.
Stored(id, chat) ==
  LET others == DOMAIN library \ {id}
      Rank(i) == Cardinality({j \in others : library[j].saved =< library[i].saved}) IN
  [i \in others \cup {id} |->
     IF i = id THEN [chat |-> chat, saved |-> Cardinality(others) + 1]
     ELSE [library[i] EXCEPT !.saved = Rank(i)]]

Deleted(task) == task.into # Unsaved /\ task.into \notin DOMAIN library
Outdated_Never(task) == FALSE
Outdated(task) == Target(task) # Unsaved /\ library[Target(task)].chat.rev > task.tree.rev
NothingToSave(task) == Target(task) = Unsaved /\ task.tree.work = {}

\* The page takes the answer if it still shows that tree under that chat.
Answered(page, task, id) ==
  IF page.tree.root = task.tree.root /\ page.active = task.into
  THEN [page EXCEPT !.active = id, !.status = IF id = Unsaved THEN "idle" ELSE "saved"]
  ELSE page

autosave ==
  \E p \in Pages :
    /\ pages[p].tail # <<>> /\ ~Head(pages[p].tail).hand
    /\ LET task == Head(pages[p].tail)
           rest == [pages[p] EXCEPT !.tail = Tail(@)] IN
       \/ /\ Deleted(task) \/ Outdated(task)
          /\ pages' = [pages EXCEPT ![p] = [rest EXCEPT !.status = "error"]]
          /\ UNCHANGED <<library, made>>
       \/ /\ ~Deleted(task) /\ NothingToSave(task)
          /\ pages' = [pages EXCEPT ![p] = Answered(rest, task, Unsaved)]
          /\ UNCHANGED <<library, made>>
       \/ /\ ~Deleted(task) /\ ~NothingToSave(task) /\ ~Outdated(task)
          /\ LET fresh == Target(task) = Unsaved
                 id == IF fresh THEN made.records + 1 ELSE Target(task) IN
             /\ fresh => made.records < MaxRecords
             /\ library' = IF ~fresh /\ library[id].chat = task.tree THEN library ELSE Stored(id, task.tree)
             /\ made' = [made EXCEPT !.records = IF fresh THEN @ + 1 ELSE @]
             /\ pages' = [pages EXCEPT ![p] = Answered(rest, task, id)]
    /\ UNCHANGED <<live, byHand, droppedEdits, failures>>

-----------------------------------------------------------------------------
\* What the user does with the chats.

OneDeed == made.deeds < MaxDeeds
Done == [made EXCEPT !.deeds = @ + 1]

\* The save button, after a flush that may have failed.  The drawer keeps the chat
\* it last loaded, which may be any.  A save by hand asks for the lock at once: it
\* waits for the autosave that has asked, and goes before those behind it.
saveByHand ==
  \E p \in Pages, into \in DOMAIN library \cup {Unsaved} :
    LET line == pages[p].tail
        task == [tree |-> pages[p].tree, into |-> into, hand |-> TRUE]
    IN
    /\ OneDeed /\ made' = Done
    /\ \A i \in DOMAIN line : ~line[i].hand
    /\ Len(line) < MaxTasks
    /\ pages' = [pages EXCEPT ![p].tail =
         IF line = <<>> THEN <<task>> ELSE <<Head(line), task>> \o Tail(line)]
    /\ UNCHANGED <<live, library, byHand, droppedEdits, failures>>

\* The page names the chat just saved, whatever it shows by now.
SavedBy(p, id) ==
  [pages EXCEPT ![p] = [@ EXCEPT !.tail = Tail(@), !.active = id, !.status = "saved"]]

\* Saving under one more name.
create ==
  \E p \in Pages :
    /\ pages[p].tail # <<>> /\ made.records < MaxRecords
    /\ LET task == Head(pages[p].tail) IN
       /\ task.hand /\ task.into = Unsaved
       /\ library' = Stored(made.records + 1, task.tree)
       /\ byHand' = byHand \cup {task.tree.root}
    /\ made' = [made EXCEPT !.records = @ + 1]
    /\ pages' = SavedBy(p, made'.records)
    /\ UNCHANGED <<live, droppedEdits, failures>>

\* The tree continues the chat: of its tree, and no older.
Continues(tree, chat) == tree.root = chat.root /\ chat.rev =< tree.rev

\* The save button overwrites the chat whatever it holds; a chat deleted meanwhile is refused.
update ==
  \E p \in Pages :
    /\ pages[p].tail # <<>>
    /\ LET task == Head(pages[p].tail) IN
       /\ task.hand /\ task.into # Unsaved
       /\ IF task.into \in DOMAIN library
          THEN /\ library' = Stored(task.into, task.tree)
               /\ byHand' = IF Continues(task.tree, library[task.into].chat) THEN byHand
                            ELSE byHand \cup {task.tree.root, library[task.into].chat.root}
               /\ pages' = SavedBy(p, task.into)
          ELSE /\ pages' = [pages EXCEPT ![p].tail = Tail(@)]
               /\ UNCHANGED <<library, byHand>>
    /\ UNCHANGED <<live, made, droppedEdits, failures>>

\* A duplicate's nodes are renamed, its root among them.
duplicate ==
  \E id \in DOMAIN library :
    /\ OneDeed /\ made.records < MaxRecords
    /\ made' = [Done EXCEPT !.records = @ + 1, !.roots = @ + 1]
    /\ library' = Stored(made'.records, [library[id].chat EXCEPT !.root = made'.roots])
    /\ UNCHANGED <<live, pages, byHand, droppedEdits, failures>>

delete_chat ==
  \E id \in DOMAIN library :
    /\ OneDeed /\ made' = Done
    /\ library' = [i \in DOMAIN library \ {id} |-> library[i]]
    /\ UNCHANGED <<live, pages, byHand, droppedEdits, failures>>

\* The flush before opening or clearing has succeeded.
Flushed(p) == pages[p].tail = <<>> /\ ~pages[p].timer /\ pages[p].status # "error"

\* The drawer has read the chat it will restore and the tree it would put back.
openConversation ==
  \E p \in Pages, id \in DOMAIN library :
    /\ OneDeed /\ made' = Done /\ Flushed(p) /\ pages[p].doing = NoneOpen
    /\ pages' = [pages EXCEPT ![p].doing =
         [at |-> "read", id |-> id, chat |-> library[id].chat, before |-> live]]
    /\ UNCHANGED <<live, library, byHand, droppedEdits, failures>>

\* The server takes the chat.
restoreConversationSnapshot ==
  \E p \in Pages :
    LET opening == pages[p].doing IN
    /\ opening.at = "read" /\ CanMutate
    /\ Replaced(replacing(opening.chat))
    /\ pages' = [pages EXCEPT ![p].doing.at = "applied"]
    /\ UNCHANGED <<library, made, byHand, failures>>

\* The list of chats closes over the tree that was fetched.
Opened ==
  \E p \in Pages :
    /\ pages[p].doing.at = "applied"
    /\ pages' = [pages EXCEPT ![p] =
         [Shows([@ EXCEPT !.doing = NoneOpen], live) EXCEPT !.active = pages[p].doing.id]]
    /\ UNCHANGED <<live, library, made, byHand, droppedEdits, failures>>

\* A step of the restore fails, the server's own or a later one: everything is put back.
rollbackWorkspace ==
  \E p \in Pages :
    /\ ListOpen(pages[p]) /\ CanMutate /\ failures < MaxFailures
    /\ failures' = failures + 1
    /\ Replaced(replacing(pages[p].doing.before))
    /\ pages' = [pages EXCEPT ![p] = Shows([@ EXCEPT !.doing = NoneOpen], live')]
    /\ UNCHANGED <<library, made, byHand>>

\* Clearing flushes, then starts another tree; the chat stays in the library.
clear ==
  \E p \in Pages :
    /\ OneDeed /\ made' = Done /\ Flushed(p) /\ pages[p].doing = NoneOpen
    /\ pages' = [pages EXCEPT ![p].doing = [at |-> "clear"]]
    /\ UNCHANGED <<live, library, byHand, droppedEdits, failures>>

reset ==
  \E p \in Pages :
    /\ pages[p].doing.at = "clear" /\ CanMutate
    /\ made' = [made EXCEPT !.roots = @ + 1]
    /\ Replaced(Chat(made'.roots, live.rev + 1, {}))
    /\ pages' = [pages EXCEPT ![p] =
         [Shows([@ EXCEPT !.doing = NoneOpen], live') EXCEPT !.active = Unsaved]]
    /\ UNCHANGED <<library, byHand, failures>>

\* A page that is loaded again forgets its saves in line and which chat it had open.
runBootstrap ==
  \E p \in Pages :
    /\ OneDeed /\ made' = Done
    /\ pages' = [pages EXCEPT ![p] = [NewPage(live) EXCEPT !.timer = TRUE, !.status = "pending"]]
    /\ UNCHANGED <<live, library, byHand, droppedEdits, failures>>

LibraryNext ==
  \/ TreeEdited \/ PageHears \/ flush \/ autosave
  \/ saveByHand \/ create \/ update \/ duplicate \/ delete_chat
  \/ openConversation \/ restoreConversationSnapshot \/ Opened \/ rollbackWorkspace
  \/ clear \/ reset \/ runBootstrap

-----------------------------------------------------------------------------
\* Properties.

\* Autosaves of many pages keep one chat of a tree; only the save button makes two.
OneChatPerTree ==
  \A root \in {library[id].chat.root : id \in DOMAIN library} :
    Cardinality(Matching(root)) > 1 => root \in byHand

\* What a page calls saved under a chat of its tree is in the library until it changes,
\* but for edits that opening or clearing a chat took from the server's tree; the open
\* list of chats holds the autosave back, and the save button may write over it.
SavedIsSaved ==
  \A p \in Pages :
    LET page == pages[p]
        work == page.tree.work \ droppedEdits
    IN
    /\ page.status = "saved" /\ page.active \in Matching(page.tree.root) /\ ~ListOpen(page)
    /\ ~page.timer /\ page.tail = <<>> /\ page.tree.root \notin byHand
    => \E id \in Matching(page.tree.root) : work \subseteq library[id].chat.work

\* A chat keeps its tree, and loses no edit but those that opening or clearing a chat
\* took from the server's tree: unless the save button writes over it a tree that
\* does not continue it, which update does not look at.
WorkIsKept ==
  \A id \in DOMAIN library \cap DOMAIN library' :
    \/ /\ library'[id].chat.root = library[id].chat.root
       /\ library[id].chat.work \ library'[id].chat.work \subseteq droppedEdits'
    \/ update /\ ~Continues(library'[id].chat, library[id].chat)

\* However the autosaves of pages that share a server and lag behind it interleave
\* with each other and with saving, opening, clearing, duplicating and deleting chats,
\* the library holds one chat of a tree, with everything any page was told is saved
\* and the server did not drop; only the save button can write over a chat.
ChatsAreKept == [](OneChatPerTree /\ SavedIsSaved) /\ [][WorkIsKept]_libraryVars
=============================================================================
